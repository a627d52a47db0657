------------------------ MODULE V2PeriodRewardsProofs ------------------------
(***************************************************************************)
(* Proofs about V2PeriodRewards and V2CompState for every set of markets   *)
(* and users, every chain, every range and every page of users.            *)
(***************************************************************************)
EXTENDS V2CompState, SumTheorems

-----------------------------------------------------------------------------
(* Arithmetic of a state.                                                  *)

Positive == Nat \ {0}
PoolsOf(T) == [Pools -> [Users -> T]]

StateType ==
  [rewardsFrom : Nat, index : [Pools -> Nat], at : [Pools -> Nat],
   speed : [Pools -> Nat], balance : [Accounts -> Nat],
   principal : [Accounts -> Nat], since : [Accounts -> Positive],
   borrowIndex : [Markets -> Positive], user : PoolsOf(Nat),
   accrued : [Users -> Nat], paid : [Users -> Nat],
   credited : PoolsOf(Nat), phantom : PoolsOf(Nat),
   emitted : SUBSET (Pools \X Users), active : SUBSET Accounts]

LEMMA ScalesPositive ==
  /\ DoubleScale \in Positive /\ ExpScale \in Positive
  /\ InitialIndex = DoubleScale /\ InitialIndex \in Positive
BY ScaleAssumption DEF Positive, InitialIndex

LEMMA ProductMono ==
  ASSUME NEW x \in Nat, NEW y \in Nat, x <= y, NEW n \in Nat
  PROVE  x * n \in Nat /\ y * n \in Nat /\ x * n <= y * n
<1>1. PICK d \in Nat : y = x + d
  <2>1. y - x \in Nat /\ y = x + (y - x) OBVIOUS
  <2>2. QED BY <2>1
<1>2. d * n \in Nat /\ x * n \in Nat BY Products
<1>3. (x + d) * n = x * n + d * n OBVIOUS
<1>4. QED BY <1>1, <1>2, <1>3

LEMMA DivType ==
  ASSUME NEW x \in Nat, NEW n \in Positive
  PROVE  x \div n \in Nat
BY DEF Positive

LEMMA PoolParts ==
  ASSUME NEW p \in Pools
  PROVE  /\ p[1] \in Markets /\ p[2] \in Sides /\ p = <<p[1], p[2]>>
         /\ p[2] = "supply" \/ p[2] = "borrow"
BY DEF Pools, Sides

LEMMA AccountIs ==
  ASSUME NEW m \in Markets, NEW u \in Users
  PROVE  <<m, u>> \in Accounts
BY DEF Accounts

LEMMA FieldsOf ==
  ASSUME NEW st \in StateType
  PROVE  /\ st.rewardsFrom \in Nat /\ st.index \in [Pools -> Nat]
         /\ st.at \in [Pools -> Nat] /\ st.speed \in [Pools -> Nat]
         /\ st.balance \in [Accounts -> Nat]
         /\ st.principal \in [Accounts -> Nat]
         /\ st.since \in [Accounts -> Positive]
         /\ st.borrowIndex \in [Markets -> Positive]
         /\ st.user \in PoolsOf(Nat) /\ st.accrued \in [Users -> Nat]
         /\ st.paid \in [Users -> Nat] /\ st.credited \in PoolsOf(Nat)
         /\ st.phantom \in PoolsOf(Nat)
         /\ st.emitted \in SUBSET (Pools \X Users)
         /\ st.active \in SUBSET Accounts
         /\ st = [rewardsFrom |-> st.rewardsFrom, index |-> st.index,
                  at |-> st.at, speed |-> st.speed, balance |-> st.balance,
                  principal |-> st.principal, since |-> st.since,
                  borrowIndex |-> st.borrowIndex, user |-> st.user,
                  accrued |-> st.accrued, paid |-> st.paid,
                  credited |-> st.credited, phantom |-> st.phantom,
                  emitted |-> st.emitted, active |-> st.active]
BY DEF StateType

LEMMA StoredType ==
  ASSUME NEW st \in StateType, NEW m \in Markets, NEW u \in Users
  PROVE  /\ st.balance[<<m, u>>] \in Nat /\ st.principal[<<m, u>>] \in Nat
         /\ st.borrowIndex[m] \in Positive
         /\ Stored(st, m, u) \in Nat
         /\ st.principal[<<m, u>>] = 0 => Stored(st, m, u) = 0
<1>1. /\ st.balance[<<m, u>>] \in Nat /\ st.principal[<<m, u>>] \in Nat
      /\ st.since[<<m, u>>] \in Positive /\ st.borrowIndex[m] \in Positive
  BY FieldsOf, AccountIs
<1>2. Positive \subseteq Nat BY DEF Positive
<1>3. PICK x, y, z : x = st.principal[<<m, u>>] /\ y = st.borrowIndex[m]
                     /\ z = st.since[<<m, u>>]
  OBVIOUS
<1>4. x \in Nat /\ y \in Nat /\ z \in Positive BY <1>1, <1>2, <1>3
<1>5. x * y \in Nat /\ (x = 0 => x * y = 0) BY <1>4, Products
<1>6. (x * y) \div z \in Nat BY <1>4, <1>5, DivType
<1>7. x = 0 => (x * y) \div z = 0 BY <1>4, <1>5 DEF Positive
<1>8. QED BY <1>1, <1>3, <1>6, <1>7 DEF Stored

LEMMA ShareType ==
  ASSUME NEW st \in StateType, NEW p \in Pools, NEW u \in Users
  PROVE  /\ ShareOf(st, p, u) \in Nat
         /\ st.balance[<<p[1], u>>] = 0 /\ st.principal[<<p[1], u>>] = 0
              => ShareOf(st, p, u) = 0
<1>1. p[1] \in Markets BY PoolParts
<1>2. PICK s, bi : s = Stored(st, p[1], u) /\ bi = st.borrowIndex[p[1]] OBVIOUS
<1>3. s \in Nat /\ bi \in Positive /\ (st.principal[<<p[1], u>>] = 0 => s = 0)
      /\ st.balance[<<p[1], u>>] \in Nat
  BY <1>1, <1>2, StoredType
<1>4. s * ExpScale \in Nat /\ (s = 0 => s * ExpScale = 0)
  BY <1>3, ScalesPositive, Products DEF Positive
<1>5. (s * ExpScale) \div bi \in Nat BY <1>3, <1>4, DivType
<1>6. s = 0 => (s * ExpScale) \div bi = 0 BY <1>3, <1>4 DEF Positive
<1>7. QED BY <1>2, <1>3, <1>5, <1>6 DEF ShareOf

LEMMA FiniteUsers == IsFiniteSet(Users) /\ IsFiniteSet(Markets)
BY RewardsAssumption

LEMMA FinitePools == IsFiniteSet(Pools) /\ IsFiniteSet(Accounts)
<1>1. IsFiniteSet(Sides)
  <2>1. IsFiniteSet({"supply"}) BY FS_Singleton
  <2>2. IsFiniteSet({"supply"} \cup {"borrow"}) BY <2>1, FS_AddElement
  <2>3. Sides = {"supply"} \cup {"borrow"} BY DEF Sides
  <2>4. QED BY <2>2, <2>3
<1>2. QED BY <1>1, FiniteUsers, FS_Product DEF Pools, Accounts

LEMMA SharesType ==
  ASSUME NEW st \in StateType, NEW p \in Pools
  PROVE  /\ TotalSupply(st, p[1]) \in Nat /\ TotalBorrows(st, p[1]) \in Nat
         /\ Shares(st, p) \in Nat
<1>1. p[1] \in Markets BY PoolParts
<1>2. TotalSupply(st, p[1]) \in Nat
  <2> DEFINE f == [u \in Users |-> st.balance[<<p[1], u>>]]
  <2>1. \A u \in Users : f[u] \in Nat BY <1>1, StoredType
  <2>2. DOMAIN f = Users OBVIOUS
  <2> HIDE DEF f
  <2>3. SumFunctionOnSet(f, Users) \in Nat BY <2>1, FiniteUsers, SumType
  <2>4. QED BY <2>2, <2>3 DEF TotalSupply, SumFunction, f
<1>3. TotalBorrows(st, p[1]) \in Nat
  <2> DEFINE f == [u \in Users |-> Stored(st, p[1], u)]
  <2>1. \A u \in Users : f[u] \in Nat BY <1>1, StoredType
  <2>2. DOMAIN f = Users OBVIOUS
  <2> HIDE DEF f
  <2>3. SumFunctionOnSet(f, Users) \in Nat BY <2>1, FiniteUsers, SumType
  <2>4. QED BY <2>2, <2>3 DEF TotalBorrows, SumFunction, f
<1>4. st.borrowIndex[p[1]] \in Positive BY <1>1, FieldsOf
<1>5. (TotalBorrows(st, p[1]) * ExpScale) \in Nat
  BY <1>3, ScalesPositive, Products DEF Positive
<1>6. (TotalBorrows(st, p[1]) * ExpScale) \div st.borrowIndex[p[1]] \in Nat
  BY <1>4, <1>5, DivType
<1>7. QED BY <1>2, <1>3, <1>6 DEF Shares

(* An index does not fall.                                                 *)
LEMMA IndexGrows ==
  ASSUME NEW st \in StateType, NEW p \in Pools, NEW b \in Nat, NEW c \in Nat,
         st.at[p] <= b, b <= c
  PROVE  /\ IndexAt(st, p, b) \in Nat /\ IndexAt(st, p, c) \in Nat
         /\ st.index[p] \in Nat
         /\ st.index[p] <= IndexAt(st, p, b)
         /\ IndexAt(st, p, b) <= IndexAt(st, p, c)
<1>1. st.index[p] \in Nat /\ st.at[p] \in Nat /\ st.speed[p] \in Nat BY FieldsOf
<1>2. PICK i, a, v, n : i = st.index[p] /\ a = st.at[p] /\ v = st.speed[p]
                        /\ n = Shares(st, p)
  OBVIOUS
<1>3. i \in Nat /\ a \in Nat /\ v \in Nat /\ n \in Nat /\ a <= b
  BY <1>1, <1>2, SharesType
<1>4. b - a \in Nat /\ c - a \in Nat /\ b - a <= c - a BY <1>3
<1>5. /\ (b - a) * v \in Nat /\ (c - a) * v \in Nat
      /\ (b - a) * v <= (c - a) * v
  BY <1>3, <1>4, ProductMono
<1>6. /\ (b - a) * v * DoubleScale \in Nat /\ (c - a) * v * DoubleScale \in Nat
      /\ (b - a) * v * DoubleScale <= (c - a) * v * DoubleScale
  BY <1>5, ScalesPositive, ProductMono DEF Positive
<1>7. PICK x, y : x = (b - a) * v * DoubleScale /\ y = (c - a) * v * DoubleScale
  OBVIOUS
<1>8. x \in Nat /\ y \in Nat /\ x <= y BY <1>6, <1>7
<1>9. IndexAt(st, p, b) = IF n = 0 THEN i ELSE i + x \div n
  BY <1>2, <1>7 DEF IndexAt
<1>10. IndexAt(st, p, c) = IF n = 0 THEN i ELSE i + y \div n
  BY <1>2, <1>7 DEF IndexAt
<1>11. n # 0 => x \div n \in Nat /\ y \div n \in Nat /\ x \div n <= y \div n
  BY <1>3, <1>8, DivMono
<1>12. QED BY <1>2, <1>3, <1>9, <1>10, <1>11

(* In the block it was moved in, an index is what is stored.               *)
LEMMA IndexStored ==
  ASSUME NEW st \in StateType, NEW p \in Pools, NEW b \in Nat, st.at[p] = b
  PROVE  IndexAt(st, p, b) = st.index[p]
<1>1. st.index[p] \in Nat /\ st.speed[p] \in Nat BY FieldsOf
<1>2. PICK n : n = Shares(st, p) OBVIOUS
<1>3. n \in Nat BY <1>2, SharesType
<1>4. (b - b) * st.speed[p] * DoubleScale = 0
  BY <1>1, ScalesPositive, Products DEF Positive
<1>5. n # 0 => 0 \div n = 0 BY <1>3
<1>6. QED BY <1>1, <1>2, <1>4, <1>5 DEF IndexAt

(* The index a user starts from.                                           *)
From(st, p, u) == IF st.user[p][u] = 0 THEN InitialIndex ELSE st.user[p][u]

LEMMA CreditIs ==
  ASSUME NEW st \in StateType, NEW p \in Pools, NEW u \in Users, NEW b,
         IndexAt(st, p, b) \in Nat, IndexAt(st, p, b) >= InitialIndex,
         st.user[p][u] <= IndexAt(st, p, b)
  PROVE  /\ IndexAt(st, p, b) - From(st, p, u) \in Nat
         /\ Credit(st, p, u, b) \in Nat
         /\ ShareOf(st, p, u) = 0 => Credit(st, p, u, b) = 0
         /\ IndexAt(st, p, b) = From(st, p, u) => Credit(st, p, u, b) = 0
<1>1. st.user[p][u] \in Nat BY FieldsOf DEF PoolsOf
<1>2. IndexAt(st, p, b) - From(st, p, u) \in Nat
  BY <1>1, ScalesPositive DEF From, Positive
<1>3. PICK d, s : d = IndexAt(st, p, b) - From(st, p, u) /\ s = ShareOf(st, p, u)
  OBVIOUS
<1>4. d \in Nat /\ s \in Nat BY <1>2, <1>3, ShareType
<1>5. s * d \in Nat /\ (s = 0 => s * d = 0) /\ (d = 0 => s * d = 0)
  BY <1>4, Products
<1>6. (s * d) \div DoubleScale \in Nat BY <1>5, ScalesPositive, DivType
<1>7. s * d = 0 => (s * d) \div DoubleScale = 0
  BY <1>5, ScalesPositive DEF Positive
<1>8. Credit(st, p, u, b) = (s * d) \div DoubleScale BY <1>3 DEF Credit, From
<1>9. IndexAt(st, p, b) = From(st, p, u) => d = 0 BY <1>3, <1>4
<1>10. QED BY <1>2, <1>3, <1>5, <1>6, <1>7, <1>8, <1>9

(* A larger index credits no less to the same share.                       *)
LEMMA CreditGrows ==
  ASSUME NEW s \in Nat, NEW i \in Nat, NEW j \in Nat, NEW from \in Nat,
         from <= i, i <= j
  PROVE  (s * (i - from)) \div DoubleScale <= (s * (j - from)) \div DoubleScale
<1>1. i - from \in Nat /\ j - from \in Nat /\ i - from <= j - from OBVIOUS
<1>2. (i - from) * s \in Nat /\ (j - from) * s \in Nat
      /\ (i - from) * s <= (j - from) * s
  BY <1>1, ProductMono
<1>3. (i - from) * s = s * (i - from) /\ (j - from) * s = s * (j - from)
  BY <1>1
<1>4. QED BY <1>2, <1>3, ScalesPositive, DivMono DEF Positive

-----------------------------------------------------------------------------
(* The chain.                                                              *)

(* First block with rewards of a market.                                   *)
Live(m, from) == IF ListedAt[m] > from THEN ListedAt[m] ELSE from

WasActive(bl, a, b) == \E c \in 0 .. b : a \in bl[c].active

(* Block b of the chain bl: indexes are those of their pools or earlier    *)
(* ones, a user who was never active in a market holds nothing there, and  *)
(* only who was active in a market with rewards has accrued any.           *)
StateOK(bl, b) ==
  /\ bl[b] \in StateType
  /\ bl[b].rewardsFrom = bl[0].rewardsFrom
  /\ \A p \in Pools :
       /\ bl[b].index[p] >= InitialIndex
       /\ bl[b].at[p] <= b \/ bl[b].at[p] <= Live(p[1], bl[0].rewardsFrom)
       /\ \A u \in Users : bl[b].user[p][u] <= bl[b].index[p]
  /\ \A a \in Accounts : ~WasActive(bl, a, b) =>
       bl[b].balance[a] = 0 /\ bl[b].principal[a] = 0
  /\ \A u \in Users : bl[b].accrued[u] > 0 =>
       \E m \in Markets : /\ Live(m, bl[0].rewardsFrom) <= b
                          /\ WasActive(bl, <<m, u>>, b)

(* No interest that could round shares of the pool otherwise.              *)
Quiet(p, st, next) ==
  p[2] = "supply" \/ st.borrowIndex[p[1]] = next.borrowIndex[p[1]]

CreditsOf(st, u) == [p \in Pools |-> st.credited[p][u]]

(* The user is credited, or goes on with the same share and index.         *)
CreditedIn(st, next, p, u, b) ==
  /\ next.user[p][u] = IndexAt(st, p, b)
  /\ next.credited[p][u] = Credit(st, p, u, b)

LeftIn(st, next, p, u) ==
  /\ next.user[p][u] = st.user[p][u]
  /\ next.credited[p][u] = 0
  /\ ShareOf(next, p, u) = ShareOf(st, p, u)

(* next follows st in block b, with rewards from block from on.            *)
Follows(st, next, b, from) ==
  /\ \A m \in Markets : st.borrowIndex[m] <= next.borrowIndex[m]
  /\ \A u \in Users :
       next.accrued[u] + next.paid[u]
         = st.accrued[u] + SumFunction(CreditsOf(next, u))
  /\ \A p \in Pools, u \in Users : next.credited[p][u] > 0 =>
       Live(p[1], from) <= b /\ ShareOf(st, p, u) > 0
  /\ \A p \in Pools : Live(p[1], from) <= b /\ Quiet(p, st, next) =>
       /\ IndexAt(next, p, b) = IndexAt(st, p, b)
       /\ \A u \in Users :
            CreditedIn(st, next, p, u, b) \/ LeftIn(st, next, p, u)

ChainOK(bl, l) ==
  /\ DOMAIN bl = 0 .. l
  /\ \A b \in 0 .. l : StateOK(bl, b)
  /\ \A b \in 1 .. l : Follows(bl[b - 1], bl[b], b, bl[0].rewardsFrom)

ChainInv == LatestBlock \in 0 .. LastBlock /\ ChainOK(blocks, LatestBlock)

(* next comes of st in block b when these pools are moved and these users  *)
(* credited.                                                               *)
IsMove(st, next, live, us, b) ==
  /\ next \in StateType /\ next.rewardsFrom = st.rewardsFrom
  /\ \A p \in live : next.index[p] = IndexAt(st, p, b) /\ next.at[p] = b
  /\ \A p \in Pools \ live :
       /\ next.index[p] = st.index[p] /\ next.at[p] = st.at[p]
       /\ next.speed[p] = st.speed[p]
  /\ \A p \in Pools, u \in Users :
       IF p \in live /\ u \in us THEN CreditedIn(st, next, p, u, b)
       ELSE next.user[p][u] = st.user[p][u] /\ next.credited[p][u] = 0
  /\ \A u \in Users :
       next.accrued[u] + next.paid[u]
         = st.accrued[u] + SumFunction(CreditsOf(next, u))
  /\ \A m \in Markets : st.borrowIndex[m] <= next.borrowIndex[m]
  /\ \A a \in Accounts \ next.active :
       /\ st.balance[a] = 0 => next.balance[a] = 0
       /\ st.principal[a] = 0 => next.principal[a] = 0

(* Shares change for who is credited only, and only in pools that are      *)
(* moved or not live yet.                                                  *)
SharesKept(st, next, live, us, b, from) ==
  \A p \in Pools : Live(p[1], from) <= b /\ Quiet(p, st, next) =>
    /\ p \notin live => Shares(next, p) = Shares(st, p)
    /\ \A u \in Users : p \notin live \/ u \notin us =>
         ShareOf(next, p, u) = ShareOf(st, p, u)

(* st may follow block l.                                                  *)
MayFollow(bl, l, next) ==
  /\ next \in StateType
  /\ next.rewardsFrom = bl[0].rewardsFrom
  /\ \A p \in Pools :
       /\ next.index[p] >= InitialIndex
       /\ next.at[p] <= l + 1 \/ next.at[p] <= Live(p[1], bl[0].rewardsFrom)
       /\ \A u \in Users : next.user[p][u] <= next.index[p]
  /\ \A a \in Accounts :
       bl[l].balance[a] = 0 /\ bl[l].principal[a] = 0 /\ a \notin next.active
         => next.balance[a] = 0 /\ next.principal[a] = 0
  /\ Follows(bl[l], next, l + 1, bl[0].rewardsFrom)

(* Who has accrued anything held something.                                *)
LEMMA AccruedOK ==
  ASSUME NEW bl, NEW l \in Nat, StateOK(bl, l), NEW next, MayFollow(bl, l, next),
         NEW u \in Users, next.accrued[u] > 0
  PROVE  \E m \in Markets : /\ Live(m, bl[0].rewardsFrom) <= l + 1
                            /\ WasActive(bl, <<m, u>>, l)
<1> DEFINE c == CreditsOf(next, u)
<1>0. bl[l] \in StateType /\ next \in StateType BY DEF StateOK, MayFollow
<1>1. next.accrued[u] \in Nat /\ next.paid[u] \in Nat /\ bl[l].accrued[u] \in Nat
  BY <1>0, FieldsOf
<1>2. next.accrued[u] + next.paid[u] = bl[l].accrued[u] + SumFunction(c)
  BY DEF MayFollow, Follows
<1>3. CASE bl[l].accrued[u] > 0
  <2>1. PICK m \in Markets : Live(m, bl[0].rewardsFrom) <= l
                             /\ WasActive(bl, <<m, u>>, l)
    BY <1>3 DEF StateOK
  <2>2. bl[0].rewardsFrom \in Nat /\ ListedAt[m] \in Nat
    BY <1>0, ChainAssumption, FieldsOf DEF StateOK
  <2>3. Live(m, bl[0].rewardsFrom) \in Nat BY <2>2 DEF Live
  <2>4. Live(m, bl[0].rewardsFrom) <= l + 1 BY <2>1, <2>3
  <2>5. QED BY <2>1, <2>4
<1>4. CASE \E p \in Pools : next.credited[p][u] > 0
  <2>1. PICK p \in Pools : next.credited[p][u] > 0 BY <1>4
  <2>2. Live(p[1], bl[0].rewardsFrom) <= l + 1 /\ ShareOf(bl[l], p, u) > 0
    BY <2>1 DEF MayFollow, Follows
  <2>3. p[1] \in Markets BY PoolParts
  <2>4. ~(bl[l].balance[<<p[1], u>>] = 0 /\ bl[l].principal[<<p[1], u>>] = 0)
    BY <1>0, <2>2, ShareType
  <2>5. WasActive(bl, <<p[1], u>>, l)
    BY <2>3, <2>4, AccountIs DEF StateOK
  <2>6. QED BY <2>2, <2>3, <2>5
<1>5. CASE ~(bl[l].accrued[u] > 0) /\ ~\E p \in Pools : next.credited[p][u] > 0
  <2>1. \A p \in Pools : next.credited[p][u] \in Nat
    BY <1>0, FieldsOf DEF PoolsOf
  <2>2. \A p \in Pools : c[p] = 0 BY <1>5, <2>1 DEF CreditsOf
  <2>3. DOMAIN c = Pools BY DEF CreditsOf
  <2>4. IsFiniteSet(Pools) BY FinitePools
  <2> HIDE DEF c
  <2>5. SumFunction(c) = 0 BY <2>2, <2>3, <2>4, SumZero DEF SumFunction
  <2>6. QED BY <1>1, <1>2, <1>5, <2>5, SMTT(30)
<1>6. QED BY <1>3, <1>4, <1>5

(* A block that may follow is appended.                                    *)
LEMMA Appended ==
  ASSUME NEW bl, NEW l \in Nat, NEW st, ChainOK(bl, l), MayFollow(bl, l, st),
         NEW cl, cl = Over([b \in {l + 1} |-> st], bl)
  PROVE  ChainOK(cl, l + 1)
<1>1. DOMAIN cl = 0 .. l + 1 BY DEF ChainOK, Over
<1>2. cl[l + 1] = st BY DEF Over
<1>3. \A b \in 0 .. l : cl[b] = bl[b] BY DEF ChainOK, Over
<1>a. cl[0] = bl[0] BY <1>3
<1>b. StateOK(bl, l) BY DEF ChainOK
<1>4. ASSUME NEW b \in 0 .. l PROVE StateOK(cl, b)
  <2>1. StateOK(bl, b) BY DEF ChainOK
  <2>2. cl[b] = bl[b] /\ cl[0] = bl[0] /\ \A c \in 0 .. b : cl[c] = bl[c]
    BY <1>3
  <2>3. \A a : WasActive(cl, a, b) <=> WasActive(bl, a, b)
    BY <2>2 DEF WasActive
  <2>4. QED BY <2>1, <2>2, <2>3 DEF StateOK
<1>5. StateOK(cl, l + 1)
  <2>1. \A a : WasActive(bl, a, l) \/ a \in st.active => WasActive(cl, a, l + 1)
    <3>1. \A c \in 0 .. l : c \in 0 .. l + 1 OBVIOUS
    <3>2. l + 1 \in 0 .. l + 1 OBVIOUS
    <3>3. QED BY <1>2, <1>3, <3>1, <3>2 DEF WasActive
  <2>2. ASSUME NEW a \in Accounts, ~WasActive(cl, a, l + 1)
        PROVE  st.balance[a] = 0 /\ st.principal[a] = 0
    <3>1. ~WasActive(bl, a, l) /\ a \notin st.active BY <2>1, <2>2
    <3>2. bl[l].balance[a] = 0 /\ bl[l].principal[a] = 0
      BY <1>b, <3>1 DEF StateOK
    <3>3. QED BY <3>1, <3>2 DEF MayFollow
  <2>3. ASSUME NEW u \in Users, st.accrued[u] > 0
        PROVE  \E m \in Markets : Live(m, bl[0].rewardsFrom) <= l + 1
                                  /\ WasActive(cl, <<m, u>>, l + 1)
    <3>1. PICK m \in Markets : Live(m, bl[0].rewardsFrom) <= l + 1
                               /\ WasActive(bl, <<m, u>>, l)
      BY <1>b, <2>3, AccruedOK
    <3>2. QED BY <2>1, <3>1
  <2>4. QED BY <1>2, <1>a, <2>2, <2>3 DEF StateOK, MayFollow
<1>6. ASSUME NEW b \in 1 .. l + 1
      PROVE  Follows(cl[b - 1], cl[b], b, cl[0].rewardsFrom)
  <2>1. CASE b \in 1 .. l
    <3>1. Follows(bl[b - 1], bl[b], b, bl[0].rewardsFrom) BY <2>1 DEF ChainOK
    <3>2. QED BY <1>3, <1>a, <2>1, <3>1
  <2>2. CASE b = l + 1
    <3>1. cl[b - 1] = bl[l] BY <1>3, <2>2
    <3>2. QED BY <1>2, <1>a, <2>2, <3>1 DEF MayFollow
  <2>3. QED BY <2>1, <2>2
<1>7. \A b \in 0 .. l + 1 : StateOK(cl, b) BY <1>4, <1>5
<1>8. QED BY <1>1, <1>6, <1>7 DEF ChainOK

LEMMA LiveType ==
  ASSUME NEW m \in Markets, NEW from \in Nat
  PROVE  Live(m, from) \in Nat
BY ChainAssumption DEF Live

(* What holds of a pool in a block it is live in.                          *)
LEMMA PoolIn ==
  ASSUME NEW bl, NEW l \in Nat, StateOK(bl, l), bl[0].rewardsFrom \in Nat,
         NEW p \in Pools, NEW b \in Nat, l <= b,
         Live(p[1], bl[0].rewardsFrom) <= b
  PROVE  /\ bl[l].at[p] \in Nat /\ bl[l].at[p] <= b
         /\ bl[l].index[p] \in Nat /\ bl[l].index[p] >= InitialIndex
         /\ IndexAt(bl[l], p, b) \in Nat /\ IndexAt(bl[l], p, b) >= InitialIndex
         /\ bl[l].index[p] <= IndexAt(bl[l], p, b)
         /\ \A u \in Users :
              /\ bl[l].user[p][u] \in Nat
              /\ bl[l].user[p][u] <= IndexAt(bl[l], p, b)
              /\ From(bl[l], p, u) \in Nat
              /\ From(bl[l], p, u) <= IndexAt(bl[l], p, b)
<1>0. bl[l] \in StateType BY DEF StateOK
<1>1. bl[l].at[p] \in Nat /\ bl[l].index[p] \in Nat BY <1>0, FieldsOf
<1>2. Live(p[1], bl[0].rewardsFrom) \in Nat BY PoolParts, LiveType
<1>3. bl[l].at[p] <= b BY <1>1, <1>2 DEF StateOK
<1>4. /\ IndexAt(bl[l], p, b) \in Nat
      /\ bl[l].index[p] <= IndexAt(bl[l], p, b)
  BY <1>0, <1>3, IndexGrows
<1>5. bl[l].index[p] >= InitialIndex BY DEF StateOK
<1>6. IndexAt(bl[l], p, b) >= InitialIndex
  BY <1>1, <1>4, <1>5, ScalesPositive DEF Positive
<1>7. ASSUME NEW u \in Users
      PROVE  /\ bl[l].user[p][u] \in Nat
             /\ bl[l].user[p][u] <= IndexAt(bl[l], p, b)
  <2>1. bl[l].user[p][u] \in Nat BY <1>0, FieldsOf DEF PoolsOf
  <2>2. bl[l].user[p][u] <= bl[l].index[p] BY DEF StateOK
  <2>3. QED BY <1>1, <1>4, <2>1, <2>2
<1>8. QED BY <1>1, <1>3, <1>4, <1>5, <1>6, <1>7, ScalesPositive
          DEF From, Positive

(* A move of the last block may follow it.                                 *)
LEMMA MoveFollows ==
  ASSUME NEW bl, NEW l \in Nat, StateOK(bl, l), bl[0].rewardsFrom \in Nat,
         NEW next, NEW live \in SUBSET Pools, NEW us \in SUBSET Users,
         \A p \in live : Live(p[1], bl[0].rewardsFrom) <= l + 1,
         IsMove(bl[l], next, live, us, l + 1),
         SharesKept(bl[l], next, live, us, l + 1, bl[0].rewardsFrom)
  PROVE  MayFollow(bl, l, next)
<1> DEFINE st == bl[l]
           b == l + 1
           from == bl[0].rewardsFrom
<1>0. st \in StateType /\ next \in StateType BY DEF StateOK, IsMove
<1>1. next.rewardsFrom = from BY DEF IsMove, StateOK
<1>2. b \in Nat /\ l <= b OBVIOUS
<1>3. ASSUME NEW p \in Pools
      PROVE  /\ next.index[p] >= InitialIndex
             /\ next.at[p] <= b \/ next.at[p] <= Live(p[1], from)
             /\ \A u \in Users : next.user[p][u] <= next.index[p]
  <2>1. CASE p \in live
    <3>1. next.index[p] = IndexAt(st, p, b) /\ next.at[p] = b
      BY <2>1 DEF IsMove
    <3>2. Live(p[1], from) <= b BY <2>1
    <3>3. /\ IndexAt(st, p, b) \in Nat /\ IndexAt(st, p, b) >= InitialIndex
          /\ \A u \in Users : st.user[p][u] <= IndexAt(st, p, b)
      BY <1>2, <3>2, PoolIn
    <3>4. \A u \in Users : \/ next.user[p][u] = IndexAt(st, p, b)
                           \/ next.user[p][u] = st.user[p][u]
      BY DEF IsMove, CreditedIn
    <3>5. QED BY <1>2, <3>1, <3>3, <3>4
  <2>2. CASE p \notin live
    <3>1. next.index[p] = st.index[p] /\ next.at[p] = st.at[p]
          /\ \A u \in Users : next.user[p][u] = st.user[p][u]
      BY <2>2 DEF IsMove
    <3>2. /\ st.index[p] >= InitialIndex
          /\ st.at[p] <= l \/ st.at[p] <= Live(p[1], from)
          /\ \A u \in Users : st.user[p][u] <= st.index[p]
      BY DEF StateOK
    <3>3. st.at[p] \in Nat BY <1>0, FieldsOf
    <3>4. QED BY <3>1, <3>2, <3>3
  <2>3. QED BY <2>1, <2>2
<1>4. \A a \in Accounts :
        st.balance[a] = 0 /\ st.principal[a] = 0 /\ a \notin next.active
          => next.balance[a] = 0 /\ next.principal[a] = 0
  BY DEF IsMove
<1>5. ASSUME NEW p \in Pools, NEW u \in Users, next.credited[p][u] > 0
      PROVE  Live(p[1], from) <= b /\ ShareOf(st, p, u) > 0
  <2>1. p \in live /\ u \in us /\ CreditedIn(st, next, p, u, b)
    BY <1>5 DEF IsMove
  <2>2. Live(p[1], from) <= b BY <2>1
  <2>3. /\ IndexAt(st, p, b) \in Nat /\ IndexAt(st, p, b) >= InitialIndex
        /\ st.user[p][u] <= IndexAt(st, p, b)
    BY <1>2, <2>2, PoolIn
  <2>4. Credit(st, p, u, b) > 0 BY <1>5, <2>1 DEF CreditedIn
  <2>5. ShareOf(st, p, u) \in Nat BY <1>0, ShareType
  <2>6. ShareOf(st, p, u) # 0
    <3>1. ShareOf(st, p, u) = 0 => Credit(st, p, u, b) = 0
      BY <1>0, <2>3, CreditIs
    <3>2. QED BY <2>4, <3>1
  <2>7. QED BY <2>2, <2>5, <2>6
<1>6. ASSUME NEW p \in Pools, Live(p[1], from) <= b, Quiet(p, st, next)
      PROVE  /\ IndexAt(next, p, b) = IndexAt(st, p, b)
             /\ \A u \in Users :
                  CreditedIn(st, next, p, u, b) \/ LeftIn(st, next, p, u)
  <2>1. IndexAt(next, p, b) = IndexAt(st, p, b)
    <3>1. CASE p \in live
      <4>1. next.index[p] = IndexAt(st, p, b) /\ next.at[p] = b
        BY <3>1 DEF IsMove
      <4>2. QED BY <1>0, <1>2, <4>1, IndexStored
    <3>2. CASE p \notin live
      <4>1. /\ next.index[p] = st.index[p] /\ next.at[p] = st.at[p]
            /\ next.speed[p] = st.speed[p]
        BY <3>2 DEF IsMove
      <4>2. Shares(next, p) = Shares(st, p) BY <1>6, <3>2 DEF SharesKept
      <4>3. QED BY <4>1, <4>2 DEF IndexAt
    <3>3. QED BY <3>1, <3>2
  <2>2. ASSUME NEW u \in Users
        PROVE  CreditedIn(st, next, p, u, b) \/ LeftIn(st, next, p, u)
    <3>1. CASE p \in live /\ u \in us BY <3>1 DEF IsMove
    <3>2. CASE p \notin live \/ u \notin us
      <4>1. next.user[p][u] = st.user[p][u] /\ next.credited[p][u] = 0
        BY <3>2 DEF IsMove
      <4>2. ShareOf(next, p, u) = ShareOf(st, p, u)
        BY <1>6, <3>2 DEF SharesKept
      <4>3. QED BY <4>1, <4>2 DEF LeftIn
    <3>3. QED BY <3>1, <3>2
  <2>3. QED BY <2>1, <2>2
<1>7. /\ \A m \in Markets : st.borrowIndex[m] <= next.borrowIndex[m]
      /\ \A u \in Users :
           next.accrued[u] + next.paid[u]
             = st.accrued[u] + SumFunction(CreditsOf(next, u))
  BY DEF IsMove
<1>8. Follows(st, next, b, from)
  BY <1>5, <1>6, <1>7 DEF Follows
<1>9. QED BY <1>0, <1>1, <1>3, <1>4, <1>8 DEF MayFollow

-----------------------------------------------------------------------------
(* Transactions.                                                           *)

LEMMA OpenedIs ==
  ASSUME NEW st \in StateType, NEW o, o = Opened(st)
  PROVE  /\ o \in StateType
         /\ o.rewardsFrom = st.rewardsFrom /\ o.index = st.index
         /\ o.at = st.at /\ o.speed = st.speed /\ o.balance = st.balance
         /\ o.principal = st.principal /\ o.since = st.since
         /\ o.borrowIndex = st.borrowIndex /\ o.user = st.user
         /\ o.accrued = st.accrued
         /\ o.paid = [u \in Users |-> 0]
         /\ o.credited = [p \in Pools |-> [u \in Users |-> 0]]
         /\ o.phantom = [p \in Pools |-> [u \in Users |-> 0]]
         /\ o.active = {}
<1>1. /\ o.rewardsFrom = st.rewardsFrom /\ o.index = st.index
      /\ o.at = st.at /\ o.speed = st.speed /\ o.balance = st.balance
      /\ o.principal = st.principal /\ o.since = st.since
      /\ o.borrowIndex = st.borrowIndex /\ o.user = st.user
      /\ o.accrued = st.accrued
      /\ o.paid = [u \in Users |-> 0]
      /\ o.credited = [p \in Pools |-> [u \in Users |-> 0]]
      /\ o.phantom = [p \in Pools |-> [u \in Users |-> 0]]
      /\ o.emitted = {} /\ o.active = {}
      /\ o = [rewardsFrom |-> o.rewardsFrom, index |-> o.index,
              at |-> o.at, speed |-> o.speed, balance |-> o.balance,
              principal |-> o.principal, since |-> o.since,
              borrowIndex |-> o.borrowIndex, user |-> o.user,
              accrued |-> o.accrued, paid |-> o.paid,
              credited |-> o.credited, phantom |-> o.phantom,
              emitted |-> o.emitted, active |-> o.active]
  BY DEF StateType, Opened
<1>2. o.paid \in [Users -> Nat] /\ o.credited \in PoolsOf(Nat)
      /\ o.phantom \in PoolsOf(Nat) /\ o.emitted \in SUBSET (Pools \X Users)
      /\ o.active \in SUBSET Accounts
  BY <1>1 DEF PoolsOf
<1>3. o \in StateType BY <1>1, <1>2, FieldsOf DEF StateType
<1>4. QED BY <1>1, <1>3

(* What does not look at the events of the block is as before.             *)
LEMMA OpenedSame ==
  ASSUME NEW st \in StateType, NEW o, o = Opened(st), NEW p \in Pools
  PROVE  /\ Shares(o, p) = Shares(st, p)
         /\ \A b : IndexAt(o, p, b) = IndexAt(st, p, b)
         /\ \A u \in Users : ShareOf(o, p, u) = ShareOf(st, p, u)
         /\ \A u \in Users : \A b : Credit(o, p, u, b) = Credit(st, p, u, b)
<1>1. /\ o.index = st.index /\ o.at = st.at /\ o.speed = st.speed
      /\ o.balance = st.balance /\ o.principal = st.principal
      /\ o.since = st.since /\ o.borrowIndex = st.borrowIndex
      /\ o.user = st.user
  BY OpenedIs
<1>2. \A m, u : Stored(o, m, u) = Stored(st, m, u) BY <1>1 DEF Stored
<1>3. \A u : ShareOf(o, p, u) = ShareOf(st, p, u)
  BY <1>1, <1>2 DEF ShareOf
<1>4. Shares(o, p) = Shares(st, p)
  BY <1>1, <1>2 DEF Shares, TotalSupply, TotalBorrows
<1>5. \A b : IndexAt(o, p, b) = IndexAt(st, p, b)
  BY <1>1, <1>4 DEF IndexAt
<1>6. QED BY <1>1, <1>3, <1>4, <1>5 DEF Credit

LiveIn(pools, b) == {p \in pools : LiveFrom(p[1]) <= b}

(* The indexes of these pools are moved and these users credited.          *)
IsTouched(st, t, live, us, b) ==
  /\ t \in StateType
  /\ t.rewardsFrom = st.rewardsFrom /\ t.speed = st.speed
  /\ t.balance = st.balance /\ t.principal = st.principal
  /\ t.since = st.since /\ t.borrowIndex = st.borrowIndex
  /\ t.paid = [u \in Users |-> 0] /\ t.active = {}
  /\ \A p \in live : t.index[p] = IndexAt(st, p, b) /\ t.at[p] = b
  /\ \A p \in Pools \ live : t.index[p] = st.index[p] /\ t.at[p] = st.at[p]
  /\ \A p \in Pools, u \in Users :
       IF p \in live /\ u \in us THEN CreditedIn(st, t, p, u, b)
       ELSE t.user[p][u] = st.user[p][u] /\ t.credited[p][u] = 0
  /\ \A u \in Users :
       t.accrued[u] = st.accrued[u] + SumFunction(CreditsOf(t, u))

LEMMA TouchedIs ==
  ASSUME NEW bl, NEW l \in Nat, StateOK(bl, l), bl[0].rewardsFrom \in Nat,
         bl[0].rewardsFrom = RewardsFrom,
         NEW pools \in SUBSET Pools, NEW us \in SUBSET Users,
         NEW live, live = LiveIn(pools, l + 1),
         NEW t, t = Touched(Opened(bl[l]), pools, us, l + 1)
  PROVE  IsTouched(bl[l], t, live, us, l + 1)
<1> DEFINE st == bl[l]
           b == l + 1
           o == Opened(bl[l])
<1>0. st \in StateType /\ o \in StateType
      /\ b \in Nat /\ l <= b /\ live \subseteq Pools
  BY OpenedIs DEF StateOK, LiveIn
<1>1. \A p \in live : Live(p[1], bl[0].rewardsFrom) <= b
  BY DEF LiveIn, LiveFrom, Live
<1>2. \A p \in live : /\ IndexAt(st, p, b) \in Nat
                      /\ IndexAt(st, p, b) >= InitialIndex
                      /\ \A u \in Users : st.user[p][u] <= IndexAt(st, p, b)
  BY <1>0, <1>1, PoolIn
<1>3. \A p \in live, u \in Users : Credit(st, p, u, b) \in Nat
  BY <1>0, <1>2, CreditIs
<1>4. /\ \A p \in Pools : IndexAt(o, p, b) = IndexAt(st, p, b)
      /\ \A p \in Pools, u \in Users : Credit(o, p, u, b) = Credit(st, p, u, b)
  BY <1>0, OpenedSame
<1> DEFINE paidFor(u) == [p \in live |-> Credit(o, p, u, b)]
<1>5. /\ t.rewardsFrom = o.rewardsFrom /\ t.speed = o.speed
      /\ t.balance = o.balance /\ t.principal = o.principal
      /\ t.since = o.since /\ t.borrowIndex = o.borrowIndex
      /\ t.paid = o.paid /\ t.phantom = o.phantom /\ t.active = o.active
      /\ t.emitted = live \X us
      /\ t.index = [p \in Pools |-> IF p \in live THEN IndexAt(o, p, b)
                                    ELSE o.index[p]]
      /\ t.at = [p \in Pools |-> IF p \in live THEN b ELSE o.at[p]]
      /\ t.user = [p \in Pools |-> [u \in Users |->
                     IF p \in live /\ u \in us THEN IndexAt(o, p, b)
                     ELSE o.user[p][u]]]
      /\ t.credited = [p \in Pools |-> [u \in Users |->
                     IF p \in live /\ u \in us THEN Credit(o, p, u, b) ELSE 0]]
      /\ t.accrued = [u \in Users |->
                     IF u \in us THEN o.accrued[u] + SumFunction(paidFor(u))
                     ELSE o.accrued[u]]
      /\ t = [rewardsFrom |-> t.rewardsFrom, index |-> t.index,
              at |-> t.at, speed |-> t.speed, balance |-> t.balance,
              principal |-> t.principal, since |-> t.since,
              borrowIndex |-> t.borrowIndex, user |-> t.user,
              accrued |-> t.accrued, paid |-> t.paid,
              credited |-> t.credited, phantom |-> t.phantom,
              emitted |-> t.emitted, active |-> t.active]
  BY <1>0 DEF Touched, StateType, LiveIn
<1> HIDE DEF o
<1>6. /\ o.rewardsFrom = st.rewardsFrom /\ o.index = st.index
      /\ o.at = st.at /\ o.speed = st.speed /\ o.balance = st.balance
      /\ o.principal = st.principal /\ o.since = st.since
      /\ o.borrowIndex = st.borrowIndex /\ o.user = st.user
      /\ o.accrued = st.accrued
      /\ o.paid = [u \in Users |-> 0] /\ o.active = {}
  BY <1>0, OpenedIs DEF o
<1>7. t.index \in [Pools -> Nat] /\ t.at \in [Pools -> Nat]
  <2>1. \A p \in Pools : o.index[p] \in Nat /\ o.at[p] \in Nat
    BY <1>0, FieldsOf
  <2>2. \A p \in live : IndexAt(o, p, b) \in Nat BY <1>0, <1>2, <1>4
  <2>3. t.index \in [Pools -> Nat]
    <3>1. t.index = [p \in Pools |-> IF p \in live THEN IndexAt(o, p, b)
                                     ELSE o.index[p]]
      BY <1>5
    <3>2. \A p \in Pools : (IF p \in live THEN IndexAt(o, p, b)
                            ELSE o.index[p]) \in Nat
      BY <2>1, <2>2
    <3> HIDE DEF b
    <3>3. QED BY ONLY <3>1, <3>2
  <2>4. t.at \in [Pools -> Nat] BY <1>0, <1>5, <2>1
  <2>5. QED BY <2>3, <2>4
<1>8. t.user \in PoolsOf(Nat)
  <2>1. \A p \in Pools, u \in Users : o.user[p][u] \in Nat
    BY <1>0, FieldsOf DEF PoolsOf
  <2>2. QED BY <1>0, <1>2, <1>4, <1>5, <2>1, SMTT(30) DEF PoolsOf
<1>9. t.credited \in PoolsOf(Nat)
  BY <1>0, <1>3, <1>4, <1>5 DEF PoolsOf
<1>10. ASSUME NEW u \in Users
       PROVE  /\ t.accrued[u] \in Nat
              /\ t.accrued[u] = st.accrued[u] + SumFunction(CreditsOf(t, u))
  <2> DEFINE c == CreditsOf(t, u)
             d == paidFor(u)
  <2>1. DOMAIN c = Pools /\ DOMAIN d = live BY DEF CreditsOf
  <2>2. \A p \in Pools : c[p] = IF p \in live /\ u \in us
                                THEN Credit(o, p, u, b) ELSE 0
    BY <1>5 DEF CreditsOf
  <2>3. \A p \in live : d[p] = Credit(o, p, u, b) /\ d[p] \in Nat
    BY <1>0, <1>3, <1>4
  <2>4. st.accrued[u] \in Nat BY <1>0, FieldsOf
  <2>5. t.accrued[u] = IF u \in us THEN st.accrued[u] + SumFunction(d)
                       ELSE st.accrued[u]
    <3>1. t.accrued[u] = IF u \in us THEN o.accrued[u] + SumFunction(d)
                         ELSE o.accrued[u]
      <4> HIDE DEF c, b
      <4>1. QED BY <1>5
    <3>2. QED BY <1>6, <3>1
  <2> HIDE DEF c, d
  <2>6. IsFiniteSet(live) BY <1>0, FinitePools, FS_Subset
  <2>7. CASE u \in us
    <3>1. SumFunctionOnSet(c, Pools) = SumFunctionOnSet(c, live)
      <4>1. \A p \in live : c[p] \in Nat BY <1>0, <2>2, <2>3, <2>7
      <4>2. \A p \in Pools \ live : c[p] = 0 BY <2>2
      <4>3. QED BY <1>0, <4>1, <4>2, FinitePools, SumWithin
    <3>2. \A p \in live : d[p] \in Nat /\ c[p] = d[p]
      BY <1>0, <2>2, <2>3, <2>7
    <3>3. SumFunctionOnSet(c, live) = SumFunctionOnSet(d, live)
      BY <2>6, <3>2, SumSame
    <3>4. SumFunctionOnSet(d, live) \in Nat BY <2>3, <2>6, SumType
    <3>5. SumFunction(c) = SumFunction(d) /\ SumFunction(d) \in Nat
      BY <2>1, <3>1, <3>3, <3>4 DEF SumFunction
    <3>6. QED BY <2>4, <2>5, <2>7, <3>5 DEF c
  <2>8. CASE u \notin us
    <3>1. SumFunctionOnSet(c, Pools) = 0
      BY <2>2, <2>8, FinitePools, SumZero
    <3>2. SumFunction(c) = 0 BY <2>1, <3>1 DEF SumFunction
    <3>3. QED BY <2>4, <2>5, <2>8, <3>2 DEF c
  <2>9. QED BY <2>7, <2>8
<1>11. t.accrued \in [Users -> Nat] BY <1>5, <1>10
<1>12. t.emitted \in SUBSET (Pools \X Users) BY <1>0, <1>5
<1>13. t \in StateType
  BY <1>0, <1>5, <1>7, <1>8, <1>9, <1>11, <1>12, FieldsOf DEF StateType
<1>14. \A p \in Pools, u \in Users :
         IF p \in live /\ u \in us THEN CreditedIn(st, t, p, u, b)
         ELSE t.user[p][u] = st.user[p][u] /\ t.credited[p][u] = 0
  BY <1>4, <1>5, <1>6 DEF CreditedIn
<1>15. /\ \A p \in live : t.index[p] = IndexAt(st, p, b) /\ t.at[p] = b
       /\ \A p \in Pools \ live : t.index[p] = st.index[p] /\ t.at[p] = st.at[p]
  BY <1>0, <1>4, <1>5, <1>6
<1>16. QED BY <1>5, <1>6, <1>10, <1>13, <1>14, <1>15 DEF IsTouched
(* What a user holds in a pool.                                            *)
SameHolding(st, next, p, u) ==
  IF p[2] = "supply" THEN next.balance[<<p[1], u>>] = st.balance[<<p[1], u>>]
  ELSE /\ next.principal[<<p[1], u>>] = st.principal[<<p[1], u>>]
       /\ next.since[<<p[1], u>>] = st.since[<<p[1], u>>]

LEMMA HoldingsKept ==
  ASSUME NEW st, NEW next, NEW live \in SUBSET Pools, NEW us, NEW b, NEW from,
         \A p \in Pools, u \in Users :
           Live(p[1], from) <= b /\ (p \notin live \/ u \notin us) =>
             SameHolding(st, next, p, u)
  PROVE  SharesKept(st, next, live, us, b, from)
<1> SUFFICES ASSUME NEW p \in Pools, Live(p[1], from) <= b, Quiet(p, st, next)
             PROVE  /\ p \notin live => Shares(next, p) = Shares(st, p)
                    /\ \A u \in Users : p \notin live \/ u \notin us =>
                         ShareOf(next, p, u) = ShareOf(st, p, u)
  BY DEF SharesKept
<1>1. p[2] = "supply" \/ next.borrowIndex[p[1]] = st.borrowIndex[p[1]]
  BY DEF Quiet
<1>2. ASSUME NEW u \in Users, SameHolding(st, next, p, u)
      PROVE  /\ ShareOf(next, p, u) = ShareOf(st, p, u)
             /\ p[2] = "supply" =>
                  next.balance[<<p[1], u>>] = st.balance[<<p[1], u>>]
             /\ p[2] # "supply" =>
                  Stored(next, p[1], u) = Stored(st, p[1], u)
  BY <1>1, <1>2 DEF SameHolding, ShareOf, Stored
<1>3. ASSUME p \notin live
      PROVE  Shares(next, p) = Shares(st, p)
  <2>1. \A u \in Users : SameHolding(st, next, p, u) BY <1>3
  <2>2. CASE p[2] = "supply"
    <3>1. [u \in Users |-> next.balance[<<p[1], u>>]]
            = [u \in Users |-> st.balance[<<p[1], u>>]]
      BY <1>2, <2>1, <2>2
    <3>2. QED BY <2>2, <3>1 DEF Shares, TotalSupply
  <2>3. CASE p[2] # "supply"
    <3>1. [u \in Users |-> Stored(next, p[1], u)]
            = [u \in Users |-> Stored(st, p[1], u)]
      BY <1>2, <2>1, <2>3
    <3>2. QED BY <1>1, <2>3, <3>1 DEF Shares, TotalBorrows
  <2>4. QED BY <2>2, <2>3
<1>4. QED BY <1>2, <1>3

LEMMA MoveOf ==
  ASSUME NEW st \in StateType, NEW t, NEW live \in SUBSET Pools,
         NEW us \in SUBSET Users, NEW b, IsTouched(st, t, live, us, b),
         NEW next \in StateType,
         next.rewardsFrom = t.rewardsFrom, next.index = t.index,
         next.at = t.at, next.user = t.user, next.credited = t.credited,
         \/ next.borrowIndex = t.borrowIndex
         \/ \A m \in Markets : t.borrowIndex[m] <= next.borrowIndex[m],
         \A p \in Pools \ live : next.speed[p] = t.speed[p],
         \A u \in Users : next.accrued[u] + next.paid[u] = t.accrued[u],
         \A a \in Accounts \ next.active :
           next.balance[a] = t.balance[a] /\ next.principal[a] = t.principal[a]
  PROVE  IsMove(st, next, live, us, b)
<1>1. \A u : CreditsOf(next, u) = CreditsOf(t, u) BY DEF CreditsOf
<1>2. \A u \in Users :
        next.accrued[u] + next.paid[u]
          = st.accrued[u] + SumFunction(CreditsOf(next, u))
  BY <1>1 DEF IsTouched
<1>3. \A m \in Markets : st.borrowIndex[m] <= next.borrowIndex[m]
  <2>1. \A m \in Markets : st.borrowIndex[m] \in Nat BY FieldsOf DEF Positive
  <2>2. t.borrowIndex = st.borrowIndex BY DEF IsTouched
  <2>3. QED BY <2>1, <2>2
<1>4. \A p \in Pools, u \in Users :
        IF p \in live /\ u \in us THEN CreditedIn(st, next, p, u, b)
        ELSE next.user[p][u] = st.user[p][u] /\ next.credited[p][u] = 0
  BY DEF IsTouched, CreditedIn
<1>5. /\ next.rewardsFrom = st.rewardsFrom
      /\ \A p \in live : next.index[p] = IndexAt(st, p, b) /\ next.at[p] = b
      /\ \A p \in Pools \ live :
           /\ next.index[p] = st.index[p] /\ next.at[p] = st.at[p]
           /\ next.speed[p] = st.speed[p]
      /\ \A a \in Accounts \ next.active :
           /\ st.balance[a] = 0 => next.balance[a] = 0
           /\ st.principal[a] = 0 => next.principal[a] = 0
  BY DEF IsTouched
<1>6. QED BY <1>2, <1>3, <1>4, <1>5 DEF IsMove

Minted(t, m, u, amount) ==
  [t EXCEPT !.balance[<<m, u>>] = amount, !.active = {<<m, u>>}]

LEMMA MintedIs ==
  ASSUME NEW t \in StateType, NEW m \in Markets, NEW u \in Users,
         NEW amount \in Nat, NEW next, next = Minted(t, m, u, amount)
  PROVE  /\ next \in StateType
         /\ next.rewardsFrom = t.rewardsFrom /\ next.index = t.index
         /\ next.at = t.at /\ next.speed = t.speed
         /\ next.principal = t.principal /\ next.since = t.since
         /\ next.borrowIndex = t.borrowIndex /\ next.user = t.user
         /\ next.accrued = t.accrued /\ next.paid = t.paid
         /\ next.credited = t.credited /\ next.active = {<<m, u>>}
         /\ \A a \in Accounts \ {<<m, u>>} : next.balance[a] = t.balance[a]
<1>1. /\ next.rewardsFrom = t.rewardsFrom /\ next.index = t.index
      /\ next.at = t.at /\ next.speed = t.speed
      /\ next.principal = t.principal /\ next.since = t.since
      /\ next.borrowIndex = t.borrowIndex /\ next.user = t.user
      /\ next.accrued = t.accrued /\ next.paid = t.paid
      /\ next.credited = t.credited /\ next.active = {<<m, u>>}
  BY DEF Minted, StateType
<1>2. next.balance = [t.balance EXCEPT ![<<m, u>>] = amount]
  BY DEF Minted, StateType
<1>3. t.balance \in [Accounts -> Nat] /\ <<m, u>> \in Accounts
  BY FieldsOf, AccountIs
<1>4. [t.balance EXCEPT ![<<m, u>>] = amount] \in [Accounts -> Nat]
  BY <1>3
<1>5. {<<m, u>>} \in SUBSET Accounts BY <1>3
<1>6. next \in StateType BY <1>4, <1>5 DEF Minted, StateType
<1>7. QED BY <1>1, <1>2, <1>3, <1>6

LEMMA MintFollows ==
  ASSUME NEW l \in Nat, StateOK(blocks, l), RewardsFrom \in Nat,
         NEW m \in Markets, NEW u \in Users, NEW amount \in Amounts,
         NEW pools, pools = {<<m, "supply">>}, NEW us, us = {u},
         NEW t, t = Touched(Opened(blocks[l]), pools, us, l + 1),
         NEW next, next = Minted(t, m, u, amount)
  PROVE  MayFollow(blocks, l, next)
<1>1. PICK live : live = LiveIn(pools, l + 1) OBVIOUS
<1>a. pools \in SUBSET Pools /\ live \in SUBSET Pools /\ us \in SUBSET Users
  BY <1>1 DEF Pools, Sides, LiveIn
<1>2. IsTouched(blocks[l], t, live, us, l + 1)
  BY <1>1, <1>a, TouchedIs DEF RewardsFrom
<1>3. blocks[l] \in StateType /\ t \in StateType BY <1>2 DEF StateOK, IsTouched
<1>4. amount \in Nat BY ChainAssumption
<1>5. /\ next \in StateType
      /\ next.rewardsFrom = t.rewardsFrom /\ next.index = t.index
      /\ next.at = t.at /\ next.speed = t.speed
      /\ next.principal = t.principal /\ next.since = t.since
      /\ next.borrowIndex = t.borrowIndex /\ next.user = t.user
      /\ next.accrued = t.accrued /\ next.paid = t.paid
      /\ next.credited = t.credited /\ next.active = {<<m, u>>}
      /\ \A a \in Accounts \ {<<m, u>>} : next.balance[a] = t.balance[a]
  <2>1. m \in Markets /\ u \in Users /\ next = Minted(t, m, u, amount)
    OBVIOUS
  <2>2. QED BY ONLY <1>3, <1>4, <2>1, MintedIs
<1>9. \A v \in Users : t.accrued[v] \in Nat /\ t.paid[v] = 0
  BY <1>2, <1>3, FieldsOf DEF IsTouched
<1>10. \A v \in Users : next.accrued[v] + next.paid[v] = t.accrued[v]
  <2>1. next.accrued = t.accrued /\ next.paid = t.paid BY <1>5
  <2>2. QED BY ONLY <1>9, <2>1
<1>11. \A a \in Accounts \ next.active :
         next.balance[a] = t.balance[a] /\ next.principal[a] = t.principal[a]
  BY <1>5, ZenonT(60)
<1>12. IsMove(blocks[l], next, live, us, l + 1)
  BY ONLY <1>a, <1>2, <1>3, <1>5, <1>10, <1>11, MoveOf
<1>13. ASSUME NEW p \in Pools, NEW v \in Users,
              Live(p[1], blocks[0].rewardsFrom) <= l + 1,
              p \notin live \/ v \notin us
       PROVE  SameHolding(blocks[l], next, p, v)
  <2>1. p[2] = "supply" => <<p[1], v>> # <<m, u>>
    <3> SUFFICES ASSUME p[2] = "supply", p[1] = m, v = u PROVE FALSE
      OBVIOUS
    <3>1. p = <<m, "supply">> BY PoolParts
    <3>2. p \in live BY <1>1, <1>13, <3>1 DEF LiveIn, LiveFrom, RewardsFrom, Live
    <3>3. QED BY <1>13, <3>2
  <2>2. <<p[1], v>> \in Accounts BY PoolParts, AccountIs
  <2>3. /\ next.principal = blocks[l].principal /\ next.since = blocks[l].since
        /\ t.balance = blocks[l].balance
    BY <1>2, <1>5 DEF IsTouched
  <2>4. p[2] = "supply" =>
          next.balance[<<p[1], v>>] = t.balance[<<p[1], v>>]
    BY <1>5, <2>1, <2>2
  <2>5. QED BY ONLY <2>3, <2>4 DEF SameHolding
<1>14. SharesKept(blocks[l], next, live, us, l + 1, blocks[0].rewardsFrom)
  BY ONLY <1>a, <1>13, HoldingsKept
<1>15. \A p \in live : Live(p[1], blocks[0].rewardsFrom) <= l + 1
  BY <1>1 DEF LiveIn, LiveFrom, RewardsFrom, Live
<1>16. QED
  BY ONLY <1>a, <1>12, <1>14, <1>15, MoveFollows, StateOK(blocks, l),
          RewardsFrom \in Nat, l \in Nat DEF RewardsFrom
Borrowed(t, m, u, amount, index) ==
  [t EXCEPT !.principal[<<m, u>>] = amount, !.since[<<m, u>>] = index,
            !.active = {<<m, u>>}]

LEMMA BorrowedIs ==
  ASSUME NEW t \in StateType, NEW m \in Markets, NEW u \in Users,
         NEW amount \in Nat, NEW index \in Positive,
         NEW next, next = Borrowed(t, m, u, amount, index)
  PROVE  /\ next \in StateType
         /\ next.rewardsFrom = t.rewardsFrom /\ next.index = t.index
         /\ next.at = t.at /\ next.speed = t.speed
         /\ next.balance = t.balance
         /\ next.borrowIndex = t.borrowIndex /\ next.user = t.user
         /\ next.accrued = t.accrued /\ next.paid = t.paid
         /\ next.credited = t.credited /\ next.active = {<<m, u>>}
         /\ \A a \in Accounts \ {<<m, u>>} :
              next.principal[a] = t.principal[a] /\ next.since[a] = t.since[a]
<1>1. /\ next.rewardsFrom = t.rewardsFrom /\ next.index = t.index
      /\ next.at = t.at /\ next.speed = t.speed
      /\ next.balance = t.balance
      /\ next.borrowIndex = t.borrowIndex /\ next.user = t.user
      /\ next.accrued = t.accrued /\ next.paid = t.paid
      /\ next.credited = t.credited /\ next.active = {<<m, u>>}
  BY DEF Borrowed, StateType
<1>2. /\ next.principal = [t.principal EXCEPT ![<<m, u>>] = amount]
      /\ next.since = [t.since EXCEPT ![<<m, u>>] = index]
  BY DEF Borrowed, StateType
<1>3. /\ t.principal \in [Accounts -> Nat] /\ <<m, u>> \in Accounts
      /\ t.since \in [Accounts -> Positive]
  BY FieldsOf, AccountIs
<1>4. /\ [t.principal EXCEPT ![<<m, u>>] = amount] \in [Accounts -> Nat]
      /\ [t.since EXCEPT ![<<m, u>>] = index] \in [Accounts -> Positive]
  BY <1>3
<1>5. {<<m, u>>} \in SUBSET Accounts BY <1>3
<1>6. next \in StateType BY <1>4, <1>5 DEF Borrowed, StateType
<1>7. QED BY <1>1, <1>2, <1>3, <1>6

LEMMA BorrowFollows ==
  ASSUME NEW l \in Nat, StateOK(blocks, l), RewardsFrom \in Nat,
         NEW m \in Markets, NEW u \in Users, NEW amount \in Amounts,
         NEW pools, pools = {<<m, "borrow">>}, NEW us, us = {u},
         NEW t, t = Touched(Opened(blocks[l]), pools, us, l + 1),
         NEW index, index = blocks[l].borrowIndex[m],
         NEW next, next = Borrowed(t, m, u, amount, index)
  PROVE  MayFollow(blocks, l, next)
<1>1. PICK live : live = LiveIn(pools, l + 1) OBVIOUS
<1>a. pools \in SUBSET Pools /\ live \in SUBSET Pools /\ us \in SUBSET Users
  BY <1>1 DEF Pools, Sides, LiveIn
<1>2. IsTouched(blocks[l], t, live, us, l + 1)
  BY <1>1, <1>a, TouchedIs DEF RewardsFrom
<1>3. blocks[l] \in StateType /\ t \in StateType BY <1>2 DEF StateOK, IsTouched
<1>4. amount \in Nat BY ChainAssumption
<1>b. index \in Positive BY <1>3, StoredType
<1>5. /\ next \in StateType
      /\ next.rewardsFrom = t.rewardsFrom /\ next.index = t.index
      /\ next.at = t.at /\ next.speed = t.speed
      /\ next.balance = t.balance
      /\ next.borrowIndex = t.borrowIndex /\ next.user = t.user
      /\ next.accrued = t.accrued /\ next.paid = t.paid
      /\ next.credited = t.credited /\ next.active = {<<m, u>>}
      /\ \A a \in Accounts \ {<<m, u>>} :
           next.principal[a] = t.principal[a] /\ next.since[a] = t.since[a]
  <2>1. m \in Markets /\ u \in Users /\ next = Borrowed(t, m, u, amount, index)
    OBVIOUS
  <2>2. QED BY ONLY <1>3, <1>4, <1>b, <2>1, BorrowedIs
<1>9. \A v \in Users : t.accrued[v] \in Nat /\ t.paid[v] = 0
  BY <1>2, <1>3, FieldsOf DEF IsTouched
<1>10. \A v \in Users : next.accrued[v] + next.paid[v] = t.accrued[v]
  <2>1. next.accrued = t.accrued /\ next.paid = t.paid BY <1>5
  <2>2. QED BY ONLY <1>9, <2>1
<1>11. \A a \in Accounts \ next.active :
         next.balance[a] = t.balance[a] /\ next.principal[a] = t.principal[a]
  BY <1>5
<1>12. IsMove(blocks[l], next, live, us, l + 1)
  BY ONLY <1>a, <1>2, <1>3, <1>5, <1>10, <1>11, MoveOf
<1>13. ASSUME NEW p \in Pools, NEW v \in Users,
              Live(p[1], blocks[0].rewardsFrom) <= l + 1,
              p \notin live \/ v \notin us
       PROVE  SameHolding(blocks[l], next, p, v)
  <2>1. p[2] # "supply" => <<p[1], v>> # <<m, u>>
    <3> SUFFICES ASSUME p[2] # "supply", p[1] = m, v = u PROVE FALSE
      OBVIOUS
    <3>1. p = <<m, "borrow">> BY PoolParts
    <3>2. p \in live BY <1>1, <1>13, <3>1 DEF LiveIn, LiveFrom, RewardsFrom, Live
    <3>3. QED BY <1>13, <3>2
  <2>2. <<p[1], v>> \in Accounts BY PoolParts, AccountIs
  <2>3. /\ next.balance = blocks[l].balance /\ t.since = blocks[l].since
        /\ t.principal = blocks[l].principal
    BY <1>2, <1>5 DEF IsTouched
  <2>4. p[2] # "supply" =>
          /\ next.principal[<<p[1], v>>] = t.principal[<<p[1], v>>]
          /\ next.since[<<p[1], v>>] = t.since[<<p[1], v>>]
    BY <1>5, <2>1, <2>2, ZenonT(60)
  <2>5. QED BY ONLY <2>3, <2>4 DEF SameHolding
<1>14. SharesKept(blocks[l], next, live, us, l + 1, blocks[0].rewardsFrom)
  BY ONLY <1>a, <1>13, HoldingsKept
<1>15. \A p \in live : Live(p[1], blocks[0].rewardsFrom) <= l + 1
  BY <1>1 DEF LiveIn, LiveFrom, RewardsFrom, Live
<1>16. QED
  BY ONLY <1>a, <1>12, <1>14, <1>15, MoveFollows, StateOK(blocks, l),
          RewardsFrom \in Nat, l \in Nat DEF RewardsFrom

(* What is accrued is paid.                                                *)
Claimed(t, u) == [t EXCEPT !.paid[u] = t.accrued[u], !.accrued[u] = 0]

LEMMA ClaimedIs ==
  ASSUME NEW t \in StateType, t.paid = [u \in Users |-> 0], NEW u \in Users,
         NEW next, next = Claimed(t, u)
  PROVE  /\ next \in StateType
         /\ next.rewardsFrom = t.rewardsFrom /\ next.index = t.index
         /\ next.at = t.at /\ next.speed = t.speed
         /\ next.balance = t.balance /\ next.principal = t.principal
         /\ next.since = t.since
         /\ next.borrowIndex = t.borrowIndex /\ next.user = t.user
         /\ next.credited = t.credited /\ next.active = t.active
         /\ \A v \in Users : next.accrued[v] + next.paid[v] = t.accrued[v]
<1>1. /\ next.rewardsFrom = t.rewardsFrom /\ next.index = t.index
      /\ next.at = t.at /\ next.speed = t.speed
      /\ next.balance = t.balance /\ next.principal = t.principal
      /\ next.since = t.since
      /\ next.borrowIndex = t.borrowIndex /\ next.user = t.user
      /\ next.credited = t.credited /\ next.active = t.active
  BY DEF Claimed, StateType
<1>2. /\ next.accrued = [t.accrued EXCEPT ![u] = 0]
      /\ next.paid = [t.paid EXCEPT ![u] = t.accrued[u]]
  BY DEF Claimed, StateType
<1>3. t.accrued \in [Users -> Nat] /\ t.paid \in [Users -> Nat] BY FieldsOf
<1>4. /\ [t.accrued EXCEPT ![u] = 0] \in [Users -> Nat]
      /\ [t.paid EXCEPT ![u] = t.accrued[u]] \in [Users -> Nat]
  BY <1>3
<1>6. next \in StateType BY <1>4 DEF Claimed, StateType
<1>7. \A v \in Users : next.accrued[v] + next.paid[v] = t.accrued[v]
  <2>1. t.paid = [v \in Users |-> 0] OBVIOUS
  <2>2. \A v \in Users : t.paid[v] = 0 BY ONLY <2>1
  <2>3. \A v \in Users : /\ next.accrued[v] = IF v = u THEN 0 ELSE t.accrued[v]
                         /\ next.paid[v] = IF v = u THEN t.accrued[v] ELSE 0
    BY ONLY <1>2, <1>3, <2>2
  <2>4. QED BY ONLY <1>3, <2>3
<1>8. QED BY ONLY <1>1, <1>6, <1>7

LEMMA ClaimFollows ==
  ASSUME NEW l \in Nat, StateOK(blocks, l), RewardsFrom \in Nat,
         NEW u \in Users, NEW us, us = {u},
         NEW t, t = Touched(Opened(blocks[l]), Pools, us, l + 1),
         NEW next, next = Claimed(t, u)
  PROVE  MayFollow(blocks, l, next)
<1>1. PICK live : live = LiveIn(Pools, l + 1) OBVIOUS
<1>a. Pools \in SUBSET Pools /\ live \in SUBSET Pools /\ us \in SUBSET Users
  BY <1>1 DEF LiveIn
<1>2. IsTouched(blocks[l], t, live, us, l + 1)
  BY <1>1, <1>a, TouchedIs DEF RewardsFrom
<1>3. /\ blocks[l] \in StateType /\ t \in StateType
      /\ t.paid = [v \in Users |-> 0]
  BY <1>2 DEF StateOK, IsTouched
<1>5. /\ next \in StateType
      /\ next.rewardsFrom = t.rewardsFrom /\ next.index = t.index
      /\ next.at = t.at /\ next.speed = t.speed
      /\ next.balance = t.balance /\ next.principal = t.principal
      /\ next.since = t.since
      /\ next.borrowIndex = t.borrowIndex /\ next.user = t.user
      /\ next.credited = t.credited /\ next.active = t.active
      /\ \A v \in Users : next.accrued[v] + next.paid[v] = t.accrued[v]
  <2>1. u \in Users /\ next = Claimed(t, u) OBVIOUS
  <2>2. QED BY ONLY <1>3, <2>1, ClaimedIs
<1>12. IsMove(blocks[l], next, live, us, l + 1)
  BY ONLY <1>a, <1>2, <1>3, <1>5, MoveOf
<1>13. \A p \in Pools, v \in Users : SameHolding(blocks[l], next, p, v)
  BY <1>2, <1>5, ZenonT(60) DEF SameHolding, IsTouched
<1>14. SharesKept(blocks[l], next, live, us, l + 1, blocks[0].rewardsFrom)
  BY ONLY <1>a, <1>13, HoldingsKept
<1>15. \A p \in live : Live(p[1], blocks[0].rewardsFrom) <= l + 1
  BY <1>1 DEF LiveIn, LiveFrom, RewardsFrom, Live
<1>16. QED
  BY ONLY <1>a, <1>12, <1>14, <1>15, MoveFollows, StateOK(blocks, l),
          RewardsFrom \in Nat, l \in Nat DEF RewardsFrom

(* The speed of one pool is set.                                           *)
Sped(t, p, speed) == [t EXCEPT !.speed[p] = speed]

LEMMA SpedIs ==
  ASSUME NEW t \in StateType, NEW p \in Pools, NEW speed \in Nat,
         NEW next, next = Sped(t, p, speed)
  PROVE  /\ next \in StateType
         /\ next.rewardsFrom = t.rewardsFrom /\ next.index = t.index
         /\ next.at = t.at
         /\ next.balance = t.balance /\ next.principal = t.principal
         /\ next.since = t.since
         /\ next.borrowIndex = t.borrowIndex /\ next.user = t.user
         /\ next.accrued = t.accrued /\ next.paid = t.paid
         /\ next.credited = t.credited /\ next.active = t.active
         /\ \A q \in Pools \ {p} : next.speed[q] = t.speed[q]
<1>1. /\ next.rewardsFrom = t.rewardsFrom /\ next.index = t.index
      /\ next.at = t.at
      /\ next.balance = t.balance /\ next.principal = t.principal
      /\ next.since = t.since
      /\ next.borrowIndex = t.borrowIndex /\ next.user = t.user
      /\ next.accrued = t.accrued /\ next.paid = t.paid
      /\ next.credited = t.credited /\ next.active = t.active
  BY DEF Sped, StateType
<1>2. next.speed = [t.speed EXCEPT ![p] = speed] BY DEF Sped, StateType
<1>3. t.speed \in [Pools -> Nat] BY FieldsOf
<1>4. [t.speed EXCEPT ![p] = speed] \in [Pools -> Nat] BY <1>3
<1>6. next \in StateType BY <1>4 DEF Sped, StateType
<1>7. QED BY <1>1, <1>2, <1>3, <1>6

LEMMA SpeedFollows ==
  ASSUME NEW l \in Nat, StateOK(blocks, l), RewardsFrom \in Nat,
         NEW p \in Pools, LiveFrom(p[1]) <= l + 1, NEW speed \in Speeds,
         NEW pools, pools = {p}, NEW us, us = {},
         NEW t, t = Touched(Opened(blocks[l]), pools, us, l + 1),
         NEW next, next = Sped(t, p, speed)
  PROVE  MayFollow(blocks, l, next)
<1>1. PICK live : live = LiveIn(pools, l + 1) OBVIOUS
<1>a. pools \in SUBSET Pools /\ live \in SUBSET Pools /\ us \in SUBSET Users
  BY <1>1 DEF LiveIn
<1>2. IsTouched(blocks[l], t, live, us, l + 1)
  BY <1>1, <1>a, TouchedIs DEF RewardsFrom
<1>3. blocks[l] \in StateType /\ t \in StateType BY <1>2 DEF StateOK, IsTouched
<1>4. speed \in Nat BY ChainAssumption
<1>5. /\ next \in StateType
      /\ next.rewardsFrom = t.rewardsFrom /\ next.index = t.index
      /\ next.at = t.at
      /\ next.balance = t.balance /\ next.principal = t.principal
      /\ next.since = t.since
      /\ next.borrowIndex = t.borrowIndex /\ next.user = t.user
      /\ next.accrued = t.accrued /\ next.paid = t.paid
      /\ next.credited = t.credited /\ next.active = t.active
      /\ \A q \in Pools \ {p} : next.speed[q] = t.speed[q]
  <2>1. p \in Pools /\ next = Sped(t, p, speed) OBVIOUS
  <2>2. QED BY ONLY <1>3, <1>4, <2>1, SpedIs, SMTT(30)
<1>9. \A v \in Users : t.accrued[v] \in Nat /\ t.paid[v] = 0
  BY <1>2, <1>3, FieldsOf DEF IsTouched
<1>10. \A v \in Users : next.accrued[v] + next.paid[v] = t.accrued[v]
  <2>1. next.accrued = t.accrued /\ next.paid = t.paid BY <1>5
  <2>2. QED BY ONLY <1>9, <2>1
<1>11. p \in live BY <1>1 DEF LiveIn
<1>12. IsMove(blocks[l], next, live, us, l + 1)
  BY ONLY <1>a, <1>2, <1>3, <1>5, <1>10, <1>11, MoveOf
<1>b. /\ next.balance = blocks[l].balance /\ next.since = blocks[l].since
      /\ next.principal = blocks[l].principal
  BY <1>2, <1>5 DEF IsTouched
<1>13. \A q \in Pools, v \in Users : SameHolding(blocks[l], next, q, v)
  BY ONLY <1>b DEF SameHolding
<1>14. SharesKept(blocks[l], next, live, us, l + 1, blocks[0].rewardsFrom)
  BY ONLY <1>a, <1>13, HoldingsKept
<1>15. \A q \in live : Live(q[1], blocks[0].rewardsFrom) <= l + 1
  BY <1>1 DEF LiveIn, LiveFrom, RewardsFrom, Live
<1>16. QED
  BY ONLY <1>a, <1>12, <1>14, <1>15, MoveFollows, StateOK(blocks, l),
          RewardsFrom \in Nat, l \in Nat DEF RewardsFrom
LEMMA OpenedTouched ==
  ASSUME NEW st \in StateType, NEW o, o = Opened(st),
         NEW none, none = {}, NEW b
  PROVE  IsTouched(st, o, none, none, b)
<1>1. /\ o \in StateType
      /\ o.rewardsFrom = st.rewardsFrom /\ o.index = st.index
      /\ o.at = st.at /\ o.speed = st.speed /\ o.balance = st.balance
      /\ o.principal = st.principal /\ o.since = st.since
      /\ o.borrowIndex = st.borrowIndex /\ o.user = st.user
      /\ o.accrued = st.accrued
      /\ o.paid = [u \in Users |-> 0]
      /\ o.credited = [p \in Pools |-> [u \in Users |-> 0]]
      /\ o.active = {}
  BY OpenedIs
<1>2. \A p \in Pools, u \in Users : o.credited[p][u] = 0 BY ONLY <1>1
<1>3. ASSUME NEW u \in Users
      PROVE  o.accrued[u] = st.accrued[u] + SumFunction(CreditsOf(o, u))
  <2> DEFINE c == CreditsOf(o, u)
  <2>1. DOMAIN c = Pools /\ \A p \in Pools : c[p] = 0
    BY <1>2 DEF CreditsOf
  <2> HIDE DEF c
  <2>2. SumFunction(c) = 0 BY <2>1, FinitePools, SumZero DEF SumFunction
  <2>3. st.accrued[u] \in Nat BY FieldsOf
  <2>4. o.accrued[u] = st.accrued[u] BY <1>1
  <2>5. QED BY ONLY <2>2, <2>3, <2>4 DEF c
<1>4. QED BY ONLY <1>1, <1>2, <1>3, none = {} DEF IsTouched

(* Interest makes a borrow index larger.                                   *)
Accruing(o, m) == [o EXCEPT !.borrowIndex[m] = @ + 1]

LEMMA AccruingIs ==
  ASSUME NEW t \in StateType, NEW m \in Markets,
         NEW next, next = Accruing(t, m)
  PROVE  /\ next \in StateType
         /\ next.rewardsFrom = t.rewardsFrom /\ next.index = t.index
         /\ next.at = t.at /\ next.speed = t.speed
         /\ next.balance = t.balance /\ next.principal = t.principal
         /\ next.since = t.since /\ next.user = t.user
         /\ next.accrued = t.accrued /\ next.paid = t.paid
         /\ next.credited = t.credited /\ next.active = t.active
         /\ \A k \in Markets : t.borrowIndex[k] <= next.borrowIndex[k]
<1>1. /\ next.rewardsFrom = t.rewardsFrom /\ next.index = t.index
      /\ next.at = t.at /\ next.speed = t.speed
      /\ next.balance = t.balance /\ next.principal = t.principal
      /\ next.since = t.since /\ next.user = t.user
      /\ next.accrued = t.accrued /\ next.paid = t.paid
      /\ next.credited = t.credited /\ next.active = t.active
  BY DEF Accruing, StateType
<1>2. next.borrowIndex = [t.borrowIndex EXCEPT ![m] = t.borrowIndex[m] + 1]
  BY DEF Accruing, StateType
<1>3. t.borrowIndex \in [Markets -> Positive] BY FieldsOf
<1>4. \A k \in Markets : t.borrowIndex[k] \in Nat
                         /\ t.borrowIndex[k] + 1 \in Positive
  BY ONLY <1>3 DEF Positive
<1>5. [t.borrowIndex EXCEPT ![m] = t.borrowIndex[m] + 1] \in [Markets -> Positive]
  BY <1>3, <1>4
<1>6. next \in StateType BY <1>5 DEF Accruing, StateType
<1>7. \A k \in Markets : t.borrowIndex[k] <= next.borrowIndex[k]
  BY ONLY <1>2, <1>3, <1>4
<1>8. QED BY ONLY <1>1, <1>6, <1>7

LEMMA InterestFollows ==
  ASSUME NEW l \in Nat, StateOK(blocks, l), RewardsFrom \in Nat,
         NEW m \in Markets, NEW t, t = Opened(blocks[l]),
         NEW next, next = Accruing(t, m)
  PROVE  MayFollow(blocks, l, next)
<1>1. PICK live : live = {} OBVIOUS
<1>a. live \in SUBSET Pools /\ live \in SUBSET Users BY <1>1
<1>3. blocks[l] \in StateType BY DEF StateOK
<1>2. IsTouched(blocks[l], t, live, live, l + 1)
  BY <1>1, <1>3, OpenedTouched
<1>4. t \in StateType BY <1>2 DEF IsTouched
<1>5. /\ next \in StateType
      /\ next.rewardsFrom = t.rewardsFrom /\ next.index = t.index
      /\ next.at = t.at /\ next.speed = t.speed
      /\ next.balance = t.balance /\ next.principal = t.principal
      /\ next.since = t.since /\ next.user = t.user
      /\ next.accrued = t.accrued /\ next.paid = t.paid
      /\ next.credited = t.credited /\ next.active = t.active
      /\ \A k \in Markets : t.borrowIndex[k] <= next.borrowIndex[k]
  <2>1. m \in Markets /\ next = Accruing(t, m) OBVIOUS
  <2>2. QED BY ONLY <1>4, <2>1, AccruingIs
<1>9. \A v \in Users : t.accrued[v] \in Nat /\ t.paid[v] = 0
  BY <1>2, <1>4, FieldsOf DEF IsTouched
<1>10. \A v \in Users : next.accrued[v] + next.paid[v] = t.accrued[v]
  <2>1. next.accrued = t.accrued /\ next.paid = t.paid BY <1>5
  <2>2. QED BY ONLY <1>9, <2>1
<1>12. IsMove(blocks[l], next, live, live, l + 1)
  BY ONLY <1>a, <1>2, <1>3, <1>5, <1>10, MoveOf
<1>b. /\ next.balance = blocks[l].balance /\ next.since = blocks[l].since
      /\ next.principal = blocks[l].principal
  BY <1>2, <1>5 DEF IsTouched
<1>13. \A q \in Pools, v \in Users : SameHolding(blocks[l], next, q, v)
  BY ONLY <1>b DEF SameHolding
<1>14. SharesKept(blocks[l], next, live, live, l + 1, blocks[0].rewardsFrom)
  BY ONLY <1>a, <1>13, HoldingsKept
<1>15. \A q \in live : Live(q[1], blocks[0].rewardsFrom) <= l + 1 BY <1>1
<1>16. QED
  BY ONLY <1>a, <1>12, <1>14, <1>15, MoveFollows, StateOK(blocks, l),
          RewardsFrom \in Nat, l \in Nat DEF RewardsFrom

(* An event that credits nothing.                                          *)
Pretended(o, m, u) ==
  [o EXCEPT !.phantom[<<m, "borrow">>][u] = PhantomDelta,
            !.emitted = {<<<<m, "borrow">>, u>>}]

LEMMA PretendedIs ==
  ASSUME NEW t \in StateType, NEW m \in Markets, NEW u \in Users,
         NEW next, next = Pretended(t, m, u)
  PROVE  /\ next \in StateType
         /\ next.rewardsFrom = t.rewardsFrom /\ next.index = t.index
         /\ next.at = t.at /\ next.speed = t.speed
         /\ next.balance = t.balance /\ next.principal = t.principal
         /\ next.since = t.since /\ next.borrowIndex = t.borrowIndex
         /\ next.user = t.user
         /\ next.accrued = t.accrued /\ next.paid = t.paid
         /\ next.credited = t.credited /\ next.active = t.active
<1>1. /\ next.rewardsFrom = t.rewardsFrom /\ next.index = t.index
      /\ next.at = t.at /\ next.speed = t.speed
      /\ next.balance = t.balance /\ next.principal = t.principal
      /\ next.since = t.since /\ next.borrowIndex = t.borrowIndex
      /\ next.user = t.user
      /\ next.accrued = t.accrued /\ next.paid = t.paid
      /\ next.credited = t.credited /\ next.active = t.active
  BY DEF Pretended, StateType
<1>2. PICK p : p = <<m, "borrow">> OBVIOUS
<1>3. p \in Pools BY <1>2 DEF Pools, Sides
<1>4. t.phantom \in [Pools -> [Users -> Nat]] BY FieldsOf DEF PoolsOf
<1>5. PhantomDelta \in Nat BY ChainAssumption
<1>6. [t.phantom[p] EXCEPT ![u] = PhantomDelta] \in [Users -> Nat]
  BY <1>3, <1>4, <1>5
<1>7. [t.phantom EXCEPT ![p] = [t.phantom[p] EXCEPT ![u] = PhantomDelta]]
        \in PoolsOf(Nat)
  BY <1>3, <1>4, <1>6 DEF PoolsOf
<1>8. {<<p, u>>} \in SUBSET (Pools \X Users) BY <1>3
<1>9. next = [t EXCEPT !.phantom =
                [t.phantom EXCEPT ![p] = [t.phantom[p] EXCEPT ![u] = PhantomDelta]],
              !.emitted = {<<p, u>>}]
  BY <1>2 DEF Pretended, StateType
<1>10. next \in StateType BY <1>7, <1>8, <1>9 DEF StateType
<1>11. QED BY ONLY <1>1, <1>10

LEMMA PhantomFollows ==
  ASSUME NEW l \in Nat, StateOK(blocks, l), RewardsFrom \in Nat,
         NEW m \in Markets, NEW u \in Users, NEW t, t = Opened(blocks[l]),
         NEW next, next = Pretended(t, m, u)
  PROVE  MayFollow(blocks, l, next)
<1>1. PICK live : live = {} OBVIOUS
<1>a. live \in SUBSET Pools /\ live \in SUBSET Users BY <1>1
<1>3. blocks[l] \in StateType BY DEF StateOK
<1>2. IsTouched(blocks[l], t, live, live, l + 1)
  BY <1>1, <1>3, OpenedTouched
<1>4. t \in StateType BY <1>2 DEF IsTouched
<1>5. /\ next \in StateType
      /\ next.rewardsFrom = t.rewardsFrom /\ next.index = t.index
      /\ next.at = t.at /\ next.speed = t.speed
      /\ next.balance = t.balance /\ next.principal = t.principal
      /\ next.since = t.since /\ next.borrowIndex = t.borrowIndex
      /\ next.user = t.user
      /\ next.accrued = t.accrued /\ next.paid = t.paid
      /\ next.credited = t.credited /\ next.active = t.active
  <2>1. m \in Markets /\ u \in Users /\ next = Pretended(t, m, u) OBVIOUS
  <2>2. QED BY ONLY <1>4, <2>1, PretendedIs
<1>9. \A v \in Users : t.accrued[v] \in Nat /\ t.paid[v] = 0
  BY <1>2, <1>4, FieldsOf DEF IsTouched
<1>10. \A v \in Users : next.accrued[v] + next.paid[v] = t.accrued[v]
  <2>1. next.accrued = t.accrued /\ next.paid = t.paid BY <1>5
  <2>2. QED BY ONLY <1>9, <2>1
<1>12. IsMove(blocks[l], next, live, live, l + 1)
  BY ONLY <1>a, <1>2, <1>3, <1>5, <1>10, MoveOf
<1>b. /\ next.balance = blocks[l].balance /\ next.since = blocks[l].since
      /\ next.principal = blocks[l].principal
  BY <1>2, <1>5 DEF IsTouched
<1>13. \A q \in Pools, v \in Users : SameHolding(blocks[l], next, q, v)
  BY ONLY <1>b DEF SameHolding
<1>14. SharesKept(blocks[l], next, live, live, l + 1, blocks[0].rewardsFrom)
  BY ONLY <1>a, <1>13, HoldingsKept
<1>15. \A q \in live : Live(q[1], blocks[0].rewardsFrom) <= l + 1 BY <1>1
<1>16. QED
  BY ONLY <1>a, <1>12, <1>14, <1>15, MoveFollows, StateOK(blocks, l),
          RewardsFrom \in Nat, l \in Nat DEF RewardsFrom
-----------------------------------------------------------------------------
(* The chain follows its rules.                                            *)

LEMMA GenesisOK ==
  ASSUME NEW past \in Pasts, NEW g, g = Genesis(past),
         NEW bl, bl = [b \in {0} |-> g]
  PROVE  StateOK(bl, 0)
<1>1. /\ past.rewardsFrom \in Nat /\ past.index \in [Pools -> Nat]
      /\ \A p \in Pools : past.index[p] >= InitialIndex
      /\ past.balance \in [Accounts -> Nat]
      /\ past.principal \in [Accounts -> Nat]
  BY PastAssumption
<1>2. /\ g.rewardsFrom = past.rewardsFrom /\ g.index = past.index
      /\ g.at = [p \in Pools |-> IF ListedAt[p[1]] > past.rewardsFrom
                                 THEN ListedAt[p[1]] ELSE past.rewardsFrom]
      /\ g.speed = [p \in Pools |-> IF p \in RewardedPools THEN 1 ELSE 0]
      /\ g.balance = past.balance /\ g.principal = past.principal
      /\ g.since = [a \in Accounts |-> ExpScale]
      /\ g.borrowIndex = [m \in Markets |-> ExpScale]
      /\ g.user = [p \in Pools |-> [u \in Users |-> 0]]
      /\ g.accrued = [u \in Users |-> 0]
      /\ g.paid = [u \in Users |-> 0]
      /\ g.credited = [p \in Pools |-> [u \in Users |-> 0]]
      /\ g.phantom = [p \in Pools |-> [u \in Users |-> 0]]
      /\ g.emitted = {}
      /\ g.active = {a \in Accounts : past.balance[a] + past.principal[a] > 0}
  BY DEF Genesis
<1>3. \A p \in Pools : g.at[p] = Live(p[1], past.rewardsFrom)
                       /\ g.at[p] \in Nat
  <2>1. \A p \in Pools : g.at[p] = Live(p[1], past.rewardsFrom)
    BY <1>2 DEF Live
  <2>2. QED BY <1>1, <2>1, PoolParts, LiveType
<1>a. g.at \in [Pools -> Nat] BY <1>2, <1>3
<1>b. g.speed \in [Pools -> Nat] BY ONLY <1>2
<1>c. g.since \in [Accounts -> Positive] /\ g.borrowIndex \in [Markets -> Positive]
  BY ONLY <1>2, ScalesPositive
<1>d. /\ g.user \in PoolsOf(Nat) /\ g.credited \in PoolsOf(Nat)
      /\ g.phantom \in PoolsOf(Nat)
  BY ONLY <1>2 DEF PoolsOf
<1>e. g.accrued \in [Users -> Nat] /\ g.paid \in [Users -> Nat] BY ONLY <1>2
<1>f. g.emitted \in SUBSET (Pools \X Users) /\ g.active \in SUBSET Accounts
  BY ONLY <1>2
<1>4. g \in StateType
  BY <1>1, <1>2, <1>a, <1>b, <1>c, <1>d, <1>e, <1>f DEF StateType, Genesis
<1>5. bl[0] = g OBVIOUS
<1>6. ASSUME NEW p \in Pools
      PROVE  /\ g.index[p] >= InitialIndex
             /\ g.at[p] <= Live(p[1], g.rewardsFrom)
             /\ \A u \in Users : g.user[p][u] <= g.index[p]
  <2>1. g.index[p] >= InitialIndex BY <1>1, <1>2
  <2>2. g.at[p] <= Live(p[1], g.rewardsFrom) BY <1>2, <1>3
  <2>3. \A u \in Users : g.user[p][u] = 0 BY ONLY <1>2
  <2>4. g.index[p] \in Nat BY <1>1, <1>2
  <2>5. QED BY ONLY <2>1, <2>2, <2>3, <2>4
<1>7. ASSUME NEW a \in Accounts, ~WasActive(bl, a, 0)
      PROVE  g.balance[a] = 0 /\ g.principal[a] = 0
  <2>1. a \notin g.active BY <1>5, <1>7 DEF WasActive
  <2>2. ~(past.balance[a] + past.principal[a] > 0) BY <1>2, <2>1
  <2>3. past.balance[a] \in Nat /\ past.principal[a] \in Nat BY <1>1
  <2>4. past.balance[a] = 0 /\ past.principal[a] = 0 BY ONLY <2>2, <2>3
  <2>5. QED BY <1>2, <2>4
<1>8. \A u \in Users : ~(g.accrued[u] > 0) BY ONLY <1>2
<1>9. bl[0].rewardsFrom = g.rewardsFrom BY <1>5
<1>10. QED BY ONLY <1>4, <1>5, <1>6, <1>7, <1>8, <1>9 DEF StateOK

LEMMA ChainStart ==
  ASSUME Init
  PROVE  ChainInv
<1>1. PICK past \in Pasts : blocks = [b \in {0} |-> Genesis(past)] BY DEF Init
<1>2. StateOK(blocks, 0) BY <1>1, GenesisOK
<1>3. DOMAIN blocks = {0} BY <1>1
<1>4. LatestBlock = 0 BY <1>3, FS_Singleton, SMTT(30) DEF LatestBlock
<1>5. 0 .. 0 = {0} /\ 1 .. 0 = {} /\ 0 \in 0 .. LastBlock BY ChainAssumption
<1>6. ChainOK(blocks, 0) BY <1>2, <1>3, <1>5 DEF ChainOK
<1>7. QED BY <1>4, <1>5, <1>6 DEF ChainInv

(* A transaction of the chain appends a block that may follow.             *)
LEMMA BlockAdded ==
  ASSUME ChainInv, ChainGrows
  PROVE  /\ \E next : /\ MayFollow(blocks, LatestBlock, next)
                      /\ NextBlock(next)
         /\ LatestBlock \in Nat /\ LatestBlock < LastBlock
<1>0. LatestBlock \in 0 .. LastBlock /\ ChainOK(blocks, LatestBlock)
      /\ LatestBlock < LastBlock
  BY DEF ChainInv, ChainGrows
<1>1. PICK l : l = LatestBlock OBVIOUS
<1>2. l \in Nat BY <1>0, <1>1, ChainAssumption
<1>3. StateOK(blocks, l) BY <1>0, <1>1, <1>2 DEF ChainOK
<1>4. StateOK(blocks, 0) BY <1>0, <1>1, <1>2 DEF ChainOK
<1>5. RewardsFrom \in Nat BY <1>4, FieldsOf DEF StateOK, RewardsFrom
<1>6. PICK o : o = Opened(blocks[l]) OBVIOUS
<1>7. Transaction(o, l + 1) BY <1>1, <1>6 DEF ChainGrows
<1>8. \E next : MayFollow(blocks, l, next) /\ NextBlock(next)
  <2>0. blocks[l] \in StateType BY <1>3 DEF StateOK
  <2>1. CASE \E m \in Markets, u \in Users, x \in Amounts :
               MintOrRedeem(o, l + 1, m, u, x)
    <3>1. PICK m \in Markets, u \in Users, x \in Amounts :
                 MintOrRedeem(o, l + 1, m, u, x)
      BY <2>1
    <3>2. PICK pools, us : pools = {<<m, "supply">>} /\ us = {u} OBVIOUS
    <3>3. PICK t : t = Touched(o, pools, us, l + 1) OBVIOUS
    <3>4. PICK next : next = Minted(t, m, u, x) OBVIOUS
    <3>5. NextBlock(next) BY <3>1, <3>2, <3>3, <3>4 DEF MintOrRedeem, Minted
    <3>6. MayFollow(blocks, l, next)
      BY <1>2, <1>3, <1>5, <1>6, <3>2, <3>3, <3>4, MintFollows
    <3>7. QED BY <3>5, <3>6
  <2>2. CASE \E m \in Borrowable, u \in Users, x \in Amounts :
               BorrowOrRepay(o, l + 1, m, u, x)
    <3>1. PICK m \in Borrowable, u \in Users, x \in Amounts :
                 BorrowOrRepay(o, l + 1, m, u, x)
      BY <2>2
    <3>2. PICK pools, us : pools = {<<m, "borrow">>} /\ us = {u} OBVIOUS
    <3>3. PICK t : t = Touched(o, pools, us, l + 1) OBVIOUS
    <3>a. PICK index : index = blocks[l].borrowIndex[m] OBVIOUS
    <3>4. PICK next : next = Borrowed(t, m, u, x, index) OBVIOUS
    <3>b. o.borrowIndex[m] = index BY <1>6, <2>0, <3>a, OpenedIs
    <3>5. NextBlock(next)
      BY <3>1, <3>2, <3>3, <3>4, <3>b DEF BorrowOrRepay, Borrowed
    <3>c. m \in Markets BY ChainAssumption
    <3>6. MayFollow(blocks, l, next)
      BY <1>2, <1>3, <1>5, <1>6, <3>2, <3>3, <3>4, <3>a, <3>c, BorrowFollows
    <3>7. QED BY <3>5, <3>6
  <2>3. CASE \E u \in Users : Claim(o, l + 1, u)
    <3>1. PICK u \in Users : Claim(o, l + 1, u) BY <2>3
    <3>2. PICK us : us = {u} OBVIOUS
    <3>3. PICK t : t = Touched(o, Pools, us, l + 1) OBVIOUS
    <3>4. PICK next : next = Claimed(t, u) OBVIOUS
    <3>5. NextBlock(next) BY <3>1, <3>2, <3>3, <3>4 DEF Claim, Claimed
    <3>6. MayFollow(blocks, l, next)
      BY <1>2, <1>3, <1>5, <1>6, <3>2, <3>3, <3>4, ClaimFollows
    <3>7. QED BY <3>5, <3>6
  <2>4. CASE \E p \in RewardedPools, x \in Speeds : SetSpeed(o, l + 1, p, x)
    <3>1. PICK p \in RewardedPools, x \in Speeds : SetSpeed(o, l + 1, p, x)
      BY <2>4
    <3>2. PICK pools, us : pools = {p} /\ us = {} OBVIOUS
    <3>3. PICK t : t = Touched(o, pools, us, l + 1) OBVIOUS
    <3>4. PICK next : next = Sped(t, p, x) OBVIOUS
    <3>5. NextBlock(next) /\ LiveFrom(p[1]) <= l + 1
      BY <3>1, <3>2, <3>3, <3>4 DEF SetSpeed, Sped
    <3>c. p \in Pools BY DEF RewardedPools
    <3>6. MayFollow(blocks, l, next)
      BY <1>2, <1>3, <1>5, <1>6, <3>2, <3>3, <3>4, <3>5, <3>c, SpeedFollows
    <3>7. QED BY <3>5, <3>6
  <2>5. CASE \E m \in Borrowable : Interest(o, m)
    <3>1. PICK m \in Borrowable : Interest(o, m) BY <2>5
    <3>2. PICK next : next = Accruing(o, m) OBVIOUS
    <3>3. NextBlock(next) BY <3>1, <3>2 DEF Interest, Accruing
    <3>4. m \in Markets BY ChainAssumption
    <3>5. MayFollow(blocks, l, next)
      BY <1>2, <1>3, <1>5, <1>6, <3>2, <3>4, InterestFollows
    <3>6. QED BY <3>3, <3>5
  <2>6. CASE \E m \in Borrowable, u \in Users : Phantom(o, l + 1, m, u)
    <3>1. PICK m \in Borrowable, u \in Users : Phantom(o, l + 1, m, u) BY <2>6
    <3>2. PICK next : next = Pretended(o, m, u) OBVIOUS
    <3>3. NextBlock(next) BY <3>1, <3>2 DEF Phantom, Pretended
    <3>4. m \in Markets BY ChainAssumption
    <3>5. MayFollow(blocks, l, next)
      BY <1>2, <1>3, <1>5, <1>6, <3>2, <3>4, PhantomFollows
    <3>6. QED BY <3>3, <3>5
  <2>7. QED BY <1>7, <2>1, <2>2, <2>3, <2>4, <2>5, <2>6 DEF Transaction
<1>9. QED BY <1>0, <1>1, <1>2, <1>8

LEMMA ChainStep ==
  ASSUME ChainInv, [Next]_vars
  PROVE  ChainInv'
<1>1. CASE ChainGrows
  <2>0. LatestBlock \in Nat /\ LatestBlock < LastBlock
        /\ ChainOK(blocks, LatestBlock)
    BY <1>1, BlockAdded DEF ChainInv
  <2>1. PICK next : MayFollow(blocks, LatestBlock, next) /\ NextBlock(next)
    BY <1>1, BlockAdded
  <2>2. blocks' = Over([b \in {LatestBlock + 1} |-> next], blocks)
    BY <2>1 DEF NextBlock
  <2>3. ChainOK(blocks', LatestBlock + 1) BY <2>0, <2>1, <2>2, Appended
  <2>4. DOMAIN blocks' = 0 .. LatestBlock + 1 BY <2>3 DEF ChainOK
  <2>5. Cardinality(0 .. LatestBlock + 1) = LatestBlock + 2
    BY <2>0, FS_Interval
  <2>6. LatestBlock' = LatestBlock + 1
    BY <2>0, <2>4, <2>5 DEF LatestBlock
  <2>7. LatestBlock + 1 \in 0 .. LastBlock BY <2>0, ChainAssumption
  <2>8. QED BY <2>3, <2>6, <2>7 DEF ChainInv
<1>2. CASE UNCHANGED blocks
  <2>1. LatestBlock' = LatestBlock BY <1>2 DEF LatestBlock
  <2>2. QED BY <1>2, <2>1 DEF ChainInv
<1>3. ASSUME ~ChainGrows PROVE UNCHANGED blocks
  <2>1. ASSUME NEW r, NEW cursor, NEW tokenFrom, Begin(r, cursor, tokenFrom)
        PROVE  UNCHANGED blocks
    BY <2>1 DEF Begin
  <2>2. ASSUME NEW m, NEW startLost, CalculateMarket(m, startLost)
        PROVE  UNCHANGED blocks
    BY <2>2 DEF CalculateMarket, Refuse
  <2>3. ReadFails => UNCHANGED blocks BY DEF ReadFails, Refuse
  <2>4. Finish => UNCHANGED blocks BY DEF Finish, Refuse
  <2>5. UNCHANGED vars => UNCHANGED blocks BY DEF vars
  <2>6. QED BY <1>3, <2>1, <2>2, <2>3, <2>4, <2>5 DEF Next
<1>4. QED BY <1>1, <1>2, <1>3
-----------------------------------------------------------------------------
(* Between two blocks of the chain.                                        *)

Settled == ChainInv /\ range \in Ranges /\ LatestBlock = LastBlock

LEMMA RangeIs ==
  ASSUME Settled
  PROVE  /\ Before \in Nat /\ End \in Nat /\ Before < End /\ End <= LastBlock
         /\ LastBlock \in Nat /\ RewardsFrom \in Nat
         /\ Before \in 0 .. LastBlock /\ End \in 0 .. LastBlock
         /\ InRange = Before + 1 .. End /\ IsFiniteSet(InRange)
         /\ InRange \subseteq 1 .. End
         /\ \A b \in 0 .. LastBlock : StateOK(blocks, b)
                                      /\ blocks[b] \in StateType
         /\ \A b \in 1 .. LastBlock :
              Follows(blocks[b - 1], blocks[b], b, RewardsFrom)
<1>1. ChainOK(blocks, LastBlock) BY DEF Settled, ChainInv
<1>2. LastBlock \in Nat BY ChainAssumption
<1>3. range \in [start : 0 .. LastBlock, end : 0 .. LastBlock,
                 selected : Selections] /\ range.start < range.end
  BY DEF Settled, Ranges
<1>4. Before \in 0 .. LastBlock /\ End \in 0 .. LastBlock /\ Before < End
  BY <1>3 DEF Before, End
<1>5. \A b \in 0 .. LastBlock : StateOK(blocks, b) /\ blocks[b] \in StateType
  BY <1>1 DEF ChainOK, StateOK
<1>6. RewardsFrom \in Nat BY <1>2, <1>5, FieldsOf DEF RewardsFrom
<1>7. \A b \in 1 .. LastBlock :
        Follows(blocks[b - 1], blocks[b], b, RewardsFrom)
  BY <1>1 DEF ChainOK, RewardsFrom
<1>8. IsFiniteSet(InRange) BY <1>2, <1>4, FS_Interval DEF InRange
<1>9. InRange \subseteq 1 .. End BY <1>2, <1>4 DEF InRange
<1>10. QED BY <1>2, <1>4, <1>5, <1>6, <1>7, <1>8, <1>9 DEF InRange

LEMMA LiveFromIs ==
  ASSUME NEW m \in Markets
  PROVE  /\ LiveFrom(m) = Live(m, RewardsFrom)
         /\ RewardsFrom \in Nat => LiveFrom(m) \in Nat
         /\ RewardsFrom \in Nat => \A b \in Nat :
              LiveFrom(m) <= b <=> ListedAt[m] <= b /\ RewardsFrom <= b
<1>1. ListedAt[m] \in Nat BY ChainAssumption
<1>2. QED BY <1>1 DEF LiveFrom, Live

(* Block b is one of the chain.                                            *)
BlockRead(b) == b \in Nat /\ StateOK(blocks, b) /\ RewardsFrom \in Nat

(* A pool that is live in block b.                                         *)
LEMMA PoolAt ==
  ASSUME NEW b, BlockRead(b), NEW p \in Pools,
         LiveFrom(p[1]) <= b, NEW c \in Nat, b <= c
  PROVE  /\ IndexAt(blocks[b], p, c) \in Nat
         /\ IndexAt(blocks[b], p, c) >= InitialIndex
         /\ IndexAt(blocks[b], p, b) \in Nat
         /\ IndexAt(blocks[b], p, b) <= IndexAt(blocks[b], p, c)
         /\ \A u \in Users :
              /\ blocks[b].user[p][u] <= IndexAt(blocks[b], p, c)
              /\ From(blocks[b], p, u) \in Nat
              /\ From(blocks[b], p, u) <= IndexAt(blocks[b], p, b)
<1>1. /\ StateOK(blocks, b) /\ blocks[b] \in StateType
      /\ RewardsFrom \in Nat /\ b \in Nat
  BY DEF BlockRead, StateOK
<1>2. p[1] \in Markets BY PoolParts
<1>3. LiveFrom(p[1]) \in Nat /\ LiveFrom(p[1]) = Live(p[1], blocks[0].rewardsFrom)
  BY <1>1, <1>2, LiveFromIs DEF RewardsFrom
<1>4. LiveFrom(p[1]) <= c BY <1>1, <1>3
<1>5. blocks[0].rewardsFrom \in Nat BY <1>1 DEF RewardsFrom
<1>6. Live(p[1], blocks[0].rewardsFrom) <= b
      /\ Live(p[1], blocks[0].rewardsFrom) <= c
  BY <1>3, <1>4
<1>7. /\ blocks[b].at[p] <= b /\ IndexAt(blocks[b], p, b) \in Nat
      /\ \A u \in Users : /\ From(blocks[b], p, u) \in Nat
                          /\ From(blocks[b], p, u) <= IndexAt(blocks[b], p, b)
  <2>1. b <= b BY <1>1
  <2>2. QED BY <1>1, <1>5, <1>6, <2>1, PoolIn
<1>8. /\ IndexAt(blocks[b], p, c) \in Nat
      /\ IndexAt(blocks[b], p, c) >= InitialIndex
      /\ \A u \in Users : blocks[b].user[p][u] <= IndexAt(blocks[b], p, c)
  BY <1>1, <1>5, <1>6, PoolIn
<1>9. IndexAt(blocks[b], p, b) <= IndexAt(blocks[b], p, c)
  BY <1>1, <1>7, IndexGrows
<1>10. QED BY <1>7, <1>8, <1>9

LEMMA LivePool ==
  ASSUME Settled, NEW b \in 0 .. LastBlock, NEW p \in Pools,
         LiveFrom(p[1]) <= b, NEW c \in Nat, b <= c
  PROVE  /\ IndexAt(blocks[b], p, c) \in Nat
         /\ IndexAt(blocks[b], p, c) >= InitialIndex
         /\ IndexAt(blocks[b], p, b) \in Nat
         /\ IndexAt(blocks[b], p, b) <= IndexAt(blocks[b], p, c)
         /\ \A u \in Users :
              /\ blocks[b].user[p][u] <= IndexAt(blocks[b], p, c)
              /\ From(blocks[b], p, u) \in Nat
              /\ From(blocks[b], p, u) <= IndexAt(blocks[b], p, b)
<1>1. BlockRead(b) BY RangeIs DEF BlockRead
<1>2. QED BY <1>1, PoolAt

LEMMA OwedAt ==
  ASSUME NEW b, BlockRead(b), NEW p \in Pools, NEW u \in Users
  PROVE  /\ OwedOn(p, u, b) \in Nat
         /\ ShareOf(blocks[b], p, u) = 0 => OwedOn(p, u, b) = 0
         /\ ~(LiveFrom(p[1]) <= b) => OwedOn(p, u, b) = 0
         /\ LiveFrom(p[1]) <= b => OwedOn(p, u, b) = Credit(blocks[b], p, u, b)
<1>1. blocks[b] \in StateType /\ b \in Nat /\ b <= b
  BY DEF BlockRead, StateOK
<1>2. CASE LiveFrom(p[1]) <= b
  <2>1. /\ IndexAt(blocks[b], p, b) \in Nat
        /\ IndexAt(blocks[b], p, b) >= InitialIndex
        /\ blocks[b].user[p][u] <= IndexAt(blocks[b], p, b)
    BY <1>1, <1>2, PoolAt
  <2>2. /\ Credit(blocks[b], p, u, b) \in Nat
        /\ ShareOf(blocks[b], p, u) = 0 => Credit(blocks[b], p, u, b) = 0
    BY <1>1, <2>1, CreditIs
  <2>3. OwedOn(p, u, b) = Credit(blocks[b], p, u, b) BY <1>2 DEF OwedOn
  <2>4. QED BY <1>2, <2>2, <2>3
<1>3. CASE ~(LiveFrom(p[1]) <= b)
  <2>1. OwedOn(p, u, b) = 0 BY <1>3 DEF OwedOn
  <2>2. QED BY <1>3, <2>1
<1>4. QED BY <1>2, <1>3

LEMMA OwedType ==
  ASSUME Settled, NEW b \in 0 .. LastBlock, NEW p \in Pools, NEW u \in Users
  PROVE  /\ OwedOn(p, u, b) \in Nat
         /\ ShareOf(blocks[b], p, u) = 0 => OwedOn(p, u, b) = 0
         /\ ~(LiveFrom(p[1]) <= b) => OwedOn(p, u, b) = 0
         /\ LiveFrom(p[1]) <= b => OwedOn(p, u, b) = Credit(blocks[b], p, u, b)
<1>1. BlockRead(b) BY RangeIs DEF BlockRead
<1>2. QED BY <1>1, OwedAt

LEMMA EventTypes ==
  ASSUME Settled, NEW b \in 0 .. LastBlock, NEW u \in Users
  PROVE  /\ blocks[b].accrued[u] \in Nat /\ blocks[b].paid[u] \in Nat
         /\ \A p \in Pools : /\ blocks[b].credited[p][u] \in Nat
                             /\ blocks[b].phantom[p][u] \in Nat
BY RangeIs, FieldsOf DEF PoolsOf

(* A user who was never active in a market has nothing to do with it.      *)
LEMMA NeverActive ==
  ASSUME Settled, NEW e \in 0 .. LastBlock, NEW p \in Pools, NEW u \in Users,
         ~WasActive(blocks, <<p[1], u>>, e)
  PROVE  /\ \A b \in 0 .. e : OwedOn(p, u, b) = 0
         /\ \A b \in 1 .. e : blocks[b].credited[p][u] = 0
<1>0. e \in Nat /\ LastBlock \in Nat /\ e <= LastBlock BY RangeIs
<1>1. <<p[1], u>> \in Accounts BY PoolParts, AccountIs
<1>2. ASSUME NEW b \in 0 .. e
      PROVE  ShareOf(blocks[b], p, u) = 0 /\ b \in 0 .. LastBlock
  <2>1. b \in 0 .. LastBlock /\ \A c \in 0 .. b : c \in 0 .. e BY <1>0
  <2>2. ~WasActive(blocks, <<p[1], u>>, b) BY <2>1 DEF WasActive
  <2>3. StateOK(blocks, b) /\ blocks[b] \in StateType BY <2>1, RangeIs
  <2>4. blocks[b].balance[<<p[1], u>>] = 0 /\ blocks[b].principal[<<p[1], u>>] = 0
    BY <1>1, <2>2, <2>3 DEF StateOK
  <2>5. ShareOf(blocks[b], p, u) = 0 BY <2>3, <2>4, ShareType
  <2>6. QED BY <2>1, <2>5
<1>3. \A b \in 0 .. e : OwedOn(p, u, b) = 0 BY <1>2, OwedType
<1>4. ASSUME NEW b \in 1 .. e
      PROVE  blocks[b].credited[p][u] = 0
  <2>1. b - 1 \in 0 .. e /\ b \in 1 .. LastBlock /\ b \in 0 .. LastBlock
    BY <1>0
  <2>2. Follows(blocks[b - 1], blocks[b], b, RewardsFrom) BY <2>1, RangeIs
  <2>3. ShareOf(blocks[b - 1], p, u) = 0 BY <1>2, <2>1
  <2>4. ~(blocks[b].credited[p][u] > 0) BY <2>2, <2>3 DEF Follows
  <2>5. blocks[b].credited[p][u] \in Nat BY <2>1, EventTypes
  <2>6. QED BY <2>4, <2>5
<1>5. QED BY <1>3, <1>4

(* While no interest rounds its shares otherwise, a pool never takes back  *)
(* what it owes, and owes more only if its index moves.                    *)
LEMMA OwedStep ==
  ASSUME Settled, NEW b \in 1 .. LastBlock, NEW p \in Pools,
         Quiet(p, blocks[b - 1], blocks[b]), NEW u \in Users
  PROVE  /\ blocks[b].credited[p][u] + OwedOn(p, u, b) >= OwedOn(p, u, b - 1)
         /\ LiveFrom(p[1]) <= b - 1 =>
              /\ IndexAt(blocks[b - 1], p, b - 1) <= IndexAt(blocks[b], p, b)
              /\ IndexAt(blocks[b - 1], p, b - 1) = IndexAt(blocks[b], p, b) =>
                   blocks[b].credited[p][u] + OwedOn(p, u, b)
                     = OwedOn(p, u, b - 1)
<1> DEFINE st == blocks[b - 1]
           next == blocks[b]
<1>0. /\ b - 1 \in 0 .. LastBlock /\ b \in 0 .. LastBlock /\ b \in Nat
      /\ b - 1 <= b /\ b <= b /\ b - 1 \in Nat
  BY RangeIs
<1>1. /\ st \in StateType /\ next \in StateType
      /\ Follows(st, next, b, RewardsFrom) /\ RewardsFrom \in Nat
  BY <1>0, RangeIs
<1>2. /\ next.credited[p][u] \in Nat /\ OwedOn(p, u, b) \in Nat
      /\ OwedOn(p, u, b - 1) \in Nat
  BY <1>0, EventTypes, OwedType
<1>3. p[1] \in Markets BY PoolParts
<1>4. LiveFrom(p[1]) = Live(p[1], RewardsFrom) /\ LiveFrom(p[1]) \in Nat
  BY <1>1, <1>3, LiveFromIs
<1>5. CASE ~(LiveFrom(p[1]) <= b - 1)
  <2>1. OwedOn(p, u, b - 1) = 0 BY <1>0, <1>5, OwedType
  <2>2. QED BY <1>2, <1>5, <2>1
<1>6. CASE LiveFrom(p[1]) <= b - 1
  <2>0. LiveFrom(p[1]) <= b BY <1>0, <1>4, <1>6
  <2>1. /\ IndexAt(next, p, b) = IndexAt(st, p, b)
        /\ CreditedIn(st, next, p, u, b) \/ LeftIn(st, next, p, u)
    BY <1>1, <1>4, <2>0 DEF Follows
  <2>2. PICK i, j, from, s :
          /\ i = IndexAt(st, p, b - 1) /\ j = IndexAt(next, p, b)
          /\ from = From(st, p, u) /\ s = ShareOf(st, p, u)
    OBVIOUS
  <2>3. /\ i \in Nat /\ j \in Nat /\ from \in Nat /\ from <= i /\ i <= j
        /\ j >= InitialIndex
    BY <1>0, <1>6, <2>1, <2>2, LivePool
  <2>4. s \in Nat BY <1>1, <2>2, ShareType
  <2>5. OwedOn(p, u, b - 1) = (s * (i - from)) \div DoubleScale
    <3>1. OwedOn(p, u, b - 1) = Credit(st, p, u, b - 1)
      BY <1>0, <1>6, OwedType
    <3>2. QED BY <2>2, <3>1 DEF Credit, From
  <2>6. next.credited[p][u] + OwedOn(p, u, b) = (s * (j - from)) \div DoubleScale
    <3>0. OwedOn(p, u, b) = Credit(next, p, u, b) BY <1>0, <2>0, OwedType
    <3>1. CASE CreditedIn(st, next, p, u, b)
      <4>1. next.credited[p][u] = (s * (j - from)) \div DoubleScale
        BY <2>1, <2>2, <3>1 DEF CreditedIn, Credit, From
      <4>2. next.user[p][u] = j BY <2>1, <2>2, <3>1 DEF CreditedIn
      <4>3. j # 0 BY <2>3, ScalesPositive DEF Positive
      <4>4. From(next, p, u) = IndexAt(next, p, b)
        BY <2>2, <4>2, <4>3 DEF From
      <4>5. next.user[p][u] <= IndexAt(next, p, b) BY <2>2, <2>3, <4>2
      <4>6. Credit(next, p, u, b) = 0
        BY <1>1, <2>2, <2>3, <4>4, <4>5, CreditIs
      <4>7. QED BY <1>2, <3>0, <4>1, <4>6
    <3>2. CASE LeftIn(st, next, p, u)
      <4>1. /\ next.credited[p][u] = 0 /\ ShareOf(next, p, u) = s
            /\ From(next, p, u) = from
        BY <2>2, <3>2 DEF LeftIn, From
      <4>2. Credit(next, p, u, b) = (s * (j - from)) \div DoubleScale
        BY <2>2, <4>1 DEF Credit, From
      <4>3. QED BY <1>2, <3>0, <4>1, <4>2
    <3>3. QED BY <2>1, <3>1, <3>2
  <2>7. (s * (i - from)) \div DoubleScale <= (s * (j - from)) \div DoubleScale
    BY <2>3, <2>4, CreditGrows
  <2>8. QED BY <1>2, <2>2, <2>3, <2>5, <2>6, <2>7
<1>7. QED BY <1>5, <1>6
(* A market whose borrow index is the same at both ends had no interest.   *)
LEMMA SteadyWithin ==
  ASSUME Settled, NEW m \in Markets, Steady(m)
  PROVE  \A b \in InRange : blocks[b - 1].borrowIndex[m] = blocks[b].borrowIndex[m]
<1> DEFINE h == [b \in 0 .. LastBlock |-> blocks[b].borrowIndex[m]]
<1>0. /\ Before \in Nat /\ End \in Nat /\ Before < End /\ End <= LastBlock
      /\ LastBlock \in Nat /\ InRange = Before + 1 .. End
  BY RangeIs
<1>1. \A b \in 0 .. LastBlock : h[b] = blocks[b].borrowIndex[m] /\ h[b] \in Nat
  BY RangeIs, FieldsOf DEF Positive
<1>2. \A b \in 1 .. LastBlock : h[b - 1] <= h[b]
  <2> TAKE b \in 1 .. LastBlock
  <2>1. b - 1 \in 0 .. LastBlock /\ b \in 0 .. LastBlock BY <1>0
  <2>2. blocks[b - 1].borrowIndex[m] <= blocks[b].borrowIndex[m]
    BY RangeIs DEF Follows
  <2>3. QED BY <1>1, <2>1, <2>2
<1> HIDE DEF h
<1>3. /\ \A b \in Before .. End : b \in 0 .. LastBlock
      /\ \A b \in Before + 1 .. End : b \in 1 .. LastBlock
  BY <1>0
<1>4. \A b \in Before .. End : h[Before] <= h[b] /\ h[b] <= h[End]
  <2>1. \A b \in Before .. End : h[b] \in Nat BY <1>1, <1>3
  <2>2. \A b \in Before + 1 .. End : h[b - 1] <= h[b] BY <1>2, <1>3
  <2>3. Before <= End BY <1>0
  <2>4. QED BY <1>0, <2>1, <2>2, <2>3, Rising
<1>5. h[Before] = h[End]
  <2>1. Before \in 0 .. LastBlock /\ End \in 0 .. LastBlock BY <1>0
  <2>2. QED BY <1>1, <2>1 DEF Steady
<1>6. ASSUME NEW b \in InRange
      PROVE  blocks[b - 1].borrowIndex[m] = blocks[b].borrowIndex[m]
  <2>1. b - 1 \in Before .. End /\ b \in Before .. End BY <1>0
  <2>2. b - 1 \in 0 .. LastBlock /\ b \in 0 .. LastBlock BY <1>3, <2>1
  <2>3. h[b - 1] = h[b]
    <3>1. h[b] \in Nat /\ h[b - 1] \in Nat /\ h[End] \in Nat BY <1>0, <1>1, <2>2
    <3>2. h[Before] <= h[b] /\ h[b] <= h[End] /\ h[Before] <= h[b - 1]
          /\ h[b - 1] <= h[End]
      BY <1>4, <2>1
    <3>3. QED BY <1>5, <3>1, <3>2
  <2>4. QED BY <1>1, <2>2, <2>3
<1>7. QED BY <1>6

(* No interest rounds the shares of the pool otherwise in the range.       *)
QuietPool(p) == p[2] = "supply" \/ Steady(p[1])

(* The index of the pool is the same at both ends of the range.            *)
Unmoved(p) ==
  /\ ListedAt[p[1]] <= Before /\ HasBoundary(Before)
  /\ IndexAt(blocks[Before], p, Before) = IndexAt(blocks[End], p, End)

LEMMA CreditedType ==
  ASSUME Settled, NEW p \in Pools, NEW u \in Users
  PROVE  CreditedOn(p, u) \in Nat
<1> DEFINE f == [b \in InRange |-> blocks[b].credited[p][u]]
<1>1. \A b \in InRange : b \in 0 .. LastBlock BY RangeIs
<1>2. \A b \in InRange : f[b] \in Nat BY <1>1, EventTypes
<1>3. DOMAIN f = InRange /\ IsFiniteSet(InRange) BY RangeIs
<1> HIDE DEF f
<1>4. SumFunctionOnSet(f, InRange) \in Nat BY <1>2, <1>3, SumType
<1>5. QED BY <1>3, <1>4 DEF CreditedOn, SumFunction, f

(* What a quiet pool pays and owes is never less than it owed; it is no    *)
(* more when its index did not move.                                       *)
LEMMA EarnedQuiet ==
  ASSUME Settled, NEW p \in Pools, NEW u \in Users, QuietPool(p)
  PROVE  /\ CreditedOn(p, u) + OwedOn(p, u, End) >= OwedOn(p, u, Before)
         /\ Unmoved(p) =>
              CreditedOn(p, u) + OwedOn(p, u, End) = OwedOn(p, u, Before)
<1> DEFINE f == [b \in InRange |-> blocks[b].credited[p][u]]
           h == [b \in 0 .. LastBlock |-> OwedOn(p, u, b)]
           i == [b \in 0 .. LastBlock |-> IndexAt(blocks[b], p, b)]
<1>0. /\ Before \in Nat /\ End \in Nat /\ Before < End /\ End <= LastBlock
      /\ LastBlock \in Nat /\ InRange = Before + 1 .. End
      /\ RewardsFrom \in Nat /\ Before <= End
  BY RangeIs
<1>1. \A b \in InRange :
        /\ b \in 1 .. LastBlock /\ b \in 0 .. LastBlock
        /\ b - 1 \in 0 .. LastBlock /\ b - 1 \in Before .. End
        /\ b \in Before .. End
  BY <1>0
<1>2. /\ \A b \in Before .. End : b \in 0 .. LastBlock
      /\ Before \in 0 .. LastBlock /\ End \in 0 .. LastBlock
      /\ Before \in Before .. End /\ End \in Before .. End
  BY <1>0
<1>3. \A b \in InRange : Quiet(p, blocks[b - 1], blocks[b])
  BY PoolParts, SteadyWithin DEF QuietPool, Quiet
<1>4. \A b \in InRange :
        /\ f[b] + h[b] >= h[b - 1]
        /\ LiveFrom(p[1]) <= b - 1 =>
             i[b - 1] <= i[b] /\ (i[b - 1] = i[b] => f[b] + h[b] = h[b - 1])
  BY <1>1, <1>3, OwedStep
<1>5. \A b \in InRange : f[b] \in Nat BY <1>1, EventTypes
<1>6. \A b \in 0 .. LastBlock : h[b] \in Nat /\ h[b] = OwedOn(p, u, b)
  BY OwedType
<1>7. /\ \A b \in 0 .. LastBlock : LiveFrom(p[1]) <= b => i[b] \in Nat
      /\ \A b \in 0 .. LastBlock : i[b] = IndexAt(blocks[b], p, b)
  <2>1. ASSUME NEW b \in 0 .. LastBlock, LiveFrom(p[1]) <= b
        PROVE  IndexAt(blocks[b], p, b) \in Nat
    <3>1. b \in Nat /\ b <= b BY <1>0
    <3>2. QED BY <2>1, <3>1, LivePool
  <2>2. QED BY <2>1
<1>8. CreditedOn(p, u) = SumFunctionOnSet(f, InRange)
  BY DEF CreditedOn, SumFunction
<1> HIDE DEF f, h, i
<1>9. CreditedOn(p, u) + OwedOn(p, u, End) >= OwedOn(p, u, Before)
  <2>1. \A b \in Before .. End : h[b] \in Nat BY <1>2, <1>6
  <2>2. \A b \in InRange : f[b] \in Nat /\ f[b] + h[b] >= h[b - 1]
    BY <1>4, <1>5
  <2>3. SumFunctionOnSet(f, InRange) + h[End] >= h[Before]
    BY <1>0, <2>1, <2>2, TelescopeAtLeast
  <2>4. QED BY <1>2, <1>6, <1>8, <2>3
<1>10. ASSUME Unmoved(p)
       PROVE  CreditedOn(p, u) + OwedOn(p, u, End) = OwedOn(p, u, Before)
  <2>0. \A b \in Before .. End : LiveFrom(p[1]) <= b
    <3>1. p[1] \in Markets BY PoolParts
    <3>2. LiveFrom(p[1]) \in Nat /\ LiveFrom(p[1]) <= Before
      BY <1>0, <1>10, <3>1, LiveFromIs DEF Unmoved, HasBoundary
    <3>3. QED BY <1>0, <3>2
  <2>1. \A b \in Before .. End : i[b] \in Nat BY <1>2, <1>7, <2>0
  <2>2. \A b \in Before + 1 .. End : i[b - 1] <= i[b]
    BY <1>0, <1>1, <1>4, <2>0
  <2>3. i[Before] = i[End] BY <1>2, <1>7, <1>10 DEF Unmoved
  <2>4. \A b \in Before .. End : i[Before] <= i[b] /\ i[b] <= i[End]
    BY <1>0, <2>1, <2>2, Rising
  <2>5. \A b \in Before .. End : i[b] = i[End]
    <3> TAKE b \in Before .. End
    <3>1. i[b] \in Nat /\ i[End] \in Nat /\ i[End] <= i[b] /\ i[b] <= i[End]
      BY <1>2, <2>1, <2>3, <2>4
    <3>2. QED BY <3>1
  <2>6. \A b \in InRange : f[b] \in Nat /\ f[b] + h[b] = h[b - 1]
    <3> TAKE b \in InRange
    <3>1. i[b - 1] = i[b] /\ LiveFrom(p[1]) <= b - 1 BY <1>1, <2>0, <2>5
    <3>2. QED BY <1>4, <1>5, <3>1
  <2>7. \A b \in Before .. End : h[b] \in Nat BY <1>2, <1>6
  <2>8. SumFunctionOnSet(f, InRange) + h[End] = h[Before]
    <3>1. Drains(f, h, InRange) BY <2>6 DEF Drains
    <3>2. QED BY <1>0, <2>7, <3>1, TelescopeExact
  <2>9. QED BY <1>2, <1>6, <1>8, <2>8
<1>11. QED BY <1>9, <1>10

-----------------------------------------------------------------------------
(* The calculation.                                                        *)

(* Markets of a user that are calculated.                                  *)
Through(u) ==
  {m \in Markets \ left : usersBy[<<m, u>>] # None /\ ListedAt[m] <= End}

OwedIn(u, b) ==
  [m \in Markets |-> OwedOn(<<m, "supply">>, u, b) + OwedOn(<<m, "borrow">>, u, b)]

(* What the calculation finds a pool to have paid a user in the range when *)
(* nothing at its start is missed.                                         *)
RewardOf(p, u) ==
  IF Unmoved(p) THEN 0
  ELSE EventsOf(p, u) + OwedOn(p, u, End) - OwedOn(p, u, Before)

RewardsIn(u) ==
  [m \in Markets |-> RewardOf(<<m, "supply">>, u) + RewardOf(<<m, "borrow">>, u)]

RowTotals(u) == [m \in Markets |-> RowTotal(<<m, u>>)]

NoRow == [side \in Sides |-> 0]

(* Nothing is calculated yet.                                              *)
FreshInv ==
  phase = "chain" =>
    /\ rows = [a \in Accounts |-> NoRow]
    /\ totals = [u \in Users |-> None] /\ result = [u \in Users |-> None]
    /\ ~hasStart /\ ~lost

(* The totals of a user are the sums over the markets calculated so far.   *)
TotalsOK(u) ==
  /\ totals[u].end = SumFunctionOnSet(OwedIn(u, End), Through(u))
  /\ \A m \in Through(u) : totals[u].createdAt <= usersBy[<<m, u>>]
  /\ ~lost =>
       /\ totals[u].before = SumFunctionOnSet(OwedIn(u, Before), Through(u))
       /\ \A m \in Through(u), side \in Sides : RewardOf(<<m, side>>, u) \in Nat
       /\ totals[u].earned = SumFunctionOnSet(RewardsIn(u), Through(u))

WorkInv ==
  phase \in {"markets", "done"} =>
    /\ LatestBlock = LastBlock /\ range \in Ranges
    /\ \E cursor \in End .. LastBlock : usersBy = UsersByMarket(range, cursor)
    /\ \A u \in Users : totals[u] = None <=> Through(u) = {}
    /\ \A u \in Users : totals[u] # None => TotalsOK(u)
    /\ ~lost => \A u \in Users : \A m \in Through(u) :
         ReadsStart(m) /\ HasBoundary(Before) => hasStart

RowsInv ==
  phase = "markets" =>
    \A u \in Users :
      /\ \A m \in Markets \ Through(u) : rows[<<m, u>>] = NoRow
      /\ totals[u] # None =>
           totals[u].earned = SumFunctionOnSet(RowTotals(u), Through(u))
      /\ ~lost => \A m \in Through(u), side \in Sides :
           rows[<<m, u>>][side] = RewardOf(<<m, side>>, u)

(* A user without totals has no rows; rows add up to what the user is      *)
(* found to have earned, and are left alone when that is all of them.      *)
DoneInv ==
  phase = "done" =>
    /\ left = {}
    /\ \A u \in Users :
         IF totals[u] = None
         THEN result[u] = None /\ \A m \in Markets : rows[<<m, u>>] = NoRow
         ELSE /\ SumFunctionOnSet(RowTotals(u), Markets) = Reconciled(u)
              /\ ~Partial => ClaimedRaw(u) >= 0
              /\ result[u] = IF \/ Reconciled(u) > 0 \/ Remaining(u) > 0
                                \/ ~Partial /\ ClaimedRaw(u) > 0
                             THEN [earned |-> Reconciled(u),
                                   claimed |-> ClaimedRaw(u),
                                   remaining |-> Remaining(u),
                                   forPeriod |-> FifoRemainingForPeriod(
                                                   Reconciled(u), Remaining(u))]
                             ELSE None
              /\ ~lost /\ Reconciled(u) = totals[u].earned =>
                   \A m \in Markets, side \in Sides :
                     rows[<<m, u>>][side] = IF m \in Through(u)
                                            THEN RewardOf(<<m, side>>, u) ELSE 0

(* What is paid to a user and what is accrued at the end is what was       *)
(* accrued before and what was credited.                                   *)
LEMMA Ledger ==
  ASSUME Settled, NEW u \in Users, NEW c, c = [p \in Pools |-> CreditedOn(p, u)]
  PROVE  /\ Paid(u) \in Nat /\ SumFunctionOnSet(c, Pools) \in Nat
         /\ Paid(u) + blocks[End].accrued[u]
              = blocks[Before].accrued[u] + SumFunctionOnSet(c, Pools)
<1> DEFINE f == [b \in InRange |-> blocks[b].paid[u]]
           h == [b \in 0 .. LastBlock |-> blocks[b].accrued[u]]
           each == [b \in InRange |-> CreditsOf(blocks[b], u)]
           turned == [p \in Pools |-> [b \in InRange |-> blocks[b].credited[p][u]]]
           g == [b \in InRange |-> SumFunctionOnSet(each[b], Pools)]
<1>0. /\ Before \in Nat /\ End \in Nat /\ Before < End /\ End <= LastBlock
      /\ LastBlock \in Nat /\ InRange = Before + 1 .. End /\ Before <= End
      /\ IsFiniteSet(InRange) /\ IsFiniteSet(Pools)
      /\ Before \in 0 .. LastBlock /\ End \in 0 .. LastBlock
  BY RangeIs, FinitePools
<1>1. \A b \in InRange : /\ b \in 1 .. LastBlock /\ b \in 0 .. LastBlock
                         /\ b - 1 \in 0 .. LastBlock
  BY <1>0
<1>2. \A b \in InRange : \A p \in Pools :
        /\ each[b][p] \in Nat /\ turned[p][b] = each[b][p]
  BY <1>1, EventTypes DEF CreditsOf
<1>3. \A b \in InRange : g[b] = SumFunctionOnSet(each[b], Pools) OBVIOUS
<1>4. \A p \in Pools : c[p] = SumFunctionOnSet(turned[p], InRange)
  <2>1. \A p \in Pools : c[p] = CreditedOn(p, u) OBVIOUS
  <2>2. \A p \in Pools : CreditedOn(p, u) = SumFunctionOnSet(turned[p], InRange)
    BY DEF CreditedOn, SumFunction
  <2>3. QED BY <2>1, <2>2
<1>5. \A b \in InRange : f[b] + h[b] = h[b - 1] + g[b] /\ f[b] \in Nat
  <2> TAKE b \in InRange
  <2>1. Follows(blocks[b - 1], blocks[b], b, RewardsFrom) BY <1>1, RangeIs
  <2>2. blocks[b].accrued[u] + blocks[b].paid[u]
          = blocks[b - 1].accrued[u] + SumFunction(CreditsOf(blocks[b], u))
    BY <2>1 DEF Follows
  <2>3. /\ f[b] = blocks[b].paid[u] /\ h[b] = blocks[b].accrued[u]
        /\ h[b - 1] = blocks[b - 1].accrued[u]
        /\ f[b] \in Nat /\ h[b] \in Nat
    BY <1>1, EventTypes
  <2>4. g[b] = SumFunction(CreditsOf(blocks[b], u))
    BY DEF SumFunction, CreditsOf
  <2>5. QED BY <2>2, <2>3, <2>4
<1>6. /\ \A b \in 0 .. LastBlock : h[b] \in Nat
      /\ h[Before] = blocks[Before].accrued[u]
      /\ h[End] = blocks[End].accrued[u]
  BY <1>0, EventTypes
<1>7. Paid(u) = SumFunctionOnSet(f, InRange) BY DEF Paid, SumFunction
<1> HIDE DEF f, g, h, each, turned
<1>8. \A b \in InRange : g[b] \in Nat
  <2> TAKE b \in InRange
  <2>1. \A p \in Pools : each[b][p] \in Nat BY <1>2
  <2>2. QED BY <1>0, <1>3, <2>1, SumType
<1>9. SumFunctionOnSet(f, InRange) + h[End]
        = h[Before] + SumFunctionOnSet(g, InRange)
  <2>1. Level(h, f, g, Before, End) BY <1>0, <1>1, <1>5, <1>6, <1>8 DEF Level
  <2>2. QED BY <1>0, <2>1, Telescope
<1>10. SumFunctionOnSet(g, InRange) = SumFunctionOnSet(c, Pools)
  <2>1. \A b \in InRange : \A p \in Pools : each[b][p] \in Nat BY <1>2
  <2>2. \A b \in InRange : \A p \in Pools : turned[p][b] = each[b][p] BY <1>2
  <2>3. IsFiniteSet(InRange) /\ IsFiniteSet(Pools) BY <1>0
  <2>4. IsTable(each, turned, g, c, InRange, Pools)
    BY ONLY <1>3, <1>4, <2>1, <2>2 DEF IsTable
  <2>5. QED BY ONLY <2>3, <2>4, SumSwap
<1>11. SumFunctionOnSet(f, InRange) \in Nat BY <1>0, <1>5, SumType
<1>12. SumFunctionOnSet(g, InRange) \in Nat BY <1>0, <1>8, SumType
<1>13. QED BY <1>6, <1>7, <1>9, <1>10, <1>11, <1>12

(* By markets.                                                             *)
CreditsIn(u) ==
  [m \in Markets |-> CreditedOn(<<m, "supply">>, u) + CreditedOn(<<m, "borrow">>, u)]

LEMMA ByMarkets ==
  ASSUME NEW f, NEW g, \A p \in Pools : f[p] \in Nat,
         \A m \in Markets : g[m] = f[<<m, "supply">>] + f[<<m, "borrow">>]
  PROVE  /\ SumFunctionOnSet(f, Pools) = SumFunctionOnSet(g, Markets)
         /\ SumFunctionOnSet(g, Markets) \in Nat
         /\ \A m \in Markets : g[m] \in Nat
<1>1. Pools = Markets \X {"supply", "borrow"} BY DEF Pools, Sides
<1>2. "supply" # "borrow" OBVIOUS
<1>3. SumFunctionOnSet(f, Pools) = SumFunctionOnSet(g, Markets)
  <2>1. \A p \in Markets \X {"supply", "borrow"} : f[p] \in Nat BY <1>1
  <2>2. IsFiniteSet(Markets) BY FiniteUsers
  <2>3. SumFunctionOnSet(f, Markets \X {"supply", "borrow"})
          = SumFunctionOnSet(g, Markets)
    <3>1. PairsSum(f, g, Markets, "supply", "borrow")
      BY <2>1 DEF PairsSum
    <3>2. QED BY <1>2, <2>2, <3>1, SumPairs
  <2>4. QED BY <1>1, <2>3
<1>4. \A m \in Markets : g[m] \in Nat
  <2> TAKE m \in Markets
  <2>1. <<m, "supply">> \in Pools /\ <<m, "borrow">> \in Pools BY <1>1
  <2>2. f[<<m, "supply">>] \in Nat /\ f[<<m, "borrow">>] \in Nat BY <2>1
  <2>3. QED BY <2>2
<1>5. SumFunctionOnSet(g, Markets) \in Nat BY <1>4, FiniteUsers, SumType
<1>6. QED BY <1>3, <1>4, <1>5

LEMMA BothSides ==
  ASSUME NEW m \in Markets
  PROVE  <<m, "supply">> \in Pools /\ <<m, "borrow">> \in Pools
BY DEF Pools, Sides

LEMMA OwedSum ==
  ASSUME Settled, NEW b \in 0 .. LastBlock, NEW u \in Users
  PROVE  /\ \A m \in Markets : OwedIn(u, b)[m] \in Nat
         /\ SumFunctionOnSet(OwedIn(u, b), Markets) \in Nat
         /\ Owed(u, b) = blocks[b].accrued[u]
                           + SumFunctionOnSet(OwedIn(u, b), Markets)
         /\ Owed(u, b) \in Nat
<1> DEFINE f == [p \in Pools |-> OwedOn(p, u, b)]
<1>1. \A p \in Pools : f[p] \in Nat BY OwedType
<1>2. \A m \in Markets :
        OwedIn(u, b)[m] = f[<<m, "supply">>] + f[<<m, "borrow">>]
  BY BothSides DEF OwedIn
<1>3. Owed(u, b) = blocks[b].accrued[u] + SumFunctionOnSet(f, Pools)
  BY DEF Owed, SumFunction
<1> HIDE DEF f
<1>4. blocks[b].accrued[u] \in Nat BY EventTypes
<1>5. /\ SumFunctionOnSet(f, Pools) = SumFunctionOnSet(OwedIn(u, b), Markets)
      /\ SumFunctionOnSet(OwedIn(u, b), Markets) \in Nat
      /\ \A m \in Markets : OwedIn(u, b)[m] \in Nat
  BY <1>1, <1>2, ByMarkets
<1>6. QED BY <1>3, <1>4, <1>5

LEMMA EarnedSum ==
  ASSUME Settled, NEW u \in Users
  PROVE  /\ \A m \in Markets : CreditsIn(u)[m] \in Nat
         /\ SumFunctionOnSet(CreditsIn(u), Markets) \in Nat
         /\ Earned(u) \in Int
         /\ Earned(u) + SumFunctionOnSet(OwedIn(u, Before), Markets)
              = SumFunctionOnSet(CreditsIn(u), Markets)
                  + SumFunctionOnSet(OwedIn(u, End), Markets)
<1> DEFINE c == [p \in Pools |-> CreditedOn(p, u)]
<1>1. \A p \in Pools : c[p] \in Nat BY CreditedType
<1>2. \A m \in Markets : CreditsIn(u)[m] = c[<<m, "supply">>] + c[<<m, "borrow">>]
  BY BothSides DEF CreditsIn
<1>3. /\ Paid(u) \in Nat
      /\ Paid(u) + blocks[End].accrued[u]
           = blocks[Before].accrued[u] + SumFunctionOnSet(c, Pools)
  BY Ledger
<1> HIDE DEF c
<1>4. /\ SumFunctionOnSet(c, Pools) = SumFunctionOnSet(CreditsIn(u), Markets)
      /\ SumFunctionOnSet(CreditsIn(u), Markets) \in Nat
      /\ \A m \in Markets : CreditsIn(u)[m] \in Nat
  BY <1>1, <1>2, ByMarkets
<1>5. Before \in 0 .. LastBlock /\ End \in 0 .. LastBlock BY RangeIs
<1>6. /\ SumFunctionOnSet(OwedIn(u, Before), Markets) \in Nat
      /\ SumFunctionOnSet(OwedIn(u, End), Markets) \in Nat
      /\ Owed(u, Before) = blocks[Before].accrued[u]
                             + SumFunctionOnSet(OwedIn(u, Before), Markets)
      /\ Owed(u, End) = blocks[End].accrued[u]
                          + SumFunctionOnSet(OwedIn(u, End), Markets)
  BY <1>5, OwedSum
<1>7. blocks[End].accrued[u] \in Nat /\ blocks[Before].accrued[u] \in Nat
  BY <1>5, EventTypes
<1>8. Earned(u) = Paid(u) + Owed(u, End) - Owed(u, Before) BY DEF Earned
<1>9. QED BY <1>3, <1>4, <1>6, <1>7, <1>8, SMTT(30)
-----------------------------------------------------------------------------
(* Users of a market.                                                      *)

LEMMA TimeGrows ==
  ASSUME NEW b \in 0 .. LastBlock, NEW c \in 0 .. LastBlock, b <= c
  PROVE  Time[b] \in Nat /\ Time[c] \in Nat /\ Time[b] <= Time[c]
<1>1. LastBlock \in Nat /\ b \in Nat /\ c \in Nat BY ChainAssumption
<1>2. \A k \in b .. c : Time[k] \in Nat BY <1>1, ChainAssumption
<1>3. \A k \in b + 1 .. c : Time[k - 1] <= Time[k]
  <2>1. \A k \in b + 1 .. c : k \in 1 .. LastBlock BY <1>1
  <2>2. QED BY <2>1, ChainAssumption
<1>4. b \in b .. c /\ c \in b .. c BY <1>1
<1>5. Time[b] <= Time[c] BY <1>1, <1>2, <1>3, <1>4, Rising
<1>6. QED BY <1>2, <1>4, <1>5

(* A user who was active by the end of the range is found, and one who was *)
(* active before it is dated before it.                                    *)
LEMMA UsersFound ==
  ASSUME Settled, NEW cursor \in End .. LastBlock, NEW a \in Accounts,
         NEW at, at = UsersByMarket(range, cursor)[a]
  PROVE  /\ at \in Nat \cup {None}
         /\ at # None => at \in Nat
         /\ WasActive(blocks, a, End) /\ Selects(range, a[1]) => at # None
         /\ WasActive(blocks, a, Before) /\ at # None => at <= Time[Before]
<1> DEFINE seen == {t \in IndexedAt(a, cursor) : t <= Time[range.end]}
<1>0. /\ Before \in Nat /\ End \in Nat /\ Before < End /\ End <= LastBlock
      /\ LastBlock \in Nat /\ Before <= End
      /\ Before \in 0 .. LastBlock /\ End \in 0 .. LastBlock
      /\ Before = range.start /\ End = range.end
  BY RangeIs DEF Before, End
<1>1. \A c \in 0 .. cursor : c \in 0 .. LastBlock BY <1>0
<1>2. seen \in SUBSET Nat
  <2>1. \A c \in 0 .. cursor : Time[c] \in Nat BY <1>1, ChainAssumption
  <2>2. QED BY <2>1 DEF IndexedAt
<1>3. at = IF ~Selects(range, a[1]) THEN None
           ELSE IF seen # {} THEN Min(seen)
           ELSE IF Distributed(a, range) # {} THEN Time[range.start]
           ELSE None
  BY DEF UsersByMarket
<1>4. Time[range.start] \in Nat BY <1>0, TimeGrows
<1>5. ASSUME NEW c \in 0 .. End, a \in blocks[c].active
      PROVE  Time[c] \in seen
  <2>1. c \in 0 .. cursor /\ c \in 0 .. LastBlock /\ c <= End BY <1>0
  <2>2. Time[c] <= Time[End] BY <1>0, <2>1, TimeGrows
  <2>3. Time[c] \in IndexedAt(a, cursor) BY <1>5, <2>1 DEF IndexedAt
  <2>4. QED BY <1>0, <2>2, <2>3
<1> HIDE DEF seen
<1>6. seen # {} => Min(seen) \in Nat /\ \A t \in seen : Min(seen) <= t
  BY <1>2, MinIs
<1>n. None \notin Nat BY RewardsAssumption
<1>7. ASSUME WasActive(blocks, a, End), Selects(range, a[1])
      PROVE  at # None
  <2>1. seen # {} BY <1>5, <1>7 DEF WasActive
  <2>2. QED BY <1>3, <1>6, <1>7, <1>n, <2>1
<1>8. ASSUME WasActive(blocks, a, Before), at # None
      PROVE  at <= Time[Before]
  <2>1. PICK c \in 0 .. Before : a \in blocks[c].active
    BY <1>8 DEF WasActive
  <2>2. c \in 0 .. End /\ c \in 0 .. LastBlock /\ c <= Before BY <1>0
  <2>3. Time[c] \in seen BY <1>5, <2>1, <2>2
  <2>4. at = Min(seen) /\ at <= Time[c] /\ at \in Nat
    BY <1>3, <1>6, <1>8, <2>3
  <2>5. Time[c] \in Nat /\ Time[Before] \in Nat /\ Time[c] <= Time[Before]
    BY <1>0, <2>2, TimeGrows
  <2>6. QED BY <2>4, <2>5
<1>9. QED BY <1>3, <1>4, <1>6, <1>7, <1>8

LEMMA ActiveLater ==
  ASSUME NEW b \in Nat, NEW c \in Nat, b <= c, NEW a, WasActive(blocks, a, b)
  PROVE  WasActive(blocks, a, c)
<1>1. PICK k \in 0 .. b : a \in blocks[k].active BY DEF WasActive
<1>2. k \in 0 .. c OBVIOUS
<1>3. QED BY <1>1, <1>2 DEF WasActive

(* A market that is left out for a user is one in which nothing happened   *)
(* to the user.                                                            *)
LEMMA LeftOut ==
  ASSUME Settled, NEW cursor \in End .. LastBlock,
         usersBy = UsersByMarket(range, cursor),
         NEW m \in Markets, NEW u \in Users, Selects(range, m),
         usersBy[<<m, u>>] = None \/ ~(ListedAt[m] <= End),
         NEW p \in Pools, p[1] = m
  PROVE  /\ OwedOn(p, u, Before) = 0 /\ OwedOn(p, u, End) = 0
         /\ \A b \in InRange : blocks[b].credited[p][u] = 0
<1>0. /\ Before \in Nat /\ End \in Nat /\ Before < End /\ End <= LastBlock
      /\ LastBlock \in Nat /\ Before <= End /\ InRange = Before + 1 .. End
      /\ Before \in 0 .. LastBlock /\ End \in 0 .. LastBlock
      /\ RewardsFrom \in Nat /\ InRange \subseteq 1 .. End
  BY RangeIs
<1>1. CASE usersBy[<<m, u>>] = None
  <2>1. PICK a : a = <<m, u>> OBVIOUS
  <2>2. a \in Accounts /\ a[1] = m BY <2>1, AccountIs
  <2>3. ~WasActive(blocks, a, End) BY <1>1, <2>1, <2>2, UsersFound
  <2>4. /\ \A b \in 0 .. End : OwedOn(p, u, b) = 0
        /\ \A b \in 1 .. End : blocks[b].credited[p][u] = 0
    BY <1>0, <2>1, <2>3, NeverActive
  <2>5. Before \in 0 .. End /\ End \in 0 .. End BY <1>0
  <2>6. QED BY <1>0, <2>4, <2>5
<1>2. CASE ~(ListedAt[m] <= End)
  <2>1. LiveFrom(m) \in Nat /\ LiveFrom(m) = Live(m, RewardsFrom)
        /\ \A b \in Nat : LiveFrom(m) <= b <=> ListedAt[m] <= b /\ RewardsFrom <= b
    BY <1>0, LiveFromIs
  <2>2. ListedAt[m] \in Nat BY ChainAssumption
  <2>3. \A b \in 0 .. End : ~(LiveFrom(m) <= b)
    <3> TAKE b \in 0 .. End
    <3>1. b \in Nat /\ b <= End BY <1>0
    <3>2. ~(ListedAt[m] <= b) BY <1>0, <1>2, <2>2, <3>1
    <3>3. QED BY <2>1, <3>1, <3>2
  <2>4. OwedOn(p, u, Before) = 0 /\ OwedOn(p, u, End) = 0
    <3>1. Before \in 0 .. End /\ End \in 0 .. End BY <1>0
    <3>2. QED BY <1>0, <2>3, <3>1, OwedType
  <2>5. ASSUME NEW b \in InRange PROVE blocks[b].credited[p][u] = 0
    <3>1. b \in 0 .. End /\ b \in 1 .. LastBlock /\ b \in 0 .. LastBlock
      BY <1>0
    <3>2. Follows(blocks[b - 1], blocks[b], b, RewardsFrom) BY <3>1, RangeIs
    <3>3. ~(Live(p[1], RewardsFrom) <= b) BY <2>1, <2>3, <3>1
    <3>4. ~(blocks[b].credited[p][u] > 0) BY <3>2, <3>3 DEF Follows
    <3>5. blocks[b].credited[p][u] \in Nat BY <3>1, EventTypes
    <3>6. QED BY <3>4, <3>5
  <2>6. QED BY <2>4, <2>5
<1>3. QED BY <1>1, <1>2

-----------------------------------------------------------------------------
(* What a pool is found to have paid.                                      *)

LEMMA EventsIs ==
  ASSUME Settled, NEW p \in Pools, NEW u \in Users
  PROVE  /\ EventsOf(p, u) \in Nat /\ CreditedOn(p, u) \in Nat
         /\ PhantomOn(p, u) \in Nat
         /\ EventsOf(p, u) = CreditedOn(p, u) + PhantomOn(p, u)
         /\ CreditedOn(p, u) <= EventsOf(p, u)
         /\ Honest(u) => EventsOf(p, u) = CreditedOn(p, u)
         /\ (\A b \in InRange : blocks[b].credited[p][u] = 0) =>
              CreditedOn(p, u) = 0
<1> DEFINE f == [b \in InRange |-> blocks[b].credited[p][u]]
           h == [b \in InRange |-> blocks[b].phantom[p][u]]
           g == [b \in InRange |->
                   blocks[b].credited[p][u] + blocks[b].phantom[p][u]]
<1>0. IsFiniteSet(InRange) /\ \A b \in InRange : b \in 0 .. LastBlock
  BY RangeIs
<1>1. \A b \in InRange : /\ blocks[b].credited[p][u] \in Nat
                         /\ blocks[b].phantom[p][u] \in Nat
  BY <1>0, EventTypes
<1>2. /\ \A b \in InRange : f[b] \in Nat /\ g[b] \in Nat /\ f[b] <= g[b]
      /\ \A b \in InRange : h[b] \in Nat /\ g[b] = f[b] + h[b]
      /\ Honest(u) => \A b \in InRange : g[b] = f[b]
  BY <1>1 DEF Honest
<1>3. /\ EventsOf(p, u) = SumFunctionOnSet(g, InRange)
      /\ CreditedOn(p, u) = SumFunctionOnSet(f, InRange)
      /\ PhantomOn(p, u) = SumFunctionOnSet(h, InRange)
  BY DEF EventsOf, CreditedOn, PhantomOn, SumFunction
<1>a. (\A b \in InRange : blocks[b].credited[p][u] = 0) =>
        \A b \in InRange : f[b] = 0
  OBVIOUS
<1> HIDE DEF f, g, h
<1>4. /\ SumFunctionOnSet(g, InRange) \in Nat /\ SumFunctionOnSet(f, InRange) \in Nat
      /\ SumFunctionOnSet(h, InRange) \in Nat
  <2>1. \A b \in InRange : f[b] \in Nat BY <1>2
  <2>2. \A b \in InRange : g[b] \in Nat BY <1>2
  <2>3. \A b \in InRange : h[b] \in Nat BY <1>2
  <2>4. QED BY <1>0, <2>1, <2>2, <2>3, SumType
<1>b. SumFunctionOnSet(g, InRange)
        = SumFunctionOnSet(f, InRange) + SumFunctionOnSet(h, InRange)
  BY <1>0, <1>2, SumPlus
<1>5. SumFunctionOnSet(f, InRange) <= SumFunctionOnSet(g, InRange)
  BY <1>0, <1>2, SumMono
<1>6. Honest(u) => SumFunctionOnSet(g, InRange) = SumFunctionOnSet(f, InRange)
  <2>1. Honest(u) => \A b \in InRange : f[b] \in Nat /\ g[b] = f[b] BY <1>2
  <2>2. QED BY <1>0, <2>1, SumSame
<1>7. (\A b \in InRange : blocks[b].credited[p][u] = 0) =>
        SumFunctionOnSet(f, InRange) = 0
  BY <1>0, <1>a, SumZero
<1>8. QED BY <1>3, <1>4, <1>5, <1>6, <1>7, <1>b

LEMMA RewardIs ==
  ASSUME Settled, NEW p \in Pools, NEW u \in Users
  PROVE  /\ RewardOf(p, u) \in Int
         /\ QuietPool(p) => RewardOf(p, u) + OwedOn(p, u, Before)
                              >= CreditedOn(p, u) + OwedOn(p, u, End)
         /\ RewardOf(p, u) = 0
              \/ RewardOf(p, u) = EarnedOn(p, u) + PhantomOn(p, u)
         /\ QuietPool(p) => RewardOf(p, u) \in Nat
         /\ ~Drifts(p[1]) =>
              /\ RewardOf(p, u) + OwedOn(p, u, Before)
                   >= CreditedOn(p, u) + OwedOn(p, u, End)
              /\ Honest(u) => RewardOf(p, u) + OwedOn(p, u, Before)
                                = CreditedOn(p, u) + OwedOn(p, u, End)
<1>0. Before \in 0 .. LastBlock /\ End \in 0 .. LastBlock BY RangeIs
<1>1. OwedOn(p, u, Before) \in Nat /\ OwedOn(p, u, End) \in Nat
  BY <1>0, OwedType
<1>2. /\ EventsOf(p, u) \in Nat /\ CreditedOn(p, u) \in Nat
      /\ CreditedOn(p, u) <= EventsOf(p, u)
      /\ Honest(u) => EventsOf(p, u) = CreditedOn(p, u)
      /\ PhantomOn(p, u) \in Nat
      /\ EventsOf(p, u) = CreditedOn(p, u) + PhantomOn(p, u)
  BY EventsIs
<1>e. EarnedOn(p, u) = CreditedOn(p, u) + OwedOn(p, u, End) - OwedOn(p, u, Before)
  BY DEF EarnedOn
<1>3. RewardOf(p, u) = IF Unmoved(p) THEN 0
                       ELSE EventsOf(p, u) + OwedOn(p, u, End)
                              - OwedOn(p, u, Before)
  BY DEF RewardOf
<1>4. QuietPool(p) =>
        /\ CreditedOn(p, u) + OwedOn(p, u, End) >= OwedOn(p, u, Before)
        /\ Unmoved(p) =>
             CreditedOn(p, u) + OwedOn(p, u, End) = OwedOn(p, u, Before)
  BY EarnedQuiet
<1>5. Unmoved(p) /\ ~Drifts(p[1]) => QuietPool(p)
  <2>1. p = <<p[1], p[2]>> /\ (p[2] = "supply" \/ p[2] = "borrow") BY PoolParts
  <2>2. CASE p[2] = "supply" BY <2>2 DEF QuietPool
  <2>3. CASE p[2] = "borrow"
    <3>1. p = <<p[1], "borrow">> BY <2>1, <2>3
    <3>2. QED BY <3>1 DEF Unmoved, Drifts, QuietPool
  <2>4. QED BY <2>1, <2>2, <2>3
<1>6. RewardOf(p, u) = 0
        \/ RewardOf(p, u) = EarnedOn(p, u) + PhantomOn(p, u)
  BY <1>1, <1>2, <1>3, <1>e
<1>7. QED BY <1>1, <1>2, <1>3, <1>4, <1>5, <1>6

-----------------------------------------------------------------------------
(* A market of the loop.                                                   *)

(* Whether the calls at the start are made and answered.                   *)
Started(m, startLost) == ReadsStart(m) /\ HasBoundary(Before) /\ ~startLost

StartBoundary(m, startLost) ==
  IF Started(m, startLost) THEN Boundary(m, Before) ELSE NoBoundary

EndOf(m, u) == UserPending(m, u, End, Boundary(m, End))

StartOf(m, u, startLost) ==
  IF Started(m, startLost) /\ AtStart(usersBy[<<m, u>>])
  THEN UserPending(m, u, Before, StartBoundary(m, startLost)) ELSE NoPending

RewardFound(m, u, side, startLost) ==
  PeriodReward(EventsOf(<<m, side>>, u), EndOf(m, u)[side],
               StartOf(m, u, startLost)[side], Boundary(m, End)[side],
               StartBoundary(m, startLost)[side])

LEMMA BoundaryAt ==
  ASSUME NEW b, BlockRead(b), NEW m \in Markets,
         LiveFrom(m) <= b, NEW side \in Sides, NEW p, p = <<m, side>>,
         NEW u \in Users
  PROVE  /\ p \in Pools
         /\ Boundary(m, b)[side] = IndexAt(blocks[b], p, b)
         /\ Boundary(m, b)[side] \in Nat
         /\ UserPending(m, u, b, Boundary(m, b))[side] = OwedOn(p, u, b)
<1> DEFINE st == blocks[b]
<1>0. st \in StateType /\ b \in Nat /\ b <= b
  BY DEF BlockRead, StateOK
<1>1. p \in Pools /\ p[1] = m /\ p[2] = side BY DEF Pools
<1>2. side = "supply" \/ side = "borrow" BY DEF Sides
<1>3. /\ IndexAt(st, p, b) \in Nat /\ IndexAt(st, p, b) >= InitialIndex
  BY <1>0, <1>1, PoolAt
<1>4. /\ st.index[p] \in Nat /\ st.at[p] \in Nat /\ st.speed[p] \in Nat
      /\ st.user[p][u] \in Nat
  BY <1>0, <1>1, FieldsOf DEF PoolsOf
<1>5. /\ TotalSupply(st, m) \in Nat /\ TotalBorrows(st, m) \in Nat
      /\ Shares(st, p) \in Nat
  BY <1>0, <1>1, SharesType
<1>6. st.borrowIndex[m] \in Positive /\ st.borrowIndex[m] # 0
  BY <1>0, StoredType DEF Positive
<1>7. ProjectSupplyIndex(st.index[p], st.at[p], b, st.speed[p], Shares(st, p))
        = IndexAt(st, p, b)
  <2>1. PICK i, a, v, n : i = st.index[p] /\ a = st.at[p] /\ v = st.speed[p]
                          /\ n = Shares(st, p)
    OBVIOUS
  <2>2. i \in Nat /\ a \in Nat /\ v \in Nat /\ n \in Nat BY <1>4, <1>5, <2>1
  <2>3. IndexAt(st, p, b) = IF n = 0 THEN i
                            ELSE i + ((b - a) * v * DoubleScale) \div n
    BY <2>1 DEF IndexAt
  <2>4. ProjectSupplyIndex(i, a, b, v, n)
          = IF b = a \/ v = 0 \/ n = 0 THEN i
            ELSE i + ((b - a) * v * DoubleScale) \div n
    BY DEF ProjectSupplyIndex
  <2>5. ASSUME b = a \/ v = 0, n # 0
        PROVE  ((b - a) * v * DoubleScale) \div n = 0
    <3>1. b = a => (b - a) * v = 0 BY <1>0, <2>2
    <3>2. v = 0 => (b - a) * v = 0 BY <1>0, <2>2
    <3>3. (b - a) * v = 0 BY <2>5, <3>1, <3>2
    <3>4. (b - a) * v * DoubleScale = 0
      BY <3>3, ScalesPositive, Products DEF Positive
    <3>5. 0 \div n = 0 BY <2>2, <2>5
    <3>6. QED BY <3>4, <3>5
  <2>6. i + 0 = i BY <2>2
  <2>7. QED BY <2>1, <2>3, <2>4, <2>5, <2>6
<1>8. Boundary(m, b)[side] = IndexAt(st, p, b)
  <2>1. CASE side = "supply"
    <3>1. Shares(st, p) = TotalSupply(st, m) BY <1>1, <2>1 DEF Shares
    <3>2. Boundary(m, b)[side]
            = ProjectSupplyIndex(st.index[p], st.at[p], b, st.speed[p],
                                 TotalSupply(st, m))
      BY <2>1 DEF Boundary
    <3>3. QED BY <1>7, <3>1, <3>2
  <2>2. CASE side = "borrow"
    <3>1. Shares(st, p) = Normalized(TotalBorrows(st, m), st.borrowIndex[m])
      BY <1>1, <2>2 DEF Shares, Normalized
    <3>2. Boundary(m, b)[side]
            = ProjectBorrowIndex(st.index[p], st.at[p], b, st.speed[p],
                                 TotalBorrows(st, m), st.borrowIndex[m])
      BY <2>2 DEF Boundary
    <3>3. Boundary(m, b)[side]
            = ProjectSupplyIndex(st.index[p], st.at[p], b, st.speed[p],
                                 Normalized(TotalBorrows(st, m), st.borrowIndex[m]))
      BY <1>6, <3>2 DEF ProjectBorrowIndex
    <3>4. QED BY <1>7, <3>1, <3>3
  <2>3. QED BY <1>2, <2>1, <2>2
<1>9. \A held : PendingSupply(IndexAt(st, p, b), st.user[p][u], held)
                  = (held * (IndexAt(st, p, b) - From(st, p, u))) \div DoubleScale
  BY <1>3 DEF PendingSupply, UserIndex, From
<1>10. OwedOn(p, u, b)
         = (ShareOf(st, p, u) * (IndexAt(st, p, b) - From(st, p, u)))
             \div DoubleScale
  <2>1. OwedOn(p, u, b) = Credit(st, p, u, b) BY <1>1, OwedAt
  <2>2. QED BY <2>1 DEF Credit, From
<1>11. UserPending(m, u, b, Boundary(m, b))[side]
         = PendingSupply(IndexAt(st, p, b), st.user[p][u], ShareOf(st, p, u))
  <2>1. CASE side = "supply"
    <3>1. UserPending(m, u, b, Boundary(m, b))[side]
            = PendingSupply(Boundary(m, b)[side], st.user[p][u],
                            st.balance[<<m, u>>])
      BY <2>1 DEF UserPending
    <3>2. ShareOf(st, p, u) = st.balance[<<m, u>>] BY <1>1, <2>1 DEF ShareOf
    <3>3. QED BY <1>8, <3>1, <3>2
  <2>2. CASE side = "borrow"
    <3>1. UserPending(m, u, b, Boundary(m, b))[side]
            = PendingBorrow(Boundary(m, b)[side], st.user[p][u],
                            Stored(st, m, u), st.borrowIndex[m])
      BY <2>2 DEF UserPending
    <3>2. ShareOf(st, p, u) = Normalized(Stored(st, m, u), st.borrowIndex[m])
      BY <1>1, <2>2 DEF ShareOf, Normalized
    <3>3. QED BY <1>6, <1>8, <3>1, <3>2 DEF PendingBorrow
  <2>3. QED BY <1>2, <2>1, <2>2
<1>12. QED BY <1>1, <1>3, <1>8, <1>9, <1>10, <1>11

LEMMA BoundaryIs ==
  ASSUME Settled, NEW b \in 0 .. LastBlock, NEW m \in Markets,
         LiveFrom(m) <= b, NEW side \in Sides, NEW p, p = <<m, side>>,
         NEW u \in Users
  PROVE  /\ p \in Pools
         /\ Boundary(m, b)[side] = IndexAt(blocks[b], p, b)
         /\ Boundary(m, b)[side] \in Nat
         /\ UserPending(m, u, b, Boundary(m, b))[side] = OwedOn(p, u, b)
<1>1. BlockRead(b) BY RangeIs DEF BlockRead
<1>2. QED BY <1>1, BoundaryAt

LEMMA StartedLive ==
  ASSUME Settled, NEW m \in Markets
  PROVE  /\ LiveFrom(m) <= Before <=> ReadsStart(m) /\ HasBoundary(Before)
         /\ LiveFrom(m) <= End <=> ListedAt[m] <= End /\ HasBoundary(End)
<1>1. Before \in Nat /\ End \in Nat /\ RewardsFrom \in Nat BY RangeIs
<1>2. QED BY <1>1, LiveFromIs DEF ReadsStart, HasBoundary

(* What is read for a user of a market.                                    *)
LEMMA FoundIs ==
  ASSUME Settled, HasBoundary(End), NEW cursor \in End .. LastBlock,
         usersBy = UsersByMarket(range, cursor),
         NEW m \in Markets, ListedAt[m] <= End, NEW u \in Users,
         usersBy[<<m, u>>] # None, NEW startLost \in BOOLEAN,
         NEW side \in Sides, NEW p, p = <<m, side>>
  PROVE  /\ EndOf(m, u)[side] = OwedOn(p, u, End) /\ EndOf(m, u)[side] \in Nat
         /\ StartOf(m, u, startLost)[side] \in Nat
         /\ RewardFound(m, u, side, startLost) \in Int
         /\ ~(startLost /\ ReadsStart(m) /\ HasBoundary(Before)) =>
              /\ StartOf(m, u, startLost)[side] = OwedOn(p, u, Before)
              /\ RewardFound(m, u, side, startLost) = RewardOf(p, u)
         /\ \/ RewardFound(m, u, side, startLost) \in Nat
            \/ RewardFound(m, u, side, startLost) = RewardOf(p, u)
<1>0. /\ Before \in 0 .. LastBlock /\ End \in 0 .. LastBlock
      /\ LiveFrom(m) <= Before <=> ReadsStart(m) /\ HasBoundary(Before)
      /\ LiveFrom(m) <= End
  BY RangeIs, StartedLive
<1>1. /\ p \in Pools /\ p[1] = m
      /\ Boundary(m, End)[side] = IndexAt(blocks[End], p, End)
      /\ Boundary(m, End)[side] \in Nat
      /\ EndOf(m, u)[side] = OwedOn(p, u, End)
  BY <1>0, BoundaryIs DEF EndOf
<1>2. OwedOn(p, u, End) \in Nat /\ OwedOn(p, u, Before) \in Nat
  BY <1>0, <1>1, OwedType
<1>3. EventsOf(p, u) \in Nat BY <1>1, EventsIs
<1>4. RewardOf(p, u) = IF Unmoved(p) THEN 0
                       ELSE EventsOf(p, u) + OwedOn(p, u, End)
                              - OwedOn(p, u, Before)
  BY DEF RewardOf
<1>5. RewardOf(p, u) \in Int BY <1>1, RewardIs
<1>6. RewardFound(m, u, side, startLost)
        = IF Boundary(m, End)[side] = StartBoundary(m, startLost)[side] THEN 0
          ELSE EventsOf(p, u) + EndOf(m, u)[side]
                 - StartOf(m, u, startLost)[side]
  BY DEF RewardFound, PeriodReward
<1>7. NoBoundary[side] = None /\ NoPending[side] = 0
  BY DEF Sides, NoBoundary, NoPending
<1>8. CASE Started(m, startLost)
  <2>1. LiveFrom(m) <= Before /\ ~startLost BY <1>0, <1>8 DEF Started
  <2>2. StartBoundary(m, startLost) = Boundary(m, Before)
    BY <1>8 DEF StartBoundary
  <2>3. /\ Boundary(m, Before)[side] = IndexAt(blocks[Before], p, Before)
        /\ UserPending(m, u, Before, Boundary(m, Before))[side]
             = OwedOn(p, u, Before)
    BY <1>0, <2>1, BoundaryIs
  <2>4. StartOf(m, u, startLost)[side] = OwedOn(p, u, Before)
    <3>1. CASE AtStart(usersBy[<<m, u>>])
      BY <1>8, <2>2, <2>3, <3>1 DEF StartOf
    <3>2. CASE ~AtStart(usersBy[<<m, u>>])
      <4>1. StartOf(m, u, startLost)[side] = 0 BY <1>7, <3>2 DEF StartOf
      <4>2. PICK a : a = <<m, u>> OBVIOUS
      <4>3. a \in Accounts BY <4>2, AccountIs
      <4>4. ~WasActive(blocks, a, Before)
        BY <3>2, <4>2, <4>3, UsersFound DEF AtStart
      <4>5. Before \in 0 .. Before BY RangeIs
      <4>6. OwedOn(p, u, Before) = 0
        BY <1>0, <1>1, <4>2, <4>4, <4>5, NeverActive
      <4>7. QED BY <4>1, <4>6
    <3>3. QED BY <3>1, <3>2
  <2>5. Boundary(m, End)[side] = StartBoundary(m, startLost)[side] <=> Unmoved(p)
    BY <1>1, <1>8, <2>2, <2>3 DEF Unmoved, Started, ReadsStart
  <2>6. RewardFound(m, u, side, startLost) = RewardOf(p, u)
    BY <1>1, <1>4, <1>6, <2>4, <2>5
  <2>7. QED BY <1>1, <1>2, <1>5, <2>4, <2>6
<1>9. CASE ~Started(m, startLost)
  <2>1. StartOf(m, u, startLost)[side] = 0 BY <1>7, <1>9 DEF StartOf
  <2>2. StartBoundary(m, startLost)[side] = None
    BY <1>7, <1>9 DEF StartBoundary
  <2>3. Boundary(m, End)[side] # None BY <1>1, RewardsAssumption
  <2>4. RewardFound(m, u, side, startLost) = EventsOf(p, u) + OwedOn(p, u, End)
    BY <1>1, <1>2, <1>3, <1>6, <2>1, <2>2, <2>3
  <2>5. RewardFound(m, u, side, startLost) \in Nat BY <1>2, <1>3, <2>4
  <2>6. ASSUME ~(startLost /\ ReadsStart(m) /\ HasBoundary(Before))
        PROVE  /\ OwedOn(p, u, Before) = 0
               /\ RewardFound(m, u, side, startLost) = RewardOf(p, u)
    <3>1. ~(ReadsStart(m) /\ HasBoundary(Before)) BY <1>9, <2>6 DEF Started
    <3>2. ~(LiveFrom(m) <= Before) BY <1>0, <3>1
    <3>3. OwedOn(p, u, Before) = 0 BY <1>0, <1>1, <3>2, OwedType
    <3>4. ~Unmoved(p) BY <1>1, <3>1 DEF Unmoved, ReadsStart
    <3>5. QED BY <1>2, <1>3, <1>4, <2>4, <3>3, <3>4
  <2>7. QED BY <1>1, <1>2, <2>1, <2>5, <2>6
<1>10. QED BY <1>8, <1>9

UsersOf(m) == {u \in Users : usersBy[<<m, u>>] # None}

(* Totals of a user that a market is added to.                             *)
TotalsOf(m, u) ==
  IF totals[u] # None THEN totals[u]
  ELSE [createdAt |-> usersBy[<<m, u>>], earned |-> 0, before |-> 0, end |-> 0]

TotalsWith(m, u, startLost) ==
  [createdAt |-> Min({TotalsOf(m, u).createdAt, usersBy[<<m, u>>]}),
   earned |-> TotalsOf(m, u).earned + RewardFound(m, u, "supply", startLost)
                + RewardFound(m, u, "borrow", startLost),
   before |-> TotalsOf(m, u).before + StartOf(m, u, startLost).supply
                + StartOf(m, u, startLost).borrow,
   end    |-> TotalsOf(m, u).end + EndOf(m, u).supply + EndOf(m, u).borrow]

(* The market is not listed yet.                                           *)
Skips(m) ==
  /\ ListedAt[m] > End
  /\ left' = left \ {m}
  /\ UNCHANGED <<blocks, phase, range, usersBy, rows, totals, hasStart,
                 result, why, lost>>

Adds(m, startLost) ==
  /\ ~(ListedAt[m] > End) /\ HasBoundary(End)
  /\ \A u \in UsersOf(m), side \in Sides :
       ~(RewardFound(m, u, side, startLost) < 0)
  /\ rows' = [a \in Accounts |->
       IF a[1] = m /\ a[2] \in UsersOf(m)
       THEN [side \in Sides |-> RewardFound(m, a[2], side, startLost)]
       ELSE rows[a]]
  /\ totals' = [u \in Users |->
       IF u \in UsersOf(m) THEN TotalsWith(m, u, startLost) ELSE totals[u]]
  /\ hasStart' = (hasStart \/ Started(m, startLost))
  /\ lost' = (lost \/ (startLost /\ ReadsStart(m) /\ HasBoundary(Before)))
  /\ left' = left \ {m}
  /\ UNCHANGED <<blocks, phase, range, usersBy, result, why>>

RefusesMarket(m, startLost) ==
  \/ ~HasBoundary(End) /\ Refuse("boundary")
  \/ ReadsStart(m) /\ NoCToken(m, Before) /\ Refuse("cToken")
  \/ /\ ~(ListedAt[m] > End) /\ HasBoundary(End)
     /\ \E u \in UsersOf(m), side \in Sides :
          RewardFound(m, u, side, startLost) < 0
     /\ Refuse("negative reward")

LEMMA CalculateIs ==
  ASSUME NEW m \in Markets, NEW startLost \in BOOLEAN,
         CalculateMarket(m, startLost)
  PROVE  /\ phase = "markets" /\ m \in left
         /\ Skips(m) \/ Adds(m, startLost) \/ RefusesMarket(m, startLost)
<1>1. CASE ListedAt[m] > End
  BY <1>1 DEF CalculateMarket, Skips
<1>a. CASE ~(ListedAt[m] > End) /\ ~HasBoundary(End)
  BY <1>a DEF CalculateMarket, RefusesMarket
<1>2. CASE ~(ListedAt[m] > End) /\ HasBoundary(End) /\ ReadsStart(m)
           /\ NoCToken(m, Before)
  BY <1>2 DEF CalculateMarket, RefusesMarket
<1>3. CASE ~(ListedAt[m] > End) /\ HasBoundary(End)
           /\ ~(ReadsStart(m) /\ NoCToken(m, Before))
  <2>1. CASE \E u \in UsersOf(m), side \in Sides :
               RewardFound(m, u, side, startLost) < 0
    BY <1>3, <2>1 DEF CalculateMarket, RefusesMarket, UsersOf, RewardFound,
                      EndOf, StartOf, StartBoundary, Started
  <2>2. CASE ~(\E u \in UsersOf(m), side \in Sides :
                 RewardFound(m, u, side, startLost) < 0)
    BY <1>3, <2>2 DEF CalculateMarket, Adds, UsersOf, RewardFound,
                      EndOf, StartOf, StartBoundary, Started, TotalsWith, TotalsOf
  <2>3. QED BY <2>1, <2>2
<1>4. QED BY <1>1, <1>2, <1>3, <1>a

-----------------------------------------------------------------------------
(* What the steps of the calculation leave alone.                          *)

LEMMA SameRange ==
  ASSUME UNCHANGED <<blocks, range>>
  PROVE  /\ Before' = Before /\ End' = End /\ InRange' = InRange
         /\ Partial' = Partial /\ LatestBlock' = LatestBlock
         /\ RewardsFrom' = RewardsFrom
         /\ \A b : HasBoundary(b)' = HasBoundary(b)
         /\ \A m : ReadsStart(m)' = ReadsStart(m)
         /\ \A u, b : OwedIn(u, b)' = OwedIn(u, b)
         /\ \A p, u : RewardOf(p, u)' = RewardOf(p, u)
         /\ \A u : RewardsIn(u)' = RewardsIn(u)
         /\ \A r, cursor : UsersByMarket(r, cursor)' = UsersByMarket(r, cursor)
         /\ \A m, u : RoundedAway(m, u)' = RoundedAway(m, u)
         /\ \A u : Paid(u)' = Paid(u) /\ DriftOf(u)' = DriftOf(u)
<1>1. /\ Before' = Before /\ End' = End /\ Partial' = Partial
      /\ LatestBlock' = LatestBlock /\ RewardsFrom' = RewardsFrom
  BY DEF Before, End, Partial, LatestBlock, RewardsFrom
<1>2. InRange' = InRange BY <1>1 DEF InRange
<1>3. /\ \A b : HasBoundary(b)' = HasBoundary(b)
      /\ \A m : ReadsStart(m)' = ReadsStart(m)
      /\ \A m : LiveFrom(m)' = LiveFrom(m)
  BY <1>1 DEF HasBoundary, ReadsStart, LiveFrom
<1>4. \A p, u, b : OwedOn(p, u, b)' = OwedOn(p, u, b)
  BY <1>3 DEF OwedOn
<1>5. \A u, b : OwedIn(u, b)' = OwedIn(u, b) BY <1>4 DEF OwedIn
<1>6. \A p : Unmoved(p)' = Unmoved(p) BY <1>1, <1>3 DEF Unmoved
<1>7. \A p, u : EventsOf(p, u)' = EventsOf(p, u) BY <1>2 DEF EventsOf
<1>8. \A p, u : RewardOf(p, u)' = RewardOf(p, u)
  BY <1>1, <1>4, <1>6, <1>7 DEF RewardOf
<1>9. \A u : RewardsIn(u)' = RewardsIn(u) BY <1>8 DEF RewardsIn
<1>10. \A r, cursor : UsersByMarket(r, cursor)' = UsersByMarket(r, cursor)
  BY DEF UsersByMarket, IndexedAt, Distributed
<1>11. \A m : Steady(m)' = Steady(m) BY <1>1 DEF Steady
<1>12. \A p, u : /\ CreditedOn(p, u)' = CreditedOn(p, u)
                 /\ PhantomOn(p, u)' = PhantomOn(p, u)
  BY <1>2 DEF CreditedOn, PhantomOn
<1>13. \A p, u : EarnedOn(p, u)' = EarnedOn(p, u)
  BY <1>1, <1>4, <1>12 DEF EarnedOn
<1>14. \A m, u : RoundedAway(m, u)' = RoundedAway(m, u)
  BY <1>11, <1>12, <1>13 DEF RoundedAway, Selects
<1>15. \A m : Drifts(m)' = Drifts(m) BY <1>1, <1>3, <1>11 DEF Drifts
<1>16. Drifting' = Drifting BY <1>15 DEF Drifting
<1>17. \A u : DriftOf(u)' = DriftOf(u)
  <2>1. \A p, u : /\ OwedOn(p, u, End)' = OwedOn(p, u, End)
                  /\ OwedOn(p, u, Before)' = OwedOn(p, u, Before)
    BY <1>1, <1>4
  <2>2. QED BY <1>12, <1>16, <2>1 DEF DriftOf
<1>18. \A u : Paid(u)' = Paid(u) BY <1>2 DEF Paid
<1>19. QED BY <1>1, <1>2, <1>3, <1>5, <1>8, <1>9, <1>10, <1>14, <1>17, <1>18

LEMMA SameTotals ==
  ASSUME UNCHANGED <<blocks, range, totals, hasStart>>
  PROVE  \A u : /\ Reconciled(u)' = Reconciled(u)
                /\ Remaining(u)' = Remaining(u)
                /\ ClaimedRaw(u)' = ClaimedRaw(u)
<1>1. Before' = Before /\ End' = End /\ InRange' = InRange /\ Partial' = Partial
  BY DEF Before, End, InRange, Partial
<1>2. \A u : /\ AccruedAtEnd(u)' = AccruedAtEnd(u)
             /\ AccruedBefore(u)' = AccruedBefore(u)
             /\ ClaimedTransfers(u)' = ClaimedTransfers(u)
  BY <1>1 DEF AccruedAtEnd, AccruedBefore, ClaimedTransfers, AtStart
<1>3. \A u : Remaining(u)' = Remaining(u) /\ DebtBefore(u)' = DebtBefore(u)
  BY <1>2 DEF Remaining, DebtBefore
<1>4. \A u : TransferEarned(u)' = TransferEarned(u)
  BY <1>2, <1>3 DEF TransferEarned
<1>5. \A u : Reconciled(u)' = Reconciled(u) BY <1>1, <1>4 DEF Reconciled
<1>6. \A u : ClaimedRaw(u)' = ClaimedRaw(u)
  BY <1>1, <1>3, <1>5 DEF ClaimedRaw
<1>7. QED BY <1>3, <1>5, <1>6

-----------------------------------------------------------------------------
(* The invariant.                                                          *)

(* What a calculation that missed nothing may be refused for.              *)
MayRefuse(reason) ==
  \/ reason \in {"stale", "selection", "rpc"}
  \/ reason \in {"token", "boundary"} /\ ~HasBoundary(End)
  \/ reason = "negative reward" /\ \E m \in Markets, u \in Users : RoundedAway(m, u)
  \/ reason = "negative claimed" /\ ~Partial /\ \E u \in Users : Paid(u) < DriftOf(u)

LEMMA AcceptedIs == RealChainAccepted <=> (phase = "refused" /\ ~lost => MayRefuse(why))
BY DEF RealChainAccepted, MayRefuse

LEMMA SameRefusal ==
  ASSUME UNCHANGED <<blocks, range>>, NEW reason, MayRefuse(reason)
  PROVE  MayRefuse(reason)'
<1>1. /\ HasBoundary(End)' = HasBoundary(End) /\ Partial' = Partial
      /\ \A m, u : RoundedAway(m, u)' = RoundedAway(m, u)
      /\ \A u : Paid(u)' = Paid(u) /\ DriftOf(u)' = DriftOf(u)
  BY SameRange DEF HasBoundary
<1>2. QED BY <1>1 DEF MayRefuse

CalcInv ==
  /\ ChainInv /\ TypeOK /\ FreshInv /\ WorkInv /\ RowsInv /\ DoneInv
  /\ RealChainAccepted

LEMMA NoRowType == NoRow \in [Sides -> Nat]
BY DEF NoRow

LEMMA LatestIs ==
  ASSUME ChainInv
  PROVE  DOMAIN blocks = 0 .. LatestBlock
BY DEF ChainInv, ChainOK

LEMMA CalcStart ==
  ASSUME Init
  PROVE  CalcInv
<1>1. ChainInv BY ChainStart
<1>2. /\ phase = "chain" /\ left = {} /\ ~hasStart /\ ~lost
      /\ hasStart \in BOOLEAN /\ lost \in BOOLEAN /\ why = None
      /\ rows = [a \in Accounts |-> NoRow]
      /\ totals = [u \in Users |-> None] /\ result = [u \in Users |-> None]
      /\ usersBy = [a \in Accounts |-> None]
  BY DEF Init, NoRow
<1>3. TypeOK
  <2>1. \A a \in Accounts : rows[a] \in [Sides -> Nat] BY <1>2, NoRowType
  <2>2. /\ \A a \in Accounts : usersBy[a] \in Nat \cup {None}
        /\ \A u \in Users : totals[u] = None /\ result[u] = None
    BY ONLY <1>2
  <2>3. DOMAIN blocks = 0 .. LatestBlock BY <1>1, LatestIs
  <2>4. phase # "refused" /\ phase \notin {"markets", "done"} BY <1>2
  <2>5. QED BY <1>2, <2>1, <2>2, <2>3, <2>4 DEF TypeOK
<1>4. FreshInv BY <1>2 DEF FreshInv
<1>5. WorkInv /\ RowsInv /\ DoneInv /\ RealChainAccepted
  <2>1. phase # "refused" /\ phase # "done" /\ phase # "markets" BY <1>2
  <2>2. QED BY <2>1 DEF WorkInv, RowsInv, DoneInv, RealChainAccepted
<1>6. QED BY <1>1, <1>3, <1>4, <1>5 DEF CalcInv

LEMMA GrowStep ==
  ASSUME CalcInv, ChainGrows
  PROVE  CalcInv'
<1>1. ChainInv' BY ChainStep DEF CalcInv, Next
<1>2. phase = "chain" /\ UNCHANGED calcVars BY DEF ChainGrows
<1>3. /\ phase' = phase /\ range' = range /\ usersBy' = usersBy /\ left' = left
      /\ rows' = rows /\ totals' = totals /\ hasStart' = hasStart
      /\ result' = result /\ why' = why /\ lost' = lost
  BY <1>2 DEF calcVars
<1>4. TypeOK'
  <2>1. (DOMAIN blocks = 0 .. LatestBlock)' BY <1>1 DEF ChainInv, ChainOK
  <2>2. TypeOK BY DEF CalcInv
  <2>3. phase' = "chain" BY <1>2, <1>3
  <2>4. QED BY <1>3, <2>1, <2>2, <2>3 DEF TypeOK
<1>5. FreshInv' BY <1>3 DEF FreshInv, CalcInv
<1>6. (WorkInv /\ RowsInv /\ DoneInv /\ RealChainAccepted)'
  <2>1. phase' # "refused" /\ phase' # "done" /\ phase' # "markets"
    BY <1>2, <1>3
  <2>2. QED BY <2>1 DEF WorkInv, RowsInv, DoneInv, RealChainAccepted
<1>7. QED BY <1>1, <1>4, <1>5, <1>6 DEF CalcInv

LEMMA UsersType ==
  ASSUME NEW r \in Ranges, NEW cursor \in 0 .. LastBlock, NEW a \in Accounts
  PROVE  UsersByMarket(r, cursor)[a] \in Nat \cup {None}
<1> DEFINE seen == {t \in IndexedAt(a, cursor) : t <= Time[r.end]}
<1>1. LastBlock \in Nat /\ r.start \in 0 .. LastBlock
  BY ChainAssumption DEF Ranges
<1>2. seen \in SUBSET Nat
  <2>1. \A c \in 0 .. cursor : Time[c] \in Nat BY <1>1, ChainAssumption
  <2>2. QED BY <2>1 DEF IndexedAt
<1>3. Time[r.start] \in Nat BY <1>1, ChainAssumption
<1>4. UsersByMarket(r, cursor)[a]
        = IF ~Selects(r, a[1]) THEN None
          ELSE IF seen # {} THEN Min(seen)
          ELSE IF Distributed(a, r) # {} THEN Time[r.start]
          ELSE None
  BY DEF UsersByMarket
<1> HIDE DEF seen
<1>5. seen # {} => Min(seen) \in Nat BY <1>2, MinIs
<1>6. QED BY <1>3, <1>4, <1>5

LEMMA BeginStep ==
  ASSUME CalcInv, NEW r \in Ranges, NEW cursor \in 0 .. LastBlock,
         NEW tokenFrom \in 0 .. RewardsFrom, Begin(r, cursor, tokenFrom)
  PROVE  CalcInv'
<1>1. /\ phase = "chain" /\ LatestBlock = LastBlock /\ range' = r
      /\ UNCHANGED <<blocks, rows, totals, hasStart, result, lost>>
  BY DEF Begin
<1>2. PICK error : error = IF cursor < r.end THEN "stale"
                  ELSE IF r.end < tokenFrom THEN "token"
                  ELSE IF \E m \in r.selected : ListedAt[m] > cursor THEN "selection"
                  ELSE None
  OBVIOUS
<1>3. /\ why' = error
      /\ phase' = IF error = None THEN "markets" ELSE "refused"
      /\ error = None =>
           /\ usersBy' = UsersByMarket(r, cursor)
           /\ left' = {m \in Markets : \E u \in Users : usersBy'[<<m, u>>] # None}
      /\ error # None => UNCHANGED <<usersBy, left>>
  BY <1>2 DEF Begin
<1>4. /\ rows = [a \in Accounts |-> NoRow] /\ ~hasStart /\ ~lost
      /\ totals = [u \in Users |-> None] /\ result = [u \in Users |-> None]
  BY <1>1 DEF CalcInv, FreshInv
<1>5. ChainInv' BY ChainStep DEF CalcInv, Next
<1>6. TypeOK BY DEF CalcInv
<1>7. TypeOK'
  <2>1. (DOMAIN blocks = 0 .. LatestBlock)' BY <1>5 DEF ChainInv, ChainOK
  <2>2. \A a \in Accounts : usersBy'[a] \in Nat \cup {None}
    <3>1. CASE error = None BY <1>3, <3>1, UsersType
    <3>2. CASE error # None BY <1>3, <1>6, <3>2 DEF TypeOK
    <3>3. QED BY <3>1, <3>2
  <2>3. left' \subseteq Markets
    <3>1. CASE error = None BY <1>3, <3>1
    <3>2. CASE error # None BY <1>3, <1>6, <3>2 DEF TypeOK
    <3>3. QED BY <3>1, <3>2
  <2>4. (why' # None) = (phase' = "refused")
        /\ phase' \in {"chain", "markets", "done", "refused"}
    BY <1>3
  <2>5. QED BY <1>1, <1>6, <2>1, <2>2, <2>3, <2>4 DEF TypeOK
<1>8. phase' # "chain" /\ phase' # "done" BY <1>3
<1>9. FreshInv' /\ DoneInv' BY <1>8 DEF FreshInv, DoneInv
<1>10. RealChainAccepted'
  <2>1. \/ why' \in {"stale", "selection", None}
        \/ why' = "token" /\ r.end < tokenFrom
    BY <1>2, <1>3
  <2>2. phase' = "refused" => why' # None BY <1>7 DEF TypeOK
  <2>3. r.end < tokenFrom => ~HasBoundary(End)'
    <3>1. StateOK(blocks, 0) BY <1>1, ChainAssumption DEF CalcInv, ChainInv, ChainOK
    <3>2. RewardsFrom \in Nat BY <3>1, FieldsOf DEF StateOK, RewardsFrom
    <3>3. RewardsFrom' = RewardsFrom BY <1>1 DEF RewardsFrom
    <3>4. End' = r.end BY <1>1 DEF End
    <3>5. r.end \in Nat BY ChainAssumption DEF Ranges
    <3>6. r.end < tokenFrom => ~(RewardsFrom <= r.end) BY <3>2, <3>5
    <3>7. QED BY <3>3, <3>4, <3>6 DEF HasBoundary
  <2>4. QED BY <2>1, <2>2, <2>3 DEF RealChainAccepted
<1>11. ASSUME error = None, NEW u \in Users
       PROVE  Through(u)' = {}
  BY <1>3, <1>11 DEF Through
<1>12. WorkInv'
  <2> SUFFICES ASSUME phase' \in {"markets", "done"} PROVE WorkInv'
    BY DEF WorkInv
  <2>1. error = None BY <1>3
  <2>2. LatestBlock' = LastBlock BY <1>1 DEF LatestBlock
  <2>3. (range \in Ranges)' BY <1>1 DEF Ranges
  <2>a. r.end \in Nat /\ cursor \in Nat /\ LastBlock \in Nat
    BY ChainAssumption DEF Ranges
  <2>b. ~(cursor < r.end)
    <3>1. None # "stale" BY RewardsAssumption
    <3>2. QED BY <1>2, <2>1, <3>1
  <2>c. cursor <= LastBlock BY <2>a
  <2>4. cursor \in r.end .. LastBlock BY ONLY <2>a, <2>b, <2>c
  <2>5. End' = r.end BY <1>1 DEF End
  <2>7. UsersByMarket(range, cursor)' = UsersByMarket(r, cursor)
    BY <1>1 DEF UsersByMarket, IndexedAt, Distributed
  <2>8. (\E c \in End .. LastBlock : usersBy = UsersByMarket(range, c))'
    <3>1. usersBy' = UsersByMarket(range, cursor)' BY <1>3, <2>1, <2>7
    <3>2. QED BY <2>4, <2>5, <3>1
  <2>9. \A u \in Users : totals'[u] = None /\ Through(u)' = {}
    BY <1>1, <1>4, <1>11, <2>1
  <2>10. QED BY <2>2, <2>3, <2>8, <2>9 DEF WorkInv
<1>13. RowsInv'
  <2> SUFFICES ASSUME phase' = "markets" PROVE RowsInv'
    BY DEF RowsInv
  <2>1. error = None BY <1>3
  <2>2. \A u \in Users : totals'[u] = None /\ Through(u)' = {}
    BY <1>1, <1>4, <1>11, <2>1
  <2>3. \A u \in Users, m \in Markets : rows'[<<m, u>>] = NoRow
    BY <1>1, <1>4, AccountIs
  <2>4. NoRow' = NoRow BY DEF NoRow
  <2>5. QED BY <2>2, <2>3, <2>4 DEF RowsInv
<1>14. QED BY <1>5, <1>7, <1>9, <1>10, <1>12, <1>13 DEF CalcInv
-----------------------------------------------------------------------------
(* A market is calculated.                                                 *)

LEMMA MinPair ==
  ASSUME NEW a \in Nat, NEW b \in Nat
  PROVE  /\ Min({a, b}) \in Nat /\ Min({a, b}) <= a /\ Min({a, b}) <= b
         /\ Min({a, b}) = IF a <= b THEN a ELSE b
<1>1. {a, b} \in SUBSET Nat /\ {a, b} # {} OBVIOUS
<1>2. Min({a, b}) \in {a, b} /\ \A x \in {a, b} : Min({a, b}) <= x BY <1>1, MinIs
<1>3. QED BY <1>2

(* What holds while markets are calculated, and after.                     *)
LEMMA WorkIs ==
  ASSUME CalcInv, phase \in {"markets", "done"}
  PROVE  /\ Settled
         /\ \E cursor \in End .. LastBlock : usersBy = UsersByMarket(range, cursor)
         /\ \A a \in Accounts : usersBy[a] # None => usersBy[a] \in Nat
         /\ \A u \in Users : totals[u] # None => totals[u] \in TotalsType
         /\ \A u \in Users : totals[u] = None <=> Through(u) = {}
         /\ \A u \in Users : totals[u] # None => TotalsOK(u)
         /\ \A u \in Users : IsFiniteSet(Through(u)) /\ Through(u) \subseteq Markets
<1>1. /\ LatestBlock = LastBlock /\ range \in Ranges
      /\ \E cursor \in End .. LastBlock : usersBy = UsersByMarket(range, cursor)
      /\ \A u \in Users : totals[u] = None <=> Through(u) = {}
      /\ \A u \in Users : totals[u] # None => TotalsOK(u)
  BY DEF CalcInv, WorkInv
<1>2. Settled BY <1>1 DEF Settled, CalcInv
<1>3. /\ \A a \in Accounts : usersBy[a] # None => usersBy[a] \in Nat
      /\ \A u \in Users : totals[u] # None => totals[u] \in TotalsType
  BY DEF CalcInv, TypeOK
<1>4. \A u \in Users : IsFiniteSet(Through(u)) /\ Through(u) \subseteq Markets
  BY FiniteUsers, FS_Subset DEF Through
<1>5. QED BY <1>1, <1>2, <1>3, <1>4

LEMMA SameOwed ==
  ASSUME UNCHANGED <<blocks, range>>, NEW u
  PROVE  /\ OwedIn(u, Before)' = OwedIn(u, Before)
         /\ OwedIn(u, End)' = OwedIn(u, End)
<1>1. Before' = Before /\ End' = End BY SameRange
<1>2. \A m : LiveFrom(m)' = LiveFrom(m) BY DEF LiveFrom, RewardsFrom
<1>3. \A p : /\ OwedOn(p, u, Before)' = OwedOn(p, u, Before)
             /\ OwedOn(p, u, End)' = OwedOn(p, u, End)
  BY <1>1, <1>2 DEF OwedOn
<1>4. QED BY ONLY <1>3 DEF OwedIn

LEMMA SameTotalsOK ==
  ASSUME UNCHANGED <<blocks, range, usersBy, lost>>, NEW u,
         Through(u)' = Through(u), totals'[u] = totals[u]
  PROVE  TotalsOK(u)' <=> TotalsOK(u)
<1>1. /\ Before' = Before /\ End' = End
      /\ \A b : OwedIn(u, b)' = OwedIn(u, b)
      /\ \A p : RewardOf(p, u)' = RewardOf(p, u)
      /\ RewardsIn(u)' = RewardsIn(u)
  BY SameRange
<1>2. OwedIn(u, Before)' = OwedIn(u, Before) /\ OwedIn(u, End)' = OwedIn(u, End)
  BY SameOwed
<1>3. Sides' = Sides BY DEF Sides
<1>4. QED BY <1>1, <1>2 DEF TotalsOK

LEMMA SkipStep ==
  ASSUME CalcInv, phase = "markets", NEW m \in left, Skips(m), Next
  PROVE  CalcInv'
<1>1. /\ blocks' = blocks /\ phase' = phase /\ range' = range
      /\ usersBy' = usersBy /\ rows' = rows /\ totals' = totals
      /\ hasStart' = hasStart /\ result' = result /\ why' = why /\ lost' = lost
      /\ left' = left \ {m} /\ ListedAt[m] > End
  BY DEF Skips
<1>2. ChainInv' BY ChainStep DEF CalcInv
<1>3. TypeOK /\ left \subseteq Markets /\ m \in Markets BY DEF CalcInv, TypeOK
<1>4. TypeOK'
  <2>1. LatestBlock' = LatestBlock BY <1>1 DEF LatestBlock
  <2>2. (range \in Ranges)' <=> range \in Ranges BY <1>1 DEF Ranges
  <2>3. QED BY <1>1, <1>3, <2>1, <2>2 DEF TypeOK
<1>5. Settled /\ Before' = Before /\ End' = End
      /\ HasBoundary(Before)' = HasBoundary(Before)
      /\ \A k : ReadsStart(k)' = ReadsStart(k)
      /\ (\A c \in End .. LastBlock :
            UsersByMarket(range, c)' = UsersByMarket(range, c))
  BY <1>1, WorkIs, SameRange DEF HasBoundary, UsersByMarket, IndexedAt, Distributed
<1>6. ~(ListedAt[m] <= End)
  BY <1>1, <1>3, <1>5, RangeIs, ChainAssumption
<1>7. \A u : Through(u)' = Through(u) BY <1>1, <1>5, <1>6 DEF Through
<1>8. WorkInv'
  <2>1. LatestBlock' = LastBlock /\ range' \in Ranges'
    BY <1>1, <1>5 DEF LatestBlock, Ranges, Settled
  <2>2. \E c \in End .. LastBlock : usersBy' = UsersByMarket(range, c)'
    BY <1>1, <1>5, WorkIs
  <2>3. \A u \in Users : totals'[u] = None <=> Through(u)' = {}
    BY <1>1, <1>7, WorkIs
  <2>4. ASSUME NEW u \in Users, totals'[u] # None PROVE TotalsOK(u)'
    <3>1. TotalsOK(u) BY <1>1, <2>4, WorkIs
    <3>2. QED BY <1>1, <1>7, <3>1, SameTotalsOK
  <2>5. ~lost' => \A u \in Users : \A k \in Through(u)' :
          ReadsStart(k)' /\ HasBoundary(Before)' => hasStart'
    <3>1. ~lost => \A u \in Users : \A k \in Through(u) :
            ReadsStart(k) /\ HasBoundary(Before) => hasStart
      BY DEF CalcInv, WorkInv
    <3>2. QED BY <1>1, <1>5, <1>7, <3>1
  <2>6. QED BY <1>5, <2>1, <2>2, <2>3, <2>4, <2>5 DEF WorkInv
<1>9. RowsInv'
  <2>1. \A u : RowTotals(u)' = RowTotals(u) BY <1>1 DEF RowTotals, RowTotal
  <2>2. \A p, u : RewardOf(p, u)' = RewardOf(p, u) BY <1>1, SameRange
  <2>3. RowsInv BY DEF CalcInv
  <2>4. NoRow' = NoRow /\ Sides' = Sides BY DEF NoRow, Sides
  <2>5. QED BY <1>1, <1>7, <2>1, <2>2, <2>3, <2>4 DEF RowsInv
<1>10. FreshInv' /\ DoneInv' /\ RealChainAccepted'
  <2>1. phase' # "chain" /\ phase' # "done" /\ phase' # "refused" BY <1>1
  <2>2. QED BY <2>1 DEF FreshInv, DoneInv, RealChainAccepted
<1>11. QED BY <1>2, <1>4, <1>8, <1>9, <1>10 DEF CalcInv

(* A refusal keeps what was refused out of the invariant.                  *)
LEMMA RefuseStep ==
  ASSUME CalcInv, phase = "markets", NEW reason, Refuse(reason), Next,
         reason # None, ~lost => MayRefuse(reason)
  PROVE  CalcInv'
<1>1. /\ phase' = "refused" /\ why' = reason
      /\ blocks' = blocks /\ range' = range /\ usersBy' = usersBy
      /\ left' = left /\ rows' = rows /\ totals' = totals
      /\ hasStart' = hasStart /\ result' = result /\ lost' = lost
  BY DEF Refuse
<1>2. ChainInv' BY ChainStep DEF CalcInv
<1>3. TypeOK BY DEF CalcInv
<1>4. TypeOK'
  <2>1. LatestBlock' = LatestBlock BY <1>1 DEF LatestBlock
  <2>2. (range \in Ranges)' <=> range \in Ranges BY <1>1 DEF Ranges
  <2>3. range \in Ranges BY WorkIs DEF Settled
  <2>4. QED BY <1>1, <1>3, <2>1, <2>2, <2>3 DEF TypeOK
<1>5. ~lost => MayRefuse(reason)' BY <1>1, SameRefusal
<1>6. RealChainAccepted'
  <2>1. ~lost' => MayRefuse(why)' BY <1>1, <1>5 DEF MayRefuse
  <2>2. QED BY <2>1 DEF RealChainAccepted, MayRefuse
<1>7. FreshInv' /\ WorkInv' /\ RowsInv' /\ DoneInv'
  BY <1>1 DEF FreshInv, WorkInv, RowsInv, DoneInv
<1>8. QED BY <1>2, <1>4, <1>6, <1>7 DEF CalcInv

(* The totals of a user so far are the sums over the markets so far, also  *)
(* when there are none.                                                    *)
LEMMA TotalsOfIs ==
  ASSUME CalcInv, phase = "markets", NEW m \in Markets, NEW u \in UsersOf(m),
         NEW o, o = TotalsOf(m, u)
  PROVE  /\ u \in Users /\ usersBy[<<m, u>>] \in Nat
         /\ o.createdAt \in Nat /\ o.earned \in Nat /\ o.before \in Nat
         /\ o.end \in Nat
         /\ o.end = SumFunctionOnSet(OwedIn(u, End), Through(u))
         /\ \A k \in Through(u) : o.createdAt <= usersBy[<<k, u>>]
         /\ o.earned = SumFunctionOnSet(RowTotals(u), Through(u))
         /\ ~lost =>
              /\ o.before = SumFunctionOnSet(OwedIn(u, Before), Through(u))
              /\ \A k \in Through(u), side \in Sides :
                   RewardOf(<<k, side>>, u) \in Nat
              /\ o.earned = SumFunctionOnSet(RewardsIn(u), Through(u))
<1>1. u \in Users /\ usersBy[<<m, u>>] \in Nat
  <2>1. u \in Users /\ usersBy[<<m, u>>] # None BY DEF UsersOf
  <2>2. <<m, u>> \in Accounts BY <2>1 DEF Accounts
  <2>3. QED BY <2>1, <2>2, WorkIs
<1>2. CASE totals[u] # None
  <2>1. totals[u] \in TotalsType /\ TotalsOK(u) BY <1>1, <1>2, WorkIs
  <2>2. totals[u].earned = SumFunctionOnSet(RowTotals(u), Through(u))
    BY <1>1, <1>2 DEF CalcInv, RowsInv
  <2>3. o = totals[u] BY <1>2 DEF TotalsOf
  <2>4. /\ o.createdAt \in Nat /\ o.earned \in Nat /\ o.before \in Nat
        /\ o.end \in Nat
    BY <2>1, <2>3 DEF TotalsType
  <2>5. QED BY <1>1, <2>1, <2>2, <2>3, <2>4 DEF TotalsOK
<1>3. CASE totals[u] = None
  <2>1. Through(u) = {} BY <1>1, <1>3, WorkIs
  <2>2. o = [createdAt |-> usersBy[<<m, u>>], earned |-> 0, before |-> 0,
             end |-> 0]
    BY <1>3 DEF TotalsOf
  <2>3. /\ o.createdAt \in Nat /\ o.earned = 0 /\ o.before = 0 /\ o.end = 0
    BY <1>1, <2>2
  <2>4. \A g : SumFunctionOnSet(g, Through(u)) = 0 BY <2>1, SumEmpty
  <2>5. QED BY <1>1, <2>1, <2>3, <2>4
<1>4. QED BY <1>2, <1>3

(* A market added to the sums.                                             *)
LEMMA SumMore ==
  ASSUME NEW g, NEW S, IsFiniteSet(S), NEW x, x \notin S,
         \A y \in S : g[y] \in Nat, g[x] \in Nat, NEW sum, NEW more,
         sum = SumFunctionOnSet(g, S), more = sum + g[x]
  PROVE  /\ SumFunctionOnSet(g, S \cup {x}) = more
         /\ more \in Nat
<1>1. \A y \in S \cup {x} : g[y] \in Nat OBVIOUS
<1>2. SumFunctionOnSet(g, S \cup {x}) = g[x] + SumFunctionOnSet(g, S)
  BY <1>1, SumAdd
<1>3. SumFunctionOnSet(g, S) \in Nat BY SumType
<1>4. QED BY <1>2, <1>3

(* What a user was found to have gained in m is added to the totals.       *)
LEMMA AddedIs ==
  ASSUME CalcInv, phase = "markets", NEW m \in left, ListedAt[m] <= End,
         HasBoundary(End), NEW startLost \in BOOLEAN, NEW u \in UsersOf(m),
         \A side \in Sides : ~(RewardFound(m, u, side, startLost) < 0),
         NEW t, t = TotalsWith(m, u, startLost),
         NEW T, T = Through(u) \cup {m},
         NEW missed,
         missed <=> (startLost /\ ReadsStart(m) /\ HasBoundary(Before))
  PROVE  /\ t \in TotalsType
         /\ t.end = SumFunctionOnSet(OwedIn(u, End), T)
         /\ \A k \in T : t.createdAt <= usersBy[<<k, u>>]
         /\ \A side \in Sides : RewardFound(m, u, side, startLost) \in Nat
         /\ t.earned = SumFunctionOnSet(RowTotals(u), Through(u))
                         + RewardFound(m, u, "supply", startLost)
                         + RewardFound(m, u, "borrow", startLost)
         /\ ~missed => \A side \in Sides :
              RewardFound(m, u, side, startLost) = RewardOf(<<m, side>>, u)
         /\ ~lost /\ ~missed =>
              /\ t.before = SumFunctionOnSet(OwedIn(u, Before), T)
              /\ \A k \in T, side \in Sides : RewardOf(<<k, side>>, u) \in Nat
              /\ t.earned = SumFunctionOnSet(RewardsIn(u), T)
<1>0. m \in Markets BY DEF CalcInv, TypeOK
<1> DEFINE o == TotalsOf(m, u)
           found(side) == RewardFound(m, u, side, startLost)
<1>1. /\ u \in Users /\ usersBy[<<m, u>>] \in Nat
      /\ o.createdAt \in Nat /\ o.earned \in Nat /\ o.before \in Nat
      /\ o.end \in Nat
      /\ o.end = SumFunctionOnSet(OwedIn(u, End), Through(u))
      /\ \A k \in Through(u) : o.createdAt <= usersBy[<<k, u>>]
      /\ o.earned = SumFunctionOnSet(RowTotals(u), Through(u))
      /\ ~lost =>
           /\ o.before = SumFunctionOnSet(OwedIn(u, Before), Through(u))
           /\ \A k \in Through(u), side \in Sides :
                RewardOf(<<k, side>>, u) \in Nat
           /\ o.earned = SumFunctionOnSet(RewardsIn(u), Through(u))
  BY <1>0, TotalsOfIs
<1>2. /\ t.createdAt = Min({o.createdAt, usersBy[<<m, u>>]})
      /\ t.earned = o.earned + found("supply") + found("borrow")
      /\ t.before = o.before + StartOf(m, u, startLost)["supply"]
                      + StartOf(m, u, startLost)["borrow"]
      /\ t.end = o.end + EndOf(m, u)["supply"] + EndOf(m, u)["borrow"]
      /\ t = [createdAt |-> t.createdAt, earned |-> t.earned,
              before |-> t.before, end |-> t.end]
  BY DEF TotalsWith
<1>3. /\ Settled /\ usersBy[<<m, u>>] # None
      /\ IsFiniteSet(Through(u)) /\ Through(u) \subseteq Markets
      /\ Before \in 0 .. LastBlock /\ End \in 0 .. LastBlock
  BY <1>1, WorkIs, RangeIs DEF UsersOf
<1>4. \A side \in Sides :
        /\ EndOf(m, u)[side] = OwedOn(<<m, side>>, u, End)
        /\ EndOf(m, u)[side] \in Nat
        /\ StartOf(m, u, startLost)[side] \in Nat
        /\ found(side) \in Int
        /\ ~missed =>
             /\ StartOf(m, u, startLost)[side] = OwedOn(<<m, side>>, u, Before)
             /\ found(side) = RewardOf(<<m, side>>, u)
  <2> TAKE side \in Sides
  <2>1. PICK cursor \in End .. LastBlock : usersBy = UsersByMarket(range, cursor)
    BY WorkIs
  <2>2. QED BY <1>0, <1>1, <1>3, <2>1, FoundIs
<1>5. \A side \in Sides : found(side) \in Nat
  <2> TAKE side \in Sides
  <2>1. PICK n : n = found(side) OBVIOUS
  <2>2. n \in Int /\ ~(n < 0) BY <1>4, <2>1
  <2>3. n \in Nat BY ONLY <2>2
  <2>4. QED BY <2>1, <2>3
<1>6. "supply" \in Sides /\ "borrow" \in Sides
      /\ <<m, "supply">> \in Pools /\ <<m, "borrow">> \in Pools
  BY <1>0, BothSides DEF Sides
<1>7. m \notin Through(u) BY DEF Through
<1>8. /\ OwedIn(u, End)[m] = EndOf(m, u)["supply"] + EndOf(m, u)["borrow"]
      /\ \A k \in Markets : OwedIn(u, End)[k] \in Nat /\ OwedIn(u, Before)[k] \in Nat
  BY <1>0, <1>1, <1>3, <1>4, <1>6, OwedSum DEF OwedIn
<1>9. RewardsIn(u)[m] = RewardOf(<<m, "supply">>, u) + RewardOf(<<m, "borrow">>, u)
      /\ OwedIn(u, Before)[m] = OwedOn(<<m, "supply">>, u, Before)
                                 + OwedOn(<<m, "borrow">>, u, Before)
  BY <1>0 DEF RewardsIn, OwedIn
<1> HIDE DEF o, found
<1>10. t.createdAt \in Nat /\ t.createdAt <= o.createdAt
       /\ t.createdAt <= usersBy[<<m, u>>]
  BY <1>1, <1>2, MinPair
<1>11. t.end = SumFunctionOnSet(OwedIn(u, End), T) /\ t.end \in Nat
  <2>1. t.end = o.end + OwedIn(u, End)[m] BY <1>1, <1>2, <1>4, <1>6, <1>8
  <2>2. \A k \in Through(u) : OwedIn(u, End)[k] \in Nat BY <1>3, <1>8
  <2>3. QED BY <1>0, <1>1, <1>3, <1>7, <1>8, <2>1, <2>2, SumMore
<1>12. \A k \in T : t.createdAt <= usersBy[<<k, u>>]
  <2> TAKE k \in T
  <2>1. CASE k = m BY <1>10, <2>1
  <2>2. CASE k \in Through(u)
    <3>1. o.createdAt <= usersBy[<<k, u>>] BY <1>1, <2>2
    <3>2. usersBy[<<k, u>>] \in Nat
      <4>1. k \in Markets /\ usersBy[<<k, u>>] # None BY <1>3, <2>2 DEF Through
      <4>2. <<k, u>> \in Accounts BY <1>1, <4>1 DEF Accounts
      <4>3. QED BY <4>1, <4>2, WorkIs
    <3>3. QED BY <1>1, <1>10, <3>1, <3>2
  <2>3. QED BY <2>1, <2>2
<1>13. t \in TotalsType
  <2>1. t.earned \in Nat /\ t.before \in Nat
    BY <1>1, <1>2, <1>4, <1>5, <1>6
  <2>2. QED BY <1>2, <1>10, <1>11, <2>1 DEF TotalsType
<1>14. t.earned = SumFunctionOnSet(RowTotals(u), Through(u))
                    + found("supply") + found("borrow")
  BY <1>1, <1>2
<1>15. ASSUME ~lost, ~missed
       PROVE  /\ t.before = SumFunctionOnSet(OwedIn(u, Before), T)
              /\ \A k \in T, side \in Sides : RewardOf(<<k, side>>, u) \in Nat
              /\ t.earned = SumFunctionOnSet(RewardsIn(u), T)
  <2>1. t.before = o.before + OwedIn(u, Before)[m]
    BY <1>1, <1>2, <1>4, <1>6, <1>9, <1>15
  <2>2. \A k \in Through(u) : OwedIn(u, Before)[k] \in Nat BY <1>3, <1>8
  <2>3. t.before = SumFunctionOnSet(OwedIn(u, Before), T)
    BY <1>0, <1>1, <1>3, <1>7, <1>8, <1>15, <2>1, <2>2, SumMore
  <2>4. \A side \in Sides : RewardOf(<<m, side>>, u) \in Nat
    BY <1>4, <1>5, <1>15
  <2>5. \A k \in T, side \in Sides : RewardOf(<<k, side>>, u) \in Nat
    BY <1>1, <1>15, <2>4
  <2>6. \A k \in T : RewardsIn(u)[k] \in Nat
    <3> TAKE k \in T
    <3>1. k \in Markets BY <1>0, <1>3
    <3>2. RewardsIn(u)[k] = RewardOf(<<k, "supply">>, u)
                              + RewardOf(<<k, "borrow">>, u)
      BY <3>1 DEF RewardsIn
    <3>3. QED BY <1>6, <2>5, <3>2
  <2>7. t.earned = o.earned + RewardsIn(u)[m]
    BY <1>1, <1>2, <1>4, <1>5, <1>6, <1>9, <1>15
  <2>8. t.earned = SumFunctionOnSet(RewardsIn(u), T)
    BY <1>1, <1>3, <1>7, <1>15, <2>6, <2>7, SumMore
  <2>9. QED BY <2>3, <2>5, <2>8
<1>16. QED BY <1>4, <1>5, <1>11, <1>12, <1>13, <1>14, <1>15 DEF found

LEMMA AddStep ==
  ASSUME CalcInv, phase = "markets", NEW m \in left, NEW startLost \in BOOLEAN,
         Adds(m, startLost), Next
  PROVE  CalcInv'
<1> DEFINE found(u) == [side \in Sides |-> RewardFound(m, u, side, startLost)]
           with(u) == TotalsWith(m, u, startLost)
           missed == startLost /\ ReadsStart(m) /\ HasBoundary(Before)
<1>1. /\ blocks' = blocks /\ phase' = "markets" /\ range' = range
      /\ usersBy' = usersBy /\ result' = result /\ why' = why
      /\ left' = left \ {m} /\ lost' = (lost \/ missed)
      /\ hasStart' = (hasStart \/ Started(m, startLost))
  BY DEF Adds
<1>2. /\ ~(ListedAt[m] > End) /\ HasBoundary(End)
      /\ \A u \in UsersOf(m), side \in Sides :
           ~(RewardFound(m, u, side, startLost) < 0)
  BY DEF Adds
<1>3. rows' = [a \in Accounts |->
                IF a[1] = m /\ a[2] \in UsersOf(m) THEN found(a[2]) ELSE rows[a]]
  BY DEF Adds
<1>4. totals' = [u \in Users |->
                  IF u \in UsersOf(m) THEN with(u) ELSE totals[u]]
  BY DEF Adds
<1>5. ChainInv' BY ChainStep DEF CalcInv
<1>6. TypeOK /\ m \in Markets BY DEF CalcInv, TypeOK
<1>7. Settled /\ Before \in Nat /\ End \in Nat
  BY <1>1, WorkIs, RangeIs
<1>8. ListedAt[m] <= End /\ ListedAt[m] \in Nat
  BY <1>2, <1>6, <1>7, ChainAssumption
<1>9. /\ Before' = Before /\ End' = End
      /\ HasBoundary(Before)' = HasBoundary(Before)
      /\ \A k : ReadsStart(k)' = ReadsStart(k)
      /\ \A c \in End .. LastBlock :
            UsersByMarket(range, c)' = UsersByMarket(range, c)
  BY <1>1, SameRange DEF HasBoundary, UsersByMarket, IndexedAt, Distributed
<1>10. \A u \in Users :
         Through(u)' = IF u \in UsersOf(m) THEN Through(u) \cup {m} ELSE Through(u)
  <2> TAKE u \in Users
  <2>1. Through(u)' = {k \in Markets \ (left \ {m}) :
                         usersBy[<<k, u>>] # None /\ ListedAt[k] <= End}
    BY <1>1, <1>9 DEF Through
  <2>2. u \in UsersOf(m) <=> usersBy[<<m, u>>] # None BY DEF UsersOf
  <2>3. QED BY <1>6, <1>8, <2>1, <2>2 DEF Through
<1>11. ASSUME NEW u \in UsersOf(m)
       PROVE  /\ u \in Users /\ totals'[u] = with(u) /\ with(u) \in TotalsType
              /\ with(u).end = SumFunctionOnSet(OwedIn(u, End), Through(u) \cup {m})
              /\ \A k \in Through(u) \cup {m} : with(u).createdAt <= usersBy[<<k, u>>]
              /\ \A side \in Sides : found(u)[side] \in Nat
              /\ with(u).earned = SumFunctionOnSet(RowTotals(u), Through(u))
                                    + found(u)["supply"] + found(u)["borrow"]
              /\ ~missed => \A side \in Sides :
                              found(u)[side] = RewardOf(<<m, side>>, u)
              /\ ~lost /\ ~missed =>
                   /\ with(u).before
                        = SumFunctionOnSet(OwedIn(u, Before), Through(u) \cup {m})
                   /\ \A k \in Through(u) \cup {m}, side \in Sides :
                        RewardOf(<<k, side>>, u) \in Nat
                   /\ with(u).earned
                        = SumFunctionOnSet(RewardsIn(u), Through(u) \cup {m})
  <2>1. u \in Users BY DEF UsersOf
  <2>2. totals'[u] = with(u) BY <1>4, <2>1
  <2>3. \A side \in Sides : found(u)[side] = RewardFound(m, u, side, startLost)
    OBVIOUS
  <2>4. "supply" \in Sides /\ "borrow" \in Sides BY DEF Sides
  <2>5. PICK t, T, lacks :
          /\ t = TotalsWith(m, u, startLost) /\ T = Through(u) \cup {m}
          /\ (lacks <=> (startLost /\ ReadsStart(m) /\ HasBoundary(Before)))
    OBVIOUS
  <2>6. /\ t \in TotalsType
        /\ t.end = SumFunctionOnSet(OwedIn(u, End), T)
        /\ \A k \in T : t.createdAt <= usersBy[<<k, u>>]
        /\ \A side \in Sides : RewardFound(m, u, side, startLost) \in Nat
        /\ t.earned = SumFunctionOnSet(RowTotals(u), Through(u))
                        + RewardFound(m, u, "supply", startLost)
                        + RewardFound(m, u, "borrow", startLost)
        /\ ~lacks => \A side \in Sides :
             RewardFound(m, u, side, startLost) = RewardOf(<<m, side>>, u)
        /\ ~lost /\ ~lacks =>
             /\ t.before = SumFunctionOnSet(OwedIn(u, Before), T)
             /\ \A k \in T, side \in Sides : RewardOf(<<k, side>>, u) \in Nat
             /\ t.earned = SumFunctionOnSet(RewardsIn(u), T)
    <3>1. \A side \in Sides : ~(RewardFound(m, u, side, startLost) < 0) BY <1>2
    <3>2. QED BY <1>2, <1>8, <2>5, <3>1, AddedIs
  <2>7. t = with(u) /\ (lacks <=> missed) BY <2>5
  <2>8. /\ found(u)["supply"] = RewardFound(m, u, "supply", startLost)
        /\ found(u)["borrow"] = RewardFound(m, u, "borrow", startLost)
    BY <2>3, <2>4
  <2> HIDE DEF found, with, missed
  <2>9. QED BY <2>1, <2>2, <2>3, <2>5, <2>6, <2>7, <2>8
<1>12. \A u \in Users : u \notin UsersOf(m) => totals'[u] = totals[u]
  BY <1>4
<1>13. \A u \in Users, k \in Markets :
         rows'[<<k, u>>] = IF k = m /\ u \in UsersOf(m) THEN found(u)
                           ELSE rows[<<k, u>>]
  BY <1>3, AccountIs
<1>14. None \notin TotalsType BY TotalsAssumption
<1>15. \A u : found(u) = [side \in Sides |-> found(u)[side]] OBVIOUS
<1>16. missed \in BOOLEAN /\ Started(m, startLost) \in BOOLEAN
       /\ (~missed /\ ReadsStart(m) /\ HasBoundary(Before) => Started(m, startLost))
  BY DEF Started, ReadsStart, HasBoundary
<1> HIDE DEF found, with, missed
<1>17. TypeOK'
  <2>1. (DOMAIN blocks = 0 .. LatestBlock)' BY <1>5 DEF ChainInv, ChainOK
  <2>2. (range \in Ranges)'
    BY <1>1, <1>7 DEF Settled, Ranges
  <2>3. \A a \in Accounts : rows'[a] \in [Sides -> Nat]
    <3> TAKE a \in Accounts
    <3>1. PICK k \in Markets, u \in Users : a = <<k, u>> BY DEF Accounts
    <3>2. CASE k = m /\ u \in UsersOf(m)
      <4>1. rows'[a] = found(u) BY <1>13, <3>1, <3>2
      <4>2. \A side \in Sides : found(u)[side] \in Nat BY <1>11, <3>2
      <4>3. found(u) \in [Sides -> Nat] BY <1>15, <4>2
      <4>4. QED BY <4>1, <4>3
    <3>3. CASE ~(k = m /\ u \in UsersOf(m))
      <4>1. rows'[a] = rows[a] BY <1>13, <3>1, <3>3
      <4>2. QED BY <1>6, <4>1 DEF TypeOK
    <3>4. QED BY <3>2, <3>3
  <2>4. \A u \in Users : totals'[u] # None => totals'[u] \in TotalsType'
    <3> TAKE u \in Users
    <3>1. TotalsType' = TotalsType BY DEF TotalsType
    <3>2. CASE u \in UsersOf(m) BY <1>11, <3>1, <3>2
    <3>3. CASE u \notin UsersOf(m)
      BY <1>6, <1>12, <3>1, <3>3 DEF TypeOK
    <3>4. QED BY <3>2, <3>3
  <2>5. /\ left' \subseteq Markets /\ hasStart' \in BOOLEAN /\ lost' \in BOOLEAN
        /\ (why' # None) = (phase' = "refused")
        /\ \A a \in Accounts : usersBy'[a] \in Nat \cup {None}
        /\ \A u \in Users : result'[u] # None => result'[u] \in ResultType
    BY <1>1, <1>6, <1>16 DEF TypeOK
  <2>6. ResultType' = ResultType BY DEF ResultType
  <2>7. phase' \in {"chain", "markets", "done", "refused"} BY <1>1
  <2>8. QED BY <2>1, <2>2, <2>3, <2>4, <2>5, <2>6, <2>7 DEF TypeOK
<1>18. /\ \A u, b : OwedIn(u, b)' = OwedIn(u, b)
       /\ \A p, u : RewardOf(p, u)' = RewardOf(p, u)
       /\ \A u : RewardsIn(u)' = RewardsIn(u)
  BY <1>1, SameRange
<1>19. (\E c \in End .. LastBlock : usersBy = UsersByMarket(range, c))'
  <2>1. PICK c \in End .. LastBlock : usersBy = UsersByMarket(range, c) BY WorkIs
  <2>2. UsersByMarket(range, c)' = UsersByMarket(range, c) BY <1>9
  <2>3. QED BY <1>1, <1>9, <2>1, <2>2
<1>20. ASSUME NEW u \in Users
       PROVE  /\ (totals[u] = None <=> Through(u) = {})'
              /\ totals'[u] # None => TotalsOK(u)'
  <2>1. CASE u \in UsersOf(m)
    <3>1. Through(u)' = Through(u) \cup {m} /\ totals'[u] # None
      BY <1>10, <1>11, <1>14, <2>1
    <3>2. ~lost' => ~lost /\ ~missed BY <1>1, <1>16
    <3>3. PICK t, T : t = with(u) /\ T = Through(u) \cup {m} OBVIOUS
    <3>4. /\ totals'[u] = t /\ Through(u)' = T
          /\ t.end = SumFunctionOnSet(OwedIn(u, End), T)
          /\ \A k \in T : t.createdAt <= usersBy[<<k, u>>]
          /\ ~lost' =>
               /\ t.before = SumFunctionOnSet(OwedIn(u, Before), T)
               /\ \A k \in T, side \in Sides : RewardOf(<<k, side>>, u) \in Nat
               /\ t.earned = SumFunctionOnSet(RewardsIn(u), T)
      BY <1>11, <2>1, <3>1, <3>2, <3>3
    <3>5. /\ OwedIn(u, End)' = OwedIn(u, End)
          /\ OwedIn(u, Before)' = OwedIn(u, Before)
      BY <1>1, SameOwed
    <3>6. Sides' = Sides BY DEF Sides
    <3>7. TotalsOK(u)'
      BY ONLY <1>1, <1>18, <3>4, <3>5, <3>6 DEF TotalsOK
    <3>8. QED BY <3>1, <3>7
  <2>2. CASE u \notin UsersOf(m)
    <3>1. Through(u)' = Through(u) /\ totals'[u] = totals[u]
      BY <1>10, <1>12, <2>2
    <3>2. totals[u] # None => TotalsOK(u) BY WorkIs
    <3>3. totals[u] = None <=> Through(u) = {} BY WorkIs
    <3>4. CASE lost' = lost
      <4>1. TotalsOK(u)' <=> TotalsOK(u) BY <1>1, <3>1, <3>4, SameTotalsOK
      <4>2. QED BY <3>1, <3>2, <3>3, <4>1
    <3>5. CASE lost'
      <4>1. /\ OwedIn(u, End)' = OwedIn(u, End)
            /\ OwedIn(u, Before)' = OwedIn(u, Before)
        BY <1>1, SameOwed
      <4>2. totals[u] # None => TotalsOK(u)'
        BY <1>1, <1>9, <3>1, <3>2, <3>5, <4>1 DEF TotalsOK
      <4>3. QED BY <3>1, <3>3, <4>2
    <3>6. QED BY <1>1, <1>6, <1>16, <3>4, <3>5 DEF TypeOK
  <2>3. QED BY <2>1, <2>2
<1>21. ~lost' => \A u \in Users : \A k \in Through(u)' :
         ReadsStart(k)' /\ HasBoundary(Before)' => hasStart'
  <2> SUFFICES ASSUME ~lost', NEW u \in Users, NEW k \in Through(u)',
                      ReadsStart(k), HasBoundary(Before)
               PROVE  hasStart'
    BY <1>9
  <2>1. ~lost /\ ~missed BY <1>1, <1>16
  <2>2. CASE k = m BY <1>1, <1>16, <2>1, <2>2
  <2>3. CASE k \in Through(u)
    <3>1. hasStart BY <2>1, <2>3 DEF CalcInv, WorkInv
    <3>2. QED BY <1>1, <3>1
  <2>4. QED BY <1>10, <2>2, <2>3
<1>22. WorkInv'
  <2>1. LatestBlock' = LastBlock /\ (range \in Ranges)'
    BY <1>1, <1>7 DEF LatestBlock, Ranges, Settled
  <2>2. QED BY <1>19, <1>20, <1>21, <2>1 DEF WorkInv
<1>23. ASSUME NEW u \in Users
       PROVE  /\ \A k \in Markets \ Through(u)' : rows'[<<k, u>>] = NoRow
              /\ totals'[u] # None =>
                   totals'[u].earned
                     = SumFunctionOnSet(RowTotals(u)', Through(u)')
              /\ ~lost' => \A k \in Through(u)', side \in Sides :
                   rows'[<<k, u>>][side] = RewardOf(<<k, side>>, u)
  <2>0. /\ \A k \in Markets \ Through(u) : rows[<<k, u>>] = NoRow
        /\ totals[u] # None =>
             totals[u].earned = SumFunctionOnSet(RowTotals(u), Through(u))
        /\ ~lost => \A k \in Through(u), side \in Sides :
             rows[<<k, u>>][side] = RewardOf(<<k, side>>, u)
        /\ IsFiniteSet(Through(u)) /\ Through(u) \subseteq Markets
    BY WorkIs DEF CalcInv, RowsInv
  <2>1. CASE u \in UsersOf(m)
    <3>1. Through(u)' = Through(u) \cup {m} /\ totals'[u] = with(u)
      BY <1>10, <1>11, <2>1
    <3>2. ~lost' => ~lost /\ ~missed BY <1>1, <1>16
    <3>3. /\ rows'[<<m, u>>] = found(u)
          /\ \A k \in Markets \ {m} : rows'[<<k, u>>] = rows[<<k, u>>]
      BY <1>6, <1>13, <2>1
    <3>4. \A k \in Markets \ Through(u)' : rows'[<<k, u>>] = NoRow
      BY <2>0, <3>1, <3>3
    <3>5. m \notin Through(u) BY DEF Through
    <3>6. /\ RowTotals(u)'[m] = found(u)["supply"] + found(u)["borrow"]
          /\ \A k \in Markets \ {m} : RowTotals(u)'[k] = RowTotals(u)[k]
          /\ \A k \in Markets : RowTotals(u)[k] \in Nat
          /\ found(u)["supply"] \in Nat /\ found(u)["borrow"] \in Nat
      <4>1. "supply" \in Sides /\ "borrow" \in Sides BY DEF Sides
      <4>2. /\ \A k \in Markets : RowTotals(u)[k] = rows[<<k, u>>]["supply"]
                                               + rows[<<k, u>>]["borrow"]
            /\ \A k \in Markets : RowTotals(u)'[k] = rows'[<<k, u>>]["supply"]
                                               + rows'[<<k, u>>]["borrow"]
        BY DEF RowTotals, RowTotal
      <4>3. \A k \in Markets : rows[<<k, u>>]["supply"] \in Nat
                              /\ rows[<<k, u>>]["borrow"] \in Nat
        <5> TAKE k \in Markets
        <5>1. <<k, u>> \in Accounts BY DEF Accounts
        <5>2. rows[<<k, u>>] \in [Sides -> Nat] BY <1>6, <5>1 DEF TypeOK
        <5>3. QED BY <4>1, <5>2
      <4>4. found(u)["supply"] \in Nat /\ found(u)["borrow"] \in Nat
        BY <1>11, <2>1, <4>1
      <4>5. RowTotals(u)'[m] = found(u)["supply"] + found(u)["borrow"]
        BY <1>6, <3>3, <4>2
      <4>6. \A k \in Markets \ {m} : RowTotals(u)'[k] = RowTotals(u)[k]
        BY <3>3, <4>2
      <4>7. \A k \in Markets : RowTotals(u)[k] \in Nat
        <5> TAKE k \in Markets
        <5>1. PICK x, y : x = rows[<<k, u>>]["supply"] /\ y = rows[<<k, u>>]["borrow"]
          OBVIOUS
        <5>2. x \in Nat /\ y \in Nat BY <4>3, <5>1
        <5>3. RowTotals(u)[k] = x + y BY <4>2, <5>1
        <5>4. QED BY <5>2, <5>3
      <4>8. QED BY <4>4, <4>5, <4>6, <4>7
    <3>7. with(u).earned = SumFunctionOnSet(RowTotals(u)', Through(u) \cup {m})
      <4>1. PICK now, old, e, f : /\ now = RowTotals(u)' /\ old = RowTotals(u)
                                  /\ e = found(u)["supply"]
                                  /\ f = found(u)["borrow"]
        OBVIOUS
      <4>2. \A k \in Through(u) : old[k] \in Nat /\ now[k] = old[k]
        BY <2>0, <3>5, <3>6, <4>1
      <4>3. SumFunctionOnSet(now, Through(u)) = SumFunctionOnSet(old, Through(u))
        BY <2>0, <4>2, SumSame
      <4>4. now[m] = e + f /\ now[m] \in Nat /\ e \in Nat /\ f \in Nat
        BY <3>6, <4>1
      <4>5. SumFunctionOnSet(old, Through(u)) \in Nat
        BY <2>0, <4>2, SumType
      <4>6. with(u).earned = SumFunctionOnSet(old, Through(u)) + e + f
        BY <1>11, <2>1, <4>1
      <4>7. with(u).earned = SumFunctionOnSet(now, Through(u)) + now[m]
        BY <4>3, <4>4, <4>5, <4>6
      <4>8. \A k \in Through(u) : now[k] \in Nat BY <4>2
      <4>9. SumFunctionOnSet(now, Through(u) \cup {m}) = with(u).earned
        BY <2>0, <3>5, <4>4, <4>7, <4>8, SumMore
      <4>10. QED BY <4>1, <4>9
    <3>8. ASSUME ~lost', NEW k \in Through(u)', NEW side \in Sides
          PROVE  rows'[<<k, u>>][side] = RewardOf(<<k, side>>, u)
      <4>1. CASE k = m
        <5>1. found(u)[side] = RewardOf(<<m, side>>, u)
          BY <1>11, <2>1, <3>2, <3>8
        <5>2. QED BY <3>3, <4>1, <5>1
      <4>2. CASE k # m
        <5>1. k \in Through(u) /\ k \in Markets \ {m}
          BY <2>0, <3>1, <4>2
        <5>2. QED BY <2>0, <3>2, <3>3, <3>8, <5>1
      <4>3. QED BY <4>1, <4>2
    <3>9. QED BY <3>1, <3>4, <3>7, <3>8
  <2>2. CASE u \notin UsersOf(m)
    <3>1. Through(u)' = Through(u) /\ totals'[u] = totals[u]
      BY <1>10, <1>12, <2>2
    <3>2. \A k \in Markets : rows'[<<k, u>>] = rows[<<k, u>>] BY <1>13, <2>2
    <3>3. RowTotals(u)' = RowTotals(u)
      BY <3>2 DEF RowTotals, RowTotal
    <3>4. ~lost' => ~lost BY <1>1
    <3>5. QED BY <2>0, <3>1, <3>2, <3>3, <3>4
  <2>3. QED BY <2>1, <2>2
<1>24. RowsInv'
  <2>1. NoRow' = NoRow /\ Sides' = Sides BY DEF NoRow, Sides
  <2>2. QED BY <1>18, <1>23, <2>1 DEF RowsInv
<1>25. FreshInv' /\ DoneInv' /\ RealChainAccepted'
  BY <1>1 DEF FreshInv, DoneInv, RealChainAccepted
<1>26. QED BY <1>5, <1>17, <1>22, <1>24, <1>25 DEF CalcInv

(* A reward that is found to be negative is one that interest has rounded  *)
(* away.                                                                   *)
LEMMA NegativeFound ==
  ASSUME CalcInv, phase = "markets", HasBoundary(End),
         NEW m \in Markets, ListedAt[m] <= End, NEW startLost \in BOOLEAN,
         NEW u \in UsersOf(m), NEW side \in Sides,
         RewardFound(m, u, side, startLost) < 0
  PROVE  RoundedAway(m, u)
<1>1. PICK p, n : p = <<m, side>> /\ n = RewardFound(m, u, side, startLost)
  OBVIOUS
<1>2. Settled /\ u \in Users /\ usersBy[<<m, u>>] # None
  BY WorkIs DEF UsersOf
<1>3. PICK cursor \in End .. LastBlock : usersBy = UsersByMarket(range, cursor)
  BY WorkIs
<1>4. n \in Int /\ (n \in Nat \/ n = RewardOf(p, u))
  BY <1>1, <1>2, <1>3, FoundIs
<1>5. n < 0 /\ n \notin Nat BY <1>1, <1>4
<1>6. p \in Pools /\ p[1] = m /\ p[2] = side BY <1>1 DEF Pools
<1>7. /\ ~QuietPool(p)
      /\ n = EarnedOn(p, u) + PhantomOn(p, u)
  BY <1>2, <1>4, <1>5, <1>6, RewardIs
<1>8. side = "borrow" /\ ~Steady(m)
  BY <1>6, <1>7 DEF QuietPool, Sides
<1>9. Selects(range, m)
  <2>1. PICK a : a = <<m, u>> OBVIOUS
  <2>2. a \in Accounts /\ a[1] = m BY <1>2, <2>1, AccountIs
  <2>3. usersBy[a] # None BY <1>2, <2>1
  <2>4. QED BY <1>3, <2>2, <2>3 DEF UsersByMarket
<1>10. QED BY <1>1, <1>5, <1>7, <1>8, <1>9 DEF RoundedAway

LEMMA MarketStep ==
  ASSUME CalcInv, NEW m \in Markets, NEW startLost \in BOOLEAN,
         CalculateMarket(m, startLost)
  PROVE  CalcInv'
<1>1. /\ phase = "markets" /\ m \in left /\ Next
      /\ Skips(m) \/ Adds(m, startLost) \/ RefusesMarket(m, startLost)
  BY CalculateIs DEF Next
<1>2. CASE Skips(m) BY <1>1, <1>2, SkipStep
<1>3. CASE Adds(m, startLost) BY <1>1, <1>3, AddStep
<1>4. CASE RefusesMarket(m, startLost)
  <2>1. ~(ReadsStart(m) /\ NoCToken(m, Before))
    <3>1. Before \in Nat /\ ListedAt[m] \in Nat
      BY <1>1, WorkIs, RangeIs, ChainAssumption
    <3>2. QED BY <3>1 DEF ReadsStart, NoCToken
  <2>a. CASE ~HasBoundary(End) /\ Refuse("boundary")
    <3>1. MayRefuse("boundary") BY <2>a DEF MayRefuse
    <3>2. "boundary" # None BY RewardsAssumption
    <3>3. QED BY <1>1, <2>a, <3>1, <3>2, RefuseStep
  <2>b. CASE HasBoundary(End) /\ \E u \in UsersOf(m), side \in Sides :
               ~(ListedAt[m] > End) /\ RewardFound(m, u, side, startLost) < 0
               /\ Refuse("negative reward")
    <3>1. PICK u \in UsersOf(m), side \in Sides :
            ~(ListedAt[m] > End) /\ RewardFound(m, u, side, startLost) < 0
            /\ Refuse("negative reward")
      BY <2>b
    <3>2. ListedAt[m] <= End
      <4>1. End \in Nat /\ ListedAt[m] \in Nat
        BY <1>1, WorkIs, RangeIs, ChainAssumption
      <4>2. ~(ListedAt[m] > End) BY <3>1
      <4>3. QED BY ONLY <4>1, <4>2
    <3>3. RoundedAway(m, u) BY <1>1, <2>b, <3>1, <3>2, NegativeFound
    <3>4. u \in Users BY DEF UsersOf
    <3>5. MayRefuse("negative reward") BY <3>3, <3>4 DEF MayRefuse
    <3>6. "negative reward" # None BY RewardsAssumption
    <3>7. QED BY <1>1, <3>1, <3>5, <3>6, RefuseStep
  <2>c. QED BY <1>4, <2>1, <2>a, <2>b DEF RefusesMarket
<1>5. QED BY <1>1, <1>2, <1>3, <1>4

LEMMA FailStep ==
  ASSUME CalcInv, ReadFails
  PROVE  CalcInv'
<1>1. phase = "markets" /\ Refuse("rpc") /\ Next BY DEF ReadFails, Next
<1>2. "rpc" # None /\ MayRefuse("rpc") BY RewardsAssumption DEF MayRefuse
<1>3. QED BY <1>1, <1>2, RefuseStep

-----------------------------------------------------------------------------
(* What is taken from the rows of a user.                                  *)

(* Markets before k, and what an amount leaves to take from k.             *)
Ahead(w, k) == {j \in Markets \ {k} : w[j] > w[k] \/ (w[j] = w[k] /\ j < k)}

Take(w, amount, k) ==
  Min({w[k], Max({0, amount - SumFunctionOnSet(w, Ahead(w, k))})})

(* What an amount takes from numbers that sum to n.                        *)
Least2(amount, n) == IF amount <= n THEN amount ELSE n

LEMMA MaxZero ==
  ASSUME NEW a \in Nat, NEW b \in Nat
  PROVE  Max({0, a - b}) = IF a >= b THEN a - b ELSE 0
<1> DEFINE S == {0, a - b}
           x == IF a >= b THEN a - b ELSE 0
<1>1. x \in S /\ \A y \in S : x >= y OBVIOUS
<1>2. \A y \in S : y \in Int OBVIOUS
<1> HIDE DEF S, x
<1>3. Max(S) \in S /\ \A y \in S : Max(S) >= y
  BY <1>1 DEF Max
<1>4. Max(S) = x BY <1>1, <1>2, <1>3
<1>5. QED BY <1>4 DEF S, x

LEMMA TakeIs ==
  ASSUME NEW w, \A k \in Markets : w[k] \in Nat, NEW amount \in Nat,
         NEW k \in Markets
  PROVE  /\ Ahead(w, k) \subseteq Markets /\ IsFiniteSet(Ahead(w, k))
         /\ k \notin Ahead(w, k)
         /\ SumFunctionOnSet(w, Ahead(w, k)) \in Nat
         /\ Take(w, amount, k) \in Nat /\ Take(w, amount, k) <= w[k]
         /\ Least2(amount, SumFunctionOnSet(w, Ahead(w, k))) + Take(w, amount, k)
              = Least2(amount, SumFunctionOnSet(w, Ahead(w, k)) + w[k])
<1>1. Ahead(w, k) \subseteq Markets /\ k \notin Ahead(w, k) BY DEF Ahead
<1>2. IsFiniteSet(Ahead(w, k)) BY <1>1, FiniteUsers, FS_Subset
<1>3. \A j \in Ahead(w, k) : w[j] \in Nat BY <1>1
<1>4. SumFunctionOnSet(w, Ahead(w, k)) \in Nat BY <1>2, <1>3, SumType
<1>5. PICK s, n : s = SumFunctionOnSet(w, Ahead(w, k)) /\ n = w[k] OBVIOUS
<1>6. s \in Nat /\ n \in Nat BY <1>4, <1>5
<1>7. Max({0, amount - s}) = IF amount >= s THEN amount - s ELSE 0
  BY <1>6, MaxZero
<1>8. Take(w, amount, k) = Min({n, Max({0, amount - s})}) BY <1>5 DEF Take
<1>9. PICK rest : rest = Max({0, amount - s}) OBVIOUS
<1>10. rest \in Nat BY <1>6, <1>7, <1>9
<1>11. Take(w, amount, k) = IF n <= rest THEN n ELSE rest
  BY <1>6, <1>8, <1>9, <1>10, MinPair, SMTT(30)
<1>12. QED BY <1>1, <1>2, <1>5, <1>6, <1>7, <1>9, <1>10, <1>11 DEF Least2

(* The order in which rows are drained.                                    *)
Sooner(w, a, b) == w[a] > w[b] \/ (w[a] = w[b] /\ a < b)

LEMMA SoonerOrders ==
  ASSUME NEW w, \A k \in Markets : w[k] \in Nat
  PROVE  /\ \A a, b, c \in Markets :
              Sooner(w, a, b) /\ Sooner(w, b, c) => Sooner(w, a, c)
         /\ \A a, b \in Markets : a = b \/ Sooner(w, a, b) \/ Sooner(w, b, a)
         /\ \A a, b \in Markets : ~(Sooner(w, a, b) /\ Sooner(w, b, a))
<1>1. \A k \in Markets : k \in Nat BY ChainAssumption
<1>2. ASSUME NEW a \in Markets, NEW b \in Markets, NEW c \in Markets
      PROVE  /\ Sooner(w, a, b) /\ Sooner(w, b, c) => Sooner(w, a, c)
             /\ a = b \/ Sooner(w, a, b) \/ Sooner(w, b, a)
             /\ ~(Sooner(w, a, b) /\ Sooner(w, b, a))
  <2>1. PICK x, y, z : x = w[a] /\ y = w[b] /\ z = w[c] OBVIOUS
  <2>2. /\ Sooner(w, a, b) <=> (x > y \/ (x = y /\ a < b))
        /\ Sooner(w, b, a) <=> (y > x \/ (y = x /\ b < a))
        /\ Sooner(w, b, c) <=> (y > z \/ (y = z /\ b < c))
        /\ Sooner(w, a, c) <=> (x > z \/ (x = z /\ a < c))
    BY <2>1 DEF Sooner
  <2>3. /\ a \in Nat /\ b \in Nat /\ c \in Nat
        /\ x \in Nat /\ y \in Nat /\ z \in Nat
    BY <1>1, <2>1
  <2>4. Sooner(w, a, b) /\ Sooner(w, b, c) => Sooner(w, a, c)
    BY ONLY <2>2, <2>3
  <2>5. a = b \/ Sooner(w, a, b) \/ Sooner(w, b, a)
    BY ONLY <2>2, <2>3
  <2>6. ~(Sooner(w, a, b) /\ Sooner(w, b, a))
    BY ONLY <2>2, <2>3
  <2>7. QED BY <2>4, <2>5, <2>6
<1>3. QED BY <1>2

LEMMA LastOne ==
  ASSUME NEW w, \A k \in Markets : w[k] \in Nat,
         NEW D \in SUBSET Markets, D # {}
  PROVE  \E k \in D : \A j \in D \ {k} : Sooner(w, j, k)
<1> DEFINE P == {T \in SUBSET D :
                   T = {} \/ \E k \in T : \A j \in T \ {k} : Sooner(w, j, k)}
<1>1. {} \in P OBVIOUS
<1>2. ASSUME NEW T \in SUBSET D, NEW x \in D \ T, T \in P
      PROVE  T \cup {x} \in P
  <2>1. CASE T = {}
    <3>1. \A j \in (T \cup {x}) \ {x} : Sooner(w, j, x) BY <2>1
    <3>2. QED BY <3>1
  <2>2. CASE T # {}
    <3>1. PICK k \in T : \A j \in T \ {k} : Sooner(w, j, k) BY <1>2, <2>2
    <3>2. \A j \in T : j \in Markets BY <1>2
    <3>3. CASE Sooner(w, k, x)
      <4>1. \A j \in (T \cup {x}) \ {x} : Sooner(w, j, x)
        <5> TAKE j \in (T \cup {x}) \ {x}
        <5>1. j \in T /\ j \in Markets /\ k \in Markets /\ x \in Markets
          BY <3>2
        <5>2. j = k \/ Sooner(w, j, k) BY <3>1, <5>1
        <5>3. QED BY <3>3, <5>1, <5>2, SoonerOrders
      <4>2. QED BY <4>1
    <3>4. CASE ~Sooner(w, k, x)
      <4>1. Sooner(w, x, k) BY <3>2, <3>4, SoonerOrders
      <4>2. \A j \in (T \cup {x}) \ {k} : Sooner(w, j, k) BY <3>1, <4>1
      <4>3. QED BY <4>2
    <3>5. QED BY <3>3, <3>4
  <2>3. QED BY <2>1, <2>2
<1> HIDE DEF P
<1>3. IsFiniteSet(D) BY FiniteUsers, FS_Subset
<1>4. D \in P BY <1>1, <1>2, <1>3, SetInduct
<1>5. QED BY <1>4 DEF P

(* Taking from the largest numbers first takes the amount, or all of them. *)
LEMMA TakenIs ==
  ASSUME NEW w, \A k \in Markets : w[k] \in Nat, NEW amount \in Nat,
         NEW take, \A k \in Markets : take[k] = Take(w, amount, k)
  PROVE  SumFunctionOnSet(take, Markets)
           = Least2(amount, SumFunctionOnSet(w, Markets))
<1> DEFINE Closed(D) == \A k \in D : Ahead(w, k) \subseteq D
           Good(D) == SumFunctionOnSet(take, D)
                        = Least2(amount, SumFunctionOnSet(w, D))
           S == {n \in Nat : \A D \in SUBSET Markets :
                   Cardinality(D) = n /\ Closed(D) => Good(D)}
<1>0. IsFiniteSet(Markets) /\ \A D \in SUBSET Markets : IsFiniteSet(D)
  BY FiniteUsers, FS_Subset
<1>a. ASSUME NEW D \in SUBSET Markets
      PROVE  /\ Cardinality(D) \in Nat /\ (Cardinality(D) = 0 <=> D = {})
             /\ SumFunctionOnSet(w, D) \in Nat /\ SumFunctionOnSet(take, D) \in Nat
  <2>1. \A k \in D : w[k] \in Nat /\ take[k] \in Nat BY TakeIs
  <2>2. QED BY <1>0, <2>1, SumType, FS_CardinalityType, FS_EmptySet
<1>1. 0 \in S
  <2>1. Least2(amount, 0) = 0 BY DEF Least2
  <2>2. Good({}) BY <2>1, SumEmpty
  <2>3. QED BY <1>a, <2>2
<1>2. ASSUME NEW n \in Nat, n - 1 \in S, n # 0
      PROVE  n \in S
  <2> SUFFICES ASSUME NEW D \in SUBSET Markets, Cardinality(D) = n, Closed(D)
               PROVE  Good(D)
    OBVIOUS
  <2>1. IsFiniteSet(D) /\ D # {} BY <1>0, <1>2, <1>a
  <2>2. PICK k \in D : \A j \in D \ {k} : Sooner(w, j, k) BY <2>1, LastOne
  <2>3. k \in Markets /\ D \ {k} \in SUBSET Markets OBVIOUS
  <2>4. \A a, b \in Markets : b \in Ahead(w, a) <=> b # a /\ Sooner(w, b, a)
    BY DEF Ahead, Sooner
  <2>5. Ahead(w, k) = D \ {k}
    <3>1. Ahead(w, k) \subseteq D \ {k} BY <2>3, TakeIs
    <3>2. D \ {k} \subseteq Ahead(w, k) BY <2>2, <2>3, <2>4
    <3>3. QED BY <3>1, <3>2
  <2>6. Closed(D \ {k})
    <3> SUFFICES ASSUME NEW a \in D \ {k}, NEW b \in Ahead(w, a)
                 PROVE  b \in D \ {k}
      OBVIOUS
    <3>1. a \in Markets /\ b \in D /\ b \in Markets OBVIOUS
    <3>2. Sooner(w, b, a) /\ Sooner(w, a, k) BY <2>2, <2>4, <3>1
    <3>3. b # k BY <2>3, <3>1, <3>2, SoonerOrders
    <3>4. QED BY <3>1, <3>3
  <2>7. Cardinality(D \ {k}) = n - 1 BY <2>1, Smaller
  <2>8. Good(D \ {k}) BY <1>2, <2>3, <2>6, <2>7
  <2> DEFINE s == SumFunctionOnSet(w, D \ {k})
  <2>9. /\ SumFunctionOnSet(w, D) = w[k] + s
        /\ SumFunctionOnSet(take, D) = take[k] + SumFunctionOnSet(take, D \ {k})
    <3>1. \A j \in D : w[j] \in Nat /\ take[j] \in Nat BY TakeIs
    <3>2. QED BY <2>1, <3>1, SumRemove
  <2>10. /\ Least2(amount, s) + take[k] = Least2(amount, s + w[k])
         /\ take[k] \in Nat /\ s \in Nat /\ w[k] \in Nat
    <3>1. s = SumFunctionOnSet(w, Ahead(w, k)) BY <2>5
    <3>2. take[k] = Take(w, amount, k) BY <2>3
    <3> HIDE DEF s
    <3>3. QED BY <2>3, <3>1, <3>2, TakeIs
  <2>11. SumFunctionOnSet(take, D \ {k}) = Least2(amount, s) BY <2>8
  <2> HIDE DEF s
  <2>12. w[k] + s = s + w[k] BY <2>10
  <2>13. Least2(amount, s) \in Nat BY <2>10 DEF Least2
  <2>14. SumFunctionOnSet(take, D) = Least2(amount, SumFunctionOnSet(w, D))
    BY <2>9, <2>10, <2>11, <2>12, <2>13
  <2>15. QED BY <2>14
<1>3. ASSUME NEW n \in Nat PROVE n \in S
  <2>1. \A k \in 1 .. n : k - 1 \in S => k \in S
    <3> HIDE DEF S
    <3>1. \A k \in 1 .. n : k \in Nat /\ k # 0 OBVIOUS
    <3>2. QED BY <1>2, <3>1
  <2> HIDE DEF S
  <2>2. n \in 0 .. n OBVIOUS
  <2>3. QED BY <1>1, <2>1, <2>2, Induct
<1>4. Closed(Markets) BY TakeIs
<1>5. Cardinality(Markets) \in S BY <1>3, <1>a
<1>6. QED BY <1>4, <1>5
-----------------------------------------------------------------------------
(* The totals account for all a user has earned.                           *)

(* All markets are calculated.                                             *)
Calculated == CalcInv /\ phase \in {"markets", "done"} /\ left = {}

(* A selected market that is left out for a user contributes nothing.      *)
LEMMA NothingElse ==
  ASSUME Calculated, NEW u \in Users, NEW m \in Markets \ Through(u),
         Selects(range, m)
  PROVE  /\ OwedIn(u, Before)[m] = 0 /\ OwedIn(u, End)[m] = 0
         /\ CreditsIn(u)[m] = 0
         /\ \A side \in Sides :
              /\ OwedOn(<<m, side>>, u, Before) = 0
              /\ OwedOn(<<m, side>>, u, End) = 0
              /\ CreditedOn(<<m, side>>, u) = 0
<1>1. Settled BY WorkIs DEF Calculated
<1>2. PICK cursor \in End .. LastBlock : usersBy = UsersByMarket(range, cursor)
  BY WorkIs DEF Calculated
<1>3. usersBy[<<m, u>>] = None \/ ~(ListedAt[m] <= End)
  BY DEF Calculated, Through
<1>4. ASSUME NEW side \in Sides
      PROVE  /\ OwedOn(<<m, side>>, u, Before) = 0
             /\ OwedOn(<<m, side>>, u, End) = 0
             /\ CreditedOn(<<m, side>>, u) = 0
  <2>1. PICK p : p = <<m, side>> OBVIOUS
  <2>2. p \in Pools /\ p[1] = m BY <2>1 DEF Pools
  <2>3. /\ OwedOn(p, u, Before) = 0 /\ OwedOn(p, u, End) = 0
        /\ \A b \in InRange : blocks[b].credited[p][u] = 0
    BY <1>1, <1>2, <1>3, <2>2, LeftOut
  <2>4. CreditedOn(p, u) = 0 BY <1>1, <2>2, <2>3, EventsIs
  <2>5. QED BY <2>1, <2>3, <2>4
<1>5. "supply" \in Sides /\ "borrow" \in Sides BY DEF Sides
<1>6. /\ OwedIn(u, Before)[m] = OwedOn(<<m, "supply">>, u, Before)
                                 + OwedOn(<<m, "borrow">>, u, Before)
      /\ OwedIn(u, End)[m] = OwedOn(<<m, "supply">>, u, End)
                              + OwedOn(<<m, "borrow">>, u, End)
      /\ CreditsIn(u)[m] = CreditedOn(<<m, "supply">>, u)
                            + CreditedOn(<<m, "borrow">>, u)
  BY DEF OwedIn, CreditsIn
<1>7. QED BY <1>4, <1>5, <1>6

(* Sums over the markets of a user are sums over all of them.              *)
LEMMA AllThrough ==
  ASSUME Calculated, ~Partial, NEW u \in Users
  PROVE  /\ SumFunctionOnSet(OwedIn(u, Before), Through(u))
              = SumFunctionOnSet(OwedIn(u, Before), Markets)
         /\ SumFunctionOnSet(OwedIn(u, End), Through(u))
              = SumFunctionOnSet(OwedIn(u, End), Markets)
         /\ SumFunctionOnSet(CreditsIn(u), Through(u))
              = SumFunctionOnSet(CreditsIn(u), Markets)
         /\ \A m \in Markets : /\ OwedIn(u, Before)[m] \in Nat
                               /\ OwedIn(u, End)[m] \in Nat
                               /\ CreditsIn(u)[m] \in Nat
<1>1. /\ Settled /\ IsFiniteSet(Markets)
      /\ Through(u) \subseteq Markets
      /\ Before \in 0 .. LastBlock /\ End \in 0 .. LastBlock
  BY WorkIs, RangeIs, FiniteUsers DEF Calculated
<1>2. \A m \in Markets : Selects(range, m) BY DEF Selects, Partial
<1>3. \A m \in Markets : /\ OwedIn(u, Before)[m] \in Nat
                         /\ OwedIn(u, End)[m] \in Nat
                         /\ CreditsIn(u)[m] \in Nat
  BY <1>1, OwedSum, EarnedSum
<1>4. \A m \in Markets \ Through(u) :
        OwedIn(u, Before)[m] = 0 /\ OwedIn(u, End)[m] = 0 /\ CreditsIn(u)[m] = 0
  BY <1>2, NothingElse
<1>5. SumFunctionOnSet(OwedIn(u, Before), Markets)
        = SumFunctionOnSet(OwedIn(u, Before), Through(u))
  BY <1>1, <1>3, <1>4, SumWithin
<1>6. SumFunctionOnSet(OwedIn(u, End), Markets)
        = SumFunctionOnSet(OwedIn(u, End), Through(u))
  BY <1>1, <1>3, <1>4, SumWithin
<1>7. SumFunctionOnSet(CreditsIn(u), Markets)
        = SumFunctionOnSet(CreditsIn(u), Through(u))
  BY <1>1, <1>3, <1>4, SumWithin
<1>8. QED BY <1>3, <1>5, <1>6, <1>7

(* Who had accrued rewards before the range is known to have been there.   *)
LEMMA AccruedFound ==
  ASSUME Calculated, ~Partial, ~lost, NEW u \in Users, totals[u] # None
  PROVE  AccruedBefore(u) = blocks[Before].accrued[u]
<1>1. /\ Settled /\ totals[u] \in TotalsType
      /\ \A k \in Through(u) : totals[u].createdAt <= usersBy[<<k, u>>]
      /\ Before \in 0 .. LastBlock /\ End \in Nat /\ Before \in Nat
      /\ Before <= End /\ RewardsFrom \in Nat
  BY WorkIs, RangeIs DEF Calculated, TotalsOK
<1>2. blocks[Before].accrued[u] \in Nat BY <1>1, EventTypes
<1>3. CASE blocks[Before].accrued[u] = 0
  BY <1>3 DEF AccruedBefore
<1>4. CASE blocks[Before].accrued[u] > 0
  <2>1. PICK m \in Markets : /\ Live(m, blocks[0].rewardsFrom) <= Before
                             /\ WasActive(blocks, <<m, u>>, Before)
    <3>1. StateOK(blocks, Before) BY <1>1, RangeIs
    <3>2. QED BY <1>4, <3>1 DEF StateOK
  <2>2. ReadsStart(m) /\ HasBoundary(Before)
    <3>1. LiveFrom(m) <= Before
      BY <2>1, LiveFromIs DEF RewardsFrom
    <3>2. QED BY <1>1, <3>1, StartedLive
  <2>3. ListedAt[m] <= End
    <3>1. ListedAt[m] \in Nat /\ ListedAt[m] <= Before
      BY <2>2, ChainAssumption DEF ReadsStart
    <3>2. QED BY <1>1, <3>1
  <2>4. PICK a : a = <<m, u>> OBVIOUS
  <2>5. a \in Accounts /\ a[1] = m BY <2>4, AccountIs
  <2>6. PICK cursor \in End .. LastBlock : usersBy = UsersByMarket(range, cursor)
    BY WorkIs DEF Calculated
  <2>7. WasActive(blocks, a, End) /\ WasActive(blocks, a, Before)
    BY <1>1, <2>1, <2>4, ActiveLater
  <2>8. Selects(range, a[1]) BY DEF Selects, Partial
  <2>9. usersBy[a] # None /\ usersBy[a] \in Nat /\ usersBy[a] <= Time[Before]
    BY <1>1, <2>5, <2>6, <2>7, <2>8, UsersFound
  <2>10. m \in Through(u) BY <2>3, <2>4, <2>9 DEF Through, Calculated
  <2>11. hasStart BY <2>2, <2>10 DEF Calculated, CalcInv, WorkInv
  <2>12. AtStart(totals[u].createdAt)
    <3>1. totals[u].createdAt \in Nat /\ Time[Before] \in Nat
      BY <1>1, ChainAssumption DEF TotalsType
    <3>2. totals[u].createdAt <= usersBy[a] BY <1>1, <2>4, <2>10
    <3>3. QED BY <2>9, <3>1, <3>2 DEF AtStart
  <2>13. QED BY <2>11, <2>12 DEF AccruedBefore
<1>5. QED BY <1>2, <1>3, <1>4

(* The amounts of the totals.                                              *)
LEMMA AmountTypes ==
  ASSUME Calculated, NEW u \in Users, totals[u] # None
  PROVE  /\ totals[u].earned \in Nat /\ totals[u].before \in Nat
         /\ totals[u].end \in Nat
         /\ ClaimedTransfers(u) = Paid(u) /\ Paid(u) \in Nat
         /\ AccruedAtEnd(u) \in Nat /\ AccruedBefore(u) \in Nat
         /\ Remaining(u) \in Nat /\ DebtBefore(u) \in Nat
         /\ TransferEarned(u) = Paid(u) + Remaining(u) - DebtBefore(u)
         /\ TransferEarned(u) \in Int
         /\ Reconciled(u) \in Nat /\ Reconciled(u) <= totals[u].earned
         /\ ~Partial => ClaimedRaw(u) = DebtBefore(u) + Reconciled(u) - Remaining(u)
         /\ ~Partial => ClaimedRaw(u) \in Int
         /\ Partial => ClaimedRaw(u) = None /\ Reconciled(u) = totals[u].earned
<1>1. /\ Settled /\ totals[u] \in TotalsType
      /\ Before \in 0 .. LastBlock /\ End \in 0 .. LastBlock
  BY WorkIs, RangeIs DEF Calculated
<1>2. /\ totals[u].earned \in Nat /\ totals[u].before \in Nat
      /\ totals[u].end \in Nat
  BY <1>1 DEF TotalsType
<1>3. ClaimedTransfers(u) = Paid(u) BY DEF ClaimedTransfers, Paid
<1>4. Paid(u) \in Nat
  <2>1. PICK c : c = [p \in Pools |-> CreditedOn(p, u)] OBVIOUS
  <2>2. QED BY <1>1, <2>1, Ledger
<1>5. blocks[Before].accrued[u] \in Nat /\ blocks[End].accrued[u] \in Nat
  BY <1>1, EventTypes
<1>6. AccruedAtEnd(u) \in Nat BY <1>5 DEF AccruedAtEnd
<1>7. AccruedBefore(u) \in Nat BY <1>5 DEF AccruedBefore
<1>8. /\ Remaining(u) = AccruedAtEnd(u) + totals[u].end
      /\ DebtBefore(u) = AccruedBefore(u) + totals[u].before
  BY DEF Remaining, DebtBefore
<1>9. Remaining(u) \in Nat /\ DebtBefore(u) \in Nat BY <1>2, <1>6, <1>7, <1>8
<1>10. TransferEarned(u) = Paid(u) + Remaining(u) - DebtBefore(u)
  BY <1>3 DEF TransferEarned
<1>11. TransferEarned(u) \in Int BY <1>4, <1>9, <1>10
<1>12. Reconciled(u)
         = IF Partial \/ TransferEarned(u) < 0
                \/ TransferEarned(u) >= totals[u].earned
           THEN totals[u].earned ELSE TransferEarned(u)
  BY DEF Reconciled
<1>13. Reconciled(u) \in Nat /\ Reconciled(u) <= totals[u].earned
  BY <1>2, <1>11, <1>12
<1>14. ClaimedRaw(u) = IF Partial THEN None
                       ELSE DebtBefore(u) + Reconciled(u) - Remaining(u)
  BY DEF ClaimedRaw
<1>15. ~Partial => ClaimedRaw(u) \in Int BY <1>9, <1>13, <1>14
<1>16. QED
  BY <1>2, <1>3, <1>4, <1>6, <1>7, <1>9, <1>10, <1>11, <1>12, <1>13, <1>14, <1>15

(* The transfers prove what was earned.                                    *)
LEMMA Accounting ==
  ASSUME Calculated, ~Partial, ~lost, NEW u \in Users, totals[u] # None
  PROVE  TransferEarned(u) = Earned(u)
<1>1. /\ Settled
      /\ totals[u].end = SumFunctionOnSet(OwedIn(u, End), Through(u))
      /\ totals[u].before = SumFunctionOnSet(OwedIn(u, Before), Through(u))
      /\ Before \in 0 .. LastBlock /\ End \in 0 .. LastBlock
  BY WorkIs, RangeIs DEF Calculated, TotalsOK
<1>2. AccruedBefore(u) = blocks[Before].accrued[u] BY AccruedFound
<1>3. /\ totals[u].end = SumFunctionOnSet(OwedIn(u, End), Markets)
      /\ totals[u].before = SumFunctionOnSet(OwedIn(u, Before), Markets)
  BY <1>1, AllThrough
<1>4. /\ Owed(u, Before) = blocks[Before].accrued[u] + totals[u].before
      /\ Owed(u, End) = blocks[End].accrued[u] + totals[u].end
  BY <1>1, <1>3, OwedSum
<1>5. Remaining(u) = Owed(u, End) BY <1>4 DEF Remaining, AccruedAtEnd
<1>6. DebtBefore(u) = Owed(u, Before) BY <1>2, <1>4 DEF DebtBefore
<1>7. TransferEarned(u) = Paid(u) + Owed(u, End) - Owed(u, Before)
  BY <1>5, <1>6, AmountTypes
<1>8. QED BY <1>7 DEF Earned

(* Who has no totals has earned nothing.                                   *)
LEMMA Unfound ==
  ASSUME Calculated, ~Partial, NEW u \in Users, totals[u] = None
  PROVE  Earned(u) = 0
<1>1. Settled /\ Through(u) = {} BY WorkIs DEF Calculated
<1>2. /\ SumFunctionOnSet(OwedIn(u, Before), Markets) = 0
      /\ SumFunctionOnSet(OwedIn(u, End), Markets) = 0
      /\ SumFunctionOnSet(CreditsIn(u), Markets) = 0
  BY <1>1, AllThrough, SumEmpty
<1>3. Earned(u) \in Int
      /\ Earned(u) + SumFunctionOnSet(OwedIn(u, Before), Markets)
           = SumFunctionOnSet(CreditsIn(u), Markets)
               + SumFunctionOnSet(OwedIn(u, End), Markets)
  BY <1>1, EarnedSum
<1>4. QED BY <1>2, <1>3
(* The rows of a user find at least what was earned, unless the borrows of *)
(* a market are rounded otherwise; and no more without phantom events.     *)
LEMMA Gains ==
  ASSUME Calculated, ~Partial, ~lost, ~(\E m \in Markets : Drifts(m)),
         NEW u \in Users, totals[u] # None
  PROVE  /\ totals[u].earned >= Earned(u)
         /\ Honest(u) => totals[u].earned = Earned(u)
<1> DEFINE r == RewardsIn(u)
           before == OwedIn(u, Before)
           end == OwedIn(u, End)
           c == CreditsIn(u)
           T == Through(u)
           found == [m \in Markets |-> r[m] + before[m]]
           due == [m \in Markets |-> c[m] + end[m]]
<1>1. /\ Settled /\ IsFiniteSet(T) /\ T \subseteq Markets
      /\ totals[u].earned = SumFunctionOnSet(r, T)
      /\ \A m \in T, side \in Sides : RewardOf(<<m, side>>, u) \in Nat
      /\ totals[u].earned \in Nat /\ Earned(u) \in Int
  BY WorkIs, AmountTypes, EarnedSum DEF Calculated, TotalsOK
<1>2. /\ SumFunctionOnSet(before, T) = SumFunctionOnSet(before, Markets)
      /\ SumFunctionOnSet(end, T) = SumFunctionOnSet(end, Markets)
      /\ SumFunctionOnSet(c, T) = SumFunctionOnSet(c, Markets)
      /\ \A m \in Markets : before[m] \in Nat /\ end[m] \in Nat /\ c[m] \in Nat
  BY AllThrough
<1>3. Earned(u) + SumFunctionOnSet(before, Markets)
        = SumFunctionOnSet(c, Markets) + SumFunctionOnSet(end, Markets)
  BY <1>1, EarnedSum
<1>4. ASSUME NEW m \in T
      PROVE  /\ r[m] \in Nat
             /\ r[m] + before[m] >= c[m] + end[m]
             /\ Honest(u) => r[m] + before[m] = c[m] + end[m]
  <2>1. m \in Markets /\ ~Drifts(m) BY <1>1
  <2>2. "supply" \in Sides /\ "borrow" \in Sides BY DEF Sides
  <2>3. PICK p, q : p = <<m, "supply">> /\ q = <<m, "borrow">> OBVIOUS
  <2>4. p \in Pools /\ q \in Pools /\ p[1] = m /\ q[1] = m
    BY <2>1, <2>3, BothSides
  <2>5. /\ RewardOf(p, u) \in Nat /\ RewardOf(q, u) \in Nat
    BY <1>1, <2>2, <2>3
  <2>6. /\ RewardOf(p, u) + OwedOn(p, u, Before)
             >= CreditedOn(p, u) + OwedOn(p, u, End)
        /\ Honest(u) => RewardOf(p, u) + OwedOn(p, u, Before)
                          = CreditedOn(p, u) + OwedOn(p, u, End)
    BY <1>1, <2>1, <2>4, RewardIs
  <2>7. /\ RewardOf(q, u) + OwedOn(q, u, Before)
             >= CreditedOn(q, u) + OwedOn(q, u, End)
        /\ Honest(u) => RewardOf(q, u) + OwedOn(q, u, Before)
                          = CreditedOn(q, u) + OwedOn(q, u, End)
    BY <1>1, <2>1, <2>4, RewardIs
  <2>8. /\ Before \in 0 .. LastBlock /\ End \in 0 .. LastBlock BY <1>1, RangeIs
  <2>9. /\ OwedOn(p, u, Before) \in Nat /\ OwedOn(p, u, End) \in Nat
        /\ OwedOn(q, u, Before) \in Nat /\ OwedOn(q, u, End) \in Nat
        /\ CreditedOn(p, u) \in Nat /\ CreditedOn(q, u) \in Nat
    BY <1>1, <2>4, <2>8, OwedType, CreditedType
  <2>10. /\ r[m] = RewardOf(p, u) + RewardOf(q, u)
         /\ before[m] = OwedOn(p, u, Before) + OwedOn(q, u, Before)
         /\ end[m] = OwedOn(p, u, End) + OwedOn(q, u, End)
         /\ c[m] = CreditedOn(p, u) + CreditedOn(q, u)
    BY <2>1, <2>3 DEF RewardsIn, OwedIn, CreditsIn
  <2> HIDE DEF r, before, end, c
  <2>11. QED BY <2>5, <2>6, <2>7, <2>9, <2>10
<1> HIDE DEF r, before, end, c, T
<1>5. \A m \in T : /\ r[m] \in Nat /\ before[m] \in Nat /\ found[m] \in Nat
                   /\ found[m] = r[m] + before[m]
                   /\ c[m] \in Nat /\ end[m] \in Nat /\ due[m] \in Nat
                   /\ due[m] = c[m] + end[m]
                   /\ due[m] <= found[m]
                   /\ Honest(u) => found[m] = due[m]
  <2> TAKE m \in T
  <2>1. m \in Markets BY <1>1
  <2>2. found[m] = r[m] + before[m] /\ due[m] = c[m] + end[m] BY <2>1
  <2>3. QED BY <1>2, <1>4, <2>1, <2>2
<1> HIDE DEF found, due
<1>6. SumFunctionOnSet(found, T)
        = SumFunctionOnSet(r, T) + SumFunctionOnSet(before, T)
  BY <1>1, <1>5, SumPlus
<1>7. SumFunctionOnSet(due, T)
        = SumFunctionOnSet(c, T) + SumFunctionOnSet(end, T)
  BY <1>1, <1>5, SumPlus
<1>8. SumFunctionOnSet(due, T) <= SumFunctionOnSet(found, T)
  BY <1>1, <1>5, SumMono
<1>9. Honest(u) => SumFunctionOnSet(due, T) = SumFunctionOnSet(found, T)
  <2> SUFFICES ASSUME Honest(u)
               PROVE  SumFunctionOnSet(due, T) = SumFunctionOnSet(found, T)
    OBVIOUS
  <2>1. \A m \in T : due[m] \in Nat /\ found[m] = due[m] BY <1>5
  <2>2. SumFunctionOnSet(found, T) = SumFunctionOnSet(due, T)
    BY <1>1, <2>1, SumSame
  <2>3. QED BY <2>2
<1>10. /\ SumFunctionOnSet(before, T) \in Nat /\ SumFunctionOnSet(end, T) \in Nat
       /\ SumFunctionOnSet(c, T) \in Nat
  <2>1. \A m \in T : before[m] \in Nat /\ end[m] \in Nat /\ c[m] \in Nat BY <1>5
  <2>2. QED BY <1>1, <2>1, SumType
<1>11. QED BY <1>1, <1>2, <1>3, <1>6, <1>7, <1>8, <1>9, <1>10

(* Side by side: what a market is found to have earned, what rounding gave *)
(* in it if it drifts, and what it earned on the chain.                    *)
LEMMA MarketDrift ==
  ASSUME Calculated, NEW u \in Users, NEW m \in Through(u),
         NEW p, p = <<m, "borrow">>
  PROVE  /\ ~Drifts(m) =>
              CreditsIn(u)[m] + OwedIn(u, End)[m]
                <= RewardsIn(u)[m] + OwedIn(u, Before)[m]
         /\ Drifts(m) =>
              CreditsIn(u)[m] + OwedIn(u, End)[m] + OwedOn(p, u, Before)
                <= RewardsIn(u)[m] + OwedIn(u, Before)[m]
                     + CreditedOn(p, u) + OwedOn(p, u, End)
<1>1. /\ Settled /\ m \in Markets
      /\ Before \in 0 .. LastBlock /\ End \in 0 .. LastBlock
  BY WorkIs, RangeIs DEF Calculated
<1>2. PICK s : s = <<m, "supply">> OBVIOUS
<1>3. s \in Pools /\ p \in Pools /\ s[1] = m /\ p[1] = m /\ s[2] = "supply"
  BY <1>1, <1>2, BothSides
<1>4. /\ OwedOn(s, u, Before) \in Nat /\ OwedOn(s, u, End) \in Nat
      /\ OwedOn(p, u, Before) \in Nat /\ OwedOn(p, u, End) \in Nat
      /\ CreditedOn(s, u) \in Nat /\ CreditedOn(p, u) \in Nat
      /\ RewardOf(s, u) \in Int /\ RewardOf(p, u) \in Int
  BY <1>1, <1>3, OwedType, CreditedType, RewardIs
<1>5. RewardOf(s, u) + OwedOn(s, u, Before) >= CreditedOn(s, u) + OwedOn(s, u, End)
  BY <1>1, <1>3, RewardIs DEF QuietPool
<1>6. ~Drifts(m) => RewardOf(p, u) + OwedOn(p, u, Before)
                      >= CreditedOn(p, u) + OwedOn(p, u, End)
  BY <1>1, <1>3, RewardIs
<1>7. Drifts(m) => RewardOf(p, u) = 0
  BY <1>3 DEF Drifts, Unmoved, RewardOf
<1>8. /\ RewardsIn(u)[m] = RewardOf(s, u) + RewardOf(p, u)
      /\ OwedIn(u, Before)[m] = OwedOn(s, u, Before) + OwedOn(p, u, Before)
      /\ OwedIn(u, End)[m] = OwedOn(s, u, End) + OwedOn(p, u, End)
      /\ CreditsIn(u)[m] = CreditedOn(s, u) + CreditedOn(p, u)
  BY <1>1, <1>2 DEF RewardsIn, OwedIn, CreditsIn
<1>9. QED BY <1>4, <1>5, <1>6, <1>7, <1>8

(* Over all markets, a user earned on the chain what is found, and what    *)
(* rounding gave in markets that drift, at most.                           *)
LEMMA GainsDrift ==
  ASSUME Calculated, ~Partial, ~lost, NEW u \in Users, totals[u] # None
  PROVE  DriftOf(u) \in Int /\ Earned(u) <= totals[u].earned + DriftOf(u)
<1> DEFINE q(m) == <<m, "borrow">>
           r == RewardsIn(u)
           before == OwedIn(u, Before)
           end == OwedIn(u, End)
           c == CreditsIn(u)
           T == Through(u)
           gained(m) == CreditedOn(q(m), u) + OwedOn(q(m), u, End)
           from(m) == OwedOn(q(m), u, Before)
           gain == [m \in Markets |-> IF m \in Drifting THEN gained(m) ELSE 0]
           base == [m \in Markets |-> IF m \in Drifting THEN from(m) ELSE 0]
           due == [m \in Markets |-> c[m] + end[m]]
           found == [m \in Markets |-> r[m] + before[m]]
           total == [m \in Markets |-> due[m] + base[m]]
           right == [m \in Markets |-> found[m] + gain[m]]
           g == [m \in Drifting |-> gained(m)]
           h == [m \in Drifting |-> from(m)]
<1>1. /\ Settled /\ IsFiniteSet(T) /\ T \subseteq Markets /\ IsFiniteSet(Markets)
      /\ totals[u].earned = SumFunctionOnSet(r, T)
      /\ \A m \in T, side \in Sides : RewardOf(<<m, side>>, u) \in Nat
      /\ totals[u].earned \in Nat /\ Earned(u) \in Int
      /\ Before \in 0 .. LastBlock /\ End \in 0 .. LastBlock
  BY WorkIs, AmountTypes, EarnedSum, RangeIs, FiniteUsers DEF Calculated, TotalsOK
<1>2. /\ SumFunctionOnSet(before, T) = SumFunctionOnSet(before, Markets)
      /\ SumFunctionOnSet(end, T) = SumFunctionOnSet(end, Markets)
      /\ SumFunctionOnSet(c, T) = SumFunctionOnSet(c, Markets)
      /\ \A m \in Markets : before[m] \in Nat /\ end[m] \in Nat /\ c[m] \in Nat
  BY AllThrough
<1>3. Earned(u) + SumFunctionOnSet(before, Markets)
        = SumFunctionOnSet(c, Markets) + SumFunctionOnSet(end, Markets)
  BY <1>1, EarnedSum
<1>4. \A m \in Markets : gained(m) \in Nat /\ from(m) \in Nat
  <2> TAKE m \in Markets
  <2>1. PICK p : p = q(m) OBVIOUS
  <2>2. p \in Pools BY <2>1, BothSides
  <2>3. CreditedOn(p, u) \in Nat /\ OwedOn(p, u, End) \in Nat
        /\ OwedOn(p, u, Before) \in Nat
    BY <1>1, <2>2, OwedType, CreditedType
  <2>4. QED BY <2>1, <2>3
<1>5. \A m \in Markets \ T : gained(m) = 0 /\ from(m) = 0
  <2> TAKE m \in Markets \ T
  <2>1. Selects(range, m) BY DEF Selects, Partial
  <2>2. "borrow" \in Sides BY DEF Sides
  <2>3. CreditedOn(q(m), u) = 0 /\ OwedOn(q(m), u, End) = 0
        /\ OwedOn(q(m), u, Before) = 0
    BY <2>1, <2>2, NothingElse
  <2>4. QED BY <2>3
<1>6. \A m \in T : r[m] \in Nat
  <2> TAKE m \in T
  <2>1. m \in Markets /\ "supply" \in Sides /\ "borrow" \in Sides
    BY <1>1 DEF Sides
  <2>2. r[m] = RewardOf(<<m, "supply">>, u) + RewardOf(<<m, "borrow">>, u)
    BY <2>1 DEF RewardsIn
  <2>3. RewardOf(<<m, "supply">>, u) \in Nat /\ RewardOf(<<m, "borrow">>, u) \in Nat
    BY <1>1, <2>1
  <2>4. QED BY <2>2, <2>3
<1>7. \A m \in T : /\ ~Drifts(m) => c[m] + end[m] <= r[m] + before[m]
                   /\ Drifts(m) => c[m] + end[m] + from(m)
                                     <= r[m] + before[m] + gained(m)
  <2> TAKE m \in T
  <2>1. PICK p : p = q(m) OBVIOUS
  <2>2. /\ ~Drifts(m) => c[m] + end[m] <= r[m] + before[m]
        /\ Drifts(m) => c[m] + end[m] + OwedOn(p, u, Before)
                          <= r[m] + before[m] + CreditedOn(p, u) + OwedOn(p, u, End)
    BY <2>1, MarketDrift
  <2>3. m \in Markets BY <1>1
  <2>4. /\ c[m] \in Nat /\ end[m] \in Nat /\ r[m] \in Nat /\ before[m] \in Nat
        /\ from(m) \in Nat
    BY <1>2, <1>4, <1>6, <2>3
  <2>5. p \in Pools BY <2>1, <2>3, BothSides
  <2>6. CreditedOn(p, u) \in Nat /\ OwedOn(p, u, End) \in Nat
    BY <1>1, <2>5, OwedType, CreditedType
  <2> HIDE DEF r, before, end, c
  <2>7. QED BY <2>1, <2>2, <2>4, <2>6
<1>8. Drifting \subseteq Markets /\ \A m : m \in Drifting <=> m \in Markets /\ Drifts(m)
  BY DEF Drifting
<1>9. DriftOf(u) = SumFunctionOnSet(g, Drifting) - SumFunctionOnSet(h, Drifting)
  BY DEF DriftOf, SumFunction
<1> HIDE DEF r, before, end, c, T, gained, from
<1>10. \A m \in Markets :
         /\ gain[m] \in Nat /\ base[m] \in Nat
         /\ m \notin T => gain[m] = 0 /\ base[m] = 0
         /\ m \notin Drifting => gain[m] = 0 /\ base[m] = 0
         /\ m \in Drifting => g[m] = gain[m] /\ h[m] = base[m]
  BY <1>4, <1>5
<1>11. \A m \in T :
         /\ due[m] \in Nat /\ found[m] \in Nat
         /\ due[m] = c[m] + end[m] /\ found[m] = r[m] + before[m]
         /\ c[m] \in Nat /\ end[m] \in Nat /\ r[m] \in Nat /\ before[m] \in Nat
         /\ gain[m] \in Nat /\ base[m] \in Nat
         /\ total[m] = due[m] + base[m] /\ right[m] = found[m] + gain[m]
         /\ total[m] \in Nat /\ right[m] \in Nat
         /\ total[m] <= right[m]
  <2> TAKE m \in T
  <2>1. m \in Markets BY <1>1
  <2>2. /\ due[m] = c[m] + end[m] /\ found[m] = r[m] + before[m]
        /\ c[m] \in Nat /\ end[m] \in Nat /\ r[m] \in Nat /\ before[m] \in Nat
        /\ total[m] = due[m] + base[m] /\ right[m] = found[m] + gain[m]
        /\ from(m) \in Nat /\ gained(m) \in Nat
    BY <1>2, <1>4, <1>6, <2>1
  <2>3. CASE m \in Drifting
    <3>1. gain[m] = gained(m) /\ base[m] = from(m) BY <2>1, <2>3
    <3>2. c[m] + end[m] + from(m) <= r[m] + before[m] + gained(m)
      BY <1>7, <1>8, <2>3
    <3>3. QED BY ONLY <2>2, <3>1, <3>2
  <2>4. CASE m \notin Drifting
    <3>1. gain[m] = 0 /\ base[m] = 0 BY <2>1, <2>4
    <3>2. c[m] + end[m] <= r[m] + before[m] BY <1>7, <1>8, <2>1, <2>4
    <3>3. QED BY ONLY <2>2, <3>1, <3>2
  <2>5. QED BY <2>3, <2>4
<1> HIDE DEF gain, base, due, found, total, right, g, h
<1>12. /\ SumFunctionOnSet(due, T) = SumFunctionOnSet(c, T) + SumFunctionOnSet(end, T)
       /\ SumFunctionOnSet(found, T) = SumFunctionOnSet(r, T) + SumFunctionOnSet(before, T)
       /\ SumFunctionOnSet(total, T) = SumFunctionOnSet(due, T) + SumFunctionOnSet(base, T)
       /\ SumFunctionOnSet(right, T) = SumFunctionOnSet(found, T) + SumFunctionOnSet(gain, T)
  <2>1. SumFunctionOnSet(due, T) = SumFunctionOnSet(c, T) + SumFunctionOnSet(end, T)
    BY <1>1, <1>11, SumPlus
  <2>2. SumFunctionOnSet(found, T) = SumFunctionOnSet(r, T) + SumFunctionOnSet(before, T)
    BY <1>1, <1>11, SumPlus
  <2>3. SumFunctionOnSet(total, T) = SumFunctionOnSet(due, T) + SumFunctionOnSet(base, T)
    BY <1>1, <1>11, SumPlus
  <2>4. SumFunctionOnSet(right, T) = SumFunctionOnSet(found, T) + SumFunctionOnSet(gain, T)
    BY <1>1, <1>11, SumPlus
  <2>5. QED BY <2>1, <2>2, <2>3, <2>4
<1>13. SumFunctionOnSet(total, T) <= SumFunctionOnSet(right, T)
  BY <1>1, <1>11, SumMono
<1>14. SumFunctionOnSet(gain, T) = SumFunctionOnSet(g, Drifting)
  <2>1. SumFunctionOnSet(gain, Markets) = SumFunctionOnSet(gain, T)
    BY <1>1, <1>10, SumWithin
  <2>2. SumFunctionOnSet(gain, Markets) = SumFunctionOnSet(gain, Drifting)
    BY <1>1, <1>8, <1>10, SumWithin
  <2>3. IsFiniteSet(Drifting) BY <1>1, <1>8, FS_Subset
  <2>4. SumFunctionOnSet(g, Drifting) = SumFunctionOnSet(gain, Drifting)
    BY <1>8, <1>10, <2>3, SumSame
  <2>5. QED BY <2>1, <2>2, <2>4
<1>15. SumFunctionOnSet(base, T) = SumFunctionOnSet(h, Drifting)
  <2>1. SumFunctionOnSet(base, Markets) = SumFunctionOnSet(base, T)
    BY <1>1, <1>10, SumWithin
  <2>2. SumFunctionOnSet(base, Markets) = SumFunctionOnSet(base, Drifting)
    BY <1>1, <1>8, <1>10, SumWithin
  <2>3. IsFiniteSet(Drifting) BY <1>1, <1>8, FS_Subset
  <2>4. SumFunctionOnSet(h, Drifting) = SumFunctionOnSet(base, Drifting)
    BY <1>8, <1>10, <2>3, SumSame
  <2>5. QED BY <2>1, <2>2, <2>4
<1>16. /\ SumFunctionOnSet(gain, T) \in Nat /\ SumFunctionOnSet(base, T) \in Nat
       /\ SumFunctionOnSet(before, T) \in Nat /\ SumFunctionOnSet(end, T) \in Nat
       /\ SumFunctionOnSet(c, T) \in Nat /\ SumFunctionOnSet(r, T) \in Nat
  BY <1>1, <1>11, SumType
<1>17. QED
  <2>1. PICK G, B, A, E, C, R, e, d :
          /\ G = SumFunctionOnSet(gain, T) /\ B = SumFunctionOnSet(base, T)
          /\ A = SumFunctionOnSet(before, T) /\ E = SumFunctionOnSet(end, T)
          /\ C = SumFunctionOnSet(c, T) /\ R = SumFunctionOnSet(r, T)
          /\ e = Earned(u) /\ d = DriftOf(u)
    OBVIOUS
  <2>2. /\ G \in Nat /\ B \in Nat /\ A \in Nat /\ E \in Nat /\ C \in Nat
        /\ R \in Nat /\ e \in Int
    BY <1>1, <1>16, <2>1
  <2>3. d = G - B BY <1>9, <1>14, <1>15, <2>1
  <2>4. e + A = C + E BY <1>2, <1>3, <2>1
  <2>5. C + E + B <= R + A + G BY <1>12, <1>13, <2>1
  <2>6. d \in Int /\ e <= R + d BY ONLY <2>2, <2>3, <2>4, <2>5
  <2>7. QED BY <1>1, <2>1, <2>6

(* A negative claim is more than was paid, given by rounding alone.        *)
LEMMA ClaimDrift ==
  ASSUME Calculated, ~Partial, ~lost, NEW u \in Users, totals[u] # None,
         ClaimedRaw(u) < 0
  PROVE  Paid(u) < DriftOf(u)
<1>1. DriftOf(u) \in Int /\ Earned(u) <= totals[u].earned + DriftOf(u)
  BY GainsDrift
<1>2. TransferEarned(u) = Earned(u) BY Accounting
<1>3. /\ totals[u].earned \in Nat
      /\ Paid(u) \in Nat /\ Remaining(u) \in Nat /\ DebtBefore(u) \in Nat
      /\ TransferEarned(u) = Paid(u) + Remaining(u) - DebtBefore(u)
      /\ ClaimedRaw(u) = DebtBefore(u) + Reconciled(u) - Remaining(u)
  BY AmountTypes
<1>4. Reconciled(u) = IF TransferEarned(u) < 0
                           \/ TransferEarned(u) >= totals[u].earned
                      THEN totals[u].earned ELSE TransferEarned(u)
  BY DEF Reconciled
<1>5. PICK d, t, e, p, r, b, c, k :
        /\ d = DriftOf(u) /\ t = TransferEarned(u) /\ e = totals[u].earned
        /\ p = Paid(u) /\ r = Remaining(u) /\ b = DebtBefore(u)
        /\ c = ClaimedRaw(u) /\ k = Reconciled(u)
  OBVIOUS
<1>6. /\ d \in Int /\ e \in Nat /\ p \in Nat /\ r \in Nat /\ b \in Nat
      /\ t <= e + d /\ t = p + r - b /\ c = b + k - r /\ c < 0
      /\ k = IF t < 0 \/ t >= e THEN e ELSE t
  BY <1>1, <1>2, <1>3, <1>4, <1>5
<1>7. p < d BY ONLY <1>6
<1>8. QED BY <1>5, <1>7

-----------------------------------------------------------------------------
(* The rows of the result.                                                 *)

RowSum(row) == row["supply"] + row["borrow"]

LEMMA ReducedIs ==
  ASSUME \A a \in Accounts : rows[a] \in [Sides -> Nat],
         NEW m \in Markets, NEW u \in Users, NEW amount \in Nat,
         NEW w, w = RowTotals(u), NEW row, row = Reduced(<<m, u>>, amount)
  PROVE  /\ row \in [Sides -> Nat] /\ w[m] \in Nat
         /\ RowSum(row) \in Nat
         /\ RowSum(row) + Take(w, amount, m) = w[m]
         /\ amount = 0 => \A side \in Sides : row[side] = rows[<<m, u>>][side]
<1> DEFINE a == <<m, u>>
<1>1. a \in Accounts /\ a[1] = m /\ a[2] = u BY AccountIs
<1>2. "supply" \in Sides /\ "borrow" \in Sides BY DEF Sides
<1>3. \A k \in Markets : w[k] \in Nat /\ w[k] = RowTotal(<<k, u>>)
  <2> TAKE k \in Markets
  <2>1. <<k, u>> \in Accounts BY DEF Accounts
  <2>2. PICK x, y : x = rows[<<k, u>>]["supply"] /\ y = rows[<<k, u>>]["borrow"]
    OBVIOUS
  <2>3. x \in Nat /\ y \in Nat BY <1>2, <2>1, <2>2
  <2>4. RowTotal(<<k, u>>) = x + y BY <2>2 DEF RowTotal
  <2>5. w[k] = RowTotal(<<k, u>>) BY DEF RowTotals
  <2>6. QED BY <2>3, <2>4, <2>5
<1>4. DrainedBefore(m, u) = Ahead(w, m)
  <2>1. \A k \in Markets : w[k] = RowTotal(<<k, u>>) BY <1>3
  <2>2. QED BY <2>1 DEF DrainedBefore, Ahead
<1>5. SumFunction([k \in DrainedBefore(m, u) |-> RowTotal(<<k, u>>)])
        = SumFunctionOnSet(w, Ahead(w, m))
  <2> DEFINE g == [k \in Ahead(w, m) |-> RowTotal(<<k, u>>)]
  <2>1. IsFiniteSet(Ahead(w, m)) /\ Ahead(w, m) \subseteq Markets
    BY <1>3, TakeIs
  <2>2. \A k \in Ahead(w, m) : w[k] \in Nat /\ g[k] = w[k] BY <1>3, <2>1
  <2>3. DOMAIN g = Ahead(w, m) OBVIOUS
  <2>4. [k \in DrainedBefore(m, u) |-> RowTotal(<<k, u>>)] = g BY <1>4
  <2> HIDE DEF g
  <2>5. SumFunctionOnSet(g, Ahead(w, m)) = SumFunctionOnSet(w, Ahead(w, m))
    BY <2>1, <2>2, SumSame
  <2>6. QED BY <2>3, <2>4, <2>5 DEF SumFunction
<1>6. PICK take : take = Take(w, amount, m) OBVIOUS
<1>7. PICK s, b, fromBorrow :
        /\ s = rows[a]["supply"] /\ b = rows[a]["borrow"]
        /\ fromBorrow = Min({b, take})
  OBVIOUS
<1>8. s \in Nat /\ b \in Nat /\ w[m] = s + b
  <2>1. s \in Nat /\ b \in Nat BY <1>1, <1>2, <1>7
  <2>2. w[m] = RowTotal(a) BY <1>3
  <2>3. QED BY <1>7, <2>1, <2>2 DEF RowTotal
<1>9. take \in Nat /\ take <= w[m] BY <1>3, <1>6, TakeIs
<1>10. fromBorrow = (IF b <= take THEN b ELSE take) /\ fromBorrow \in Nat
  BY <1>7, <1>8, <1>9, MinPair
<1>11. take = Min({RowTotal(a), Max({0, amount
                - SumFunction([k \in DrainedBefore(m, u) |-> RowTotal(<<k, u>>)])})})
  BY <1>3, <1>5, <1>6 DEF Take
<1>12. row = [side \in Sides |-> IF side = "borrow" THEN rows[a][side] - fromBorrow
                                 ELSE rows[a][side] - (take - fromBorrow)]
  BY <1>1, <1>7, <1>11 DEF Reduced
<1>13. row["supply"] = s - (take - fromBorrow) /\ row["borrow"] = b - fromBorrow
  BY <1>2, <1>7, <1>12
<1>14. PICK x, y : x = row["supply"] /\ y = row["borrow"] OBVIOUS
<1>15. /\ x \in Nat /\ y \in Nat /\ x + y + take = w[m]
       /\ take = 0 => x = s /\ y = b
  BY <1>8, <1>9, <1>10, <1>13, <1>14
<1>16. row \in [Sides -> Nat]
  <2>1. \A side \in Sides : row[side] \in Nat BY <1>14, <1>15 DEF Sides
  <2>2. row = [side \in Sides |-> row[side]] BY <1>12
  <2>3. QED BY <2>1, <2>2
<1>17. RowSum(row) = x + y BY <1>14 DEF RowSum
<1>18. amount = 0 => take = 0
  <2> SUFFICES ASSUME amount = 0 PROVE take = 0 OBVIOUS
  <2>1. SumFunctionOnSet(w, Ahead(w, m)) \in Nat /\ w[m] \in Nat
    BY <1>3, TakeIs
  <2>2. Max({0, 0 - SumFunctionOnSet(w, Ahead(w, m))}) = 0 BY <2>1, MaxZero
  <2>3. take = Min({w[m], 0}) BY <1>6, <2>2 DEF Take
  <2>4. QED BY <2>1, <2>3, MinPair
<1>19. amount = 0 => \A side \in Sides : row[side] = rows[a][side]
  BY <1>7, <1>14, <1>15, <1>18 DEF Sides
<1>20. QED BY <1>3, <1>6, <1>15, <1>16, <1>17, <1>19

(* The amount is taken from the rows, no more and no less.                 *)
LEMMA DrainedIs ==
  ASSUME \A a \in Accounts : rows[a] \in [Sides -> Nat],
         NEW u \in Users, NEW amount \in Nat, NEW earned \in Nat,
         amount <= earned, earned = SumFunctionOnSet(RowTotals(u), Markets),
         NEW v, \A m \in Markets : v[m] = RowSum(Reduced(<<m, u>>, amount))
  PROVE  SumFunctionOnSet(v, Markets) = earned - amount
<1> DEFINE w == RowTotals(u)
           take == [m \in Markets |-> Take(w, amount, m)]
<1>1. \A m \in Markets : /\ w[m] \in Nat /\ v[m] \in Nat
                         /\ v[m] + take[m] = w[m]
  <2> TAKE m \in Markets
  <2>1. PICK row, all : row = Reduced(<<m, u>>, amount) /\ all = RowTotals(u)
    OBVIOUS
  <2>2. /\ all[m] \in Nat /\ RowSum(row) \in Nat
        /\ RowSum(row) + Take(all, amount, m) = all[m]
    BY <2>1, ReducedIs
  <2>3. v[m] = RowSum(row) /\ w = all /\ take[m] = Take(all, amount, m) BY <2>1
  <2> HIDE DEF w, take
  <2>4. QED BY <2>2, <2>3
<1>2. \A m \in Markets : take[m] = Take(w, amount, m) OBVIOUS
<1> HIDE DEF take, w
<1>3. SumFunctionOnSet(take, Markets)
        = Least2(amount, SumFunctionOnSet(w, Markets))
  BY <1>1, <1>2, TakenIs
<1>4. SumFunctionOnSet(take, Markets) = amount BY <1>3 DEF Least2, w
<1>5. \A m \in Markets : take[m] \in Nat BY <1>1, <1>2, TakeIs
<1>6. SumFunctionOnSet(w, Markets)
        = SumFunctionOnSet(v, Markets) + SumFunctionOnSet(take, Markets)
  <2>1. \A m \in Markets : v[m] \in Nat /\ take[m] \in Nat /\ w[m] = v[m] + take[m]
    BY <1>1, <1>5
  <2>2. QED BY <2>1, FiniteUsers, SumPlus
<1>7. SumFunctionOnSet(v, Markets) \in Nat BY <1>1, FiniteUsers, SumType
<1>8. QED BY <1>4, <1>6, <1>7 DEF w

(* The rows of a user are those of the markets found.                      *)
LEMMA RowsAddUp ==
  ASSUME CalcInv, phase = "markets", NEW u \in Users
  PROVE  /\ \A m \in Markets : RowTotals(u)[m] \in Nat
         /\ totals[u] # None =>
              totals[u].earned = SumFunctionOnSet(RowTotals(u), Markets)
<1>1. /\ \A m \in Markets \ Through(u) : rows[<<m, u>>] = NoRow
      /\ totals[u] # None =>
           totals[u].earned = SumFunctionOnSet(RowTotals(u), Through(u))
      /\ Through(u) \subseteq Markets
  BY WorkIs DEF CalcInv, RowsInv
<1>2. "supply" \in Sides /\ "borrow" \in Sides BY DEF Sides
<1>3. ASSUME NEW m \in Markets
      PROVE  /\ RowTotals(u)[m] \in Nat
             /\ m \notin Through(u) => RowTotals(u)[m] = 0
  <2>1. PICK x, y : x = rows[<<m, u>>]["supply"] /\ y = rows[<<m, u>>]["borrow"]
    OBVIOUS
  <2>2. x \in Nat /\ y \in Nat
    <3>1. <<m, u>> \in Accounts BY DEF Accounts
    <3>2. rows[<<m, u>>] \in [Sides -> Nat] BY <3>1 DEF CalcInv, TypeOK
    <3>3. QED BY <1>2, <2>1, <3>2
  <2>3. RowTotals(u)[m] = x + y BY <2>1 DEF RowTotals, RowTotal
  <2>4. m \notin Through(u) => x = 0 /\ y = 0 BY <1>1, <1>2, <2>1 DEF NoRow
  <2>5. QED BY <2>2, <2>3, <2>4
<1>4. SumFunctionOnSet(RowTotals(u), Markets)
        = SumFunctionOnSet(RowTotals(u), Through(u))
  <2>1. \A m \in Through(u) : RowTotals(u)[m] \in Nat BY <1>1, <1>3
  <2>2. \A m \in Markets \ Through(u) : RowTotals(u)[m] = 0 BY <1>3
  <2>3. QED BY <1>1, <2>1, <2>2, FiniteUsers, SumWithin
<1>5. QED BY <1>1, <1>3, <1>4

-----------------------------------------------------------------------------
(* The result is made.                                                     *)

(* Users with anything to report.                                          *)
Kept(u) ==
  \/ Reconciled(u) > 0 \/ Remaining(u) > 0
  \/ ~Partial /\ ClaimedRaw(u) > 0

ResultOf(u) ==
  [earned |-> Reconciled(u), claimed |-> ClaimedRaw(u),
   remaining |-> Remaining(u),
   forPeriod |-> FifoRemainingForPeriod(Reconciled(u), Remaining(u))]

Finishes ==
  /\ ~(~Partial /\ \E u \in Users : totals[u] # None /\ ClaimedRaw(u) < 0)
  /\ rows' = [a \in Accounts |->
       IF a[2] \in Users /\ totals[a[2]] # None
       THEN Reduced(a, totals[a[2]].earned - Reconciled(a[2])) ELSE rows[a]]
  /\ result' = [u \in Users |->
       IF totals[u] # None /\ Kept(u) THEN ResultOf(u) ELSE None]
  /\ phase' = "done"
  /\ UNCHANGED <<blocks, range, usersBy, left, totals, hasStart, why, lost>>

LEMMA FinishIs ==
  ASSUME Finish
  PROVE  /\ phase = "markets" /\ left = {}
         /\ \/ Finishes
            \/ /\ ~Partial /\ Refuse("negative claimed")
               /\ \E u \in Users : totals[u] # None /\ ClaimedRaw(u) < 0
<1>1. phase = "markets" /\ left = {} BY DEF Finish
<1>2. CASE ~Partial /\ \E u \in Users : totals[u] # None /\ ClaimedRaw(u) < 0
  <2>1. Refuse("negative claimed") BY <1>2 DEF Finish
  <2>2. QED BY <1>1, <1>2, <2>1
<1>3. CASE ~(~Partial /\ \E u \in Users : totals[u] # None /\ ClaimedRaw(u) < 0)
  <2>1. Finishes BY <1>3 DEF Finish, Finishes, Kept, ResultOf
  <2>2. QED BY <1>1, <2>1
<1>4. QED BY <1>2, <1>3

LEMMA ResultOfType ==
  ASSUME Calculated, NEW u \in Users, totals[u] # None,
         ~Partial => ~(ClaimedRaw(u) < 0)
  PROVE  ResultOf(u) \in ResultType
<1>1. PICK e, r, c : e = Reconciled(u) /\ r = Remaining(u) /\ c = ClaimedRaw(u)
  OBVIOUS
<1>2. e \in Nat /\ r \in Nat BY <1>1, AmountTypes
<1>3. c \in Nat \cup {None}
  <2>1. CASE Partial BY <1>1, <2>1, AmountTypes
  <2>2. CASE ~Partial
    <3>1. c \in Int /\ ~(c < 0) BY <1>1, <2>2, AmountTypes
    <3>2. c \in Nat BY ONLY <3>1
    <3>3. QED BY <3>2
  <2>3. QED BY <2>1, <2>2
<1>4. FifoRemainingForPeriod(e, r) \in Nat
  BY <1>2 DEF FifoRemainingForPeriod
<1>5. ResultOf(u) = [earned |-> e, claimed |-> c, remaining |-> r,
                     forPeriod |-> FifoRemainingForPeriod(e, r)]
  BY <1>1 DEF ResultOf
<1>6. QED BY <1>2, <1>3, <1>4, <1>5 DEF ResultType

LEMMA FinishStep ==
  ASSUME CalcInv, Finish
  PROVE  CalcInv'
<1>1. /\ phase = "markets" /\ left = {} /\ Next
      /\ \/ Finishes
         \/ /\ ~Partial /\ Refuse("negative claimed")
            /\ \E u \in Users : totals[u] # None /\ ClaimedRaw(u) < 0
  BY FinishIs DEF Next
<1>2. Calculated BY <1>1 DEF Calculated
<1>3. CASE /\ ~Partial /\ Refuse("negative claimed")
           /\ \E u \in Users : totals[u] # None /\ ClaimedRaw(u) < 0
  <2>1. PICK u \in Users : totals[u] # None /\ ClaimedRaw(u) < 0 BY <1>3
  <2>2. ~lost => MayRefuse("negative claimed")
    <3>1. ~lost => Paid(u) < DriftOf(u) BY <1>2, <1>3, <2>1, ClaimDrift
    <3>2. QED BY <1>3, <3>1 DEF MayRefuse
  <2>3. "negative claimed" # None BY RewardsAssumption
  <2>4. QED BY <1>1, <1>3, <2>2, <2>3, RefuseStep
<1>4. CASE Finishes
  <2>1. /\ phase' = "done" /\ blocks' = blocks /\ range' = range
        /\ usersBy' = usersBy /\ left' = left /\ totals' = totals
        /\ hasStart' = hasStart /\ why' = why /\ lost' = lost
    BY <1>4 DEF Finishes
  <2>2. \A u \in Users : totals[u] # None /\ ~Partial => ~(ClaimedRaw(u) < 0)
    BY <1>4 DEF Finishes
  <2>3. /\ \A u \in Users :
             result'[u] = IF totals[u] # None /\ Kept(u) THEN ResultOf(u) ELSE None
        /\ \A m \in Markets, u \in Users :
             rows'[<<m, u>>] =
               IF totals[u] # None
               THEN Reduced(<<m, u>>, totals[u].earned - Reconciled(u))
               ELSE rows[<<m, u>>]
    BY <1>4, AccountIs DEF Finishes
  <2>4. ChainInv' BY <1>1, ChainStep DEF CalcInv
  <2>5. TypeOK /\ RowsInv BY DEF CalcInv
  <2>6. \A u : /\ Reconciled(u)' = Reconciled(u) /\ Remaining(u)' = Remaining(u)
               /\ ClaimedRaw(u)' = ClaimedRaw(u)
    BY <2>1, SameTotals
  <2>7. \A u \in Users : totals[u] # None =>
          /\ totals[u].earned \in Nat /\ Remaining(u) \in Nat
          /\ Reconciled(u) \in Nat /\ Reconciled(u) <= totals[u].earned
          /\ totals[u].earned - Reconciled(u) \in Nat
          /\ ~Partial => ClaimedRaw(u) \in Int
          /\ Partial => ClaimedRaw(u) = None
    <3> TAKE u \in Users
    <3> SUFFICES ASSUME totals[u] # None
                 PROVE  /\ totals[u].earned \in Nat /\ Remaining(u) \in Nat
                        /\ Reconciled(u) \in Nat
                        /\ Reconciled(u) <= totals[u].earned
                        /\ totals[u].earned - Reconciled(u) \in Nat
                        /\ ~Partial => ClaimedRaw(u) \in Int
                        /\ Partial => ClaimedRaw(u) = None
      OBVIOUS
    <3>1. /\ totals[u].earned \in Nat /\ Remaining(u) \in Nat
          /\ Reconciled(u) \in Nat /\ Reconciled(u) <= totals[u].earned
          /\ ~Partial => ClaimedRaw(u) \in Int
          /\ Partial => ClaimedRaw(u) = None
      BY <1>2, AmountTypes
    <3>2. PICK x, y : x = totals[u].earned /\ y = Reconciled(u) OBVIOUS
    <3>3. x \in Nat /\ y \in Nat /\ y <= x BY <3>1, <3>2
    <3>4. x - y \in Nat BY ONLY <3>3
    <3>5. QED BY <3>1, <3>2, <3>4
  <2>8. \A a \in Accounts : rows[a] \in [Sides -> Nat] BY <2>5 DEF TypeOK
  <2>9. \A m \in Markets, u \in Users : rows'[<<m, u>>] \in [Sides -> Nat]
    <3> TAKE m \in Markets, u \in Users
    <3>1. CASE totals[u] = None
      <4>1. <<m, u>> \in Accounts BY DEF Accounts
      <4>2. QED BY <2>3, <2>8, <3>1, <4>1
    <3>2. CASE totals[u] # None
      <4>1. PICK amount, w, row :
              /\ amount = totals[u].earned - Reconciled(u) /\ w = RowTotals(u)
              /\ row = Reduced(<<m, u>>, amount)
        OBVIOUS
      <4>2. amount \in Nat BY <2>7, <3>2, <4>1
      <4>3. row \in [Sides -> Nat] BY <2>8, <4>1, <4>2, ReducedIs
      <4>4. QED BY <2>3, <3>2, <4>1, <4>3
    <3>3. QED BY <3>1, <3>2
  <2>10. \A u \in Users : result'[u] # None => result'[u] \in ResultType
    <3> SUFFICES ASSUME NEW u \in Users, result'[u] # None
                 PROVE  result'[u] \in ResultType
      OBVIOUS
    <3>1. totals[u] # None /\ result'[u] = ResultOf(u) BY <2>3
    <3>2. ResultOf(u) \in ResultType
      BY <1>2, <2>2, <3>1, ResultOfType
    <3>3. QED BY <3>1, <3>2
  <2>11. /\ Settled /\ LatestBlock = LastBlock
         /\ range \in Ranges
    BY <1>1, WorkIs DEF Settled
  <2>12. TypeOK'
    <3>1. (DOMAIN blocks = 0 .. LatestBlock)' BY <2>4 DEF ChainInv, ChainOK
    <3>2. (range \in Ranges)' BY <2>1, <2>11 DEF Ranges
    <3>3. \A a \in Accounts : rows'[a] \in [Sides -> Nat]
      BY <2>9 DEF Accounts
    <3>4. ResultType' = ResultType /\ TotalsType' = TotalsType
      BY DEF ResultType, TotalsType
    <3>5. /\ phase' \in {"chain", "markets", "done", "refused"}
          /\ why' = None /\ phase' # "refused"
      BY <1>1, <2>1, <2>5 DEF TypeOK
    <3>6. QED BY <2>1, <2>5, <2>10, <3>1, <3>2, <3>3, <3>4, <3>5 DEF TypeOK
  <2>13. /\ Before' = Before /\ End' = End
         /\ HasBoundary(Before)' = HasBoundary(Before) /\ Partial' = Partial
         /\ \A k : ReadsStart(k)' = ReadsStart(k)
         /\ \A c \in End .. LastBlock :
               UsersByMarket(range, c)' = UsersByMarket(range, c)
         /\ \A p, u : RewardOf(p, u)' = RewardOf(p, u)
    BY <2>1, SameRange DEF HasBoundary, UsersByMarket, IndexedAt, Distributed
  <2>14. \A u : Through(u)' = Through(u) BY <2>1, <2>13 DEF Through
  <2>15. WorkInv'
    <3>1. LatestBlock' = LastBlock /\ (range \in Ranges)'
      BY <2>1, <2>11 DEF LatestBlock, Ranges
    <3>2. (\E c \in End .. LastBlock : usersBy = UsersByMarket(range, c))'
      <4>1. PICK c \in End .. LastBlock : usersBy = UsersByMarket(range, c)
        BY <1>1, WorkIs
      <4>2. QED BY <2>1, <2>13, <4>1
    <3>3. \A u \in Users : (totals[u] = None <=> Through(u) = {})'
      BY <1>1, <2>1, <2>14, WorkIs
    <3>4. ASSUME NEW u \in Users, totals'[u] # None PROVE TotalsOK(u)'
      <4>1. TotalsOK(u) BY <1>1, <2>1, <3>4, WorkIs
      <4>2. QED BY <2>1, <2>14, <4>1, SameTotalsOK
    <3>5. (~lost => \A u \in Users : \A k \in Through(u) :
            ReadsStart(k) /\ HasBoundary(Before) => hasStart)'
      <4>1. ~lost => \A u \in Users : \A k \in Through(u) :
              ReadsStart(k) /\ HasBoundary(Before) => hasStart
        BY <1>1 DEF CalcInv, WorkInv
      <4>2. QED BY <2>1, <2>13, <2>14, <4>1
    <3>6. QED BY <3>1, <3>2, <3>3, <3>4, <3>5 DEF WorkInv
  <2>16. ASSUME NEW u \in Users, totals[u] = None
         PROVE  result'[u] = None /\ \A m \in Markets : rows'[<<m, u>>] = NoRow
    <3>1. Through(u) = {} BY <1>1, <2>16, WorkIs
    <3>2. \A m \in Markets : rows[<<m, u>>] = NoRow
      BY <1>1, <2>5, <3>1 DEF RowsInv
    <3>3. QED BY <2>3, <2>16, <3>2
  <2>17. ASSUME NEW u \in Users, totals[u] # None
         PROVE  SumFunctionOnSet(RowTotals(u)', Markets) = Reconciled(u)
    <3>1. PICK amount, earned, v :
            /\ earned = totals[u].earned /\ amount = earned - Reconciled(u)
            /\ v = RowTotals(u)'
      OBVIOUS
    <3>2. /\ earned \in Nat /\ amount \in Nat /\ Reconciled(u) \in Nat
          /\ earned - amount = Reconciled(u) /\ amount <= earned
      <4>1. /\ earned \in Nat /\ Reconciled(u) \in Nat /\ Reconciled(u) <= earned
        BY <2>7, <2>17, <3>1
      <4>2. PICK x : x = Reconciled(u) OBVIOUS
      <4>3. QED BY <3>1, <4>1, <4>2
    <3>3. \A m \in Markets : v[m] = RowSum(Reduced(<<m, u>>, amount))
      BY <2>3, <2>17, <3>1 DEF RowTotals, RowTotal, RowSum
    <3>4. earned = SumFunctionOnSet(RowTotals(u), Markets)
      BY <1>1, <2>17, <3>1, RowsAddUp
    <3>5. SumFunctionOnSet(v, Markets) = earned - amount
      BY <2>8, <3>2, <3>3, <3>4, DrainedIs
    <3>6. QED BY <3>1, <3>2, <3>5
  <2>18. ASSUME NEW u \in Users, totals[u] # None, ~lost,
                Reconciled(u) = totals[u].earned,
                NEW m \in Markets, NEW side \in Sides
         PROVE  rows'[<<m, u>>][side] = IF m \in Through(u)
                                        THEN RewardOf(<<m, side>>, u) ELSE 0
    <3>1. PICK amount, w, row :
            /\ amount = totals[u].earned - Reconciled(u) /\ w = RowTotals(u)
            /\ row = Reduced(<<m, u>>, amount)
      OBVIOUS
    <3>2. amount = 0 /\ amount \in Nat
      <4>1. totals[u].earned \in Nat BY <2>7, <2>18
      <4>2. QED BY <2>18, <3>1, <4>1
    <3>3. row[side] = rows[<<m, u>>][side] BY <2>8, <3>1, <3>2, ReducedIs
    <3>4. rows'[<<m, u>>] = row BY <2>3, <2>18, <3>1
    <3>5. CASE m \in Through(u)
      <4>1. rows[<<m, u>>][side] = RewardOf(<<m, side>>, u)
        BY <1>1, <2>5, <2>18, <3>5 DEF RowsInv
      <4>2. QED BY <3>3, <3>4, <3>5, <4>1
    <3>6. CASE m \notin Through(u)
      <4>1. rows[<<m, u>>] = NoRow BY <1>1, <2>5, <3>6 DEF RowsInv
      <4>2. NoRow[side] = 0 BY DEF NoRow
      <4>3. QED BY <3>3, <3>4, <3>6, <4>1, <4>2
    <3>7. QED BY <3>5, <3>6
  <2>19. DoneInv'
    <3>1. ASSUME NEW u \in Users, totals[u] # None, ~Partial
          PROVE  ClaimedRaw(u) >= 0
      <4>1. PICK c : c = ClaimedRaw(u) OBVIOUS
      <4>2. c \in Int /\ ~(c < 0) BY <2>2, <2>7, <3>1, <4>1
      <4>3. c >= 0 BY ONLY <4>2
      <4>4. QED BY <4>1, <4>3
    <3>2. \A u \in Users : totals[u] # None =>
            result'[u] = IF Kept(u) THEN ResultOf(u) ELSE None
      BY <2>3
    <3>3. \A u : Kept(u)' = Kept(u) /\ ResultOf(u)' = ResultOf(u)
      BY <2>6, <2>13 DEF Kept, ResultOf
    <3>4. NoRow' = NoRow /\ Sides' = Sides BY DEF NoRow, Sides
    <3>5. ASSUME NEW u \in Users
          PROVE  (IF totals[u] = None
                  THEN result[u] = None /\ \A m \in Markets : rows[<<m, u>>] = NoRow
                  ELSE /\ SumFunctionOnSet(RowTotals(u), Markets) = Reconciled(u)
                       /\ ~Partial => ClaimedRaw(u) >= 0
                       /\ result[u] = IF Kept(u) THEN ResultOf(u) ELSE None
                       /\ ~lost /\ Reconciled(u) = totals[u].earned =>
                            \A m \in Markets, side \in Sides :
                              rows[<<m, u>>][side] = IF m \in Through(u)
                                                     THEN RewardOf(<<m, side>>, u)
                                                     ELSE 0)'
      <4>1. CASE totals[u] = None BY <2>1, <2>16, <3>4, <4>1
      <4>2. CASE totals[u] # None
        <5>1. (SumFunctionOnSet(RowTotals(u), Markets) = Reconciled(u))'
          BY <2>6, <2>17, <4>2
        <5>2. (~Partial => ClaimedRaw(u) >= 0)' BY <2>6, <2>13, <3>1, <4>2
        <5>3. (result[u] = IF Kept(u) THEN ResultOf(u) ELSE None)'
          BY <3>2, <3>3, <4>2
        <5>4. (~lost /\ Reconciled(u) = totals[u].earned =>
                 \A m \in Markets, side \in Sides :
                   rows[<<m, u>>][side] = IF m \in Through(u)
                                          THEN RewardOf(<<m, side>>, u) ELSE 0)'
          BY <2>1, <2>6, <2>13, <2>14, <2>18, <3>4, <4>2
        <5>5. totals'[u] # None BY <2>1, <4>2
        <5>6. QED BY <5>1, <5>2, <5>3, <5>4, <5>5
      <4>3. QED BY <4>1, <4>2
    <3>6. left' = {} BY <1>1, <2>1
    <3>7. QED BY <3>5, <3>6 DEF DoneInv, Kept, ResultOf
  <2>20. FreshInv' /\ RowsInv' /\ RealChainAccepted'
    BY <2>1 DEF FreshInv, RowsInv, RealChainAccepted
  <2>21. QED BY <2>4, <2>12, <2>15, <2>19, <2>20 DEF CalcInv
<1>5. QED BY <1>1, <1>3, <1>4

LEMMA StutterStep ==
  ASSUME CalcInv, UNCHANGED vars
  PROVE  CalcInv'
<1>1. /\ blocks' = blocks /\ phase' = phase /\ range' = range
      /\ usersBy' = usersBy /\ left' = left /\ rows' = rows /\ totals' = totals
      /\ hasStart' = hasStart /\ result' = result /\ why' = why /\ lost' = lost
  BY DEF vars, calcVars
<1>2. ChainInv' BY ChainStep DEF CalcInv
<1>3. TypeOK /\ FreshInv /\ RowsInv /\ DoneInv /\ RealChainAccepted BY DEF CalcInv
<1>4. TypeOK'
  <2>1. LatestBlock' = LatestBlock BY <1>1 DEF LatestBlock
  <2>2. (range \in Ranges)' <=> range \in Ranges BY <1>1 DEF Ranges
  <2>3. ResultType' = ResultType /\ TotalsType' = TotalsType
    BY DEF ResultType, TotalsType
  <2>4. QED BY <1>1, <1>3, <2>1, <2>2, <2>3 DEF TypeOK
<1>5. /\ Before' = Before /\ End' = End
      /\ HasBoundary(Before)' = HasBoundary(Before) /\ Partial' = Partial
      /\ LatestBlock' = LatestBlock
      /\ \A k : ReadsStart(k)' = ReadsStart(k)
      /\ \A c \in End .. LastBlock :
            UsersByMarket(range, c)' = UsersByMarket(range, c)
      /\ \A p, u : RewardOf(p, u)' = RewardOf(p, u)
  BY <1>1, SameRange DEF HasBoundary, UsersByMarket, IndexedAt, Distributed
<1>6. \A u : Through(u)' = Through(u) BY <1>1, <1>5 DEF Through
<1>7. WorkInv'
  <2> SUFFICES ASSUME phase \in {"markets", "done"} PROVE WorkInv'
    BY <1>1 DEF WorkInv
  <2>1. (LatestBlock = LastBlock)' /\ (range \in Ranges)'
    BY <1>1, <1>5, WorkIs DEF Settled, Ranges
  <2>2. (\E c \in End .. LastBlock : usersBy = UsersByMarket(range, c))'
    <3>1. PICK c \in End .. LastBlock : usersBy = UsersByMarket(range, c)
      BY WorkIs
    <3>2. QED BY <1>1, <1>5, <3>1
  <2>3. \A u \in Users : (totals[u] = None <=> Through(u) = {})'
    BY <1>1, <1>6, WorkIs
  <2>4. ASSUME NEW u \in Users, totals'[u] # None PROVE TotalsOK(u)'
    <3>1. TotalsOK(u) BY <1>1, <2>4, WorkIs
    <3>2. QED BY <1>1, <1>6, <3>1, SameTotalsOK
  <2>5. (~lost => \A u \in Users : \A k \in Through(u) :
           ReadsStart(k) /\ HasBoundary(Before) => hasStart)'
    <3>1. ~lost => \A u \in Users : \A k \in Through(u) :
            ReadsStart(k) /\ HasBoundary(Before) => hasStart
      BY DEF CalcInv, WorkInv
    <3>2. QED BY <1>1, <1>5, <1>6, <3>1
  <2>6. QED BY <2>1, <2>2, <2>3, <2>4, <2>5 DEF WorkInv
<1>8. NoRow' = NoRow /\ Sides' = Sides BY DEF NoRow, Sides
<1>9. \A u : RowTotals(u)' = RowTotals(u) BY <1>1 DEF RowTotals, RowTotal
<1>10. FreshInv' BY <1>1, <1>3, <1>8 DEF FreshInv
<1>11. RowsInv' BY <1>1, <1>3, <1>5, <1>6, <1>8, <1>9 DEF RowsInv
<1>12. DoneInv'
  <2>1. \A u : /\ Reconciled(u)' = Reconciled(u) /\ Remaining(u)' = Remaining(u)
               /\ ClaimedRaw(u)' = ClaimedRaw(u)
    BY <1>1, SameTotals
  <2>2. QED BY <1>1, <1>3, <1>5, <1>6, <1>8, <1>9, <2>1 DEF DoneInv
<1>13. RealChainAccepted'
  <2> SUFFICES ASSUME phase' = "refused", ~lost' PROVE RealChainAccepted'
    BY DEF RealChainAccepted
  <2>1. MayRefuse(why) BY <1>1, <1>3, AcceptedIs
  <2>2. MayRefuse(why)' BY <1>1, <2>1, SameRefusal DEF MayRefuse
  <2>3. QED BY <2>2 DEF RealChainAccepted, MayRefuse
<1>14. QED BY <1>2, <1>4, <1>7, <1>10, <1>11, <1>12, <1>13 DEF CalcInv

LEMMA CalcStep ==
  ASSUME CalcInv, [Next]_vars
  PROVE  CalcInv'
<1>1. CASE ChainGrows BY <1>1, GrowStep
<1>2. CASE \E r \in Ranges, cursor \in 0 .. LastBlock, tokenFrom \in 0 .. RewardsFrom :
             Begin(r, cursor, tokenFrom)
  BY <1>2, BeginStep
<1>3. CASE \E m \in Markets, startLost \in BOOLEAN : CalculateMarket(m, startLost)
  BY <1>3, MarketStep
<1>4. CASE ReadFails BY <1>4, FailStep
<1>5. CASE Finish BY <1>5, FinishStep
<1>6. CASE UNCHANGED vars BY <1>6, StutterStep
<1>7. QED BY <1>1, <1>2, <1>3, <1>4, <1>5, <1>6 DEF Next

(* At every step, whatever the chain does and whatever calls fail: each    *)
(* market that is through agrees with the chain, and the totals are the    *)
(* sums of the rows (calculateNetwork of V2PeriodRewardsService).          *)
THEOREM CalculationInvariant == Spec => []CalcInv
<1>1. Init => CalcInv BY CalcStart
<1>2. CalcInv /\ [Next]_vars => CalcInv' BY CalcStep
<1>3. QED BY <1>1, <1>2, PTL DEF Spec

-----------------------------------------------------------------------------
(* What the invariant says of a result.                                    *)

(* A full calculation without drift finds what a user earned.              *)
LEMMA EarnedWhenDone ==
  ASSUME CalcInv
  PROVE  EarnedExact
<1> SUFFICES ASSUME Done, ~Partial, ~lost, ~(\E m \in Markets : Drifts(m)),
                    NEW u \in Users, Earned(u) >= 0
             PROVE  Earned(u) = IF result[u] = None THEN 0 ELSE result[u].earned
  BY DEF EarnedExact, ReportsEarned
<1>1. Calculated /\ DoneInv BY DEF Calculated, Done, CalcInv, DoneInv
<1>2. CASE totals[u] = None
  <2>1. result[u] = None BY <1>1, <1>2 DEF DoneInv, Done
  <2>2. QED BY <1>1, <1>2, <2>1, Unfound
<1>3. CASE totals[u] # None
  <2>1. TransferEarned(u) = Earned(u) /\ totals[u].earned >= Earned(u)
    BY <1>1, <1>3, Accounting, Gains
  <2>2. /\ totals[u].earned \in Nat /\ TransferEarned(u) \in Int
        /\ Reconciled(u) \in Nat
    BY <1>1, <1>3, AmountTypes
  <2>3. Reconciled(u) = Earned(u)
    <3>1. Reconciled(u) = IF TransferEarned(u) < 0
                               \/ TransferEarned(u) >= totals[u].earned
                          THEN totals[u].earned ELSE TransferEarned(u)
      BY DEF Reconciled
    <3>2. QED BY <2>1, <2>2, <3>1
  <2>4. result[u] = IF Kept(u) THEN ResultOf(u) ELSE None
    BY <1>1, <1>3 DEF DoneInv, Done, Kept, ResultOf
  <2>5. CASE Kept(u)
    <3>1. result[u] = ResultOf(u) /\ result[u].earned = Reconciled(u)
      BY <2>4, <2>5 DEF ResultOf
    <3>2. result[u] # None
      <4>1. ~Partial => ClaimedRaw(u) >= 0 BY <1>1, <1>3 DEF DoneInv, Done
      <4>2. ~Partial => ~(ClaimedRaw(u) < 0) BY <1>1, <1>3, <4>1, AmountTypes
      <4>3. result[u] \in ResultType BY <1>1, <1>3, <3>1, <4>2, ResultOfType
      <4>4. QED BY <4>3, TotalsAssumption
    <3>3. QED BY <2>3, <3>1, <3>2
  <2>6. CASE ~Kept(u)
    <3>1. result[u] = None BY <2>4, <2>6
    <3>2. Reconciled(u) = 0 BY <2>2, <2>6 DEF Kept
    <3>3. QED BY <2>3, <3>1, <3>2
  <2>7. QED BY <2>5, <2>6
<1>4. QED BY <1>2, <1>3

(* Honest users keep the rows that were found.                             *)
LEMMA HonestWhenDone ==
  ASSUME CalcInv
  PROVE  HonestRowsExact
<1> SUFFICES ASSUME Done, ~lost, ~(\E m \in Markets : Drifts(m)),
                    NEW m \in Markets, NEW u \in Users, Honest(u),
                    Selects(range, m), NEW side \in Sides
             PROVE  rows[<<m, u>>][side] = EarnedOn(<<m, side>>, u)
  BY DEF HonestRowsExact
<1>1. Calculated /\ DoneInv /\ Settled
  BY WorkIs DEF Calculated, Done, CalcInv, DoneInv
<1>2. PICK p : p = <<m, side>> OBVIOUS
<1>3. p \in Pools /\ p[1] = m BY <1>2 DEF Pools
<1>4. EarnedOn(p, u) = CreditedOn(p, u) + OwedOn(p, u, End) - OwedOn(p, u, Before)
  BY DEF EarnedOn
<1>5. m \notin Through(u) => EarnedOn(p, u) = 0
  BY <1>1, <1>2, <1>4, NothingElse
<1>6. RewardOf(p, u) = EarnedOn(p, u)
  <2>1. Before \in 0 .. LastBlock /\ End \in 0 .. LastBlock BY <1>1, RangeIs
  <2>2. /\ OwedOn(p, u, Before) \in Nat /\ OwedOn(p, u, End) \in Nat
        /\ CreditedOn(p, u) \in Nat
    BY <1>1, <1>3, <2>1, OwedType, CreditedType
  <2>3. /\ RewardOf(p, u) \in Int
        /\ RewardOf(p, u) + OwedOn(p, u, Before)
             = CreditedOn(p, u) + OwedOn(p, u, End)
    BY <1>1, <1>3, RewardIs
  <2>4. QED BY <1>4, <2>2, <2>3
<1>7. CASE totals[u] = None
  <2>1. rows[<<m, u>>] = NoRow BY <1>1, <1>7 DEF DoneInv, Done
  <2>2. m \notin Through(u) BY <1>1, <1>7, WorkIs DEF Calculated
  <2>3. NoRow[side] = 0 BY DEF NoRow
  <2>4. QED BY <1>2, <1>5, <2>1, <2>2, <2>3
<1>8. CASE totals[u] # None
  <2>1. Reconciled(u) = totals[u].earned
    <3>1. CASE Partial BY <1>1, <1>8, <3>1, AmountTypes
    <3>2. CASE ~Partial
      <4>1. TransferEarned(u) = totals[u].earned
        BY <1>1, <1>8, <3>2, Accounting, Gains
      <4>2. totals[u].earned \in Nat BY <1>1, <1>8, AmountTypes
      <4>3. TransferEarned(u) >= totals[u].earned BY <4>1, <4>2
      <4>4. QED BY <4>3 DEF Reconciled
    <3>3. QED BY <3>1, <3>2
  <2>2. rows[<<m, u>>][side] = IF m \in Through(u)
                               THEN RewardOf(<<m, side>>, u) ELSE 0
    BY <1>1, <1>8, <2>1 DEF DoneInv, Done
  <2>3. QED BY <1>2, <1>5, <1>6, <2>2
<1>9. QED BY <1>7, <1>8

-----------------------------------------------------------------------------
(* The export.                                                             *)

(* What a full calculation finds to remain is what a claim at the end of   *)
(* the range would pay, whatever was missed at its start.                  *)
LEMMA DebtFound ==
  ASSUME Calculated, ~Partial, NEW u \in Users
  PROVE  Owed(u, End) = IF totals[u] = None THEN 0 ELSE Remaining(u)
<1>1. /\ Settled /\ Before \in 0 .. LastBlock /\ End \in 0 .. LastBlock
      /\ End \in Nat /\ RewardsFrom \in Nat
      /\ totals[u] = None <=> Through(u) = {}
      /\ totals[u] # None =>
           totals[u].end = SumFunctionOnSet(OwedIn(u, End), Through(u))
  BY WorkIs, RangeIs DEF Calculated, TotalsOK
<1>2. Owed(u, End) = blocks[End].accrued[u]
                       + SumFunctionOnSet(OwedIn(u, End), Through(u))
  BY <1>1, OwedSum, AllThrough
<1>3. CASE totals[u] = None
  <2>1. Through(u) = {} BY <1>1, <1>3
  <2>2. SumFunctionOnSet(OwedIn(u, End), Through(u)) = 0 BY <2>1, SumEmpty
  <2>3. blocks[End].accrued[u] = 0
    <3> SUFFICES ASSUME blocks[End].accrued[u] > 0 PROVE FALSE
      BY <1>1, EventTypes
    <3>1. PICK m \in Markets : /\ Live(m, blocks[0].rewardsFrom) <= End
                               /\ WasActive(blocks, <<m, u>>, End)
      <4>1. StateOK(blocks, End) BY <1>1, RangeIs
      <4>2. QED BY <4>1 DEF StateOK
    <3>2. ListedAt[m] <= End
      <4>1. LiveFrom(m) <= End BY <3>1, LiveFromIs DEF RewardsFrom
      <4>2. QED BY <1>1, <4>1, LiveFromIs
    <3>3. PICK a : a = <<m, u>> OBVIOUS
    <3>4. a \in Accounts /\ a[1] = m BY <3>3, AccountIs
    <3>5. PICK cursor \in End .. LastBlock : usersBy = UsersByMarket(range, cursor)
      BY WorkIs DEF Calculated
    <3>6. Selects(range, a[1]) /\ WasActive(blocks, a, End)
      BY <3>1, <3>3 DEF Selects, Partial
    <3>7. usersBy[a] # None BY <1>1, <3>4, <3>5, <3>6, UsersFound
    <3>8. m \in Through(u) BY <3>2, <3>3, <3>7 DEF Through, Calculated
    <3>9. QED BY <2>1, <3>8
  <2>4. QED BY <1>2, <1>3, <2>2, <2>3
<1>4. CASE totals[u] # None
  BY <1>1, <1>2, <1>4 DEF Remaining, AccruedAtEnd
<1>5. QED BY <1>3, <1>4

(* Rows and totals of a group, what a total says was earned being the sum  *)
(* of the rows.                                                            *)
GroupFits(gr, gt) ==
  /\ IsFiniteSet(DOMAIN gr) /\ IsFiniteSet(DOMAIN gt)
  /\ \A a \in DOMAIN gr : gr[a].earned \in Nat /\ gr[a].earned > 0
  /\ UsersIn(gr) \subseteq DOMAIN gt
  /\ \A u \in DOMAIN gt :
       /\ gt[u] \in ResultType
       /\ gt[u].earned = SumFunctionOnSet(Column(gr, "earned"), RowsOf(gr, u))

LEMMA RowTotalType ==
  ASSUME CalcInv, NEW a \in Accounts
  PROVE  RowTotal(a) \in Nat
<1>1. rows[a] \in [Sides -> Nat] BY DEF CalcInv, TypeOK
<1>2. PICK x, y : x = rows[a]["supply"] /\ y = rows[a]["borrow"] OBVIOUS
<1>3. x \in Nat /\ y \in Nat BY <1>1, <1>2 DEF Sides
<1>4. RowTotal(a) = x + y BY <1>2 DEF RowTotal
<1>5. QED BY <1>3, <1>4

(* The rows that the export sees are those of the users with totals, and   *)
(* add up to them.                                                         *)
LEMMA GroupOf ==
  ASSUME CalcInv, Done, NEW gr, gr = GroupRows, NEW gt, gt = GroupTotals
  PROVE  /\ GroupFits(gr, gt)
         /\ DOMAIN gt = {u \in Users : result[u] # None}
         /\ \A u \in DOMAIN gt : gt[u] = result[u]
<1>1. /\ DOMAIN gr = {k \in Accounts : RowTotal(k) > 0}
      /\ \A a \in DOMAIN gr : gr[a].earned = RowTotal(a)
  BY DEF GroupRows
<1>2. /\ DOMAIN gt = {u \in Users : result[u] # None}
      /\ \A u \in DOMAIN gt : gt[u] = result[u]
  BY DEF GroupTotals, Restrict
<1>3. IsFiniteSet(DOMAIN gr) /\ IsFiniteSet(DOMAIN gt)
  BY <1>1, <1>2, FinitePools, FiniteUsers, FS_Subset
<1>4. \A a \in DOMAIN gr : gr[a].earned \in Nat /\ gr[a].earned > 0
  BY <1>1, RowTotalType
<1>5. Calculated /\ DoneInv /\ \A u \in Users : result[u] # None => result[u] \in ResultType
  BY DEF Calculated, Done, CalcInv, DoneInv, TypeOK
<1>6. ASSUME NEW u \in Users
      PROVE  /\ totals[u] = None =>
                  result[u] = None /\ \A m \in Markets : RowTotal(<<m, u>>) = 0
             /\ totals[u] # None =>
                  /\ SumFunctionOnSet(RowTotals(u), Markets) = Reconciled(u)
                  /\ Reconciled(u) \in Nat
                  /\ Reconciled(u) > 0 => result[u] # None
                  /\ result[u] # None => result[u].earned = Reconciled(u)
  <2>1. CASE totals[u] = None
    <3>1. result[u] = None /\ \A m \in Markets : rows[<<m, u>>] = NoRow
      BY <1>5, <2>1 DEF DoneInv, Done
    <3>2. NoRow["supply"] = 0 /\ NoRow["borrow"] = 0 BY DEF NoRow, Sides
    <3>3. QED BY <2>1, <3>1, <3>2 DEF RowTotal
  <2>2. CASE totals[u] # None
    <3>1. /\ SumFunctionOnSet(RowTotals(u), Markets) = Reconciled(u)
          /\ ~Partial => ClaimedRaw(u) >= 0
          /\ result[u] = IF Kept(u) THEN ResultOf(u) ELSE None
      BY <1>5, <2>2 DEF DoneInv, Done, Kept, ResultOf
    <3>2. Reconciled(u) \in Nat BY <1>5, <2>2, AmountTypes
    <3>3. ResultOf(u) # None
      <4>1. ~Partial => ~(ClaimedRaw(u) < 0)
        BY <1>5, <2>2, <3>1, AmountTypes
      <4>2. ResultOf(u) \in ResultType BY <1>5, <2>2, <4>1, ResultOfType
      <4>3. QED BY <4>2, TotalsAssumption
    <3>4. Reconciled(u) > 0 => result[u] # None BY <3>1, <3>3 DEF Kept
    <3>5. result[u] # None => result[u].earned = Reconciled(u)
      BY <3>1 DEF ResultOf
    <3>6. QED BY <2>2, <3>1, <3>2, <3>4, <3>5
  <2>3. QED BY <2>1, <2>2
<1>7. ASSUME NEW u \in Users, result[u] # None
      PROVE  result[u].earned
               = SumFunctionOnSet(Column(gr, "earned"), RowsOf(gr, u))
  <2>1. PICK R, col, debt :
          /\ R = RowsOf(gr, u) /\ col = Column(gr, "earned")
          /\ debt = RowTotals(u)
    OBVIOUS
  <2> DEFINE I == {<<m, u>> : m \in Markets}
             to == [m \in Markets |-> <<m, u>>]
             value == [a \in I |-> RowTotal(a)]
  <2>2. \A a \in I : a \in Accounts /\ a[2] = u BY AccountIs
  <2>3. value \in [I -> Nat] BY <2>2, RowTotalType
  <2>4. R \in SUBSET I
    <3>1. \A a \in R : a \in Accounts /\ a[2] = u
      BY <1>1, <2>1 DEF RowsOf
    <3>2. \A a \in Accounts : a = <<a[1], a[2]>> /\ a[1] \in Markets
      BY DEF Accounts
    <3>3. QED BY <3>1, <3>2
  <2>5. \A a \in I \ R : value[a] = 0
    <3> TAKE a \in I \ R
    <3>1. a \in Accounts /\ a[2] = u BY <2>2
    <3>2. ~(RowTotal(a) > 0) BY <1>1, <2>1, <3>1 DEF RowsOf
    <3>3. RowTotal(a) \in Nat BY <3>1, RowTotalType
    <3>4. QED BY <3>2, <3>3
  <2>6. \A a \in R : col[a] = value[a]
    BY <1>1, <2>1, <2>4 DEF RowsOf, Column
  <2>7. /\ to \in [Markets -> I] /\ \A y \in I : \E x \in Markets : y = to[x]
        /\ \A x, y \in Markets : to[x] = to[y] => x = y
    OBVIOUS
  <2>8. \A m \in Markets : debt[m] = value[to[m]]
    BY <2>1 DEF RowTotals
  <2> HIDE DEF I, to, value
  <2>9. SumFunctionOnSet(debt, Markets) = SumFunctionOnSet(col, R)
    BY <2>3, <2>4, <2>5, <2>6, <2>7, <2>8, FiniteUsers, SumThrough
  <2>10. QED BY <1>6, <1>7, <2>1, <2>9
<1>8. UsersIn(gr) \subseteq DOMAIN gt
  <2> SUFFICES ASSUME NEW a \in DOMAIN gr PROVE a[2] \in DOMAIN gt
    BY DEF UsersIn
  <2>1. PICK m \in Markets, u \in Users : a = <<m, u>>
    BY <1>1 DEF Accounts
  <2>2. RowTotal(<<m, u>>) > 0 /\ a[2] = u BY <1>1, <2>1
  <2>3. totals[u] # None BY <1>6, <2>2
  <2>4. \A k \in Markets : RowTotals(u)[k] \in Nat
    BY RowTotalType, AccountIs DEF RowTotals
  <2>5. SumFunctionOnSet(RowTotals(u), Markets) # 0
    <3>1. SumFunctionOnSet(RowTotals(u), Markets)
            = RowTotals(u)[m] + SumFunctionOnSet(RowTotals(u), Markets \ {m})
      BY <2>4, FiniteUsers, SumRemove
    <3>2. RowTotals(u)[m] = RowTotal(<<m, u>>) BY DEF RowTotals
    <3>3. IsFiniteSet(Markets \ {m}) BY FiniteUsers, FS_Subset
    <3>4. SumFunctionOnSet(RowTotals(u), Markets \ {m}) \in Nat
      BY <2>4, <3>3, SumType
    <3>5. RowTotals(u)[m] \in Nat BY <2>4
    <3>6. QED BY <2>2, <3>1, <3>2, <3>4, <3>5
  <2>6. Reconciled(u) > 0 BY <1>6, <2>3, <2>5
  <2>7. result[u] # None BY <1>6, <2>3, <2>6
  <2>8. QED BY <1>2, <2>2, <2>7
<1>9. \A u \in DOMAIN gt :
        /\ gt[u] \in ResultType
        /\ gt[u].earned = SumFunctionOnSet(Column(gr, "earned"), RowsOf(gr, u))
  BY <1>2, <1>5, <1>7
<1>10. QED BY <1>2, <1>3, <1>4, <1>8, <1>9 DEF GroupFits

(* No check of the export refuses such a group, and everyone gets what     *)
(* their total says.                                                       *)
LEMMA GroupAccepted ==
  ASSUME NEW gr, NEW gt, GroupFits(gr, gt), DOMAIN gt # {},
         NEW periodOnly \in BOOLEAN,
         NEW g, g = PrepareGroup(2, gr, gt, periodOnly), NEW u
  PROVE  /\ ~g.refused
         /\ RewardIn(g, u) = IF u \in DOMAIN gt THEN Payable(gt[u], periodOnly)
                             ELSE 0
<1> DEFINE f == PayableField(periodOnly)
           paid == [v \in DOMAIN gt |-> Rewarded(2, gr, gt, periodOnly, v)]
<1>1. UsersIn(gr) \cup DOMAIN gt = DOMAIN gt BY DEF GroupFits
<1>2. \A v \in DOMAIN gt : /\ gt[v].earned \in Nat /\ gt[v].remaining \in Nat
                           /\ gt[v].forPeriod \in Nat
  BY DEF GroupFits, ResultType
<1>3. \A v \in DOMAIN gt :
        /\ paid[v] = gt[v][f] /\ paid[v] = Payable(gt[v], periodOnly)
        /\ paid[v] \in Nat
  <2> TAKE v \in DOMAIN gt
  <2>1. paid[v] = Payable(gt[v], periodOnly) BY DEF Rewarded
  <2>2. gt[v][f] \in Nat BY <1>2 DEF PayableField
  <2>3. QED BY <2>1, <2>2 DEF Payable
<1>4. ~\E a \in DOMAIN gr : BadRow(2, gr[a])
  <2> SUFFICES ASSUME NEW a \in DOMAIN gr PROVE ~BadRow(2, gr[a]) OBVIOUS
  <2>1. PICK n : n = gr[a].earned OBVIOUS
  <2>2. n \in Nat /\ n > 0 BY <2>1 DEF GroupFits
  <2>3. ~(n <= 0) BY <2>2
  <2>4. QED BY <2>1, <2>3 DEF BadRow
<1>5. ~\E v \in DOMAIN gt : BadTotal(2, gr, gt[v], v)
  BY DEF BadTotal, Attributed, GroupFits
<1>6. ~\E v \in (UsersIn(gr) \cup DOMAIN gt) \ DOMAIN gt : TRUE BY <1>1
<1>7. ~\E v \in DOMAIN gt :
         paid[v] # 0 /\ paid[v] # Payable(gt[v], periodOnly)
  BY <1>3
<1>8. SumFunction(Column(gr, "earned")) = SumFunction(Column(gt, "earned"))
  <2>1. PICK c, d : c = Column(gr, "earned") /\ d = Column(gt, "earned") OBVIOUS
  <2>2. /\ DOMAIN c = DOMAIN gr /\ DOMAIN d = DOMAIN gt
        /\ \A a \in DOMAIN gr : c[a] = gr[a].earned
        /\ \A v \in DOMAIN gt : d[v] = gt[v].earned
    BY <2>1 DEF Column
  <2> DEFINE user == [a \in DOMAIN gr |-> a[2]]
  <2>3. \A a \in DOMAIN gr : user[a] \in DOMAIN gt
    BY DEF GroupFits, UsersIn
  <2>4. \A v \in DOMAIN gt :
          d[v] = SumFunctionOnSet(c, ClassOf(DOMAIN gr, user, v))
    <3> TAKE v \in DOMAIN gt
    <3>1. RowsOf(gr, v) = ClassOf(DOMAIN gr, user, v) BY DEF RowsOf, ClassOf
    <3>2. d[v] = SumFunctionOnSet(c, RowsOf(gr, v))
      BY <2>1, <2>2 DEF GroupFits
    <3>3. QED BY <3>1, <3>2
  <2>5. /\ IsFiniteSet(DOMAIN gr) /\ IsFiniteSet(DOMAIN gt)
        /\ \A a \in DOMAIN gr : c[a] \in Nat
    BY <2>2 DEF GroupFits
  <2> HIDE DEF user
  <2>6. SumFunctionOnSet(c, DOMAIN gr) = SumFunctionOnSet(d, DOMAIN gt)
    BY <2>3, <2>4, <2>5, SumClasses
  <2>7. QED BY <2>1, <2>2, <2>6 DEF SumFunction
<1>9. SumFunction(paid) = SumFunction(Column(gt, f))
  <2>1. /\ DOMAIN paid = DOMAIN gt /\ DOMAIN Column(gt, f) = DOMAIN gt
        /\ \A v \in DOMAIN gt : Column(gt, f)[v] = gt[v][f]
    BY DEF Column
  <2>2. IsFiniteSet(DOMAIN gt) BY DEF GroupFits
  <2>3. \A v \in DOMAIN gt :
          Column(gt, f)[v] \in Nat /\ paid[v] = Column(gt, f)[v]
    BY <1>3, <2>1
  <2> HIDE DEF paid, f
  <2>4. SumFunctionOnSet(paid, DOMAIN gt)
          = SumFunctionOnSet(Column(gt, f), DOMAIN gt)
    BY <2>2, <2>3, SumSame
  <2>5. QED BY <2>1, <2>4 DEF SumFunction
<1>10. g = [refused |-> FALSE,
            rewards |-> [v \in {w \in DOMAIN gt : paid[w] > 0} |-> paid[v]],
            allocation |-> SumFunction(paid),
            funding |-> FundingRequired(SumFunction(paid))]
  BY <1>1, <1>4, <1>5, <1>6, <1>7, <1>8, <1>9 DEF PrepareGroup
<1>11. ~g.refused /\ g.rewards =
         [v \in {w \in DOMAIN gt : paid[w] > 0} |-> paid[v]]
  BY <1>10
<1>12. RewardIn(g, u) = IF u \in DOMAIN gt THEN Payable(gt[u], periodOnly) ELSE 0
  <2>1. CASE u \in DOMAIN gt /\ paid[u] > 0
    <3>1. u \in DOMAIN g.rewards /\ g.rewards[u] = paid[u] BY <1>11, <2>1
    <3>2. QED BY <1>3, <2>1, <3>1 DEF RewardIn
  <2>2. CASE u \in DOMAIN gt /\ ~(paid[u] > 0)
    <3>1. paid[u] = 0 BY <1>3, <2>2
    <3>2. u \notin DOMAIN g.rewards BY <1>11, <2>2
    <3>3. QED BY <1>3, <2>2, <3>1, <3>2 DEF RewardIn
  <2>3. CASE u \notin DOMAIN gt
    <3>1. u \notin DOMAIN g.rewards BY <1>11, <2>3
    <3>2. QED BY <2>3, <3>1 DEF RewardIn
  <2>4. QED BY <2>1, <2>2, <2>3
<1>13. QED BY <1>11, <1>12

(* Everyone is paid what a claim would pay.                                *)
LEMMA DebtPaid ==
  ASSUME CalcInv
  PROVE  ExportPaysDebt
<1> SUFFICES ASSUME Done, NEW periodOnly \in BOOLEAN, NEW group,
                    group = IF DOMAIN GroupTotals = {} /\ DOMAIN GroupRows = {}
                            THEN NoGroup
                            ELSE PrepareGroup(2, GroupRows, GroupTotals, periodOnly)
             PROVE  /\ ~group.refused
                    /\ ~Partial => \A u \in Users :
                         RewardIn(group, u) =
                           IF periodOnly /\ result[u] # None
                           THEN FifoRemainingForPeriod(result[u].earned, Owed(u, End))
                           ELSE Owed(u, End)
  BY DEF ExportPaysDebt
<1>1. PICK gr, gt : gr = GroupRows /\ gt = GroupTotals OBVIOUS
<1>2. /\ GroupFits(gr, gt) /\ DOMAIN gt = {u \in Users : result[u] # None}
      /\ \A u \in DOMAIN gt : gt[u] = result[u]
  BY <1>1, GroupOf
<1>3. group = IF DOMAIN gt = {} /\ DOMAIN gr = {} THEN NoGroup
              ELSE PrepareGroup(2, gr, gt, periodOnly)
  BY <1>1
<1>4. DOMAIN gt = {} => DOMAIN gr = {}
  <2>1. UsersIn(gr) \subseteq DOMAIN gt BY <1>2 DEF GroupFits
  <2>2. \A a \in DOMAIN gr : a[2] \in UsersIn(gr) BY DEF UsersIn
  <2>3. QED BY ONLY <2>1, <2>2
<1>5. /\ ~group.refused
      /\ \A u \in Users : RewardIn(group, u) =
           IF u \in DOMAIN gt THEN Payable(gt[u], periodOnly) ELSE 0
  <2>1. CASE DOMAIN gt = {}
    <3>1. group = NoGroup BY <1>3, <1>4, <2>1
    <3>2. ~group.refused /\ DOMAIN group.rewards = {} BY <3>1 DEF NoGroup
    <3>3. QED BY <2>1, <3>2 DEF RewardIn
  <2>2. CASE DOMAIN gt # {}
    <3>1. group = PrepareGroup(2, gr, gt, periodOnly) BY <1>3, <2>2
    <3>2. QED BY <1>2, <2>2, <3>1, GroupAccepted
  <2>3. QED BY <2>1, <2>2
<1>6. ASSUME ~Partial, NEW u \in Users
      PROVE  RewardIn(group, u) =
               IF periodOnly /\ result[u] # None
               THEN FifoRemainingForPeriod(result[u].earned, Owed(u, End))
               ELSE Owed(u, End)
  <2>1. Calculated /\ DoneInv BY DEF Calculated, Done, CalcInv, DoneInv
  <2>2. Owed(u, End) = IF totals[u] = None THEN 0 ELSE Remaining(u)
    BY <1>6, <2>1, DebtFound
  <2>3. totals[u] = None => result[u] = None BY <2>1 DEF DoneInv, Done
  <2>4. totals[u] # None => result[u] = IF Kept(u) THEN ResultOf(u) ELSE None
    BY <2>1 DEF DoneInv, Done, Kept, ResultOf
  <2>5. CASE result[u] = None
    <3>1. u \notin DOMAIN gt BY <1>2, <2>5
    <3>2. RewardIn(group, u) = 0 BY <1>5, <3>1
    <3>3. Owed(u, End) = 0
      <4>1. CASE totals[u] = None BY <2>2, <4>1
      <4>2. CASE totals[u] # None
        <5>1. ResultOf(u) # None
          <6>1. ~(ClaimedRaw(u) < 0)
            <7>1. ClaimedRaw(u) >= 0 BY <1>6, <2>1, <4>2 DEF DoneInv, Done
            <7>2. ClaimedRaw(u) \in Int BY <1>6, <2>1, <4>2, AmountTypes
            <7>3. QED BY <7>1, <7>2
          <6>2. ResultOf(u) \in ResultType BY <2>1, <4>2, <6>1, ResultOfType
          <6>3. QED BY <6>2, TotalsAssumption
        <5>2. ~Kept(u) BY <2>4, <2>5, <4>2, <5>1
        <5>3. Remaining(u) \in Nat /\ ~(Remaining(u) > 0)
          BY <2>1, <4>2, <5>2, AmountTypes DEF Kept
        <5>4. QED BY <2>2, <4>2, <5>3
      <4>3. QED BY <4>1, <4>2
    <3>4. QED BY <2>5, <3>2, <3>3
  <2>6. CASE result[u] # None
    <3>1. u \in DOMAIN gt /\ gt[u] = result[u] BY <1>2, <2>6
    <3>2. totals[u] # None /\ result[u] = ResultOf(u) BY <2>3, <2>4, <2>6
    <3>3. Owed(u, End) = Remaining(u) BY <2>2, <3>2
    <3>4. /\ result[u].earned = Reconciled(u) /\ result[u].remaining = Remaining(u)
          /\ result[u].forPeriod
               = FifoRemainingForPeriod(Reconciled(u), Remaining(u))
      BY <3>2 DEF ResultOf
    <3>5. RewardIn(group, u) = IF periodOnly THEN result[u].forPeriod
                               ELSE result[u].remaining
      BY <1>5, <3>1 DEF Payable, PayableField
    <3>6. QED BY <2>6, <3>3, <3>4, <3>5
  <2>7. QED BY <2>5, <2>6
<1>7. QED BY <1>5, <1>6

-----------------------------------------------------------------------------
(* The theorems.                                                           *)

(* The calculation never stores an amount that is not a natural number,    *)
(* whatever the chain does, whichever calls fail and however it ends.      *)
THEOREM TypeCorrect == Spec => []TypeOK
<1>1. CalcInv => TypeOK BY DEF CalcInv
<1>2. QED BY <1>1, CalculationInvariant, PTL

(* A full calculation that finishes reports for every user exactly what    *)
(* was paid in the range and is owed at its end less what was owed before, *)
(* whatever phantom events the Comptroller emits (reconcileUserTotals).    *)
THEOREM EarnedAlwaysExact == Spec => []EarnedExact
<1>1. CalcInv => EarnedExact BY EarnedWhenDone
<1>2. QED BY <1>1, CalculationInvariant, PTL

(* The correction of phantom rewards (reduceUserRows) leaves the rows of   *)
(* every user without such rewards at what the market paid and owes.       *)
THEOREM HonestRowsAlwaysExact == Spec => []HonestRowsExact
<1>1. CalcInv => HonestRowsExact BY HonestWhenDone
<1>2. QED BY <1>1, CalculationInvariant, PTL

(* With any interest in any market, the checks for negative amounts refuse *)
(* a range only where the chain itself, by rounding borrows, takes more    *)
(* than it gives (periodReward), or gives what the service does not count  *)
(* (claimedRaw); those for missing state, only before the rewards begin.   *)
THEOREM RealChainAlwaysAccepted == Spec => []RealChainAccepted
<1>1. CalcInv => RealChainAccepted BY DEF CalcInv
<1>2. QED BY <1>1, CalculationInvariant, PTL

(* Whatever was missed at the start of the range and whatever phantom      *)
(* rewards were taken out, the export refuses no result, and a full        *)
(* calculation pays every user what a claim at the end would (prepareGroup *)
(* of MerklAirdropExportService on userTotals and rows of the result).     *)
THEOREM ExportAlwaysPaysDebt == Spec => []ExportPaysDebt
<1>1. CalcInv => ExportPaysDebt BY DebtPaid
<1>2. QED BY <1>1, CalculationInvariant, PTL

-----------------------------------------------------------------------------
(* The pending amounts of a page.                                          *)

LEMMA FiniteSides == IsFiniteSet(Sides)
<1>1. IsFiniteSet({"supply"}) BY FS_Singleton
<1>2. IsFiniteSet({"supply"} \cup {"borrow"}) BY <1>1, FS_AddElement
<1>3. Sides = {"supply"} \cup {"borrow"} BY DEF Sides
<1>4. QED BY <1>2, <1>3

(* A boundary is read of a market that has rewards.                        *)
LEMMA Readable ==
  ASSUME NEW b, BlockRead(b), NEW m \in Markets,
         BoundaryRead(m, b, FALSE) # None
  PROVE  LiveFrom(m) <= b
<1>1. ListedAt[m] \in Nat /\ RewardsFrom \in Nat /\ b \in Nat
  BY ChainAssumption DEF BlockRead
<1>2. HasBoundary(b) /\ ~NoCToken(m, b) BY DEF BoundaryRead
<1>3. RewardsFrom <= b /\ ListedAt[m] <= b
  BY <1>1, <1>2 DEF HasBoundary, NoCToken
<1>4. QED BY <1>1, <1>3, LiveFromIs

(* The index that is to be used for a user.                                *)
IndexOf(m, u, b, side) ==
  IF side \in Wanted(Held(m, u, b)) THEN blocks[b].user[<<m, side>>][u] ELSE 0

LEMMA HeldIs ==
  ASSUME NEW b, BlockRead(b), NEW m \in Markets, NEW u \in Users
  PROVE  /\ \A side \in Sides : side \notin Wanted(Held(m, u, b)) =>
              ShareOf(blocks[b], <<m, side>>, u) = 0 /\ Held(m, u, b)[side] = 0
         /\ Held(m, u, b) = NoPending <=> Wanted(Held(m, u, b)) = {}
<1> DEFINE h == Held(m, u, b)
           st == blocks[b]
<1>1. st \in StateType BY DEF BlockRead, StateOK
<1>2. st.balance[<<m, u>>] \in Nat /\ Stored(st, m, u) \in Nat
      /\ st.borrowIndex[m] \in Positive
  BY <1>1, StoredType
<1>3. h = [supply |-> st.balance[<<m, u>>], borrow |-> Stored(st, m, u)]
  BY DEF Held
<1>4. /\ h["supply"] = st.balance[<<m, u>>] /\ h["borrow"] = Stored(st, m, u)
      /\ h["supply"] \in Nat /\ h["borrow"] \in Nat
      /\ h = NoPending <=> h["supply"] = 0 /\ h["borrow"] = 0
  BY <1>2, <1>3 DEF NoPending
<1> HIDE DEF h
<1>5. \A side \in Sides : side \in Wanted(h) <=> h[side] # 0
  BY <1>4 DEF Wanted, Sides
<1>6. Wanted(h) \subseteq Sides BY DEF Wanted
<1>7. h = NoPending <=> Wanted(h) = {} BY <1>4, <1>5, <1>6 DEF Sides
<1>8. ASSUME NEW side \in Sides, h[side] = 0
      PROVE  ShareOf(st, <<m, side>>, u) = 0
  <2>1. CASE side = "supply"
    <3>1. ShareOf(st, <<m, side>>, u) = st.balance[<<m, u>>]
      BY <2>1 DEF ShareOf
    <3>2. QED BY <1>4, <1>8, <2>1, <3>1
  <2>2. CASE side = "borrow"
    <3>1. ShareOf(st, <<m, side>>, u)
            = (Stored(st, m, u) * ExpScale) \div st.borrowIndex[m]
      BY <2>2 DEF ShareOf
    <3>2. Stored(st, m, u) * ExpScale = 0
      BY <1>4, <1>8, <2>2, ScalesPositive, Products DEF Positive
    <3>3. 0 \div st.borrowIndex[m] = 0 BY <1>2 DEF Positive
    <3>4. QED BY <3>1, <3>2, <3>3
  <2>3. QED BY <2>1, <2>2 DEF Sides
<1>9. QED BY <1>5, <1>7, <1>8 DEF h

(* With the right index, a side is not anomalous and pays what is owed.    *)
LEMMA SideExact ==
  ASSUME NEW b, BlockRead(b), NEW m \in Markets, LiveFrom(m) <= b,
         NEW u \in Users, NEW side \in Sides, NEW indexes,
         indexes[side] = IndexOf(m, u, b, side)
  PROVE  /\ ~Anomalous(Boundary(m, b), indexes, side)
         /\ PendingOnSide(m, u, b, Boundary(m, b), indexes, side)
              = OwedOn(<<m, side>>, u, b)
         /\ OwedOn(<<m, side>>, u, b) \in Nat
<1> DEFINE st == blocks[b]
           p == <<m, side>>
           i == IndexAt(st, p, b)
<1>0. st \in StateType /\ b \in Nat /\ b <= b BY DEF BlockRead, StateOK
<1>1. p \in Pools /\ p[1] = m /\ p[2] = side BY DEF Pools
<1>2. /\ Boundary(m, b)[side] = i
      /\ UserPending(m, u, b, Boundary(m, b))[side] = OwedOn(p, u, b)
  BY <1>1, BoundaryAt
<1>3. i \in Nat /\ i >= InitialIndex /\ st.user[p][u] <= i
  BY <1>0, <1>1, PoolAt
<1>4. OwedOn(p, u, b) \in Nat
      /\ (ShareOf(st, p, u) = 0 => OwedOn(p, u, b) = 0)
  BY <1>1, OwedAt
<1>5. st.user[p][u] \in Nat BY <1>0, <1>1, FieldsOf DEF PoolsOf
<1> DEFINE x == indexes[side]
<1>6. x = st.user[p][u] \/ x = 0 BY DEF IndexOf
<1> HIDE DEF p, x, st
<1>7. x \in Nat /\ x <= i /\ InitialIndex \in Nat
  BY <1>3, <1>5, <1>6, ScalesPositive DEF Positive
<1>8. UserIndex(x, i) \in Nat /\ UserIndex(x, i) <= i
  BY <1>3, <1>7 DEF UserIndex
<1>9. ~Anomalous(Boundary(m, b), indexes, side)
  <2>1. Anomalous(Boundary(m, b), indexes, side) <=> i < UserIndex(x, i)
    BY <1>2 DEF Anomalous, x
  <2> HIDE DEF i
  <2>2. i \in Nat BY <1>3
  <2>3. QED BY <1>8, <2>1, <2>2
<1>10. CASE side \in Wanted(Held(m, u, b))
  <2>1. x = st.user[p][u] BY <1>10 DEF IndexOf, x, st, p
  <2>2. PendingOnSide(m, u, b, Boundary(m, b), indexes, side)
          = UserPending(m, u, b, Boundary(m, b))[side]
    <3>1. CASE side = "supply"
      <4>1. PendingOnSide(m, u, b, Boundary(m, b), indexes, side)
              = PendingSupply(i, x, st.balance[<<m, u>>])
        BY <1>2, <1>9, <3>1 DEF PendingOnSide, Held, x, st
      <4>2. UserPending(m, u, b, Boundary(m, b))[side]
              = PendingSupply(Boundary(m, b)[side], st.user[p][u],
                              st.balance[<<m, u>>])
        BY <3>1 DEF UserPending, p, st
      <4>3. QED BY <1>2, <2>1, <4>1, <4>2
    <3>2. CASE side = "borrow"
      <4>1. PendingOnSide(m, u, b, Boundary(m, b), indexes, side)
              = PendingBorrow(i, x, Stored(st, m, u), st.borrowIndex[m])
        BY <1>2, <1>9, <3>2 DEF PendingOnSide, Held, x, st
      <4>2. UserPending(m, u, b, Boundary(m, b))[side]
              = PendingBorrow(Boundary(m, b)[side], st.user[p][u],
                              Stored(st, m, u), st.borrowIndex[m])
        BY <3>2 DEF UserPending, p, st
      <4>3. QED BY <1>2, <2>1, <4>1, <4>2
    <3>3. QED BY <3>1, <3>2 DEF Sides
  <2>3. QED BY <1>2, <1>4, <1>9, <2>2 DEF p
<1>11. CASE side \notin Wanted(Held(m, u, b))
  <2>1. ShareOf(st, p, u) = 0 /\ Held(m, u, b)[side] = 0
    BY <1>11, HeldIs DEF st, p
  <2>2. PendingSupply(i, x, 0) = 0
    <3>1. i - UserIndex(x, i) \in Nat
      <4> HIDE DEF i
      <4>1. i \in Nat BY <1>3
      <4>2. QED BY <1>8, <4>1
    <3>2. 0 * (i - UserIndex(x, i)) = 0 BY <3>1, Products
    <3>3. 0 \div DoubleScale = 0 BY ScalesPositive DEF Positive
    <3>4. QED BY <3>2, <3>3 DEF PendingSupply
  <2>3. PendingOnSide(m, u, b, Boundary(m, b), indexes, side) = 0
    <3>1. CASE side = "supply"
      <4>1. PendingOnSide(m, u, b, Boundary(m, b), indexes, side)
              = PendingSupply(i, x, 0)
        BY <1>2, <1>9, <2>1, <3>1 DEF PendingOnSide, x
      <4>2. QED BY <2>2, <4>1
    <3>2. CASE side = "borrow"
      <4>1. PendingOnSide(m, u, b, Boundary(m, b), indexes, side)
              = PendingBorrow(i, x, 0, st.borrowIndex[m])
        BY <1>2, <1>9, <2>1, <3>2 DEF PendingOnSide, x, st
      <4>2. st.borrowIndex[m] \in Positive BY <1>0, FieldsOf DEF st
      <4>3. Normalized(0, st.borrowIndex[m]) = 0
        <5>1. 0 * ExpScale = 0 BY ScalesPositive DEF Positive
        <5>2. 0 \div st.borrowIndex[m] = 0 BY <4>2 DEF Positive
        <5>3. QED BY <5>1, <5>2 DEF Normalized
      <4>4. QED BY <2>2, <4>1, <4>3 DEF PendingBorrow
    <3>3. QED BY <3>1, <3>2 DEF Sides
  <2>4. OwedOn(p, u, b) = 0 BY <1>4, <2>1 DEF st
  <2>5. QED BY <1>4, <1>9, <2>3, <2>4 DEF p
<1>12. QED BY <1>10, <1>11

(* The cardinality of a set is a sum of ones, and of its classes.          *)
LEMMA CountOnes ==
  ASSUME NEW S, IsFiniteSet(S), NEW one, \A x \in S : one[x] = 1
  PROVE  SumFunctionOnSet(one, S) = Cardinality(S)
<1> DEFINE P == {T \in SUBSET S : SumFunctionOnSet(one, T) = Cardinality(T)}
<1>1. {} \in P BY SumEmpty, FS_EmptySet
<1>2. ASSUME NEW T \in SUBSET S, NEW x \in S \ T, T \in P
      PROVE  T \cup {x} \in P
  <2>1. IsFiniteSet(T) BY FS_Subset
  <2>2. \A y \in T \cup {x} : one[y] \in Nat OBVIOUS
  <2>3. SumFunctionOnSet(one, T \cup {x}) = one[x] + SumFunctionOnSet(one, T)
    BY <2>1, <2>2, SumAdd
  <2>4. Cardinality(T \cup {x}) = Cardinality(T) + 1 /\ Cardinality(T) \in Nat
    BY <2>1, FS_AddElement, FS_CardinalityType
  <2>5. one[x] = 1 /\ SumFunctionOnSet(one, T) = Cardinality(T) BY <1>2
  <2>6. QED BY <2>3, <2>4, <2>5
<1>3. S \in P
  <2> HIDE DEF P
  <2>1. QED BY <1>1, <1>2, SetInduct
<1>4. QED BY <1>3

LEMMA CountClasses ==
  ASSUME NEW S, IsFiniteSet(S), NEW K, IsFiniteSet(K), NEW class, NEW part,
         \A x \in S : class[x] \in K,
         \A k \in K : part[k] = Cardinality(ClassOf(S, class, k))
  PROVE  Cardinality(S) = SumFunctionOnSet(part, K)
<1> DEFINE one == [x \in S |-> 1]
<1>1. \A x \in S : one[x] = 1 /\ one[x] \in Nat OBVIOUS
<1> HIDE DEF one
<1>2. ASSUME NEW k \in K
      PROVE  part[k] = SumFunctionOnSet(one, ClassOf(S, class, k))
  <2>1. ClassOf(S, class, k) \subseteq S BY DEF ClassOf
  <2>2. IsFiniteSet(ClassOf(S, class, k)) BY <2>1, FS_Subset
  <2>3. SumFunctionOnSet(one, ClassOf(S, class, k))
          = Cardinality(ClassOf(S, class, k))
    BY <1>1, <2>1, <2>2, CountOnes
  <2>4. QED BY <2>3
<1>3. SumFunctionOnSet(one, S) = SumFunctionOnSet(part, K)
  BY <1>1, <1>2, SumClasses
<1>4. QED BY <1>1, <1>3, CountOnes

(* The calls pushed before c.                                              *)
Number(calls, c) == Cardinality({d \in calls : Earlier(d, c)})

CallsIn(calls) == IsFiniteSet(calls) /\ calls \subseteq Nat \X Sides

LEMMA NumberGrows ==
  ASSUME NEW calls, CallsIn(calls), NEW c \in calls
  PROVE  /\ Number(calls, c) \in Nat /\ Number(calls, c) < Cardinality(calls)
         /\ Cardinality(calls) \in Nat
         /\ \A d \in calls : Earlier(c, d) => Number(calls, c) < Number(calls, d)
<1> DEFINE B(d) == {e \in calls : Earlier(e, d)}
<1>1. \A d \in calls : /\ d[1] \in Nat /\ d[2] \in Sides
                       /\ d = <<d[1], d[2]>> /\ ~Earlier(d, d)
  BY DEF CallsIn, Earlier
<1>2. ASSUME NEW T \in SUBSET calls, B(c) \subseteq T, c \in T
      PROVE  Cardinality(B(c)) < Cardinality(T) /\ Cardinality(T) \in Nat
             /\ Cardinality(B(c)) \in Nat
  <2>1. c \notin B(c) /\ B(c) \cup {c} \subseteq T BY <1>1, <1>2
  <2>2. IsFiniteSet(T) /\ IsFiniteSet(B(c)) BY FS_Subset DEF CallsIn
  <2> HIDE DEF B
  <2>3. Cardinality(B(c) \cup {c}) = Cardinality(B(c)) + 1
        /\ IsFiniteSet(B(c) \cup {c}) /\ Cardinality(B(c)) \in Nat
        /\ Cardinality(T) \in Nat
    BY <2>1, <2>2, FS_AddElement, FS_CardinalityType
  <2>4. Cardinality(B(c) \cup {c}) <= Cardinality(T)
    BY <2>1, <2>2, FS_Subset
  <2>5. QED BY <2>3, <2>4
<1>3. Number(calls, c) \in Nat /\ Number(calls, c) < Cardinality(calls)
      /\ Cardinality(calls) \in Nat
  <2>1. B(c) \subseteq calls OBVIOUS
  <2>2. QED BY <1>2, <2>1 DEF Number
<1>4. ASSUME NEW d \in calls, Earlier(c, d)
      PROVE  Number(calls, c) < Number(calls, d)
  <2>1. \A e \in calls : Earlier(e, c) => Earlier(e, d)
    <3>1. PICK x, y, s, t : /\ x = c[1] /\ s = c[2] /\ y = d[1] /\ t = d[2]
      OBVIOUS
    <3>2. x \in Nat /\ y \in Nat BY <1>1, <3>1
    <3>3. x < y \/ (x = y /\ s = "supply" /\ t = "borrow")
      BY <1>4, <3>1 DEF Earlier
    <3>4. ASSUME NEW e \in calls, Earlier(e, c) PROVE Earlier(e, d)
      <4>1. PICK z, r : z = e[1] /\ r = e[2] OBVIOUS
      <4>2. z \in Nat BY <1>1, <4>1
      <4>3. z < x \/ (z = x /\ r = "supply" /\ s = "borrow")
        BY <3>1, <3>4, <4>1 DEF Earlier
      <4>4. z < y \/ (z = y /\ r = "supply" /\ t = "borrow")
        BY <3>2, <3>3, <4>2, <4>3
      <4>5. QED BY <3>1, <4>1, <4>4 DEF Earlier
    <3>5. QED BY <3>4
  <2>2. B(c) \subseteq B(d) /\ c \in B(d) /\ B(d) \subseteq calls BY <1>4, <2>1
  <2>3. QED BY <1>2, <2>2 DEF Number
<1>5. QED BY <1>3, <1>4

(* The flat list has every call at its number.                             *)
LEMMA ListAt ==
  ASSUME NEW calls, CallsIn(calls), NEW c \in calls
  PROVE  /\ Number(calls, c) + 1 \in DOMAIN CallList(calls)
         /\ CallList(calls)[Number(calls, c) + 1] = c
<1> DEFINE n == Number(calls, c) + 1
<1>1. n \in 1 .. Cardinality(calls) /\ n - 1 = Number(calls, c)
  BY NumberGrows
<1>2. ASSUME NEW d \in calls, Number(calls, d) = Number(calls, c)
      PROVE  d = c
  <2>1. ~Earlier(c, d) /\ ~Earlier(d, c) BY <1>2, NumberGrows
  <2>2. PICK x, y, s, t : /\ x = c[1] /\ s = c[2] /\ y = d[1] /\ t = d[2]
    OBVIOUS
  <2>3. x \in Nat /\ y \in Nat /\ s \in Sides /\ t \in Sides
        /\ c = <<x, s>> /\ d = <<y, t>>
    BY <2>2 DEF CallsIn
  <2>4. /\ ~(x < y \/ (x = y /\ s = "supply" /\ t = "borrow"))
        /\ ~(y < x \/ (y = x /\ t = "supply" /\ s = "borrow"))
    BY <2>1, <2>2 DEF Earlier
  <2>5. x = y BY <2>3, <2>4
  <2>6. s = t BY <2>3, <2>4, <2>5 DEF Sides
  <2>7. QED BY <2>3, <2>5, <2>6
<1>3. CallList(calls)[n] = CHOOSE d \in calls : Number(calls, d) = n - 1
  BY <1>1 DEF CallList, Number
<1>4. (CHOOSE d \in calls : Number(calls, d) = n - 1) = c
  BY <1>1, <1>2
<1>5. DOMAIN CallList(calls) = 1 .. Cardinality(calls) BY DEF CallList
<1>6. QED BY <1>1, <1>3, <1>4, <1>5

(* A page has every user once.                                             *)
LEMMA PageIs ==
  ASSUME NEW page \in Pages
  PROVE  /\ IsFiniteSet(DOMAIN page) /\ DOMAIN page \subseteq Nat
         /\ \A k \in DOMAIN page : page[k] \in Users
         /\ \A j, k \in DOMAIN page : page[j] = page[k] => j = k
         /\ \A u \in Users : \E k \in DOMAIN page : page[k] = u
         /\ Range(page) = Users
<1> DEFINE S == 1 .. Cardinality(Users)
<1>1. Cardinality(Users) \in Nat BY FiniteUsers, FS_CardinalityType
<1>2. page \in [S -> Users] /\ DOMAIN page = S
      /\ \A i, j \in S : i # j => page[i] # page[j]
  BY DEF Pages
<1>3. IsFiniteSet(S) /\ Cardinality(S) = Cardinality(Users)
  BY <1>1, FS_Interval
<1>4. page \in Injection(S, Users)
  BY <1>2 DEF Injection, IsInjective
<1>5. page \in Surjection(S, Users) BY <1>3, <1>4, FiniteUsers, FS_Injection
<1>6. \A u \in Users : \E k \in S : page[k] = u BY <1>5 DEF Surjection
<1>7. Range(page) = Users BY <1>2, <1>6 DEF Range
<1>8. S \subseteq Nat BY <1>1
<1>9. QED BY <1>2, <1>3, <1>6, <1>7, <1>8

(* The holders of a page and the calls for their indexes.                  *)
CallsOf(m, page, b, holders, calls) ==
  /\ page \in Pages /\ holders \subseteq DOMAIN page
  /\ calls = IndexCalls(m, page, b, holders)

WantedOf(m, page, b, k) == Wanted(Held(m, page[k], b))

LEMMA CallsAre ==
  ASSUME NEW m, NEW page, NEW b, NEW holders, NEW calls,
         CallsOf(m, page, b, holders, calls)
  PROVE  /\ CallsIn(calls)
         /\ IsFiniteSet(holders) /\ holders \subseteq Nat
         /\ \A k, side : <<k, side>> \in calls <=>
              k \in holders /\ side \in WantedOf(m, page, b, k)
         /\ \A c \in calls : c[1] \in holders /\ c = <<c[1], c[2]>>
         /\ \A k : WantedOf(m, page, b, k) \subseteq Sides
<1>1. IsFiniteSet(holders) /\ holders \subseteq Nat
  <2>1. page \in Pages /\ holders \subseteq DOMAIN page BY DEF CallsOf
  <2>2. IsFiniteSet(DOMAIN page) /\ DOMAIN page \subseteq Nat BY <2>1, PageIs
  <2>3. QED BY <2>1, <2>2, FS_Subset
<1>2. calls = {c \in holders \X Sides : c[2] \in WantedOf(m, page, b, c[1])}
  BY DEF CallsOf, IndexCalls, WantedOf
<1>3. calls \subseteq holders \X Sides BY <1>2
<1>4. IsFiniteSet(calls)
  <2>1. IsFiniteSet(holders \X Sides) BY <1>1, FiniteSides, FS_Product
  <2>2. QED BY <1>3, <2>1, FS_Subset
<1>5. CallsIn(calls) BY <1>1, <1>3, <1>4 DEF CallsIn
<1>6. \A k : WantedOf(m, page, b, k) \subseteq Sides BY DEF WantedOf, Wanted
<1>7. \A k, side : <<k, side>> \in calls <=>
        k \in holders /\ side \in WantedOf(m, page, b, k)
  BY <1>2, <1>6
<1>8. QED BY <1>1, <1>3, <1>5, <1>6, <1>7

(* The calls of the users before the k-th.                                 *)
CallsBefore(calls, k) == {d \in calls : d[1] < k}

LEMMA CursorCounts ==
  ASSUME NEW m, NEW page, NEW b, NEW holders, NEW calls,
         CallsOf(m, page, b, holders, calls), NEW k \in holders
  PROVE  /\ Cursor(m, page, b, holders, k) = Cardinality(CallsBefore(calls, k))
         /\ IsFiniteSet(CallsBefore(calls, k))
<1> DEFINE S == CallsBefore(calls, k)
           K == {h \in holders : h < k}
           class == [d \in calls |-> d[1]]
           part == [j \in K |-> Cardinality(Wanted(Held(m, page[j], b)))]
<1>1. /\ CallsIn(calls) /\ IsFiniteSet(holders)
      /\ \A j, side : <<j, side>> \in calls <=>
           j \in holders /\ side \in WantedOf(m, page, b, j)
      /\ \A c \in calls : c[1] \in holders /\ c = <<c[1], c[2]>>
      /\ \A j : WantedOf(m, page, b, j) \subseteq Sides
  BY CallsAre
<1>2. S \subseteq calls BY DEF CallsBefore
<1>3. IsFiniteSet(S) /\ IsFiniteSet(K)
  <2>1. IsFiniteSet(S) BY <1>1, <1>2, FS_Subset DEF CallsIn
  <2>2. K \subseteq holders OBVIOUS
  <2> HIDE DEF K
  <2>3. QED BY <1>1, <2>1, <2>2, FS_Subset
<1>4. \A d \in S : class[d] \in K BY <1>1, <1>2 DEF CallsBefore
<1>5. ASSUME NEW j \in K PROVE part[j] = Cardinality(ClassOf(S, class, j))
  <2> DEFINE W == WantedOf(m, page, b, j)
             C == ClassOf(S, class, j)
             f == [side \in W |-> <<j, side>>]
  <2>1. part[j] = Cardinality(W) BY DEF WantedOf
  <2>2. \A d : d \in C <=> \E side \in W : d = <<j, side>>
    <3>1. ASSUME NEW d \in C PROVE \E side \in W : d = <<j, side>>
      <4>1. d \in calls /\ d[1] = j BY <1>2 DEF ClassOf
      <4>2. d = <<j, d[2]>> BY <1>1, <4>1
      <4>3. QED BY <1>1, <4>1, <4>2
    <3>2. ASSUME NEW side \in W PROVE <<j, side>> \in C
      <4>1. <<j, side>> \in calls BY <1>1
      <4>2. <<j, side>> \in S BY <4>1 DEF CallsBefore
      <4>3. QED BY <4>1, <4>2 DEF ClassOf
    <3>3. QED BY <3>1, <3>2
  <2>3. IsFiniteSet(W) BY <1>1, FiniteSides, FS_Subset
  <2> HIDE DEF W, C
  <2>4. f \in Injection(W, C) /\ f \in Surjection(W, C)
    <3>1. f \in [W -> C] BY <2>2
    <3>2. \A x, y \in W : f[x] = f[y] => x = y OBVIOUS
    <3>3. \A d \in C : \E x \in W : f[x] = d BY <2>2
    <3> HIDE DEF f
    <3>4. QED BY <3>1, <3>2, <3>3 DEF Injection, IsInjective, Surjection
  <2> HIDE DEF f
  <2>5. Cardinality(C) = Cardinality(W) BY <2>3, <2>4, FS_Surjection
  <2>6. QED BY <2>1, <2>5 DEF C
<1>6. DOMAIN part = K OBVIOUS
<1>7. Cursor(m, page, b, holders, k) = SumFunctionOnSet(part, K)
  BY <1>6 DEF Cursor, SumFunction
<1> HIDE DEF part, K, class
<1>8. Cardinality(S) = SumFunctionOnSet(part, K)
  BY <1>3, <1>4, <1>5, CountClasses
<1>9. QED BY <1>3, <1>7, <1>8

(* The cursor stands where the answer for the side is.                     *)
LEMMA TakenInOrder ==
  ASSUME NEW m, NEW page, NEW b, NEW holders, NEW calls,
         CallsOf(m, page, b, holders, calls),
         NEW k \in holders, NEW side \in WantedOf(m, page, b, k)
  PROVE  Number(calls, <<k, side>>) + 1
           = Cursor(m, page, b, holders, k)
             + (IF side = "borrow" /\ "supply" \in WantedOf(m, page, b, k)
                THEN 2 ELSE 1)
<1> DEFINE S == CallsBefore(calls, k)
           T == {d \in calls : Earlier(d, <<k, side>>)}
<1>1. /\ CallsIn(calls) /\ holders \subseteq Nat
      /\ \A j, s : <<j, s>> \in calls <=>
           j \in holders /\ s \in WantedOf(m, page, b, j)
      /\ \A c \in calls : c[1] \in holders /\ c = <<c[1], c[2]>>
  BY CallsAre
<1>2. Cursor(m, page, b, holders, k) = Cardinality(S) /\ IsFiniteSet(S)
  BY CursorCounts
<1>3. Cardinality(S) \in Nat BY <1>2, FS_CardinalityType
<1>4. CASE side = "borrow" /\ "supply" \in WantedOf(m, page, b, k)
  <2>1. T = S \cup {<<k, "supply">>}
    <3>1. <<k, "supply">> \in T BY <1>1, <1>4 DEF Earlier
    <3>2. S \subseteq T BY DEF CallsBefore, Earlier
    <3>3. ASSUME NEW d \in T PROVE d \in S \/ d = <<k, "supply">>
      BY <1>1, <3>3 DEF CallsBefore, Earlier
    <3>4. QED BY <3>1, <3>2, <3>3
  <2>2. <<k, "supply">> \notin S
    <3>1. k \in Nat /\ ~(k < k) BY <1>1
    <3>2. QED BY <3>1 DEF CallsBefore
  <2>3. Cardinality(T) = Cardinality(S) + 1
    BY <1>2, <2>1, <2>2, FS_AddElement
  <2>4. QED BY <1>2, <1>3, <1>4, <2>3 DEF Number
<1>5. CASE ~(side = "borrow" /\ "supply" \in WantedOf(m, page, b, k))
  <2>1. T = S
    <3>1. S \subseteq T BY DEF CallsBefore, Earlier
    <3>2. ASSUME NEW d \in T PROVE d \in S
      BY <1>1, <1>5, <3>2 DEF CallsBefore, Earlier
    <3>3. QED BY <3>1, <3>2
  <2>2. QED BY <1>2, <1>3, <1>5, <2>1 DEF Number
<1>6. QED BY <1>4, <1>5

(* Which calls fail does not move the answers of the others: every user is *)
(* given the answer to the own call.                                       *)
LEMMA AnswerIs ==
  ASSUME NEW m, NEW page, NEW b, NEW holders, NEW calls,
         CallsOf(m, page, b, holders, calls), NEW failed \in SUBSET calls,
         NEW k \in holders, NEW side \in Sides
  PROVE  IndexTaken(m, page, b, holders, Answers(m, page, b, calls, failed),
                    k, side)
           = IF <<k, side>> \in failed THEN None
             ELSE IndexOf(m, page[k], b, side)
<1> DEFINE W == WantedOf(m, page, b, k)
           answers == Answers(m, page, b, calls, failed)
           n == Number(calls, <<k, side>>) + 1
<1>1. /\ CallsIn(calls)
      /\ \A j, s : <<j, s>> \in calls <=>
           j \in holders /\ s \in WantedOf(m, page, b, j)
  BY CallsAre
<1>2. CASE side \in W
  <2>1. <<k, side>> \in calls BY <1>1, <1>2
  <2>2. n \in DOMAIN CallList(calls) /\ CallList(calls)[n] = <<k, side>>
    BY <1>1, <2>1, ListAt
  <2>3. n = Cursor(m, page, b, holders, k)
              + (IF side = "borrow" /\ "supply" \in W THEN 2 ELSE 1)
    BY <1>2, TakenInOrder
  <2> HIDE DEF n
  <2>4. n \in DOMAIN answers /\ answers[n] =
          IF <<k, side>> \in failed THEN None
          ELSE blocks[b].user[<<m, side>>][page[k]]
    BY <2>2 DEF Answers
  <2> HIDE DEF answers
  <2>5. IndexTaken(m, page, b, holders, answers, k, side) = answers[n]
    BY <1>2, <2>3, <2>4 DEF IndexTaken, WantedOf
  <2>6. IndexOf(m, page[k], b, side) = blocks[b].user[<<m, side>>][page[k]]
    BY <1>2 DEF IndexOf, WantedOf
  <2>7. QED BY <2>4, <2>5, <2>6 DEF answers
<1>3. CASE side \notin W
  <2>1. <<k, side>> \notin failed BY <1>1, <1>3
  <2>2. IndexTaken(m, page, b, holders, answers, k, side) = 0
    BY <1>3 DEF IndexTaken, WantedOf
  <2>3. IndexOf(m, page[k], b, side) = 0 BY <1>3 DEF IndexOf, WantedOf
  <2>4. QED BY <2>1, <2>2, <2>3
<1>4. QED BY <1>2, <1>3

(* The users whose calls were answered.                                    *)
KnownOf(holders, failed) ==
  {k \in holders : \A side \in Sides : <<k, side>> \notin failed}

Indexes(m, page, b, holders, failed) ==
  [k \in holders |-> [side \in Sides |->
     IndexTaken(m, page, b, holders,
       Answers(m, page, b, IndexCalls(m, page, b, holders), failed), k, side)]]

(* A page, what was not read of it, and who is known.                      *)
PageRead(m, page, b, unread, failed, holders, known) ==
  /\ BlockRead(b) /\ m \in Markets /\ LiveFrom(m) <= b
  /\ page \in Pages /\ unread \in SUBSET Users
  /\ holders = Holders(m, page, b, unread)
  /\ failed \in SUBSET IndexCalls(m, page, b, holders)
  /\ known = KnownOf(holders, failed)

LEMMA IndexesAre ==
  ASSUME NEW m, NEW page, NEW b, NEW unread, NEW failed, NEW holders, NEW known,
         PageRead(m, page, b, unread, failed, holders, known),
         NEW indexes, indexes = Indexes(m, page, b, holders, failed)
  PROVE  /\ known = {k \in holders : \A side \in Sides : indexes[k][side] # None}
         /\ holders \subseteq DOMAIN page
         /\ \A k \in known, side \in Sides :
              indexes[k][side] = IndexOf(m, page[k], b, side)
<1>1. /\ BlockRead(b) /\ m \in Markets /\ LiveFrom(m) <= b /\ page \in Pages
      /\ failed \in SUBSET IndexCalls(m, page, b, holders)
      /\ known = KnownOf(holders, failed)
  BY DEF PageRead
<1>2. holders \subseteq DOMAIN page BY DEF PageRead, Holders
<1>3. CallsOf(m, page, b, holders, IndexCalls(m, page, b, holders))
  BY <1>1, <1>2 DEF CallsOf
<1>4. ASSUME NEW k \in holders, NEW side \in Sides
      PROVE  indexes[k][side] = IF <<k, side>> \in failed THEN None
                                ELSE IndexOf(m, page[k], b, side)
  BY <1>1, <1>3, AnswerIs DEF Indexes
<1>5. ASSUME NEW k \in holders, NEW side \in Sides
      PROVE  IndexOf(m, page[k], b, side) # None
  <2>1. page[k] \in Users BY <1>1, <1>2, PageIs
  <2>2. blocks[b] \in StateType BY <1>1 DEF BlockRead, StateOK
  <2>3. <<m, side>> \in Pools BY <1>1 DEF Pools
  <2>4. blocks[b].user[<<m, side>>][page[k]] \in Nat
    BY <2>1, <2>2, <2>3, FieldsOf DEF PoolsOf
  <2>5. IndexOf(m, page[k], b, side) \in Nat BY <2>4 DEF IndexOf
  <2>6. QED BY <2>5, RewardsAssumption
<1>6. known \subseteq holders BY <1>1 DEF KnownOf
<1>7. ASSUME NEW k \in holders
      PROVE  k \in known <=> \A side \in Sides : indexes[k][side] # None
  <2>1. k \in known <=> \A side \in Sides : <<k, side>> \notin failed
    BY <1>1 DEF KnownOf
  <2>2. \A side \in Sides : indexes[k][side] # None <=> <<k, side>> \notin failed
    BY <1>4, <1>5
  <2>3. QED BY <2>1, <2>2
<1>8. ASSUME NEW k \in known, NEW side \in Sides
      PROVE  indexes[k][side] = IndexOf(m, page[k], b, side)
  <2>1. k \in holders /\ <<k, side>> \notin failed BY <1>1 DEF KnownOf
  <2>2. QED BY <1>4, <2>1
<1>9. QED BY <1>2, <1>6, <1>7, <1>8

(* The users in these places of the page.                                  *)
UsersAt(page, places) == {page[k] : k \in places}

(* The users who went without an amount.                                   *)
Without(page, unread, failed) == unread \cup {page[c[1]] : c \in failed}

(* The pending amount of a user.                                           *)
OwedInMarket(m, u, b) == SumFunction([side \in Sides |-> OwedOn(<<m, side>>, u, b)])

LEMMA ReadIs ==
  ASSUME NEW m, NEW page, NEW b, NEW unread, NEW failed, NEW holders, NEW known,
         PageRead(m, page, b, unread, failed, holders, known),
         NEW read, read = ReadPendingByUser(m, page, b, unread, failed)
  PROVE  /\ DOMAIN read.pending = UsersAt(page, known)
         /\ \A k \in known : read.pending[page[k]] = OwedInMarket(m, page[k], b)
         /\ read.failures = Cardinality(unread) + Cardinality(holders \ known)
         /\ read.anomalies = 0
<1> DEFINE indexes == Indexes(m, page, b, holders, failed)
           boundary == Boundary(m, b)
           pending == [u \in {page[k] : k \in known} |->
             SumFunction([side \in Sides |->
               PendingOnSide(m, u, b, boundary,
                             indexes[CHOOSE j \in known : page[j] = u], side)])]
           odd == [k \in known |->
             Cardinality({side \in Sides : Anomalous(boundary, indexes[k], side)})]
<1>1. /\ BlockRead(b) /\ m \in Markets /\ LiveFrom(m) <= b /\ page \in Pages
      /\ unread \in SUBSET Users /\ holders = Holders(m, page, b, unread)
  BY DEF PageRead
<1>2. /\ known = {k \in holders : \A side \in Sides : indexes[k][side] # None}
      /\ holders \subseteq DOMAIN page
      /\ \A k \in known, side \in Sides :
           indexes[k][side] = IndexOf(m, page[k], b, side)
  BY IndexesAre
<1>3. read = [pending |-> pending,
              failures |-> Cardinality(unread \cap Range(page))
                             + Cardinality(holders \ known),
              anomalies |-> SumFunction(odd)]
  BY <1>1, <1>2 DEF ReadPendingByUser, Indexes
<1>4. known \subseteq holders /\ known \subseteq DOMAIN page BY <1>2
<1>5. /\ \A k \in DOMAIN page : page[k] \in Users
      /\ \A j, k \in DOMAIN page : page[j] = page[k] => j = k
      /\ Range(page) = Users /\ IsFiniteSet(DOMAIN page)
  BY <1>1, PageIs
<1>6. ASSUME NEW k \in known, NEW side \in Sides
      PROVE  /\ ~Anomalous(boundary, indexes[k], side)
             /\ PendingOnSide(m, page[k], b, boundary, indexes[k], side)
                  = OwedOn(<<m, side>>, page[k], b)
  <2>1. page[k] \in Users BY <1>4, <1>5
  <2>2. indexes[k][side] = IndexOf(m, page[k], b, side) BY <1>2
  <2> HIDE DEF indexes
  <2>3. QED BY <1>1, <2>1, <2>2, SideExact
<1>7. ASSUME NEW k \in known PROVE pending[page[k]] = OwedInMarket(m, page[k], b)
  <2>1. (CHOOSE j \in known : page[j] = page[k]) = k BY <1>4, <1>5
  <2>2. pending[page[k]] = SumFunction([side \in Sides |->
          PendingOnSide(m, page[k], b, boundary, indexes[k], side)])
    <3> HIDE DEF indexes, boundary
    <3>1. QED BY <2>1
  <2>3. [side \in Sides |->
           PendingOnSide(m, page[k], b, boundary, indexes[k], side)]
          = [side \in Sides |-> OwedOn(<<m, side>>, page[k], b)]
    <3> HIDE DEF indexes, boundary
    <3>1. QED BY <1>6
  <2> HIDE DEF indexes, boundary, pending
  <2>4. QED BY <2>2, <2>3 DEF OwedInMarket
<1>8. SumFunction(odd) = 0
  <2>1. ASSUME NEW k \in known PROVE odd[k] = 0
    <3>1. {side \in Sides : Anomalous(boundary, indexes[k], side)} = {}
      <4> HIDE DEF indexes, boundary
      <4>1. QED BY <1>6
    <3>2. odd[k] = Cardinality({}) BY <3>1
    <3>3. QED BY <3>2, FS_EmptySet
  <2>2. DOMAIN odd = known OBVIOUS
  <2>3. IsFiniteSet(known) BY <1>4, <1>5, FS_Subset
  <2> HIDE DEF odd
  <2>4. QED BY <2>1, <2>2, <2>3, SumZero DEF SumFunction
<1>9. unread \cap Range(page) = unread BY <1>1, <1>5
<1>10. DOMAIN pending = UsersAt(page, known) BY DEF UsersAt
<1> HIDE DEF pending, odd, indexes, boundary
<1>11. /\ read.pending = pending /\ read.anomalies = SumFunction(odd)
       /\ read.failures = Cardinality(unread \cap Range(page))
                            + Cardinality(holders \ known)
  BY <1>3
<1>12. QED BY <1>7, <1>8, <1>9, <1>10, <1>11

(* As many failures are counted as users went without.                     *)
LEMMA WithoutIs ==
  ASSUME NEW m, NEW page, NEW b, NEW unread, NEW failed, NEW holders, NEW known,
         PageRead(m, page, b, unread, failed, holders, known),
         NEW without, without = Without(page, unread, failed)
  PROVE  /\ Cardinality(unread) + Cardinality(holders \ known)
              = Cardinality(without)
         /\ \A k \in holders : k \in known <=> page[k] \notin without
<1> DEFINE L == holders \ known
           gone == {page[k] : k \in L}
<1>1. /\ page \in Pages /\ unread \in SUBSET Users
      /\ holders = Holders(m, page, b, unread)
      /\ failed \in SUBSET IndexCalls(m, page, b, holders)
      /\ known = KnownOf(holders, failed)
  BY DEF PageRead
<1>2. holders \subseteq DOMAIN page /\ \A k \in holders : page[k] \notin unread
  BY <1>1 DEF Holders
<1>3. CallsOf(m, page, b, holders, IndexCalls(m, page, b, holders))
  BY <1>1, <1>2 DEF CallsOf
<1>4. /\ IsFiniteSet(holders)
      /\ \A c \in failed : c[1] \in holders /\ c = <<c[1], c[2]>>
      /\ \A c \in failed : c[2] \in Sides
  <2>1. CallsIn(IndexCalls(m, page, b, holders)) BY <1>3, CallsAre
  <2>2. \A c \in failed : c[2] \in Sides BY <1>1, <2>1 DEF CallsIn
  <2>3. QED BY <1>1, <1>3, <2>2, CallsAre
<1>5. /\ \A k \in DOMAIN page : page[k] \in Users
      /\ \A j, k \in DOMAIN page : page[j] = page[k] => j = k
  BY <1>1, PageIs
<1>6. \A k \in holders : k \in L <=> \E c \in failed : c[1] = k
  <2>1. ASSUME NEW k \in holders, k \in L PROVE \E c \in failed : c[1] = k
    <3>1. PICK side \in Sides : <<k, side>> \in failed BY <1>1, <2>1 DEF KnownOf
    <3>2. QED BY <3>1
  <2>2. ASSUME NEW c \in failed PROVE c[1] \in L
    <3>1. <<c[1], c[2]>> \in failed /\ c[2] \in Sides /\ c[1] \in holders BY <1>4
    <3>2. QED BY <1>1, <3>1 DEF KnownOf
  <2>3. QED BY <2>1, <2>2
<1>7. gone = {page[c[1]] : c \in failed}
  <2>1. ASSUME NEW k \in L PROVE \E c \in failed : page[k] = page[c[1]]
    BY <1>6
  <2>2. ASSUME NEW c \in failed PROVE \E k \in L : page[c[1]] = page[k]
    BY <1>4, <1>6
  <2>3. QED BY <2>1, <2>2
<1>8. without = unread \cup gone BY <1>7 DEF Without
<1>9. unread \cap gone = {} BY <1>2
<1>10. IsFiniteSet(L) BY <1>4, FS_Subset
<1> HIDE DEF L
<1>11. IsFiniteSet(gone) /\ Cardinality(gone) = Cardinality(L)
  <2> DEFINE f == [k \in L |-> page[k]]
  <2>1. f \in [L -> gone] OBVIOUS
  <2>2. \A j, k \in L : f[j] = f[k] => j = k BY <1>2, <1>5 DEF L
  <2>3. \A u \in gone : \E k \in L : f[k] = u OBVIOUS
  <2> HIDE DEF f, gone
  <2>4. f \in Injection(L, gone) /\ f \in Surjection(L, gone)
    BY <2>1, <2>2, <2>3 DEF Injection, IsInjective, Surjection
  <2>5. QED BY <1>10, <2>4, FS_Surjection
<1>12. \A k \in holders : k \in known <=> page[k] \notin without
  <2>1. ASSUME NEW k \in holders, page[k] \in gone PROVE k \in L
    <3>1. PICK j \in L : page[k] = page[j] BY <2>1
    <3>2. j = k BY <1>2, <1>5, <3>1 DEF L
    <3>3. QED BY <3>1, <3>2
  <2>2. \A k \in holders : k \in L => page[k] \in gone OBVIOUS
  <2> HIDE DEF gone
  <2>3. \A k \in holders : page[k] \in without <=> page[k] \in gone
    BY <1>2, <1>8
  <2>4. \A k \in holders : k \in L <=> k \notin known BY DEF L
  <2>5. QED BY <2>1, <2>2, <2>3, <2>4
<1> HIDE DEF gone
<1>13. Cardinality(without) = Cardinality(unread) + Cardinality(L)
  <2>1. IsFiniteSet(unread) BY <1>1, FiniteUsers, FS_Subset
  <2>2. Cardinality(unread \cup gone)
          = Cardinality(unread) + Cardinality(gone) - Cardinality({})
    BY <1>9, <1>11, <2>1, FS_Union
  <2>3. Cardinality({}) = 0 BY FS_EmptySet
  <2>4. Cardinality(unread) \in Nat /\ Cardinality(gone) \in Nat
    BY <1>11, <2>1, FS_CardinalityType
  <2>5. PICK x, y : x = Cardinality(unread) /\ y = Cardinality(gone) OBVIOUS
  <2>6. x \in Nat /\ y \in Nat /\ x + y - 0 = x + y BY <2>4, <2>5
  <2>7. Cardinality(without) = x + y BY <1>8, <2>2, <2>3, <2>5, <2>6
  <2>8. QED BY <1>11, <2>5, <2>7
<1>14. Cardinality(unread) + Cardinality(holders \ known)
         = Cardinality(without)
  BY <1>13 DEF L
<1>15. QED BY <1>12, <1>14

(* Users who hold nothing are owed nothing.                                *)
LEMMA NothingHeld ==
  ASSUME NEW b, BlockRead(b), NEW m \in Markets, NEW u \in Users,
         Held(m, u, b) = NoPending
  PROVE  OwedInMarket(m, u, b) = 0
<1> DEFINE f == [side \in Sides |-> OwedOn(<<m, side>>, u, b)]
<1>1. ASSUME NEW side \in Sides PROVE f[side] = 0
  <2>1. ShareOf(blocks[b], <<m, side>>, u) = 0 BY HeldIs
  <2>2. <<m, side>> \in Pools BY DEF Pools
  <2>3. OwedOn(<<m, side>>, u, b) = 0 BY <2>1, <2>2, OwedAt
  <2>4. QED BY <2>3
<1>2. DOMAIN f = Sides OBVIOUS
<1> HIDE DEF f
<1>3. SumFunction(f) = 0 BY <1>1, <1>2, FiniteSides, SumZero DEF SumFunction
<1>4. QED BY <1>3 DEF OwedInMarket, f

(* One read of a page.                                                     *)
ReadExact(m, page, b, unread, failed, read, without) ==
  /\ read.failures = Cardinality(without)
  /\ read.anomalies = 0
  /\ DOMAIN read.pending \cap without = {}
  /\ \A u \in Users \ without :
       (IF u \in DOMAIN read.pending THEN read.pending[u] ELSE 0)
         = OwedInMarket(m, u, b)

LEMMA PageExact ==
  ASSUME NEW m, NEW page, NEW b, NEW unread, NEW failed, NEW holders, NEW known,
         PageRead(m, page, b, unread, failed, holders, known),
         NEW read, read = ReadPendingByUser(m, page, b, unread, failed),
         NEW without, without = Without(page, unread, failed)
  PROVE  ReadExact(m, page, b, unread, failed, read, without)
<1>1. /\ BlockRead(b) /\ m \in Markets /\ page \in Pages
      /\ holders = Holders(m, page, b, unread)
      /\ known = KnownOf(holders, failed)
  BY DEF PageRead
<1>2. /\ DOMAIN read.pending = UsersAt(page, known)
      /\ \A k \in known : read.pending[page[k]] = OwedInMarket(m, page[k], b)
      /\ read.failures = Cardinality(unread) + Cardinality(holders \ known)
      /\ read.anomalies = 0
  BY ReadIs
<1>3. /\ Cardinality(unread) + Cardinality(holders \ known)
           = Cardinality(without)
      /\ \A k \in holders : k \in known <=> page[k] \notin without
  BY WithoutIs
<1>4. known \subseteq holders BY <1>1 DEF KnownOf
<1>5. DOMAIN read.pending \cap without = {}
  BY <1>2, <1>3, <1>4 DEF UsersAt
<1>6. ASSUME NEW u \in Users, u \notin without
      PROVE  (IF u \in DOMAIN read.pending THEN read.pending[u] ELSE 0)
               = OwedInMarket(m, u, b)
  <2>1. PICK k \in DOMAIN page : page[k] = u BY <1>1, PageIs
  <2>2. u \notin unread BY <1>6 DEF Without
  <2>3. CASE k \in holders
    <3>1. k \in known BY <1>3, <1>6, <2>1, <2>3
    <3>2. u \in DOMAIN read.pending /\ read.pending[u] = OwedInMarket(m, u, b)
      BY <1>2, <2>1, <3>1 DEF UsersAt
    <3>3. QED BY <3>2
  <2>4. CASE k \notin holders
    <3>1. Held(m, u, b) = NoPending BY <1>1, <2>1, <2>2, <2>4 DEF Holders
    <3>2. OwedInMarket(m, u, b) = 0 BY <1>1, <3>1, NothingHeld
    <3>3. u \notin DOMAIN read.pending
      <4>1. SUFFICES ASSUME u \in DOMAIN read.pending PROVE FALSE OBVIOUS
      <4>2. PICK j \in known : page[j] = u BY <1>2, <4>1 DEF UsersAt
      <4>3. j \in holders BY <1>4, <4>2
      <4>4. Held(m, page[j], b) # NoPending BY <1>1, <4>3 DEF Holders
      <4>5. QED BY <3>1, <4>2, <4>4
    <3>4. QED BY <3>2, <3>3
  <2>5. QED BY <2>3, <2>4
<1>7. QED BY <1>2, <1>3, <1>5, <1>6 DEF ReadExact

(* Whichever of its calls fail, V2CompStateService reads of every user it  *)
(* knows what the Comptroller owes, and counts those it does not know: in  *)
(* every chain, for any number of users, markets and blocks.               *)
THEOREM PendingAlwaysExact == Spec => []PendingExact
<1>1. ASSUME CalcInv PROVE PendingExact
  <2> DEFINE b == LatestBlock
  <2>1. b \in 0 .. LastBlock /\ ChainOK(blocks, b)
    BY <1>1 DEF CalcInv, ChainInv
  <2>2. LastBlock \in Nat BY ChainAssumption
  <2>3. b \in Nat /\ \A c \in 0 .. b : StateOK(blocks, c)
    BY <2>1, <2>2 DEF ChainOK
  <2>4. RewardsFrom \in Nat
    <3>1. StateOK(blocks, 0) BY <2>3
    <3>2. blocks[0] \in StateType BY <3>1 DEF StateOK
    <3>3. QED BY <3>2, FieldsOf DEF RewardsFrom
  <2>5. BlockRead(b) BY <2>3, <2>4 DEF BlockRead
  <2> HIDE DEF b
  <2>6. ASSUME NEW m \in Markets, NEW page \in Pages, NEW unread \in SUBSET Users,
               BoundaryRead(m, b, FALSE) # None,
               NEW failed \in
                 SUBSET IndexCalls(m, page, b, Holders(m, page, b, unread)),
               NEW read, read = ReadPendingByUser(m, page, b, unread, failed),
               NEW without, without = Without(page, unread, failed)
        PROVE  ReadExact(m, page, b, unread, failed, read, without)
    <3>1. LiveFrom(m) <= b BY <2>5, <2>6, Readable
    <3>2. PICK holders, known : /\ holders = Holders(m, page, b, unread)
                                /\ known = KnownOf(holders, failed)
      OBVIOUS
    <3>3. PageRead(m, page, b, unread, failed, holders, known)
      BY <2>5, <3>1, <3>2 DEF PageRead
    <3>4. QED BY <2>6, <3>3, PageExact
  <2>7. ASSUME NEW m \in Markets, NEW page \in Pages, NEW unread \in SUBSET Users,
               BoundaryRead(m, LatestBlock, FALSE) # None,
               NEW failed \in SUBSET
                 IndexCalls(m, page, LatestBlock,
                            Holders(m, page, LatestBlock, unread))
        PROVE  ReadExact(m, page, LatestBlock, unread, failed,
                 ReadPendingByUser(m, page, LatestBlock, unread, failed),
                 Without(page, unread, failed))
    BY <2>6, <2>7 DEF b
  <2>8. QED BY <2>7 DEF PendingExact, ReadExact, OwedInMarket, Without
<1>2. Spec => []CalcInv BY CalculationInvariant
<1>3. QED BY <1>1, <1>2, PTL
=============================================================================
