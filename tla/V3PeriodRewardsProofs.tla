----------------------- MODULE V3PeriodRewardsProofs -----------------------
(***************************************************************************)
(* Proofs about V3PeriodRewards for every set of Comets, users and tokens, *)
(* every chain and every markets list: the report agrees with the chain to *)
(* the wei, and the export pays what is owed and refuses no result.        *)
(*                                                                         *)
(* 1. The chain (ChainOK).  Only what was tracked is paid, by a Comet that *)
(*    is configured; claimed is the sum of the payments; a user who never  *)
(*    was active has nothing.                                              *)
(* 2. Rows and totals (RowsFit, TotalsFit).  Every total is the sum of the *)
(*    rows of its user in the Comets that pay its token.                   *)
(* 3. The calculation (CalcInv).  A Comet that is through agrees with the  *)
(*    chain (Settled), one that is left has no rows.                       *)
(* 4. The export.                                                          *)
(***************************************************************************)
EXTENDS V3PeriodRewards, SumTheorems

-----------------------------------------------------------------------------
(* The chain.                                                              *)

StateType ==
  [deployedAt : Nat, position : [Accounts -> Nat], tracked : [Accounts -> Nat],
   claimed : [Accounts -> Nat], configured : SUBSET Markets,
   paid : [Accounts -> Nat], active : SUBSET Accounts]

(* Block b of the chain bl: only what was tracked was paid, only by a      *)
(* Comet that is configured, and a user who was never active has nothing.  *)
StateOK(bl, b) ==
  /\ bl[b] \in StateType
  /\ \A a \in Accounts :
       /\ bl[b].claimed[a] <= bl[b].tracked[a]
       /\ bl[b].claimed[a] > 0 => a[1] \in bl[b].configured
       /\ (\A c \in 0 .. b : a \notin bl[c].active) =>
            bl[b].position[a] = 0 /\ bl[b].tracked[a] = 0
  /\ \A m \in bl[b].configured : ListedAt[m] <= b /\ bl[0].deployedAt <= b

Follows(st, next) ==
  /\ \A a \in Accounts : next.claimed[a] = st.claimed[a] + next.paid[a]
  /\ st.configured \subseteq next.configured

ChainOK(bl, l) ==
  /\ DOMAIN bl = 0 .. l
  /\ \A b \in 0 .. l : StateOK(bl, b)
  /\ \A b \in 1 .. l : Follows(bl[b - 1], bl[b])

ChainInv == LatestBlock \in 0 .. LastBlock /\ ChainOK(blocks, LatestBlock)

(* st may follow the last block.                                           *)
MayFollow(bl, l, st) ==
  /\ st \in StateType
  /\ \A a \in Accounts :
       /\ st.claimed[a] <= st.tracked[a]
       /\ st.claimed[a] > 0 => a[1] \in st.configured
       /\ bl[l].position[a] = 0 /\ bl[l].tracked[a] = 0 /\ a \notin st.active
          => st.position[a] = 0 /\ st.tracked[a] = 0
  /\ \A m \in st.configured : ListedAt[m] <= l + 1 /\ bl[0].deployedAt <= l + 1
  /\ Follows(bl[l], st)

(* A block that may follow is appended.                                    *)
LEMMA Appended ==
  ASSUME NEW bl, NEW l \in Nat, NEW st, ChainOK(bl, l), MayFollow(bl, l, st),
         NEW cl, cl = Over([b \in {l + 1} |-> st], bl)
  PROVE  ChainOK(cl, l + 1)
<1>1. DOMAIN cl = 0 .. l + 1 BY DEF ChainOK, Over
<1>2. cl[l + 1] = st BY DEF Over
<1>3. \A b \in 0 .. l : cl[b] = bl[b] BY DEF ChainOK, Over
<1>4. ASSUME NEW b \in 0 .. l PROVE StateOK(cl, b)
  <2>1. StateOK(bl, b) BY DEF ChainOK
  <2>2. cl[b] = bl[b] /\ cl[0] = bl[0] /\ \A c \in 0 .. b : cl[c] = bl[c]
    BY <1>3
  <2>3. QED BY <2>1, <2>2 DEF StateOK
<1>5. StateOK(cl, l + 1)
  <2>1. ASSUME NEW a \in Accounts, \A c \in 0 .. l + 1 : a \notin cl[c].active
        PROVE  st.position[a] = 0 /\ st.tracked[a] = 0
    <3>1. \A c \in 0 .. l : a \notin bl[c].active BY <1>3, <2>1
    <3>2. StateOK(bl, l) BY DEF ChainOK
    <3>3. bl[l].position[a] = 0 /\ bl[l].tracked[a] = 0
      BY <3>1, <3>2 DEF StateOK
    <3>4. a \notin st.active BY <1>2, <2>1
    <3>5. QED BY <3>3, <3>4 DEF MayFollow
  <2>2. cl[0] = bl[0] BY <1>3
  <2>3. QED BY <1>2, <2>1, <2>2 DEF StateOK, MayFollow
<1>6. ASSUME NEW b \in 1 .. l + 1 PROVE Follows(cl[b - 1], cl[b])
  <2>1. CASE b \in 1 .. l
    <3>1. Follows(bl[b - 1], bl[b]) BY <2>1 DEF ChainOK
    <3>2. QED BY <1>3, <2>1, <3>1
  <2>2. CASE b = l + 1
    <3>1. cl[b - 1] = bl[l] BY <1>3, <2>2
    <3>2. QED BY <1>2, <2>2, <3>1 DEF MayFollow
  <2>3. QED BY <2>1, <2>2
<1>7. \A b \in 0 .. l + 1 : StateOK(cl, b)
  BY <1>4, <1>5
<1>8. QED BY <1>1, <1>6, <1>7 DEF ChainOK

(* Time passes.                                                            *)
LEMMA OpenedOK ==
  ASSUME NEW bl, NEW l \in Nat, ChainOK(bl, l), l + 1 \in 0 .. LastBlock,
         NEW st, st = Opened(bl[l], l + 1)
  PROVE  /\ MayFollow(bl, l, st)
         /\ \A a \in Accounts : st.paid[a] = 0
         /\ st.active = {}
         /\ st.claimed = bl[l].claimed
<1> DEFINE dt == Time[l + 1] - Time[l]
<1>1. StateOK(bl, l) BY DEF ChainOK
<1>2. bl[l] \in StateType BY <1>1 DEF StateOK
<1>3. dt \in Nat
  <2>1. l + 1 \in 1 .. LastBlock /\ l \in 0 .. LastBlock /\ (l + 1) - 1 = l
    BY ChainAssumption
  <2>2. Time[(l + 1) - 1] <= Time[l + 1] BY <2>1, ChainAssumption
  <2>3. Time[l] \in Nat /\ Time[l + 1] \in Nat BY <2>1, ChainAssumption
  <2>4. QED BY <2>1, <2>2, <2>3
<1>4. (l + 1) - 1 = l OBVIOUS
<1>5. /\ st.tracked =
           [a \in Accounts |-> bl[l].tracked[a] + bl[l].position[a] * dt]
      /\ st.paid = [a \in Accounts |-> 0] /\ st.active = {}
      /\ st.claimed = bl[l].claimed /\ st.position = bl[l].position
      /\ st.configured = bl[l].configured /\ st.deployedAt = bl[l].deployedAt
      /\ st = [deployedAt |-> st.deployedAt, position |-> st.position,
               tracked |-> st.tracked, claimed |-> st.claimed,
               configured |-> st.configured, paid |-> st.paid,
               active |-> st.active]
  BY <1>2, <1>4 DEF Opened, StateType
<1> HIDE DEF dt
<1>6. \A a \in Accounts :
        /\ bl[l].tracked[a] \in Nat /\ bl[l].position[a] \in Nat
        /\ bl[l].claimed[a] \in Nat
        /\ bl[l].position[a] * dt \in Nat
        /\ bl[l].position[a] = 0 => bl[l].position[a] * dt = 0
  <2>1. \A a \in Accounts :
        /\ bl[l].tracked[a] \in Nat /\ bl[l].position[a] \in Nat
        /\ bl[l].claimed[a] \in Nat
    BY <1>2 DEF StateType
  <2>2. QED BY <1>3, <2>1, Products
<1>7. st \in StateType
  <2>1. st.tracked \in [Accounts -> Nat] BY <1>5, <1>6
  <2>2. st.paid \in [Accounts -> Nat] BY <1>5
  <2>3. QED BY <1>2, <1>5, <2>1, <2>2 DEF StateType
<1>8. Follows(bl[l], st)
  <2>1. \A a \in Accounts : st.claimed[a] = bl[l].claimed[a] + st.paid[a]
    BY <1>5, <1>6
  <2>2. QED BY <1>5, <2>1 DEF Follows
<1>9. \A a \in Accounts :
        /\ st.claimed[a] <= st.tracked[a]
        /\ st.claimed[a] > 0 => a[1] \in st.configured
        /\ bl[l].position[a] = 0 /\ bl[l].tracked[a] = 0
           => st.position[a] = 0 /\ st.tracked[a] = 0
  <2> TAKE a \in Accounts
  <2>1. st.tracked[a] = bl[l].tracked[a] + bl[l].position[a] * dt BY <1>5
  <2>2. st.claimed[a] <= st.tracked[a]
    <3>1. bl[l].claimed[a] <= bl[l].tracked[a] BY <1>1 DEF StateOK
    <3>2. st.claimed[a] = bl[l].claimed[a] BY <1>5
    <3>3. QED BY <1>6, <2>1, <3>1, <3>2
  <2>3. st.claimed[a] > 0 => a[1] \in st.configured BY <1>1, <1>5 DEF StateOK
  <2>4. QED BY <1>5, <1>6, <2>1, <2>2, <2>3
<1>10. \A m \in st.configured :
         ListedAt[m] <= l + 1 /\ bl[0].deployedAt <= l + 1
  <2>1. bl[0].deployedAt \in Nat
    <3>1. StateOK(bl, 0) BY DEF ChainOK
    <3>2. QED BY <3>1 DEF StateOK, StateType
  <2>2. \A m \in Markets : ListedAt[m] \in Nat BY ChainAssumption
  <2>3. st.configured = bl[l].configured /\ bl[l].configured \subseteq Markets
    BY <1>2, <1>5 DEF StateType
  <2>4. \A m \in bl[l].configured : ListedAt[m] <= l /\ bl[0].deployedAt <= l
    BY <1>1 DEF StateOK
  <2>5. QED BY <2>1, <2>2, <2>3, <2>4
<1>11. QED BY <1>5, <1>7, <1>8, <1>9, <1>10 DEF MayFollow

(* Whatever happened before block 0.                                       *)
LEMMA GenesisOK == Init => ChainInv
<1> SUFFICES ASSUME Init PROVE ChainInv OBVIOUS
<1>1. PICK past \in Pasts : blocks = [b \in {0} |-> Genesis(past)] BY DEF Init
<1>2. DOMAIN blocks = 0 .. 0 /\ blocks[0] = Genesis(past) BY <1>1
<1>3. LatestBlock = 0
  <2>1. 0 .. 0 = {0} OBVIOUS
  <2>a. Cardinality({0}) = 1 BY FS_Singleton
  <2>2. QED BY <1>2, <2>1, <2>a DEF LatestBlock
<1> DEFINE g == Genesis(past)
<1>4. /\ past.deployedAt \in Nat
      /\ past.configured \subseteq {m \in Markets : ListedAt[m] = 0}
      /\ {past.position, past.tracked, past.claimed} \subseteq [Accounts -> Nat]
      /\ \A a \in Accounts :
           /\ past.claimed[a] <= past.tracked[a]
           /\ past.claimed[a] > 0 => a[1] \in past.configured
      /\ past.configured # {} => past.deployedAt = 0
  BY PastAssumption DEF Accounts
<1>5. g \in StateType
  <2>1. [a \in Accounts |-> 0] \in [Accounts -> Nat] OBVIOUS
  <2>2. QED BY <1>4, <2>1 DEF Genesis, StateType
<1>6. StateOK(blocks, 0)
  <2>1. ASSUME NEW a \in Accounts, \A c \in 0 .. 0 : a \notin blocks[c].active
        PROVE  g.position[a] = 0 /\ g.tracked[a] = 0
    <3>1. a \notin g.active BY <1>2, <2>1
    <3>2. past.position[a] \in Nat /\ past.tracked[a] \in Nat BY <1>4
    <3>3. ~(past.position[a] + past.tracked[a] > 0)
      BY <3>1 DEF Genesis
    <3>4. QED BY <3>2, <3>3 DEF Genesis
  <2>2. \A m \in g.configured : ListedAt[m] <= 0 /\ g.deployedAt <= 0
    BY <1>4 DEF Genesis
  <2>3. \A a \in Accounts :
           /\ g.claimed[a] <= g.tracked[a]
           /\ g.claimed[a] > 0 => a[1] \in g.configured
    BY <1>4 DEF Genesis
  <2>4. \A a \in Accounts :
          (\A c \in 0 .. 0 : a \notin blocks[c].active) =>
            g.position[a] = 0 /\ g.tracked[a] = 0
    BY <2>1
  <2>5. blocks[0] = g BY <1>2
  <2> HIDE DEF g
  <2>6. \A m \in blocks[0].configured :
          ListedAt[m] <= 0 /\ blocks[0].deployedAt <= 0
    BY <2>2, <2>5
  <2>7. \A a \in Accounts :
          /\ blocks[0].claimed[a] <= blocks[0].tracked[a]
          /\ blocks[0].claimed[a] > 0 => a[1] \in blocks[0].configured
          /\ (\A c \in 0 .. 0 : a \notin blocks[c].active) =>
               blocks[0].position[a] = 0 /\ blocks[0].tracked[a] = 0
    BY <2>3, <2>4, <2>5
  <2>8. blocks[0] \in StateType BY <1>5, <2>5
  <2>9. QED BY <2>6, <2>7, <2>8 DEF StateOK
<1>7. \A b \in 0 .. 0 : StateOK(blocks, b) BY <1>6
<1>8. LastBlock \in Nat BY ChainAssumption
<1>9. QED BY <1>2, <1>3, <1>7, <1>8 DEF ChainInv, ChainOK

(* The chain after a block that may follow.                                *)
LEMMA BlockAdded ==
  ASSUME ChainInv, LatestBlock < LastBlock,
         NEW st, MayFollow(blocks, LatestBlock, st), NextBlock(st)
  PROVE  ChainInv'
<1>0. LatestBlock \in Nat /\ LastBlock \in Nat
  BY ChainAssumption DEF ChainInv
<1>1. ChainOK(blocks', LatestBlock + 1)
  BY <1>0, Appended DEF NextBlock, ChainInv
<1>2. DOMAIN blocks' = 0 .. LatestBlock + 1 BY <1>1 DEF ChainOK
<1>3. LatestBlock' = LatestBlock + 1
  <2>1. Cardinality(0 .. LatestBlock + 1) = LatestBlock + 2 BY <1>0, FS_Interval
  <2>2. QED BY <1>0, <1>2, <2>1 DEF LatestBlock
<1>4. QED BY <1>0, <1>1, <1>3 DEF ChainInv

LEMMA DeployedType ==
  ASSUME ChainInv
  PROVE  DeployedAt = blocks[0].deployedAt /\ DeployedAt \in Nat
<1>1. StateOK(blocks, 0) BY DEF ChainInv, ChainOK
<1>2. QED BY <1>1 DEF StateOK, StateType, DeployedAt

(* Every transaction makes a block that may follow.                        *)
LEMMA ChainStep ==
  ASSUME ChainInv, ChainGrows
  PROVE  ChainInv'
<1> DEFINE l == LatestBlock
           st == Opened(blocks[l], l + 1)
<1>0. l \in Nat /\ l < LastBlock /\ LastBlock \in Nat /\ ChainOK(blocks, l)
  BY ChainAssumption DEF ChainInv, ChainGrows
<1>1. (l + 1) - 1 = l /\ l + 1 \in 0 .. LastBlock BY <1>0
<1>2. /\ MayFollow(blocks, l, st)
      /\ \A a \in Accounts : st.paid[a] = 0
      /\ st.active = {}
      /\ st.claimed = blocks[l].claimed
  <2>1. PICK o : o = Opened(blocks[l], l + 1) OBVIOUS
  <2>2. /\ MayFollow(blocks, l, o)
        /\ \A a \in Accounts : o.paid[a] = 0
        /\ o.active = {}
        /\ o.claimed = blocks[l].claimed
    BY <1>0, <1>1, <2>1, OpenedOK
  <2>3. QED BY <2>1, <2>2
<1>3. \/ \E a \in Accounts, x \in Positions : SetPosition(st, l + 1, a, x)
      \/ \E a \in Accounts : ClaimRewards(st, l + 1, a)
      \/ \E m \in Markets : Configure(st, l + 1, m)
      \/ NextBlock(st)
  <2>1. (LatestBlock + 1) - 1 = LatestBlock BY <1>0
  <2>2. blocks[(LatestBlock + 1) - 1] = blocks[LatestBlock] BY <2>1
  <2>3. Opened(blocks[(LatestBlock + 1) - 1], l + 1) = st BY <2>2
  <2> DEFINE opened == Opened(blocks[(LatestBlock + 1) - 1], LatestBlock + 1)
  <2>4. \/ \E a \in Accounts, x \in Positions :
             SetPosition(opened, LatestBlock + 1, a, x)
        \/ \E a \in Accounts : ClaimRewards(opened, LatestBlock + 1, a)
        \/ \E m \in Markets : Configure(opened, LatestBlock + 1, m)
        \/ NextBlock(opened)
    BY Zenon DEF ChainGrows
  <2>5. opened = st BY <2>3
  <2> HIDE DEF opened, st
  <2>6. QED BY <2>4, <2>5
<1> HIDE DEF st
<1>4. DeployedAt = blocks[0].deployedAt BY DeployedType
<1>5. st \in StateType BY <1>2 DEF MayFollow
<1>6. ASSUME NEW f, MayFollow(blocks, l, f), NextBlock(f) PROVE ChainInv'
  BY <1>0, <1>6, BlockAdded
<1>7. ASSUME NEW a \in Accounts, NEW x \in Positions,
             SetPosition(st, l + 1, a, x)
      PROVE  ChainInv'
  <2> DEFINE f == [st EXCEPT !.position[a] = x, !.active = {a}]
  <2>1. NextBlock(f) BY <1>7 DEF SetPosition
  <2>2. x \in Nat BY ChainAssumption
  <2>3. f \in StateType BY <1>5, <2>2 DEF StateType
  <2>4. /\ f.claimed = st.claimed /\ f.tracked = st.tracked
        /\ f.paid = st.paid /\ f.configured = st.configured
        /\ f.active = {a}
        /\ \A c \in Accounts : c # a => f.position[c] = st.position[c]
    BY <1>5 DEF StateType
  <2> HIDE DEF f
  <2>5. \A c \in Accounts :
          /\ f.claimed[c] <= f.tracked[c]
          /\ f.claimed[c] > 0 => c[1] \in f.configured
          /\ blocks[l].position[c] = 0 /\ blocks[l].tracked[c] = 0
             /\ c \notin f.active
             => f.position[c] = 0 /\ f.tracked[c] = 0
    <3> TAKE c \in Accounts
    <3>1. f.claimed[c] <= f.tracked[c]
          /\ (f.claimed[c] > 0 => c[1] \in f.configured)
      BY <1>2, <2>4 DEF MayFollow
    <3>2. ASSUME blocks[l].position[c] = 0, blocks[l].tracked[c] = 0,
                 c \notin f.active
          PROVE  f.position[c] = 0 /\ f.tracked[c] = 0
      <4>1. c # a BY <2>4, <3>2
      <4>2. c \notin st.active BY <1>2
      <4>3. st.position[c] = 0 /\ st.tracked[c] = 0
        BY <1>2, <3>2, <4>2 DEF MayFollow
      <4>4. QED BY <2>4, <4>1, <4>3
    <3>3. QED BY <3>1, <3>2
  <2>6. Follows(blocks[l], f)
    BY <1>2, <2>4 DEF MayFollow, Follows
  <2>7. MayFollow(blocks, l, f)
    BY <1>2, <2>3, <2>4, <2>5, <2>6 DEF MayFollow
  <2>8. QED BY <1>6, <2>1, <2>7
<1>8. ASSUME NEW a \in Accounts, ClaimRewards(st, l + 1, a) PROVE ChainInv'
  <2> DEFINE f == [st EXCEPT !.claimed[a] = @ + OwedIn(st, a),
                             !.paid[a] = OwedIn(st, a)]
  <2>1. NextBlock(f) /\ OwedIn(st, a) > 0 /\ a[1] \in st.configured
    BY <1>8 DEF ClaimRewards, Paying
  <2>2. st.tracked[a] \in Nat /\ st.claimed[a] \in Nat BY <1>5 DEF StateType
  <2>3. OwedIn(st, a) = st.tracked[a] - st.claimed[a] /\ OwedIn(st, a) \in Nat
    BY <2>1, <2>2 DEF OwedIn
  <2>4. st.claimed[a] + OwedIn(st, a) = st.tracked[a] BY <2>2, <2>3
  <2>5. f \in StateType BY <1>5, <2>2, <2>3, <2>4 DEF StateType
  <2>6. /\ f.tracked = st.tracked /\ f.position = st.position
        /\ f.configured = st.configured /\ f.active = {}
        /\ f.claimed[a] = st.tracked[a] /\ f.paid[a] = OwedIn(st, a)
        /\ \A c \in Accounts : c # a => /\ f.claimed[c] = st.claimed[c]
                                        /\ f.paid[c] = st.paid[c]
    BY <1>2, <1>5, <2>4 DEF StateType
  <2> HIDE DEF f
  <2>7. \A c \in Accounts :
          /\ f.claimed[c] <= f.tracked[c]
          /\ f.claimed[c] > 0 => c[1] \in f.configured
          /\ blocks[l].position[c] = 0 /\ blocks[l].tracked[c] = 0
             /\ c \notin f.active
             => f.position[c] = 0 /\ f.tracked[c] = 0
    <3> TAKE c \in Accounts
    <3>1. f.claimed[c] <= f.tracked[c]
      <4>1. CASE c = a BY <2>2, <2>6, <4>1
      <4>2. CASE c # a BY <1>2, <2>6, <4>2 DEF MayFollow
      <4>3. QED BY <4>1, <4>2
    <3>2. f.claimed[c] > 0 => c[1] \in f.configured
      <4>1. CASE c = a BY <2>1, <2>6, <4>1
      <4>2. CASE c # a BY <1>2, <2>6, <4>2 DEF MayFollow
      <4>3. QED BY <4>1, <4>2
    <3>3. blocks[l].position[c] = 0 /\ blocks[l].tracked[c] = 0
          => f.position[c] = 0 /\ f.tracked[c] = 0
      BY <1>2, <2>6 DEF MayFollow
    <3>4. QED BY <3>1, <3>2, <3>3
  <2>8. Follows(blocks[l], f)
    <3>1. \A c \in Accounts : f.claimed[c] = blocks[l].claimed[c] + f.paid[c]
      <4> TAKE c \in Accounts
      <4>1. CASE c = a
        <5>1. st.claimed[a] + OwedIn(st, a) = f.claimed[a] BY <2>4, <2>6
        <5>2. QED BY <1>2, <2>6, <4>1, <5>1
      <4>2. CASE c # a BY <1>2, <2>6, <4>2 DEF MayFollow, Follows
      <4>3. QED BY <4>1, <4>2
    <3>2. QED BY <1>2, <2>6, <3>1 DEF MayFollow, Follows
  <2>9. MayFollow(blocks, l, f)
    BY <1>2, <2>5, <2>6, <2>7, <2>8 DEF MayFollow
  <2>10. QED BY <1>6, <2>1, <2>9
<1>9. ASSUME NEW m \in Markets, Configure(st, l + 1, m) PROVE ChainInv'
  <2> DEFINE f == [st EXCEPT !.configured = @ \cup {m}]
  <2>1. NextBlock(f) /\ DeployedAt <= l + 1 /\ ListedAt[m] <= l + 1
    BY <1>9 DEF Configure
  <2>2. f \in StateType BY <1>5 DEF StateType
  <2>3. /\ f.claimed = st.claimed /\ f.tracked = st.tracked
        /\ f.paid = st.paid /\ f.position = st.position
        /\ f.configured = st.configured \cup {m} /\ f.active = st.active
    BY <1>5 DEF StateType
  <2> HIDE DEF f
  <2>4. \A c \in f.configured :
          ListedAt[c] <= l + 1 /\ blocks[0].deployedAt <= l + 1
    BY <1>2, <1>4, <2>1, <2>3 DEF MayFollow
  <2>5. Follows(blocks[l], f)
    BY <1>2, <2>3 DEF MayFollow, Follows
  <2>6. \A c \in Accounts :
          /\ f.claimed[c] <= f.tracked[c]
          /\ f.claimed[c] > 0 => c[1] \in f.configured
          /\ blocks[l].position[c] = 0 /\ blocks[l].tracked[c] = 0
             /\ c \notin f.active
             => f.position[c] = 0 /\ f.tracked[c] = 0
    BY <1>2, <2>3 DEF MayFollow
  <2>7. MayFollow(blocks, l, f) BY <2>2, <2>4, <2>5, <2>6 DEF MayFollow
  <2>8. QED BY <1>6, <2>1, <2>7
<1>10. NextBlock(st) => ChainInv' BY <1>2, <1>6
<1>11. QED BY <1>3, <1>7, <1>8, <1>9, <1>10

LEMMA ChainKept == ASSUME ChainInv, UNCHANGED blocks PROVE ChainInv'
BY DEF ChainInv, LatestBlock

-----------------------------------------------------------------------------
(* Two blocks of the chain.                                                *)

(* Time does not go back.                                                  *)
LEMMA TimeGrows ==
  ASSUME NEW a \in 0 .. LastBlock, NEW b \in 0 .. LastBlock, a <= b
  PROVE  Time[a] <= Time[b]
<1> DEFINE S == {k \in Nat : a + k <= LastBlock => Time[a] <= Time[a + k]}
<1>0. LastBlock \in Nat /\ a \in Nat /\ b \in Nat BY ChainAssumption
<1>1. \A c \in 0 .. LastBlock : Time[c] \in Nat BY ChainAssumption
<1>2. 0 \in S
  <2>1. a + 0 = a BY <1>0
  <2>2. Time[a] <= Time[a] BY <1>1
  <2>3. QED BY <2>1, <2>2
<1>3. ASSUME NEW k \in 1 .. b - a, k - 1 \in S PROVE k \in S
  <2>1. a + k \in 1 .. LastBlock /\ (a + k) - 1 = a + (k - 1)
        /\ a + (k - 1) \in 0 .. LastBlock
    BY <1>0
  <2>2. Time[(a + k) - 1] <= Time[a + k] BY <2>1, ChainAssumption
  <2>3. Time[a] <= Time[a + (k - 1)] BY <1>3, <2>1
  <2>4. Time[a] \in Nat /\ Time[a + k] \in Nat /\ Time[a + (k - 1)] \in Nat
    BY <1>1, <2>1
  <2>5. Time[a] <= Time[a + k] BY <2>1, <2>2, <2>3, <2>4
  <2>6. QED BY <2>5
<1>4. b - a \in Nat BY <1>0
<1>5. b - a \in S
  <2> HIDE DEF S
  <2>1. \A k \in 0 .. b - a : k \in S BY <1>2, <1>3, <1>4, Induct
  <2>2. QED BY <1>4, <2>1
<1>6. a + (b - a) = b BY <1>0
<1>7. QED BY <1>0, <1>5, <1>6

(* A Comet stays configured.                                               *)
LEMMA ConfiguredStays ==
  ASSUME NEW bl, NEW l \in Nat, ChainOK(bl, l),
         NEW a \in 0 .. l, NEW b \in 0 .. l, a <= b
  PROVE  bl[a].configured \subseteq bl[b].configured
<1> DEFINE S == {k \in Nat : a + k <= l =>
                               bl[a].configured \subseteq bl[a + k].configured}
<1>1. 0 \in S
  <2>1. a + 0 = a OBVIOUS
  <2>2. QED BY <2>1
<1>2. ASSUME NEW k \in 1 .. b - a, k - 1 \in S PROVE k \in S
  <2>1. a + k \in 1 .. l /\ (a + k) - 1 = a + (k - 1) /\ a + (k - 1) <= l
    OBVIOUS
  <2>2. bl[(a + k) - 1].configured \subseteq bl[a + k].configured
    BY <2>1 DEF ChainOK, Follows
  <2>3. QED BY <1>2, <2>1, <2>2
<1>3. b - a \in Nat OBVIOUS
<1>4. b - a \in S
  <2> HIDE DEF S
  <2>1. \A k \in 0 .. b - a : k \in S BY <1>1, <1>2, <1>3, Induct
  <2>2. QED BY <1>3, <2>1
<1>5. a + (b - a) = b OBVIOUS
<1>6. QED BY <1>4, <1>5

(* What a block holds.                                                     *)
LEMMA BlockTypes ==
  ASSUME NEW bl, NEW l \in Nat, ChainOK(bl, l), NEW b \in 0 .. l,
         NEW a \in Accounts
  PROVE  /\ bl[b].claimed[a] \in Nat /\ bl[b].tracked[a] \in Nat
         /\ bl[b].paid[a] \in Nat /\ bl[b].position[a] \in Nat
         /\ OwedIn(bl[b], a) = bl[b].tracked[a] - bl[b].claimed[a]
         /\ OwedIn(bl[b], a) \in Nat
<1>1. StateOK(bl, b) BY DEF ChainOK
<1>2. /\ bl[b].claimed[a] \in Nat /\ bl[b].tracked[a] \in Nat
      /\ bl[b].paid[a] \in Nat /\ bl[b].position[a] \in Nat
      /\ bl[b].claimed[a] <= bl[b].tracked[a]
  BY <1>1 DEF StateOK, StateType
<1>3. QED BY <1>2 DEF OwedIn

(* What is paid between two blocks.                                        *)
LEMMA PaidBetween ==
  ASSUME NEW bl, NEW l \in Nat, ChainOK(bl, l),
         NEW lo \in 0 .. l, NEW hi \in 0 .. l, lo <= hi, NEW a \in Accounts,
         NEW f, f = [b \in lo + 1 .. hi |-> bl[b].paid[a]]
  PROVE  SumFunction(f) = bl[hi].claimed[a] - bl[lo].claimed[a]
<1> DEFINE Sum(n) == SumFunctionOnSet(f, lo + 1 .. lo + n)
           S == {n \in Nat : lo + n <= hi =>
                  bl[lo + n].claimed[a] = bl[lo].claimed[a] + Sum(n)}
<1>1. \A b \in lo + 1 .. hi : f[b] = bl[b].paid[a] /\ f[b] \in Nat
  BY BlockTypes
<1>2. 0 \in S
  <2>1. lo + 1 .. lo + 0 = {} /\ lo + 0 = lo OBVIOUS
  <2>2. Sum(0) = 0 BY <2>1, SumEmpty
  <2>3. bl[lo].claimed[a] \in Nat BY BlockTypes
  <2>4. bl[lo + 0].claimed[a] = bl[lo].claimed[a] + Sum(0)
    BY <2>1, <2>2, <2>3
  <2>5. QED BY <2>4
<1>3. ASSUME NEW n \in 1 .. hi - lo, n - 1 \in S PROVE n \in S
  <2>1. /\ lo + n \in lo + 1 .. hi /\ lo + n \in 1 .. l
        /\ (lo + n) - 1 = lo + (n - 1)
        /\ lo + (n - 1) <= hi
        /\ lo + 1 .. lo + n = (lo + 1 .. lo + (n - 1)) \cup {lo + n}
        /\ lo + n \notin lo + 1 .. lo + (n - 1)
        /\ \A b \in (lo + 1 .. lo + (n - 1)) \cup {lo + n} : b \in lo + 1 .. hi
    OBVIOUS
  <2>2. IsFiniteSet(lo + 1 .. lo + (n - 1)) BY FS_Interval
  <2>3. Sum(n) = f[lo + n] + Sum(n - 1)
    BY <1>1, <2>1, <2>2, SumAdd, ZenonT(60)
  <2>4. bl[lo + n].claimed[a] = bl[(lo + n) - 1].claimed[a] + bl[lo + n].paid[a]
    BY <2>1 DEF ChainOK, Follows
  <2>5. bl[lo + (n - 1)].claimed[a] = bl[lo].claimed[a] + Sum(n - 1)
    BY <1>3, <2>1
  <2>6. f[lo + n] = bl[lo + n].paid[a] /\ f[lo + n] \in Nat BY <1>1, <2>1
  <2>7. Sum(n - 1) \in Nat
    <3>1. \A b \in lo + 1 .. lo + (n - 1) : f[b] \in Nat BY <1>1, <2>1
    <3>2. QED BY <2>2, <3>1, SumType
  <2>8. bl[lo].claimed[a] \in Nat BY BlockTypes
  <2> HIDE DEF Sum
  <2>9. bl[lo + n].claimed[a] = bl[lo].claimed[a] + Sum(n)
    BY <2>1, <2>3, <2>4, <2>5, <2>6, <2>7, <2>8
  <2>10. QED BY <2>9
<1>4. hi - lo \in Nat /\ lo + (hi - lo) = hi OBVIOUS
<1>5. hi - lo \in S
  <2> HIDE DEF S
  <2>1. \A k \in 0 .. hi - lo : k \in S BY <1>2, <1>3, <1>4, Induct
  <2>2. QED BY <1>4, <2>1
<1>6. bl[hi].claimed[a] = bl[lo].claimed[a] + Sum(hi - lo) BY <1>4, <1>5
<1>7. SumFunction(f) = Sum(hi - lo)
  <2>1. DOMAIN f = lo + 1 .. hi OBVIOUS
  <2>2. QED BY <1>4, <2>1 DEF SumFunction
<1>8. Sum(hi - lo) \in Nat
  <2>1. IsFiniteSet(lo + 1 .. hi) BY FS_Interval
  <2>2. QED BY <1>1, <1>4, <2>1, SumType
<1>9. bl[lo].claimed[a] \in Nat BY BlockTypes
<1> HIDE DEF Sum
<1>10. QED BY <1>6, <1>7, <1>8, <1>9

-----------------------------------------------------------------------------
(* Rows and totals.                                                        *)

Fields == {"earned", "claimed", "remaining", "forPeriod"}

LEMMA FieldTypes ==
  ASSUME NEW x \in Amounts, NEW f \in Fields
  PROVE  x[f] \in Nat
BY DEF Amounts, Fields

LEMMA FiniteAccounts == IsFiniteSet(Accounts)
BY RewardsAssumption, FS_Product DEF Accounts

(* Rows of a user in the markets with a token.                             *)
Parts(rw, k) == {a \in DOMAIN rw : TokenOf[a[1]] = k[1] /\ a[2] = k[2]}

RowsFit(rw) ==
  /\ DOMAIN rw \subseteq Accounts
  /\ \A a \in DOMAIN rw : rw[a] \in Amounts /\ ~EmptyRow(rw[a])

TotalsFit(rw, tt) ==
  /\ DOMAIN tt = {<<TokenOf[a[1]], a[2]>> : a \in DOMAIN rw}
  /\ \A k \in DOMAIN tt :
       /\ tt[k] \in Amounts
       /\ \A f \in Fields :
            tt[k][f] = SumFunctionOnSet(Column(rw, f), Parts(rw, k))

(* The rows of the users K of market m are added.                          *)
RowsAfter(rw, m, K, row) == Over([a \in {<<m, u>> : u \in K} |-> row[a[2]]], rw)

TotalsAfter(tt, m, K, row) ==
  LET t == TokenOf[m] IN
  Over([k \in {<<t, u>> : u \in K} |->
          IF k \in DOMAIN tt THEN Added(tt[k], row[k[2]]) ELSE row[k[2]]], tt)

(* Market m adds the rows of K.                                            *)
Adds(rw, m, K, row) ==
  /\ RowsFit(rw) /\ m \in Markets /\ K \subseteq Users
  /\ \A a \in DOMAIN rw : a[1] # m
  /\ \A u \in K : row[u] \in Amounts /\ ~EmptyRow(row[u])

(* The new rows are added, the old ones stay.                              *)
LEMMA RowsAdded ==
  ASSUME NEW rw, NEW m, NEW K, NEW row, Adds(rw, m, K, row),
         NEW nw, nw = RowsAfter(rw, m, K, row)
  PROVE  /\ DOMAIN nw = DOMAIN rw \cup {<<m, u>> : u \in K}
         /\ \A a \in DOMAIN rw : nw[a] = rw[a]
         /\ \A u \in K : nw[<<m, u>>] = row[u]
         /\ RowsFit(nw)
<1> DEFINE new == [a \in {<<m, u>> : u \in K} |-> row[a[2]]]
<1>1. DOMAIN nw = DOMAIN rw \cup {<<m, u>> : u \in K}
  BY DEF RowsAfter, Over
<1>2. \A a \in DOMAIN rw : nw[a] = rw[a]
  <2> TAKE a \in DOMAIN rw
  <2>1. a \notin {<<m, u>> : u \in K} BY DEF Adds
  <2>2. QED BY <2>1 DEF RowsAfter, Over
<1>3. \A u \in K : nw[<<m, u>>] = row[u]
  BY DEF RowsAfter, Over
<1>4. RowsFit(nw)
  <2>1. \A u \in K : <<m, u>> \in Accounts BY DEF Adds, Accounts
  <2>2. DOMAIN nw \subseteq Accounts BY <1>1, <2>1 DEF Adds, RowsFit
  <2>3. \A a \in DOMAIN nw : nw[a] \in Amounts /\ ~EmptyRow(nw[a])
    <3> TAKE a \in DOMAIN nw
    <3>1. CASE a \in DOMAIN rw BY <1>2, <3>1 DEF Adds, RowsFit
    <3>2. CASE a \notin DOMAIN rw
      <4>1. PICK u \in K : a = <<m, u>> BY <1>1, <3>2
      <4>2. nw[a] = row[u] BY <1>3, <4>1
      <4>3. QED BY <4>2 DEF Adds
    <3>3. QED BY <3>1, <3>2
  <2>4. QED BY <2>2, <2>3 DEF RowsFit
<1>5. QED BY <1>1, <1>2, <1>3, <1>4

LEMMA PlusTypes ==
  ASSUME NEW x \in Amounts, NEW y \in Amounts
  PROVE  /\ Added(x, y) \in Amounts
         /\ \A f \in Fields : Added(x, y)[f] = y[f] + x[f]
<1>1. /\ x.earned \in Nat /\ x.claimed \in Nat /\ x.remaining \in Nat
      /\ x.forPeriod \in Nat
      /\ y.earned \in Nat /\ y.claimed \in Nat /\ y.remaining \in Nat
      /\ y.forPeriod \in Nat
  BY DEF Amounts
<1>2. Added(x, y) \in Amounts BY <1>1 DEF Added, Plus, Amounts
<1>3. /\ Added(x, y).earned = y.earned + x.earned
      /\ Added(x, y).claimed = y.claimed + x.claimed
      /\ Added(x, y).remaining = y.remaining + x.remaining
      /\ Added(x, y).forPeriod = y.forPeriod + x.forPeriod
  BY <1>1 DEF Added, Plus
<1>4. ASSUME NEW f \in Fields PROVE Added(x, y)[f] = y[f] + x[f]
  BY <1>3 DEF Fields
<1>5. QED BY <1>2, <1>4

LEMMA ColumnTypes ==
  ASSUME NEW rw, RowsFit(rw), NEW f \in Fields
  PROVE  \A a \in DOMAIN rw : Column(rw, f)[a] = rw[a][f] /\ rw[a][f] \in Nat
BY FieldTypes DEF Column, RowsFit

LEMMA PartsFinite ==
  ASSUME NEW rw, RowsFit(rw), NEW k
  PROVE  IsFiniteSet(Parts(rw, k)) /\ Parts(rw, k) \subseteq DOMAIN rw
<1>1. Parts(rw, k) \subseteq Accounts BY DEF Parts, RowsFit
<1>2. QED BY <1>1, FiniteAccounts, FS_Subset DEF Parts

(* What the old rows of a user and a token add up to does not change.      *)
LEMMA OldSums ==
  ASSUME NEW rw, NEW m, NEW K, NEW row, Adds(rw, m, K, row),
         NEW nw, nw = RowsAfter(rw, m, K, row), NEW f \in Fields, NEW k
  PROVE  SumFunctionOnSet(Column(nw, f), Parts(rw, k))
           = SumFunctionOnSet(Column(rw, f), Parts(rw, k))
<1>1. RowsFit(rw) /\ DOMAIN rw \subseteq DOMAIN nw
      /\ \A a \in DOMAIN rw : nw[a] = rw[a]
  <2>1. RowsFit(rw) BY DEF Adds
  <2>2. /\ DOMAIN nw = DOMAIN rw \cup {<<m, u>> : u \in K}
        /\ \A a \in DOMAIN rw : nw[a] = rw[a]
    BY RowsAdded
  <2>3. QED BY <2>1, <2>2
<1>2. \A a \in Parts(rw, k) : /\ Column(rw, f)[a] \in Nat
                              /\ Column(nw, f)[a] = Column(rw, f)[a]
  <2> TAKE a \in Parts(rw, k)
  <2>1. a \in DOMAIN rw BY <1>1, PartsFinite
  <2>2. a \in DOMAIN nw /\ nw[a] = rw[a] BY <1>1, <2>1
  <2>3. Column(nw, f)[a] = nw[a][f] BY <2>2 DEF Column
  <2>4. Column(rw, f)[a] = rw[a][f] /\ rw[a][f] \in Nat
    BY <1>1, <2>1, ColumnTypes
  <2>5. QED BY <2>2, <2>3, <2>4
<1>3. IsFiniteSet(Parts(rw, k)) BY <1>1, PartsFinite
<1>4. QED BY <1>2, <1>3, SumSame

(* The totals are the sums of the rows again.                              *)
LEMMA TotalsAdded ==
  ASSUME NEW rw, NEW m, NEW K, NEW row, Adds(rw, m, K, row),
         NEW nw, nw = RowsAfter(rw, m, K, row),
         NEW tt, TotalsFit(rw, tt), NEW nt, nt = TotalsAfter(tt, m, K, row)
  PROVE  TotalsFit(nw, nt)
<1> DEFINE t == TokenOf[m]
           Keys == {<<t, u>> : u \in K}
           Sum(f, k) == SumFunctionOnSet(Column(nw, f), Parts(nw, k))
<1>1. /\ DOMAIN nw = DOMAIN rw \cup {<<m, u>> : u \in K}
      /\ \A a \in DOMAIN rw : nw[a] = rw[a]
      /\ \A u \in K : nw[<<m, u>>] = row[u]
      /\ RowsFit(nw) /\ RowsFit(rw)
  BY RowsAdded DEF Adds
<1>2. DOMAIN nt = DOMAIN tt \cup Keys BY DEF TotalsAfter, Over
<1>3. DOMAIN nt = {<<TokenOf[a[1]], a[2]>> : a \in DOMAIN nw}
  <2>1. Keys = {<<TokenOf[a[1]], a[2]>> : a \in {<<m, u>> : u \in K}}
    <3> DEFINE Pairs == {<<m, u>> : u \in K}
               Image == {<<TokenOf[a[1]], a[2]>> : a \in Pairs}
    <3>1. \A u \in K : <<m, u>> \in Pairs
                      /\ <<TokenOf[<<m, u>>[1]], <<m, u>>[2]>> = <<t, u>>
      OBVIOUS
    <3>2. Keys \subseteq Image
      <4> SUFFICES ASSUME NEW u \in K PROVE <<t, u>> \in Image OBVIOUS
      <4>1. QED BY <3>1
    <3>3. Image \subseteq Keys
      <4> SUFFICES ASSUME NEW a \in Pairs
                   PROVE  <<TokenOf[a[1]], a[2]>> \in Keys
        OBVIOUS
      <4>1. PICK u \in K : a = <<m, u>> OBVIOUS
      <4>2. QED BY <3>1, <4>1
    <3>4. QED BY <3>2, <3>3
  <2>2. QED BY <1>1, <1>2, <2>1 DEF TotalsFit
<1>4. ASSUME NEW k \in DOMAIN nt, k \notin Keys
      PROVE  /\ nt[k] \in Amounts
             /\ \A f \in Fields : nt[k][f] = Sum(f, k)
  <2>1. k \in DOMAIN tt BY <1>2, <1>4
  <2>2. nt[k] = tt[k] BY <1>4, <2>1 DEF TotalsAfter, Over
  <2>3. Parts(nw, k) = Parts(rw, k)
    <3>1. \A u \in K : ~(t = k[1] /\ u = k[2])
      <4>1. PICK a \in DOMAIN rw : k = <<TokenOf[a[1]], a[2]>>
        BY <2>1 DEF TotalsFit
      <4>2. k = <<k[1], k[2]>> BY <4>1
      <4>3. QED BY <1>4, <4>2
    <3>2. QED BY <1>1, <3>1 DEF Parts
  <2>4. ASSUME NEW f \in Fields PROVE nt[k][f] = Sum(f, k)
    <3>1. tt[k][f] = SumFunctionOnSet(Column(rw, f), Parts(rw, k))
      BY <2>1 DEF TotalsFit
    <3>2. QED BY <2>2, <2>3, <3>1, OldSums
  <2>5. QED BY <2>1, <2>2, <2>4 DEF TotalsFit
<1>5. ASSUME NEW u \in K
      PROVE  LET k == <<t, u>> IN
             /\ nt[k] \in Amounts
             /\ \A f \in Fields : nt[k][f] = Sum(f, k)
  <2> DEFINE k == <<t, u>>
             a == <<m, u>>
  <2>1. nt[k] = IF k \in DOMAIN tt THEN Added(tt[k], row[u]) ELSE row[u]
    BY DEF TotalsAfter, Over
  <2>2. Parts(nw, k) = Parts(rw, k) \cup {a} BY <1>1 DEF Parts
  <2>3. a \notin Parts(rw, k) BY DEF Parts, Adds
  <2>4. row[u] \in Amounts BY DEF Adds
  <2>5. nt[k] \in Amounts
    <3>1. k \in DOMAIN tt => tt[k] \in Amounts BY DEF TotalsFit
    <3>2. k \in DOMAIN tt => Added(tt[k], row[u]) \in Amounts
      BY <2>4, <3>1, PlusTypes
    <3>3. QED BY <2>1, <2>4, <3>2
  <2> HIDE DEF k, a
  <2>6. ASSUME NEW f \in Fields
        PROVE  nt[k][f] = Sum(f, k)
    <3> DEFINE old == SumFunctionOnSet(Column(rw, f), Parts(rw, k))
    <3>1. Sum(f, k) = Column(nw, f)[a]
                        + SumFunctionOnSet(Column(nw, f), Parts(rw, k))
      <4>1. IsFiniteSet(Parts(rw, k)) BY <1>1, PartsFinite
      <4>2. \A x \in Parts(rw, k) \cup {a} : Column(nw, f)[x] \in Nat
        <5>1. Parts(rw, k) \cup {a} \subseteq DOMAIN nw
          BY <1>1, <2>2, PartsFinite
        <5>2. QED BY <1>1, <5>1, ColumnTypes
      <4>3. QED BY <2>2, <2>3, <4>1, <4>2, SumAdd
    <3>2. SumFunctionOnSet(Column(nw, f), Parts(rw, k)) = old BY OldSums
    <3>3. Column(nw, f)[a] = row[u][f]
      <4>1. a \in DOMAIN nw /\ nw[a] = row[u] BY <1>1 DEF a
      <4>2. QED BY <4>1 DEF Column
    <3>4. row[u][f] \in Nat BY <2>4, FieldTypes
    <3>5. Sum(f, k) = row[u][f] + old BY <3>1, <3>2, <3>3
    <3>6. CASE k \in DOMAIN tt
      <4>1. tt[k][f] = old /\ tt[k] \in Amounts BY <3>6 DEF TotalsFit
      <4>2. Added(tt[k], row[u])[f] = row[u][f] + tt[k][f]
        BY <2>4, <4>1, PlusTypes
      <4>3. QED BY <2>1, <3>5, <3>6, <4>1, <4>2
    <3>7. CASE k \notin DOMAIN tt
      <4>1. Parts(rw, k) = {}
        <5> SUFFICES ASSUME NEW x \in Parts(rw, k) PROVE FALSE OBVIOUS
        <5>1. x \in DOMAIN rw /\ TokenOf[x[1]] = t /\ x[2] = u
          BY DEF Parts, k
        <5>2. k \in DOMAIN tt BY <5>1 DEF TotalsFit, k
        <5>3. QED BY <3>7, <5>2
      <4>2. old = 0 BY <4>1, SumEmpty
      <4>3. QED BY <2>1, <3>4, <3>5, <3>7, <4>2
    <3>8. QED BY <3>6, <3>7
  <2>7. QED BY <2>5, <2>6 DEF k
<1>6. \A k \in DOMAIN nt :
        nt[k] \in Amounts /\ \A f \in Fields : nt[k][f] = Sum(f, k)
  <2> TAKE k \in DOMAIN nt
  <2>1. CASE k \in Keys
    <3>1. PICK u \in K : k = <<t, u>> BY <2>1
    <3> HIDE DEF Sum, t
    <3>2. QED BY <3>1, <1>5
  <2>2. CASE k \notin Keys BY <1>4, <2>2
  <2>3. QED BY <2>1, <2>2
<1>7. QED BY <1>3, <1>6 DEF TotalsFit

-----------------------------------------------------------------------------
(* What the chain says of a range.                                         *)

(* The chain is there, and the range is one of it.                         *)
Ready == ChainInv /\ LatestBlock = LastBlock /\ range \in Ranges

(* The range is one of the chain, in every market.                         *)
LEMMA RangeFacts ==
  ASSUME Ready, NEW m
  PROVE  /\ range.start \in 0 .. LastBlock /\ range.end \in 0 .. LastBlock
         /\ Boundary(range, m) \in 0 .. LastBlock
         /\ Boundary(range, m) < range.end
         /\ LastBlock \in Nat /\ ChainOK(blocks, LastBlock)
         /\ DOMAIN range.starts \subseteq Markets
<1>1. LastBlock \in Nat /\ ChainOK(blocks, LastBlock)
  BY ChainAssumption DEF Ready, ChainInv
<1>2. /\ range.start \in 0 .. LastBlock /\ range.end \in 0 .. LastBlock
      /\ range.starts \in Selections /\ range.start < range.end
      /\ \A k \in DOMAIN range.starts : range.starts[k] < range.end
  BY DEF Ready, Ranges
<1>3. DOMAIN range.starts \subseteq Markets
      /\ \A k \in DOMAIN range.starts : range.starts[k] \in Nat
  BY <1>2, RewardsAssumption
<1>4. CASE m \in DOMAIN range.starts
  <2>1. Boundary(range, m) = range.starts[m] BY <1>4 DEF Boundary
  <2>2. QED BY <1>1, <1>2, <1>3, <1>4, <2>1
<1>5. CASE m \notin DOMAIN range.starts
  <2>1. Boundary(range, m) = range.start BY <1>5 DEF Boundary
  <2>2. QED BY <1>1, <1>2, <1>3, <2>1
<1>6. QED BY <1>4, <1>5

(* A Comet that is configured pays.                                        *)
LEMMA PayingIs ==
  ASSUME Ready, NEW b \in 0 .. LastBlock, NEW m \in Markets
  PROVE  /\ Paying(blocks[b], m, b) <=> m \in blocks[b].configured
         /\ m \in blocks[b].configured =>
              DeployedAt <= b /\ ListedAt[m] <= b
<1>1. StateOK(blocks, b) BY RangeFacts DEF ChainOK
<1>2. QED BY <1>1 DEF StateOK, Paying, DeployedAt

(* Nothing was paid by a Comet that is not configured.                     *)
LEMMA Unpaid ==
  ASSUME Ready, NEW b \in 0 .. LastBlock, NEW a \in Accounts,
         a[1] \notin blocks[b].configured
  PROVE  blocks[b].claimed[a] = 0
<1>1. StateOK(blocks, b) /\ blocks[b].claimed[a] \in Nat
  BY RangeFacts, BlockTypes DEF ChainOK
<1>2. ~(blocks[b].claimed[a] > 0) BY <1>1 DEF StateOK
<1>3. QED BY <1>1, <1>2

(* What is owed, by whether the Comet is configured.                       *)
LEMMA OwedIs ==
  ASSUME Ready, NEW b \in 0 .. LastBlock, NEW a \in Accounts
  PROVE  /\ Owed(a, b) \in Nat
         /\ a[1] \in blocks[b].configured => Owed(a, b) = OwedIn(blocks[b], a)
         /\ a[1] \notin blocks[b].configured => Owed(a, b) = 0
<1>1. a[1] \in Markets BY DEF Accounts
<1>2. OwedIn(blocks[b], a) \in Nat BY RangeFacts, BlockTypes
<1>3. QED BY <1>1, <1>2, PayingIs DEF Owed

(* What is paid in a range is the difference of what was claimed.          *)
LEMMA PaidIs ==
  ASSUME Ready, NEW a \in Accounts
  PROVE  Paid(a) = blocks[range.end].claimed[a]
                     - blocks[Boundary(range, a[1])].claimed[a]
<1> DEFINE lo == Boundary(range, a[1])
           f == [b \in lo + 1 .. range.end |-> blocks[b].paid[a]]
<1>1. /\ LastBlock \in Nat /\ ChainOK(blocks, LastBlock)
      /\ lo \in 0 .. LastBlock /\ range.end \in 0 .. LastBlock
      /\ lo <= range.end
  BY RangeFacts
<1>2. Paid(a) = SumFunction(f) BY DEF Paid
<1>3. PICK g : g = f OBVIOUS
<1> HIDE DEF lo
<1>4. SumFunction(g) = blocks[range.end].claimed[a] - blocks[lo].claimed[a]
  BY <1>1, <1>3, PaidBetween
<1>5. QED BY <1>2, <1>3, <1>4 DEF lo

(* Who is not active up to the end of the range has nothing.               *)
LEMMA AbsentAt ==
  ASSUME Ready, NEW b \in 0 .. LastBlock, NEW a \in Accounts,
         \A c \in 0 .. b : a \notin blocks[c].active
  PROVE  blocks[b].claimed[a] = 0 /\ OwedIn(blocks[b], a) = 0
         /\ Owed(a, b) = 0
<1>1. StateOK(blocks, b) BY RangeFacts DEF ChainOK
<1>2. blocks[b].tracked[a] = 0 BY <1>1 DEF StateOK
<1>3. blocks[b].claimed[a] <= blocks[b].tracked[a]
      /\ blocks[b].claimed[a] \in Nat
      /\ OwedIn(blocks[b], a) = blocks[b].tracked[a] - blocks[b].claimed[a]
  BY <1>1, RangeFacts, BlockTypes DEF StateOK
<1>4. blocks[b].claimed[a] = 0 /\ OwedIn(blocks[b], a) = 0 BY <1>2, <1>3
<1>5. QED BY <1>4, OwedIs

LEMMA AbsentEarned ==
  ASSUME Ready, NEW a \in Accounts,
         \A c \in 0 .. range.end : a \notin blocks[c].active
  PROVE  Paid(a) = 0 /\ Earned(a) = 0 /\ Owed(a, range.end) = 0
<1> DEFINE s == Boundary(range, a[1])
<1>1. s \in 0 .. LastBlock /\ range.end \in 0 .. LastBlock /\ s < range.end
  BY RangeFacts
<1>2. \A c \in 0 .. s : a \notin blocks[c].active BY <1>1
<1> HIDE DEF s
<1>3. blocks[s].claimed[a] = 0 /\ Owed(a, s) = 0 BY <1>1, <1>2, AbsentAt
<1>4. blocks[range.end].claimed[a] = 0 /\ Owed(a, range.end) = 0
  BY <1>1, AbsentAt
<1>5. Paid(a) = 0 BY <1>3, <1>4, PaidIs DEF s
<1>6. QED BY <1>3, <1>4, <1>5 DEF Earned, s

(* Nor has anyone in a Comet that is not configured by then.               *)
LEMMA UnconfiguredEarned ==
  ASSUME Ready, NEW a \in Accounts, a[1] \notin blocks[range.end].configured
  PROVE  Paid(a) = 0 /\ Earned(a) = 0 /\ Owed(a, range.end) = 0
<1> DEFINE s == Boundary(range, a[1])
<1>1. s \in 0 .. LastBlock /\ range.end \in 0 .. LastBlock /\ s < range.end
      /\ LastBlock \in Nat /\ ChainOK(blocks, LastBlock)
  BY RangeFacts
<1> HIDE DEF s
<1>2. blocks[s].configured \subseteq blocks[range.end].configured
  BY <1>1, ConfiguredStays
<1>3. blocks[s].claimed[a] = 0 /\ Owed(a, s) = 0
  BY <1>1, <1>2, Unpaid, OwedIs
<1>4. blocks[range.end].claimed[a] = 0 /\ Owed(a, range.end) = 0
  BY <1>1, Unpaid, OwedIs
<1>5. Paid(a) = 0 BY <1>3, <1>4, PaidIs DEF s
<1>6. QED BY <1>3, <1>4, <1>5 DEF Earned, s

-----------------------------------------------------------------------------
(* The invariant of the calculation.                                       *)

Working == phase \in {"markets", "done"}

(* Nothing is calculated before the calculation begins.                    *)
NotBegun ==
  phase = "chain" =>
    /\ usersBy = [a \in Accounts |-> None] /\ left = {}
    /\ rows = NoRows /\ totals = NoRows /\ why = None

(* A user is dated not later than any activity up to the end.              *)
DatesOK ==
  Working =>
    \A a \in Accounts : \A c \in 0 .. range.end :
      a \in blocks[c].active => usersBy[a] # None /\ usersBy[a] <= Time[c]

(* The markets that are through.                                           *)
Settled(a) ==
  IF Selected(range, a[1])
  THEN /\ ~lost => /\ ValueIn(a, "earned") = Earned(a)
                   /\ ValueIn(a, "claimed") = Paid(a)
       /\ ValueIn(a, "remaining") = Owed(a, range.end)
       /\ ValueIn(a, "forPeriod") =
            FifoRemainingForPeriod(ValueIn(a, "earned"),
                                   ValueIn(a, "remaining"))
  ELSE a \notin DOMAIN rows

Progress ==
  Working =>
    \A a \in Accounts :
      IF a[1] \in left THEN a \notin DOMAIN rows ELSE Settled(a)

Ended ==
  /\ phase # "chain" => LatestBlock = LastBlock /\ range \in Ranges
  /\ phase = "done" => left = {}

CalcTypes ==
  /\ phase \in {"chain", "markets", "done", "refused"}
  /\ usersBy \in [Accounts -> Nat \cup {None}]
  /\ left \subseteq Markets
  /\ lost \in BOOLEAN
  /\ (why # None) <=> (phase = "refused")

CalcInv ==
  /\ ChainInv /\ CalcTypes /\ NotBegun /\ Ended /\ DatesOK /\ Progress
  /\ RowsFit(rows) /\ TotalsFit(rows, totals)

-----------------------------------------------------------------------------
(* One market.                                                             *)

HasStart(m) ==
  /\ ListedAt[m] <= Boundary(range, m)
  /\ RewardConfig(m, Boundary(range, m)) \notin {None, "zero"}

StartOf(a, startLost) ==
  IF HasStart(a[1]) /\ ~startLost /\ AtStart(usersBy[a], Boundary(range, a[1]))
  THEN SnapshotAt(a, Boundary(range, a[1])) ELSE NothingYet

RowFor(a, startLost) == RowOf(StartOf(a, startLost), SnapshotAt(a, range.end))

(* What the reward configuration says of a Comet.                          *)
LEMMA ConfigIs ==
  ASSUME Ready, NEW m \in Markets, NEW b \in 0 .. LastBlock
  PROVE  /\ m \in blocks[b].configured <=>
              RewardConfig(m, b) \notin {None, "zero"}
         /\ RewardConfig(m, b) = "zero" => m \notin blocks[b].configured
<1>1. TokenOf[m] \in Tokens BY ChainAssumption
<1>2. TokenOf[m] # None /\ TokenOf[m] # "zero" /\ None # "zero"
  BY <1>1, RewardsAssumption
<1>3. m \in blocks[b].configured => DeployedAt <= b BY PayingIs
<1>4. DeployedAt \in Nat /\ b \in Nat BY DeployedType DEF Ready
<1>5. QED BY <1>2, <1>3, <1>4 DEF RewardConfig

(* The row of a user agrees with the chain, unless the start was lost.     *)
LEMMA RowExact ==
  ASSUME Ready, NEW a \in Accounts, DatesOK, Working,
         usersBy[a] \in Nat, NEW startLost \in BOOLEAN,
         a[1] \in blocks[range.end].configured,
         NEW r, r = RowFor(a, startLost)
  PROVE  /\ ~(startLost /\ HasStart(a[1])) =>
              r.earned = Earned(a) /\ r.claimed = Paid(a)
         /\ r.remaining = Owed(a, range.end)
         /\ r.forPeriod = FifoRemainingForPeriod(r.earned, r.remaining)
         /\ r.earned \in Int /\ r.claimed \in Int /\ r.remaining \in Nat
         /\ r = [earned |-> r.earned, claimed |-> r.claimed,
                 remaining |-> r.remaining, forPeriod |-> r.forPeriod]
<1> DEFINE m == a[1]
           s == Boundary(range, m)
           e == range.end
           start == StartOf(a, startLost)
<1>1. /\ s \in 0 .. LastBlock /\ e \in 0 .. LastBlock /\ s < e
      /\ LastBlock \in Nat /\ ChainOK(blocks, LastBlock)
  BY RangeFacts
<1>2. m \in Markets BY DEF Accounts
<1>3. /\ blocks[e].claimed[a] \in Nat /\ OwedIn(blocks[e], a) \in Nat
      /\ blocks[s].claimed[a] \in Nat /\ OwedIn(blocks[s], a) \in Nat
  BY <1>1, BlockTypes
<1>4. Owed(a, e) = OwedIn(blocks[e], a) BY <1>1, OwedIs
<1>5. Paid(a) = blocks[e].claimed[a] - blocks[s].claimed[a] BY PaidIs
<1>6. start = NothingYet \/ start = SnapshotAt(a, s) BY DEF StartOf
<1>7. start.claimed \in Nat /\ start.owed \in Nat
  BY <1>3, <1>6 DEF NothingYet, SnapshotAt
<1>8. ASSUME ~(startLost /\ HasStart(m))
      PROVE  start.claimed = blocks[s].claimed[a] /\ start.owed = Owed(a, s)
  <2>1. CASE HasStart(m) /\ AtStart(usersBy[a], s)
    <3>1. start = SnapshotAt(a, s) BY <1>8, <2>1 DEF StartOf
    <3>2. m \in blocks[s].configured
      BY <1>1, <1>2, <2>1, ConfigIs DEF HasStart
    <3>3. Owed(a, s) = OwedIn(blocks[s], a) BY <1>1, <3>2, OwedIs
    <3>4. QED BY <3>1, <3>3 DEF SnapshotAt
  <2>2. CASE ~AtStart(usersBy[a], s)
    <3>1. start = NothingYet BY <2>2 DEF StartOf
    <3>2. ASSUME NEW c \in 0 .. s PROVE a \notin blocks[c].active
      <4>1. c \in 0 .. LastBlock /\ c \in 0 .. e /\ c <= s BY <1>1
      <4>2. Time[c] <= Time[s] BY <1>1, <4>1, TimeGrows
      <4>3. Time[c] \in Nat /\ Time[s] \in Nat BY <1>1, <4>1, ChainAssumption
      <4>4. ~(usersBy[a] <= Time[s]) BY <2>2 DEF AtStart
      <4>5. ~(usersBy[a] <= Time[c]) BY <4>2, <4>3, <4>4
      <4>6. QED BY <4>1, <4>5 DEF DatesOK
    <3>3. blocks[s].claimed[a] = 0 /\ Owed(a, s) = 0
      BY <1>1, <3>2, AbsentAt
    <3>4. QED BY <3>1, <3>3 DEF NothingYet
  <2>3. CASE ~HasStart(m)
    <3>1. start = NothingYet BY <2>3 DEF StartOf
    <3>2. m \notin blocks[s].configured
      <4>1. m \in blocks[s].configured => ListedAt[m] <= s
        BY <1>1, <1>2, PayingIs
      <4>2. QED BY <1>1, <1>2, <2>3, <4>1, ConfigIs DEF HasStart
    <3>3. blocks[s].claimed[a] = 0 /\ Owed(a, s) = 0
      BY <1>1, <3>2, Unpaid, OwedIs
    <3>4. QED BY <3>1, <3>3 DEF NothingYet
  <2>4. QED BY <2>1, <2>2, <2>3
<1>9. /\ r.earned = blocks[e].claimed[a] + OwedIn(blocks[e], a)
                      - (start.claimed + start.owed)
      /\ r.claimed = blocks[e].claimed[a] - start.claimed
      /\ r.remaining = OwedIn(blocks[e], a)
      /\ r.forPeriod = FifoRemainingForPeriod(r.earned, r.remaining)
      /\ r = [earned |-> r.earned, claimed |-> r.claimed,
              remaining |-> r.remaining, forPeriod |-> r.forPeriod]
  BY DEF RowFor, RowOf, SnapshotAt
<1>10. Earned(a) = Paid(a) + Owed(a, e) - Owed(a, s) BY DEF Earned
<1> HIDE DEF m, s, e, start
<1>11. ASSUME ~(startLost /\ HasStart(m))
       PROVE  r.earned = Earned(a) /\ r.claimed = Paid(a)
  <2>1. start.claimed = blocks[s].claimed[a] /\ start.owed = Owed(a, s)
    BY <1>8, <1>11
  <2>2. QED BY <1>3, <1>4, <1>5, <1>7, <1>9, <1>10, <2>1
<1>12. r.earned \in Int /\ r.claimed \in Int /\ r.remaining \in Nat
  BY <1>3, <1>7, <1>9
<1>13. r.remaining = Owed(a, range.end) BY <1>4, <1>9 DEF e
<1>14. QED BY <1>9, <1>11, <1>12, <1>13 DEF m

-----------------------------------------------------------------------------
(* The steps of the calculation.                                           *)

(* What the properties compute from the chain stays.                       *)
LEMMA SameChain ==
  ASSUME UNCHANGED <<blocks, range>>
  PROVE  /\ LatestBlock' = LatestBlock
         /\ Ready <=> Ready'
         /\ \A a \in Accounts :
              /\ Earned(a)' = Earned(a) /\ Paid(a)' = Paid(a)
              /\ Owed(a, range.end)' = Owed(a, range.end)
<1>1. LatestBlock' = LatestBlock BY DEF LatestBlock
<1>2. ChainInv' <=> ChainInv BY <1>1 DEF ChainInv
<1>3. ASSUME NEW a \in Accounts
      PROVE  /\ Paid(a)' = Paid(a)
             /\ \A b : Owed(a, b)' = Owed(a, b)
  BY DEF Paid, Owed, Paying, DeployedAt
<1>4. ASSUME NEW a \in Accounts
      PROVE  Earned(a)' = Earned(a)
  <2>1. Paid(a)' = Paid(a) /\ \A b : Owed(a, b)' = Owed(a, b) BY <1>3
  <2>2. QED BY <2>1 DEF Earned
<1>5. \A a \in Accounts : Owed(a, range.end)' = Owed(a, range.end)
  BY <1>3
<1>6. QED BY <1>1, <1>2, <1>3, <1>4, <1>5 DEF Ready

(* A Comet that is through stays so.                                       *)
LEMMA SettledKept ==
  ASSUME UNCHANGED <<blocks, range>>, NEW a \in Accounts,
         ~lost' => ~lost, ValueIn(a, "earned")' = ValueIn(a, "earned"),
         ValueIn(a, "claimed")' = ValueIn(a, "claimed"),
         ValueIn(a, "remaining")' = ValueIn(a, "remaining"),
         ValueIn(a, "forPeriod")' = ValueIn(a, "forPeriod"),
         a \notin DOMAIN rows => a \notin DOMAIN rows',
         Settled(a)
  PROVE  Settled(a)'
<1>1. /\ Earned(a)' = Earned(a) /\ Paid(a)' = Paid(a)
      /\ Owed(a, range.end)' = Owed(a, range.end)
  BY SameChain
<1>2. QED BY <1>1 DEF Settled

LEMMA NothingFits == RowsFit(NoRows) /\ TotalsFit(NoRows, NoRows)
<1>1. DOMAIN NoRows = {} BY DEF NoRows
<1>2. QED BY <1>1 DEF RowsFit, TotalsFit

(* The invariant holds of the initial states.                              *)
LEMMA CalcInit == Init => CalcInv
<1> SUFFICES ASSUME Init PROVE CalcInv OBVIOUS
<1>1. ChainInv BY GenesisOK
<1>2. CalcTypes BY DEF Init, CalcTypes
<1>3. NotBegun /\ Ended /\ DatesOK /\ Progress
  BY DEF Init, NotBegun, Ended, DatesOK, Progress, Working
<1>4. RowsFit(rows) /\ TotalsFit(rows, totals) BY NothingFits DEF Init
<1>5. QED BY <1>1, <1>2, <1>3, <1>4 DEF CalcInv

(* The chain grows, or nothing happens.                                    *)
LEMMA GrowsStep == ASSUME CalcInv, ChainGrows PROVE CalcInv'
<1>1. phase = "chain" /\ UNCHANGED calcVars BY DEF ChainGrows
<1>2. ChainInv' BY ChainStep DEF CalcInv
<1>3. CalcTypes' BY <1>1 DEF CalcTypes, CalcInv, calcVars
<1>4. NotBegun' /\ Ended' /\ DatesOK' /\ Progress'
  BY <1>1 DEF CalcInv, NotBegun, Ended, DatesOK, Progress, Working, calcVars
<1>5. RowsFit(rows') /\ TotalsFit(rows', totals')
  BY <1>1 DEF CalcInv, calcVars
<1>6. QED BY <1>2, <1>3, <1>4, <1>5 DEF CalcInv

LEMMA StutterStep == ASSUME CalcInv, UNCHANGED vars PROVE CalcInv'
<1>1. UNCHANGED blocks /\ UNCHANGED calcVars BY DEF vars
<1>2. ChainInv' BY <1>1, ChainKept DEF CalcInv
<1>3. UNCHANGED range BY <1>1 DEF calcVars
<1>4. LatestBlock' = LatestBlock BY <1>1, <1>3, SameChain
<1>5. CalcTypes' BY <1>1 DEF CalcTypes, CalcInv, calcVars
<1>6. NotBegun' /\ Ended' /\ DatesOK'
  BY <1>1, <1>4 DEF CalcInv, NotBegun, Ended, DatesOK, Working, calcVars
<1>7. Progress'
  <2>1. ASSUME Working', NEW a \in Accounts
        PROVE  IF a[1] \in left' THEN a \notin DOMAIN rows' ELSE Settled(a)'
    <3>1. Working BY <1>1, <2>1 DEF Working, calcVars
    <3>2. rows' = rows /\ left' = left /\ lost' = lost BY <1>1 DEF calcVars
    <3>3. Settled(a) => Settled(a)'
      BY <1>1, <1>3, <3>2, SettledKept DEF ValueIn
    <3>4. QED BY <3>1, <3>2, <3>3 DEF CalcInv, Progress
  <2>2. QED BY <2>1 DEF Progress
<1>8. RowsFit(rows') /\ TotalsFit(rows', totals')
  BY <1>1 DEF CalcInv, calcVars
<1>9. QED BY <1>2, <1>5, <1>6, <1>7, <1>8 DEF CalcInv

(* The calculation ends with an error.                                     *)
LEMMA RefuseStep ==
  ASSUME CalcInv, NEW reason, reason # None, phase # "chain", Refuse(reason)
  PROVE  CalcInv'
<1>1. /\ phase' = "refused" /\ why' = reason
      /\ UNCHANGED <<blocks, range, usersBy, left, rows, totals, lost>>
  BY DEF Refuse
<1>2. ChainInv' BY <1>1, ChainKept DEF CalcInv
<1>3. LatestBlock' = LatestBlock BY <1>1 DEF LatestBlock
<1>4. CalcTypes' BY <1>1 DEF CalcTypes, CalcInv
<1>5. NotBegun' /\ DatesOK' /\ Progress'
  BY <1>1 DEF NotBegun, DatesOK, Progress, Working
<1>6. Ended' BY <1>1, <1>3 DEF Ended, CalcInv
<1>7. RowsFit(rows') /\ TotalsFit(rows', totals') BY <1>1 DEF CalcInv
<1>8. QED BY <1>2, <1>4, <1>5, <1>6, <1>7 DEF CalcInv

(* Nobody who was active is left out or dated too late.                    *)
LEMMA BeginDates ==
  ASSUME ChainInv, LatestBlock = LastBlock, NEW r \in Ranges,
         NEW cursor \in 0 .. LastBlock, r.end <= cursor,
         NEW by, by = UsersByMarket(r, cursor)
  PROVE  /\ by \in [Accounts -> Nat \cup {None}]
         /\ \A a \in Accounts : \A c \in 0 .. r.end :
              a \in blocks[c].active => by[a] # None /\ by[a] <= Time[c]
<1> DEFINE Seen(a) == {t \in IndexedAt(a, cursor) : t <= Time[r.end]}
<1>1. r.end \in 0 .. LastBlock /\ LastBlock \in Nat
  BY ChainAssumption DEF Ranges
<1>2. \A b \in 0 .. LastBlock : Time[b] \in Nat BY ChainAssumption
<1>3. \A a \in Accounts : by[a] = IF Seen(a) = {} THEN None ELSE Min(Seen(a))
  BY DEF UsersByMarket
<1>4. \A a \in Accounts : Seen(a) \in SUBSET Nat
  <2>1. \A b \in 0 .. cursor : Time[b] \in Nat BY <1>1, <1>2
  <2>2. QED BY <2>1 DEF IndexedAt
<1>5. \A a \in Accounts : by[a] \in Nat \cup {None}
  <2> TAKE a \in Accounts
  <2>1. CASE Seen(a) = {} BY <1>3, <2>1
  <2>2. CASE Seen(a) # {}
    <3>1. Min(Seen(a)) \in Nat BY <1>4, <2>2, MinIs
    <3>2. QED BY <1>3, <2>2, <3>1
  <2>3. QED BY <2>1, <2>2
<1>6. by \in [Accounts -> Nat \cup {None}]
  <2>1. by = [a \in Accounts |-> by[a]] BY DEF UsersByMarket
  <2>2. QED BY <1>5, <2>1
<1>7. ASSUME NEW a \in Accounts, NEW c \in 0 .. r.end, a \in blocks[c].active
      PROVE  by[a] # None /\ by[a] <= Time[c]
  <2>1. c \in 0 .. LastBlock /\ c \in 0 .. cursor /\ c <= r.end BY <1>1
  <2>2. Time[c] <= Time[r.end] BY <1>1, <2>1, TimeGrows
  <2>3. Time[c] \in Seen(a) BY <1>7, <2>1, <2>2 DEF IndexedAt
  <2>4. by[a] = Min(Seen(a)) BY <1>3, <2>3
  <2>5. Min(Seen(a)) \in Nat /\ Min(Seen(a)) <= Time[c]
    BY <1>4, <2>3, MinIs
  <2>6. None \notin Nat BY RewardsAssumption
  <2>7. QED BY <2>4, <2>5, <2>6
<1>8. QED BY <1>6, <1>7

Nothings ==
  \A a \in Accounts :
    (\A c \in 0 .. range.end : a \notin blocks[c].active)
    => Paid(a) = 0 /\ Earned(a) = 0 /\ Owed(a, range.end) = 0

LEMMA NothingsHold == Ready => Nothings
BY AbsentEarned DEF Nothings

(* The calculation begins: users are dated, no market is through.          *)
LEMMA BeginStep ==
  ASSUME CalcInv, NEW r \in Ranges, NEW cursor \in 0 .. LastBlock,
         Begin(r, cursor)
  PROVE  CalcInv'
<1>1. /\ phase = "chain" /\ LatestBlock = LastBlock /\ range' = r
      /\ UNCHANGED <<blocks, rows, totals, lost>>
  BY DEF Begin
<1>2. ChainInv' /\ ChainInv BY <1>1, ChainKept DEF CalcInv
<1>3. LatestBlock' = LastBlock BY <1>1 DEF LatestBlock
<1>4. rows = NoRows /\ totals = NoRows /\ usersBy = [a \in Accounts |-> None]
      /\ left = {}
  BY <1>1 DEF CalcInv, NotBegun
<1>5. RowsFit(rows') /\ TotalsFit(rows', totals') BY <1>1 DEF CalcInv
<1>6. \/ /\ phase' = "refused" /\ why' \in {"stale", "selection"}
         /\ UNCHANGED <<usersBy, left>>
      \/ /\ phase' = "markets" /\ why' = None /\ r.end <= cursor
         /\ usersBy' = UsersByMarket(r, cursor)
         /\ left' = {m \in Markets : \E u \in Users : usersBy'[<<m, u>>] # None}
  <2>1. "stale" # None /\ "selection" # None BY RewardsAssumption
  <2>2. r.end \in Nat /\ cursor \in Nat BY ChainAssumption DEF Ranges
  <2>3. CASE cursor < r.end BY <2>1, <2>3 DEF Begin
  <2>4. CASE /\ ~(cursor < r.end)
             /\ \E m \in DOMAIN r.starts : ListedAt[m] > cursor
    BY <2>1, <2>4 DEF Begin
  <2>5. CASE /\ ~(cursor < r.end)
             /\ ~\E m \in DOMAIN r.starts : ListedAt[m] > cursor
    <3>1. r.end <= cursor BY <2>2, <2>5
    <3>2. QED BY <2>5, <3>1 DEF Begin
  <2>6. QED BY <2>3, <2>4, <2>5
<1>7. CASE /\ phase' = "refused" /\ why' \in {"stale", "selection"}
           /\ UNCHANGED <<usersBy, left>>
  <2>1. why' # None BY <1>7, RewardsAssumption
  <2>2. CalcTypes' BY <1>1, <1>7, <2>1 DEF CalcTypes, CalcInv
  <2>3. NotBegun' /\ DatesOK' /\ Progress'
    BY <1>7 DEF NotBegun, DatesOK, Progress, Working
  <2>4. Ended' BY <1>1, <1>3, <1>7 DEF Ended
  <2>5. QED BY <1>2, <1>5, <2>2, <2>3, <2>4 DEF CalcInv
<1>8. CASE /\ phase' = "markets" /\ why' = None /\ r.end <= cursor
           /\ usersBy' = UsersByMarket(r, cursor)
           /\ left' =
                {m \in Markets : \E u \in Users : usersBy'[<<m, u>>] # None}
  <2>1. PICK by : by = UsersByMarket(r, cursor) OBVIOUS
  <2>2. /\ by \in [Accounts -> Nat \cup {None}]
        /\ \A a \in Accounts : \A c \in 0 .. r.end :
             a \in blocks[c].active => by[a] # None /\ by[a] <= Time[c]
    BY <1>1, <1>2, <1>8, <2>1, BeginDates
  <2>3. usersBy' = by BY <1>8, <2>1
  <2>4. CalcTypes' BY <1>1, <1>8, <2>2, <2>3 DEF CalcTypes, CalcInv
  <2>5. NotBegun' /\ Ended' BY <1>1, <1>3, <1>8 DEF NotBegun, Ended
  <2>6. DatesOK' BY <1>1, <2>2, <2>3 DEF DatesOK
  <2>7. Ready' BY <1>1, <1>2, <1>3 DEF Ready
  <2>8. Progress'
    <3>1. ASSUME NEW a \in Accounts, a[1] \notin left' PROVE Settled(a)'
      <4>1. usersBy'[a] = None
        <5>1. PICK m \in Markets, u \in Users : a = <<m, u>> BY DEF Accounts
        <5>2. QED BY <1>8, <3>1, <5>1
      <4>2. \A c \in 0 .. r.end : a \notin blocks[c].active
        BY <2>2, <2>3, <4>1
      <4>3. \A c \in 0 .. range'.end : a \notin blocks'[c].active
        BY <1>1, <4>2
      <4>4. Paid(a)' = 0 /\ Earned(a)' = 0 /\ Owed(a, range.end)' = 0
        <5>1. Nothings' BY <2>7, NothingsHold, PTL
        <5>2. QED BY <4>3, <5>1 DEF Nothings
      <4>5. a \notin DOMAIN rows' BY <1>1, <1>4 DEF NoRows
      <4>6. FifoRemainingForPeriod(0, 0) = 0 BY DEF FifoRemainingForPeriod
      <4>7. QED BY <4>4, <4>5, <4>6 DEF Settled, ValueIn
    <3>2. \A a \in Accounts : a \notin DOMAIN rows' BY <1>1, <1>4 DEF NoRows
    <3>3. QED BY <3>1, <3>2 DEF Progress
  <2>9. QED BY <1>2, <1>5, <2>4, <2>5, <2>6, <2>8 DEF CalcInv
<1>9. QED BY <1>6, <1>7, <1>8

LEMMA InWork ==
  ASSUME CalcInv, phase # "chain"
  PROVE  Ready
BY DEF CalcInv, Ended, Ready

(* A market without rewards to calculate is passed.                        *)
LEMMA SkipStep ==
  ASSUME CalcInv, NEW m \in Markets, SkipMarket(m)
  PROVE  CalcInv'
<1>1. /\ phase = "markets" /\ m \in left /\ left' = left \ {m}
      /\ UNCHANGED <<blocks, phase, range, usersBy, rows, totals, why, lost>>
      /\ \/ ~Selected(range, m)
         \/ ListedAt[m] > range.end
         \/ RewardConfig(m, range.end) = "zero"
  BY DEF SkipMarket
<1>2. ChainInv' BY <1>1, ChainKept DEF CalcInv
<1>3. LatestBlock' = LatestBlock BY <1>1, SameChain
<1>4. CalcTypes' BY <1>1 DEF CalcTypes, CalcInv
<1>5. NotBegun' /\ Ended' /\ DatesOK'
  BY <1>1, <1>3 DEF CalcInv, NotBegun, Ended, DatesOK, Working
<1>6. Ready BY <1>1, InWork
<1>7. Progress'
  <2>1. ASSUME NEW a \in Accounts
        PROVE  IF a[1] \in left' THEN a \notin DOMAIN rows' ELSE Settled(a)'
    <3>1. IF a[1] \in left THEN a \notin DOMAIN rows ELSE Settled(a)
      BY <1>1 DEF CalcInv, Progress, Working
    <3>2. Settled(a) => Settled(a)'
      BY <1>1, SettledKept DEF ValueIn
    <3>3. CASE a[1] # m BY <1>1, <3>1, <3>2, <3>3
    <3>4. CASE a[1] = m
      <4>1. a \notin DOMAIN rows BY <1>1, <3>1, <3>4
      <4>2. CASE ~Selected(range, m)
        <5>1. Settled(a) BY <3>4, <4>1, <4>2 DEF Settled
        <5>2. QED BY <1>1, <3>2, <3>4, <5>1
      <4>3. CASE Selected(range, m)
        <5>1. range.end \in 0 .. LastBlock /\ LastBlock \in Nat
          BY <1>6, RangeFacts
        <5>2. m \notin blocks[range.end].configured
          <6>1. ListedAt[m] \in Nat BY ChainAssumption
          <6>2. CASE ListedAt[m] > range.end
            <7>1. ~(ListedAt[m] <= range.end) BY <5>1, <6>1, <6>2
            <7>2. QED BY <1>6, <5>1, <7>1, PayingIs
          <6>3. CASE RewardConfig(m, range.end) = "zero"
            BY <1>6, <5>1, <6>3, ConfigIs
          <6>4. QED BY <1>1, <4>3, <6>2, <6>3
        <5>3. Paid(a) = 0 /\ Earned(a) = 0 /\ Owed(a, range.end) = 0
          BY <1>6, <3>4, <5>2, UnconfiguredEarned
        <5>4. FifoRemainingForPeriod(0, 0) = 0 BY DEF FifoRemainingForPeriod
        <5>5. Settled(a) BY <4>1, <5>3, <5>4 DEF Settled, ValueIn
        <5>6. QED BY <1>1, <3>2, <3>4, <5>5
      <4>4. QED BY <4>2, <4>3
    <3>5. QED BY <3>3, <3>4
  <2>2. QED BY <2>1 DEF Progress
<1>8. RowsFit(rows') /\ TotalsFit(rows', totals') BY <1>1 DEF CalcInv
<1>9. QED BY <1>2, <1>4, <1>5, <1>7, <1>8 DEF CalcInv

UsersOf(m) == {u \in Users : usersBy[<<m, u>>] # None}

RowsOfMarket(m, startLost) ==
  [u \in UsersOf(m) |-> RowFor(<<m, u>>, startLost)]

Kept(m, startLost) ==
  {u \in UsersOf(m) : ~EmptyRow(RowsOfMarket(m, startLost)[u])}

(* What CalculateMarket does.                                              *)
LEMMA MarketIs ==
  ASSUME NEW m \in Markets, NEW startLost \in BOOLEAN,
         CalculateMarket(m, startLost)
  PROVE  /\ phase = "markets" /\ m \in left
         /\ Selected(range, m) /\ RewardConfig(m, range.end) # "zero"
         /\ \/ Refuse("rewardConfig") \/ Refuse("negative")
            \/ LET row == RowsOfMarket(m, startLost)
                   K == Kept(m, startLost) IN
               /\ RewardConfig(m, range.end) # None
               /\ \A u \in UsersOf(m) :
                    ~(row[u].earned < 0 \/ row[u].claimed < 0)
               /\ rows' = RowsAfter(rows, m, K, row)
               /\ totals' = TotalsAfter(totals, m, K, row)
               /\ lost' = (lost \/ (startLost /\ HasStart(m)))
               /\ left' = left \ {m}
               /\ UNCHANGED <<blocks, phase, range, usersBy, why>>
<1>1. /\ phase = "markets" /\ m \in left
      /\ Selected(range, m) /\ RewardConfig(m, range.end) # "zero"
  BY DEF CalculateMarket
<1>2. CASE RewardConfig(m, range.end) = None
  BY <1>1, <1>2 DEF CalculateMarket
<1>3. CASE RewardConfig(m, range.end) # None
  <2> DEFINE row == RowsOfMarket(m, startLost)
             K == Kept(m, startLost)
  <2>1. CASE \E u \in UsersOf(m) : row[u].earned < 0 \/ row[u].claimed < 0
    BY <1>1, <1>3, <2>1
       DEF CalculateMarket, RowsOfMarket, RowFor, StartOf, HasStart, UsersOf
  <2>2. CASE ~\E u \in UsersOf(m) : row[u].earned < 0 \/ row[u].claimed < 0
    <3>1. /\ lost' = (lost \/ (startLost /\ HasStart(m)))
          /\ left' = left \ {m}
          /\ UNCHANGED <<blocks, phase, range, usersBy, why>>
      BY <1>3, <2>2
         DEF CalculateMarket, RowsOfMarket, RowFor, StartOf, HasStart, UsersOf
    <3>2. rows' = RowsAfter(rows, m, K, row)
      BY <1>3, <2>2
         DEF CalculateMarket, RowsOfMarket, RowFor, StartOf, HasStart, UsersOf,
             Kept, RowsAfter
    <3>3. totals' = TotalsAfter(totals, m, K, row)
      BY <1>3, <2>2
         DEF CalculateMarket, RowsOfMarket, RowFor, StartOf, HasStart, UsersOf,
             Kept, TotalsAfter
    <3>4. QED BY <1>1, <1>3, <2>2, <3>1, <3>2, <3>3
  <2>3. QED BY <2>1, <2>2
<1>4. QED BY <1>2, <1>3

(* The rows a market gets.                                                 *)
LEMMA MarketRows ==
  ASSUME Ready, CalcInv, phase = "markets", NEW m \in Markets,
         NEW startLost \in BOOLEAN,
         RewardConfig(m, range.end) \notin {None, "zero"},
         NEW row, row = RowsOfMarket(m, startLost),
         \A u \in UsersOf(m) : ~(row[u].earned < 0 \/ row[u].claimed < 0)
  PROVE  \A u \in UsersOf(m) :
           LET a == <<m, u>> IN
           /\ a \in Accounts
           /\ row[u] \in Amounts
           /\ ~(startLost /\ HasStart(m)) =>
                row[u].earned = Earned(a) /\ row[u].claimed = Paid(a)
           /\ row[u].remaining = Owed(a, range.end)
           /\ row[u].forPeriod =
                FifoRemainingForPeriod(row[u].earned, row[u].remaining)
<1> TAKE u \in UsersOf(m)
<1> DEFINE a == <<m, u>>
           r == RowFor(a, startLost)
<1>1. u \in Users /\ usersBy[a] # None BY DEF UsersOf
<1>2. a \in Accounts BY <1>1 DEF Accounts
<1>3. usersBy[a] \in Nat BY <1>1, <1>2 DEF CalcInv, CalcTypes
<1>4. row[u] = r BY DEF RowsOfMarket
<1>5. a[1] = m OBVIOUS
<1>6. m \in blocks[range.end].configured
  BY RangeFacts, ConfigIs
<1>7. DatesOK /\ Working BY DEF CalcInv, Working
<1>8. PICK x : x = r OBVIOUS
<1> HIDE DEF a
<1>9. /\ ~(startLost /\ HasStart(a[1])) =>
           x.earned = Earned(a) /\ x.claimed = Paid(a)
      /\ x.remaining = Owed(a, range.end)
      /\ x.forPeriod = FifoRemainingForPeriod(x.earned, x.remaining)
      /\ x.earned \in Int /\ x.claimed \in Int /\ x.remaining \in Nat
      /\ x = [earned |-> x.earned, claimed |-> x.claimed,
              remaining |-> x.remaining, forPeriod |-> x.forPeriod]
  BY <1>2, <1>3, <1>5, <1>6, <1>7, <1>8, RowExact
<1>10. row[u] = x BY <1>4, <1>8
<1>11. x.earned \in Nat /\ x.claimed \in Nat BY <1>9, <1>10
<1>12. x.forPeriod \in Nat BY <1>9, <1>11 DEF FifoRemainingForPeriod
<1>13. x \in Amounts BY <1>9, <1>11, <1>12 DEF Amounts
<1>14. QED BY <1>2, <1>5, <1>9, <1>10, <1>13 DEF a

(* A market gets its rows, or ends the calculation.                        *)
LEMMA MarketStep ==
  ASSUME CalcInv, NEW m \in Markets, NEW startLost \in BOOLEAN,
         CalculateMarket(m, startLost)
  PROVE  CalcInv'
<1> DEFINE row == RowsOfMarket(m, startLost)
           K == Kept(m, startLost)
<1>1. phase = "markets" /\ m \in left
      /\ Selected(range, m) /\ RewardConfig(m, range.end) # "zero"
  BY MarketIs
<1>2. Ready BY <1>1, InWork
<1>3. CASE Refuse("rewardConfig") \/ Refuse("negative")
  <2>1. "rewardConfig" # None /\ "negative" # None BY RewardsAssumption
  <2>2. QED BY <1>1, <1>3, <2>1, RefuseStep
<1>4. CASE /\ RewardConfig(m, range.end) # None
           /\ \A u \in UsersOf(m) : ~(row[u].earned < 0 \/ row[u].claimed < 0)
           /\ rows' = RowsAfter(rows, m, K, row)
           /\ totals' = TotalsAfter(totals, m, K, row)
           /\ lost' = (lost \/ (startLost /\ HasStart(m)))
           /\ left' = left \ {m}
           /\ UNCHANGED <<blocks, phase, range, usersBy, why>>
  <2>1. PICK w : w = row OBVIOUS
  <2>2. PICK k : k = K OBVIOUS
  <2> HIDE DEF row, K
  <2>3. \A u \in UsersOf(m) :
           LET a == <<m, u>> IN
           /\ a \in Accounts
           /\ w[u] \in Amounts
           /\ ~(startLost /\ HasStart(m)) =>
                w[u].earned = Earned(a) /\ w[u].claimed = Paid(a)
           /\ w[u].remaining = Owed(a, range.end)
           /\ w[u].forPeriod =
                FifoRemainingForPeriod(w[u].earned, w[u].remaining)
    <3>1. w = RowsOfMarket(m, startLost) BY <2>1 DEF row
    <3>2. \A u \in UsersOf(m) : ~(w[u].earned < 0 \/ w[u].claimed < 0)
      BY <1>4, <2>1
    <3>3. RewardConfig(m, range.end) \notin {None, "zero"} BY <1>1, <1>4
    <3>4. QED BY <1>1, <1>2, <3>1, <3>2, <3>3, MarketRows
  <2>4. k = {u \in UsersOf(m) : ~EmptyRow(w[u])}
    BY <2>1, <2>2 DEF K, Kept, row
  <2>5. /\ rows' = RowsAfter(rows, m, k, w)
        /\ totals' = TotalsAfter(totals, m, k, w)
    BY <1>4, <2>1, <2>2
  <2>6. \A a \in Accounts :
           IF a[1] \in left THEN a \notin DOMAIN rows ELSE Settled(a)
    BY <1>1 DEF CalcInv, Progress, Working
  <2>7. RowsFit(rows) /\ TotalsFit(rows, totals) BY DEF CalcInv
  <2>8. Adds(rows, m, k, w)
    <3>1. \A a \in DOMAIN rows : a[1] # m
      BY <1>1, <2>6, <2>7 DEF RowsFit
    <3>2. k \subseteq UsersOf(m) /\ UsersOf(m) \subseteq Users
      BY <2>4 DEF UsersOf
    <3>3. \A u \in k : w[u] \in Amounts /\ ~EmptyRow(w[u])
      BY <2>3, <2>4
    <3>4. QED BY <2>7, <3>1, <3>2, <3>3 DEF Adds
  <2>9. PICK nw, nt : nw = rows' /\ nt = totals' OBVIOUS
  <2>10. /\ DOMAIN nw = DOMAIN rows \cup {<<m, u>> : u \in k}
         /\ \A a \in DOMAIN rows : nw[a] = rows[a]
         /\ \A u \in k : nw[<<m, u>>] = w[u]
         /\ RowsFit(nw)
    BY <2>5, <2>8, <2>9, RowsAdded, SMTT(30)
  <2>11. TotalsFit(nw, nt) BY <2>5, <2>7, <2>8, <2>9, TotalsAdded
  <2>12. ChainInv' BY <1>4, ChainKept DEF CalcInv
  <2>13. LatestBlock' = LatestBlock BY <1>4, SameChain
  <2>14. CalcTypes'
    <3>1. HasStart(m) \in BOOLEAN BY DEF HasStart
    <3>2. lost' \in BOOLEAN BY <1>4, <3>1 DEF CalcInv, CalcTypes
    <3>3. left' \subseteq Markets BY <1>4 DEF CalcInv, CalcTypes
    <3>4. QED BY <1>4, <3>2, <3>3 DEF CalcInv, CalcTypes
  <2>15. NotBegun' /\ Ended' /\ DatesOK'
    BY <1>1, <1>4, <2>13 DEF CalcInv, NotBegun, Ended, DatesOK, Working
  <2>16. Progress'
    <3>1. ASSUME NEW a \in Accounts
          PROVE  IF a[1] \in left' THEN a \notin DOMAIN rows' ELSE Settled(a)'
      <4>1. CASE a[1] # m
        <5>1. a \in DOMAIN rows <=> a \in DOMAIN nw
          BY <2>10, <4>1
        <5>2. a \in DOMAIN rows => rows'[a] = rows[a] BY <2>9, <2>10
        <5>3. DOMAIN rows' = DOMAIN nw BY <2>9
        <5>4. /\ ValueIn(a, "earned")' = ValueIn(a, "earned")
              /\ ValueIn(a, "claimed")' = ValueIn(a, "claimed")
              /\ ValueIn(a, "remaining")' = ValueIn(a, "remaining")
              /\ ValueIn(a, "forPeriod")' = ValueIn(a, "forPeriod")
          BY <5>1, <5>2, <5>3 DEF ValueIn
        <5>5. ~lost' => ~lost BY <1>4
        <5>6. Settled(a) => Settled(a)'
          BY <1>4, <5>1, <5>3, <5>4, <5>5, SettledKept
        <5>7. QED BY <1>4, <2>6, <4>1, <5>1, <5>3, <5>6
      <4>2. CASE a[1] = m
        <5>1. PICK u \in Users : a = <<m, u>> BY <4>2 DEF Accounts
        <5>2. a \notin DOMAIN rows BY <1>1, <2>6, <4>2
        <5>3. a \in DOMAIN nw <=> u \in k BY <2>10, <5>1, <5>2
        <5>4. /\ Earned(a)' = Earned(a) /\ Paid(a)' = Paid(a)
              /\ Owed(a, range.end)' = Owed(a, range.end)
              /\ Selected(range', m)
          BY <1>1, <1>4, SameChain
        <5>5. ASSUME u \in UsersOf(m)
              PROVE  /\ ValueIn(a, "earned")' = w[u].earned
                     /\ ValueIn(a, "claimed")' = w[u].claimed
                     /\ ValueIn(a, "remaining")' = w[u].remaining
                     /\ ValueIn(a, "forPeriod")' = w[u].forPeriod
          <6>1. CASE u \in k
            <7>1. nw[a] = w[u] /\ a \in DOMAIN nw BY <2>10, <5>1, <5>3, <6>1
            <7>2. QED BY <2>9, <7>1 DEF ValueIn
          <6>2. CASE u \notin k
            <7>1. EmptyRow(w[u]) BY <2>4, <5>5, <6>2
            <7>2. w[u].earned = 0 /\ w[u].claimed = 0 /\ w[u].remaining = 0
              BY <7>1 DEF EmptyRow
            <7>3. w[u].forPeriod = 0
              BY <2>3, <5>5, <7>2 DEF FifoRemainingForPeriod
            <7>4. a \notin DOMAIN nw BY <5>3, <6>2
            <7>5. QED BY <2>9, <7>2, <7>3, <7>4 DEF ValueIn
          <6>3. QED BY <6>1, <6>2
        <5>6. CASE u \in UsersOf(m)
          <6>1. /\ ~(startLost /\ HasStart(m)) =>
                     w[u].earned = Earned(a) /\ w[u].claimed = Paid(a)
                /\ w[u].remaining = Owed(a, range.end)
                /\ w[u].forPeriod =
                     FifoRemainingForPeriod(w[u].earned, w[u].remaining)
            BY <2>3, <5>1, <5>6
          <6>2. ~lost' => ~(startLost /\ HasStart(m)) BY <1>4
          <6>3. Settled(a)'
            BY <4>2, <5>4, <5>5, <5>6, <6>1, <6>2 DEF Settled
          <6>4. QED BY <1>4, <4>2, <6>3
        <5>7. CASE u \notin UsersOf(m)
          <6>1. usersBy[a] = None BY <5>1, <5>7 DEF UsersOf
          <6>2. \A c \in 0 .. range.end : a \notin blocks[c].active
            BY <1>1, <6>1 DEF CalcInv, DatesOK, Working
          <6>3. Paid(a) = 0 /\ Earned(a) = 0 /\ Owed(a, range.end) = 0
            BY <1>2, <6>2, AbsentEarned
          <6>4. u \notin k BY <2>4, <5>7
          <6>5. a \notin DOMAIN rows' BY <2>9, <5>3, <6>4
          <6>6. FifoRemainingForPeriod(0, 0) = 0
            BY DEF FifoRemainingForPeriod
          <6>7. Settled(a)'
            BY <4>2, <5>4, <6>3, <6>5, <6>6 DEF Settled, ValueIn
          <6>8. QED BY <1>4, <4>2, <6>7
        <5>8. QED BY <5>6, <5>7
      <4>3. QED BY <4>1, <4>2
    <3>2. QED BY <3>1 DEF Progress
  <2>17. RowsFit(rows') /\ TotalsFit(rows', totals') BY <2>9, <2>10, <2>11
  <2>18. QED BY <2>12, <2>14, <2>15, <2>16, <2>17 DEF CalcInv
<1>5. QED BY <1>3, <1>4, MarketIs

LEMMA FinishStep == ASSUME CalcInv, Finish PROVE CalcInv'
<1>1. /\ phase = "markets" /\ left = {} /\ phase' = "done"
      /\ UNCHANGED <<blocks, range, usersBy, left, rows, totals, why, lost>>
  BY DEF Finish
<1>2. ChainInv' BY <1>1, ChainKept DEF CalcInv
<1>3. LatestBlock' = LatestBlock BY <1>1, SameChain
<1>4. CalcTypes' BY <1>1 DEF CalcInv, CalcTypes
<1>5. NotBegun' /\ Ended' /\ DatesOK'
  BY <1>1, <1>3 DEF CalcInv, NotBegun, Ended, DatesOK, Working
<1>6. Progress'
  <2>1. ASSUME NEW a \in Accounts PROVE Settled(a)'
    <3>1. Settled(a) BY <1>1 DEF CalcInv, Progress, Working
    <3>2. QED BY <1>1, <3>1, SettledKept DEF ValueIn
  <2>2. QED BY <1>1, <2>1 DEF Progress
<1>7. RowsFit(rows') /\ TotalsFit(rows', totals') BY <1>1 DEF CalcInv
<1>8. QED BY <1>2, <1>4, <1>5, <1>6, <1>7 DEF CalcInv

(* Every step keeps the invariant.                                         *)
LEMMA CalcStep == CalcInv /\ [Next]_vars => CalcInv'
<1> SUFFICES ASSUME CalcInv, [Next]_vars PROVE CalcInv' OBVIOUS
<1>1. CASE ChainGrows BY <1>1, GrowsStep
<1>2. ASSUME NEW r \in Ranges, NEW cursor \in 0 .. LastBlock,
             Begin(r, cursor)
      PROVE  CalcInv'
  BY <1>2, BeginStep
<1>3. ASSUME NEW m \in Markets, SkipMarket(m) PROVE CalcInv'
  BY <1>3, SkipStep
<1>4. ASSUME NEW m \in Markets, NEW startLost \in BOOLEAN,
             CalculateMarket(m, startLost)
      PROVE  CalcInv'
  BY <1>4, MarketStep
<1>5. CASE ReadFails
  <2>1. "rpc" # None BY RewardsAssumption
  <2>2. phase # "chain" /\ Refuse("rpc") BY <1>5 DEF ReadFails
  <2>3. QED BY <2>1, <2>2, RefuseStep
<1>6. CASE Finish BY <1>6, FinishStep
<1>7. CASE UNCHANGED vars BY <1>7, StutterStep
<1>8. QED BY <1>1, <1>2, <1>3, <1>4, <1>5, <1>6, <1>7 DEF Next

(* At every step of a calculation, whatever calls fail: each Comet that is *)
(* through agrees with the chain, none of the others has a row, and every  *)
(* total is the sum of its rows (calculate of V3PeriodRewardsService).     *)
THEOREM CalculationInvariant == Spec => []CalcInv
BY CalcInit, CalcStep, PTL DEF Spec

(* A calculation that ends reports for every user of every selected Comet  *)
(* exactly what they were paid since its start and are owed at the end,    *)
(* less what they were owed before, and nothing for the other Comets:      *)
(* users dated at a boundary, Comets listed or configured in the middle of *)
(* the period and users without a row included.                            *)
THEOREM EarnedAlwaysExact == Spec => []EarnedExact
<1>1. CalcInv => EarnedExact
  <2> SUFFICES ASSUME CalcInv, Done, ~lost, NEW a \in Accounts
               PROVE  IF Selected(range, a[1])
                      THEN /\ ValueIn(a, "earned") = Earned(a)
                           /\ ValueIn(a, "claimed") = Paid(a)
                      ELSE a \notin DOMAIN rows
    BY DEF EarnedExact, ReportsEarned
  <2>1. left = {} BY DEF CalcInv, Ended, Done
  <2>2. Settled(a) BY <2>1 DEF CalcInv, Progress, Working, Done
  <2>3. QED BY <2>2 DEF Settled
<1>2. QED BY <1>1, CalculationInvariant, PTL

-----------------------------------------------------------------------------
(* The export.                                                             *)

(* Rows and totals of one group, totals being sums of rows.                *)
GroupFits(gr, gt) ==
  /\ IsFiniteSet(DOMAIN gr)
  /\ \A a \in DOMAIN gr : gr[a] \in Amounts /\ ~EmptyRow(gr[a])
  /\ DOMAIN gt = UsersIn(gr)
  /\ \A u \in DOMAIN gt :
       /\ gt[u] \in Amounts
       /\ \A f \in Fields :
            gt[u][f] = SumFunctionOnSet(Column(gr, f), RowsOf(gr, u))

InGroup(rw, t) == {a \in DOMAIN rw : TokenOf[a[1]] = t}

(* The groups of a calculation have totals that are sums of rows.          *)
LEMMA GroupOf ==
  ASSUME NEW rw, RowsFit(rw), NEW tt, TotalsFit(rw, tt), NEW t,
         NEW gr, gr = Restrict(rw, InGroup(rw, t)),
         NEW gt, gt = [u \in {k[2] : k \in {j \in DOMAIN tt : j[1] = t}}
                         |-> tt[<<t, u>>]]
  PROVE  GroupFits(gr, gt)
<1>1. /\ DOMAIN gr = InGroup(rw, t)
      /\ \A a \in InGroup(rw, t) : gr[a] = rw[a]
  BY DEF Restrict
<1>2. InGroup(rw, t) \subseteq DOMAIN rw /\ DOMAIN rw \subseteq Accounts
  BY DEF InGroup, RowsFit
<1>3. IsFiniteSet(DOMAIN gr) BY <1>1, <1>2, FiniteAccounts, FS_Subset
<1>4. \A a \in DOMAIN gr : gr[a] \in Amounts /\ ~EmptyRow(gr[a])
  BY <1>1, <1>2 DEF RowsFit
<1>5. \A u : <<t, u>> \in DOMAIN tt <=> u \in UsersIn(gr)
  <2> TAKE u
  <2>1. ASSUME <<t, u>> \in DOMAIN tt PROVE u \in UsersIn(gr)
    <3>1. PICK a \in DOMAIN rw : <<t, u>> = <<TokenOf[a[1]], a[2]>>
      BY <2>1 DEF TotalsFit
    <3>2. a \in DOMAIN gr /\ a[2] = u BY <1>1, <3>1 DEF InGroup
    <3>3. QED BY <3>2 DEF UsersIn
  <2>2. ASSUME u \in UsersIn(gr) PROVE <<t, u>> \in DOMAIN tt
    <3>1. PICK a \in DOMAIN gr : a[2] = u BY <2>2 DEF UsersIn
    <3>2. a \in DOMAIN rw /\ TokenOf[a[1]] = t BY <1>1, <3>1 DEF InGroup
    <3>3. QED BY <3>1, <3>2 DEF TotalsFit
  <2>3. QED BY <2>1, <2>2
<1>6. DOMAIN gt = UsersIn(gr) /\ \A u \in DOMAIN gt : gt[u] = tt[<<t, u>>]
  <2>1. \A k \in DOMAIN tt : k = <<k[1], k[2]>> BY DEF TotalsFit
  <2>2. \A u : u \in DOMAIN gt <=> <<t, u>> \in DOMAIN tt BY <2>1
  <2>3. QED BY <1>5, <2>2
<1>7. ASSUME NEW u \in DOMAIN gt
      PROVE  /\ gt[u] \in Amounts
             /\ \A f \in Fields :
                  gt[u][f] = SumFunctionOnSet(Column(gr, f), RowsOf(gr, u))
  <2>1. <<t, u>> \in DOMAIN tt /\ gt[u] = tt[<<t, u>>] BY <1>5, <1>6
  <2>2. Parts(rw, <<t, u>>) = RowsOf(gr, u)
    BY <1>1 DEF Parts, RowsOf, InGroup
  <2>3. ASSUME NEW f \in Fields
        PROVE  SumFunctionOnSet(Column(gr, f), RowsOf(gr, u))
                 = SumFunctionOnSet(Column(rw, f), RowsOf(gr, u))
    <3>1. \A a \in RowsOf(gr, u) : a \in DOMAIN gr BY DEF RowsOf
    <3>2. \A a \in RowsOf(gr, u) :
            Column(rw, f)[a] \in Nat /\ Column(gr, f)[a] = Column(rw, f)[a]
      <4> TAKE a \in RowsOf(gr, u)
      <4>1. a \in DOMAIN gr /\ a \in DOMAIN rw /\ gr[a] = rw[a]
        BY <1>1, <1>2, <3>1
      <4>2. Column(gr, f)[a] = gr[a][f] BY <4>1 DEF Column
      <4>3. Column(rw, f)[a] = rw[a][f] /\ rw[a][f] \in Nat
        BY <4>1, ColumnTypes
      <4>4. QED BY <4>1, <4>2, <4>3
    <3>3. IsFiniteSet(RowsOf(gr, u)) BY <1>3, <3>1, FS_Subset
    <3>4. QED BY <3>2, <3>3, SumSame
  <2>4. /\ tt[<<t, u>>] \in Amounts
        /\ \A f \in Fields : tt[<<t, u>>][f] =
             SumFunctionOnSet(Column(rw, f), Parts(rw, <<t, u>>))
    BY <2>1 DEF TotalsFit
  <2>5. QED BY <2>1, <2>2, <2>3, <2>4
<1>8. QED BY <1>3, <1>4, <1>6, <1>7 DEF GroupFits

(* What a field of the rows adds up to is what it adds up to by user.      *)
LEMMA GroupSums ==
  ASSUME NEW gr, NEW gt, GroupFits(gr, gt), NEW f \in Fields
  PROVE  /\ IsFiniteSet(DOMAIN gt)
         /\ \A a \in DOMAIN gr : Column(gr, f)[a] \in Nat
         /\ \A u \in DOMAIN gt : Column(gt, f)[u] = gt[u][f] /\ gt[u][f] \in Nat
         /\ SumFunction(Column(gr, f)) = SumFunction(Column(gt, f))
<1>1. \A a \in DOMAIN gr : Column(gr, f)[a] \in Nat
  BY FieldTypes DEF GroupFits, Column
<1>2. \A u \in DOMAIN gt : Column(gt, f)[u] = gt[u][f] /\ gt[u][f] \in Nat
  BY FieldTypes DEF GroupFits, Column
<1> DEFINE user == [a \in DOMAIN gr |-> a[2]]
<1>3. DOMAIN gt = {user[a] : a \in DOMAIN gr} BY DEF GroupFits, UsersIn
<1>4. IsFiniteSet(DOMAIN gr) BY DEF GroupFits
<1>5. IsFiniteSet({user[a] : a \in DOMAIN gr})
  <2> DEFINE P == {T \in SUBSET DOMAIN gr : IsFiniteSet({user[a] : a \in T})}
  <2>1. {} \in P
    <3>1. {user[a] : a \in {}} = {} OBVIOUS
    <3>2. QED BY <3>1, FS_EmptySet
  <2>2. ASSUME NEW T \in SUBSET DOMAIN gr, NEW x \in DOMAIN gr \ T, T \in P
        PROVE  T \cup {x} \in P
    <3>1. {user[a] : a \in T \cup {x}} = {user[a] : a \in T} \cup {user[x]}
      OBVIOUS
    <3>2. IsFiniteSet({user[a] : a \in T}) BY <2>2
    <3>3. IsFiniteSet({user[a] : a \in T} \cup {user[x]})
      BY <3>2, FS_AddElement
    <3>4. QED BY <3>1, <3>3
  <2>3. DOMAIN gr \in P
    <3> HIDE DEF P
    <3>1. QED BY <1>4, <2>1, <2>2, SetInduct
  <2>4. QED BY <2>3
<1>6. IsFiniteSet(DOMAIN gt) BY <1>3, <1>5
<1>7. \A a \in DOMAIN gr : user[a] \in DOMAIN gt BY <1>3
<1>8. \A u \in DOMAIN gt : Column(gt, f)[u] =
        SumFunctionOnSet(Column(gr, f), ClassOf(DOMAIN gr, user, u))
  <2> TAKE u \in DOMAIN gt
  <2>1. RowsOf(gr, u) = ClassOf(DOMAIN gr, user, u) BY DEF RowsOf, ClassOf
  <2>2. gt[u][f] = SumFunctionOnSet(Column(gr, f), RowsOf(gr, u))
    BY DEF GroupFits
  <2>3. QED BY <1>2, <2>1, <2>2
<1> HIDE DEF user
<1>9. SumFunctionOnSet(Column(gr, f), DOMAIN gr)
        = SumFunctionOnSet(Column(gt, f), DOMAIN gt)
  BY <1>1, <1>4, <1>6, <1>7, <1>8, SumClasses
<1>10. DOMAIN Column(gr, f) = DOMAIN gr /\ DOMAIN Column(gt, f) = DOMAIN gt
  BY DEF Column
<1>11. SumFunction(Column(gr, f)) = SumFunction(Column(gt, f))
  BY <1>9, <1>10 DEF SumFunction
<1>12. QED BY <1>1, <1>2, <1>6, <1>11

(* No check of the export refuses such a group, and everyone gets what     *)
(* their rows add up to.                                                   *)
LEMMA GroupAccepted ==
  ASSUME NEW gr, NEW gt, GroupFits(gr, gt), DOMAIN gt # {},
         NEW periodOnly \in BOOLEAN,
         NEW g, g = PrepareGroup(3, gr, gt, periodOnly), NEW u
  PROVE  /\ ~g.refused
         /\ RewardIn(g, u) =
              SumFunctionOnSet(Column(gr, PayableField(periodOnly)),
                               RowsOf(gr, u))
<1> DEFINE f == PayableField(periodOnly)
           owed(v) == SumFunctionOnSet(Column(gr, f), RowsOf(gr, v))
           paid == [v \in DOMAIN gt |->
                      Rewarded(3, gr, gt, periodOnly, v)]
<1>1. f \in Fields BY DEF PayableField, Fields
<1>2. UsersIn(gr) \cup DOMAIN gt = DOMAIN gt BY DEF GroupFits
<1>3. \A v \in DOMAIN gt : paid[v] = owed(v) /\ paid[v] = gt[v][f]
                           /\ paid[v] \in Nat
  <2> TAKE v \in DOMAIN gt
  <2>1. paid[v] = owed(v) BY DEF Rewarded
  <2>2. gt[v][f] = owed(v) BY <1>1 DEF GroupFits
  <2>3. gt[v][f] \in Nat BY <1>1, GroupSums
  <2>4. QED BY <2>1, <2>2, <2>3
<1>4. ~\E a \in DOMAIN gr : BadRow(3, gr[a])
  <2> SUFFICES ASSUME NEW a \in DOMAIN gr PROVE ~BadRow(3, gr[a]) OBVIOUS
  <2>1. gr[a] \in Amounts /\ ~EmptyRow(gr[a]) BY DEF GroupFits
  <2>2. PICK x : x = gr[a] OBVIOUS
  <2>3. x.earned \in Nat /\ x.claimed \in Nat /\ x.remaining \in Nat
        /\ x.forPeriod \in Nat
    BY <2>1, <2>2 DEF Amounts
  <2>4. ~BadRow(3, x) BY <2>1, <2>2, <2>3 DEF BadRow, EmptyRow
  <2>5. QED BY <2>2, <2>4
<1>5. ~\E v \in DOMAIN gt : BadTotal(3, gr, gt[v], v)
  BY DEF BadTotal, Attributed, GroupFits, Fields
<1>6. ~\E v \in (UsersIn(gr) \cup DOMAIN gt) \ DOMAIN gt : TRUE BY <1>2
<1>7. ~\E v \in DOMAIN gt :
         paid[v] # 0 /\ paid[v] # Payable(gt[v], periodOnly)
  BY <1>3 DEF Payable
<1>8. SumFunction(Column(gr, "earned")) = SumFunction(Column(gt, "earned"))
  <2>1. "earned" \in Fields BY DEF Fields
  <2>2. QED BY <2>1, GroupSums
<1>9. SumFunction(paid) = SumFunction(Column(gt, f))
  <2>1. DOMAIN paid = DOMAIN gt /\ DOMAIN Column(gt, f) = DOMAIN gt
    BY DEF Column
  <2>2. IsFiniteSet(DOMAIN gt) BY <1>1, GroupSums
  <2>3. \A v \in DOMAIN gt :
          Column(gt, f)[v] \in Nat /\ paid[v] = Column(gt, f)[v]
    BY <1>1, <1>3, GroupSums
  <2> HIDE DEF paid, f
  <2>4. SumFunctionOnSet(paid, DOMAIN gt)
          = SumFunctionOnSet(Column(gt, f), DOMAIN gt)
    BY <2>2, <2>3, SumSame
  <2>5. QED BY <2>1, <2>4 DEF SumFunction
<1>10. g = [refused |-> FALSE,
            rewards |-> [v \in {w \in DOMAIN gt : paid[w] > 0} |-> paid[v]],
            allocation |-> SumFunction(paid),
            funding |-> FundingRequired(SumFunction(paid))]
  BY <1>2, <1>4, <1>5, <1>6, <1>7, <1>8, <1>9 DEF PrepareGroup
<1>11. ~g.refused /\ g.rewards =
         [v \in {w \in DOMAIN gt : paid[w] > 0} |-> paid[v]]
  BY <1>10
<1>12. RewardIn(g, u) = owed(u)
  <2>1. CASE u \in DOMAIN gt
    <3>1. paid[u] = owed(u) /\ paid[u] \in Nat BY <1>3, <2>1
    <3>2. CASE paid[u] > 0
      <4>1. u \in DOMAIN g.rewards /\ g.rewards[u] = paid[u]
        BY <1>11, <2>1, <3>2
      <4>2. QED BY <3>1, <4>1 DEF RewardIn
    <3>3. CASE ~(paid[u] > 0)
      <4>1. paid[u] = 0 BY <3>1, <3>3
      <4>2. u \notin DOMAIN g.rewards BY <1>11, <3>3
      <4>3. QED BY <3>1, <4>1, <4>2 DEF RewardIn
    <3>4. QED BY <3>2, <3>3
  <2>2. CASE u \notin DOMAIN gt
    <3>1. u \notin DOMAIN g.rewards BY <1>11, <2>2
    <3>2. RowsOf(gr, u) = {} BY <2>2 DEF GroupFits, UsersIn, RowsOf
    <3>3. owed(u) = 0 BY <3>2, SumEmpty
    <3>4. QED BY <3>1, <3>3 DEF RewardIn
  <2>3. QED BY <2>1, <2>2
<1>13. QED BY <1>11, <1>12

(* What the rows of a user in the markets with a token add up to is what   *)
(* the selected ones owe.                                                  *)
SelectedWith(t) == {k \in Markets : TokenOf[k] = t /\ Selected(range, k)}

DebtIn(a, periodOnly) ==
  IF periodOnly
  THEN FifoRemainingForPeriod(ValueIn(a, "earned"), Owed(a, range.end))
  ELSE Owed(a, range.end)

LEMMA DebtOfRows ==
  ASSUME CalcInv, Done, NEW t, NEW u \in Users, NEW periodOnly \in BOOLEAN,
         NEW gr, gr = Restrict(rows, InGroup(rows, t)),
         NEW debt,
         debt = [m \in SelectedWith(t) |-> DebtIn(<<m, u>>, periodOnly)]
  PROVE  SumFunction(debt) =
           SumFunctionOnSet(Column(gr, PayableField(periodOnly)), RowsOf(gr, u))
<1> DEFINE f == PayableField(periodOnly)
           M == SelectedWith(t)
           value == [a \in Accounts |-> ValueIn(a, f)]
           Image == M \X {u}
           R == RowsOf(gr, u)
<1>1. f \in Fields BY DEF PayableField, Fields
<1>2. \A a \in Accounts : Settled(a)
  <2>1. left = {} BY DEF CalcInv, Ended, Done
  <2>2. QED BY <2>1 DEF CalcInv, Progress, Working, Done
<1>3. \A a \in Accounts : value[a] \in Nat
  <2> TAKE a \in Accounts
  <2>1. CASE a \in DOMAIN rows
    <3>1. rows[a] \in Amounts BY <2>1 DEF CalcInv, RowsFit
    <3>2. rows[a][f] \in Nat BY <1>1, <3>1, FieldTypes
    <3>3. QED BY <2>1, <3>2 DEF ValueIn
  <2>2. CASE a \notin DOMAIN rows BY <2>2 DEF ValueIn
  <2>3. QED BY <2>1, <2>2
<1>4. \A m \in M : <<m, u>> \in Accounts /\ Selected(range, m)
  BY DEF SelectedWith, Accounts
<1>5. \A m \in M : value[<<m, u>>] \in Nat /\ debt[m] = value[<<m, u>>]
  <2> TAKE m \in M
  <2> DEFINE a == <<m, u>>
  <2>1. a \in Accounts /\ a[1] = m /\ Selected(range, m) BY <1>4
  <2> HIDE DEF a
  <2>2. /\ ValueIn(a, "remaining") = Owed(a, range.end)
        /\ ValueIn(a, "forPeriod") =
             FifoRemainingForPeriod(ValueIn(a, "earned"),
                                    ValueIn(a, "remaining"))
    BY <1>2, <2>1 DEF Settled
  <2>3. ValueIn(a, f) = DebtIn(a, periodOnly)
    BY <2>2 DEF DebtIn, PayableField
  <2>4. debt[m] = DebtIn(a, periodOnly) BY DEF a
  <2>5. value[a] = ValueIn(a, f) BY <2>1
  <2>6. value[a] \in Nat BY <1>3, <2>1
  <2>7. QED BY <2>3, <2>4, <2>5, <2>6 DEF a
<1>6. IsFiniteSet(M) BY RewardsAssumption, FS_Subset DEF SelectedWith
<1>9. Image \subseteq Accounts BY <1>4
<1>10. DOMAIN gr = InGroup(rows, t)
       /\ \A a \in DOMAIN gr : gr[a] = rows[a] /\ a \in DOMAIN rows
  BY DEF Restrict, InGroup
<1>11. R \subseteq Image
  <2> SUFFICES ASSUME NEW a \in R PROVE a \in Image OBVIOUS
  <2>1. a \in DOMAIN rows /\ TokenOf[a[1]] = t /\ a[2] = u
    BY <1>10 DEF RowsOf, InGroup
  <2>2. a \in Accounts BY <2>1 DEF CalcInv, RowsFit
  <2>3. a[1] \in Markets /\ a = <<a[1], u>> BY <2>1, <2>2 DEF Accounts
  <2>4. Selected(range, a[1]) BY <1>2, <2>1, <2>2 DEF Settled
  <2>5. a[1] \in M BY <2>1, <2>3, <2>4 DEF SelectedWith
  <2>6. QED BY <2>3, <2>5
<1>12. \A a \in Image \ R : value[a] = 0
  <2> TAKE a \in Image \ R
  <2>1. PICK m \in M : a = <<m, u>> OBVIOUS
  <2>2. TokenOf[m] = t BY DEF SelectedWith
  <2>3. a \notin DOMAIN rows
    BY <1>10, <2>1, <2>2 DEF RowsOf, InGroup
  <2>4. QED BY <1>9, <2>3 DEF ValueIn
<1>13. \A a \in R : value[a] \in Nat /\ Column(gr, f)[a] = value[a]
  <2> TAKE a \in R
  <2>1. a \in DOMAIN gr /\ a \in DOMAIN rows /\ gr[a] = rows[a]
    BY <1>10 DEF RowsOf
  <2>2. a \in Accounts BY <1>9, <1>11
  <2>3. Column(gr, f)[a] = gr[a][f] BY <2>1 DEF Column
  <2>4. value[a] = rows[a][f] BY <2>1, <2>2 DEF ValueIn
  <2>5. QED BY <1>3, <2>1, <2>2, <2>3, <2>4
<1>14. PICK d, g, h, I, S, c, K :
         /\ d = debt /\ I = Image /\ g = [a \in Image |-> value[a]]
         /\ S = M /\ h = [m \in M |-> <<m, u>>]
         /\ c = Column(gr, f) /\ K = R
  OBVIOUS
<1>15. SumFunctionOnSet(d, S) = SumFunctionOnSet(c, K)
  <2>1. IsFiniteSet(S) BY <1>6, <1>14
  <2>2. K \in SUBSET I BY <1>11, <1>14
  <2>3. \A a \in I : g[a] = value[a] BY <1>14
  <2>4. g \in [I -> Nat] BY <1>3, <1>9, <1>14
  <2>5. h \in [S -> I] BY <1>14
  <2>6. \A y \in I : \E x \in S : y = h[x] BY <1>14
  <2>7. \A x, y \in S : h[x] = h[y] => x = y BY <1>14
  <2>8. \A m \in S : d[m] = g[h[m]] BY <1>5, <1>14, <2>3
  <2>9. \A a \in I \ K : g[a] = 0 BY <1>12, <1>14, <2>3
  <2>10. \A a \in K : c[a] = g[a]
    <3> SUFFICES ASSUME NEW a \in K PROVE c[a] = g[a] OBVIOUS
    <3>1. a \in R /\ a \in I BY <1>11, <1>14
    <3>2. Column(gr, f)[a] = value[a] BY <1>13, <3>1
    <3>3. g[a] = value[a] BY <2>3, <3>1
    <3>4. c = Column(gr, f) BY <1>14
    <3> HIDE DEF value, f
    <3>5. QED BY <3>2, <3>3, <3>4
  <2>11. QED
    BY <2>1, <2>2, <2>4, <2>5, <2>6, <2>7, <2>8, <2>9, <2>10, SumThrough
<1>16. SumFunction(debt) = SumFunctionOnSet(debt, M)
  BY DEF SumFunction
<1>17. QED BY <1>14, <1>15, <1>16

(* The export refuses no group of a finished calculation, in neither mode, *)
(* and its file pays every user what the selected Comets owe them at the   *)
(* end, with --period the part of each debt that the period has earned.    *)
THEOREM ExportAlwaysPaysDebt == Spec => []ExportPaysDebt
<1>1. CalcInv => ExportPaysDebt
  <2> SUFFICES ASSUME CalcInv, Done, NEW t \in Tokens,
                      NEW periodOnly \in BOOLEAN
      PROVE  LET group == IF DOMAIN GroupTotals(t) = {} THEN NoGroup
                          ELSE PrepareGroup(3, GroupRows(t), GroupTotals(t),
                                            periodOnly) IN
             /\ ~group.refused
             /\ \A u \in Users :
                  RewardIn(group, u) =
                    SumFunction([m \in SelectedWith(t)
                                   |-> DebtIn(<<m, u>>, periodOnly)])
    BY DEF ExportPaysDebt, SelectedWith, DebtIn
  <2>1. PICK gr : gr = GroupRows(t) OBVIOUS
  <2>2. PICK gt : gt = GroupTotals(t) OBVIOUS
  <2> DEFINE owed(u) ==
        SumFunctionOnSet(Column(gr, PayableField(periodOnly)), RowsOf(gr, u))
  <2>3. gr = Restrict(rows, InGroup(rows, t))
    BY <2>1 DEF GroupRows, InGroup
  <2>4. GroupFits(gr, gt)
    BY <2>2, <2>3, GroupOf DEF CalcInv, GroupTotals
  <2>5. \A u \in Users :
          owed(u) = SumFunction([m \in SelectedWith(t)
                                   |-> DebtIn(<<m, u>>, periodOnly)])
    BY <2>3, DebtOfRows
  <2>6. CASE DOMAIN gt = {}
    <3>1. \A u : RowsOf(gr, u) = {}
      BY <2>4, <2>6 DEF GroupFits, UsersIn, RowsOf
    <3>2. \A u : owed(u) = 0 BY <3>1, SumEmpty
    <3>3. ~NoGroup.refused /\ \A u : RewardIn(NoGroup, u) = 0
      BY DEF NoGroup, RewardIn
    <3>4. QED BY <2>1, <2>2, <2>5, <2>6, <3>2, <3>3
  <2>7. CASE DOMAIN gt # {}
    <3>1. PICK g : g = PrepareGroup(3, gr, gt, periodOnly) OBVIOUS
    <3>2. ~g.refused /\ \A u : RewardIn(g, u) = owed(u)
      BY <2>4, <2>7, <3>1, GroupAccepted
    <3>3. QED BY <2>1, <2>2, <2>5, <2>7, <3>1, <3>2
  <2>8. QED BY <2>6, <2>7
<1>2. QED BY <1>1, CalculationInvariant, PTL

(* Rows and totals never hold a negative amount, totals only pair a token  *)
(* with a user, and a calculation has an error exactly when it is refused. *)
THEOREM TypeCorrect == Spec => []TypeOK
<1>1. CalcInv => TypeOK
  <2> SUFFICES ASSUME CalcInv PROVE TypeOK OBVIOUS
  <2>1. DOMAIN blocks = 0 .. LatestBlock BY DEF CalcInv, ChainInv, ChainOK
  <2>2. /\ phase \in {"chain", "markets", "done", "refused"}
        /\ \A a \in Accounts : usersBy[a] \in Nat \cup {None}
        /\ left \subseteq Markets
        /\ lost \in BOOLEAN
        /\ (why # None) = (phase = "refused")
    BY DEF CalcInv, CalcTypes
  <2>3. range \in Ranges \/ phase = "chain" BY DEF CalcInv, Ended
  <2>4. DOMAIN rows \subseteq Accounts
        /\ \A a \in DOMAIN rows : rows[a] \in Amounts
    BY DEF CalcInv, RowsFit
  <2>5. \A a \in DOMAIN rows : <<TokenOf[a[1]], a[2]>> \in Tokens \X Users
    BY <2>4, ChainAssumption DEF Accounts
  <2>6. DOMAIN totals \subseteq Tokens \X Users
        /\ \A k \in DOMAIN totals : totals[k] \in Amounts
    BY <2>5 DEF CalcInv, TotalsFit
  <2>7. QED BY <2>1, <2>2, <2>3, <2>4, <2>6 DEF TypeOK
<1>2. QED BY <1>1, CalculationInvariant, PTL
=============================================================================
