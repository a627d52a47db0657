----------------------------- MODULE RewardMath -----------------------------
(***************************************************************************)
(* period-rewards.math.ts: the integer arithmetic of COMP rewards.  BigInt *)
(* division of non-negative numbers truncates, as \div does.               *)
(*                                                                         *)
(* An error thrown for a negative amount is left to the caller: the        *)
(* operator returns the negative number and the caller refuses it.         *)
(***************************************************************************)
EXTENDS Integers

CONSTANTS
  DoubleScale,  (* DOUBLE_SCALE, 10^36 in the program                      *)
  ExpScale      (* EXP_SCALE, 10^18 in the program                         *)

ASSUME ScaleAssumption ==
  DoubleScale \in Nat \ {0} /\ ExpScale \in Nat \ {0}

(* COMP_INITIAL_INDEX                                                      *)
InitialIndex == DoubleScale

ProjectSupplyIndex(stored, stateBlock, block, speed, totalSupply) ==
  IF block = stateBlock \/ speed = 0 \/ totalSupply = 0 THEN stored
  ELSE stored + ((block - stateBlock) * speed * DoubleScale) \div totalSupply

(* A stored amount in units that do not grow with interest.                *)
Normalized(borrows, marketBorrowIndex) ==
  (borrows * ExpScale) \div marketBorrowIndex

ProjectBorrowIndex(stored, stateBlock, block, speed, totalBorrows, borrowIndex) ==
  IF borrowIndex = 0 THEN stored
  ELSE ProjectSupplyIndex(stored, stateBlock, block, speed,
                          Normalized(totalBorrows, borrowIndex))

(* A user without an index of their own starts from the initial index.     *)
UserIndex(userIndex, projected) ==
  IF userIndex = 0 /\ projected >= InitialIndex THEN InitialIndex ELSE userIndex

PendingSupply(projected, userIndex, balance) ==
  (balance * (projected - UserIndex(userIndex, projected))) \div DoubleScale

PendingBorrow(projected, userIndex, borrowBalance, marketBorrowIndex) ==
  IF marketBorrowIndex = 0 THEN 0
  ELSE PendingSupply(projected, userIndex,
                     Normalized(borrowBalance, marketBorrowIndex))

(* The index of the market before the period is None when there was none.  *)
PeriodReward(distributed, atEnd, beforeStart, indexAtEnd, indexBefore) ==
  IF indexAtEnd = indexBefore THEN 0
  ELSE distributed + atEnd - beforeStart

FifoRemainingForPeriod(earned, remaining) ==
  IF earned < remaining THEN earned ELSE remaining
=============================================================================
