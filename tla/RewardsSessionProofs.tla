------------------------ MODULE RewardsSessionProofs ------------------------
(***************************************************************************)
(* Proofs about MerklExport, for every number of files and exports, about  *)
(* RewardsSession, for every set of networks and every limit of restarts,  *)
(* and about RangeScan, the scans of logs both its commands make, for      *)
(* every request, number of attempts and push order.                       *)
(*                                                                         *)
(* The export.  At every step of an export each of its files is in one of  *)
(* three situations, and which of them is possible depends on the loop the *)
(* export is in and on whether the loop has passed the file.               *)
(*                                                                         *)
(* The session.  A step of the session is a step of the export or leaves   *)
(* its variables alone, so what is shown of the export holds in the        *)
(* session.  What "Done" of the wrapper means is proved last: an indexer   *)
(* that has come to mainnet has either served it or left a line for the    *)
(* wrapper.                                                                *)
(*                                                                         *)
(* The scans.  ExactlyOnce is inductive together with TypeOK;              *)
(* DoneIsComplete needs that the stack is empty then, and InBlockOrder the *)
(* order of the stack (Ordered).                                           *)
(***************************************************************************)
EXTENDS RewardsSession, RangeScan, SequenceTheorems, TLAPS

-----------------------------------------------------------------------------
(* The export.                                                             *)

Busy == step # "idle"

(* The file is as it was when the export began; its old content is in the  *)
(* backup; the new one is in its place.                                    *)
Untouched(f) == target[f] = before[f] /\ backup[f] = Missing
MovedAway(f) == target[f] = Missing /\ backup[f] = before[f] /\ f \in hadTarget
Replaced(f) ==
  /\ f \in promoted
  /\ target[f] # Missing /\ target[f].by = exports
  /\ backup[f] = before[f]
  /\ before[f] # Missing => f \in hadTarget

Aside(f) == Untouched(f) \/ MovedAway(f)
Passed(f) == f \in staged \ todo

Prepared(f) == temp[f] # Missing /\ temp[f].by = exports

Unmixed(content) ==
  \A g \in 1 .. Groups :
    content[MerklFile(g)] # Missing /\ content[AuditFile(g)] # Missing =>
      content[MerklFile(g)].by = content[AuditFile(g)].by

(* Either no new file is in place or no old one.                           *)
OneSided ==
  \/ \A f \in Files : target[f] \in {before[f], Missing}
  \/ \A f \in staged : target[f] = Missing \/ target[f].by = exports

StageInv ==
  step = "stage" =>
    /\ faults = 0 /\ ~committed
    /\ promoted = {} /\ hadTarget = {}
    /\ \A f \in staged : Untouched(f) /\ (Passed(f) => Prepared(f))

BackupInv ==
  step = "backup" =>
    /\ faults = 0 /\ ~committed
    /\ promoted = {}
    /\ \A f \in staged :
         /\ Prepared(f)
         /\ IF f \in todo THEN Untouched(f) ELSE target[f] = Missing /\ Aside(f)

PromoteInv ==
  step = "promote" =>
    /\ faults = 0 /\ ~committed
    /\ promoted = staged \ todo
    /\ \A f \in staged :
         IF f \in todo THEN Prepared(f) /\ target[f] = Missing /\ Aside(f)
                       ELSE Replaced(f)

RemoveInv ==
  step = "remove" =>
    /\ faults = 1 /\ ~committed
    /\ OneSided
    /\ \A f \in staged :
         IF f \in todo THEN IF f \in promoted THEN Replaced(f) ELSE Aside(f)
                       ELSE Aside(f)

RestoreInv ==
  step = "restore" =>
    /\ faults = 1 /\ ~committed
    /\ \A f \in staged : IF f \in todo THEN Aside(f) ELSE Untouched(f)

CleanupInv ==
  step = "cleanup" =>
    IF committed
    THEN /\ faults = 0
         /\ \A f \in staged :
              /\ target[f] # Missing /\ target[f].by = exports
              /\ published[f] = target[f]
    ELSE /\ faults > 0
         /\ OneSided
         /\ \A f \in staged : Aside(f) \/ Replaced(f)
         /\ faults = 1 => \A f \in staged : Untouched(f)

BusyInv ==
  Busy =>
    /\ todo # {} /\ outcome = "running" /\ exports # 0
    /\ \A g \in 1 .. Groups : MerklFile(g) \in staged <=> AuditFile(g) \in staged
    /\ Unmixed(before)
    /\ \A f \in Files \ staged : Untouched(f)
    /\ \A f \in Files :
         published[f] # Missing /\ ~(committed /\ f \in staged) =>
           published[f] = before[f] \/ <<f, published[f]>> \in orphans

IdleInv ==
  ~Busy =>
    /\ todo = {} /\ outcome # "running"
    /\ \A f \in Files : backup[f] = Missing /\ temp[f] = Missing
    /\ Unmixed(target)
    /\ AllOrNothing
    /\ \A f \in Files :
         published[f] # Missing =>
           published[f] = target[f] \/ <<f, published[f]>> \in orphans

Inv ==
  /\ ExportTypeOK
  /\ StageInv /\ BackupInv /\ PromoteInv
  /\ RemoveInv /\ RestoreInv /\ CleanupInv
  /\ BusyInv /\ IdleInv

-----------------------------------------------------------------------------

(* A file is in the list of an export together with its pair.              *)
LEMMA PairsTogether ==
  ASSUME NEW groups \in SUBSET (1 .. Groups)
  PROVE  /\ FilesOf(groups) \subseteq Files
         /\ \A g \in 1 .. Groups :
              /\ MerklFile(g) \in FilesOf(groups) <=> g \in groups
              /\ AuditFile(g) \in FilesOf(groups) <=> g \in groups
  BY ExportAssumption DEF FilesOf, MerklFile, AuditFile, Files

LEMMA InitHolds == ExportInit => Inv
<1> SUFFICES ASSUME ExportInit PROVE Inv
  OBVIOUS
<1> USE DEF ExportInit
<1>1. ExportTypeOK
  <2>1. [f \in Files |-> Missing] \in [Files -> Contents \cup {Missing}]
    OBVIOUS
  <2>2. /\ step \in Steps /\ exports \in 0 .. MaxExports /\ faults \in Nat
        /\ orphans \subseteq Files \X Contents
        /\ outcome \in {"none", "running", "exported", "failed", "died"}
    BY ExportAssumption DEF Steps
  <2> QED
    BY <2>1, <2>2 DEF ExportTypeOK
<1>2. StageInv /\ BackupInv /\ PromoteInv /\ RemoveInv /\ RestoreInv /\ CleanupInv
  BY DEF StageInv, BackupInv, PromoteInv, RemoveInv, RestoreInv, CleanupInv
<1>3. BusyInv
  BY DEF BusyInv, Busy
<1>4. Unmixed(target)
  BY ExportAssumption DEF Unmixed, Files, MerklFile, AuditFile
<1>5. IdleInv
  BY <1>4 DEF IdleInv, Busy, AllOrNothing
<1> QED
  BY <1>1, <1>2, <1>3, <1>5 DEF Inv

(* The files of the pairs are files.                                       *)
LEMMA PairFiles ==
  \A g \in 1 .. Groups : MerklFile(g) \in Files /\ AuditFile(g) \in Files
  BY ExportAssumption DEF MerklFile, AuditFile, Files

(* Nothing is mixed while an export has only one side in place.            *)
LEMMA OneSidedUnmixed ==
  ASSUME ExportTypeOK, BusyInv, Busy, OneSided
  PROVE  Unmixed(target)
<1> SUFFICES ASSUME NEW g \in 1 .. Groups,
                    target[MerklFile(g)] # Missing, target[AuditFile(g)] # Missing
             PROVE  target[MerklFile(g)].by = target[AuditFile(g)].by
  BY DEF Unmixed
<1>1. MerklFile(g) \in Files /\ AuditFile(g) \in Files
  BY PairFiles
<1>2. CASE \A f \in Files : target[f] \in {before[f], Missing}
  <2>1. /\ target[MerklFile(g)] = before[MerklFile(g)]
        /\ target[AuditFile(g)] = before[AuditFile(g)]
    BY <1>1, <1>2
  <2> QED
    BY <2>1 DEF BusyInv, Unmixed
<1>3. CASE \A f \in staged : target[f] = Missing \/ target[f].by = exports
  <2>1. CASE MerklFile(g) \in staged
    BY <1>3, <2>1 DEF BusyInv
  <2>2. CASE MerklFile(g) \notin staged
    <3>1. MerklFile(g) \in Files \ staged /\ AuditFile(g) \in Files \ staged
      BY <1>1, <2>2 DEF BusyInv
    <3>2. /\ target[MerklFile(g)] = before[MerklFile(g)]
          /\ target[AuditFile(g)] = before[AuditFile(g)]
      BY <3>1 DEF BusyInv, Untouched
    <3> QED
      BY <3>2 DEF BusyInv, Unmixed
  <2> QED
    BY <2>1, <2>2
<1> QED
  BY <1>2, <1>3 DEF OneSided

(* What the running export writes is a content of its own.                 *)
LEMMA OwnContent ==
  ASSUME ExportTypeOK, BusyInv, Busy, NEW whole \in BOOLEAN
  PROVE  /\ [by |-> exports, whole |-> whole] \in Contents
         /\ [by |-> exports, whole |-> whole] # Missing
<1>1. exports \in 1 .. MaxExports
  BY ExportAssumption DEF ExportTypeOK, BusyInv
<1> QED
  BY <1>1, ExportAssumption DEF Contents

(* A new file is written under a temporary name.                           *)
LEMMA StageFileStep ==
  ASSUME Inv, NEW f \in Files, NEW whole \in BOOLEAN, StageFile(f, whole)
  PROVE  Inv'
<1> USE DEF StageFile, InOrder, Visited
<1>1. ExportTypeOK /\ StageInv /\ BusyInv
  BY DEF Inv
<1>a. [by |-> exports, whole |-> whole] \in Contents /\ [by |-> exports, whole
   |-> whole] # Missing
  BY <1>1, OwnContent DEF Busy
<1>2. ExportTypeOK'
  BY <1>1, <1>a DEF ExportTypeOK, Steps
<1>3. StageInv'
  BY <1>1, <1>a
  DEF ExportTypeOK, StageInv, Untouched, MovedAway, Replaced, Aside, Passed,
      Prepared
<1>4. BackupInv'
  BY <1>1, <1>a
  DEF ExportTypeOK, StageInv, BackupInv, Untouched, MovedAway, Replaced, Aside,
      Passed, Prepared
<1>5. PromoteInv' /\ RemoveInv' /\ RestoreInv' /\ CleanupInv'
  BY <1>1 DEF PromoteInv, RemoveInv, RestoreInv, CleanupInv
<1>6. BusyInv'
  BY <1>1 DEF ExportTypeOK, BusyInv, Busy, Untouched, Unmixed
<1>7. IdleInv'
  BY <1>1 DEF ExportTypeOK, IdleInv, Busy
<1> QED
  BY <1>2, <1>3, <1>4, <1>5, <1>6, <1>7 DEF Inv

(* A new file could not be written.                                        *)
LEMMA StageFailsStep ==
  ASSUME Inv, NEW f \in Files, 
         NEW content \in {Missing, [by |-> exports, whole |-> FALSE]},
            StageFails(f, content)
  PROVE  Inv'
<1> USE DEF StageFails, InOrder, Catch
<1>1. ExportTypeOK /\ StageInv /\ BusyInv
  BY DEF Inv
<1>a. content \in Contents \cup {Missing}
  BY <1>1, OwnContent DEF Busy
<1>2. ExportTypeOK'
  BY <1>1, <1>a DEF ExportTypeOK, Steps
<1>3. RemoveInv'
  BY <1>1
  DEF ExportTypeOK, BusyInv, Busy, StageInv, RemoveInv, OneSided, Untouched,
      MovedAway, Replaced, Aside, Passed, Prepared
<1>4. StageInv' /\ BackupInv' /\ PromoteInv' /\ RestoreInv' /\ CleanupInv'
  BY <1>1 DEF StageInv, BackupInv, PromoteInv, RestoreInv, CleanupInv
<1>5. BusyInv'
  BY <1>1 DEF ExportTypeOK, BusyInv, Busy, Untouched, Unmixed
<1>6. IdleInv'
  BY <1>1 DEF ExportTypeOK, IdleInv, Busy
<1> QED
  BY <1>2, <1>3, <1>4, <1>5, <1>6 DEF Inv

(* An old file is moved away, or there is none.                            *)
LEMMA BackupFileStep ==
  ASSUME Inv, NEW f \in Files, BackupFile(f)
  PROVE  Inv'
<1> USE DEF BackupFile, InOrder, Visited
<1>1. ExportTypeOK /\ BackupInv /\ BusyInv
  BY DEF Inv
<1>2. ExportTypeOK'
  BY <1>1, ExportAssumption, SMTT(30)
    DEF ExportTypeOK, BusyInv, Busy, Contents, Steps
<1>3. BackupInv'
  BY <1>1
  DEF ExportTypeOK, BackupInv, Untouched, MovedAway, Replaced, Aside, Passed,
      Prepared
<1>4. PromoteInv'
  BY <1>1
  DEF ExportTypeOK, BackupInv, PromoteInv, Untouched, MovedAway, Replaced,
      Aside, Passed, Prepared
<1>5. StageInv' /\ RemoveInv' /\ RestoreInv' /\ CleanupInv'
  BY <1>1 DEF StageInv, RemoveInv, RestoreInv, CleanupInv
<1>6. BusyInv'
  BY <1>1 DEF ExportTypeOK, BusyInv, Busy, Untouched, Unmixed
<1>7. IdleInv'
  BY <1>1 DEF ExportTypeOK, IdleInv, Busy
<1> QED
  BY <1>2, <1>3, <1>4, <1>5, <1>6, <1>7 DEF Inv

(* An old file could not be moved.                                         *)
LEMMA BackupFailsStep ==
  ASSUME Inv, NEW f \in Files, BackupFails(f)
  PROVE  Inv'
<1> USE DEF BackupFails, InOrder, Catch
<1>1. ExportTypeOK /\ BackupInv /\ BusyInv
  BY DEF Inv
<1>2. ExportTypeOK'
  BY <1>1, ExportAssumption DEF ExportTypeOK, BusyInv, Busy, Contents, Steps
<1>3. RemoveInv'
  BY <1>1
  DEF ExportTypeOK, BusyInv, Busy, BackupInv, RemoveInv, OneSided, Untouched,
      MovedAway, Replaced, Aside, Passed, Prepared
<1>4. StageInv' /\ BackupInv' /\ PromoteInv' /\ RestoreInv' /\ CleanupInv'
  BY <1>1 DEF StageInv, BackupInv, PromoteInv, RestoreInv, CleanupInv
<1>5. BusyInv'
  BY <1>1 DEF ExportTypeOK, BusyInv, Busy, Untouched, Unmixed
<1>6. IdleInv'
  BY <1>1 DEF ExportTypeOK, IdleInv, Busy
<1> QED
  BY <1>2, <1>3, <1>4, <1>5, <1>6 DEF Inv

(* A new file takes its place; the last one commits the export.            *)
LEMMA PromoteFileStep ==
  ASSUME Inv, NEW f \in Files, PromoteFile(f)
  PROVE  Inv'
<1> USE DEF PromoteFile, InOrder, Visited
<1>1. ExportTypeOK /\ PromoteInv /\ BusyInv
  BY DEF Inv
<1>2. ExportTypeOK'
  BY <1>1, ExportAssumption DEF ExportTypeOK, BusyInv, Busy, Contents, Steps
<1>3. PromoteInv'
  BY <1>1
  DEF ExportTypeOK, PromoteInv, Untouched, MovedAway, Replaced, Aside, Passed,
      Prepared
<1>4. CleanupInv'
  BY <1>1
  DEF ExportTypeOK, PromoteInv, CleanupInv, Untouched, MovedAway, Replaced,
      Aside, Passed, Prepared
<1>5. StageInv' /\ BackupInv' /\ RemoveInv' /\ RestoreInv'
  BY <1>1 DEF StageInv, BackupInv, RemoveInv, RestoreInv
<1>6. BusyInv'
  BY <1>1 DEF ExportTypeOK, BusyInv, Busy, PromoteInv, Untouched, Unmixed
<1>7. IdleInv'
  BY <1>1 DEF ExportTypeOK, IdleInv, Busy
<1> QED
  BY <1>2, <1>3, <1>4, <1>5, <1>6, <1>7 DEF Inv

(* A new file could not take its place.                                    *)
LEMMA PromoteFailsStep ==
  ASSUME Inv, NEW f \in Files, PromoteFails(f)
  PROVE  Inv'
<1> USE DEF PromoteFails, InOrder, Catch
<1>1. ExportTypeOK /\ PromoteInv /\ BusyInv
  BY DEF Inv
<1>2. ExportTypeOK'
  BY <1>1, ExportAssumption DEF ExportTypeOK, BusyInv, Busy, Contents, Steps
<1>3. RemoveInv'
  BY <1>1
  DEF ExportTypeOK, BusyInv, Busy, PromoteInv, RemoveInv, OneSided, Untouched,
      MovedAway, Replaced, Aside, Passed, Prepared
<1>4. StageInv' /\ BackupInv' /\ PromoteInv' /\ RestoreInv' /\ CleanupInv'
  BY <1>1 DEF StageInv, BackupInv, PromoteInv, RestoreInv, CleanupInv
<1>5. BusyInv'
  BY <1>1 DEF ExportTypeOK, BusyInv, Busy, Untouched, Unmixed
<1>6. IdleInv'
  BY <1>1 DEF ExportTypeOK, IdleInv, Busy
<1> QED
  BY <1>2, <1>3, <1>4, <1>5, <1>6 DEF Inv

(* A new file is taken away again.                                         *)
LEMMA RemovePromotedStep ==
  ASSUME Inv, NEW f \in Files, RemovePromoted(f)
  PROVE  Inv'
<1> USE DEF RemovePromoted, NextReversed, Visited
<1>1. ExportTypeOK /\ RemoveInv /\ BusyInv
  BY DEF Inv
<1>2. ExportTypeOK'
  BY <1>1, ExportAssumption DEF ExportTypeOK, BusyInv, Busy, Contents, Steps
<1>3. RemoveInv'
  BY <1>1
  DEF ExportTypeOK, RemoveInv, OneSided, Untouched, MovedAway, Replaced, Aside,
      Passed, Prepared
<1>4. RestoreInv'
  BY <1>1
  DEF ExportTypeOK, RemoveInv, RestoreInv, Untouched, MovedAway, Replaced,
      Aside, Passed, Prepared
<1>5. StageInv' /\ BackupInv' /\ PromoteInv' /\ CleanupInv'
  BY <1>1 DEF StageInv, BackupInv, PromoteInv, CleanupInv
<1>6. BusyInv'
  BY <1>1 DEF ExportTypeOK, BusyInv, Busy, Untouched, Unmixed
<1>7. IdleInv'
  BY <1>1 DEF ExportTypeOK, IdleInv, Busy
<1> QED
  BY <1>2, <1>3, <1>4, <1>5, <1>6, <1>7 DEF Inv

(* An old file is moved back.                                              *)
LEMMA RestoreBackupStep ==
  ASSUME Inv, NEW f \in Files, RestoreBackup(f)
  PROVE  Inv'
<1> USE DEF RestoreBackup, NextReversed, Visited
<1>1. ExportTypeOK /\ RestoreInv /\ BusyInv
  BY DEF Inv
<1>2. ExportTypeOK'
  BY <1>1, ExportAssumption DEF ExportTypeOK, BusyInv, Busy, Contents, Steps
<1>3. RestoreInv'
  BY <1>1
  DEF ExportTypeOK, RestoreInv, Untouched, MovedAway, Replaced, Aside, Passed,
      Prepared
<1>4. CleanupInv'
  BY <1>1
  DEF ExportTypeOK, BusyInv, Busy, RestoreInv, CleanupInv, OneSided, Untouched,
      MovedAway, Replaced, Aside, Passed, Prepared
<1>5. StageInv' /\ BackupInv' /\ PromoteInv' /\ RemoveInv'
  BY <1>1 DEF StageInv, BackupInv, PromoteInv, RemoveInv
<1>6. BusyInv'
  BY <1>1 DEF ExportTypeOK, BusyInv, Busy, Untouched, Unmixed
<1>7. IdleInv'
  BY <1>1 DEF ExportTypeOK, IdleInv, Busy
<1> QED
  BY <1>2, <1>3, <1>4, <1>5, <1>6, <1>7 DEF Inv

(* The rollback itself fails.                                              *)
LEMMA RollbackFailsStep ==
  ASSUME Inv, NEW f \in Files, RollbackFails(f)
  PROVE  Inv'
<1> USE DEF RollbackFails, NextReversed, Finally
<1>1. ExportTypeOK /\ RemoveInv /\ RestoreInv /\ BusyInv
  BY DEF Inv
<1>2. ExportTypeOK'
  BY <1>1, ExportAssumption DEF ExportTypeOK, BusyInv, Busy, Contents, Steps
<1>3. CleanupInv'
  BY <1>1
  DEF ExportTypeOK, BusyInv, Busy, RemoveInv, RestoreInv, CleanupInv, OneSided,
      Untouched, MovedAway, Replaced, Aside, Passed, Prepared
<1>4. StageInv' /\ BackupInv' /\ PromoteInv' /\ RemoveInv' /\ RestoreInv'
  BY <1>1 DEF StageInv, BackupInv, PromoteInv, RemoveInv, RestoreInv
<1>5. BusyInv'
  BY <1>1 DEF ExportTypeOK, BusyInv, Busy, Untouched, Unmixed
<1>6. IdleInv'
  BY <1>1 DEF ExportTypeOK, IdleInv, Busy
<1> QED
  BY <1>2, <1>3, <1>4, <1>5, <1>6 DEF Inv

(* A file that is not the last is cleaned up.                              *)
LEMMA CleanFileStep ==
  ASSUME Inv, NEW f \in Files, CleanFile(f)
  PROVE  Inv'
<1> USE DEF CleanFile, InOrder
<1>1. ExportTypeOK /\ CleanupInv /\ BusyInv
  BY DEF Inv
<1>2. ExportTypeOK'
  BY <1>1, ExportAssumption DEF ExportTypeOK, BusyInv, Busy, Contents, Steps
<1>3. CleanupInv'
  BY <1>1
  DEF ExportTypeOK, CleanupInv, OneSided, Untouched, MovedAway, Replaced, Aside,
      Passed, Prepared
<1>4. StageInv' /\ BackupInv' /\ PromoteInv' /\ RemoveInv' /\ RestoreInv'
  BY <1>1 DEF StageInv, BackupInv, PromoteInv, RemoveInv, RestoreInv
<1>5. BusyInv'
  BY <1>1 DEF ExportTypeOK, BusyInv, Busy, Untouched, Unmixed
<1>6. IdleInv'
  BY <1>1 DEF ExportTypeOK, IdleInv, Busy
<1> QED
  BY <1>2, <1>3, <1>4, <1>5, <1>6 DEF Inv

(* While an export runs, what was published last is in its place, in a     *)
(* backup or an orphan.                                                    *)
LEMMA BusyKeeps ==
  ASSUME Inv, Busy
  PROVE  /\ Unmixed(target)
         /\ \A f \in Files : published[f] # Missing =>
              \/ published[f] \in {target[f], backup[f]} /\ ~(committed /\ f \in
                 staged)
              \/ published[f] = target[f]
              \/ <<f, published[f]>> \in orphans
<1>0. ExportTypeOK /\ BusyInv /\ StageInv /\ BackupInv /\ PromoteInv /\ RemoveInv
      /\ RestoreInv /\ CleanupInv
  BY DEF Inv
<1>1. OneSided
  BY <1>0 DEF OneSided, ExportTypeOK, Steps, Busy, BusyInv, StageInv, BackupInv,
     PromoteInv, RemoveInv, RestoreInv, CleanupInv, Untouched, MovedAway,
        Replaced,
     Aside, Passed
<1>2. Unmixed(target)
  BY <1>0, <1>1, OneSidedUnmixed
<1>3. ASSUME NEW f \in staged, ~committed
      PROVE  before[f] \in {target[f], backup[f]}
  BY <1>0, <1>3 DEF ExportTypeOK, Steps, Busy, BusyInv, StageInv, BackupInv,
     PromoteInv, RemoveInv, RestoreInv, CleanupInv, Untouched, MovedAway,
        Replaced,
     Aside, Passed
<1>4. ASSUME NEW f \in staged, committed
      PROVE  published[f] = target[f]
  BY <1>0, <1>4 DEF ExportTypeOK, Steps, Busy, BusyInv, StageInv, BackupInv,
     PromoteInv, RemoveInv, RestoreInv, CleanupInv
<1>5. ASSUME NEW f \in Files \ staged
      PROVE  before[f] = target[f]
  BY <1>0, <1>5 DEF Busy, BusyInv, Untouched
<1> QED
  BY <1>0, <1>2, <1>3, <1>4, <1>5 DEF Busy, BusyInv

(* A process that ends before its last step leaves its backups behind.     *)
LEMMA EndExportStep ==
  ASSUME Inv, Busy, NEW how \in {"failed", "died"}, EndExport(how), faults' \in
           Nat,
         how = "failed" => ~(faults' = 1 /\ ~committed)
  PROVE  Inv'
<1> USE DEF EndExport, LeftBehind
<1>1. ExportTypeOK
  BY DEF Inv
<1>2. ExportTypeOK'
  <2>1. orphans' \subseteq Files \X Contents
    BY <1>1 DEF ExportTypeOK
  <2> QED
    BY <1>1, <2>1 DEF ExportTypeOK, Steps
<1>3. StageInv' /\ BackupInv' /\ PromoteInv' /\ RemoveInv' /\ RestoreInv' /\ CleanupInv'
      /\ BusyInv'
  BY
  DEF StageInv, BackupInv, PromoteInv, RemoveInv, RestoreInv, CleanupInv,
      BusyInv, Busy
<1>4. AllOrNothing'
  BY DEF AllOrNothing
<1>5. ASSUME NEW f \in Files, published[f] # Missing
      PROVE  published[f] = target[f] \/ <<f, published[f]>> \in orphans'
  BY <1>5, BusyKeeps
<1>6. IdleInv'
  BY <1>4, <1>5, BusyKeeps DEF IdleInv, Busy, Unmixed
<1> QED
  BY <1>2, <1>3, <1>6 DEF Inv

(* The last file is cleaned up and the command ends.                       *)
LEMMA CleanLastFileStep ==
  ASSUME Inv, NEW f \in Files, CleanLastFile(f)
  PROVE  Inv'
<1> USE DEF CleanLastFile
<1>1. ExportTypeOK /\ CleanupInv /\ BusyInv /\ Busy
  BY DEF Inv, Busy
<1>2. ExportTypeOK'
  <2>1. orphans' \subseteq Files \X Contents
    BY <1>1 DEF ExportTypeOK
  <2> QED
    BY <1>1, <2>1 DEF ExportTypeOK, Steps
<1>3. StageInv' /\ BackupInv' /\ PromoteInv' /\ RemoveInv' /\ RestoreInv' /\ CleanupInv'
      /\ BusyInv'
  BY
  DEF StageInv, BackupInv, PromoteInv, RemoveInv, RestoreInv, CleanupInv,
      BusyInv, Busy
<1>4. AllOrNothing'
  <2>1. CASE committed
    BY <1>1, <2>1 DEF AllOrNothing, ExportTypeOK, CleanupInv, BusyInv, Untouched
  <2>2. CASE ~committed
    <3>1. faults = 1 => \A g \in Files : target[g] = before[g]
      BY <1>1, <2>2 DEF CleanupInv, BusyInv, Untouched
    <3>2. faults = 1 => target = before
      BY <1>1, <3>1 DEF ExportTypeOK
    <3> QED
      BY <2>2, <3>2 DEF AllOrNothing
  <2> QED
    BY <2>1, <2>2
<1>5. ASSUME NEW g \in Files, published[g] # Missing
      PROVE  published[g] = target[g] \/ <<g, published[g]>> \in orphans'
  <2>1. f \in staged
    BY <1>1 DEF ExportTypeOK
  <2> QED
    BY <1>1, <1>5, <2>1, BusyKeeps
<1>6. IdleInv'
  BY <1>1, <1>4, <1>5, BusyKeeps DEF IdleInv, Busy, Unmixed
<1> QED
  BY <1>2, <1>3, <1>6 DEF Inv

(* An export begins.                                                       *)
LEMMA BeginExportStep ==
  ASSUME Inv, NEW groups \in (SUBSET (1 .. Groups)) \ {{}}, BeginExport(groups)
  PROVE  Inv'
<1> USE DEF BeginExport
<1>1. ExportTypeOK /\ IdleInv /\ ~Busy
  BY DEF Inv, Busy
<1>2. staged' \subseteq Files /\ todo' = staged'
  BY PairsTogether
<1>3. todo' # {}
  <2>0. groups # {} /\ groups \subseteq 1 .. Groups
    OBVIOUS
  <2>1. PICK g : g \in groups
    BY <2>0
  <2> QED
    BY <1>2, <2>0, <2>1, PairsTogether
<1>4. ExportTypeOK'
  <2>1. exports' \in 0 .. MaxExports /\ faults' \in Nat /\ step' \in Steps
    BY <1>1, ExportAssumption DEF ExportTypeOK, Steps
  <2> QED
    BY <1>1, <1>2, <2>1 DEF ExportTypeOK
<1>5. StageInv'
  BY <1>1, <1>2 DEF StageInv, IdleInv, Untouched, Passed
<1>6. BackupInv' /\ PromoteInv' /\ RemoveInv' /\ RestoreInv' /\ CleanupInv' /\ IdleInv'
  BY DEF BackupInv, PromoteInv, RemoveInv, RestoreInv, CleanupInv, IdleInv, Busy
<1>7. BusyInv'
  <2>1. exports' # 0
    BY <1>1, ExportAssumption DEF ExportTypeOK
  <2>2. \A g \in 1 .. Groups : MerklFile(g) \in staged' <=> AuditFile(g) \in
     staged'
    BY PairsTogether
  <2>3. Unmixed(before)'
    BY <1>1 DEF IdleInv, Unmixed
  <2> QED
    BY <1>1, <1>3, <2>1, <2>2, <2>3 DEF BusyInv, Busy, IdleInv, Untouched
<1> QED
  BY <1>4, <1>5, <1>6, <1>7 DEF Inv

LEMMA StepPreserves == Inv /\ [ExportNext]_exportVars => Inv'
<1> SUFFICES ASSUME Inv, [ExportNext]_exportVars PROVE Inv'
  OBVIOUS
<1>1. ASSUME NEW groups \in (SUBSET (1 .. Groups)) \ {{}}, BeginExport(groups)
   PROVE Inv'
  BY <1>1, BeginExportStep
<1>2. ASSUME NEW f \in Files, NEW whole \in BOOLEAN, StageFile(f, whole) PROVE
   Inv'
  BY <1>2, StageFileStep
<1>3. ASSUME NEW f \in Files,
             \/ StageFails(f, Missing)
             \/ StageFails(f, [by |-> exports, whole |-> FALSE])
      PROVE  Inv'
  BY <1>3, StageFailsStep
<1>4. ASSUME NEW f \in Files,
             \/ BackupFile(f) \/ BackupFails(f)
             \/ PromoteFile(f) \/ PromoteFails(f)
             \/ RemovePromoted(f) \/ RestoreBackup(f) \/ RollbackFails(f)
             \/ CleanFile(f) \/ CleanLastFile(f)
      PROVE  Inv'
  BY <1>4, BackupFileStep, BackupFailsStep, PromoteFileStep, PromoteFailsStep,
     RemovePromotedStep, RestoreBackupStep, RollbackFailsStep, CleanFileStep,
     CleanLastFileStep
<1>5. CASE CleanupFails
  <2>1. Busy /\ faults' \in Nat /\ ~(faults' = 1 /\ ~committed)
    BY <1>5 DEF CleanupFails, EndExport, Busy, Inv, ExportTypeOK, CleanupInv
  <2> QED
    BY <1>5, <2>1, EndExportStep DEF CleanupFails
<1>6. CASE ExporterDies
  <2>1. Busy /\ faults' \in Nat
    BY <1>6 DEF ExporterDies, Busy, Inv, ExportTypeOK
  <2> QED
    BY <1>6, <2>1, EndExportStep DEF ExporterDies
<1>7. CASE UNCHANGED exportVars
  BY <1>7
  DEF exportVars, Inv, ExportTypeOK, StageInv, BackupInv, PromoteInv, RemoveInv,
      RestoreInv, CleanupInv, BusyInv, IdleInv, Busy, Unmixed, AllOrNothing,
      OneSided, Untouched, MovedAway, Replaced, Aside, Passed, Prepared
<1> QED
  BY <1>1, <1>2, <1>3, <1>4, <1>5, <1>6, <1>7 DEF ExportNext, ExportStep

LEMMA InvAlways == ExportSpec => []Inv
  BY InitHolds, StepPreserves, PTL DEF ExportSpec

-----------------------------------------------------------------------------

(* What the invariant says of the files.                                   *)
LEMMA InvGives == Inv => PairNeverMixed /\ NothingLost /\ AllOrNothing
<1> SUFFICES ASSUME Inv PROVE PairNeverMixed /\ NothingLost /\ AllOrNothing
  OBVIOUS
<1>1. PairNeverMixed
  <2> SUFFICES Unmixed(target)
    BY DEF Unmixed, PairNeverMixed
  <2>1. CASE Busy
    BY <2>1, BusyKeeps
  <2>2. CASE ~Busy
    BY <2>2 DEF Inv, IdleInv
  <2> QED BY <2>1, <2>2
<1>2. NothingLost
  <2> SUFFICES ASSUME NEW f \in Files, published[f] # Missing
               PROVE  \/ published[f] \in {target[f], backup[f]}
                      \/ <<f, published[f]>> \in orphans
    BY DEF NothingLost
  <2>1. CASE Busy
    BY <2>1, BusyKeeps
  <2>2. CASE ~Busy
    BY <2>2 DEF Inv, IdleInv
  <2> QED BY <2>1, <2>2
<1>3. AllOrNothing
  <2>1. CASE Busy
    BY <2>1 DEF Inv, BusyInv, AllOrNothing
  <2>2. CASE ~Busy
    BY <2>2 DEF Inv, IdleInv
  <2> QED BY <2>1, <2>2
<1> QED BY <1>1, <1>2, <1>3

(* The variables keep their types, for every number of files and exports.  *)
THEOREM ExportTypes == ExportSpec => []ExportTypeOK
<1>1. Inv => ExportTypeOK
  BY DEF Inv
<1> QED BY <1>1, InvAlways, PTL

(* No reader ever finds the Merkl file of one export beside the audit file *)
(* of another, whatever failed or died.                                    *)
THEOREM PairsMatch == ExportSpec => []PairNeverMixed
<1>1. Inv => PairNeverMixed
  BY InvGives
<1> QED BY <1>1, InvAlways, PTL

(* What an export committed last for a file is never lost.                 *)
THEOREM PublishedKept == ExportSpec => []NothingLost
<1>1. Inv => NothingLost
  BY InvGives
<1> QED BY <1>1, InvAlways, PTL

(* A failed export changes nothing, a successful one all its files.        *)
THEOREM ExportAtomic == ExportSpec => []AllOrNothing
<1>1. Inv => AllOrNothing
  BY InvGives
<1> QED BY <1>1, InvAlways, PTL

-----------------------------------------------------------------------------
(* The session.                                                            *)

(* A child that may still end well has not passed mainnet by in silence.   *)
MainnetServed ==
  /\ /\ child \in {"running", "finished"} /\ ~line /\ ~matched /\ ~unheard
     /\ Mainnet \notin unserved
     => Mainnet \notin behind
  /\ child = "finished" => unserved = {}

RetryInv ==
  /\ wrapper \in {"idle", "running", "waiting", "done", "gave up"}
  /\ child \in {"none", "running", "finished", "refused", "crashed", "killed"}
  /\ line \in BOOLEAN /\ matched \in BOOLEAN /\ unheard \in BOOLEAN
  /\ unserved \subseteq Networks /\ behind \subseteq Networks
  /\ wrapper = "running" => MainnetServed
  /\ DoneServed

(* The wrapper goes on only while it has restarts left.                    *)
CountInv ==
  /\ restarts \in 0 .. MaxRestarts + 1
  /\ wrapper \in {"running", "waiting"} => restarts <= MaxRestarts

LEMMA RetryInvInit == RetryInit => RetryInv /\ CountInv
<1>1. RetryInit => RetryInv
  BY DEF RetryInit, RetryInv, DoneServed
<1>2. RetryInit => CountInv
  BY RetryAssumption DEF RetryInit, CountInv
<1> QED BY <1>1, <1>2

(* A new indexer has come to no network yet.                               *)
LEMMA SpawnKeeps ==
  ASSUME RetryInv, Spawn, behind' = behind
  PROVE  RetryInv'
<1>1. /\ wrapper' = "running" /\ child' = "running"
      /\ line' \in BOOLEAN /\ matched' \in BOOLEAN /\ unheard' \in BOOLEAN
      /\ unserved' = Networks
  BY DEF Spawn
<1> QED BY <1>1, RetryAssumption DEF RetryInv, MainnetServed, DoneServed

(* A step of the indexer.                                                  *)
LEMMA ChildKeeps ==
  ASSUME RetryInv, ChildStep
  PROVE  RetryInv'
<1>1. wrapper' = wrapper /\ matched' = matched /\ unheard' \in {unheard, TRUE}
  BY DEF ChildStep, Serve, FallShort, SkipNetwork, Finish, FailQuietly, Crash, Signalled
<1>2. ASSUME NEW n \in Networks, Serve(n) PROVE RetryInv'
  <2>1. /\ child = "running" /\ child' = child /\ line' = line
        /\ unserved' = unserved \ {n} /\ behind' = behind \ {n} /\ unheard' = unheard
    BY <1>2 DEF Serve
  <2> QED BY <1>1, <2>1 DEF RetryInv, MainnetServed, DoneServed
<1>3. ASSUME NEW n \in Networks, SkipNetwork(n) PROVE RetryInv'
  <2>1. /\ child = "running" /\ child' = child /\ behind' = behind
        /\ unserved' = unserved \ {n} /\ unheard' = unheard
        /\ line' \in BOOLEAN /\ (line => line') /\ (n = Mainnet => line')
    BY <1>3, Zenon DEF SkipNetwork, RetryInv
  <2> QED BY <1>1, <2>1 DEF RetryInv, MainnetServed, DoneServed
<1>4. ASSUME Finish \/ FailQuietly \/ Crash \/ Signalled PROVE RetryInv'
  <2>1. /\ child' \in {"finished", "refused", "crashed", "killed"} /\ child = "running"
        /\ child' = "finished" => unserved = {}
        /\ line' = line /\ unserved' = unserved /\ behind' = behind /\ unheard' = unheard
    BY <1>4 DEF Finish, FailQuietly, Crash, Signalled
  <2> QED BY <1>1, <2>1 DEF RetryInv, MainnetServed, DoneServed
<1>5. ASSUME NEW n \in Networks, FallShort(n) PROVE RetryInv'
  <2>1. /\ child = "running" /\ child' = child /\ line' = line /\ behind' = behind
        /\ unserved' = unserved \ {n} /\ unheard' = TRUE
    BY <1>5 DEF FallShort
  <2>2. wrapper # "done" \/ (~unheard => Mainnet \notin behind)
    BY DEF RetryInv, DoneServed
  <2> QED BY <1>1, <2>1, <2>2 DEF RetryInv, MainnetServed, DoneServed
<1> QED BY <1>2, <1>3, <1>4, <1>5 DEF ChildStep

(* A step of the wrapper.                                                  *)
LEMMA ReadLineKeeps ==
  ASSUME RetryInv, ReadLine PROVE RetryInv'
  BY DEF ReadLine, RetryInv, MainnetServed, DoneServed

LEMMA HandleExitKeeps ==
  ASSUME RetryInv, HandleExit PROVE RetryInv'
<1>1. /\ wrapper = "running" /\ child' = child /\ line' = line /\ matched' = matched
      /\ unserved' = unserved /\ behind' = behind /\ child \notin {"none", "running"}
      /\ unheard' = (unheard \/ line \/ child \in {"refused", "killed"})
      /\ wrapper' \in {"done", "gave up", "waiting"}
      /\ wrapper' = "done" => Succeeded
  BY DEF HandleExit
<1>2. Succeeded => child # "crashed" /\ ~matched
  BY DEF Succeeded, Code
<1>3. unheard' \in BOOLEAN
  BY <1>1
<1>4. DoneServed'
  <2> SUFFICES ASSUME wrapper' = "done", ~unheard' PROVE Mainnet \notin behind
    BY <1>1 DEF DoneServed
  <2>1. ~line /\ ~unheard /\ child \notin {"refused", "killed"}
    BY <1>1
  <2>2. child = "finished" /\ ~matched
    BY <1>1, <1>2, <2>1 DEF RetryInv
  <2> QED BY <1>1, <2>1, <2>2 DEF RetryInv, MainnetServed
<1> QED BY <1>1, <1>3, <1>4 DEF RetryInv

LEMMA RetryStepKeeps ==
  ASSUME RetryInv, RetryStep PROVE RetryInv'
<1>1. ASSUME StartAgain PROVE RetryInv'
  BY <1>1, SpawnKeeps DEF StartAgain
<1> QED BY <1>1, ChildKeeps, ReadLineKeeps, HandleExitKeeps DEF RetryStep

(* Every exit that is not taken for success uses one restart.              *)
LEMMA RetryStepCounts ==
  ASSUME CountInv, RetryStep PROVE CountInv'
<1>1. ASSUME HandleExit PROVE CountInv'
  <2>1. restarts \in 0 .. MaxRestarts /\ MaxRestarts \in Nat
    <3>1. wrapper = "running"
      BY <1>1 DEF HandleExit
    <3> QED BY <3>1, RetryAssumption DEF CountInv
  <2>2. CASE Succeeded
    <3>1. restarts' = restarts /\ wrapper' = "done"
      BY <1>1, <2>2 DEF HandleExit
    <3> QED BY <2>1, <3>1 DEF CountInv
  <2>3. CASE ~Succeeded
    <3>1. restarts' = restarts + 1
      BY <1>1, <2>3 DEF HandleExit
    <3>2. wrapper' \in {"running", "waiting"} => ~(restarts' > MaxRestarts)
      BY <1>1, <2>3 DEF HandleExit
    <3>3. restarts' \in 0 .. MaxRestarts + 1
      BY <2>1, <3>1
    <3> QED BY <2>1, <3>2, <3>3 DEF CountInv
  <2> QED BY <2>2, <2>3
<1>2. ASSUME StartAgain PROVE CountInv'
  BY <1>2 DEF StartAgain, Spawn, CountInv
<1>3. ASSUME ChildStep \/ ReadLine PROVE wrapper' = wrapper /\ restarts' = restarts
  BY <1>3 DEF ChildStep, ReadLine, Serve, FallShort, SkipNetwork, Finish, FailQuietly, Crash, Signalled
<1>4. ASSUME ChildStep \/ ReadLine PROVE CountInv'
  BY <1>3, <1>4 DEF CountInv
<1> QED BY <1>1, <1>2, <1>4 DEF RetryStep

-----------------------------------------------------------------------------

(* A step of the session is one of the export or leaves it alone.          *)
LEMMA SessionExports == [Next]_vars => [ExportNext]_exportVars
  BY DEF Next, vars, MoveRanges, FullIndex, WrapperStep, GenerateRewards,
         ExportNext

LEMMA SessionKeepsRetry ==
  ASSUME RetryInv, CountInv, [Next]_vars PROVE RetryInv' /\ CountInv'
<1>1. ASSUME WrapperGone, behind' \in {behind, Networks} PROVE RetryInv' /\ CountInv'
  <2>1. /\ wrapper' = "idle" /\ restarts' = 0 /\ child' = "none"
        /\ line' \in BOOLEAN /\ matched' \in BOOLEAN /\ unheard' \in BOOLEAN
        /\ unserved' = {}
    BY <1>1 DEF WrapperGone
  <2>2. RetryInv'
    BY <1>1, <2>1 DEF RetryInv, DoneServed
  <2>3. CountInv'
    BY <2>1, RetryAssumption DEF CountInv
  <2> QED BY <2>2, <2>3
<1>2. ASSUME FullIndex PROVE RetryInv' /\ CountInv'
  <2>1. Spawn /\ restarts' = 0 /\ behind' = behind
    BY <1>2 DEF FullIndex, StartWrapper
  <2>2. CountInv'
    BY <2>1, RetryAssumption DEF CountInv
  <2> QED BY <2>1, <2>2, SpawnKeeps
<1>3. ASSUME UNCHANGED retryVars PROVE RetryInv' /\ CountInv'
  BY <1>3 DEF retryVars, RetryInv, CountInv, MainnetServed, DoneServed
<1>4. ASSUME WrapperStep PROVE RetryInv' /\ CountInv'
  BY <1>4, RetryStepKeeps, RetryStepCounts DEF WrapperStep
<1>5. ASSUME MoveRanges \/ \E groups \in (SUBSET (1 .. Groups)) \ {{}} : GenerateRewards(groups)
      PROVE  WrapperGone /\ behind' \in {behind, Networks}
  BY <1>5 DEF MoveRanges, GenerateRewards
<1>6. UNCHANGED vars => UNCHANGED retryVars
  BY DEF vars
<1> QED BY <1>1, <1>2, <1>3, <1>4, <1>5, <1>6 DEF Next

LEMMA SessionInvariant == Spec => [](RetryInv /\ CountInv /\ Inv)
<1>1. Init => RetryInv /\ CountInv /\ Inv
  BY RetryInvInit, InitHolds DEF Init
<1>2. (RetryInv /\ CountInv /\ Inv) /\ [Next]_vars => (RetryInv /\ CountInv /\ Inv)'
  BY SessionKeepsRetry, SessionExports, StepPreserves
<1> QED BY <1>1, <1>2, PTL DEF Spec

(* Types of the variables of the wrapper; it never counts further than one *)
(* restart past its limit.                                                 *)
THEOREM WrapperTypes == Spec => []RetryTypeOK
<1>1. RetryInv /\ CountInv /\ Inv => RetryTypeOK
  BY DEF RetryInv, CountInv, RetryTypeOK
<1> QED BY <1>1, SessionInvariant, PTL

(* A wrapper that says "Done" has mainnet indexed as far as its range,     *)
(* whatever was skipped or killed on the way, unless the last exit hid a   *)
(* failure from it.                                                        *)
THEOREM DoneMeansServed == Spec => []DoneServed
<1>1. RetryInv /\ CountInv /\ Inv => DoneServed
  BY DEF RetryInv
<1> QED BY <1>1, SessionInvariant, PTL

(* Exports that follow each other in a session keep what a single export   *)
(* promises: its pairs match, nothing is lost, and it is all or nothing.   *)
THEOREM SessionKeepsExports == Spec => [](PairNeverMixed /\ NothingLost /\ AllOrNothing)
<1>1. Inv => PairNeverMixed /\ NothingLost /\ AllOrNothing
  BY InvGives
<1>2. RetryInv /\ CountInv /\ Inv => PairNeverMixed /\ NothingLost /\ AllOrNothing
  BY <1>1
<1> QED BY <1>2, SessionInvariant, PTL

-----------------------------------------------------------------------------
(* The scans of logs.                                                      *)

(* The middle of a range of two or more blocks lies inside it.             *)
LEMMA MidLemma ==
  ASSUME NEW a \in Blocks, NEW b \in Blocks, a < b
  PROVE  /\ Mid(a, b) \in Blocks
         /\ Mid(a, b) + 1 \in Blocks
         /\ a <= Mid(a, b)
         /\ Mid(a, b) + 1 <= b
BY ScanAssumption DEF Mid, Blocks

(* Popping keeps the other ranges where they are.                          *)
LEMMA PopLemma ==
  ASSUME TypeOK, Calling
  PROVE  /\ Pop \in Seq(Ranges)
         /\ Len(stack) \in Nat /\ Len(stack) >= 1
         /\ Len(Pop) = Len(stack) - 1
         /\ \A i \in 1 .. Len(stack) - 1 : Pop[i] = stack[i]
         /\ Top \in Ranges
<1>1. stack \in Seq(Ranges) /\ stack # << >> BY DEF TypeOK, Calling
<1>2. Len(stack) \in Nat /\ Len(stack) >= 1 BY <1>1
<1>3. \A i \in 1 .. Len(stack) : stack[i] \in Ranges BY <1>1
<1>4. /\ Pop \in Seq(Ranges)
      /\ Len(Pop) = Len(stack) - 1
      /\ \A i \in 1 .. Len(stack) - 1 : Pop[i] = stack[i]
  <2>1. \A i \in 1 .. Len(stack) - 1 : stack[i] \in Ranges BY <1>2, <1>3
  <2>2. /\ Pop \in Seq(Ranges)
        /\ Len(Pop) = IF 1 <= Len(stack) - 1 THEN Len(stack) - 1 - 1 + 1 ELSE 0
        /\ \A i \in 1 .. Len(stack) - 1 - 1 + 1 : Pop[i] = stack[1 + i - 1]
    BY <1>2, <2>1, SubSeqProperties DEF Pop
  <2>3. \A i \in 1 .. Len(stack) - 1 : Pop[i] = stack[i]
    <3> TAKE i \in 1 .. Len(stack) - 1
    <3>1. i \in 1 .. Len(stack) - 1 - 1 + 1 /\ 1 + i - 1 = i BY <1>2
    <3>2. Pop[i] = stack[1 + i - 1] BY <2>2, <3>1
    <3>3. QED BY <3>1, <3>2
  <2>4. Len(Pop) = Len(stack) - 1
    <3>1. CASE Len(stack) = 1 BY <2>2, <3>1
    <3>2. CASE 1 <= Len(stack) - 1
      <4>1. Len(Pop) = Len(stack) - 1 - 1 + 1 BY <2>2, <3>2
      <4>2. QED BY <1>2, <4>1
    <3>3. Len(stack) = 1 \/ 1 <= Len(stack) - 1
      <4>1. \A n \in Nat : n >= 1 => n = 1 \/ 1 <= n - 1 OBVIOUS
      <4>2. QED BY <1>2, <4>1
    <3>4. QED BY <3>1, <3>2, <3>3
  <2>5. QED BY <2>2, <2>3, <2>4
<1>5. Top \in Ranges BY <1>2, <1>3 DEF Top
<1>6. QED BY <1>2, <1>4, <1>5

(* The stack after a split: the ranges below the top, then both halves.    *)
LEMMA SplitLemma ==
  ASSUME TypeOK, Split
  PROVE  /\ Top[1] \in Blocks /\ Top[2] \in Blocks
         /\ Halves(Top[1], Top[2]) \in Seq(Ranges)
         /\ stack' \in Seq(Ranges)
         /\ Len(stack') = Len(stack) + 1
         /\ \A i \in 1 .. Len(stack) - 1 : stack'[i] = stack[i]
         /\ stack'[Len(stack)] = Halves(Top[1], Top[2])[1]
         /\ stack'[Len(stack) + 1] = Halves(Top[1], Top[2])[2]
<1>1. Calling BY DEF Split
<1>2. Top[1] \in Blocks /\ Top[2] \in Blocks /\ Top[1] < Top[2]
  BY <1>1, PopLemma DEF Split, Ranges
<1> DEFINE H == Halves(Top[1], Top[2])
<1>3. H \in Seq(Ranges) /\ Len(H) = 2
  <2>1. /\ Mid(Top[1], Top[2]) \in Blocks
        /\ Mid(Top[1], Top[2]) + 1 \in Blocks
    BY <1>2, MidLemma
  <2>2. /\ <<Top[1], Mid(Top[1], Top[2])>> \in Ranges
        /\ <<Mid(Top[1], Top[2]) + 1, Top[2]>> \in Ranges
    BY <1>2, <2>1 DEF Ranges
  <2>3. QED BY <2>2 DEF Halves
<1>4. stack' = Pop \o H BY DEF Split
<1> HIDE DEF H
<1>5. /\ stack' \in Seq(Ranges)
      /\ Len(stack') = Len(stack) + 1
      /\ \A i \in 1 .. Len(stack) - 1 : stack'[i] = stack[i]
      /\ stack'[Len(stack)] = H[1]
      /\ stack'[Len(stack) + 1] = H[2]
  <2>1. /\ Pop \in Seq(Ranges)
        /\ Len(stack) \in Nat /\ Len(stack) >= 1
        /\ Len(Pop) = Len(stack) - 1
        /\ \A i \in 1 .. Len(stack) - 1 : Pop[i] = stack[i]
    BY <1>1, PopLemma
  <2>2. /\ stack' \in Seq(Ranges)
        /\ Len(stack') = Len(Pop) + Len(H)
        /\ \A i \in 1 .. Len(Pop) + Len(H) : stack'[i] =
              IF i <= Len(Pop) THEN Pop[i] ELSE H[i - Len(Pop)]
    BY <1>3, <1>4, <2>1, ConcatProperties
  <2>3. Len(stack') = Len(stack) + 1 BY <1>3, <2>1, <2>2
  <2>4. \A i \in 1 .. Len(stack) - 1 : stack'[i] = stack[i]
    <3> TAKE i \in 1 .. Len(stack) - 1
    <3>1. i \in 1 .. Len(Pop) + Len(H) /\ i <= Len(Pop) BY <1>3, <2>1
    <3>2. QED BY <2>1, <2>2, <3>1
  <2>5. stack'[Len(stack)] = H[1]
    <3>1. /\ Len(stack) \in 1 .. Len(Pop) + Len(H)
          /\ ~(Len(stack) <= Len(Pop))
          /\ Len(stack) - Len(Pop) = 1
      BY <1>3, <2>1
    <3>2. QED BY <2>2, <3>1
  <2>6. stack'[Len(stack) + 1] = H[2]
    <3>1. /\ Len(stack) + 1 \in 1 .. Len(Pop) + Len(H)
          /\ ~(Len(stack) + 1 <= Len(Pop))
          /\ Len(stack) + 1 - Len(Pop) = 2
      BY <1>3, <2>1
    <3>2. QED BY <2>2, <3>1
  <2>7. QED BY <2>2, <2>3, <2>4, <2>5, <2>6
<1>6. QED BY <1>2, <1>3, <1>5 DEF H

LEMMA TypeStep == TypeOK /\ [ScanNext]_scanVars => TypeOK'
<1> SUFFICES ASSUME TypeOK, [ScanNext]_scanVars PROVE TypeOK' OBVIOUS
<1>1. CASE Answer
  BY <1>1, PopLemma, ScanAssumption DEF Answer, TypeOK, Calling
<1>2. CASE Retry BY <1>2, ScanAssumption DEF Retry, TypeOK
<1>3. CASE Split
  BY <1>3, SplitLemma, ScanAssumption DEF Split, TypeOK
<1>4. CASE GiveUp BY <1>4 DEF GiveUp, TypeOK
<1>5. CASE Return BY <1>5 DEF Return, TypeOK
<1>6. CASE UNCHANGED scanVars BY <1>6 DEF scanVars, TypeOK
<1>7. QED BY <1>1, <1>2, <1>3, <1>4, <1>5, <1>6 DEF ScanNext

LEMMA TypeInit == ScanInit => TypeOK
BY ScanAssumption DEF ScanInit, TypeOK, Blocks, Ranges

(* Requests never leave the range asked for, and no call is tried more     *)
(* often than rpcRetryAttempts allows.                                     *)
THEOREM ScanTypes == ScanSpec => []TypeOK
BY TypeInit, TypeStep, PTL DEF ScanSpec

-----------------------------------------------------------------------------

(* The two halves hold the blocks of the range they replace, each once.    *)
LEMMA HalvesLemma ==
  ASSUME NEW a \in Blocks, NEW b \in Blocks, a < b
  PROVE  /\ \A x \in Blocks : a <= x /\ x <= b <=>
               Holds(Halves(a, b)[1], x) \/ Holds(Halves(a, b)[2], x)
         /\ Disjoint(Halves(a, b)[1], Halves(a, b)[2])
<1> DEFINE m == Mid(a, b)
<1>1. m \in Blocks /\ m + 1 \in Blocks /\ a <= m /\ m + 1 <= b
  BY MidLemma
<1>2. Blocks \subseteq Int BY ScanAssumption DEF Blocks
<1> HIDE DEF m
<1>3. \A x \in Blocks : a <= x /\ x <= b <=>
        (a <= x /\ x <= m) \/ (m + 1 <= x /\ x <= b)
  BY <1>1, <1>2
<1>4. \A x \in Blocks : ~((a <= x /\ x <= m) /\ (m + 1 <= x /\ x <= b))
  BY <1>1, <1>2
<1>5. QED BY <1>3, <1>4 DEF m, Halves, Holds, Disjoint

(* What an answered call does to the result and the stack.                 *)
LEMMA AnswerLemma ==
  ASSUME TypeOK, Answer
  PROVE  /\ Len(out) \in Nat /\ Len(out') = Len(out) + 1
         /\ \A i \in 1 .. Len(out) : out'[i] = out[i]
         /\ out'[Len(out) + 1] = Top
         /\ Len(stack) \in Nat /\ Len(stack) >= 1
         /\ Len(stack') = Len(stack) - 1
         /\ \A i \in 1 .. Len(stack) - 1 : stack'[i] = stack[i]
<1>1. Calling BY DEF Answer
<1>2. out' = Append(out, Top) /\ stack' = Pop BY DEF Answer
<1>3. out \in Seq(Ranges) BY DEF TypeOK
<1>4. /\ Len(out) \in Nat /\ Len(out') = Len(out) + 1
      /\ \A i \in 1 .. Len(out) : out'[i] = out[i]
      /\ out'[Len(out) + 1] = Top
  BY <1>1, <1>2, <1>3, PopLemma, AppendProperties
<1>5. QED BY <1>1, <1>2, <1>4, PopLemma

(* An answer moves the top range from the stack to the result.             *)
LEMMA AnswerOnce == TypeOK /\ ExactlyOnce /\ Answer => ExactlyOnce'
<1> SUFFICES ASSUME TypeOK, ExactlyOnce, Answer PROVE ExactlyOnce'
  OBVIOUS
<1> DEFINE m == Len(out)
           n == Len(stack)
<1>1. /\ m \in Nat /\ Len(out') = m + 1
      /\ \A i \in 1 .. m : out'[i] = out[i]
      /\ out'[m + 1] = stack[n]
      /\ n \in Nat /\ n >= 1
      /\ Len(stack') = n - 1
      /\ \A i \in 1 .. n - 1 : stack'[i] = stack[i]
  BY AnswerLemma DEF Top
<1>2. /\ \A b \in Blocks : \/ \E i \in 1 .. m : Holds(out[i], b)
                          \/ \E i \in 1 .. n : Holds(stack[i], b)
      /\ \A i, j \in 1 .. m : i # j => Disjoint(out[i], out[j])
      /\ \A i, j \in 1 .. n : i # j => Disjoint(stack[i], stack[j])
      /\ \A i \in 1 .. m, j \in 1 .. n : Disjoint(out[i], stack[j])
  BY DEF ExactlyOnce, Covered
<1>3. \A r, s : Disjoint(r, s) <=> Disjoint(s, r) BY DEF Disjoint
<1> HIDE DEF m, n
<1>4. ASSUME NEW b \in Blocks PROVE Covered(b)'
  <2>1. CASE \E i \in 1 .. m : Holds(out[i], b)
    <3>1. PICK i \in 1 .. m : Holds(out[i], b) BY <2>1
    <3>2. i \in 1 .. Len(out') /\ Holds(out'[i], b) BY <1>1, <3>1
    <3>3. QED BY <3>2 DEF Covered, Holds
  <2>2. CASE \E i \in 1 .. n : Holds(stack[i], b)
    <3>1. PICK i \in 1 .. n : Holds(stack[i], b) BY <2>2
    <3>2. CASE i = n
      <4>1. m + 1 \in 1 .. Len(out') /\ Holds(out'[m + 1], b)
        BY <1>1, <3>1, <3>2
      <4>2. QED BY <4>1 DEF Covered, Holds
    <3>3. CASE i # n
      <4>1. i \in 1 .. Len(stack') /\ Holds(stack'[i], b)
        BY <1>1, <3>1, <3>3
      <4>2. QED BY <4>1 DEF Covered, Holds
    <3>4. QED BY <3>2, <3>3
  <2>3. QED BY <1>2, <2>1, <2>2
<1>5. \A i, j \in 1 .. Len(out') : i # j => Disjoint(out'[i], out'[j])
  <2> TAKE i, j \in 1 .. Len(out')
  <2> HAVE i # j
  <2>1. CASE i \in 1 .. m /\ j \in 1 .. m BY <1>1, <1>2, <2>1
  <2>2. CASE i = m + 1 /\ j \in 1 .. m BY <1>1, <1>2, <1>3, <2>2
  <2>3. CASE i \in 1 .. m /\ j = m + 1 BY <1>1, <1>2, <2>3
  <2>4. QED BY <1>1, <2>1, <2>2, <2>3
<1>6. \A i, j \in 1 .. Len(stack') :
        i # j => Disjoint(stack'[i], stack'[j])
  BY <1>1, <1>2
<1>7. \A i \in 1 .. Len(out'), j \in 1 .. Len(stack') :
        Disjoint(out'[i], stack'[j])
  <2> TAKE i \in 1 .. Len(out'), j \in 1 .. Len(stack')
  <2>1. j \in 1 .. n /\ j # n /\ stack'[j] = stack[j] BY <1>1
  <2>2. CASE i \in 1 .. m BY <1>1, <1>2, <2>1, <2>2
  <2>3. CASE i = m + 1 BY <1>1, <1>2, <1>3, <2>1, <2>3
  <2>4. QED BY <1>1, <2>2, <2>3
<1>8. QED BY <1>4, <1>5, <1>6, <1>7 DEF ExactlyOnce, Disjoint, Holds

(* A split replaces the top range by two ranges that partition it.         *)
LEMMA SplitOnce == TypeOK /\ ExactlyOnce /\ Split => ExactlyOnce'
<1> SUFFICES ASSUME TypeOK, ExactlyOnce, Split PROVE ExactlyOnce'
  OBVIOUS
<1> DEFINE m == Len(out)
           n == Len(stack)
           H == Halves(Top[1], Top[2])
<1>1. /\ n \in Nat /\ n >= 1
      /\ Len(stack') = n + 1
      /\ \A i \in 1 .. n - 1 : stack'[i] = stack[i]
      /\ stack'[n] = H[1]
      /\ stack'[n + 1] = H[2]
      /\ out' = out
  BY SplitLemma, PopLemma DEF Split
<1>2. /\ \A b \in Blocks : Holds(stack[n], b) <=>
                             Holds(H[1], b) \/ Holds(H[2], b)
      /\ Disjoint(H[1], H[2])
  BY SplitLemma, HalvesLemma DEF Split, Top, Holds
<1>3. /\ \A b \in Blocks : \/ \E i \in 1 .. m : Holds(out[i], b)
                          \/ \E i \in 1 .. n : Holds(stack[i], b)
      /\ \A i, j \in 1 .. m : i # j => Disjoint(out[i], out[j])
      /\ \A i, j \in 1 .. n : i # j => Disjoint(stack[i], stack[j])
      /\ \A i \in 1 .. m, j \in 1 .. n : Disjoint(out[i], stack[j])
  BY DEF ExactlyOnce, Covered
<1>4. \A r, s : Disjoint(r, s) <=> Disjoint(s, r) BY DEF Disjoint
<1>5. \A r : Disjoint(r, stack[n]) => Disjoint(r, H[1]) /\ Disjoint(r, H[2])
  BY <1>2 DEF Disjoint
<1> HIDE DEF m, n, H
<1>6. ASSUME NEW b \in Blocks PROVE Covered(b)'
  <2>1. CASE \E i \in 1 .. m : Holds(out[i], b)
    BY <1>1, <2>1 DEF Covered, Holds, m
  <2>2. CASE \E i \in 1 .. n : Holds(stack[i], b)
    <3>1. PICK i \in 1 .. n : Holds(stack[i], b) BY <2>2
    <3>2. CASE i = n
      <4>1. Holds(stack'[n], b) \/ Holds(stack'[n + 1], b)
        BY <1>1, <1>2, <3>1, <3>2
      <4>2. n \in 1 .. Len(stack') /\ n + 1 \in 1 .. Len(stack') BY <1>1
      <4>3. QED BY <4>1, <4>2 DEF Covered, Holds
    <3>3. CASE i # n
      <4>1. i \in 1 .. Len(stack') /\ Holds(stack'[i], b)
        BY <1>1, <3>1, <3>3
      <4>2. QED BY <4>1 DEF Covered, Holds
    <3>4. QED BY <3>2, <3>3
  <2>3. QED BY <1>3, <2>1, <2>2
<1>7. \A i, j \in 1 .. Len(stack') :
        i # j => Disjoint(stack'[i], stack'[j])
  <2>1. ASSUME NEW i \in 1 .. n - 1
        PROVE  /\ Disjoint(stack[i], H[1]) /\ Disjoint(stack[i], H[2])
               /\ Disjoint(H[1], stack[i]) /\ Disjoint(H[2], stack[i])
    <3>1. Disjoint(stack[i], stack[n]) BY <1>1, <1>3
    <3>2. QED BY <1>4, <1>5, <3>1
  <2>2. ASSUME NEW i \in 1 .. n - 1, NEW j \in 1 .. n - 1, i # j
        PROVE  Disjoint(stack[i], stack[j])
    BY <1>1, <1>3, <2>2
  <2> TAKE i, j \in 1 .. Len(stack')
  <2> HAVE i # j
  <2>3. CASE i \in 1 .. n - 1 /\ j \in 1 .. n - 1 BY <1>1, <2>2, <2>3
  <2>4. CASE i \in 1 .. n - 1 /\ j \in {n, n + 1} BY <1>1, <2>1, <2>4
  <2>5. CASE i \in {n, n + 1} /\ j \in 1 .. n - 1 BY <1>1, <2>1, <2>5
  <2>6. CASE i \in {n, n + 1} /\ j \in {n, n + 1}
    BY <1>1, <1>2, <1>4, <2>6
  <2>7. i \in 1 .. n - 1 \cup {n, n + 1} /\ j \in 1 .. n - 1 \cup {n, n + 1}
    BY <1>1
  <2>8. QED BY <2>3, <2>4, <2>5, <2>6, <2>7
<1>8. \A i \in 1 .. m, j \in 1 .. Len(stack') : Disjoint(out[i], stack'[j])
  <2> TAKE i \in 1 .. m, j \in 1 .. Len(stack')
  <2>1. CASE j \in 1 .. n - 1 BY <1>1, <1>3, <2>1
  <2>2. CASE j \in {n, n + 1}
    <3>1. Disjoint(out[i], stack[n]) BY <1>1, <1>3
    <3>2. QED BY <1>1, <1>5, <2>2, <3>1
  <2>3. j \in 1 .. n - 1 \cup {n, n + 1} BY <1>1
  <2>4. QED BY <2>1, <2>2, <2>3
<1>9. QED BY <1>1, <1>3, <1>6, <1>7, <1>8 DEF ExactlyOnce, Disjoint, Holds, m

LEMMA OnceInit == ScanInit => ExactlyOnce
<1> SUFFICES ASSUME ScanInit PROVE ExactlyOnce OBVIOUS
<1>1. /\ stack = << <<FromBlock, ToBlock>> >> /\ out = << >>
      /\ Len(stack) = 1 /\ Len(out) = 0
  BY DEF ScanInit
<1>2. \A b \in Blocks : Holds(stack[1], b)
  BY <1>1, ScanAssumption DEF Holds, Blocks
<1>3. QED BY <1>1, <1>2 DEF ExactlyOnce, Covered

(* However the endpoint refuses and splits the request, every block is in  *)
(* exactly one range of the result and the stack, in both push orders.     *)
THEOREM EveryBlockOnce == ScanSpec => []ExactlyOnce
<1>1. TypeOK /\ ExactlyOnce /\ [ScanNext]_scanVars => ExactlyOnce'
  <2> SUFFICES ASSUME TypeOK, ExactlyOnce, [ScanNext]_scanVars PROVE ExactlyOnce'
    OBVIOUS
  <2>1. CASE Answer BY <2>1, AnswerOnce
  <2>2. CASE Split BY <2>2, SplitOnce
  <2>3. CASE Retry \/ GiveUp \/ Return \/ UNCHANGED scanVars
    <3>1. UNCHANGED <<stack, out>> BY <2>3 DEF Retry, GiveUp, Return, scanVars
    <3>2. QED BY <3>1 DEF ExactlyOnce, Covered
  <2>4. QED BY <2>1, <2>2, <2>3 DEF ScanNext
<1>2. QED BY <1>1, OnceInit, ScanTypes, PTL DEF ScanSpec

-----------------------------------------------------------------------------

(* Once the scan has returned its stack is empty.                          *)
DoneIsEmpty == status = "done" => stack = << >>

(* A scan that returns, rather than throws, has fetched the whole request. *)
THEOREM ReturnedIsComplete == ScanSpec => []DoneIsComplete
<1>1. ScanInit => DoneIsEmpty BY DEF ScanInit, DoneIsEmpty
<1>2. DoneIsEmpty /\ [ScanNext]_scanVars => DoneIsEmpty'
  BY DEF DoneIsEmpty, ScanNext, scanVars, Answer, Retry, Split, GiveUp, Return,
         Calling
<1>3. DoneIsEmpty /\ ExactlyOnce => DoneIsComplete
  BY DEF DoneIsEmpty, ExactlyOnce, Covered, DoneIsComplete
<1>4. QED BY <1>1, <1>2, <1>3, EveryBlockOnce, PTL DEF ScanSpec

-----------------------------------------------------------------------------

(* InBlockOrder is not inductive by itself: the ranges on the stack must   *)
(* lie behind the result and in descending order towards the bottom.       *)
Ordered ==
  EarlierHalfFirst =>
    /\ \A i \in 1 .. Len(stack) : stack[i][1] <= stack[i][2]
    /\ \A i, j \in 1 .. Len(out) : i < j => out[i][2] < out[j][1]
    /\ \A i, j \in 1 .. Len(stack) : i < j => stack[j][2] < stack[i][1]
    /\ \A i \in 1 .. Len(out), j \in 1 .. Len(stack) :
         out[i][2] < stack[j][1]

LEMMA AnswerOrdered == TypeOK /\ Ordered /\ Answer => Ordered'
<1> SUFFICES ASSUME TypeOK, Ordered, Answer, EarlierHalfFirst
             PROVE  Ordered'
  BY DEF Ordered
<1> DEFINE m == Len(out)
           n == Len(stack)
<1>1. /\ m \in Nat /\ Len(out') = m + 1
      /\ \A i \in 1 .. m : out'[i] = out[i]
      /\ out'[m + 1] = stack[n]
      /\ n \in Nat /\ n >= 1
      /\ Len(stack') = n - 1
      /\ \A i \in 1 .. n - 1 : stack'[i] = stack[i]
  BY AnswerLemma DEF Top
<1>2. /\ \A i \in 1 .. n : stack[i][1] <= stack[i][2]
      /\ \A i, j \in 1 .. m : i < j => out[i][2] < out[j][1]
      /\ \A i, j \in 1 .. n : i < j => stack[j][2] < stack[i][1]
      /\ \A i \in 1 .. m, j \in 1 .. n : out[i][2] < stack[j][1]
  BY DEF Ordered
<1> HIDE DEF m, n
<1>3. \A i, j \in 1 .. Len(out') : i < j => out'[i][2] < out'[j][1]
  <2> TAKE i, j \in 1 .. Len(out')
  <2> HAVE i < j
  <2>1. i \in 1 .. m BY <1>1
  <2>2. CASE j \in 1 .. m BY <1>1, <1>2, <2>1, <2>2
  <2>3. CASE j = m + 1
    <3>1. out[i][2] < stack[n][1] BY <1>1, <1>2, <2>1
    <3>2. QED BY <1>1, <2>1, <2>3, <3>1
  <2>4. QED BY <1>1, <2>2, <2>3
<1>4. \A i \in 1 .. Len(out'), j \in 1 .. Len(stack') :
        out'[i][2] < stack'[j][1]
  <2> TAKE i \in 1 .. Len(out'), j \in 1 .. Len(stack')
  <2>1. j \in 1 .. n - 1 /\ j \in 1 .. n /\ n \in 1 .. n /\ j < n BY <1>1
  <2>2. CASE i \in 1 .. m BY <1>1, <1>2, <2>1, <2>2
  <2>3. CASE i = m + 1
    <3>1. stack[n][2] < stack[j][1] BY <1>2, <2>1
    <3>2. QED BY <1>1, <2>1, <2>3, <3>1
  <2>4. QED BY <1>1, <2>2, <2>3
<1>5. /\ \A i \in 1 .. Len(stack') : stack'[i][1] <= stack'[i][2]
      /\ \A i, j \in 1 .. Len(stack') : i < j => stack'[j][2] < stack'[i][1]
  BY <1>1, <1>2
<1>6. QED BY <1>3, <1>4, <1>5 DEF Ordered

LEMMA SplitOrdered == TypeOK /\ Ordered /\ Split => Ordered'
<1> SUFFICES ASSUME TypeOK, Ordered, Split, EarlierHalfFirst
             PROVE  Ordered'
  BY DEF Ordered
<1> DEFINE m == Len(out)
           n == Len(stack)
           a == Top[1]
           b == Top[2]
           c == Mid(a, b)
<1>1. /\ n \in Nat /\ n >= 1
      /\ Len(stack') = n + 1
      /\ \A i \in 1 .. n - 1 : stack'[i] = stack[i]
      /\ stack'[n] = <<c + 1, b>>
      /\ stack'[n + 1] = <<a, c>>
      /\ out' = out
  BY SplitLemma, PopLemma DEF Split, Halves
<1>2. a = stack[n][1] /\ b = stack[n][2] BY DEF Top
<1>3. /\ a \in Int /\ b \in Int /\ c \in Int
      /\ a <= c /\ c + 1 <= b
  <2>1. a \in Blocks /\ b \in Blocks /\ a < b BY SplitLemma DEF Split
  <2>2. Blocks \subseteq Int BY ScanAssumption DEF Blocks
  <2>3. QED BY <2>1, <2>2, MidLemma
<1>4. /\ \A i \in 1 .. n : stack[i][1] <= stack[i][2]
      /\ \A i, j \in 1 .. m : i < j => out[i][2] < out[j][1]
      /\ \A i, j \in 1 .. n : i < j => stack[j][2] < stack[i][1]
      /\ \A i \in 1 .. m, j \in 1 .. n : out[i][2] < stack[j][1]
  BY DEF Ordered
<1>5. m \in Nat /\ \A i \in 1 .. m : out[i][2] \in Int
  BY ScanAssumption DEF TypeOK, Ranges, Blocks
<1>6. \A i \in 1 .. n : stack[i][1] \in Int /\ stack[i][2] \in Int
  BY ScanAssumption DEF TypeOK, Ranges, Blocks
<1> HIDE DEF m, n, a, b, c
<1>7. \A i \in 1 .. Len(stack') : stack'[i][1] <= stack'[i][2]
  <2> TAKE i \in 1 .. Len(stack')
  <2>1. CASE i \in 1 .. n - 1 BY <1>1, <1>4, <2>1
  <2>2. CASE i = n BY <1>1, <1>3, <2>2
  <2>3. CASE i = n + 1 BY <1>1, <1>3, <2>3
  <2>4. QED BY <1>1, <2>1, <2>2, <2>3
<1>8. \A i, j \in 1 .. Len(stack') : i < j => stack'[j][2] < stack'[i][1]
  <2> TAKE i, j \in 1 .. Len(stack')
  <2> HAVE i < j
  <2>1. CASE i \in 1 .. n - 1 /\ j \in 1 .. n - 1 BY <1>1, <1>4, <2>1
  <2>2. CASE i \in 1 .. n - 1 /\ j = n
    <3>1. b < stack[i][1] BY <1>1, <1>2, <1>4, <2>2
    <3>2. QED BY <1>1, <2>2, <3>1
  <2>3. CASE i \in 1 .. n - 1 /\ j = n + 1
    <3>1. b < stack[i][1] /\ i \in 1 .. n BY <1>1, <1>2, <1>4, <2>3
    <3>2. c < stack[i][1] BY <1>3, <1>6, <3>1
    <3>3. QED BY <1>1, <2>3, <3>2
  <2>4. CASE i = n /\ j = n + 1 BY <1>1, <1>3, <2>4
  <2>5. QED BY <1>1, <2>1, <2>2, <2>3, <2>4
<1>9. \A i \in 1 .. m, j \in 1 .. Len(stack') : out[i][2] < stack'[j][1]
  <2> TAKE i \in 1 .. m, j \in 1 .. Len(stack')
  <2>1. CASE j \in 1 .. n - 1 BY <1>1, <1>4, <2>1
  <2>2. out[i][2] < a BY <1>1, <1>2, <1>4
  <2>3. CASE j = n
    <3>1. out[i][2] < c + 1 BY <1>3, <1>5, <2>2
    <3>2. QED BY <1>1, <2>3, <3>1
  <2>4. CASE j = n + 1 BY <1>1, <2>2, <2>4
  <2>5. QED BY <1>1, <2>1, <2>3, <2>4
<1>10. QED BY <1>1, <1>4, <1>7, <1>8, <1>9 DEF Ordered, m

(* The indexer's scan delivers logs in block order, whichever ranges the   *)
(* endpoint made it split.                                                 *)
THEOREM LogsInBlockOrder == ScanSpec => []InBlockOrder
<1>1. ScanInit => Ordered
  BY ScanAssumption DEF ScanInit, Ordered
<1>2. TypeOK /\ Ordered /\ [ScanNext]_scanVars => Ordered'
  <2> SUFFICES ASSUME TypeOK, Ordered, [ScanNext]_scanVars PROVE Ordered'
    OBVIOUS
  <2>1. CASE Answer BY <2>1, AnswerOrdered
  <2>2. CASE Split BY <2>2, SplitOrdered
  <2>3. CASE Retry \/ GiveUp \/ Return \/ UNCHANGED scanVars
    <3>1. UNCHANGED <<stack, out>> BY <2>3 DEF Retry, GiveUp, Return, scanVars
    <3>2. QED BY <3>1 DEF Ordered
  <2>4. QED BY <2>1, <2>2, <2>3 DEF ScanNext
<1>3. Ordered => InBlockOrder BY DEF Ordered, InBlockOrder
<1>4. QED BY <1>1, <1>2, <1>3, ScanTypes, PTL DEF ScanSpec
=============================================================================
