----------------------------- MODULE MerklExport -----------------------------
(***************************************************************************)
(* MerklAirdropExportService.writePreparedExports: an export replaces      *)
(* several files, a Merkl file and an audit file for each network and      *)
(* reward token, as if in one transaction.  All files are first written    *)
(* under temporary names; then all old files are moved to backups; then    *)
(* all new ones are renamed into place.  An error on the way takes the     *)
(* promoted files away and moves the backups back, in the opposite order.  *)
(* Temporary files, and after success the backups, are removed at the end. *)
(*                                                                         *)
(* Any call to the file system may fail, those of the rollback and of the  *)
(* cleanup too, and the process may die between two calls.  Names of       *)
(* temporary files and backups hold the process id, the time and a random  *)
(* number, so no later export finds them: they are orphans then.           *)
(*                                                                         *)
(* Files are numbered in the order of the prepared list, the Merkl file of *)
(* a group before its audit file.  The content of a file is the export     *)
(* that wrote it and whether it is whole.  One export runs at a time.      *)
(***************************************************************************)
EXTENDS Naturals

CONSTANTS
  Groups,      (* number of networks and reward tokens                     *)
  MaxExports,  (* bound on the exports                                     *)
  Missing      (* a file that is not there                                 *)

ASSUME ExportAssumption ==
  /\ Groups \in Nat /\ MaxExports \in Nat
  /\ Missing \notin [by : 1 .. MaxExports, whole : BOOLEAN]

VARIABLES
  target,     (* result/<prefix>.merkl.json and .audit.json                *)
  temp,       (* temporary files of the running export                     *)
  backup,     (* backups of the running export                             *)
  orphans,    (* <<file, content>> of backups that were left behind        *)
  step,       (* loop of writePreparedExports, "idle" between exports      *)
  todo,       (* files still to visit in that loop                         *)
  staged,     (* files of the export                                       *)
  hadTarget, promoted,   (* the flags of the same names, as sets           *)
  committed,
  exports,    (* exports begun                                             *)
  faults,     (* errors of the running or the last export                  *)
  outcome,    (* how the last export ended                                 *)
  before,     (* history: target when the export began                     *)
  published   (* history: content last committed for each file             *)

exportVars == <<target, temp, backup, orphans, step, todo, staged, hadTarget,
                promoted, committed, exports, faults, outcome, before, published>>

Files == 1 .. 2 * Groups
MerklFile(g) == 2 * g - 1
AuditFile(g) == 2 * g
FilesOf(groups) == {MerklFile(g) : g \in groups} \cup {AuditFile(g) : g \in groups}

Contents == [by : 1 .. MaxExports, whole : BOOLEAN]

(* The next file of a loop in the order of the list, or against it.        *)
InOrder(f) == f \in todo /\ \A g \in todo : f <= g
NextReversed(f) == f \in todo /\ \A g \in todo : f >= g

(* The loop goes on with the other files, or with the next loop.           *)
Visited(f, next, files) ==
  /\ step' = IF todo = {f} THEN next ELSE step
  /\ todo' = IF todo = {f} THEN files ELSE todo \ {f}

(* The catch block, the finally block.                                     *)
Catch ==
  /\ step' = "remove"
  /\ todo' = staged
  /\ faults' = faults + 1
Finally == step' = "cleanup" /\ todo' = staged

Steps == {"idle", "stage", "backup", "promote", "remove", "restore", "cleanup"}

ExportInit ==
  /\ target = [f \in Files |-> Missing]
  /\ temp = [f \in Files |-> Missing]
  /\ backup = [f \in Files |-> Missing]
  /\ orphans = {}
  /\ step = "idle"
  /\ todo = {} /\ staged = {} /\ hadTarget = {} /\ promoted = {}
  /\ committed = FALSE
  /\ exports = 0 /\ faults = 0
  /\ outcome = "none"
  /\ before = target
  /\ published = target

(* An export of some of the groups begins.                                 *)
BeginExport(groups) ==
  /\ step = "idle"
  /\ exports < MaxExports
  /\ exports' = exports + 1
  /\ staged' = FilesOf(groups)
  /\ todo' = staged'
  /\ step' = "stage"
  /\ before' = target
  /\ hadTarget' = {} /\ promoted' = {}
  /\ committed' = FALSE
  /\ faults' = 0
  /\ outcome' = "running"
  /\ UNCHANGED <<target, temp, backup, orphans, published>>

(* writeJsonFile.  stream.end() calls back when it fails as well, before   *)
(* the stream emits the error: the failure of the last write of a file may *)
(* pass for success.                                                       *)
StageFile(f, whole) ==
  /\ step = "stage" /\ InOrder(f)
  /\ temp' = [temp EXCEPT ![f] = [by |-> exports, whole |-> whole]]
  /\ Visited(f, "backup", staged)
  /\ UNCHANGED <<target, backup, orphans, staged, hadTarget, promoted, committed,
                 exports, faults, outcome, before, published>>

StageFails(f, content) ==
  /\ step = "stage" /\ InOrder(f)
  /\ temp' = [temp EXCEPT ![f] = content]
  /\ Catch
  /\ UNCHANGED <<target, backup, orphans, staged, hadTarget, promoted, committed,
                 exports, outcome, before, published>>

(* Mutant of BackupFile: the old file is copied.                           *)
BackupCopies(f) ==
  /\ step = "backup" /\ InOrder(f)
  /\ IF target[f] = Missing
     THEN UNCHANGED <<backup, hadTarget>>
     ELSE /\ hadTarget' = hadTarget \cup {f}
          /\ backup' = [backup EXCEPT ![f] = target[f]]
  /\ Visited(f, "promote", staged)
  /\ UNCHANGED <<target, temp, orphans, staged, promoted, committed, exports,
                 faults, outcome, before, published>>

(* The old file is moved away.                                             *)
BackupFile(f) ==
  /\ step = "backup" /\ InOrder(f)
  /\ IF target[f] = Missing
     THEN UNCHANGED <<target, backup, hadTarget>>
     ELSE /\ hadTarget' = hadTarget \cup {f}
          /\ backup' = [backup EXCEPT ![f] = target[f]]
          /\ target' = [target EXCEPT ![f] = Missing]
  /\ Visited(f, "promote", staged)
  /\ UNCHANGED <<temp, orphans, staged, promoted, committed, exports, faults,
                 outcome, before, published>>

BackupFails(f) ==
  /\ step = "backup" /\ InOrder(f)
  /\ target[f] # Missing
  /\ hadTarget' = hadTarget \cup {f}
  /\ Catch
  /\ UNCHANGED <<target, temp, backup, orphans, staged, promoted, committed,
                 exports, outcome, before, published>>

(* The new file is renamed into place; after the last one the export is    *)
(* committed.                                                              *)
PromoteFile(f) ==
  /\ step = "promote" /\ InOrder(f)
  /\ target' = [target EXCEPT ![f] = temp[f]]
  /\ temp' = [temp EXCEPT ![f] = Missing]
  /\ promoted' = promoted \cup {f}
  /\ Visited(f, "cleanup", staged)
  /\ committed' = (todo = {f})
  /\ published' = IF todo = {f}
                  THEN [g \in Files |-> IF g \in staged THEN target'[g]
                                                        ELSE published[g]]
                  ELSE published
  /\ UNCHANGED <<backup, orphans, staged, hadTarget, exports, faults, outcome, before>>

PromoteFails(f) ==
  /\ step = "promote" /\ InOrder(f)
  /\ Catch
  /\ UNCHANGED <<target, temp, backup, orphans, staged, hadTarget, promoted,
                 committed, exports, outcome, before, published>>

(* Mutant of RemovePromoted: whatever has the name is removed.             *)
RemoveAll(f) ==
  /\ step = "remove" /\ NextReversed(f)
  /\ target' = [target EXCEPT ![f] = Missing]
  /\ Visited(f, "restore", staged)
  /\ UNCHANGED <<temp, backup, orphans, staged, hadTarget, promoted, committed,
                 exports, faults, outcome, before, published>>

(* Rollback: new files that were promoted are removed.                     *)
RemovePromoted(f) ==
  /\ step = "remove" /\ NextReversed(f)
  /\ target' = IF f \in promoted THEN [target EXCEPT ![f] = Missing] ELSE target
  /\ Visited(f, "restore", staged)
  /\ UNCHANGED <<temp, backup, orphans, staged, hadTarget, promoted, committed,
                 exports, faults, outcome, before, published>>

(* Mutant of RestoreBackup: only files that were replaced are moved back.  *)
RestorePromoted(f) ==
  /\ step = "restore" /\ NextReversed(f)
  /\ IF f \in promoted /\ backup[f] # Missing
     THEN /\ target' = [target EXCEPT ![f] = backup[f]]
          /\ backup' = [backup EXCEPT ![f] = Missing]
     ELSE UNCHANGED <<target, backup>>
  /\ Visited(f, "cleanup", staged)
  /\ UNCHANGED <<temp, orphans, staged, hadTarget, promoted, committed, exports,
                 faults, outcome, before, published>>

(* Rollback: old files are moved back.                                     *)
RestoreBackup(f) ==
  /\ step = "restore" /\ NextReversed(f)
  /\ IF f \in hadTarget /\ backup[f] # Missing
     THEN /\ target' = [target EXCEPT ![f] = backup[f]]
          /\ backup' = [backup EXCEPT ![f] = Missing]
     ELSE UNCHANGED <<target, backup>>
  /\ Visited(f, "cleanup", staged)
  /\ UNCHANGED <<temp, orphans, staged, hadTarget, promoted, committed, exports,
                 faults, outcome, before, published>>

(* An error in the catch block leaves it.                                  *)
RollbackFails(f) ==
  /\ \/ step = "remove" /\ f \in promoted
     \/ step = "restore" /\ f \in hadTarget /\ backup[f] # Missing
  /\ NextReversed(f)
  /\ Finally
  /\ faults' = faults + 1
  /\ UNCHANGED <<target, temp, backup, orphans, staged, hadTarget, promoted,
                 committed, exports, outcome, before, published>>

LeftBehind == orphans \cup {<<f, backup[f]>> : f \in {g \in Files : backup[g] # Missing}}

(* The process ends; its backups that are still there are never looked at  *)
(* again.                                                                  *)
EndExport(how) ==
  /\ step' = "idle" /\ todo' = {}
  /\ outcome' = how
  /\ orphans' = LeftBehind
  /\ temp' = [f \in Files |-> Missing]
  /\ backup' = [f \in Files |-> Missing]
  /\ UNCHANGED <<target, staged, hadTarget, promoted, committed, exports,
                 before, published>>

(* The finally block, for one file that is not the last.                   *)
CleanFile(f) ==
  /\ step = "cleanup" /\ InOrder(f)
  /\ todo # {f}
  /\ todo' = todo \ {f}
  /\ temp' = [temp EXCEPT ![f] = Missing]
  /\ backup' = IF committed THEN [backup EXCEPT ![f] = Missing] ELSE backup
  /\ UNCHANGED <<target, orphans, step, staged, hadTarget, promoted, committed,
                 exports, faults, outcome, before, published>>

(* The last file; the export returns, or throws the error it caught.       *)
CleanLastFile(f) ==
  /\ step = "cleanup" /\ todo = {f}
  /\ step' = "idle" /\ todo' = {}
  /\ outcome' = IF committed THEN "exported" ELSE "failed"
  /\ LET rest == {g \in Files : backup[g] # Missing /\ ~(committed /\ g = f)} IN
     orphans' = orphans \cup {<<g, backup[g]>> : g \in rest}
  /\ temp' = [g \in Files |-> Missing]
  /\ backup' = [g \in Files |-> Missing]
  /\ UNCHANGED <<target, staged, hadTarget, promoted, committed, exports,
                 faults, before, published>>

(* An error in the finally block is thrown, after success as well.         *)
CleanupFails ==
  /\ step = "cleanup"
  /\ EndExport("failed")
  /\ faults' = faults + 1

(* The process dies.                                                       *)
ExporterDies ==
  /\ step # "idle"
  /\ EndExport("died")
  /\ UNCHANGED faults

ExportStep ==
  \/ \E f \in Files :
       \/ \E whole \in BOOLEAN : StageFile(f, whole)
       \/ StageFails(f, Missing)
       \/ StageFails(f, [by |-> exports, whole |-> FALSE])
       \/ BackupFile(f) \/ BackupFails(f)
       \/ PromoteFile(f) \/ PromoteFails(f)
       \/ RemovePromoted(f) \/ RestoreBackup(f) \/ RollbackFails(f)
       \/ CleanFile(f) \/ CleanLastFile(f)
  \/ CleanupFails
  \/ ExporterDies

ExportNext ==
  \/ \E groups \in (SUBSET (1 .. Groups)) \ {{}} : BeginExport(groups)
  \/ ExportStep

ExportSpec == ExportInit /\ [][ExportNext]_exportVars

-----------------------------------------------------------------------------

(* Types of the variables.                                                 *)
ExportTypeOK ==
  /\ target \in [Files -> Contents \cup {Missing}]
  /\ temp \in [Files -> Contents \cup {Missing}]
  /\ backup \in [Files -> Contents \cup {Missing}]
  /\ before \in [Files -> Contents \cup {Missing}]
  /\ published \in [Files -> Contents \cup {Missing}]
  /\ orphans \subseteq Files \X Contents
  /\ step \in Steps
  /\ staged \subseteq Files /\ todo \subseteq staged
  /\ hadTarget \subseteq staged /\ promoted \subseteq staged
  /\ committed \in BOOLEAN
  /\ exports \in 0 .. MaxExports /\ faults \in Nat
  /\ outcome \in {"none", "running", "exported", "failed", "died"}

(* A reader never finds the Merkl file of one export next to the audit     *)
(* file of another, in the middle of an export, after a rollback that      *)
(* failed itself, or after a crash.                                        *)
PairNeverMixed ==
  \A g \in 1 .. Groups :
    LET merkl == target[MerklFile(g)]
        audit == target[AuditFile(g)] IN
    merkl # Missing /\ audit # Missing => merkl.by = audit.by

(* What was committed last for a file is in its place or in a backup,      *)
(* whatever failed or died since.                                          *)
NothingLost ==
  \A f \in Files :
    published[f] # Missing =>
      \/ published[f] \in {target[f], backup[f]}
      \/ <<f, published[f]>> \in orphans

(* An export that failed once has put every file back; one that succeeded  *)
(* has replaced all its files and no other.                                *)
AllOrNothing ==
  /\ outcome = "failed" /\ faults = 1 /\ ~committed => target = before
  /\ outcome = "exported" =>
       \A f \in Files :
         IF f \in staged THEN target[f] # Missing /\ target[f].by = exports
                         ELSE target[f] = before[f]

(* What the rewards manual says of the export: the files are written first *)
(* and promoted together afterwards, and a failure rolls everything back,  *)
(* so a successful export leaves whole files.  The failure of a last write *)
(* passes unnoticed.                                                       *)
ExportedWhole ==
  outcome = "exported" =>
    \A f \in staged : target[f] # Missing /\ target[f].whole
=============================================================================
