----------------------------- MODULE BackupFlow -----------------------------
(***************************************************************************)
(* Backup and restore of the application (backup_flow_controller.dart over *)
(* backup_coordinator.dart and local_backup_store.dart): the live stores,  *)
(* the one backup file, and a controller whose operations await the file   *)
(* while drafts are edited and a device's receipts move the mirror.        *)
(***************************************************************************)
EXTENDS Integers

CONSTANTS
  Absent,        \* no file, no summary, no operation
  Corrupt,       \* a file that does not parse
  MaxRevision,   \* bound: receipts that move the mirror
  MaxEdits       \* bound: edits of profiles and drafts

ASSUME BackupConstants == MaxRevision \in Nat /\ MaxEdits \in Nat

VARIABLES
  live,    \* the live stores: revision of the mirror, version of the rest
  file,    \* the backup that the file holds, or Absent or Corrupt
  state,   \* BackupFlowState; summaries stand for the backups they describe
  op       \* the operation that awaits the file, or Absent

backupVars == <<live, file, state, op>>

Stores(revision, edits) == [revision |-> revision, edits |-> edits]
Backups == [revision : 0 .. MaxRevision, edits : 0 .. MaxEdits]
Empty   == Stores(0, 0)

(* An operation: what it does, the stores that an export has read, and the *)
(* summary that a failure goes back to.                                    *)
Operations ==
  [operation : {"export", "inspect", "restore", "erase", "eraseLocalData"},
   snapshot : Backups, summary : Backups \cup {Absent}]

ASSUME AbsentIsNoOperation == Absent \notin Operations

(* A state of the flow: its kind, the operation, the summary it keeps and  *)
(* the revision it shows next to a stale backup.                           *)
Flow(kind, operation, summary, current) ==
  [kind |-> kind, operation |-> operation, summary |-> summary,
   current |-> current]
Shows(kind, operation, summary) == Flow(kind, operation, summary, Absent)
Initial == Shows("initial", Absent, Absent)

BackupInit == live = Empty /\ file = Absent /\ state = Initial /\ op = Absent

(* _isBusy *)
Busy == op # Absent

(* lastSummary *)
LastSummary ==
  IF state.kind \in {"success", "busy", "failure", "stale"}
  THEN state.summary ELSE Absent

(* Mutant: a backup is compared with the revision before the file was read.*)
OlderThanAtStart(backup) ==
  backup.revision < (IF op = Absent THEN live ELSE op.snapshot).revision

(* _validateStaleGuard, and the same comparison of the controller. *)
Older(backup) == backup.revision < live.revision

Refused(backup) == Flow("stale", "restore", backup, live.revision)
Done(operation, backup) == Shows("success", operation, backup)
Failed(operation) == Shows("failure", operation, op.summary)

-----------------------------------------------------------------------------
(* export, inspect, restore, erase and confirmEraseLocalData, up to where  *)
(* they await the file; an export has read the stores by then.             *)
Begin(operation) ==
  LET keeps == IF operation \in {"erase", "eraseLocalData"} THEN Absent
               ELSE LastSummary
  IN
  /\ ~Busy
  /\ operation = "eraseLocalData" => state.kind = "eraseRequired"
  /\ op' = [operation |-> operation, snapshot |-> live, summary |-> keeps]
  /\ state' = Shows("busy", operation, keeps)
  /\ UNCHANGED <<live, file>>

Ends(operation) == Busy /\ op.operation = operation /\ op' = Absent

(* Any access of the file may fail, and leaves it and the stores alone.    *)
Fails ==
  /\ Busy /\ op' = Absent
  /\ state' = Failed(op.operation)
  /\ UNCHANGED <<live, file>>

(* saveText replaces the file by one rename. *)
EndExport ==
  /\ Ends("export")
  /\ file' = op.snapshot /\ state' = Done("export", op.snapshot)
  /\ UNCHANGED live

EndInspect ==
  /\ Ends("inspect")
  /\ state' = IF file = Absent THEN Shows("absent", "inspect", Absent)
              ELSE IF file = Corrupt THEN Failed("inspect")
              ELSE Done("inspect", file)
  /\ UNCHANGED <<live, file>>

(* restore, from where the file has been read and parsed. *)
EndRestore ==
  /\ Ends("restore")
  /\ IF file \in {Absent, Corrupt}
     THEN /\ state' = IF file = Absent THEN Shows("absent", "restore", Absent)
                      ELSE Failed("restore")
          /\ UNCHANGED live
     ELSE IF Older(file) THEN state' = Refused(file) /\ UNCHANGED live
     ELSE live' = file /\ state' = Done("restore", file)
  /\ UNCHANGED file

EndErase ==
  /\ Ends("erase")
  /\ file' = Absent /\ state' = Shows("absent", "erase", Absent)
  /\ UNCHANGED live

(* eraseLocalData: the stores after the file. *)
EndEraseLocalData ==
  /\ Ends("eraseLocalData")
  /\ file' = Absent /\ live' = Empty
  /\ state' = Shows("erased", Absent, Absent)

(* confirmStaleRestore awaits nothing. *)
ConfirmStaleRestore ==
  /\ ~Busy /\ state.kind = "stale"
  /\ live' = state.summary /\ state' = Done("restore", state.summary)
  /\ UNCHANGED <<file, op>>

CancelStaleConfirmation ==
  /\ state.kind = "stale"
  /\ state' = Done("inspect", state.summary)
  /\ UNCHANGED <<live, file, op>>

RestoreParsedBackup(backup, allowStale) ==
  /\ ~Busy
  /\ IF ~allowStale /\ Older(backup)
     THEN state' = Refused(backup) /\ UNCHANGED live
     ELSE live' = backup /\ state' = Done("restore", backup)
  /\ UNCHANGED <<file, op>>

RequestEraseLocalData ==
  /\ ~Busy
  /\ state' = Shows("eraseRequired", Absent, Absent)
  /\ UNCHANGED <<live, file, op>>

CancelEraseLocalData ==
  /\ ~Busy /\ state.kind = "eraseRequired"
  /\ state' = Initial
  /\ UNCHANGED <<live, file, op>>

(* What goes on meanwhile: a receipt (recordApplied), an edit, and a file  *)
(* that someone else damages.                                              *)
Receipt ==
  /\ live.revision < MaxRevision
  /\ live' = [live EXCEPT !.revision = @ + 1]
  /\ UNCHANGED <<file, state, op>>
Edit ==
  /\ live.edits < MaxEdits
  /\ live' = [live EXCEPT !.edits = @ + 1]
  /\ UNCHANGED <<file, state, op>>
Damage ==
  /\ file # Absent /\ file' = Corrupt
  /\ UNCHANGED <<live, state, op>>

BackupNext ==
  \/ \E operation \in {"export", "inspect", "restore", "erase",
                       "eraseLocalData"} : Begin(operation)
  \/ Fails \/ EndExport \/ EndInspect \/ EndRestore \/ EndErase
  \/ EndEraseLocalData \/ ConfirmStaleRestore \/ CancelStaleConfirmation
  \/ \E backup \in Backups, allowStale \in BOOLEAN :
       RestoreParsedBackup(backup, allowStale)
  \/ RequestEraseLocalData \/ CancelEraseLocalData
  \/ Receipt \/ Edit \/ Damage

BackupSpec == BackupInit /\ [][BackupNext]_backupVars

-----------------------------------------------------------------------------
BackupTypeOK ==
  /\ live \in Backups /\ file \in Backups \cup {Absent, Corrupt}
  /\ Busy <=> state.kind = "busy"
  /\ state.summary \in Backups \cup {Absent}
  /\ state.kind = "stale" => state.summary.revision < state.current

(* The mirror of the schedule goes back only if the user was told so and   *)
(* agreed - to the very backup that was refused, or beforehand - or erased *)
(* the data, and then the file is gone too: whatever the device confirms   *)
(* while a file is read counts (backup_coordinator.dart, restore and       *)
(* eraseLocalData).                                                        *)
NoSilentRollback ==
  [][live'.revision < live.revision =>
       \/ /\ state.kind = "stale" /\ state.summary.revision < state.current
          /\ live' = state.summary
       \/ \E backup \in Backups : RestoreParsedBackup(backup, TRUE)
       \/ state'.kind = "erased" /\ file' = Absent /\ live' = Empty]_backupVars
=============================================================================
