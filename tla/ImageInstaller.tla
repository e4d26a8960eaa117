---------------------------- MODULE ImageInstaller ----------------------------
(***************************************************************************)
(* ImageInstaller_ProcessBasicFull and ImageInstaller_ProcessRollback      *)
(* (bootloader/src/image_installer.c): backup of the active image, page by *)
(* page installation of the candidate, verification, and restoration of    *)
(* the backup.  Every loop commits its copy_offset after each unit, so     *)
(* that a reset repeats at most the unit it interrupted.                   *)
(***************************************************************************)
EXTENDS NodeState

MinOf(a, b) == IF a < b THEN a ELSE b

InstallProgress_Validate(size, offset) ==
    /\ size # 0 /\ size <= APPLICATION_MAX_SIZE
    /\ offset <= size
    /\ AlignedOrEnd(offset, INTERNAL_FLASH_PAGE_SIZE, size)

(* Mutant: the last page's checkpoint is not clamped to the image.         *)
UnclampedCheckpoint(size, offset) == offset + INTERNAL_FLASH_PAGE_SIZE

InstallProgress_NextCheckpoint(size, offset) ==
    MinOf(offset + INTERNAL_FLASH_PAGE_SIZE, size)

BackupProgress_NextCheckpoint(offset) ==
    MinOf(offset + EXT_FLASH_SECTOR_SIZE, APPLICATION_MAX_SIZE)

(* A bare image is installed from Incoming, as its handoff record says.    *)
IsBareImage == ~incoming.magic /\ incoming.kind # "D13P"

FullRecordMatchesMetadata(m) ==
    /\ handoff.version # 0 /\ handoff.version = m.pending_version
    /\ handoff.artifact.total_size = m.expected_size
    /\ m.received_size = m.expected_size

(* LoadCandidateSource: the container is authenticated again and must be   *)
(* the one the boot record speaks of; of a D13P envelope only the header   *)
(* is looked at.                                                           *)
LoadCandidateSource(m) ==
    IF IsBareImage THEN AllowUnsignedLegacy /\ FullRecordMatchesMetadata(m)
    ELSE /\ IF incoming.magic THEN incoming.genuine ELSE AllowUnsignedLegacy
         /\ m.state # "ARTIFACT_READY"
         /\ m.pending_version = incoming.target
         /\ m.active_update_id # 0
         /\ m.received_size = ImageSize[incoming.target]
         /\ m.expected_size = ImageSize[incoming.target]
         /\ incoming.kind # "FULL" => m.active_version = incoming.base

(* CandidateSource_t: the image to install and what its partition holds.   *)
Candidate == IF IsBareImage THEN handoff.artifact.target ELSE incoming.target
CandidateHeld ==
    CASE ~IsBareImage -> rec
      [] IsBareImage /\ incoming = handoff.artifact -> incoming.target
      [] OTHER -> Partial

(* ValidateExternalSource: vectors and CRC of the candidate.               *)
ValidateExternalSource == CandidateHeld = Candidate

(* Mutant: only the vectors are looked at, not the CRC.                    *)
VerifyVectorsOnly == ApplicationValid

(* CalculateInternalCrc over the size of an image yields that image's CRC. *)
InternalCrcMatches(v) == ImageHeld(app, v)

VerifyInstalledApplication == InternalCrcMatches(Candidate) /\ ApplicationValid

(* Mutant: no comparison of the copy with the original.                    *)
BackupCrcNotCompared == TRUE

(* CalculateInternalCrc against CalculateBackupCrc, over the whole region. *)
BackupCrcMatches == bk = app

(* Mutant: the header names the version to come.                           *)
HeaderForPending(m) == [version |-> m.pending_version, image |-> bk]

(* BackupImage_Init: what the header of a complete backup records.         *)
BackupImage_Init(m) == [version |-> m.active_version, image |-> bk]

VerifyRolledBackApplication == app = bkHdr.image /\ ApplicationValid

InternalMayBeModified(m) == m.state \in {"INSTALLING", "VERIFYING_INSTALL"}

(* The records the routine commits.                                        *)
AtOffset(m, offset) == [m EXCEPT !.copy_offset = offset, !.last_error = "none"]
BackingUp(m) == [AtOffset(m, 0) EXCEPT !.state = "BACKING_UP", !.boot_attempts = 0]
Installing(m) == [AtOffset(m, 0) EXCEPT !.state = "INSTALLING"]
VerifyingInstall(m, size) == [AtOffset(m, size) EXCEPT !.state = "VERIFYING_INSTALL"]
TrialBoot(m) == [AtOffset(m, 0) EXCEPT !.state = "TRIAL_BOOT", !.boot_attempts = 0]
BeginRollback(m, diagnostic) ==
    [m EXCEPT !.state = "ROLLBACK", !.copy_offset = 0, !.last_error = diagnostic]
(* Mutant of RestoredTo: the diagnostic is cleared as by other checkpoints. *)
RestoredAndCleared(m, offset) == AtOffset(m, offset)

RestoredTo(m, offset) == [m EXCEPT !.copy_offset = offset]
MarkedFailed(m) == [m EXCEPT !.state = "FAILED", !.last_error = "installer"]

RollbackDiagnostic(m) ==
    CASE m.state = "ROLLBACK" -> m.last_error
      [] m.state # "ROLLBACK" /\ m.boot_attempts >= MAX_BOOT_ATTEMPTS -> "trial_limit"
      [] m.state = "TRIAL_BOOT" /\ m.boot_attempts < MAX_BOOT_ATTEMPTS -> "invalid_trial"
      [] OTHER -> "install"

At(label) == pc = label /\ UNCHANGED <<incoming, rec, world>>
Quiet == UNCHANGED <<faulted, launches, guarded>>

-----------------------------------------------------------------------------
(* Entry: both checks of the candidate, on every recovery boot.            *)
InstallStart ==
    /\ At("install")
    /\ LET accepted == LoadCandidateSource(w) /\ ValidateExternalSource
       IN  Goto(CASE ~accepted ->
                        IF InternalMayBeModified(w) THEN "installRollback" ELSE "revert"
                  [] accepted /\ w.state \in {"ARTIFACT_READY", "IMAGE_READY"} -> "invalidate"
                  [] accepted /\ w.state = "BACKING_UP" -> "backup"
                  [] accepted /\ InternalMayBeModified(w) -> "validateBackup")
    /\ UNCHANGED <<app, md, bk, bkHdr, records>> /\ Quiet

(* BeginBackup: the old backup is given up, then BACKING_UP is committed.  *)
BackupInvalidateHeader ==
    /\ At("invalidate")
    /\ bkHdr' = NoHeader
    /\ Goto("beginBackup")
    /\ UNCHANGED <<app, md, bk, records>> /\ Quiet

BeginBackup ==
    /\ pc = "beginBackup"
    /\ CommitStep(BackingUp(w), "backup", "markFailed")
    /\ UNCHANGED guarded

(* CopyActiveImageToBackupChunk: erase one sector, then write and verify.  *)
BackupEraseSector ==
    /\ At("backup")
    /\ w.copy_offset < APPLICATION_MAX_SIZE
    /\ bk' = [p \in Pages |-> IF p \in SectorPages(w.copy_offset) THEN Partial ELSE bk[p]]
    /\ Goto("backupWrite")
    /\ UNCHANGED <<app, md, bkHdr, records>> /\ Quiet

BackupWrite ==
    /\ At("backupWrite")
    /\ bk' = [p \in Pages |-> IF p \in SectorPages(w.copy_offset) THEN app[p] ELSE bk[p]]
    /\ Goto("backupCommit")
    /\ UNCHANGED <<app, md, bkHdr, records>> /\ Quiet

BackupCheckpoint ==
    /\ pc = "backupCommit"
    /\ CommitStep(AtOffset(w, BackupProgress_NextCheckpoint(w.copy_offset)),
                  "backup", "revert")
    /\ UNCHANGED guarded

(* Whole-image CRC comparison, then BackupImageStorage_CommitHeader.       *)
BackupSeal ==
    /\ At("backup")
    /\ w.copy_offset = APPLICATION_MAX_SIZE
    /\ IF BackupCrcMatches
         THEN bkHdr' = BackupImage_Init(w) /\ Goto("sealed")
         ELSE UNCHANGED bkHdr /\ Goto("revert")
    /\ UNCHANGED <<app, md, bk, records>> /\ Quiet

(* The commit of INSTALLING: from here on the backup is what protects the  *)
(* active image.                                                           *)
BackupComplete ==
    /\ pc = "sealed"
    /\ CommitStep(Installing(w), "validateBackup", "revert")
    /\ guarded' = (IF md'.state = "INSTALLING" THEN w.active_version ELSE guarded)

(* The backup must be valid before the active image is touched.            *)
InstallCheckBackup ==
    /\ At("validateBackup")
    /\ Goto(CASE ~BackupValid -> "markFailed"
              [] BackupValid /\ w.state = "VERIFYING_INSTALL" ->
                    IF VerifyInstalledApplication THEN "clear" ELSE "beginInstall"
              [] BackupValid /\ w.state # "VERIFYING_INSTALL" ->
                    IF InstallProgress_Validate(ImageSize[Candidate], w.copy_offset)
                      THEN "copy" ELSE "installRollback")
    /\ UNCHANGED <<app, md, bk, bkHdr, records>> /\ Quiet

BeginInstall ==
    /\ pc = "beginInstall"
    /\ CommitStep(Installing(w), "copy", "fatal")
    /\ UNCHANGED guarded

(* ProgramBufferedApplicationPage: erase the page, then program it; caught *)
(* in between, the page is blank or partly programmed.                     *)
InstallErasePage ==
    /\ At("copy")
    /\ w.copy_offset < ImageSize[Candidate]
    /\ \E x \in {Blank, Partial} : app' = [app EXCEPT ![PageOf(w.copy_offset)] = x]
    /\ Goto("program")
    /\ UNCHANGED <<md, bk, bkHdr, records>> /\ Quiet

InstallProgramPage ==
    /\ At("program")
    /\ app' = [app EXCEPT ![PageOf(w.copy_offset)] = CandidateHeld]
    /\ Goto("copyCommit")
    /\ UNCHANGED <<md, bk, bkHdr, records>> /\ Quiet

InstallCheckpoint ==
    /\ pc = "copyCommit"
    /\ CommitStep(AtOffset(w, InstallProgress_NextCheckpoint(
                                 ImageSize[Candidate], w.copy_offset)),
                  "copy", "fatal")
    /\ UNCHANGED guarded

TransitionToVerify ==
    /\ pc = "copy"
    /\ w.copy_offset = ImageSize[Candidate]
    /\ CommitStep(VerifyingInstall(w, ImageSize[Candidate]), "verify", "fatal")
    /\ UNCHANGED guarded

InstallVerify ==
    /\ At("verify")
    /\ Goto(IF VerifyInstalledApplication THEN "clear" ELSE "installRollback")
    /\ UNCHANGED <<app, md, bk, bkHdr, records>> /\ Quiet

(* TransitionToTrialBoot: the checkpoint must be gone before TRIAL_BOOT.   *)
TrialClearCheckpoint ==
    /\ At("clear")
    /\ \/ CheckpointStored(NoCheckpoint) /\ Goto("toTrial")
       \/ CheckpointFails(NoCheckpoint) /\ Goto("fatal")
    /\ UNCHANGED <<app, md, bk, bkHdr, launches, guarded>>

TransitionToTrialBoot ==
    /\ pc = "toTrial"
    /\ CommitAndReturn(TrialBoot(w))
    /\ launches' = 0 /\ UNCHANGED guarded

-----------------------------------------------------------------------------
(* RevertToActiveImage: as Reject in SecureContainer.                      *)
RevertClear ==
    /\ At("revert")
    /\ ClearBestEffort
    /\ Goto("revertCommit")
    /\ UNCHANGED <<app, md, bk, bkHdr, launches, guarded>>

RevertCommit ==
    /\ pc = "revertCommit"
    /\ CommitAndReturn(IdleFields(w, w.active_version, "installer"))
    /\ guarded' = (IF md'.state = "IDLE" THEN 0 ELSE guarded)
    /\ UNCHANGED launches

BestEffortMarkFailed ==
    /\ pc = "markFailed"
    /\ CommitStep(MarkedFailed(w), "fatal", "fatal")
    /\ UNCHANGED guarded

-----------------------------------------------------------------------------
(* RollbackAfterInstallFailure falls into ImageInstaller_ProcessRollback.  *)
RollbackAfterInstallFailure ==
    /\ pc = "installRollback"
    /\ CommitStep(BeginRollback(w, "install"), "rollback", "fatal")
    /\ UNCHANGED guarded

RollbackStart ==
    /\ At("rollback")
    /\ Goto(CASE ~BackupValid -> "markFailed"
              [] BackupValid /\ w.state # "ROLLBACK" -> "beginRollback"
              [] BackupValid /\ w.state = "ROLLBACK" ->
                    IF InstallProgress_Validate(APPLICATION_MAX_SIZE, w.copy_offset)
                      THEN "restore" ELSE "markFailed")
    /\ UNCHANGED <<app, md, bk, bkHdr, records>> /\ Quiet

RollbackBegin ==
    /\ pc = "beginRollback"
    /\ CommitStep(BeginRollback(w, RollbackDiagnostic(w)), "restore", "fatal")
    /\ UNCHANGED guarded

RollbackErasePage ==
    /\ At("restore")
    /\ w.copy_offset < APPLICATION_MAX_SIZE
    /\ \E x \in {Blank, Partial} : app' = [app EXCEPT ![PageOf(w.copy_offset)] = x]
    /\ Goto("reprogram")
    /\ UNCHANGED <<md, bk, bkHdr, records>> /\ Quiet

(* What the page buffer holds when a page is restored.                     *)
LoadBackupPage(offset) == bk[PageOf(offset)]

RollbackProgramPage ==
    /\ At("reprogram")
    /\ app' = [app EXCEPT ![PageOf(w.copy_offset)] = LoadBackupPage(w.copy_offset)]
    /\ Goto("restoreCommit")
    /\ UNCHANGED <<md, bk, bkHdr, records>> /\ Quiet

RollbackCheckpoint ==
    /\ pc = "restoreCommit"
    /\ CommitStep(RestoredTo(w, InstallProgress_NextCheckpoint(
                                   APPLICATION_MAX_SIZE, w.copy_offset)),
                  "restore", "markFailed")
    /\ UNCHANGED guarded

RollbackVerify ==
    /\ At("restore")
    /\ w.copy_offset = APPLICATION_MAX_SIZE
    /\ Goto(IF VerifyRolledBackApplication THEN "restored" ELSE "markFailed")
    /\ UNCHANGED <<app, md, bk, bkHdr, records>> /\ Quiet

(* FinalizeRollback                                                        *)
RollbackClear ==
    /\ At("restored")
    /\ ClearBestEffort
    /\ Goto("finalize")
    /\ UNCHANGED <<app, md, bk, bkHdr, launches, guarded>>

FinalizeRollback ==
    /\ pc = "finalize"
    /\ CommitAndReturn(IdleFields(w, bkHdr.version, RollbackDiagnostic(w)))
    /\ guarded' = (IF md'.state = "IDLE" THEN 0 ELSE guarded)
    /\ UNCHANGED launches

-----------------------------------------------------------------------------
(* Where the routine goes when a flash operation fails.  Reading the       *)
(* candidate, the backup or the checkpoint goes through the external       *)
(* flash; pages are erased and programmed in the internal flash.           *)
InstallFaultTarget(label, m) ==
    CASE label = "install" ->
            {"fatal", IF InternalMayBeModified(m) THEN "installRollback" ELSE "revert"}
      [] label \in {"invalidate", "validateBackup", "reprogram"} -> {"markFailed"}
      [] label \in {"backup", "backupWrite"} -> {"revert"}
      [] label = "restore" /\ m.copy_offset < APPLICATION_MAX_SIZE -> {"markFailed"}
      [] label = "copy" /\ m.copy_offset < m.expected_size -> {"installRollback"}
      [] label = "program" -> {"installRollback"}
      [] label = "rollback" -> {"fatal", "markFailed"}
      [] OTHER -> {}

(* While its sector is rewritten the header may be lost, or be complete    *)
(* and only its read-back fail.                                            *)
HeadersAfterFault ==
    CASE pc = "invalidate" -> {bkHdr, NoHeader}
      [] pc = "backup" /\ w.copy_offset = APPLICATION_MAX_SIZE ->
            {bkHdr, NoHeader} \cup (IF BackupCrcMatches THEN {BackupImage_Init(w)} ELSE {})
      [] OTHER -> {bkHdr}

InstallFault ==
    /\ At(pc)
    /\ \E target \in InstallFaultTarget(pc, w) : Goto(target)
    /\ bkHdr' \in HeadersAfterFault
    /\ Fault
    /\ UNCHANGED <<app, md, bk, records, launches, guarded>>

(* A page that read back correctly loses bits before the copy it belongs   *)
(* to is verified as a whole: the fault that the comparison of CRCs at the *)
(* end of ResumeBackup, VerifyInstalledApplication and                     *)
(* VerifyRolledBackApplication are there for.                              *)
PageDecays ==
    /\ pc \in {"reset", "backup", "copy", "verify", "restore"}
    /\ \E p \in Pages :
          /\ p * INTERNAL_FLASH_PAGE_SIZE < md.copy_offset
          /\ \/ /\ md.state \in {"INSTALLING", "VERIFYING_INSTALL", "ROLLBACK"}
                /\ app' = [app EXCEPT ![p] = Partial]
                /\ UNCHANGED bk
             \/ /\ md.state = "BACKING_UP"
                /\ bk' = [bk EXCEPT ![p] = Partial]
                /\ UNCHANGED app
    /\ Fault
    /\ UNCHANGED <<md, bkHdr, incoming, rec, records, ram, world, launches, guarded>>

(* The artifact loses bits after the application has accepted it, or while *)
(* its image is being installed: why every boot authenticates it again.    *)
ArtifactDecays ==
    /\ pc = "reset"
    /\ md.state \in {"ARTIFACT_READY", "INSTALLING"}
    /\ incoming.genuine
    /\ incoming' = [incoming EXCEPT !.genuine = FALSE]
    /\ Fault
    /\ UNCHANGED <<app, md, bk, bkHdr, rec, records, ram, world, launches, guarded>>

InstallStep ==
    \/ InstallStart
    \/ BackupInvalidateHeader
    \/ BeginBackup
    \/ BackupEraseSector
    \/ BackupWrite
    \/ BackupCheckpoint
    \/ BackupSeal
    \/ BackupComplete
    \/ InstallCheckBackup
    \/ BeginInstall
    \/ InstallErasePage
    \/ InstallProgramPage
    \/ InstallCheckpoint
    \/ TransitionToVerify
    \/ InstallVerify
    \/ TrialClearCheckpoint
    \/ TransitionToTrialBoot
    \/ RevertClear
    \/ RevertCommit
    \/ BestEffortMarkFailed
    \/ RollbackAfterInstallFailure
    \/ RollbackStart
    \/ RollbackBegin
    \/ RollbackErasePage
    \/ RollbackProgramPage
    \/ RollbackCheckpoint
    \/ RollbackVerify
    \/ RollbackClear
    \/ FinalizeRollback
    \/ InstallFault

=============================================================================
