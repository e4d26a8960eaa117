-------------------------- MODULE BootManagerProofs --------------------------
(***************************************************************************)
(* The node's safety, for every set of versions and offers and for every   *)
(* size of images, pages and sectors, with hosts that follow the plan of   *)
(* uart_ota_plan.c (HostFollowsPlan).                                      *)
(*                                                                         *)
(* NodeInv is inductive: the types, and nine parts that tie the label of   *)
(* the running program to the boot record, the flash and the transfer.     *)
(* The proof goes component by component: first the types (XTypes), then   *)
(* the nine parts and what the component does to the boot record (XKeeps). *)
(* The safety properties follow, and so does the refinement of             *)
(* UpdateContract.                                                         *)
(*                                                                         *)
(* That power loss alone does no harm needs more: PowerInv, inductive      *)
(* relative to NodeInv, says which routine meets which kind of artifact,   *)
(* that sizes agree, and what holds while no I/O has failed.               *)
(***************************************************************************)
EXTENDS BootManager, TLAPS

(* The states of an update, as the invariant groups them, and the labels   *)
(* at which the application is running.                                    *)
Container == {"ARTIFACT_READY", "VERIFYING_CONTAINER", "VERIFYING_BASE", "PATCHING"}
Requested == Container \cup {"IMAGE_READY", "BACKING_UP"}
Replacing == {"INSTALLING", "VERIFYING_INSTALL"}
Application == {"app", "persist", "request"}

(* At which label the boot record may be in which state: what each routine *)
(* of the bootloader may take for granted when it is called.               *)
StatesAt ==
    /\ md.state # "RECEIVING"
    /\ pc \in {"isIncoming", "secure", "transition", "reject", "rejectCommit", "delta",
               "deltaStep", "deltaReject", "deltaRejectCommit"} => md.state \in Container
    /\ pc \in {"rebuild", "verifyRec", "imageReady", "deltaApply", "deltaVerify", "deltaReady"}
          => md.state = "PATCHING"
    /\ pc = "install" =>
          md.state \in {"ARTIFACT_READY", "IMAGE_READY", "BACKING_UP"} \cup Replacing
    /\ pc \in {"invalidate", "beginBackup"} => md.state \in {"ARTIFACT_READY", "IMAGE_READY"}
    /\ pc \in {"backup", "backupWrite", "backupCommit", "sealed"} => md.state = "BACKING_UP"
    /\ pc \in {"validateBackup", "installRollback"} => md.state \in Replacing
    /\ pc \in {"beginInstall", "verify", "clear", "toTrial"} => md.state = "VERIFYING_INSTALL"
    /\ pc \in {"copy", "program", "copyCommit"} => md.state = "INSTALLING"
    /\ pc \in {"prepare", "jumpTrial"} => md.state = "TRIAL_BOOT"
    /\ pc = "prepare" => md.boot_attempts < MAX_BOOT_ATTEMPTS
    /\ pc = "confirmed" => md.state = "CONFIRMED"
    /\ pc = "beginRollback" => md.state = "TRIAL_BOOT"
    /\ pc = "rollback" => md.state \in {"TRIAL_BOOT", "ROLLBACK"}
    /\ pc \in {"restore", "reprogram", "restoreCommit", "restored", "finalize"}
          => md.state = "ROLLBACK"
    /\ pc = "jump" => md.state = "IDLE"
    /\ pc \in Application =>
          md.state \in IF trial THEN {"TRIAL_BOOT", "CONFIRMED"} ELSE {"IDLE", "ARTIFACT_READY"}
    /\ pc \in {"revert", "revertCommit"} => md.state \in Requested \cup {"INSTALLING"}
    /\ pc = "markFailed" =>
          md.state \in Requested \cup Replacing \cup {"TRIAL_BOOT", "ROLLBACK"}
    /\ pc \in {"beginRollback", "rollback", "markFailed"} /\ md.state = "TRIAL_BOOT"
          => md.boot_attempts = MAX_BOOT_ATTEMPTS

(* The working copy is the record, except after a commit that failed.      *)
WorkingCopy ==
    /\ pc \notin {"revert", "revertCommit", "markFailed", "fatal"} => w = md
    /\ pc # "fatal" => w.active_version = md.active_version
                       /\ w.pending_version = md.pending_version
    /\ trial => pc \in Application

(* Turns of the BootManager_Run loop that a boot may have made before the  *)
(* record is in this state: every turn that does not end the boot moves    *)
(* the record on.  The application starts from none.                       *)
Rank(state) ==
    CASE state \in Container -> 0
      [] state \in {"IMAGE_READY", "BACKING_UP"} \cup Replacing -> 1
      [] state \in {"TRIAL_BOOT", "CONFIRMED", "ROLLBACK"} -> 2
      [] OTHER -> 3

PassBound == passes <= Rank(md.state) /\ (pc \in Application => passes = 0)

(* The backup from its seal to its release, and while it is being sealed.  *)
(* RevertToActiveImage may run with INSTALLING in force, before anything   *)
(* was installed.                                                          *)
Backups ==
    /\ BackupRetained
    /\ guarded # 0 => md.state \in Replacing \cup {"TRIAL_BOOT", "ROLLBACK", "FAILED"}
    /\ pc = "sealed" => bk = app /\ bkHdr = [version |-> md.active_version, image |-> bk]
    /\ pc \in {"revert", "revertCommit"} => ImageHeld(app, md.active_version)

(* What the checks have established of the candidate at each later label.  *)
Candidates ==
    /\ md.state = "IMAGE_READY" => rec = incoming.target
    /\ pc \in {"imageReady", "deltaReady"} => rec = incoming.target
    /\ pc \in {"invalidate", "beginBackup", "backup", "backupWrite", "backupCommit", "sealed",
               "validateBackup", "beginInstall", "copy", "program", "copyCommit", "verify",
               "clear", "toTrial"} => Candidate = md.pending_version
    /\ pc \in {"clear", "toTrial"} => ImageHeld(app, md.pending_version)
    /\ pc \in {"restored", "finalize"} => app = bkHdr.image

(* Only newer versions are on their way, and no checkpoint survives into a *)
(* trial: it would hide the trial from OtaReceiver_Init.                   *)
Newer ==
    /\ md.state \in Requested \cup Replacing \cup {"TRIAL_BOOT", "CONFIRMED"}
          => md.pending_version > md.active_version
    /\ ckpt.state # "IDLE" => ckpt.version > md.active_version
    /\ pc \in Application /\ session.state \in {"RECEIVING", "ARTIFACT_READY"}
          => session.version > md.active_version
    /\ md.state \in {"TRIAL_BOOT", "CONFIRMED"} \/ pc = "toTrial" => ckpt.state = "IDLE"

(* A bare image is the one whose version was announced; the artifact that  *)
(* lies in Incoming has the form of the one announced.                     *)
Named(v, a) == AllowUnsignedLegacy /\ ~a.magic /\ a.kind # "D13P" => a.target = v
SameForm(a, b) == a.magic = b.magic /\ a.kind = b.kind

(* The records of a transfer, from START to the handoff.                   *)
Transfers ==
    /\ trial => session.state \in {"TRIAL_BOOT", "NO_STORAGE"}
    /\ ckpt.state # "IDLE" => Named(ckpt.version, ckpt.artifact)
    /\ ckpt.state = "ARTIFACT_READY" => SameForm(incoming, ckpt.artifact)
    /\ pc \in Application /\ session.state \in {"RECEIVING", "ARTIFACT_READY"}
          => Named(session.version, session.artifact)
    /\ pc \in {"persist", "request"} => session.state = "ARTIFACT_READY"
    /\ pc = "persist"
          => AllowUnsignedLegacy /\ ~session.artifact.magic /\ session.artifact.kind = "FULL"
    /\ pc \in Application /\ session.state = "ARTIFACT_READY"
          => SameForm(incoming, session.artifact)
    /\ pc \in Application /\ session.state = "RECEIVING" /\ ~session.received
          => ckpt.state # "ARTIFACT_READY"
    /\ handoff.version # 0 => handoff.artifact.target = handoff.version

(* An attempt is counted before the image is started.                      *)
Starts ==
    /\ md.state = "TRIAL_BOOT" => launches <= md.boot_attempts
    /\ pc = "jumpTrial" => launches < md.boot_attempts

(* The inductive invariant.                                                *)
Consistent ==
    /\ StatesAt /\ WorkingCopy /\ PassBound
    /\ NoImageLoss /\ Backups /\ Candidates /\ Newer /\ Transfers /\ Starts

NodeInv == TypeOK /\ Consistent

(* Two records that name the same versions.                                *)
SameVersions(m, n) ==
    m.active_version = n.active_version /\ m.pending_version = n.pending_version

USE SizesAssumption, VersionsAssumption, OffersAssumption

-----------------------------------------------------------------------------
(* The records the routines commit are boot records, field by field.       *)

(* Transition() of SecureContainer: the state changes, the versions do not. *)
LEMMA TransitionRecord ==
    ASSUME NEW m \in MetadataType, NEW s \in UpdateState
    PROVE  /\ Transition(m, s) \in MetadataType
           /\ Transition(m, s).state = s
           /\ SameVersions(Transition(m, s), m)
<1> DEFINE m0 == m
           m1 == [m0 EXCEPT !.state = s]
           m2 == [m1 EXCEPT !.copy_offset = 0]
           m3 == [m2 EXCEPT !.boot_attempts = 0]
           m4 == [m3 EXCEPT !.last_error = "none"]
<1>0. m0 \in MetadataType
  BY DEF m0
<1> HIDE DEF m0
<1>1. m1 \in MetadataType
  BY <1>0 DEF m1, MetadataType, UpdateState
<1> HIDE DEF m1
<1>2. m2 \in MetadataType
  BY <1>1 DEF m2, MetadataType
<1> HIDE DEF m2
<1>3. m3 \in MetadataType
  BY <1>2 DEF m3, MetadataType
<1> HIDE DEF m3
<1>4. m4 \in MetadataType
  BY <1>3 DEF m4, MetadataType, Diagnostics
<1>5. Transition(m, s) = m4
  BY DEF Transition, m0, m1, m2, m3, m4
<1>6. /\ Transition(m, s).state = s
      /\ SameVersions(Transition(m, s), m)
  BY DEF Transition, SameVersions, MetadataType
<1> QED BY <1>4, <1>5, <1>6

(* The record of a verified image.                                          *)
LEMMA ImageReadyRecord ==
    ASSUME NEW m \in MetadataType, NEW n \in 0..APPLICATION_MAX_SIZE
    PROVE  /\ ImageReady(m, n) \in MetadataType
           /\ ImageReady(m, n).state = "IMAGE_READY"
           /\ SameVersions(ImageReady(m, n), m)
<1> DEFINE m0 == Transition(m, "IMAGE_READY")
           m1 == [m0 EXCEPT !.received_size = n]
           m2 == [m1 EXCEPT !.expected_size = n]
<1>0. m0 \in MetadataType
  BY TransitionRecord DEF UpdateState
<1> HIDE DEF m0
<1>1. m1 \in MetadataType
  BY <1>0 DEF m1, MetadataType, Artifact
<1> HIDE DEF m1
<1>2. m2 \in MetadataType
  BY <1>1 DEF m2, MetadataType, Artifact
<1>3. ImageReady(m, n) = m2
  BY DEF ImageReady, m0, m1, m2
<1>4. /\ ImageReady(m, n).state = "IMAGE_READY"
      /\ SameVersions(ImageReady(m, n), m)
  BY DEF ImageReady, Transition, SameVersions, MetadataType
<1> QED BY <1>2, <1>3, <1>4

(* Back to IDLE.                                                            *)
LEMMA IdleFieldsRecord ==
    ASSUME NEW m \in MetadataType, NEW v \in Versions, NEW e \in Diagnostics
    PROVE  /\ IdleFields(m, v, e) \in MetadataType
           /\ IdleFields(m, v, e).state = "IDLE"
           /\ IdleFields(m, v, e).active_version = v
           /\ IdleFields(m, v, e).pending_version = 0
<1> DEFINE m0 == m
           m1 == [m0 EXCEPT !.state = "IDLE"]
           m2 == [m1 EXCEPT !.active_version = v]
           m3 == [m2 EXCEPT !.pending_version = 0]
           m4 == [m3 EXCEPT !.active_update_id = 0]
           m5 == [m4 EXCEPT !.received_size = 0]
           m6 == [m5 EXCEPT !.expected_size = 0]
           m7 == [m6 EXCEPT !.copy_offset = 0]
           m8 == [m7 EXCEPT !.boot_attempts = 0]
           m9 == [m8 EXCEPT !.last_error = e]
<1>0. m0 \in MetadataType
  BY DEF m0
<1> HIDE DEF m0
<1>1. m1 \in MetadataType
  BY <1>0 DEF m1, MetadataType, UpdateState
<1> HIDE DEF m1
<1>2. m2 \in MetadataType
  BY <1>1 DEF m2, MetadataType
<1> HIDE DEF m2
<1>3. m3 \in MetadataType
  BY <1>2 DEF m3, MetadataType
<1> HIDE DEF m3
<1>4. m4 \in MetadataType
  BY <1>3 DEF m4, MetadataType
<1> HIDE DEF m4
<1>5. m5 \in MetadataType
  BY <1>4 DEF m5, MetadataType, Artifact
<1> HIDE DEF m5
<1>6. m6 \in MetadataType
  BY <1>5 DEF m6, MetadataType, Artifact
<1> HIDE DEF m6
<1>7. m7 \in MetadataType
  BY <1>6 DEF m7, MetadataType
<1> HIDE DEF m7
<1>8. m8 \in MetadataType
  BY <1>7 DEF m8, MetadataType
<1> HIDE DEF m8
<1>9. m9 \in MetadataType
  BY <1>8 DEF m9, MetadataType, Diagnostics
<1>10. IdleFields(m, v, e) = m9
  BY DEF IdleFields, m0, m1, m2, m3, m4, m5, m6, m7, m8, m9
<1>11. /\ IdleFields(m, v, e).state = "IDLE"
      /\ IdleFields(m, v, e).active_version = v
      /\ IdleFields(m, v, e).pending_version = 0
  BY DEF IdleFields, SameVersions, MetadataType
<1> QED BY <1>9, <1>10, <1>11

(* A checkpoint of the backup or the installation.                          *)
LEMMA AtOffsetRecord ==
    ASSUME NEW m \in MetadataType, NEW n \in 0..APPLICATION_MAX_SIZE
    PROVE  /\ AtOffset(m, n) \in MetadataType
           /\ AtOffset(m, n).state = m.state
           /\ AtOffset(m, n).boot_attempts = m.boot_attempts
           /\ SameVersions(AtOffset(m, n), m)
<1> DEFINE m0 == m
           m1 == [m0 EXCEPT !.copy_offset = n]
           m2 == [m1 EXCEPT !.last_error = "none"]
<1>0. m0 \in MetadataType
  BY DEF m0
<1> HIDE DEF m0
<1>1. m1 \in MetadataType
  BY <1>0 DEF m1, MetadataType
<1> HIDE DEF m1
<1>2. m2 \in MetadataType
  BY <1>1 DEF m2, MetadataType, Diagnostics
<1>3. AtOffset(m, n) = m2
  BY DEF AtOffset, m0, m1, m2
<1>4. /\ AtOffset(m, n).state = m.state
      /\ AtOffset(m, n).boot_attempts = m.boot_attempts
      /\ SameVersions(AtOffset(m, n), m)
  BY DEF AtOffset, SameVersions, MetadataType
<1> QED BY <1>2, <1>3, <1>4

(* The backup begins.                                                       *)
LEMMA BackingUpRecord ==
    ASSUME NEW m \in MetadataType
    PROVE  /\ BackingUp(m) \in MetadataType
           /\ BackingUp(m).state = "BACKING_UP"
           /\ SameVersions(BackingUp(m), m)
<1> DEFINE m0 == AtOffset(m, 0)
           m1 == [m0 EXCEPT !.state = "BACKING_UP"]
           m2 == [m1 EXCEPT !.boot_attempts = 0]
<1>0. m0 \in MetadataType
  BY AtOffsetRecord DEF UpdateState
<1> HIDE DEF m0
<1>1. m1 \in MetadataType
  BY <1>0 DEF m1, MetadataType, UpdateState
<1> HIDE DEF m1
<1>2. m2 \in MetadataType
  BY <1>1 DEF m2, MetadataType
<1>3. BackingUp(m) = m2
  BY DEF BackingUp, m0, m1, m2
<1>4. /\ BackingUp(m).state = "BACKING_UP"
      /\ SameVersions(BackingUp(m), m)
  BY DEF BackingUp, AtOffset, SameVersions, MetadataType
<1> QED BY <1>2, <1>3, <1>4

(* The installation begins.                                                 *)
LEMMA InstallingRecord ==
    ASSUME NEW m \in MetadataType
    PROVE  /\ Installing(m) \in MetadataType
           /\ Installing(m).state = "INSTALLING"
           /\ SameVersions(Installing(m), m)
<1> DEFINE m0 == AtOffset(m, 0)
           m1 == [m0 EXCEPT !.state = "INSTALLING"]
<1>0. m0 \in MetadataType
  BY AtOffsetRecord DEF UpdateState
<1> HIDE DEF m0
<1>1. m1 \in MetadataType
  BY <1>0 DEF m1, MetadataType, UpdateState
<1>2. Installing(m) = m1
  BY DEF Installing, m0, m1
<1>3. /\ Installing(m).state = "INSTALLING"
      /\ SameVersions(Installing(m), m)
  BY DEF Installing, AtOffset, SameVersions, MetadataType
<1> QED BY <1>1, <1>2, <1>3

(* The installation is complete.                                            *)
LEMMA VerifyingInstallRecord ==
    ASSUME NEW m \in MetadataType, NEW n \in 0..APPLICATION_MAX_SIZE
    PROVE  /\ VerifyingInstall(m, n) \in MetadataType
           /\ VerifyingInstall(m, n).state = "VERIFYING_INSTALL"
           /\ SameVersions(VerifyingInstall(m, n), m)
<1> DEFINE m0 == AtOffset(m, n)
           m1 == [m0 EXCEPT !.state = "VERIFYING_INSTALL"]
<1>0. m0 \in MetadataType
  BY AtOffsetRecord DEF UpdateState
<1> HIDE DEF m0
<1>1. m1 \in MetadataType
  BY <1>0 DEF m1, MetadataType, UpdateState
<1>2. VerifyingInstall(m, n) = m1
  BY DEF VerifyingInstall, m0, m1
<1>3. /\ VerifyingInstall(m, n).state = "VERIFYING_INSTALL"
      /\ SameVersions(VerifyingInstall(m, n), m)
  BY DEF VerifyingInstall, AtOffset, SameVersions, MetadataType
<1> QED BY <1>1, <1>2, <1>3

(* The trial begins, with all its attempts.                                 *)
LEMMA TrialBootRecord ==
    ASSUME NEW m \in MetadataType
    PROVE  /\ TrialBoot(m) \in MetadataType
           /\ TrialBoot(m).state = "TRIAL_BOOT"
           /\ TrialBoot(m).boot_attempts = 0
           /\ SameVersions(TrialBoot(m), m)
<1> DEFINE m0 == AtOffset(m, 0)
           m1 == [m0 EXCEPT !.state = "TRIAL_BOOT"]
           m2 == [m1 EXCEPT !.boot_attempts = 0]
<1>0. m0 \in MetadataType
  BY AtOffsetRecord DEF UpdateState
<1> HIDE DEF m0
<1>1. m1 \in MetadataType
  BY <1>0 DEF m1, MetadataType, UpdateState
<1> HIDE DEF m1
<1>2. m2 \in MetadataType
  BY <1>1 DEF m2, MetadataType
<1>3. TrialBoot(m) = m2
  BY DEF TrialBoot, m0, m1, m2
<1>4. /\ TrialBoot(m).state = "TRIAL_BOOT"
      /\ TrialBoot(m).boot_attempts = 0
      /\ SameVersions(TrialBoot(m), m)
  BY DEF TrialBoot, AtOffset, SameVersions, MetadataType
<1> QED BY <1>2, <1>3, <1>4

(* The rollback begins.                                                     *)
LEMMA BeginRollbackRecord ==
    ASSUME NEW m \in MetadataType, NEW e \in Diagnostics
    PROVE  /\ BeginRollback(m, e) \in MetadataType
           /\ BeginRollback(m, e).state = "ROLLBACK"
           /\ SameVersions(BeginRollback(m, e), m)
<1> DEFINE m0 == m
           m1 == [m0 EXCEPT !.state = "ROLLBACK"]
           m2 == [m1 EXCEPT !.copy_offset = 0]
           m3 == [m2 EXCEPT !.last_error = e]
<1>0. m0 \in MetadataType
  BY DEF m0
<1> HIDE DEF m0
<1>1. m1 \in MetadataType
  BY <1>0 DEF m1, MetadataType, UpdateState
<1> HIDE DEF m1
<1>2. m2 \in MetadataType
  BY <1>1 DEF m2, MetadataType
<1> HIDE DEF m2
<1>3. m3 \in MetadataType
  BY <1>2 DEF m3, MetadataType, Diagnostics
<1>4. BeginRollback(m, e) = m3
  BY DEF BeginRollback, m0, m1, m2, m3
<1>5. /\ BeginRollback(m, e).state = "ROLLBACK"
      /\ SameVersions(BeginRollback(m, e), m)
  BY DEF BeginRollback, SameVersions, MetadataType
<1> QED BY <1>3, <1>4, <1>5

(* A checkpoint of the restoration keeps the diagnostic.                    *)
LEMMA RestoredToRecord ==
    ASSUME NEW m \in MetadataType, NEW n \in 0..APPLICATION_MAX_SIZE
    PROVE  /\ RestoredTo(m, n) \in MetadataType
           /\ RestoredTo(m, n).state = m.state
           /\ RestoredTo(m, n).last_error = m.last_error
           /\ SameVersions(RestoredTo(m, n), m)
<1> DEFINE m0 == m
           m1 == [m0 EXCEPT !.copy_offset = n]
<1>0. m0 \in MetadataType
  BY DEF m0
<1> HIDE DEF m0
<1>1. m1 \in MetadataType
  BY <1>0 DEF m1, MetadataType
<1>2. RestoredTo(m, n) = m1
  BY DEF RestoredTo, m0, m1
<1>3. /\ RestoredTo(m, n).state = m.state
      /\ RestoredTo(m, n).last_error = m.last_error
      /\ SameVersions(RestoredTo(m, n), m)
  BY DEF RestoredTo, SameVersions, MetadataType
<1> QED BY <1>1, <1>2, <1>3

(* The node gives up.                                                       *)
LEMMA MarkedFailedRecord ==
    ASSUME NEW m \in MetadataType
    PROVE  /\ MarkedFailed(m) \in MetadataType
           /\ MarkedFailed(m).state = "FAILED"
           /\ SameVersions(MarkedFailed(m), m)
<1> DEFINE m0 == m
           m1 == [m0 EXCEPT !.state = "FAILED"]
           m2 == [m1 EXCEPT !.last_error = "installer"]
<1>0. m0 \in MetadataType
  BY DEF m0
<1> HIDE DEF m0
<1>1. m1 \in MetadataType
  BY <1>0 DEF m1, MetadataType, UpdateState
<1> HIDE DEF m1
<1>2. m2 \in MetadataType
  BY <1>1 DEF m2, MetadataType, Diagnostics
<1>3. MarkedFailed(m) = m2
  BY DEF MarkedFailed, m0, m1, m2
<1>4. /\ MarkedFailed(m).state = "FAILED"
      /\ SameVersions(MarkedFailed(m), m)
  BY DEF MarkedFailed, SameVersions, MetadataType
<1> QED BY <1>2, <1>3, <1>4

(* An attempt is counted.                                                   *)
LEMMA PreparedAttemptRecord ==
    ASSUME NEW m \in MetadataType, m.boot_attempts < MAX_BOOT_ATTEMPTS
    PROVE  /\ PreparedAttempt(m) \in MetadataType
           /\ PreparedAttempt(m).state = m.state
           /\ PreparedAttempt(m).boot_attempts = m.boot_attempts + 1
           /\ SameVersions(PreparedAttempt(m), m)
<1> DEFINE m0 == m
           m1 == [m0 EXCEPT !.boot_attempts = m.boot_attempts + 1]
           m2 == [m1 EXCEPT !.last_error = "none"]
<1>0. m0 \in MetadataType
  BY DEF m0
<1> HIDE DEF m0
<1>1. m1 \in MetadataType
  BY <1>0 DEF m1, MetadataType
<1> HIDE DEF m1
<1>2. m2 \in MetadataType
  BY <1>1 DEF m2, MetadataType, Diagnostics
<1>3. PreparedAttempt(m) = m2
  BY DEF PreparedAttempt, m0, m1, m2
<1>4. /\ PreparedAttempt(m).state = m.state
      /\ PreparedAttempt(m).boot_attempts = m.boot_attempts + 1
      /\ SameVersions(PreparedAttempt(m), m)
  BY DEF PreparedAttempt, SameVersions, MetadataType
<1> QED BY <1>2, <1>3, <1>4

(* The request of the application.                                          *)
LEMMA InstallRequestRecord ==
    ASSUME NEW m \in MetadataType, NEW s, s.version \in Versions, s.artifact \in Artifact
    PROVE  /\ InstallRequest(m, s) \in MetadataType
           /\ InstallRequest(m, s).state = "ARTIFACT_READY"
           /\ InstallRequest(m, s).active_version = m.active_version
           /\ InstallRequest(m, s).pending_version = s.version
<1> DEFINE m0 == m
           m1 == [m0 EXCEPT !.state = "ARTIFACT_READY"]
           m2 == [m1 EXCEPT !.pending_version = s.version]
           m3 == [m2 EXCEPT !.active_update_id = 1]
           m4 == [m3 EXCEPT !.received_size = s.artifact.total_size]
           m5 == [m4 EXCEPT !.expected_size = s.artifact.total_size]
           m6 == [m5 EXCEPT !.copy_offset = 0]
           m7 == [m6 EXCEPT !.boot_attempts = 0]
           m8 == [m7 EXCEPT !.last_error = "none"]
<1>0. m0 \in MetadataType
  BY DEF m0
<1> HIDE DEF m0
<1>1. m1 \in MetadataType
  BY <1>0 DEF m1, MetadataType, UpdateState
<1> HIDE DEF m1
<1>2. m2 \in MetadataType
  BY <1>1 DEF m2, MetadataType
<1> HIDE DEF m2
<1>3. m3 \in MetadataType
  BY <1>2 DEF m3, MetadataType
<1> HIDE DEF m3
<1>4. m4 \in MetadataType
  BY <1>3 DEF m4, MetadataType, Artifact
<1> HIDE DEF m4
<1>5. m5 \in MetadataType
  BY <1>4 DEF m5, MetadataType, Artifact
<1> HIDE DEF m5
<1>6. m6 \in MetadataType
  BY <1>5 DEF m6, MetadataType
<1> HIDE DEF m6
<1>7. m7 \in MetadataType
  BY <1>6 DEF m7, MetadataType
<1> HIDE DEF m7
<1>8. m8 \in MetadataType
  BY <1>7 DEF m8, MetadataType, Diagnostics
<1>9. InstallRequest(m, s) = m8
  BY DEF InstallRequest, m0, m1, m2, m3, m4, m5, m6, m7, m8
<1>10. /\ InstallRequest(m, s).state = "ARTIFACT_READY"
      /\ InstallRequest(m, s).active_version = m.active_version
      /\ InstallRequest(m, s).pending_version = s.version
  BY DEF InstallRequest, SameVersions, MetadataType
<1> QED BY <1>8, <1>9, <1>10

(* The confirmation of the application.                                     *)
LEMMA ConfirmedRecord ==
    ASSUME NEW m \in MetadataType
    PROVE  /\ Confirmed(m) \in MetadataType
           /\ Confirmed(m).state = "CONFIRMED"
           /\ SameVersions(Confirmed(m), m)
<1> DEFINE m0 == m
           m1 == [m0 EXCEPT !.state = "CONFIRMED"]
           m2 == [m1 EXCEPT !.copy_offset = 0]
           m3 == [m2 EXCEPT !.last_error = "none"]
<1>0. m0 \in MetadataType
  BY DEF m0
<1> HIDE DEF m0
<1>1. m1 \in MetadataType
  BY <1>0 DEF m1, MetadataType, UpdateState
<1> HIDE DEF m1
<1>2. m2 \in MetadataType
  BY <1>1 DEF m2, MetadataType
<1> HIDE DEF m2
<1>3. m3 \in MetadataType
  BY <1>2 DEF m3, MetadataType, Diagnostics
<1>4. Confirmed(m) = m3
  BY DEF Confirmed, m0, m1, m2, m3
<1>5. /\ Confirmed(m).state = "CONFIRMED"
      /\ SameVersions(Confirmed(m), m)
  BY DEF Confirmed, SameVersions, MetadataType
<1> QED BY <1>3, <1>4, <1>5

-----------------------------------------------------------------------------
(* Facts about the constants and the types.                                *)

(* The diagnostic a rollback ends with is the one it began with.           *)
LEMMA RD == ASSUME NEW m \in MetadataType PROVE 
           /\ RollbackDiagnostic(m) \in Diagnostics
           /\ m.state = "ROLLBACK" => RollbackDiagnostic(m) = m.last_error
BY DEF RollbackDiagnostic, MetadataType, Diagnostics

(* The values of empty storage have their types.                           *)
LEMMA Constants ==
    /\ Junk \in Artifact /\ NoCheckpoint \in DownloadCheckpoint /\ NoHandoff \in Handoff
    /\ NoHeader \in BackupHeader /\ NoSession \in Session
    /\ [NoSession EXCEPT !.state = "IDLE"] \in Session
    /\ StorageLost \in Session
<1>1. Junk \in Artifact
  <2>1. 1 \in 1..EXT_INCOMING_SIZE OBVIOUS
  <2> QED BY <2>1 DEF Junk, Artifact
<1> HIDE DEF Junk
<1> USE DEF UpdateState
<1>2. NoCheckpoint \in DownloadCheckpoint BY <1>1 DEF NoCheckpoint, DownloadCheckpoint
<1>3. NoHandoff \in Handoff BY <1>1 DEF NoHandoff, Handoff
<1>4. NoHeader \in BackupHeader BY <1>1 DEF NoHeader, BackupHeader, Contents
<1>5. NoSession \in Session BY <1>1 DEF NoSession, Session
<1>6. [NoSession EXCEPT !.state = "IDLE"] \in Session BY <1>5 DEF Session
<1>7. StorageLost \in Session BY <1>5 DEF StorageLost, Session
<1> QED BY <1>1, <1>2, <1>3, <1>4, <1>5, <1>6, <1>7

(* The types of the fields that the steps read.                            *)
Facts ==
    /\ md.state \in UpdateState /\ md.active_version \in Versions
    /\ md.pending_version \in Versions \cup {0}
    /\ md.copy_offset \in 0..APPLICATION_MAX_SIZE /\ md.boot_attempts \in 0..MAX_BOOT_ATTEMPTS
    /\ md.last_error \in Diagnostics /\ passes \in 0..MAX_BOOT_TRANSITIONS
    /\ w.state \in UpdateState /\ w.active_version \in Versions
    /\ w.pending_version \in Versions \cup {0}
    /\ w.copy_offset \in 0..APPLICATION_MAX_SIZE /\ w.boot_attempts \in 0..MAX_BOOT_ATTEMPTS
    /\ w.last_error \in Diagnostics
    /\ RollbackDiagnostic(w) \in Diagnostics
    /\ w.state = "ROLLBACK" => RollbackDiagnostic(w) = w.last_error
    /\ incoming.target \in Versions /\ incoming.magic \in BOOLEAN
    /\ ckpt.artifact \in Artifact /\ session.artifact \in Artifact
    /\ ckpt.version \in Versions \cup {0} /\ session.version \in Versions \cup {0}
    /\ handoff.artifact.target \in Versions
    /\ \A v \in Versions : ImageSize[v] \in 0..APPLICATION_MAX_SIZE
    /\ launches \in 0..LaunchCap /\ guarded \in Versions \cup {0}
    /\ \A v \in Versions : ImageHeld(app, v) => app[0] = v

(* What the types say of the fields, one by one.                           *)
LEMMA FactsHold == TypeOK => Facts
<1> SUFFICES ASSUME TypeOK PROVE Facts
  OBVIOUS
<1>1. /\ md.state \in UpdateState /\ md.active_version \in Versions
      /\ md.pending_version \in Versions \cup {0}
      /\ md.copy_offset \in 0..APPLICATION_MAX_SIZE /\ md.boot_attempts \in 0..MAX_BOOT_ATTEMPTS
      /\ md.last_error \in Diagnostics
  BY DEF TypeOK, FlashTypeOK, RamTypeOK, MetadataType
<1>2. /\ w.state \in UpdateState /\ w.active_version \in Versions
      /\ w.pending_version \in Versions \cup {0}
      /\ w.copy_offset \in 0..APPLICATION_MAX_SIZE /\ w.boot_attempts \in 0..MAX_BOOT_ATTEMPTS
      /\ w.last_error \in Diagnostics
  BY DEF TypeOK, FlashTypeOK, RamTypeOK, MetadataType
<1>3. /\ RollbackDiagnostic(w) \in Diagnostics
      /\ w.state = "ROLLBACK" => RollbackDiagnostic(w) = w.last_error
  BY RD DEF TypeOK, RamTypeOK
<1>4. /\ incoming.target \in Versions /\ incoming.magic \in BOOLEAN
      /\ ckpt.artifact \in Artifact /\ session.artifact \in Artifact
      /\ ckpt.version \in Versions \cup {0} /\ session.version \in Versions \cup {0}
      /\ handoff.artifact.target \in Versions
  BY DEF TypeOK, FlashTypeOK, RamTypeOK, Artifact, DownloadCheckpoint, Session, Handoff
<1>5. ASSUME NEW v \in Versions, ImageHeld(app, v) PROVE app[0] = v
  <2>1. 0 \in Pages /\ 0 * INTERNAL_FLASH_PAGE_SIZE = 0
    BY DEF Pages
  <2>2. 0 * INTERNAL_FLASH_PAGE_SIZE < ImageSize[v]
    BY <2>1
  <2> QED BY <1>5, <2>1, <2>2 DEF ImageHeld
<1>6. \A v \in Versions : ImageSize[v] \in 0..APPLICATION_MAX_SIZE
  OBVIOUS
<1> QED BY <1>1, <1>2, <1>3, <1>4, <1>5, <1>6 DEF Facts, TypeOK, RamTypeOK, EnvTypeOK

-----------------------------------------------------------------------------
(* Types.                                                                  *)

(* Going to another label of the same program.                             *)
LEMMA GotoRam ==
    ASSUME TypeOK, NEW l \in Labels, Goto(l)
    PROVE  RamTypeOK'
BY DEF TypeOK, RamTypeOK, Goto

(* The RAM after a reset.                                                  *)
LEMMA ResetRam ==
    ASSUME md' \in MetadataType, Reset
    PROVE  RamTypeOK'
<1>1. mustReject' \in BOOLEAN /\ trial' \in BOOLEAN
  BY DEF Reset
<1>2. passes' \in 0..MAX_BOOT_TRANSITIONS /\ pc' \in Labels
  BY DEF Reset, MAX_BOOT_TRANSITIONS, Labels
<1>3. session' \in Session
  BY Constants DEF Reset
<1> QED BY <1>1, <1>2, <1>3 DEF Reset, RamTypeOK

(* MetadataStorage_Commit, whatever it returns, leaves a valid record.     *)
LEMMA CommittedTypes ==
    ASSUME TypeOK, NEW m \in MetadataType, Committed(m) \/ NotCommitted(m)
    PROVE  md' \in MetadataType /\ FieldsAreValid(md') /\ faulted' \in BOOLEAN
<1>1. faulted' \in BOOLEAN
  BY Zenon DEF Committed, NotCommitted, TypeOK, EnvTypeOK
<1> QED BY <1>1 DEF Committed, NotCommitted, TypeOK, FlashTypeOK

(* A commit in the middle of a routine.                                    *)
LEMMA CommitStepTypes ==
    ASSUME TypeOK, NEW m \in MetadataType, NEW ok \in Labels, NEW err \in Labels,
           CommitStep(m, ok, err), guarded' \in Versions \cup {0}
    PROVE  TypeOK'
<1>1. md' \in MetadataType /\ FieldsAreValid(md') /\ faulted' \in BOOLEAN
  BY CommittedTypes DEF CommitStep
<1>2. FlashTypeOK'
  BY <1>1 DEF CommitStep, TypeOK, FlashTypeOK, records
<1>3. RamTypeOK'
  BY DEF CommitStep, TypeOK, RamTypeOK
<1>4. EnvTypeOK'
  BY <1>1 DEF CommitStep, TypeOK, EnvTypeOK, world
<1> QED BY <1>2, <1>3, <1>4 DEF TypeOK

(* A commit that ends a turn of the loop.                                  *)
LEMMA ReturnTypes ==
    ASSUME TypeOK, NEW m \in MetadataType, CommitAndReturn(m), passes < MAX_BOOT_TRANSITIONS,
           launches' \in 0..LaunchCap, guarded' \in Versions \cup {0}
    PROVE  TypeOK'
<1>1. md' \in MetadataType /\ FieldsAreValid(md') /\ faulted' \in BOOLEAN
  BY CommittedTypes DEF CommitAndReturn
<1>2. FlashTypeOK'
  BY <1>1 DEF CommitAndReturn, TypeOK, FlashTypeOK, records
<1>3. RamTypeOK'
  BY DEF CommitAndReturn, NextPass, Goto, TypeOK, RamTypeOK, Labels, MAX_BOOT_TRANSITIONS
<1>4. EnvTypeOK'
  BY <1>1 DEF CommitAndReturn, TypeOK, EnvTypeOK, world
<1> QED BY <1>2, <1>3, <1>4 DEF TypeOK

(* DownloadCheckpointStorage_Commit, whatever it returns.                  *)
LEMMA CheckpointTypes ==
    ASSUME TypeOK, NEW c \in DownloadCheckpoint, CheckpointStored(c) \/ CheckpointFails(c)
    PROVE  ckpt' \in DownloadCheckpoint /\ handoff' \in Handoff /\ faulted' \in BOOLEAN
BY Constants DEF CheckpointStored, CheckpointFails, Fault, TypeOK, FlashTypeOK, EnvTypeOK

(* A boot never uses up the turns of the BootManager_Run loop.             *)
LEMMA PassesBelow == NodeInv => passes < MAX_BOOT_TRANSITIONS
BY DEF NodeInv, Consistent, TypeOK, RamTypeOK, PassBound, Rank, MAX_BOOT_TRANSITIONS

(* The checks of TrialBoot_PrepareAttempt and TrialBoot_FinalizeConfirmation *)
(* repeat what the decision has established: both always commit.           *)
LEMMA TrialCommits ==
    ASSUME NodeInv
    PROVE  /\ TrialPrepareAttempt =>
                /\ pc = "prepare" /\ CommitStep(PreparedAttempt(w), "jumpTrial", "fatal")
                /\ UNCHANGED guarded
           /\ TrialFinalizeConfirmation =>
                /\ pc = "confirmed" /\ CommitAndReturn(FinalizedConfirmation(w))
                /\ UNCHANGED <<launches, guarded>>
<1>1. ASSUME TrialPrepareAttempt PROVE w.state = "TRIAL_BOOT" /\ w.boot_attempts < MAX_BOOT_ATTEMPTS
  BY <1>1 DEF TrialPrepareAttempt, NodeInv, Consistent, StatesAt, WorkingCopy
<1>2. ASSUME TrialFinalizeConfirmation PROVE w.state = "CONFIRMED" /\ w.pending_version # 0
  <2>1. w = md /\ md.state = "CONFIRMED" /\ md.pending_version > md.active_version
    BY <1>2 DEF TrialFinalizeConfirmation, NodeInv, Consistent, StatesAt, WorkingCopy, Newer
  <2>2. md.active_version \in Nat
    BY DEF NodeInv, TypeOK, FlashTypeOK, MetadataType
  <2> QED BY <2>1, <2>2
<1> QED BY <1>1, <1>2 DEF TrialPrepareAttempt, TrialFinalizeConfirmation

(* BootDecision_Evaluate has an answer for every valid record.             *)
LEMMA DecisionIsTotal ==
    ASSUME NEW m \in MetadataType, FieldsAreValid(m), NEW valid \in BOOLEAN
    PROVE  BootDecision_Evaluate(m, valid) \in
              {"STAY_RECOVERY", "JUMP_ACTIVE", "CONTAINER", "INSTALL", "RESUME_ROLLBACK",
               "BOOT_TRIAL", "FINALIZE_CONFIRMATION"}
<1>1. m.state \in UpdateState
  BY DEF MetadataType
<1> QED BY <1>1 DEF BootDecision_Evaluate, UpdateState

(* The labels at which a commit leaves the bootloader.                     *)
LEMMA CommitLabels ==
    /\ "transition" \in Labels /\ "deltaStep" \in Labels /\ "backup" \in Labels
    /\ "validateBackup" \in Labels /\ "copy" \in Labels /\ "verify" \in Labels
    /\ "rollback" \in Labels /\ "restore" \in Labels /\ "jumpTrial" \in Labels
    /\ "revert" \in Labels /\ "markFailed" \in Labels /\ "fatal" \in Labels
BY DEF Labels

(* The version guarded and the starts of its successor.                    *)
LEMMA HistoryTypes ==
    ASSUME TypeOK PROVE guarded \in Versions \cup {0} /\ launches \in 0..LaunchCap
BY DEF TypeOK, EnvTypeOK

(* The steps of BootManager_Run preserve the types.                        *)
LEMMA BootTypes == ASSUME NodeInv, BootStep PROVE TypeOK'
<1>0. TypeOK /\ Facts /\ passes < MAX_BOOT_TRANSITIONS /\ 0 \in 0..LaunchCap
  BY FactsHold, PassesBelow DEF NodeInv, Consistent, LaunchCap
<1>1. CASE BootLoad
  BY <1>0, <1>1, GotoRam DEF BootLoad, TypeOK, FlashTypeOK, EnvTypeOK, Labels, flash, env,
        records, world
<1>2. CASE BootDispatch
  <2>1. w = md /\ FieldsAreValid(w)
    BY <1>0, <1>2 DEF BootDispatch, NodeInv, Consistent, WorkingCopy, TypeOK, FlashTypeOK
  <2>2. pc' \in {"fatal", "isIncoming", "install", "rollback", "confirmed", "prepare", "jump"}
    <3>1. ApplicationValid \in BOOLEAN
      BY DEF ApplicationValid
    <3> QED BY <1>0, <1>2, <2>1, <3>1, DecisionIsTotal DEF BootDispatch, TypeOK, RamTypeOK
  <2>3. pc' \in Labels
    BY <2>2 DEF Labels
  <2> QED BY <1>0, <1>2, <2>3 DEF BootDispatch, TypeOK, FlashTypeOK, RamTypeOK, EnvTypeOK,
        flash, env, records, world
<1>3. CASE BootIsIncoming
  <2>1. mustReject' \in BOOLEAN /\ faulted' \in BOOLEAN
    BY <1>0, <1>3 DEF BootIsIncoming, Fault, TypeOK, EnvTypeOK
  <2> QED BY <1>0, <1>3, <2>1 DEF BootIsIncoming, TypeOK, FlashTypeOK, RamTypeOK, EnvTypeOK,
        Labels, flash, records, world
<1>4. CASE BootIsIncomingLegacy
  <2>1. \A s, d \in BOOLEAN : LegacyRoute(s, d) \in Labels
    BY DEF LegacyRoute, Labels
  <2>2. pc' \in Labels /\ faulted' \in BOOLEAN
    BY <1>0, <1>4, <2>1, Zenon DEF BootIsIncomingLegacy, Fault, TypeOK, EnvTypeOK, Facts,
          DeltaPatcher_IsDeltaArtifact
  <2> QED BY <1>0, <1>4, <2>2 DEF BootIsIncomingLegacy, TypeOK, FlashTypeOK, RamTypeOK,
        EnvTypeOK, flash, records, world
<1>5. CASE TrialPrepareAttempt
  <2>1. PreparedAttempt(w) \in MetadataType
    BY <1>0, <1>5, PreparedAttemptRecord DEF TrialPrepareAttempt, NodeInv, Consistent, TypeOK,
          RamTypeOK, StatesAt, WorkingCopy
  <2> QED BY <1>0, <1>5, <2>1, TrialCommits, CommitStepTypes, CommitLabels, HistoryTypes
<1>6. CASE TrialFinalizeConfirmation
  <2>0. md.pending_version > md.active_version /\ w = md
    BY <1>6 DEF TrialFinalizeConfirmation, NodeInv, Consistent, StatesAt, WorkingCopy, Newer
  <2>1. w.pending_version \in Versions /\ "none" \in Diagnostics
    <3>1. md.active_version \in Nat \ {0} /\ md.pending_version \in Versions \cup {0}
      BY <1>0 DEF Facts
    <3>2. md.pending_version # 0
      BY <2>0, <3>1
    <3> QED BY <2>0, <3>1, <3>2 DEF Diagnostics
  <2>2. FinalizedConfirmation(w) \in MetadataType
    BY <1>0, <2>1, IdleFieldsRecord DEF FinalizedConfirmation, TypeOK, RamTypeOK
  <2> QED BY <1>0, <1>6, <2>2, TrialCommits, ReturnTypes DEF TypeOK, EnvTypeOK
<1>7. CASE BootJump
  <2>1. RestoredSession \in Session
    <3>1. CASE ckpt.state # "IDLE"
      BY <1>0, <3>1 DEF RestoredSession, Session, TypeOK, FlashTypeOK, DownloadCheckpoint,
            UpdateState
    <3>2. CASE ckpt.state = "IDLE" /\ md.state \in {"TRIAL_BOOT", "CONFIRMED"}
      <4>1. [NoSession EXCEPT !.state = md.state] \in Session
        BY <1>0, <3>2, Constants DEF Session, Facts
      <4>2. [[NoSession EXCEPT !.state = md.state] EXCEPT !.version = md.pending_version]
              \in Session
        BY <1>0, <4>1 DEF Session, Facts
      <4> QED BY <3>2, <4>2 DEF RestoredSession
    <3>3. CASE ckpt.state = "IDLE" /\ md.state \notin {"TRIAL_BOOT", "CONFIRMED"}
      BY <3>3, Constants DEF RestoredSession
    <3> QED BY <3>1, <3>2, <3>3
  <2>2. session' \in Session /\ faulted' \in BOOLEAN
    BY <1>0, <1>7, <2>1, Constants DEF BootJump, Fault, TypeOK, EnvTypeOK
  <2>3. trial' \in BOOLEAN /\ mustReject' \in BOOLEAN
    BY <1>7 DEF BootJump, WatchdogStarted
  <2>4. launches' \in 0..LaunchCap
    BY <1>0, <1>7 DEF BootJump, MinOf, LaunchCap, TypeOK, EnvTypeOK
  <2> QED BY <1>0, <1>7, <2>2, <2>3, <2>4
          DEF BootJump, TypeOK, FlashTypeOK, RamTypeOK, EnvTypeOK, flash, records, world, Labels,
              MAX_BOOT_TRANSITIONS
<1> QED BY <1>1, <1>2, <1>3, <1>4, <1>5, <1>6, <1>7 DEF BootStep

(* So do those of SecureContainer_Process,                                 *)
LEMMA SecureTypes == ASSUME NodeInv, SecureStep PROVE TypeOK'
<1>0. TypeOK /\ Facts /\ passes < MAX_BOOT_TRANSITIONS /\ "secure" \in Diagnostics
  BY FactsHold, PassesBelow DEF NodeInv, Consistent, Diagnostics
<1>1. CASE SecureVerify
  BY <1>0, <1>1, GotoRam DEF SecureVerify,
      TypeOK, FlashTypeOK, EnvTypeOK, InSecure, EnvKept, records, world, Labels
<1>2. CASE SecureTransition
  <2>1. Transition(w, NextSecureState(w.state, incoming.kind)) \in MetadataType
    BY <1>0, TransitionRecord DEF NextSecureState, UpdateState, TypeOK, RamTypeOK
  <2> QED BY <1>0, <1>2, <2>1, CommitStepTypes, CommitLabels, HistoryTypes
      DEF SecureTransition
<1>3. CASE SecureBaseRejected
  BY <1>0, <1>3, GotoRam DEF SecureBaseRejected,
      TypeOK, FlashTypeOK, EnvTypeOK, InSecure, EnvKept, records, world, Labels
<1>4. CASE EraseReconstructed
  BY <1>0, <1>4, GotoRam DEF EraseReconstructed, Contents,
      TypeOK, FlashTypeOK, EnvTypeOK, InSecure, EnvKept, records, world, Labels
<1>5. CASE SecureRebuild
  BY <1>0, <1>5, GotoRam DEF SecureRebuild, Contents, Fault, Facts,
      TypeOK, FlashTypeOK, EnvTypeOK, InSecure, EnvKept, records, world, Labels
<1>6. CASE VerifyReconstructed
  BY <1>0, <1>6, GotoRam DEF VerifyReconstructed,
      TypeOK, FlashTypeOK, EnvTypeOK, InSecure, EnvKept, records, world, Labels
<1>7. CASE SecureFinish
  <2>1. ImageReady(w, ImageSize[incoming.target]) \in MetadataType
    BY <1>0, ImageReadyRecord DEF TypeOK, RamTypeOK, Facts
  <2> QED BY <1>0, <1>7, <2>1, CommitStepTypes, ReturnTypes, CommitLabels, HistoryTypes
      DEF SecureFinish
<1>8. CASE RejectClear
  BY <1>0, <1>8, GotoRam, Constants, CheckpointTypes DEF RejectClear, ClearBestEffort,
      TypeOK, FlashTypeOK, EnvTypeOK, InSecure, EnvKept, records, world, Labels
<1>9. CASE RejectCommit
  <2>1. IdleFields(w, w.active_version, "secure") \in MetadataType
    BY <1>0, IdleFieldsRecord DEF TypeOK, RamTypeOK, Facts
  <2> QED BY <1>0, <1>9, <2>1, ReturnTypes DEF RejectCommit, Labels, Facts
<1>10. CASE SecureFault
  BY <1>0, <1>10, GotoRam DEF SecureFault, SecureFaultTarget, Fault, Contents,
      TypeOK, FlashTypeOK, EnvTypeOK, InSecure, EnvKept, records, world, Labels
<1> QED BY <1>1, <1>2, <1>3, <1>4, <1>5, <1>6, <1>7, <1>8, <1>9, <1>10 DEF SecureStep

(* those of the patcher,                                                   *)
LEMMA DeltaTypes == ASSUME NodeInv, DeltaStep PROVE TypeOK'
<1>0. TypeOK /\ Facts /\ passes < MAX_BOOT_TRANSITIONS /\ "delta" \in Diagnostics
  BY FactsHold, PassesBelow DEF NodeInv, Consistent, Diagnostics
<1>1. CASE DeltaVerify
  BY <1>0, <1>1, GotoRam DEF DeltaVerify,
      TypeOK, FlashTypeOK, EnvTypeOK, InSecure, EnvKept, records, world, Labels
<1>2. CASE DeltaTransition
  <2>1. Transition(w, NextSecureState(w.state, "DELTA")) \in MetadataType
    BY <1>0, TransitionRecord DEF NextSecureState, UpdateState, TypeOK, RamTypeOK
  <2> QED BY <1>0, <1>2, <2>1, CommitStepTypes, CommitLabels, HistoryTypes
      DEF DeltaTransition
<1>3. CASE DeltaPayloadRejected
  BY <1>0, <1>3, GotoRam DEF DeltaPayloadRejected,
      TypeOK, FlashTypeOK, EnvTypeOK, InSecure, EnvKept, records, world, Labels
<1>4. CASE DeltaErase
  BY <1>0, <1>4, GotoRam DEF DeltaErase, Contents,
      TypeOK, FlashTypeOK, EnvTypeOK, InSecure, EnvKept, records, world, Labels
<1>5. CASE DeltaApply
  BY <1>0, <1>5, GotoRam DEF DeltaApply, Contents, Fault, Facts,
      TypeOK, FlashTypeOK, EnvTypeOK, InSecure, EnvKept, records, world, Labels
<1>6. CASE VerifyTarget
  BY <1>0, <1>6, GotoRam DEF VerifyTarget,
      TypeOK, FlashTypeOK, EnvTypeOK, InSecure, EnvKept, records, world, Labels
<1>7. CASE DeltaFinish
  <2>1. ImageReady(w, ImageSize[incoming.target]) \in MetadataType
    BY <1>0, ImageReadyRecord DEF TypeOK, RamTypeOK, Facts
  <2> QED BY <1>0, <1>7, <2>1, ReturnTypes DEF DeltaFinish, Labels, Facts
<1>8. CASE RejectDeltaClear
  BY <1>0, <1>8, GotoRam, Constants, CheckpointTypes DEF RejectDeltaClear, ClearBestEffort,
      TypeOK, FlashTypeOK, EnvTypeOK, InSecure, EnvKept, records, world, Labels
<1>9. CASE RejectDelta
  <2>1. IdleFields(w, w.active_version, "delta") \in MetadataType
    BY <1>0, IdleFieldsRecord DEF TypeOK, RamTypeOK, Facts
  <2> QED BY <1>0, <1>9, <2>1, ReturnTypes DEF RejectDelta, Labels, Facts
<1>10. CASE DeltaFault
  BY <1>0, <1>10, GotoRam DEF DeltaFault, DeltaFaultTarget, Fault, Contents,
      TypeOK, FlashTypeOK, EnvTypeOK, InSecure, EnvKept, records, world, Labels
<1> QED BY <1>1, <1>2, <1>3, <1>4, <1>5, <1>6, <1>7, <1>8, <1>9, <1>10 DEF DeltaStep

(* those of the installer and of the rollback,                             *)
LEMMA InstallTypes == ASSUME NodeInv, InstallStep PROVE TypeOK'
<1>0. /\ TypeOK /\ Facts /\ passes < MAX_BOOT_TRANSITIONS /\ 0 \in 0..LaunchCap
      /\ w \in MetadataType /\ {"installer", "install"} \subseteq Diagnostics
  BY FactsHold, PassesBelow DEF NodeInv, Consistent, LaunchCap, TypeOK, RamTypeOK, Diagnostics
<1>a. Candidate \in Versions /\ ImageSize[Candidate] \in 0..APPLICATION_MAX_SIZE
  BY <1>0 DEF Candidate, Facts
<1>b. CandidateHeld \in Contents /\ {Blank, Partial} \subseteq Contents
  BY <1>0 DEF CandidateHeld, Contents, Facts, TypeOK, FlashTypeOK
<1>1. CASE InstallStart
  <2>1. w.state \in {"ARTIFACT_READY", "IMAGE_READY", "BACKING_UP", "INSTALLING",
        "VERIFYING_INSTALL"}
    BY <1>1 DEF InstallStart, At, NodeInv, Consistent, StatesAt, WorkingCopy, Replacing
  <2>2. \E l \in Labels : Goto(l)
    BY <1>1, <2>1 DEF InstallStart, InternalMayBeModified, Labels
  <2> QED BY <1>0, <1>1, <2>2, GotoRam
     DEF InstallStart, TypeOK, FlashTypeOK, EnvTypeOK, At, Quiet, records, world, Labels
<1>2. CASE BackupInvalidateHeader
  BY <1>0, <1>2, GotoRam, Constants
     DEF BackupInvalidateHeader, TypeOK, FlashTypeOK, EnvTypeOK, At, Quiet, records, world, Labels
<1>3. CASE BeginBackup
  <2>1. BackingUp(w) \in MetadataType
    BY <1>0, BackingUpRecord
  <2> QED BY <1>0, <1>3, <2>1, CommitStepTypes, CommitLabels, HistoryTypes
      DEF BeginBackup
<1>4. CASE BackupEraseSector
  BY <1>0, <1>4, GotoRam, <1>b
     DEF BackupEraseSector, TypeOK, FlashTypeOK, EnvTypeOK, At, Quiet, records, world, Labels
<1>5. CASE BackupWrite
  BY <1>0, <1>5, GotoRam
     DEF BackupWrite, TypeOK, FlashTypeOK, EnvTypeOK, At, Quiet, records, world, Labels
<1>6. CASE BackupCheckpoint
  <2>1. AtOffset(w, BackupProgress_NextCheckpoint(w.copy_offset)) \in MetadataType
    BY <1>0, AtOffsetRecord DEF BackupProgress_NextCheckpoint, MinOf, Facts
  <2> QED BY <1>0, <1>6, <2>1, CommitStepTypes, CommitLabels, HistoryTypes
      DEF BackupCheckpoint
<1>7. CASE BackupSeal
  BY <1>0, <1>7, GotoRam
     DEF BackupSeal, BackupImage_Init, BackupHeader, Facts, TypeOK, FlashTypeOK, EnvTypeOK, At,
           Quiet, records, world, Labels
<1>8. CASE BackupComplete
  <2>1. Installing(w) \in MetadataType
    BY <1>0, InstallingRecord
  <2>2. guarded' \in Versions \cup {0}
    BY <1>0, <1>8, HistoryTypes DEF BackupComplete, Facts
  <2> QED BY <1>0, <1>8, <2>1, <2>2, CommitStepTypes, CommitLabels DEF BackupComplete
<1>9. CASE InstallCheckBackup
  <2>1. \E l \in Labels : Goto(l)
    BY <1>9 DEF InstallCheckBackup, Labels
  <2> QED BY <1>0, <1>9, <2>1, GotoRam
     DEF InstallCheckBackup, TypeOK, FlashTypeOK, EnvTypeOK, At, Quiet, records, world, Labels
<1>10. CASE BeginInstall
  <2>1. Installing(w) \in MetadataType
    BY <1>0, InstallingRecord
  <2> QED BY <1>0, <1>10, <2>1, CommitStepTypes, CommitLabels, HistoryTypes
      DEF BeginInstall
<1>11. CASE InstallErasePage
  BY <1>0, <1>11, GotoRam, <1>b
     DEF InstallErasePage, TypeOK, FlashTypeOK, EnvTypeOK, At, Quiet, records, world, Labels
<1>12. CASE InstallProgramPage
  BY <1>0, <1>12, GotoRam, <1>b
     DEF InstallProgramPage, TypeOK, FlashTypeOK, EnvTypeOK, At, Quiet, records, world, Labels
<1>13. CASE InstallCheckpoint
  <2>0. InstallProgress_NextCheckpoint(ImageSize[Candidate],
        w.copy_offset) \in 0..APPLICATION_MAX_SIZE
    BY <1>0, <1>a DEF InstallProgress_NextCheckpoint, MinOf, Facts
  <2>1. AtOffset(w, InstallProgress_NextCheckpoint(ImageSize[Candidate],
        w.copy_offset)) \in MetadataType
    BY <1>0, <2>0, AtOffsetRecord
  <2> QED BY <1>0, <1>13, <2>1, CommitStepTypes, CommitLabels, HistoryTypes
      DEF InstallCheckpoint
<1>14. CASE TransitionToVerify
  <2>1. VerifyingInstall(w, ImageSize[Candidate]) \in MetadataType
    BY <1>0, <1>a, VerifyingInstallRecord
  <2> QED BY <1>0, <1>14, <2>1, CommitStepTypes, CommitLabels, HistoryTypes
      DEF TransitionToVerify
<1>15. CASE InstallVerify
  BY <1>0, <1>15, GotoRam
     DEF InstallVerify, TypeOK, FlashTypeOK, EnvTypeOK, At, Quiet, records, world, Labels
<1>16. CASE TrialClearCheckpoint
  <2>1. ckpt' \in DownloadCheckpoint /\ handoff' \in Handoff /\ faulted' \in BOOLEAN
    BY <1>0, <1>16, Constants, CheckpointTypes DEF TrialClearCheckpoint
  <2>2. RamTypeOK'
    BY <1>0, <1>16, GotoRam DEF TrialClearCheckpoint, Labels
  <2> QED BY <1>0, <1>16, <2>1, <2>2
     DEF TrialClearCheckpoint, TypeOK, FlashTypeOK, EnvTypeOK, At, world
<1>17. CASE TransitionToTrialBoot
  <2>1. TrialBoot(w) \in MetadataType
    BY <1>0, TrialBootRecord
  <2> QED BY <1>0, <1>17, <2>1, ReturnTypes DEF TransitionToTrialBoot, Labels, Facts
<1>18. CASE RevertClear
  <2>1. ckpt' \in DownloadCheckpoint /\ handoff' \in Handoff /\ faulted' \in BOOLEAN
    BY <1>0, <1>18, Constants, CheckpointTypes DEF RevertClear, ClearBestEffort
  <2>2. RamTypeOK'
    BY <1>0, <1>18, GotoRam DEF RevertClear, Labels
  <2> QED BY <1>0, <1>18, <2>1, <2>2
     DEF RevertClear, TypeOK, FlashTypeOK, EnvTypeOK, At, world
<1>19. CASE RevertCommit
  <2>1. IdleFields(w, w.active_version, "installer") \in MetadataType
    BY <1>0, IdleFieldsRecord DEF Facts
  <2> QED BY <1>0, <1>19, <2>1, ReturnTypes DEF RevertCommit, Labels, Facts
<1>20. CASE BestEffortMarkFailed
  <2>1. MarkedFailed(w) \in MetadataType
    BY <1>0, MarkedFailedRecord
  <2> QED BY <1>0, <1>20, <2>1, CommitStepTypes, CommitLabels, HistoryTypes
      DEF BestEffortMarkFailed
<1>21. CASE RollbackAfterInstallFailure
  <2>1. BeginRollback(w, "install") \in MetadataType
    BY <1>0, BeginRollbackRecord
  <2> QED BY <1>0, <1>21, <2>1, CommitStepTypes, CommitLabels, HistoryTypes
      DEF RollbackAfterInstallFailure
<1>22. CASE RollbackStart
  <2>1. \E l \in Labels : Goto(l)
    BY <1>22 DEF RollbackStart, Labels
  <2> QED BY <1>0, <1>22, <2>1, GotoRam
     DEF RollbackStart, TypeOK, FlashTypeOK, EnvTypeOK, At, Quiet, records, world, Labels
<1>23. CASE RollbackBegin
  <2>1. BeginRollback(w, RollbackDiagnostic(w)) \in MetadataType
    BY <1>0, BeginRollbackRecord DEF Facts
  <2> QED BY <1>0, <1>23, <2>1, CommitStepTypes, CommitLabels, HistoryTypes
      DEF RollbackBegin
<1>24. CASE RollbackErasePage
  BY <1>0, <1>24, GotoRam, <1>b
     DEF RollbackErasePage, TypeOK, FlashTypeOK, EnvTypeOK, At, Quiet, records, world, Labels
<1>25. CASE RollbackProgramPage
  <2>1. \A x \in Int : [app EXCEPT ![x] = bk[x]] \in [Pages -> Contents]
    BY <1>0 DEF TypeOK, FlashTypeOK
  <2>2. PageOf(w.copy_offset) \in Int
    BY <1>0 DEF PageOf, Facts
  <2> QED BY <1>0, <1>25, <2>1, <2>2, GotoRam
     DEF RollbackProgramPage, LoadBackupPage, TypeOK, FlashTypeOK, EnvTypeOK, At, Quiet,
           records, world, Labels
<1>26. CASE RollbackCheckpoint
  <2>1. RestoredTo(w, InstallProgress_NextCheckpoint(APPLICATION_MAX_SIZE,
        w.copy_offset)) \in MetadataType
    BY <1>0, RestoredToRecord DEF InstallProgress_NextCheckpoint, MinOf, Facts
  <2> QED BY <1>0, <1>26, <2>1, CommitStepTypes, CommitLabels, HistoryTypes
      DEF RollbackCheckpoint
<1>27. CASE RollbackVerify
  BY <1>0, <1>27, GotoRam
     DEF RollbackVerify, TypeOK, FlashTypeOK, EnvTypeOK, At, Quiet, records, world, Labels
<1>28. CASE RollbackClear
  <2>1. ckpt' \in DownloadCheckpoint /\ handoff' \in Handoff /\ faulted' \in BOOLEAN
    BY <1>0, <1>28, Constants, CheckpointTypes DEF RollbackClear, ClearBestEffort
  <2>2. RamTypeOK'
    BY <1>0, <1>28, GotoRam DEF RollbackClear, Labels
  <2> QED BY <1>0, <1>28, <2>1, <2>2
     DEF RollbackClear, TypeOK, FlashTypeOK, EnvTypeOK, At, world
<1>29. CASE FinalizeRollback
  <2>1. bkHdr.version \in Versions
    BY <1>0, <1>29 DEF FinalizeRollback, NodeInv, Consistent, StatesAt, NoImageLoss,
          BackupHolds, Facts
  <2>2. IdleFields(w, bkHdr.version, RollbackDiagnostic(w)) \in MetadataType
    BY <1>0, <2>1, IdleFieldsRecord DEF Facts
  <2> QED BY <1>0, <1>29, <2>2, ReturnTypes DEF FinalizeRollback, Facts
<1>30. CASE InstallFault
  <2>1. \E l \in Labels : Goto(l)
    BY <1>30 DEF InstallFault, InstallFaultTarget, Labels
  <2>2. bkHdr' \in BackupHeader
    BY <1>0, <1>30, Constants
       DEF InstallFault, HeadersAfterFault, BackupImage_Init, BackupHeader, TypeOK, FlashTypeOK,
             Facts
  <2>3. faulted' \in BOOLEAN
    BY <1>30 DEF InstallFault, Fault
  <2> QED BY <1>0, <1>30, <2>1, <2>2, <2>3, GotoRam
     DEF InstallFault, TypeOK, FlashTypeOK, EnvTypeOK, At, Quiet, records, world, Labels
<1> QED BY <1>1, <1>2, <1>3, <1>4, <1>5, <1>6, <1>7, <1>8, <1>9, <1>10, <1>11, <1>12, <1>13,
      <1>14, <1>15, <1>16, <1>17, <1>18, <1>19, <1>20, <1>21, <1>22, <1>23, <1>24, <1>25, <1>26,
      <1>27, <1>28, <1>29, <1>30 DEF InstallStep

(* those of the application,                                               *)
LEMMA ApplicationTypes == ASSUME NodeInv, ApplicationStep PROVE TypeOK'
<1>0. /\ TypeOK /\ Facts /\ 0 \in Versions \cup {0} /\ md \in MetadataType
      /\ pc \in Labels /\ "app" \in Labels
  BY FactsHold DEF NodeInv, Consistent, TypeOK, RamTypeOK, FlashTypeOK, Labels
<1>a. ASSUME NEW c \in DownloadCheckpoint, CheckpointStored(c) \/ CheckpointFails(c),
             session' \in Session, UNCHANGED <<md, incoming>>, AppKept
      PROVE  TypeOK'
  <2>1. ckpt' \in DownloadCheckpoint /\ handoff' \in Handoff /\ faulted' \in BOOLEAN
    BY <1>0, <1>a, CheckpointTypes
  <2> QED BY <1>0, <1>a, <2>1
          DEF AppKept, TypeOK, FlashTypeOK, RamTypeOK, EnvTypeOK, world
<1>b. ASSUME NEW m \in MetadataType,
             \/ Committed(m) /\ Reset
             \/ NotCommitted(m) /\ GoesOn,
             guarded' \in Versions \cup {0},
             UNCHANGED <<app, bk, bkHdr, incoming, rec, records, world, launches>>
      PROVE  TypeOK'
  <2>1. md' \in MetadataType /\ FieldsAreValid(md') /\ faulted' \in BOOLEAN
    BY <1>0, <1>b, CommittedTypes
  <2>2. RamTypeOK'
    <3>1. CASE Reset BY <2>1, <3>1, ResetRam
    <3>2. CASE GoesOn BY <1>0, <2>1, <3>2 DEF GoesOn, TypeOK, RamTypeOK, Labels
    <3> QED BY <1>b, <3>1, <3>2
  <2> QED BY <1>0, <1>b, <2>1, <2>2 DEF TypeOK, FlashTypeOK, EnvTypeOK, records, world
<1>c. ASSUME session.state = "ARTIFACT_READY", pc \in Application
      PROVE  InstallRequest(md, session) \in MetadataType
  <2>1. session.version > md.active_version
    BY <1>c DEF NodeInv, Consistent, Newer
  <2>2. session.version \in Versions
    <3>1. md.active_version \in Nat \ {0} /\ session.version \in Versions \cup {0}
      BY <1>0 DEF Facts
    <3> QED BY <2>1, <3>1
  <2> QED BY <1>0, <2>2, InstallRequestRecord DEF Facts
<1>1. ASSUME NEW o \in Offers[AllowUnsignedLegacy], OtaStart(o) PROVE TypeOK'
  <2>1. o.version \in Versions /\ o.artifact \in Artifact
    BY <1>0 DEF Offer, TypeOK, EnvTypeOK
  <2> DEFINE record == [state |-> "RECEIVING", version |-> o.version, artifact |-> o.artifact]
  <2>2. record \in DownloadCheckpoint
    BY <2>1 DEF DownloadCheckpoint
  <2>3. session' \in Session
    <3>1. [state |-> "RECEIVING", version |-> o.version, artifact |-> o.artifact,
           received |-> FALSE] \in Session
      BY <2>1 DEF Session, UpdateState
    <3> QED BY <1>1, <3>1, Constants DEF OtaStart, ResetTransfer
  <2>4. CheckpointStored(record) \/ CheckpointFails(record)
    BY <1>1 DEF OtaStart
  <2> HIDE DEF record
  <2> QED BY <1>1, <1>a, <2>2, <2>3, <2>4 DEF OtaStart
<1>2. CASE OtaDataSome
  BY <1>0, <1>2, Constants
     DEF OtaDataSome, AppKept, TypeOK, FlashTypeOK, RamTypeOK, EnvTypeOK, records, world
<1>3. CASE OtaDataAll
  <2>1. session' \in Session
    BY <1>0, <1>3 DEF OtaDataAll, Session, TypeOK, RamTypeOK
  <2>2. incoming' \in Artifact
    BY <1>0, <1>3, Constants DEF OtaDataAll, Facts
  <2> QED BY <1>0, <1>3, <2>1, <2>2
          DEF OtaDataAll, AppKept, TypeOK, FlashTypeOK, RamTypeOK, EnvTypeOK, records, world
<1>4. CASE OtaFinish
  <2> DEFINE record == [state |-> "ARTIFACT_READY", version |-> session.version,
                        artifact |-> session.artifact]
  <2>1. record \in DownloadCheckpoint
    BY <1>0 DEF DownloadCheckpoint, Facts
  <2>2. session' \in Session
    <3>1. /\ session \in Session /\ [session EXCEPT !.state = "ARTIFACT_READY"] \in Session
          /\ [session EXCEPT !.state = "FAILED"] \in Session
      BY <1>0 DEF TypeOK, RamTypeOK, Session, UpdateState
    <3> QED BY <1>4, <3>1 DEF OtaFinish
  <2>3. CASE incoming = session.artifact
    <3>1. CheckpointStored(record) \/ CheckpointFails(record)
      BY <1>4, <2>3 DEF OtaFinish
    <3> HIDE DEF record
    <3> QED BY <1>4, <1>a, <2>1, <2>2, <3>1 DEF OtaFinish
  <2>4. CASE incoming # session.artifact
    BY <1>0, <1>4, <2>2, <2>4
       DEF OtaFinish, AppKept, TypeOK, FlashTypeOK, RamTypeOK, EnvTypeOK, records, world
  <2> QED BY <2>3, <2>4
<1>5. CASE OtaAbort
  <2>1. session' \in Session
    BY <1>0, <1>5, Constants DEF OtaAbort, ResetTransfer, TypeOK, RamTypeOK
  <2> QED BY <1>5, <1>a, <2>1, Constants DEF OtaAbort
<1>6. CASE OtaInstall
  <2> DEFINE m == InstallRequest(md, session)
  <2>2. m \in MetadataType
    BY <1>6, <1>c DEF OtaInstall, InApp, Application
  <2>3. \/ Committed(m) /\ Reset
        \/ NotCommitted(m) /\ GoesOn
    BY <1>6 DEF OtaInstall
  <2>4. guarded' \in Versions \cup {0}
    BY <1>0, <1>6 DEF OtaInstall, Facts
  <2> HIDE DEF m
  <2> QED BY <1>6, <1>b, <2>2, <2>3, <2>4 DEF OtaInstall
<1>7. CASE OtaInstallFull
  BY <1>0, <1>7, GotoRam
     DEF OtaInstallFull, flash, env, TypeOK, FlashTypeOK, EnvTypeOK, records, world, Labels
<1>8. CASE OtaPersistHandoff
  <2>1. [version |-> session.version, artifact |-> session.artifact] \in Handoff
    BY <1>0 DEF Handoff, Facts
  <2>2. handoff' \in Handoff /\ ckpt' \in DownloadCheckpoint
    BY <1>0, <1>8, <2>1, Constants DEF OtaPersistHandoff, TypeOK, FlashTypeOK
  <2>3. faulted' \in BOOLEAN
    BY <1>0, <1>8 DEF OtaPersistHandoff, Fault, TypeOK, EnvTypeOK
  <2>4. RamTypeOK'
    BY <1>0, <1>8, GotoRam DEF OtaPersistHandoff, Labels
  <2> QED BY <1>0, <1>8, <2>2, <2>3, <2>4
          DEF OtaPersistHandoff, TypeOK, FlashTypeOK, EnvTypeOK, world
<1>9. CASE OtaRequestInstall
  <2>1. session.state = "ARTIFACT_READY" /\ pc \in Application
    BY <1>9 DEF OtaRequestInstall, NodeInv, Consistent, Transfers, Application
  <2> DEFINE m == InstallRequest(md, session)
  <2>2. m \in MetadataType
    BY <1>c, <2>1
  <2>3. \/ Committed(m) /\ Reset
        \/ NotCommitted(m) /\ GoesOn
    BY <1>9 DEF OtaRequestInstall
  <2>4. guarded' \in Versions \cup {0}
    BY <1>0, <1>9 DEF OtaRequestInstall, Facts
  <2> HIDE DEF m
  <2> QED BY <1>9, <1>b, <2>2, <2>3, <2>4 DEF OtaRequestInstall
<1>10. CASE ConfirmNow
  <2> DEFINE m == Confirmed(md)
  <2>2. m \in MetadataType
    BY <1>0, ConfirmedRecord
  <2>3. \/ Committed(m) /\ Reset
        \/ NotCommitted(m) /\ GoesOn
    BY <1>10 DEF ConfirmNow
  <2>4. guarded' \in Versions \cup {0}
    BY <1>0, <1>10 DEF ConfirmNow, Facts
  <2> HIDE DEF m
  <2> QED BY <1>10, <1>b, <2>2, <2>3, <2>4 DEF ConfirmNow
<1> QED BY <1>1, <1>2, <1>3, <1>4, <1>5, <1>6, <1>7, <1>8, <1>9, <1>10
        DEF ApplicationStep, TrialConfirm, ProcessConfirm

(* The steps of the environment.                                           *)
Disturbance ==
    PageDecays \/ ArtifactDecays \/ WatchdogReset \/ PowerLoss \/ PowerCycle \/ Stabilise

(* and those of the environment.                                           *)
LEMMA DisturbanceTypes == ASSUME NodeInv, Disturbance PROVE TypeOK'
<1>0. TypeOK /\ Facts /\ md \in MetadataType
  BY FactsHold DEF NodeInv, Consistent, TypeOK, FlashTypeOK
<1>1. CASE PageDecays
  <2>1. app' \in [Pages -> Contents] /\ bk' \in [Pages -> Contents]
    BY <1>0, <1>1 DEF PageDecays, TypeOK, FlashTypeOK, Contents
  <2>2. faulted' \in BOOLEAN
    BY <1>1 DEF PageDecays, Fault
  <2> QED BY <1>0, <1>1, <2>1, <2>2
          DEF PageDecays, TypeOK, FlashTypeOK, RamTypeOK, EnvTypeOK, records, world, ram
<1>2. CASE ArtifactDecays
  <2>1. incoming' \in Artifact
    BY <1>0, <1>2 DEF ArtifactDecays, TypeOK, FlashTypeOK, Artifact
  <2>2. faulted' \in BOOLEAN
    BY <1>2 DEF ArtifactDecays, Fault
  <2> QED BY <1>0, <1>2, <2>1, <2>2
          DEF ArtifactDecays, TypeOK, FlashTypeOK, RamTypeOK, EnvTypeOK, records, world, ram
<1>3. CASE WatchdogReset
  BY <1>0, <1>3, ResetRam
     DEF WatchdogReset, flash, env, TypeOK, FlashTypeOK, EnvTypeOK, records, world
<1>4. CASE PowerLoss
  <2>1. ckpt' \in DownloadCheckpoint /\ handoff' \in Handoff
    BY <1>0, <1>4, Constants DEF PowerLoss, TypeOK, FlashTypeOK
  <2>2. RamTypeOK'
    BY <1>0, <1>4, ResetRam DEF PowerLoss
  <2> QED BY <1>0, <1>4, <2>1, <2>2 DEF PowerLoss, env, TypeOK, FlashTypeOK, EnvTypeOK, world
<1>5. CASE PowerCycle
  BY <1>0, <1>5, ResetRam
     DEF PowerCycle, flash, env, TypeOK, FlashTypeOK, EnvTypeOK, records, world
<1>6. CASE Stabilise
  <2>1. stable' \in BOOLEAN
    BY <1>6 DEF Stabilise
  <2> QED BY <1>0, <1>6, <2>1
          DEF Stabilise, flash, ram, TypeOK, FlashTypeOK, RamTypeOK, EnvTypeOK, records
<1> QED BY <1>1, <1>2, <1>3, <1>4, <1>5, <1>6 DEF Disturbance

-----------------------------------------------------------------------------
(* Consistency, component by component.                                    *)

(* Values of the constant records.                                         *)
NodeConstants ==
    /\ NoCheckpoint.state = "IDLE" /\ NoHandoff.version = 0 /\ NoHeader.version = 0
    /\ NoSession.state = "NONE" /\ StorageLost.state = "NO_STORAGE"
    /\ [NoSession EXCEPT !.state = "IDLE"].state = "IDLE"
    /\ Blank \notin Versions /\ Partial \notin Versions /\ 0 \notin Versions

(* The fields of the empty records.                                        *)
LEMMA NodeConstantsHold == NodeConstants
BY DEF NodeConstants, NoCheckpoint, NoHandoff, NoHeader, NoSession, StorageLost, Blank, Partial

(* A commit that takes the record from one group of states to another.     *)
Turns(from, to) == md.state \in from /\ md'.state \in to /\ UNCHANGED launches

(* A trial whose every attempt was made.                                   *)
LastTrial == md.state = "TRIAL_BOOT" /\ md.boot_attempts = MAX_BOOT_ATTEMPTS

(* All that a step of the bootloader may do to the boot record: the state  *)
(* machine that the routines implement together.                           *)
RecordMoves ==
    \/ UNCHANGED <<md, launches>>
    \/ md.state \in Replacing /\ UNCHANGED md /\ launches' = 0
    \/ Turns(Requested, Requested) /\ SameVersions(md', md)
    \/ Turns(Requested, {"INSTALLING"}) /\ SameVersions(md', md)
    \/ Turns(Replacing, Replacing) /\ SameVersions(md', md)
    \/ /\ md.state \in Replacing /\ md'.state = "TRIAL_BOOT" /\ SameVersions(md', md)
       /\ md'.boot_attempts = 0 /\ launches' = 0
    \/ /\ Turns({"TRIAL_BOOT"}, {"TRIAL_BOOT"}) /\ SameVersions(md', md)
       /\ md.boot_attempts < MAX_BOOT_ATTEMPTS /\ md'.boot_attempts = md.boot_attempts + 1
    \/ /\ Turns({"CONFIRMED"}, {"IDLE"})
       /\ md'.active_version = md.pending_version /\ md'.pending_version = 0
    \/ /\ Turns(Replacing \cup {"TRIAL_BOOT"}, {"ROLLBACK"}) /\ SameVersions(md', md)
       /\ md.state \in Replacing \/ LastTrial
    \/ /\ Turns({"ROLLBACK"}, {"ROLLBACK"}) /\ SameVersions(md', md)
       /\ md'.last_error = md.last_error
    \/ /\ \/ Turns(Requested \cup {"ROLLBACK"}, {"IDLE"})
          \/ pc = "revertCommit" /\ Turns({"INSTALLING"}, {"IDLE"})
       /\ md'.active_version = md.active_version /\ md'.pending_version = 0
       /\ md.state = "ROLLBACK" => md'.last_error = md.last_error
    \/ /\ Turns(UpdateState, {"FAILED"}) /\ SameVersions(md', md)
       /\ md.state \in Requested \cup Replacing \cup {"ROLLBACK"} \/ LastTrial

(* A step of the bootloader that does not start the application.           *)
Outside == pc \notin Application /\ pc' \notin Application /\ RecordMoves

(* The steps of BootManager_Run preserve the invariant, and move the record *)
(* as RecordMoves says or start the application.                           *)
LEMMA BootKeeps ==
    ASSUME HostFollowsPlan, NodeInv, TypeOK', BootStep
    PROVE  Consistent' /\ (Outside \/ BootJump)
<1>0. Facts /\ NodeConstants /\ w \in MetadataType
  BY FactsHold, NodeConstantsHold DEF NodeInv, TypeOK, RamTypeOK
<1> DEFINE m_a == PreparedAttempt(w)
<1>a. ASSUME TrialPrepareAttempt PROVE
      /\ m_a.state = "TRIAL_BOOT" /\ m_a.boot_attempts = md.boot_attempts + 1
      /\ SameVersions(m_a, md)
      /\ CommitStep(m_a, "jumpTrial", "fatal") /\ UNCHANGED guarded
  BY <1>0, <1>a, PreparedAttemptRecord, TrialCommits
     DEF TrialPrepareAttempt, NodeInv, Consistent, StatesAt, WorkingCopy, SameVersions, Facts
<1> DEFINE m_b == IdleFields(w, w.pending_version, "none")
<1>b. ASSUME TrialFinalizeConfirmation PROVE
      /\ m_b.state = "IDLE" /\ m_b.active_version = md.pending_version /\ m_b.pending_version = 0
      /\ CommitAndReturn(m_b) /\ UNCHANGED <<launches, guarded>>
  <2>1. w = md /\ SameVersions(w, md)
    BY <1>b DEF TrialFinalizeConfirmation, NodeInv, Consistent, WorkingCopy, SameVersions
  <2>2. w.pending_version \in Versions /\ "none" \in Diagnostics
    <3>1. w.pending_version > md.active_version
      BY <1>b, <2>1 DEF TrialFinalizeConfirmation, NodeInv, Consistent, StatesAt, Newer,
            SameVersions
    <3>2. md.active_version \in Nat \ {0} /\ w.pending_version \in Versions \cup {0}
      BY <1>0 DEF Facts
    <3> QED BY <3>1, <3>2 DEF Diagnostics
  <2>3. m_b.state = "IDLE" /\ m_b.active_version = w.pending_version /\ m_b.pending_version = 0
    BY <1>0 DEF IdleFields, MetadataType
  <2> QED BY <1>b, <2>1, <2>3, TrialCommits DEF FinalizedConfirmation, SameVersions
<1>D. ASSUME BootDispatch PROVE
      /\ w = md /\ passes < MAX_BOOT_TRANSITIONS
      /\ pc' \in {"fatal", "isIncoming", "install", "rollback", "confirmed", "prepare", "jump"}
      /\ pc' = "isIncoming" => md.state \in Container
      /\ pc' = "install" => md.state \in {"IMAGE_READY", "BACKING_UP"} \cup Replacing
      /\ pc' = "confirmed" => md.state = "CONFIRMED"
      /\ pc' = "jump" => md.state = "IDLE"
      /\ pc' = "prepare" => md.state = "TRIAL_BOOT" /\ md.boot_attempts < MAX_BOOT_ATTEMPTS
      /\ pc' = "rollback" => \/ md.state = "ROLLBACK"
                             \/ md.state = "TRIAL_BOOT" /\ md.boot_attempts = MAX_BOOT_ATTEMPTS
  <2>1. w = md /\ FieldsAreValid(w) /\ md.state # "RECEIVING" /\ md.state \in UpdateState
    BY <1>0, <1>D DEF BootDispatch, NodeInv, Consistent, StatesAt, WorkingCopy, TypeOK,
          FlashTypeOK, Facts
  <2>2. md.state = "TRIAL_BOOT" => ApplicationValid
    <3>1. md.state = "TRIAL_BOOT" => ImageHeld(app, md.pending_version) /\ md.pending_version # 0
      <4>1. md.state = "TRIAL_BOOT" => md.pending_version > md.active_version
        BY DEF NodeInv, Consistent, Newer
      <4>2. md.active_version \in Nat \ {0}
        BY <1>0 DEF Facts
      <4> QED BY <4>1, <4>2 DEF NodeInv, Consistent, NoImageLoss
    <3> QED BY <1>0, <3>1 DEF Facts, NodeConstants, ApplicationValid
  <2>3. passes < MAX_BOOT_TRANSITIONS
    BY PassesBelow
  <2>4. ApplicationValid \in BOOLEAN
    BY DEF ApplicationValid
  <2> DEFINE action == BootDecision_Evaluate(md, ApplicationValid)
  <2>5. /\ action \in {"STAY_RECOVERY", "JUMP_ACTIVE", "CONTAINER", "INSTALL", "RESUME_ROLLBACK",
                       "BOOT_TRIAL", "FINALIZE_CONFIRMATION"}
        /\ action = "JUMP_ACTIVE" => md.state = "IDLE"
        /\ action = "CONTAINER" => md.state \in Container
        /\ action = "INSTALL" => md.state \in {"IMAGE_READY", "BACKING_UP"} \cup Replacing
        /\ action = "FINALIZE_CONFIRMATION" => md.state = "CONFIRMED"
        /\ action = "BOOT_TRIAL" => md.state = "TRIAL_BOOT" /\ ~AttemptsExhausted(md)
        /\ action = "RESUME_ROLLBACK" =>
              md.state = "ROLLBACK" \/ (md.state = "TRIAL_BOOT" /\ AttemptsExhausted(md))
    BY <2>1, <2>2, <2>4 DEF BootDecision_Evaluate, UpdateState, Container, Replacing
  <2> HIDE DEF action
  <2>6. md.boot_attempts \in 0..MAX_BOOT_ATTEMPTS
    BY <1>0 DEF Facts
  <2>7. pc' = CASE action = "STAY_RECOVERY" -> "fatal"
                [] action = "CONTAINER" -> "isIncoming"
                [] action = "INSTALL" -> "install"
                [] action = "RESUME_ROLLBACK" -> "rollback"
                [] action = "FINALIZE_CONFIRMATION" -> "confirmed"
                [] action = "BOOT_TRIAL" -> "prepare"
                [] action = "JUMP_ACTIVE" -> "jump"
    BY <1>0, <1>D, <2>1, <2>3, <2>5 DEF BootDispatch, action, Facts, MAX_BOOT_TRANSITIONS
  <2> QED BY <2>1, <2>3, <2>5, <2>6, <2>7 DEF AttemptsExhausted
<1>J. /\ ckpt.state # "IDLE" =>
           /\ RestoredSession.state = ckpt.state /\ RestoredSession.version = ckpt.version
           /\ RestoredSession.artifact = ckpt.artifact
           /\ RestoredSession.received = (ckpt.state = "ARTIFACT_READY")
      /\ ckpt.state = "IDLE" => RestoredSession.state \in {"IDLE", "TRIAL_BOOT", "CONFIRMED"}
      /\ ckpt.state = "IDLE" /\ md.state = "TRIAL_BOOT" => RestoredSession.state = "TRIAL_BOOT"
  <2>1. NoSession \in Session
    BY Constants
  <2>2. \A s \in UpdateState : [NoSession EXCEPT !.state = s].state = s
    BY <2>1 DEF Session
  <2>3. \A s \in UpdateState : \A v : [NoSession EXCEPT !.state = s, !.version = v].state = s
    BY <2>1 DEF Session
  <2> QED BY <2>2, <2>3 DEF RestoredSession, UpdateState
<1> HIDE DEF m_a, m_b
<1>M. Outside \/ BootJump
  <2> USE DEF NodeInv, Consistent, StatesAt, Application, Outside, RecordMoves, Turns, LastTrial,
              Container, Requested, Replacing, UpdateState
  <2>1. CASE TrialPrepareAttempt
    BY <1>0, <1>a, <2>1
       DEF TrialPrepareAttempt, CommitStep, Committed, NotCommitted, Facts
  <2>2. CASE TrialFinalizeConfirmation
    BY <1>0, <1>b, <2>2
       DEF TrialFinalizeConfirmation, CommitAndReturn, Committed, NotCommitted, NextPass, Goto
  <2>3. CASE BootLoad
    BY <2>3 DEF BootLoad, Goto, flash, env
  <2>4. CASE BootDispatch
    BY <1>D, <2>4 DEF BootDispatch, flash, env
  <2>5. CASE BootIsIncoming
    BY <2>5 DEF BootIsIncoming, flash, world
  <2>6. CASE BootIsIncomingLegacy
    BY <2>6 DEF BootIsIncomingLegacy, flash, world, LegacyRoute
  <2>7. CASE BootJump
    BY <2>7 DEF BootJump, flash, world
  <2> QED BY <2>1, <2>2, <2>3, <2>4, <2>5, <2>6, <2>7 DEF BootStep
<1> SUFFICES Consistent'
  BY <1>M
<1> USE DEF NodeInv, Facts, NodeConstants, Consistent, StatesAt, WorkingCopy, PassBound,
      NoImageLoss, Backups, Candidates, Newer, Transfers, Starts, NodeInv, Labels, Application,
      Container, Requested, Replacing, BackupRetained, BackupHolds, BackupValid, Candidate,
      IsBareImage, Named, SameForm, SameVersions, Rank, MAX_BOOT_TRANSITIONS, LaunchCap, Goto,
      Fault, Reset, NextPass, CheckpointStored, CheckpointFails, ClearBestEffort, records,
      world, flash, ram, env, vars, EnvKept, InSecure, At, Quiet, InApp, AppKept
<1>1. CASE BootLoad
  BY <1>0, <1>1 DEF BootLoad
<1>2. CASE BootDispatch
  <2>1. pc = "decide" /\ UNCHANGED <<w, passes, mustReject, session, trial, flash, env>>
    BY <1>2 DEF BootDispatch
  <2>11. StatesAt'
    BY <1>0, <1>2, <1>D, <2>1
  <2>12. WorkingCopy'
    BY <1>0, <1>2, <1>D, <2>1
  <2>13. PassBound'
    BY <1>0, <1>2, <1>D, <2>1
  <2>14. NoImageLoss'
    BY <1>0, <1>2, <1>D, <2>1
  <2>15. Backups'
    BY <1>0, <1>2, <1>D, <2>1
  <2>16. Candidates'
    BY <1>0, <1>2, <1>D, <2>1
  <2>17. Newer'
    BY <1>0, <1>2, <1>D, <2>1
  <2>18. Transfers'
    BY <1>0, <1>2, <1>D, <2>1
  <2>19. Starts'
    BY <1>0, <1>2, <1>D, <2>1
  <2> QED BY <2>11, <2>12, <2>13, <2>14, <2>15, <2>16, <2>17, <2>18, <2>19
<1>3. CASE BootIsIncoming
  BY <1>0, <1>3 DEF BootIsIncoming
<1>4. CASE BootIsIncomingLegacy
  BY <1>0, <1>4 DEF BootIsIncomingLegacy, LegacyRoute, DeltaPatcher_IsDeltaArtifact
<1>5. CASE TrialPrepareAttempt
  BY <1>0, <1>5, <1>a DEF TrialPrepareAttempt, CommitStep, Committed, NotCommitted
<1>6. CASE TrialFinalizeConfirmation
  BY <1>0, <1>6, <1>b DEF TrialFinalizeConfirmation, CommitAndReturn, Committed, NotCommitted
<1>7. CASE BootJump
  <2> USE DEF BootJump, WatchdogStarted, MinOf
  <2>1. /\ StatesAt' /\ WorkingCopy' /\ PassBound' /\ NoImageLoss' /\ Backups' /\ Candidates'
        /\ Starts'
    <3>1. StatesAt' /\ WorkingCopy'
      BY <1>0, <1>7
    <3>2. PassBound'
      BY <1>0, <1>7
    <3>3. NoImageLoss' /\ Backups' /\ Candidates'
      BY <1>0, <1>7
    <3>4. Starts'
      BY <1>0, <1>7
    <3> QED BY <3>1, <3>2, <3>3, <3>4
  <2>2. session' = RestoredSession \/ session' = StorageLost
    BY <1>7
  <2>3. CASE session' = StorageLost
    BY <1>0, <1>7, <2>1, <2>3
  <2>4. CASE session' = RestoredSession /\ ckpt.state = "IDLE"
    BY <1>0, <1>7, <1>J, <2>1, <2>4
  <2>5. CASE session' = RestoredSession /\ ckpt.state # "IDLE"
    <3>1. /\ session'.state = ckpt.state /\ session'.version = ckpt.version
          /\ session'.artifact = ckpt.artifact
          /\ ~session'.received => ckpt.state # "ARTIFACT_READY"
      BY <1>J, <2>5
    <3> QED BY <1>0, <1>7, <2>1, <2>5, <3>1
  <2> QED BY <2>2, <2>3, <2>4, <2>5
<1> QED BY <1>1, <1>2, <1>3, <1>4, <1>5, <1>6, <1>7 DEF BootStep

(* The steps of SecureContainer_Process do too.                            *)
LEMMA SecureKeeps ==
    ASSUME HostFollowsPlan, NodeInv, TypeOK', SecureStep
    PROVE  Consistent' /\ Outside
<1>0. Facts /\ NodeConstants /\ w \in MetadataType
  BY FactsHold, NodeConstantsHold DEF NodeInv, TypeOK, RamTypeOK
<1> DEFINE m_a == Transition(w, NextSecureState(w.state, incoming.kind))
<1>a. ASSUME SecureTransition PROVE
      /\ m_a.state \in Container /\ SameVersions(m_a, md)
      /\ CommitStep(m_a, "transition", "fatal") /\ UNCHANGED guarded
  BY <1>0, <1>a, TransitionRecord
     DEF SecureTransition, NodeInv, Consistent, StatesAt, WorkingCopy, SameVersions, Facts,
           NextSecureState, Container, UpdateState
<1> DEFINE m_b == ImageReady(w, ImageSize[incoming.target])
<1>b. ASSUME SecureFinish PROVE
      /\ m_b.state = "IMAGE_READY" /\ SameVersions(m_b, md)
      /\ UNCHANGED guarded
      /\ CommitStep(m_b, "fatal", "fatal") \/ (CommitAndReturn(m_b) /\ UNCHANGED launches)
  BY <1>0, <1>b, ImageReadyRecord
     DEF SecureFinish, NodeInv, Consistent, StatesAt, WorkingCopy, SameVersions, Facts
<1> DEFINE m_c == IdleFields(w, w.active_version, "secure")
<1>c. ASSUME RejectCommit PROVE
      /\ m_c.state = "IDLE" /\ m_c.active_version = md.active_version /\ m_c.pending_version = 0
      /\ CommitAndReturn(m_c) /\ UNCHANGED <<launches, guarded>>
  <2>1. w = md /\ SameVersions(w, md)
    BY <1>c DEF RejectCommit, NodeInv, Consistent, WorkingCopy, SameVersions
  <2>2. w.active_version \in Versions /\ "secure" \in Diagnostics
    BY <1>0 DEF Facts, Diagnostics
  <2>3. m_c.state = "IDLE" /\ m_c.active_version = w.active_version /\ m_c.pending_version = 0
    BY <1>0 DEF IdleFields, MetadataType
  <2> QED BY <1>c, <2>1, <2>3 DEF RejectCommit, SameVersions
<1> HIDE DEF m_a, m_b, m_c
<1>M. Outside
  <2> USE DEF NodeInv, Consistent, StatesAt, Application, Outside, RecordMoves, Turns, LastTrial,
              Container, Requested, Replacing, UpdateState
  <2>1. CASE SecureTransition
    BY <1>0, <1>a, <2>1
       DEF SecureTransition, CommitStep, Committed, NotCommitted
  <2>2. CASE SecureFinish
    BY <1>0, <1>b, <2>2
       DEF SecureFinish, CommitStep, CommitAndReturn, Committed, NotCommitted, NextPass, Goto
  <2>3. CASE RejectCommit
    BY <1>0, <1>c, <2>3
       DEF RejectCommit, CommitAndReturn, Committed, NotCommitted, NextPass, Goto
  <2>4. CASE SecureVerify
    BY <2>4 DEF SecureVerify, Goto, EnvKept, InSecure, world, records
  <2>5. CASE SecureBaseRejected
    BY <2>5 DEF SecureBaseRejected, Goto, EnvKept, InSecure, world, records
  <2>6. CASE EraseReconstructed
    BY <2>6 DEF EraseReconstructed, Goto, EnvKept, InSecure, world, records
  <2>7. CASE SecureRebuild
    BY <2>7 DEF SecureRebuild, Goto, EnvKept, InSecure, world, records
  <2>8. CASE VerifyReconstructed
    BY <2>8 DEF VerifyReconstructed, Goto, EnvKept, InSecure, world, records
  <2>9. CASE RejectClear
    BY <2>9 DEF RejectClear, Goto, EnvKept
  <2>10. CASE SecureFault
    BY <2>10 DEF SecureFault, Goto, records, EnvKept, SecureFaultTarget, world
  <2> QED BY <2>1, <2>2, <2>3, <2>4, <2>5, <2>6, <2>7, <2>8, <2>9, <2>10 DEF SecureStep
<1> SUFFICES Consistent'
  BY <1>M
<1> USE DEF NodeInv, Facts, NodeConstants, Consistent, StatesAt, WorkingCopy, PassBound,
      NoImageLoss, Backups, Candidates, Newer, Transfers, Starts, NodeInv, Labels, Application,
      Container, Requested, Replacing, BackupRetained, BackupHolds, BackupValid, Candidate,
      IsBareImage, Named, SameForm, SameVersions, Rank, MAX_BOOT_TRANSITIONS, LaunchCap, Goto,
      Fault, Reset, NextPass, CheckpointStored, CheckpointFails, ClearBestEffort, records,
      world, flash, ram, env, vars, EnvKept, InSecure, At, Quiet, InApp, AppKept
<1>1. CASE SecureVerify
  BY <1>0, <1>1 DEF SecureVerify, SecureContainer_LoadVerifiedInfo, ReadHeader,
        HashAndCrcPayload, ValidateMetadataPolicy
<1>2. CASE SecureTransition
  BY <1>0, <1>2, <1>a DEF SecureTransition, CommitStep, Committed, NotCommitted
<1>3. CASE SecureBaseRejected
  BY <1>0, <1>3 DEF SecureBaseRejected, BaseAccepted, ValidateBase
<1>4. CASE EraseReconstructed
  BY <1>0, <1>4 DEF EraseReconstructed, BaseAccepted, ValidateBase
<1>5. CASE SecureRebuild
  BY <1>0, <1>5 DEF SecureRebuild
<1>6. CASE VerifyReconstructed
  BY <1>0, <1>6 DEF VerifyReconstructed
<1>7. CASE SecureFinish
  BY <1>0, <1>7, <1>b DEF SecureFinish, CommitStep, CommitAndReturn, Committed, NotCommitted
<1>8. CASE RejectClear
  BY <1>0, <1>8 DEF RejectClear
<1>9. CASE RejectCommit
  BY <1>0, <1>9, <1>c DEF RejectCommit, CommitAndReturn, Committed, NotCommitted
<1>10. CASE SecureFault
  BY <1>0, <1>10 DEF SecureFault, SecureFaultTarget, BaseAccepted, ValidateBase
<1> QED BY <1>1, <1>2, <1>3, <1>4, <1>5, <1>6, <1>7, <1>8, <1>9, <1>10 DEF SecureStep

(* The steps of the patcher do too.                                        *)
LEMMA DeltaKeeps ==
    ASSUME HostFollowsPlan, NodeInv, TypeOK', DeltaStep
    PROVE  Consistent' /\ Outside
<1>0. Facts /\ NodeConstants /\ w \in MetadataType
  BY FactsHold, NodeConstantsHold DEF NodeInv, TypeOK, RamTypeOK
<1> DEFINE m_a == Transition(w, NextSecureState(w.state, "DELTA"))
<1>a. ASSUME DeltaTransition PROVE
      /\ m_a.state \in Container /\ SameVersions(m_a, md)
      /\ CommitStep(m_a, "deltaStep", "fatal") /\ UNCHANGED guarded
  BY <1>0, <1>a, TransitionRecord
     DEF DeltaTransition, NodeInv, Consistent, StatesAt, WorkingCopy, SameVersions, Facts,
           NextSecureState, Container, UpdateState
<1> DEFINE m_b == ImageReady(w, ImageSize[incoming.target])
<1>b. ASSUME DeltaFinish PROVE
      /\ m_b.state = "IMAGE_READY" /\ SameVersions(m_b, md)
      /\ CommitAndReturn(m_b) /\ UNCHANGED <<launches, guarded>>
  BY <1>0, <1>b, ImageReadyRecord
     DEF DeltaFinish, NodeInv, Consistent, StatesAt, WorkingCopy, SameVersions, Facts
<1> DEFINE m_c == IdleFields(w, w.active_version, "delta")
<1>c. ASSUME RejectDelta PROVE
      /\ m_c.state = "IDLE" /\ m_c.active_version = md.active_version /\ m_c.pending_version = 0
      /\ CommitAndReturn(m_c) /\ UNCHANGED <<launches, guarded>>
  <2>1. w = md /\ SameVersions(w, md)
    BY <1>c DEF RejectDelta, NodeInv, Consistent, WorkingCopy, SameVersions
  <2>2. w.active_version \in Versions /\ "delta" \in Diagnostics
    BY <1>0 DEF Facts, Diagnostics
  <2>3. m_c.state = "IDLE" /\ m_c.active_version = w.active_version /\ m_c.pending_version = 0
    BY <1>0 DEF IdleFields, MetadataType
  <2> QED BY <1>c, <2>1, <2>3 DEF RejectDelta, SameVersions
<1> HIDE DEF m_a, m_b, m_c
<1>M. Outside
  <2> USE DEF NodeInv, Consistent, StatesAt, Application, Outside, RecordMoves, Turns, LastTrial,
              Container, Requested, Replacing, UpdateState
  <2>1. CASE DeltaTransition
    BY <1>0, <1>a, <2>1
       DEF DeltaTransition, CommitStep, Committed, NotCommitted
  <2>2. CASE DeltaFinish
    BY <1>0, <1>b, <2>2
       DEF DeltaFinish, CommitAndReturn, Committed, NotCommitted, NextPass, Goto
  <2>3. CASE RejectDelta
    BY <1>0, <1>c, <2>3
       DEF RejectDelta, CommitAndReturn, Committed, NotCommitted, NextPass, Goto
  <2>4. CASE DeltaVerify
    BY <2>4 DEF DeltaVerify, Goto, EnvKept, InSecure, world, records
  <2>5. CASE DeltaPayloadRejected
    BY <2>5 DEF DeltaPayloadRejected, Goto, EnvKept, InSecure, world, records
  <2>6. CASE DeltaErase
    BY <2>6 DEF DeltaErase, Goto, EnvKept, InSecure, world, records
  <2>7. CASE DeltaApply
    BY <2>7 DEF DeltaApply, Goto, EnvKept, InSecure, world, records
  <2>8. CASE VerifyTarget
    BY <2>8 DEF VerifyTarget, Goto, EnvKept, InSecure, world, records
  <2>9. CASE RejectDeltaClear
    BY <2>9 DEF RejectDeltaClear, Goto, EnvKept
  <2>10. CASE DeltaFault
    BY <2>10 DEF DeltaFault, Goto, records, EnvKept, DeltaFaultTarget, world
  <2> QED BY <2>1, <2>2, <2>3, <2>4, <2>5, <2>6, <2>7, <2>8, <2>9, <2>10 DEF DeltaStep
<1> SUFFICES Consistent'
  BY <1>M
<1> USE DEF NodeInv, Facts, NodeConstants, Consistent, StatesAt, WorkingCopy, PassBound,
      NoImageLoss, Backups, Candidates, Newer, Transfers, Starts, NodeInv, Labels, Application,
      Container, Requested, Replacing, BackupRetained, BackupHolds, BackupValid, Candidate,
      IsBareImage, Named, SameForm, SameVersions, Rank, MAX_BOOT_TRANSITIONS, LaunchCap, Goto,
      Fault, Reset, NextPass, CheckpointStored, CheckpointFails, ClearBestEffort, records,
      world, flash, ram, env, vars, EnvKept, InSecure, At, Quiet, InApp, AppKept
<1>1. CASE DeltaVerify
  BY <1>0, <1>1 DEF DeltaVerify, DeltaPatch_ParseHeader, ValidateHeaderAgainstMetadata
<1>2. CASE DeltaTransition
  BY <1>0, <1>2, <1>a DEF DeltaTransition, CommitStep, Committed, NotCommitted
<1>3. CASE DeltaPayloadRejected
  BY <1>0, <1>3 DEF DeltaPayloadRejected, DeltaAccepted, ValidatePatchCrc, ValidateDeltaBase
<1>4. CASE DeltaErase
  BY <1>0, <1>4 DEF DeltaErase, DeltaAccepted, ValidatePatchCrc, ValidateDeltaBase
<1>5. CASE DeltaApply
  BY <1>0, <1>5 DEF DeltaApply
<1>6. CASE VerifyTarget
  BY <1>0, <1>6 DEF VerifyTarget
<1>7. CASE DeltaFinish
  BY <1>0, <1>7, <1>b DEF DeltaFinish, CommitAndReturn, Committed, NotCommitted
<1>8. CASE RejectDeltaClear
  BY <1>0, <1>8 DEF RejectDeltaClear
<1>9. CASE RejectDelta
  BY <1>0, <1>9, <1>c DEF RejectDelta, CommitAndReturn, Committed, NotCommitted
<1>10. CASE DeltaFault
  BY <1>0, <1>10 DEF DeltaFault, DeltaFaultTarget, DeltaAccepted, ValidatePatchCrc,
        ValidateDeltaBase
<1> QED BY <1>1, <1>2, <1>3, <1>4, <1>5, <1>6, <1>7, <1>8, <1>9, <1>10 DEF DeltaStep

(* The steps of the installer and of the rollback do too.                  *)
LEMMA InstallKeeps ==
    ASSUME HostFollowsPlan, NodeInv, TypeOK', InstallStep
    PROVE  Consistent' /\ Outside
<1>0. Facts /\ NodeConstants /\ w \in MetadataType
  BY FactsHold, NodeConstantsHold DEF NodeInv, TypeOK, RamTypeOK
<1> DEFINE m_a == BackingUp(w)
<1>a. ASSUME BeginBackup PROVE
      /\ m_a.state = "BACKING_UP" /\ SameVersions(m_a, md)
      /\ CommitStep(m_a, "backup", "markFailed") /\ UNCHANGED guarded
  BY <1>0, <1>a, BackingUpRecord
     DEF BeginBackup, NodeInv, Consistent, StatesAt, WorkingCopy, SameVersions, Facts
<1> DEFINE m_b == AtOffset(w, BackupProgress_NextCheckpoint(w.copy_offset))
<1>b. ASSUME BackupCheckpoint PROVE
      /\ m_b.state = "BACKING_UP" /\ SameVersions(m_b, md)
      /\ CommitStep(m_b, "backup", "revert") /\ UNCHANGED guarded
  <2>1. w = md /\ SameVersions(w, md)
    BY <1>b DEF BackupCheckpoint, NodeInv, Consistent, WorkingCopy, SameVersions
  <2>2. BackupProgress_NextCheckpoint(w.copy_offset) \in 0..APPLICATION_MAX_SIZE
    BY <1>0 DEF BackupProgress_NextCheckpoint, MinOf, Facts
  <2>3. m_b.state = w.state /\ SameVersions(m_b, w)
    BY <1>0, <2>2, AtOffsetRecord
  <2> QED BY <1>b, <2>1, <2>3 DEF BackupCheckpoint, NodeInv, Consistent, StatesAt, SameVersions
<1> DEFINE m_c == Installing(w)
<1>c. ASSUME BackupComplete PROVE
      /\ m_c.state = "INSTALLING" /\ SameVersions(m_c, md)
      /\ CommitStep(m_c, "validateBackup", "revert")
      /\ guarded' = (IF md'.state = "INSTALLING" THEN md.active_version ELSE guarded)
  BY <1>0, <1>c, InstallingRecord
     DEF BackupComplete, NodeInv, Consistent, StatesAt, WorkingCopy, SameVersions, Facts
<1> DEFINE m_d == Installing(w)
<1>d. ASSUME BeginInstall PROVE
      /\ m_d.state = "INSTALLING" /\ SameVersions(m_d, md)
      /\ CommitStep(m_d, "copy", "fatal") /\ UNCHANGED guarded
  BY <1>0, <1>d, InstallingRecord
     DEF BeginInstall, NodeInv, Consistent, StatesAt, WorkingCopy, SameVersions, Facts
<1> DEFINE m_e == AtOffset(w, InstallProgress_NextCheckpoint(ImageSize[Candidate], w.copy_offset))
<1>e. ASSUME InstallCheckpoint PROVE
      /\ m_e.state = "INSTALLING" /\ SameVersions(m_e, md)
      /\ CommitStep(m_e, "copy", "fatal") /\ UNCHANGED guarded
  <2>1. w = md /\ SameVersions(w, md)
    BY <1>e DEF InstallCheckpoint, NodeInv, Consistent, WorkingCopy, SameVersions
  <2>2. InstallProgress_NextCheckpoint(ImageSize[Candidate],
        w.copy_offset) \in 0..APPLICATION_MAX_SIZE
    <3>1. ImageSize[Candidate] \in 0..APPLICATION_MAX_SIZE
      BY <1>0 DEF Candidate, Facts
    <3> QED BY <1>0, <3>1 DEF InstallProgress_NextCheckpoint, MinOf, Facts
  <2>3. m_e.state = w.state /\ SameVersions(m_e, w)
    BY <1>0, <2>2, AtOffsetRecord
  <2> QED BY <1>e, <2>1, <2>3 DEF InstallCheckpoint, NodeInv, Consistent, StatesAt, SameVersions
<1> DEFINE m_f == VerifyingInstall(w, ImageSize[Candidate])
<1>f. ASSUME TransitionToVerify PROVE
      /\ m_f.state = "VERIFYING_INSTALL" /\ SameVersions(m_f, md)
      /\ CommitStep(m_f, "verify", "fatal") /\ UNCHANGED guarded
  BY <1>0, <1>f, VerifyingInstallRecord
     DEF TransitionToVerify, NodeInv, Consistent, StatesAt, WorkingCopy, SameVersions, Facts,
           Candidate
<1> DEFINE m_g == TrialBoot(w)
<1>g. ASSUME TransitionToTrialBoot PROVE
      /\ m_g.state = "TRIAL_BOOT" /\ m_g.boot_attempts = 0 /\ SameVersions(m_g, md)
      /\ CommitAndReturn(m_g) /\ launches' = 0 /\ UNCHANGED guarded
  BY <1>0, <1>g, TrialBootRecord
     DEF TransitionToTrialBoot, NodeInv, Consistent, StatesAt, WorkingCopy, SameVersions, Facts
<1> DEFINE m_h == IdleFields(w, w.active_version, "installer")
<1>h. ASSUME RevertCommit PROVE
      /\ m_h.state = "IDLE" /\ m_h.active_version = md.active_version /\ m_h.pending_version = 0
      /\ CommitAndReturn(m_h) /\ UNCHANGED launches
      /\ guarded' = (IF md'.state = "IDLE" THEN 0 ELSE guarded)
  <2>1. SameVersions(w, md)
    BY <1>h DEF RevertCommit, NodeInv, Consistent, WorkingCopy, SameVersions
  <2>2. w.active_version \in Versions /\ "installer" \in Diagnostics
    BY <1>0 DEF Facts, Diagnostics
  <2>3. m_h.state = "IDLE" /\ m_h.active_version = w.active_version /\ m_h.pending_version = 0
    BY <1>0 DEF IdleFields, MetadataType
  <2> QED BY <1>h, <2>1, <2>3 DEF RevertCommit, SameVersions
<1> DEFINE m_i == MarkedFailed(w)
<1>i. ASSUME BestEffortMarkFailed PROVE
      /\ m_i.state = "FAILED" /\ SameVersions(m_i, md)
      /\ CommitStep(m_i, "fatal", "fatal") /\ UNCHANGED guarded
  BY <1>0, <1>i, MarkedFailedRecord
     DEF BestEffortMarkFailed, NodeInv, Consistent, StatesAt, WorkingCopy, SameVersions, Facts
<1> DEFINE m_j == BeginRollback(w, "install")
<1>j. ASSUME RollbackAfterInstallFailure PROVE
      /\ m_j.state = "ROLLBACK" /\ SameVersions(m_j, md)
      /\ CommitStep(m_j, "rollback", "fatal") /\ UNCHANGED guarded
  BY <1>0, <1>j, BeginRollbackRecord
     DEF RollbackAfterInstallFailure, NodeInv, Consistent, StatesAt, WorkingCopy, SameVersions,
           Facts, Diagnostics
<1> DEFINE m_k == BeginRollback(w, RollbackDiagnostic(w))
<1>k. ASSUME RollbackBegin PROVE
      /\ m_k.state = "ROLLBACK" /\ SameVersions(m_k, md)
      /\ CommitStep(m_k, "restore", "fatal") /\ UNCHANGED guarded
  BY <1>0, <1>k, BeginRollbackRecord
     DEF RollbackBegin, NodeInv, Consistent, StatesAt, WorkingCopy, SameVersions, Facts
<1> DEFINE m_l == RestoredTo(w, InstallProgress_NextCheckpoint(APPLICATION_MAX_SIZE,
      w.copy_offset))
<1>l. ASSUME RollbackCheckpoint PROVE
      /\ m_l.state = "ROLLBACK" /\ SameVersions(m_l, md) /\ m_l.last_error = md.last_error
      /\ CommitStep(m_l, "restore", "markFailed") /\ UNCHANGED guarded
  <2>1. w = md /\ SameVersions(w, md)
    BY <1>l DEF RollbackCheckpoint, NodeInv, Consistent, WorkingCopy, SameVersions
  <2>2. InstallProgress_NextCheckpoint(APPLICATION_MAX_SIZE,
        w.copy_offset) \in 0..APPLICATION_MAX_SIZE
    BY <1>0 DEF InstallProgress_NextCheckpoint, MinOf, Facts
  <2>3. m_l.state = w.state /\ SameVersions(m_l, w) /\ m_l.last_error = w.last_error
    BY <1>0, <2>2, RestoredToRecord
  <2> QED BY <1>l, <2>1, <2>3 DEF RollbackCheckpoint, NodeInv, Consistent, StatesAt, SameVersions
<1> DEFINE m_m == IdleFields(w, bkHdr.version, RollbackDiagnostic(w))
<1>m. ASSUME FinalizeRollback PROVE
      /\ m_m.state = "IDLE" /\ m_m.active_version = md.active_version /\ m_m.pending_version = 0
      /\ m_m.last_error = md.last_error
      /\ CommitAndReturn(m_m) /\ UNCHANGED launches
      /\ guarded' = (IF md'.state = "IDLE" THEN 0 ELSE guarded)
  <2>1. w = md /\ SameVersions(w, md)
    BY <1>m DEF FinalizeRollback, NodeInv, Consistent, WorkingCopy, SameVersions
  <2>2. bkHdr.version \in Versions /\ RollbackDiagnostic(w) \in Diagnostics
    BY <1>0, <1>m, <2>1 DEF FinalizeRollback, StatesAt, NoImageLoss, BackupHolds, NodeInv,
          Consistent, SameVersions, Facts, Diagnostics
  <2>3. m_m.state = "IDLE" /\ m_m.active_version = bkHdr.version /\ m_m.pending_version = 0
        /\ m_m.last_error = RollbackDiagnostic(w)
    BY <1>0 DEF IdleFields, MetadataType
  <2> QED BY <1>0, <1>m, <2>1, <2>3 DEF FinalizeRollback, StatesAt, NodeInv, Consistent,
        NoImageLoss, BackupHolds, Facts, SameVersions
<1>S. ASSUME InstallStart PROVE
      /\ w = md
      /\ \/ Goto("installRollback") /\ md.state \in Replacing
         \/ Goto("revert") /\ md.state \in {"ARTIFACT_READY", "IMAGE_READY", "BACKING_UP"}
         \/ /\ Candidate = md.pending_version
            /\ \/ Goto("invalidate") /\ md.state \in {"ARTIFACT_READY", "IMAGE_READY"}
               \/ Goto("backup") /\ md.state = "BACKING_UP"
               \/ Goto("validateBackup") /\ md.state \in Replacing
  <2>1. /\ w = md
        /\ md.state \in {"ARTIFACT_READY", "IMAGE_READY", "BACKING_UP"} \cup Replacing
    BY <1>S DEF InstallStart, At, NodeInv, Consistent, StatesAt, WorkingCopy
  <2>2. LoadCandidateSource(md) => Candidate = md.pending_version
    BY DEF LoadCandidateSource, FullRecordMatchesMetadata, Candidate, NodeInv, Consistent,
          Transfers
  <2> DEFINE accepted == LoadCandidateSource(md) /\ ValidateExternalSource
  <2>3. Goto(CASE ~accepted -> IF InternalMayBeModified(md) THEN "installRollback" ELSE "revert"
              [] accepted /\ md.state \in {"ARTIFACT_READY", "IMAGE_READY"} -> "invalidate"
              [] accepted /\ md.state = "BACKING_UP" -> "backup"
              [] accepted /\ InternalMayBeModified(md) -> "validateBackup")
    BY <1>S, <2>1 DEF InstallStart
  <2>4. accepted => Candidate = md.pending_version
    BY <2>2
  <2>5. accepted \in BOOLEAN
    BY DEF LoadCandidateSource, ValidateExternalSource
  <2> HIDE DEF accepted
  <2> QED BY <2>1, <2>3, <2>4, <2>5 DEF InternalMayBeModified, Replacing
<1> HIDE DEF m_a, m_b, m_c, m_d, m_e, m_f, m_g, m_h, m_i, m_j, m_k, m_l, m_m
<1>M. Outside
  <2> USE DEF NodeInv, Consistent, StatesAt, Application, Outside, RecordMoves, Turns, LastTrial,
              Container, Requested, Replacing, UpdateState
  <2>1. CASE BeginBackup
    BY <1>0, <1>a, <2>1
       DEF BeginBackup, CommitStep, Committed, NotCommitted
  <2>2. CASE BackupCheckpoint
    BY <1>0, <1>b, <2>2
       DEF BackupCheckpoint, CommitStep, Committed, NotCommitted
  <2>3. CASE BackupComplete
    BY <1>0, <1>c, <2>3
       DEF BackupComplete, CommitStep, Committed, NotCommitted
  <2>4. CASE BeginInstall
    BY <1>0, <1>d, <2>4
       DEF BeginInstall, CommitStep, Committed, NotCommitted
  <2>5. CASE InstallCheckpoint
    BY <1>0, <1>e, <2>5
       DEF InstallCheckpoint, CommitStep, Committed, NotCommitted
  <2>6. CASE TransitionToVerify
    BY <1>0, <1>f, <2>6
       DEF TransitionToVerify, CommitStep, Committed, NotCommitted
  <2>7. CASE TransitionToTrialBoot
    BY <1>0, <1>g, <2>7
       DEF TransitionToTrialBoot, CommitAndReturn, Committed, NotCommitted, NextPass, Goto
  <2>8. CASE RevertCommit
    BY <1>0, <1>h, <2>8
       DEF RevertCommit, CommitAndReturn, Committed, NotCommitted, NextPass, Goto
  <2>9. CASE BestEffortMarkFailed
    BY <1>0, <1>i, <2>9
       DEF BestEffortMarkFailed, CommitStep, Committed, NotCommitted, Facts
  <2>10. CASE RollbackAfterInstallFailure
    BY <1>0, <1>j, <2>10
       DEF RollbackAfterInstallFailure, CommitStep, Committed, NotCommitted
  <2>11. CASE RollbackBegin
    BY <1>0, <1>k, <2>11
       DEF RollbackBegin, CommitStep, Committed, NotCommitted
  <2>12. CASE RollbackCheckpoint
    BY <1>0, <1>l, <2>12
       DEF RollbackCheckpoint, CommitStep, Committed, NotCommitted
  <2>13. CASE FinalizeRollback
    BY <1>0, <1>m, <2>13
       DEF FinalizeRollback, CommitAndReturn, Committed, NotCommitted, NextPass, Goto
  <2>14. CASE InstallStart
    BY <1>S, <2>14 DEF InstallStart, Goto, records, At, Quiet, InternalMayBeModified, EnvKept,
          world
  <2>15. CASE BackupInvalidateHeader
    BY <2>15 DEF BackupInvalidateHeader, Goto, records, At, Quiet, EnvKept, world
  <2>16. CASE BackupEraseSector
    BY <2>16 DEF BackupEraseSector, Goto, records, At, Quiet, EnvKept, world
  <2>17. CASE BackupWrite
    BY <2>17 DEF BackupWrite, Goto, records, At, Quiet, EnvKept, world
  <2>18. CASE BackupSeal
    BY <2>18 DEF BackupSeal, Goto, records, At, Quiet, EnvKept, world
  <2>19. CASE InstallCheckBackup
    BY <2>19 DEF InstallCheckBackup, Goto, records, At, Quiet, EnvKept, world
  <2>20. CASE InstallErasePage
    BY <2>20 DEF InstallErasePage, Goto, records, At, Quiet, EnvKept, world
  <2>21. CASE InstallProgramPage
    BY <2>21 DEF InstallProgramPage, Goto, records, At, Quiet, EnvKept, world
  <2>22. CASE InstallVerify
    BY <2>22 DEF InstallVerify, Goto, records, At, Quiet, EnvKept, world
  <2>23. CASE TrialClearCheckpoint
    BY <2>23 DEF TrialClearCheckpoint, Goto, At
  <2>24. CASE RevertClear
    BY <2>24 DEF RevertClear, Goto, At
  <2>25. CASE RollbackStart
    BY <2>25 DEF RollbackStart, Goto, records, At, Quiet, EnvKept, world
  <2>26. CASE RollbackErasePage
    BY <2>26 DEF RollbackErasePage, Goto, records, At, Quiet, EnvKept, world
  <2>27. CASE RollbackProgramPage
    BY <2>27 DEF RollbackProgramPage, Goto, records, At, Quiet, EnvKept, world
  <2>28. CASE RollbackVerify
    BY <2>28 DEF RollbackVerify, Goto, records, At, Quiet, EnvKept, world
  <2>29. CASE RollbackClear
    BY <2>29 DEF RollbackClear, Goto, At
  <2>30. CASE InstallFault
    BY <2>30 DEF InstallFault, Goto, records, At, InstallFaultTarget, world, InternalMayBeModified
  <2> QED BY <2>1, <2>2, <2>3, <2>4, <2>5, <2>6, <2>7, <2>8, <2>9, <2>10, <2>11, <2>12, <2>13,
        <2>14, <2>15, <2>16, <2>17, <2>18, <2>19, <2>20, <2>21, <2>22, <2>23, <2>24, <2>25,
        <2>26, <2>27, <2>28, <2>29, <2>30 DEF InstallStep
<1> SUFFICES Consistent'
  BY <1>M
<1> USE DEF NodeInv, Facts, NodeConstants, Consistent, StatesAt, WorkingCopy, PassBound,
      NoImageLoss, Backups, Candidates, Newer, Transfers, Starts, NodeInv, Labels, Application,
      Container, Requested, Replacing, BackupRetained, BackupHolds, BackupValid, Candidate,
      IsBareImage, Named, SameForm, SameVersions, Rank, MAX_BOOT_TRANSITIONS, LaunchCap, Goto,
      Fault, Reset, NextPass, CheckpointStored, CheckpointFails, ClearBestEffort, records,
      world, flash, ram, env, vars, EnvKept, InSecure, At, Quiet, InApp, AppKept
<1>1. CASE InstallStart
  <2>1. UNCHANGED <<app, md, bk, bkHdr, incoming, rec, records, world>> /\ Quiet
    BY <1>1 DEF InstallStart
  <2> QED BY <1>0, <1>1, <1>S, <2>1
<1>2. CASE BackupInvalidateHeader
  BY <1>0, <1>2 DEF BackupInvalidateHeader
<1>3. CASE BeginBackup
  BY <1>0, <1>3, <1>a DEF BeginBackup, CommitStep, Committed, NotCommitted
<1>4. CASE BackupEraseSector
  BY <1>0, <1>4 DEF BackupEraseSector
<1>5. CASE BackupWrite
  BY <1>0, <1>5 DEF BackupWrite
<1>6. CASE BackupCheckpoint
  BY <1>0, <1>6, <1>b DEF BackupCheckpoint, CommitStep, Committed, NotCommitted
<1>7. CASE BackupSeal
  BY <1>0, <1>7 DEF BackupSeal, BackupCrcMatches, BackupImage_Init
<1>8. CASE BackupComplete
  BY <1>0, <1>8, <1>c DEF BackupComplete, CommitStep, Committed, NotCommitted
<1>9. CASE InstallCheckBackup
  BY <1>0, <1>9 DEF InstallCheckBackup, VerifyInstalledApplication, InternalCrcMatches,
        ApplicationValid
<1>10. CASE BeginInstall
  BY <1>0, <1>10, <1>d DEF BeginInstall, CommitStep, Committed, NotCommitted
<1>11. CASE InstallErasePage
  BY <1>0, <1>11 DEF InstallErasePage
<1>12. CASE InstallProgramPage
  BY <1>0, <1>12 DEF InstallProgramPage, CandidateHeld
<1>13. CASE InstallCheckpoint
  BY <1>0, <1>13, <1>e DEF InstallCheckpoint, CommitStep, Committed, NotCommitted
<1>14. CASE TransitionToVerify
  BY <1>0, <1>14, <1>f DEF TransitionToVerify, CommitStep, Committed, NotCommitted
<1>15. CASE InstallVerify
  BY <1>0, <1>15 DEF InstallVerify, VerifyInstalledApplication, InternalCrcMatches,
        ApplicationValid
<1>16. CASE TrialClearCheckpoint
  BY <1>0, <1>16 DEF TrialClearCheckpoint
<1>17. CASE TransitionToTrialBoot
  BY <1>0, <1>17, <1>g DEF TransitionToTrialBoot, CommitAndReturn, Committed, NotCommitted
<1>18. CASE RevertClear
  BY <1>0, <1>18 DEF RevertClear
<1>19. CASE RevertCommit
  BY <1>0, <1>19, <1>h DEF RevertCommit, CommitAndReturn, Committed, NotCommitted
<1>20. CASE BestEffortMarkFailed
  BY <1>0, <1>20, <1>i DEF BestEffortMarkFailed, CommitStep, Committed, NotCommitted
<1>21. CASE RollbackAfterInstallFailure
  BY <1>0, <1>21, <1>j DEF RollbackAfterInstallFailure, CommitStep, Committed, NotCommitted
<1>22. CASE RollbackStart
  BY <1>0, <1>22 DEF RollbackStart
<1>23. CASE RollbackBegin
  BY <1>0, <1>23, <1>k DEF RollbackBegin, CommitStep, Committed, NotCommitted
<1>24. CASE RollbackErasePage
  BY <1>0, <1>24 DEF RollbackErasePage
<1>25. CASE RollbackProgramPage
  BY <1>0, <1>25 DEF RollbackProgramPage, LoadBackupPage
<1>26. CASE RollbackCheckpoint
  BY <1>0, <1>26, <1>l DEF RollbackCheckpoint, CommitStep, Committed, NotCommitted
<1>27. CASE RollbackVerify
  BY <1>0, <1>27 DEF RollbackVerify, VerifyRolledBackApplication, ApplicationValid
<1>28. CASE RollbackClear
  BY <1>0, <1>28 DEF RollbackClear
<1>29. CASE FinalizeRollback
  BY <1>0, <1>29, <1>m DEF FinalizeRollback, CommitAndReturn, Committed, NotCommitted
<1>30. CASE InstallFault
  BY <1>0, <1>30 DEF InstallFault, InstallFaultTarget, InternalMayBeModified, HeadersAfterFault,
        BackupCrcMatches, BackupImage_Init
<1> QED BY <1>1, <1>2, <1>3, <1>4, <1>5, <1>6, <1>7, <1>8, <1>9, <1>10, <1>11, <1>12, <1>13,
      <1>14, <1>15, <1>16, <1>17, <1>18, <1>19, <1>20, <1>21, <1>22, <1>23, <1>24, <1>25, <1>26,
      <1>27, <1>28, <1>29, <1>30 DEF InstallStep

(* The application's RAM after a request: reset, or as it was.             *)
LEMMA AfterCommit ==
    ASSUME Reset \/ GoesOn
    PROVE  /\ w' = md'
           /\ \/ pc' = "reset" /\ ~trial' /\ session'.state = "NONE" /\ passes' = 0
              \/ pc' = "app" /\ (trial' <=> trial) /\ session' = session /\ passes' = passes
<1>1. CASE Reset
  <2>1. session'.state = "NONE"
    BY <1>1 DEF Reset, NoSession
  <2> QED BY <1>1, <2>1, Zenon DEF Reset
<1>2. CASE GoesOn
  BY <1>2, Zenon DEF GoesOn
<1> QED BY <1>1, <1>2

(* The steps of the application preserve the invariant.                    *)
LEMMA ApplicationKeeps ==
    ASSUME HostFollowsPlan, NodeInv, TypeOK', ApplicationStep
    PROVE  Consistent'
<1>0. Facts /\ NodeConstants /\ w \in MetadataType
  BY FactsHold, NodeConstantsHold DEF NodeInv, TypeOK, RamTypeOK
<1> DEFINE record(o) == [state |-> "RECEIVING", version |-> o.version, artifact |-> o.artifact]
           begun(o) == [state |-> "RECEIVING", version |-> o.version, artifact |-> o.artifact,
                        received |-> FALSE]
<1>B. ASSUME NEW o \in Offers[AllowUnsignedLegacy], OtaStart(o) PROVE
      /\ o.version > md.active_version /\ Named(o.version, o.artifact)
      /\ record(o).state = "RECEIVING" /\ record(o).version = o.version
      /\ record(o).artifact = o.artifact
      /\ begun(o).state = "RECEIVING" /\ begun(o).version = o.version
      /\ begun(o).artifact = o.artifact
      /\ \/ CheckpointStored(record(o)) /\ session' = begun(o)
         \/ CheckpointFails(record(o)) /\ ResetTransfer
  <2>1. md.state \in {"IDLE", "ARTIFACT_READY"}
    BY <1>B DEF OtaStart, StartAccepted, InApp, NodeInv, Consistent, StatesAt, Transfers,
          Application
  <2>2. app[0] = md.active_version
    BY <1>0, <2>1 DEF NodeInv, Consistent, NoImageLoss, Facts
  <2>3. AllowUnsignedLegacy \in Builds
    BY DEF NodeInv, TypeOK, EnvTypeOK
  <2>4. o.version > md.active_version /\ Named(o.version, o.artifact)
    BY <1>B, <2>2, <2>3, BareOffersAssumption
       DEF OtaStart, StartAccepted, APPLICATION_VERSION, Named
  <2> QED BY <1>B, <2>4 DEF OtaStart
<1> HIDE DEF record, begun
<1> DEFINE record_f == [state |-> "ARTIFACT_READY", version |-> session.version,
                        artifact |-> session.artifact]
           ready == [session EXCEPT !.state = "ARTIFACT_READY"]
<1>F. /\ [session EXCEPT !.state = "FAILED"].state = "FAILED"
      /\ ready.state = "ARTIFACT_READY" /\ ready.version = session.version
      /\ ready.artifact = session.artifact
      /\ record_f.state = "ARTIFACT_READY" /\ record_f.version = session.version
      /\ record_f.artifact = session.artifact
      /\ OtaFinish =>
           \/ /\ incoming = session.artifact
              /\ \/ CheckpointStored(record_f) /\ session' = ready
                 \/ CheckpointFails(record_f) /\ UNCHANGED session
           \/ session' = [session EXCEPT !.state = "FAILED"] /\ UNCHANGED <<records, faulted>>
  <2>1. session \in Session
    BY DEF NodeInv, TypeOK, RamTypeOK
  <2>2. ready.state = "ARTIFACT_READY" /\ [session EXCEPT !.state = "FAILED"].state = "FAILED"
    BY <2>1 DEF Session
  <2>3. ready.version = session.version /\ ready.artifact = session.artifact
    BY <2>1 DEF Session
  <2> QED BY <2>2, <2>3 DEF OtaFinish
<1> HIDE DEF ready, record_f
<1> DEFINE m_r == InstallRequest(md, session)
<1>R. ASSUME pc \in Application, session.state = "ARTIFACT_READY" PROVE
      /\ m_r.state = "ARTIFACT_READY" /\ m_r.active_version = md.active_version
      /\ m_r.pending_version = session.version /\ md.state \in {"IDLE", "ARTIFACT_READY"}
  <2>1. md.state \in {"IDLE", "ARTIFACT_READY"}
    BY <1>R DEF NodeInv, Consistent, StatesAt, Transfers
  <2>2. md \in MetadataType
    BY DEF NodeInv, TypeOK, FlashTypeOK
  <2> QED BY <2>1, <2>2 DEF InstallRequest, MetadataType
<1> DEFINE m_c == Confirmed(md)
<1>C. m_c.state = "CONFIRMED" /\ SameVersions(m_c, md)
  <2>1. md \in MetadataType
    BY DEF NodeInv, TypeOK, FlashTypeOK
  <2> QED BY <2>1, ConfirmedRecord DEF SameVersions
<1>T. /\ OtaInstall =>
           /\ (Committed(m_r) /\ Reset) \/ (NotCommitted(m_r) /\ GoesOn)
      /\ OtaRequestInstall =>
           (Committed(m_r) /\ Reset) \/ (NotCommitted(m_r) /\ GoesOn)
      /\ ConfirmNow =>
           /\ md.state = "TRIAL_BOOT"
           /\ (Committed(m_c) /\ Reset) \/ (NotCommitted(m_c) /\ GoesOn)
           /\ guarded' = (IF md'.state = "CONFIRMED" THEN 0 ELSE guarded)
  BY DEF OtaInstall, OtaRequestInstall, ConfirmNow, LoadTrialMetadata
<1>A. ConfirmNow =>
           /\ w' = md'
           /\ \/ pc' = "reset" /\ ~trial' /\ session'.state = "NONE" /\ passes' = 0
              \/ pc' = "app" /\ (trial' <=> trial) /\ session' = session /\ passes' = passes
  BY <1>T, AfterCommit
<1> HIDE DEF m_r, m_c
<1> USE DEF NodeInv, Facts, NodeConstants, Consistent, StatesAt, WorkingCopy, PassBound,
      NoImageLoss, Backups, Candidates, Newer, Transfers, Starts, NodeInv, Labels, Application,
      Container, Requested, Replacing, BackupRetained, BackupHolds, BackupValid, Candidate,
      IsBareImage, Named, SameForm, SameVersions, Rank, MAX_BOOT_TRANSITIONS, LaunchCap, Goto,
      Fault, Reset, NextPass, CheckpointStored, CheckpointFails, ClearBestEffort, records,
      world, flash, ram, env, vars, EnvKept, InSecure, At, Quiet, InApp, AppKept
<1>a. ASSUME pc \in {"app", "request"}, session.state = "ARTIFACT_READY",
             UNCHANGED <<app, bk, bkHdr, incoming, rec, records, world, launches, guarded>>,
             (md' = m_r /\ Reset) \/ (md' \in {md, m_r} /\ GoesOn),
             md.state \in {"IDLE", "ARTIFACT_READY"}, m_r.state = "ARTIFACT_READY",
             m_r.active_version = md.active_version, m_r.pending_version = session.version
      PROVE  Consistent'
  <2> DEFINE ready_r == md' = md \/ md' = m_r
  <2>1. ready_r /\ md'.state \in {"IDLE", "ARTIFACT_READY"}
        /\ md'.active_version = md.active_version
    BY <1>a
  <2>2. pc' \in {"reset", "app"} /\ w' = md' /\ ~trial' /\ ~trial
    BY <1>a DEF GoesOn
  <2>3. session' = session \/ session'.state = "NONE"
    BY <1>0, <1>a DEF GoesOn
  <2>11. StatesAt'
    BY <1>0, <2>1, <2>2
  <2>12. WorkingCopy'
    BY <1>0, <2>2
  <2>13. PassBound'
    BY <1>0, <1>a, <2>1, <2>2 DEF GoesOn
  <2>14. NoImageLoss'
    BY <1>0, <1>a, <2>1
  <2>15. Backups'
    BY <1>0, <1>a, <2>1, <2>2
  <2>16. Candidates'
    BY <1>0, <1>a, <2>1, <2>2
  <2>17. Newer'
    BY <1>0, <1>a, <2>1, <2>2, <2>3
  <2>18. Transfers'
    BY <1>0, <1>a, <2>2, <2>3, ZenonT(60) DEF GoesOn
  <2>19. Starts'
    BY <1>0, <1>a, <2>1, <2>2
  <2> QED BY <2>11, <2>12, <2>13, <2>14, <2>15, <2>16, <2>17, <2>18, <2>19
<1>1. CASE \E o \in Offers[AllowUnsignedLegacy] : OtaStart(o)
  <2> SUFFICES ASSUME NEW o \in Offers[AllowUnsignedLegacy], OtaStart(o) PROVE Consistent'
    BY <1>1
  <2>1. /\ pc = "app" /\ md.state \in {"IDLE", "ARTIFACT_READY"} /\ ~trial
        /\ AppKept /\ UNCHANGED <<md, incoming>>
    BY DEF OtaStart, StartAccepted
  <2>11. StatesAt'
    BY <1>0, <1>B, <2>1 DEF ResetTransfer
  <2>12. WorkingCopy'
    BY <1>0, <1>B, <2>1 DEF ResetTransfer
  <2>13. PassBound'
    BY <1>0, <1>B, <2>1 DEF ResetTransfer
  <2>14. NoImageLoss'
    BY <1>0, <1>B, <2>1 DEF ResetTransfer
  <2>15. Backups'
    BY <1>0, <1>B, <2>1 DEF ResetTransfer
  <2>16. Candidates'
    BY <1>0, <1>B, <2>1 DEF ResetTransfer
  <2>17. Newer'
    BY <1>0, <1>B, <2>1, ZenonT(60) DEF ResetTransfer
  <2>18. Transfers'
    <3> HIDE DEF Named, SameForm
    <3>2. CASE CheckpointStored(record(o)) /\ session' = begun(o)
      BY <1>0, <1>B, <2>1, <3>2, ZenonT(60) DEF Named
    <3>3. CASE CheckpointFails(record(o)) /\ ResetTransfer
      <4>1. session'.state = "IDLE" /\ (handoff' = handoff \/ handoff'.version = 0)
        BY <1>0, <3>3 DEF ResetTransfer
      <4>2. CASE ckpt' = ckpt
        BY <1>0, <2>1, <4>1, <4>2 DEF Named
      <4>3. CASE ckpt' = record(o)
        BY <1>0, <1>B, <2>1, <4>1, <4>3, ZenonT(60) DEF Named
      <4> QED BY <3>3, <4>2, <4>3
    <3> QED BY <1>B, <3>2, <3>3
  <2>19. Starts'
    BY <1>0, <1>B, <2>1 DEF ResetTransfer
  <2> QED BY <2>11, <2>12, <2>13, <2>14, <2>15, <2>16, <2>17, <2>18, <2>19
<1>2. CASE OtaDataSome
  BY <1>0, <1>2 DEF OtaDataSome
<1>3. CASE OtaDataAll
  BY <1>0, <1>3 DEF OtaDataAll
<1>4. CASE OtaFinish
  <2>1. /\ pc = "app" /\ session.state = "RECEIVING" /\ session.received
        /\ AppKept /\ UNCHANGED <<md, incoming>>
    BY <1>4 DEF OtaFinish
  <2>11. StatesAt'
    BY <1>0, <1>4, <1>F, <2>1
  <2>12. WorkingCopy'
    BY <1>0, <1>4, <1>F, <2>1
  <2>13. PassBound'
    BY <1>0, <1>4, <1>F, <2>1
  <2>14. NoImageLoss'
    BY <1>0, <1>4, <1>F, <2>1
  <2>15. Backups'
    BY <1>0, <1>4, <1>F, <2>1
  <2>16. Candidates'
    BY <1>0, <1>4, <1>F, <2>1
  <2>17. Newer'
    BY <1>0, <1>4, <1>F, <2>1, ZenonT(60)
  <2>18. Transfers'
    <3>1. CASE session' = [session EXCEPT !.state = "FAILED"] /\ UNCHANGED <<records, faulted>>
      BY <1>0, <1>4, <1>F, <2>1, <3>1
    <3>2. CASE incoming = session.artifact /\ CheckpointStored(record_f) /\ session' = ready
      <4>1. SameForm(incoming, session.artifact) /\ ~trial
        BY <2>1, <3>2
      <4> HIDE DEF SameForm
      <4> QED BY <1>0, <1>F, <2>1, <3>2, <4>1
    <3>3. CASE incoming = session.artifact /\ CheckpointFails(record_f) /\ UNCHANGED session
      <4>1. SameForm(incoming, session.artifact) /\ ~trial
        BY <2>1, <3>3
      <4> HIDE DEF SameForm
      <4> QED BY <1>0, <1>F, <2>1, <3>3, <4>1
    <3> QED BY <1>4, <1>F, <3>1, <3>2, <3>3
  <2>19. Starts'
    BY <1>0, <1>4, <1>F, <2>1
  <2> QED BY <2>11, <2>12, <2>13, <2>14, <2>15, <2>16, <2>17, <2>18, <2>19
<1>5. CASE OtaAbort
  <2>1. session.state # "TRIAL_BOOT" /\ session.state # "NO_STORAGE"
    BY <1>5 DEF OtaAbort, PlanAborts
  <2>2. (session' = session /\ UNCHANGED ckpt) \/ session'.state = "IDLE" \/ session' = session
    BY <1>0, <1>5 DEF OtaAbort, ResetTransfer
  <2>11. StatesAt'
    BY <1>0, <1>5, <2>1 DEF OtaAbort, ResetTransfer
  <2>12. WorkingCopy'
    BY <1>0, <1>5, <2>1 DEF OtaAbort, ResetTransfer
  <2>13. PassBound'
    BY <1>0, <1>5, <2>1 DEF OtaAbort, ResetTransfer
  <2>14. NoImageLoss'
    BY <1>0, <1>5, <2>1 DEF OtaAbort, ResetTransfer
  <2>15. Backups'
    BY <1>0, <1>5, <2>1 DEF OtaAbort, ResetTransfer
  <2>16. Candidates'
    BY <1>0, <1>5, <2>1 DEF OtaAbort, ResetTransfer
  <2>17. Newer'
    BY <1>0, <1>5, <2>1 DEF OtaAbort, ResetTransfer
  <2>18. Transfers'
    BY <1>0, <1>5, <2>1, ZenonT(60) DEF OtaAbort, ResetTransfer
  <2>19. Starts'
    BY <1>0, <1>5, <2>1 DEF OtaAbort, ResetTransfer
  <2> QED BY <2>11, <2>12, <2>13, <2>14, <2>15, <2>16, <2>17, <2>18, <2>19
<1>6. CASE OtaInstall
  <2>1. UNCHANGED <<app, bk, bkHdr, incoming, rec, records, world, launches, guarded>>
    BY <1>6 DEF OtaInstall
  <2>2. pc = "app" /\ session.state = "ARTIFACT_READY"
    BY <1>6 DEF OtaInstall
  <2>3. (md' = m_r /\ Reset) \/ (md' \in {md, m_r} /\ GoesOn)
    BY <1>6, <1>T DEF Committed, NotCommitted
  <2>4. /\ md.state \in {"IDLE", "ARTIFACT_READY"} /\ m_r.state = "ARTIFACT_READY"
        /\ m_r.active_version = md.active_version /\ m_r.pending_version = session.version
    BY <1>R, <2>2
  <2> QED BY <1>a, <2>1, <2>2, <2>3, <2>4
<1>7. CASE OtaInstallFull
  BY <1>0, <1>7 DEF OtaInstallFull
<1>8. CASE OtaPersistHandoff
  BY <1>0, <1>8 DEF OtaPersistHandoff
<1>9. CASE OtaRequestInstall
  <2>1. UNCHANGED <<app, bk, bkHdr, incoming, rec, records, world, launches, guarded>>
    BY <1>9 DEF OtaRequestInstall
  <2>2. pc = "request" /\ session.state = "ARTIFACT_READY"
    BY <1>9 DEF OtaRequestInstall
  <2>3. (md' = m_r /\ Reset) \/ (md' \in {md, m_r} /\ GoesOn)
    BY <1>9, <1>T DEF Committed, NotCommitted
  <2>4. /\ md.state \in {"IDLE", "ARTIFACT_READY"} /\ m_r.state = "ARTIFACT_READY"
        /\ m_r.active_version = md.active_version /\ m_r.pending_version = session.version
    BY <1>R, <2>2
  <2> QED BY <1>a, <2>1, <2>2, <2>3, <2>4
<1>10. CASE InApp /\ ConfirmNow
  <2>1. UNCHANGED <<app, bk, bkHdr, incoming, rec, records, world, launches>>
    BY <1>10 DEF ConfirmNow
  <2>2. (md' = m_c /\ Reset) \/ (md' \in {md, m_c} /\ GoesOn)
    BY <1>10, <1>T DEF Committed, NotCommitted
  <2>3. md.state = "TRIAL_BOOT" /\ guarded' = (IF md'.state = "CONFIRMED" THEN 0 ELSE guarded)
    BY <1>10, <1>T
  <2>4. pc = "app" /\ trial
    BY <2>3, <1>10
  <2>5. /\ md' = md \/ (md'.state = "CONFIRMED" /\ guarded' = 0)
        /\ md'.state \in {"TRIAL_BOOT", "CONFIRMED"}
        /\ SameVersions(md', md)
    BY <1>C, <2>2, <2>3
  <2>6. /\ w' = md'
        /\ \/ pc' = "reset" /\ ~trial' /\ session'.state = "NONE" /\ passes' = 0
           \/ pc' = "app" /\ (trial' <=> trial) /\ session' = session /\ passes' = passes
    BY <1>10, <1>A
  <2>11. StatesAt'
    BY <1>0, <2>4, <2>5, <2>6
  <2>12. WorkingCopy'
    BY <1>0, <2>4, <2>6
  <2>13. PassBound'
    BY <1>0, <2>3, <2>4, <2>5, <2>6
  <2>14. NoImageLoss'
    BY <1>0, <2>1, <2>3, <2>5
  <2>15. Backups'
    BY <1>0, <2>1, <2>3, <2>5, <2>6
  <2>16. Candidates'
    BY <1>0, <2>1, <2>5, <2>6
  <2>17. Newer'
    BY <1>0, <2>1, <2>3, <2>4, <2>5, <2>6
  <2>18. Transfers'
    BY <1>0, <2>1, <2>4, <2>6
  <2>19. Starts'
    BY <1>0, <2>1, <2>3, <2>5, <2>6
  <2> QED BY <2>11, <2>12, <2>13, <2>14, <2>15, <2>16, <2>17, <2>18, <2>19
<1> QED BY <1>1, <1>2, <1>3, <1>4, <1>5, <1>6, <1>7, <1>8, <1>9, <1>10 DEF ApplicationStep,
      TrialConfirm, ProcessConfirm

(* Power loss, decay, watchdog and operator preserve the invariant.        *)
LEMMA DisturbanceKeeps ==
    ASSUME HostFollowsPlan, NodeInv, TypeOK', Disturbance
    PROVE  Consistent'
<1>0. Facts /\ NodeConstants /\ w \in MetadataType
  BY FactsHold, NodeConstantsHold DEF NodeInv, TypeOK, RamTypeOK
<1> USE DEF NodeInv, Facts, NodeConstants, Consistent, StatesAt, WorkingCopy, PassBound,
      NoImageLoss, Backups, Candidates, Newer, Transfers, Starts, NodeInv, Labels, Application,
      Container, Requested, Replacing, BackupRetained, BackupHolds, BackupValid, Candidate,
      IsBareImage, Named, SameForm, SameVersions, Rank, MAX_BOOT_TRANSITIONS, LaunchCap, Goto,
      Fault, Reset, NextPass, CheckpointStored, CheckpointFails, ClearBestEffort, records,
      world, flash, ram, env, vars, EnvKept, InSecure, At, Quiet, InApp, AppKept
<1>1. CASE PageDecays
  BY <1>0, <1>1 DEF PageDecays
<1>2. CASE ArtifactDecays
  BY <1>0, <1>2 DEF ArtifactDecays
<1>3. CASE WatchdogReset
  BY <1>0, <1>3 DEF WatchdogReset
<1>4. CASE PowerLoss
  BY <1>0, <1>4 DEF PowerLoss
<1>5. CASE PowerCycle
  BY <1>0, <1>5 DEF PowerCycle
<1>6. CASE Stabilise
  BY <1>0, <1>6 DEF Stabilise
<1> QED BY <1>1, <1>2, <1>3, <1>4, <1>5, <1>6 DEF Disturbance

-----------------------------------------------------------------------------
(* The invariant and what follows from it.                                 *)

(* A node fresh from production satisfies the invariant.                   *)
LEMMA InitHolds == Init => NodeInv
<1> SUFFICES ASSUME Init PROVE NodeInv
  OBVIOUS
<1>1. md \in MetadataType /\ FieldsAreValid(md)
  <2>1. md = BootMetadata_Init(FactoryVersion)
    BY DEF Init
  <2>2. 0 \in 0..EXT_INCOMING_SIZE /\ 0 \in 0..APPLICATION_MAX_SIZE /\ 0 \in 0..MAX_BOOT_ATTEMPTS
    OBVIOUS
  <2>3. md \in MetadataType
    BY <2>1, <2>2 DEF BootMetadata_Init, MetadataType, UpdateState, Diagnostics
  <2>4. FieldsAreValid(md)
    BY <2>1 DEF BootMetadata_Init, FieldsAreValid, ProgressIsValid, StateFieldsAreConsistent,
          UpdateState
  <2> QED BY <2>3, <2>4
<1>2. /\ md.state = "IDLE" /\ md.active_version = FactoryVersion /\ md.pending_version = 0
      /\ md.boot_attempts = 0
  BY DEF Init, BootMetadata_Init
<1>3. app \in [Pages -> Contents] /\ bk \in [Pages -> Contents]
  BY DEF Init, Contents, Blank
<1>4. ImageHeld(app, FactoryVersion)
  BY DEF Init, ImageHeld
<1>5. FlashTypeOK
  BY <1>1, <1>3, Constants DEF Init, FlashTypeOK, Contents
<1>6. RamTypeOK
  <2>1. mustReject \in BOOLEAN /\ trial \in BOOLEAN
    BY DEF Init
  <2>2. pc \in Labels /\ passes \in 0..MAX_BOOT_TRANSITIONS
    BY DEF Init, Labels, MAX_BOOT_TRANSITIONS
  <2> QED BY <1>1, <2>1, <2>2, Constants DEF Init, RamTypeOK
<1>7. EnvTypeOK
  <2>1. stable \in BOOLEAN /\ faulted \in BOOLEAN
    BY DEF Init
  <2> QED BY <2>1 DEF Init, EnvTypeOK, LaunchCap
<1>8. Consistent
  BY <1>2, <1>4, NodeConstantsHold
     DEF Init, NodeConstants, Consistent, StatesAt, WorkingCopy, PassBound, Rank, NoImageLoss,
         Backups, BackupRetained, Candidates, Newer, Transfers, Starts, Application, Container,
         Requested, Replacing
<1> QED BY <1>5, <1>6, <1>7, <1>8 DEF NodeInv, TypeOK

(* A step that changes nothing preserves it.                               *)
LEMMA StutterKeeps == ASSUME NodeInv, UNCHANGED vars PROVE NodeInv'
<1> USE DEF vars, flash, ram, env, records, world
<1>1. TypeOK'
  BY DEF NodeInv, TypeOK, FlashTypeOK, RamTypeOK, EnvTypeOK
<1>2. StatesAt' /\ WorkingCopy' /\ PassBound' /\ Starts'
  BY DEF NodeInv, Consistent, StatesAt, WorkingCopy, PassBound, Starts
<1>3. NoImageLoss' /\ Backups'
  BY DEF NodeInv, Consistent, NoImageLoss, Backups, BackupRetained, BackupHolds, BackupValid
<1>4. Candidates'
  BY DEF NodeInv, Consistent, Candidates, Candidate, IsBareImage
<1>5. Newer' /\ Transfers'
  BY DEF NodeInv, Consistent, Newer, Transfers, Named
<1> QED BY <1>1, <1>2, <1>3, <1>4, <1>5 DEF NodeInv, Consistent

(* Every step preserves it.                                                *)
LEMMA StepKeeps == ASSUME HostFollowsPlan, NodeInv, [Next]_vars PROVE NodeInv'
<1>1. CASE BootStep
  BY <1>1, BootTypes, BootKeeps DEF NodeInv
<1>2. CASE SecureStep
  BY <1>2, SecureTypes, SecureKeeps DEF NodeInv
<1>3. CASE DeltaStep
  BY <1>3, DeltaTypes, DeltaKeeps DEF NodeInv
<1>4. CASE InstallStep
  BY <1>4, InstallTypes, InstallKeeps DEF NodeInv
<1>5. CASE ApplicationStep
  BY <1>5, ApplicationTypes, ApplicationKeeps DEF NodeInv
<1>6. CASE Disturbance
  BY <1>6, DisturbanceTypes, DisturbanceKeeps DEF NodeInv
<1>7. CASE UNCHANGED vars
  BY <1>7, StutterKeeps
<1> QED BY <1>1, <1>2, <1>3, <1>4, <1>5, <1>6, <1>7 DEF Next, Disturbance

(* THE INVARIANT HOLDS for every set of versions and offers, every image   *)
(* and page size and every number of attempts, whatever fails and whenever *)
(* power is cut.                                                           *)
THEOREM NodeInvariant == ASSUME HostFollowsPlan PROVE Spec => []NodeInv
<1>1. Init => NodeInv
  BY InitHolds
<1>2. NodeInv /\ [Next]_vars => NodeInv'
  BY StepKeeps
<1> QED BY <1>1, <1>2, PTL DEF Spec

(* TYPES.  In particular every record the bootloader and the application   *)
(* commit passes BootMetadata_Validate.                                    *)
THEOREM TypesHold == ASSUME HostFollowsPlan PROVE Spec => []TypeOK
<1>1. NodeInv => TypeOK
  BY DEF NodeInv
<1> QED BY <1>1, NodeInvariant, PTL

(* NO IMAGE LOSS.  A complete image of the active version exists at every  *)
(* moment of an update: in the application region before the installer may *)
(* touch it, in a sealed backup from then on.                              *)
THEOREM NoImageIsLost == ASSUME HostFollowsPlan PROVE Spec => []NoImageLoss
<1>1. NodeInv => NoImageLoss
  BY DEF NodeInv, Consistent
<1> QED BY <1>1, NodeInvariant, PTL

(* COMPLETE IMAGES.  ApplicationJump_Execute is only reached with a complete *)
(* image of the version the record names, although its own check only looks *)
(* at two words.                                                           *)
THEOREM OnlyCompleteImagesRun == ASSUME HostFollowsPlan PROVE Spec => []RunsCompleteImage
<1>1. NodeInv => RunsCompleteImage
  BY DEF NodeInv, Consistent, StatesAt, WorkingCopy, NoImageLoss, Candidates, RunsCompleteImage,
        Application
<1> QED BY <1>1, NodeInvariant, PTL

(* BACKUP.  From the commit of INSTALLING to the confirmation or the end of *)
(* the rollback the sealed backup is intact.                               *)
THEOREM BackupIsRetained == ASSUME HostFollowsPlan PROVE Spec => []BackupRetained
<1>1. NodeInv => BackupRetained
  BY DEF NodeInv, Consistent, Backups
<1> QED BY <1>1, NodeInvariant, PTL

(* LOOP LIMIT.  MAX_BOOT_TRANSITIONS never cuts a legal sequence short.    *)
THEOREM LoopLimitSuffices == ASSUME HostFollowsPlan PROVE Spec => []PassesSuffice
<1>1. NodeInv => PassesSuffice
  BY PassesBelow DEF PassesSuffice
<1> QED BY <1>1, NodeInvariant, PTL

(* A pending version above an active one is not the 0 of "none".           *)
LEMMA AboveIsVersion ==
    ASSUME NEW a \in Versions, NEW v \in Versions \cup {0}, v > a PROVE v \in Versions
<1>1. a \in Nat \ {0}
  OBVIOUS
<1> QED BY <1>1

(* All that a step of the application may do to the boot record: INSTALL   *)
(* and the confirmation of a trial.                                        *)
AppMoves ==
    /\ pc \in Application /\ UNCHANGED <<app, launches>>
    /\ \/ pc' \in Application /\ UNCHANGED md
       \/ /\ md.state \in {"IDLE", "ARTIFACT_READY"} /\ md'.state = "ARTIFACT_READY"
          /\ md'.active_version = md.active_version /\ md'.pending_version \in Versions
       \/ /\ md.state = "TRIAL_BOOT" /\ md.pending_version = app[0]
          /\ md'.state = "CONFIRMED" /\ SameVersions(md', md)

(* All that the environment may do to it.                                  *)
WorldMoves ==
    /\ UNCHANGED <<md, launches>>
    /\ pc' \notin Application \/ UNCHANGED <<pc, app>>

(* What the steps of the application may do to the record.                 *)
LEMMA ApplicationMoves == ASSUME NodeInv, ApplicationStep PROVE AppMoves
<1>0. Facts /\ md \in MetadataType /\ session \in Session
  BY FactsHold DEF NodeInv, TypeOK, FlashTypeOK, RamTypeOK
<1> DEFINE m == InstallRequest(md, session)
<1>1. ASSUME pc \in Application, session.state = "ARTIFACT_READY"
      PROVE  /\ m.state = "ARTIFACT_READY" /\ m.active_version = md.active_version
             /\ m.pending_version \in Versions /\ md.state \in {"IDLE", "ARTIFACT_READY"}
  <2>1. md.state \in {"IDLE", "ARTIFACT_READY"}
    BY <1>1 DEF NodeInv, Consistent, StatesAt, Transfers
  <2>2. /\ m.state = "ARTIFACT_READY" /\ m.active_version = md.active_version
        /\ m.pending_version = session.version
    BY <1>0 DEF InstallRequest, MetadataType
  <2>3. session.version > md.active_version
    BY <1>1 DEF NodeInv, Consistent, Newer
  <2>4. session.version \in Versions
    BY <1>0, <2>3, AboveIsVersion DEF Facts
  <2> QED BY <2>1, <2>2, <2>4
<1> HIDE DEF m
<1>2. Confirmed(md).state = "CONFIRMED" /\ SameVersions(Confirmed(md), md)
  BY <1>0, ConfirmedRecord DEF SameVersions
<1> USE DEF AppMoves, Application, InApp
<1>3. CASE \E o \in Offers[AllowUnsignedLegacy] : OtaStart(o)
  BY <1>3 DEF OtaStart, AppKept
<1>4. CASE OtaDataSome \/ OtaDataAll \/ OtaFinish \/ OtaAbort
  BY <1>4 DEF OtaDataSome, OtaDataAll, OtaFinish, OtaAbort, AppKept
<1>5. CASE OtaInstall
  <2>1. (Committed(m) /\ Reset) \/ (NotCommitted(m) /\ GoesOn)
    BY <1>5 DEF OtaInstall, m
  <2> QED BY <1>1, <1>5, <2>1 DEF OtaInstall, Committed, NotCommitted, Reset, GoesOn
<1>6. CASE OtaInstallFull
  BY <1>6 DEF OtaInstallFull, Goto, flash, env
<1>7. CASE OtaPersistHandoff
  BY <1>7 DEF OtaPersistHandoff, Goto
<1>8. CASE OtaRequestInstall
  <2>1. (Committed(m) /\ Reset) \/ (NotCommitted(m) /\ GoesOn)
    BY <1>8 DEF OtaRequestInstall, m
  <2>2. session.state = "ARTIFACT_READY"
    BY <1>8 DEF OtaRequestInstall, NodeInv, Consistent, Transfers
  <2> QED BY <1>1, <1>8, <2>1, <2>2 DEF OtaRequestInstall, Committed, NotCommitted, Reset, GoesOn
<1>9. CASE TrialConfirm \/ ProcessConfirm
  BY <1>2, <1>9
     DEF TrialConfirm, ProcessConfirm, ConfirmNow, LoadTrialMetadata, APPLICATION_VERSION,
         Committed, NotCommitted, Reset, GoesOn
<1> QED BY <1>3, <1>4, <1>5, <1>6, <1>7, <1>8, <1>9 DEF ApplicationStep

(* The environment leaves the record alone and only ends runs.             *)
LEMMA DisturbanceMoves == ASSUME NodeInv, Disturbance PROVE WorldMoves
BY DEF NodeInv, Disturbance, WorldMoves, Application, PageDecays, ArtifactDecays, WatchdogReset,
       PowerLoss, PowerCycle, Stabilise, Reset, flash, env, ram, world

(* Every step is of one of four kinds.                                     *)
LEMMA StepMoves ==
    ASSUME HostFollowsPlan, NodeInv, NodeInv', [Next]_vars
    PROVE  Outside \/ BootJump \/ AppMoves \/ WorldMoves
<1>1. CASE BootStep
  BY <1>1, BootKeeps DEF NodeInv
<1>2. CASE SecureStep
  BY <1>2, SecureKeeps DEF NodeInv
<1>3. CASE DeltaStep
  BY <1>3, DeltaKeeps DEF NodeInv
<1>4. CASE InstallStep
  BY <1>4, InstallKeeps DEF NodeInv
<1>5. CASE ApplicationStep
  BY <1>5, ApplicationMoves
<1>6. CASE Disturbance
  BY <1>6, DisturbanceMoves
<1>7. CASE UNCHANGED vars
  BY <1>7 DEF vars, flash, ram, env, WorldMoves
<1> QED BY <1>1, <1>2, <1>3, <1>4, <1>5, <1>6, <1>7 DEF Next, Disturbance

(* DIAGNOSTIC.  The reason of a rollback, committed when it begins, is in  *)
(* every later record up to the one that ends it, whatever number of resets *)
(* the restoration takes.                                                  *)
THEOREM DiagnosticIsKept == ASSUME HostFollowsPlan PROVE Spec => DiagnosticSurvives
<1> DEFINE Kept == md.state = "ROLLBACK" /\ md'.state \in {"ROLLBACK", "IDLE"}
                      => md'.last_error = md.last_error
<1>1. ASSUME NodeInv, NodeInv', [Next]_vars PROVE Kept
  <2>1. CASE Outside
    BY <2>1 DEF Outside, RecordMoves, Turns, LastTrial, Requested, Container, Replacing
  <2>2. CASE BootJump
    BY <2>2 DEF BootJump, flash
  <2>3. CASE AppMoves
    BY <2>3 DEF AppMoves
  <2>4. CASE WorldMoves
    BY <2>4 DEF WorldMoves
  <2> QED BY <1>1, <2>1, <2>2, <2>3, <2>4, StepMoves
<1>2. NodeInv /\ NodeInv' /\ [Next]_vars => [Kept]_vars
  BY <1>1
<1> QED BY <1>2, NodeInvariant, PTL DEF Spec, DiagnosticSurvives

(* The phases of UpdateContract.                                           *)
LEMMA Phases ==
    /\ ContractPhase("IDLE") = "settled"
    /\ \A s \in Requested : ContractPhase(s) = "requested"
    /\ \A s \in Replacing : ContractPhase(s) = "replacing"
    /\ ContractPhase("TRIAL_BOOT") = "trial" /\ ContractPhase("CONFIRMED") = "confirmed"
    /\ ContractPhase("ROLLBACK") = "undoing" /\ ContractPhase("FAILED") = "failed"
BY DEF ContractPhase, Requested, Container, Replacing

(* The labels of the routines behind their entry checks.                   *)
InContainer == {"transition", "rebuild", "verifyRec", "imageReady"}
InPatch == {"delta", "deltaStep", "deltaApply", "deltaVerify", "deltaReady"}

(* RevertToActiveImage is at work although INSTALLING is in force.         *)
InForce == pc \in {"revert", "revertCommit"} /\ md.state = "INSTALLING"

(* The phase is that of the record, except then.                           *)
PlainPhase == UpdatePhase = ContractPhase(md.state)

LEMMA PhaseNow ==
    ASSUME NodeInv PROVE /\ ~InForce => PlainPhase
                         /\ InForce => UpdatePhase = "requested"
BY Phases DEF NodeInv, Consistent, StatesAt, InForce, PlainPhase, UpdatePhase

LEMMA PhaseNext ==
    ASSUME NodeInv' PROVE /\ ~InForce' => PlainPhase'
                          /\ InForce' => UpdatePhase' = "requested"
BY Phases DEF NodeInv, Consistent, StatesAt, InForce, PlainPhase, UpdatePhase

(* RevertToActiveImage is entered before anything is replaced, and it only *)
(* ends the update.                                                        *)
RevertSteps ==
    /\ InForce' => InForce \/ md.state \in Requested
    /\ InForce => md'.state \in {"INSTALLING", "IDLE"}

(* It is entered from the installer only.                                  *)
LEMMA RevertMoves == ASSUME NodeInv, [Next]_vars PROVE RevertSteps
<1> USE DEF RevertSteps, InForce
<1>0. w \in MetadataType
  BY DEF NodeInv, TypeOK, RamTypeOK
<1>1. CASE InstallStep
  <2>1. CASE InstallStart \/ InstallFault
    <3>1. UNCHANGED md /\ pc \notin {"revert", "revertCommit"}
      BY <2>1 DEF InstallStart, InstallFault, At, InstallFaultTarget
    <3>2. pc' \in {"revert", "revertCommit"} =>
             pc \in {"backup", "backupWrite"} \/ (pc = "install" /\ ~InternalMayBeModified(w))
      BY <2>1 DEF InstallStart, InstallFault, At, InstallFaultTarget, Goto
    <3>3. pc \in {"install", "backup", "backupWrite"} => w = md
      BY DEF NodeInv, Consistent, WorkingCopy
    <3> QED BY <3>1, <3>2, <3>3
            DEF InternalMayBeModified, NodeInv, Consistent, StatesAt
  <2>2. CASE BackupEraseSector \/ BackupSeal \/ BackupWrite \/ BackupComplete \/ BackupInvalidateHeader
             \/ BeginBackup \/ BackupCheckpoint
    <3>1. pc \in {"invalidate", "beginBackup", "backup", "backupWrite", "backupCommit", "sealed"}
      BY <2>2 DEF BackupEraseSector, BackupSeal, BackupWrite, BackupComplete,
                  BackupInvalidateHeader, BeginBackup, BackupCheckpoint, At
    <3> QED BY <3>1 DEF NodeInv, Consistent, StatesAt, Requested, Container
  <2>3. CASE InstallCheckBackup \/ InstallErasePage \/ InstallProgramPage \/ InstallVerify
             \/ TrialClearCheckpoint \/ RollbackStart \/ RollbackErasePage \/ RollbackProgramPage
             \/ RollbackVerify \/ RollbackClear
    BY <2>3
       DEF InstallCheckBackup, InstallErasePage, InstallProgramPage, InstallVerify,
           TrialClearCheckpoint, RollbackStart, RollbackErasePage, RollbackProgramPage,
           RollbackVerify, RollbackClear, At, Goto
  <2>4. CASE BeginInstall \/ InstallCheckpoint \/ TransitionToVerify \/ BestEffortMarkFailed
             \/ RollbackAfterInstallFailure \/ RollbackBegin \/ RollbackCheckpoint
    BY <2>4
       DEF BeginInstall, InstallCheckpoint, TransitionToVerify, BestEffortMarkFailed,
           RollbackAfterInstallFailure, RollbackBegin, RollbackCheckpoint, CommitStep
  <2>5. CASE TransitionToTrialBoot \/ FinalizeRollback
    BY <2>5 DEF TransitionToTrialBoot, FinalizeRollback, CommitAndReturn, NextPass, Goto
  <2>6. CASE RevertClear
    BY <2>6 DEF RevertClear, At, Goto
  <2>7. CASE RevertCommit
    <3>1. IdleFields(w, w.active_version, "installer").state = "IDLE"
      BY <1>0 DEF IdleFields, MetadataType
    <3> QED BY <2>7, <3>1
            DEF RevertCommit, CommitAndReturn, Committed, NotCommitted, NextPass, Goto
  <2> QED BY <1>1, <2>1, <2>2, <2>3, <2>4, <2>5, <2>6, <2>7 DEF InstallStep
<1>2. CASE BootStep
  <2>1. CASE BootDispatch
    <3>1. w = md /\ FieldsAreValid(w) /\ w \in MetadataType /\ ApplicationValid \in BOOLEAN
      BY <1>0, <2>1
         DEF BootDispatch, NodeInv, Consistent, WorkingCopy, TypeOK, FlashTypeOK, ApplicationValid
    <3>2. pc' \in {"fatal", "isIncoming", "install", "rollback", "confirmed", "prepare", "jump"}
      BY <2>1, <3>1, DecisionIsTotal DEF BootDispatch
    <3> QED BY <2>1, <3>2 DEF BootDispatch
  <2>2. CASE BootIsIncoming \/ BootIsIncomingLegacy
    BY <2>2 DEF BootIsIncoming, BootIsIncomingLegacy, LegacyRoute
  <2>3. CASE BootLoad \/ BootJump
    BY <2>3 DEF BootLoad, BootJump, Goto
  <2>4. CASE TrialPrepareAttempt
    BY <2>4 DEF TrialPrepareAttempt, CommitStep, Goto
  <2>5. CASE TrialFinalizeConfirmation
    BY <2>5 DEF TrialFinalizeConfirmation, CommitAndReturn, NextPass, Goto
  <2> QED BY <1>2, <2>1, <2>2, <2>3, <2>4, <2>5 DEF BootStep
<1>3. CASE SecureStep \/ DeltaStep
  <2>1. pc \in {"secure", "reject", "rejectCommit", "delta", "deltaStep", "deltaReject",
               "deltaRejectCommit"} \cup InContainer \cup InPatch
    <3>1. CASE SecureFault \/ DeltaFault
      BY <3>1 DEF SecureFault, SecureFaultTarget, DeltaFault, DeltaFaultTarget, InContainer, InPatch
    <3>2. CASE SecureStep /\ ~SecureFault
      BY <3>2
         DEF SecureStep, SecureVerify, SecureTransition, SecureBaseRejected, EraseReconstructed,
             SecureRebuild, VerifyReconstructed, SecureFinish, RejectClear, RejectCommit,
             InSecure, InContainer
    <3>3. CASE DeltaStep /\ ~DeltaFault
      BY <3>3
         DEF DeltaStep, DeltaVerify, DeltaTransition, DeltaPayloadRejected, DeltaErase,
             DeltaApply, VerifyTarget, DeltaFinish, RejectDeltaClear, RejectDelta,
             InSecure, InPatch
    <3> QED BY <1>3, <3>1, <3>2, <3>3
  <2>2. md.state \in Container
    BY <2>1 DEF NodeInv, Consistent, StatesAt, Container, InContainer, InPatch
  <2> QED BY <2>2 DEF Container, Requested
<1>4. CASE ApplicationStep
  <2>1. AppMoves
    BY <1>4, ApplicationMoves
  <2> QED BY <2>1 DEF AppMoves, Application, NodeInv, Consistent, StatesAt
<1>5. CASE Disturbance \/ UNCHANGED vars
  BY <1>5
     DEF Disturbance, PageDecays, ArtifactDecays, WatchdogReset, PowerLoss, PowerCycle, Stabilise,
         Reset, flash, env, ram, world, vars
<1> QED BY <1>1, <1>2, <1>3, <1>4, <1>5 DEF Next, Disturbance

(* A node fresh from production is an initial state of the contract.       *)
LEMMA InitKeepsContract == Init => Contract!Init
BY Phases DEF Init, BootMetadata_Init, UpdatePhase, Contract!Init

(* A step of the bootloader outside it is a step of the contract, or none. *)
LEMMA PlainKeepsContract ==
    ASSUME NodeInv, Outside, PlainPhase, PlainPhase', ~InForce
    PROVE  [Contract!Next]_(Contract!vars)
<1>0. Facts
  BY FactsHold DEF NodeInv
<1> USE DEF Contract!Moves, Contract!vars, Outside, Application, PlainPhase
<1>1. CASE UNCHANGED <<md, launches>>
  BY <1>1
<1>2. CASE md.state \in Replacing /\ UNCHANGED md /\ launches' = 0
  BY <1>2 DEF Replacing
<1>3. CASE Turns(Requested, Requested) /\ SameVersions(md', md)
  BY <1>3, Phases DEF Turns, SameVersions, Requested, Container
<1>4. CASE Turns(Requested, {"INSTALLING"}) /\ SameVersions(md', md)
  <2>1. Contract!Replace
    BY <1>4, Phases
       DEF Turns, SameVersions, Requested, Container, Replacing, NodeInv, Consistent, Newer,
             Contract!Replace
  <2> QED BY <2>1 DEF Contract!Next
<1>5. CASE Turns(Replacing, Replacing) /\ SameVersions(md', md)
  BY <1>5, Phases DEF Turns, SameVersions, Replacing
<1>6. CASE /\ md.state \in Replacing /\ md'.state = "TRIAL_BOOT" /\ SameVersions(md', md)
           /\ md'.boot_attempts = 0 /\ launches' = 0
  <2>1. Contract!BeginTrial
    BY <1>6, Phases DEF SameVersions, Replacing, Contract!BeginTrial
  <2> QED BY <2>1 DEF Contract!Next
<1>7. CASE /\ Turns({"TRIAL_BOOT"}, {"TRIAL_BOOT"}) /\ SameVersions(md', md)
           /\ md.boot_attempts < MAX_BOOT_ATTEMPTS /\ md'.boot_attempts = md.boot_attempts + 1
  <2>1. Contract!Try
    BY <1>7, Phases DEF Turns, SameVersions, Contract!Try
  <2> QED BY <2>1 DEF Contract!Next
<1>8. CASE /\ Turns({"CONFIRMED"}, {"IDLE"})
           /\ md'.active_version = md.pending_version /\ md'.pending_version = 0
  <2>1. Contract!Adopt
    BY <1>8, Phases DEF Turns, Contract!Adopt
  <2> QED BY <2>1 DEF Contract!Next
<1>9. CASE /\ Turns(Replacing \cup {"TRIAL_BOOT"}, {"ROLLBACK"}) /\ SameVersions(md', md)
           /\ md.state \in Replacing \/ LastTrial
  <2>1. Contract!GiveUp("undoing")
    BY <1>9, Phases DEF Turns, SameVersions, LastTrial, Replacing, Contract!GiveUp
  <2> QED BY <2>1 DEF Contract!Next
<1>10. CASE /\ Turns({"ROLLBACK"}, {"ROLLBACK"}) /\ SameVersions(md', md)
            /\ md'.last_error = md.last_error
  BY <1>10, Phases DEF Turns, SameVersions
<1>11. CASE /\ \/ Turns(Requested \cup {"ROLLBACK"}, {"IDLE"})
               \/ pc = "revertCommit" /\ Turns({"INSTALLING"}, {"IDLE"})
            /\ md'.active_version = md.active_version /\ md'.pending_version = 0
            /\ md.state = "ROLLBACK" => md'.last_error = md.last_error
  <2>1. Contract!Drop \/ Contract!Undo
    BY <1>11, Phases DEF Turns, Requested, Container, InForce, Contract!Drop, Contract!Undo
  <2> QED BY <2>1 DEF Contract!Next
<1>12. CASE /\ Turns(UpdateState, {"FAILED"}) /\ SameVersions(md', md)
            /\ md.state \in Requested \cup Replacing \cup {"ROLLBACK"} \/ LastTrial
  <2>1. Contract!Fail
    BY <1>12, Phases
       DEF Turns, SameVersions, LastTrial, Requested, Container, Replacing, Contract!Fail,
             Contract!GiveUp
  <2> QED BY <2>1 DEF Contract!Next
<1> QED
  BY <1>1, <1>2, <1>3, <1>4, <1>5, <1>6, <1>7, <1>8, <1>9, <1>10, <1>11, <1>12
     DEF Outside, RecordMoves

(* Every step of the bootloader is a step of the contract, or none.  Where *)
(* RevertToActiveImage is cut short with INSTALLING in force, the contract *)
(* replaces the image after all.                                           *)
LEMMA OutsideKeepsContract ==
    ASSUME NodeInv, NodeInv', RevertSteps, Outside PROVE [Contract!Next]_(Contract!vars)
<1>1. CASE ~InForce /\ ~InForce'
  BY <1>1, PhaseNow, PhaseNext, PlainKeepsContract
<1>2. CASE InForce'
  <2>1. /\ InForce \/ md.state \in Requested
        /\ md.state \in Requested \cup {"INSTALLING"} /\ md'.state = "INSTALLING"
    BY <1>2 DEF RevertSteps, InForce
  <2>2. SameVersions(md', md)
    BY <2>1 DEF Outside, RecordMoves, Turns, SameVersions, Requested, Container, Replacing
  <2>3. UpdatePhase = "requested" /\ UpdatePhase' = "requested"
    BY <1>2, <2>1, PhaseNow, PhaseNext, Phases DEF PlainPhase
  <2> QED BY <2>1, <2>2, <2>3
          DEF Outside, SameVersions, Requested, Container, Application, Contract!vars
<1>3. CASE InForce /\ ~InForce'
  <2>1. md.state = "INSTALLING" /\ UpdatePhase = "requested"
    BY <1>3, PhaseNow DEF InForce
  <2>2. CASE md'.state = "INSTALLING"
    <3>1. SameVersions(md', md)
      BY <2>1, <2>2 DEF Outside, RecordMoves, Turns, SameVersions, Requested, Container, Replacing
    <3>2. UpdatePhase' = "replacing"
      BY <1>3, <2>2, PhaseNext, Phases DEF PlainPhase, Replacing
    <3>3. Contract!Replace
      BY <2>1, <2>2, <3>1, <3>2
         DEF Outside, SameVersions, Application, Replacing, NodeInv, Consistent, Newer,
             Contract!Replace, Contract!Moves
    <3> QED BY <3>3 DEF Contract!Next
  <2>3. CASE md'.state = "IDLE"
    <3>1. md'.active_version = md.active_version /\ md'.pending_version = 0
      BY <2>1, <2>3 DEF Outside, RecordMoves, Turns, Requested, Container, Replacing
    <3>2. UpdatePhase' = "settled"
      BY <1>3, <2>3, PhaseNext, Phases DEF PlainPhase
    <3>3. Contract!Drop
      BY <2>1, <2>3, <3>1, <3>2 DEF Outside, Application, Contract!Drop, Contract!Moves
    <3> QED BY <3>3 DEF Contract!Next
  <2> QED BY <1>3, <2>2, <2>3 DEF RevertSteps
<1> QED BY <1>1, <1>2, <1>3

(* The jump starts the image that the contract lets run.                   *)
LEMMA JumpKeepsContract ==
    ASSUME NodeInv, NodeInv', BootJump PROVE [Contract!Next]_(Contract!vars)
<1>0. Facts
  BY FactsHold DEF NodeInv
<1>1. /\ UNCHANGED <<app, md>> /\ pc' = "app" /\ pc \notin Application
      /\ UpdatePhase = ContractPhase(md.state) /\ UpdatePhase' = ContractPhase(md'.state)
  BY PhaseNow, PhaseNext DEF BootJump, flash, Application, InForce, PlainPhase
<1>2. CASE pc = "jump"
  <2>1. md.state = "IDLE" /\ app[0] = md.active_version
    BY <1>0, <1>2 DEF NodeInv, Consistent, StatesAt, NoImageLoss, Facts
  <2>2. Contract!StartActive
    BY <1>1, <2>1, Phases DEF Contract!StartActive, APPLICATION_VERSION, Application
  <2> QED BY <2>2 DEF Contract!Next
<1>3. CASE pc = "jumpTrial"
  <2>1. md.state = "TRIAL_BOOT" /\ app[0] = md.pending_version
    <3>1. md.state = "TRIAL_BOOT"
      BY <1>3 DEF NodeInv, Consistent, StatesAt
    <3>2. md.pending_version > md.active_version
      BY <3>1 DEF NodeInv, Consistent, Newer
    <3>3. md.pending_version \in Versions
      BY <1>0, <3>2, AboveIsVersion DEF Facts
    <3> QED BY <1>0, <3>1, <3>3 DEF NodeInv, Consistent, NoImageLoss, Facts
  <2>2. launches < md.boot_attempts /\ launches' = launches + 1
    <3>1. launches < md.boot_attempts
      BY <1>3 DEF NodeInv, Consistent, Starts
    <3> QED BY <1>0, <1>3, <3>1 DEF BootJump, Facts, LaunchCap, MinOf
  <2>3. Contract!StartPending
    BY <1>1, <2>1, <2>2, Phases DEF Contract!StartPending, APPLICATION_VERSION, Application
  <2> QED BY <2>3 DEF Contract!Next
<1> QED BY <1>2, <1>3 DEF BootJump

(* The application requests and confirms as the contract says.             *)
LEMMA ApplicationKeepsContract ==
    ASSUME NodeInv, NodeInv', AppMoves PROVE [Contract!Next]_(Contract!vars)
<1>0. /\ Facts
      /\ UpdatePhase = ContractPhase(md.state)
  BY FactsHold, PhaseNow DEF NodeInv, AppMoves, Application, InForce, PlainPhase
<1>p. ASSUME md'.state # "INSTALLING" \/ pc' \in Application
      PROVE  UpdatePhase' = ContractPhase(md'.state)
  BY <1>p, PhaseNext DEF InForce, Application, PlainPhase
<1> USE DEF AppMoves, Application, APPLICATION_VERSION
<1>1. CASE pc' \in Application /\ UNCHANGED md
  BY <1>0, <1>1, <1>p DEF Contract!vars
<1>2. CASE /\ md.state \in {"IDLE", "ARTIFACT_READY"} /\ md'.state = "ARTIFACT_READY"
           /\ md'.active_version = md.active_version /\ md'.pending_version \in Versions
  <2>1. app[0] = md.active_version
    BY <1>0, <1>2 DEF NodeInv, Consistent, NoImageLoss, Facts
  <2>2. Contract!Request
    BY <1>0, <1>2, <1>p, <2>1, Phases DEF Contract!Request, Contract!Moves, Requested, Container
  <2> QED BY <2>2 DEF Contract!Next
<1>3. CASE /\ md.state = "TRIAL_BOOT" /\ md.pending_version = app[0]
           /\ md'.state = "CONFIRMED" /\ SameVersions(md', md)
  <2>1. Contract!Confirm
    BY <1>0, <1>3, <1>p, Phases DEF Contract!Confirm, Contract!Moves, SameVersions
  <2> QED BY <2>1 DEF Contract!Next
<1> QED BY <1>1, <1>2, <1>3

(* Power, watchdog and operator stop the application at most.              *)
LEMMA WorldKeepsContract ==
    ASSUME NodeInv, NodeInv', RevertSteps, WorldMoves PROVE [Contract!Next]_(Contract!vars)
<1>0. Facts
  BY FactsHold DEF NodeInv
<1>a. ASSUME ~InForce PROVE UNCHANGED UpdatePhase
  <2>1. CASE InForce'
    BY <1>a, <2>1, PhaseNow, PhaseNext, Phases DEF RevertSteps, PlainPhase
  <2>2. CASE ~InForce'
    BY <1>a, <2>2, PhaseNow, PhaseNext DEF PlainPhase, WorldMoves
  <2> QED BY <2>1, <2>2
<1> USE DEF WorldMoves, Application, APPLICATION_VERSION
<1>1. CASE pc' \notin Application /\ pc \in Application
  <2>1. app[0] # 0
    <3>1. md.state \in {"IDLE", "ARTIFACT_READY"} => app[0] = md.active_version
      BY <1>0 DEF NodeInv, Consistent, NoImageLoss, Facts
    <3>2. md.state \in {"TRIAL_BOOT", "CONFIRMED"} =>
             md.pending_version \in Versions /\ app[0] = md.pending_version
      <4> SUFFICES ASSUME md.state \in {"TRIAL_BOOT", "CONFIRMED"}
                   PROVE  md.pending_version \in Versions /\ app[0] = md.pending_version
        OBVIOUS
      <4>1. md.pending_version > md.active_version
        BY DEF NodeInv, Consistent, Newer
      <4>2. md.pending_version \in Versions
        BY <1>0, <4>1, AboveIsVersion DEF Facts
      <4> QED BY <1>0, <4>2 DEF NodeInv, Consistent, NoImageLoss, Facts
    <3>3. md.state \in {"IDLE", "ARTIFACT_READY", "TRIAL_BOOT", "CONFIRMED"}
      BY <1>1 DEF NodeInv, Consistent, StatesAt
    <3> QED BY <1>0, <3>1, <3>2, <3>3 DEF Facts
  <2>2. Contract!Stop
    BY <1>1, <1>a, <2>1 DEF InForce, Contract!Stop
  <2> QED BY <2>2 DEF Contract!Next
<1>2. CASE pc' \notin Application /\ pc \notin Application /\ ~InForce
  BY <1>2, <1>a DEF Contract!vars
<1>3. CASE UNCHANGED <<pc, app>> /\ ~InForce
  BY <1>3, <1>a DEF Contract!vars
<1>4. CASE InForce /\ InForce'
  BY <1>4, PhaseNow, PhaseNext DEF InForce, Contract!vars
<1>5. CASE InForce /\ ~InForce'
  <2>1. md.state = "INSTALLING" /\ UpdatePhase = "requested" /\ UpdatePhase' = "replacing"
    BY <1>5, PhaseNow, PhaseNext, Phases DEF InForce, PlainPhase, Replacing
  <2>2. pc \notin Application /\ pc' \notin Application
    BY <1>5 DEF InForce
  <2>3. Contract!Replace
    BY <2>1, <2>2 DEF Replacing, NodeInv, Consistent, Newer, Contract!Replace, Contract!Moves
  <2> QED BY <2>3 DEF Contract!Next
<1> QED BY <1>1, <1>2, <1>3, <1>4, <1>5 DEF InForce

(* CONTRACT.  The node implements UpdateContract: every start, replacement, *)
(* confirmation and fallback is one it allows.  So the active version never *)
(* goes backwards, and an unconfirmed image is started at most             *)
(* MAX_BOOT_ATTEMPTS times, wherever power is lost.                        *)
THEOREM ImplementsContract == ASSUME HostFollowsPlan PROVE Spec => KeepsContract
<1>1. Init => Contract!Init
  BY InitKeepsContract
<1>2. NodeInv /\ NodeInv' /\ [Next]_vars => [Contract!Next]_(Contract!vars)
  <2> SUFFICES ASSUME NodeInv, NodeInv', [Next]_vars PROVE [Contract!Next]_(Contract!vars)
    OBVIOUS
  <2>1. Outside \/ BootJump \/ AppMoves \/ WorldMoves
    BY StepMoves
  <2>2. RevertSteps
    BY RevertMoves
  <2> QED BY <2>1, <2>2, OutsideKeepsContract, JumpKeepsContract, ApplicationKeepsContract,
             WorldKeepsContract
<1> QED BY <1>1, <1>2, NodeInvariant, PTL DEF Spec, KeepsContract, Contract!Spec

-----------------------------------------------------------------------------
(* The labels of the installer up to the last page.                        *)
InInstall == {"invalidate", "beginBackup", "backup", "backupWrite", "backupCommit", "sealed",
              "validateBackup", "beginInstall", "copy", "program", "copyCommit"}

(* Which routine is at work on which kind of artifact: a boot never finds  *)
(* another kind than the boot before it, and never a container where there *)
(* was none.                                                               *)
Kinds ==
    /\ md.state \in Container \ {"ARTIFACT_READY"}
          => incoming.magic \/ DeltaPatcher_IsDeltaArtifact
    /\ pc \in InContainer => incoming.magic
    /\ pc \in InPatch => DeltaPatcher_IsDeltaArtifact
    /\ pc \in Application => ~mustReject

(* A bare image is as long as its version's image, from the offer to the   *)
(* handoff record, and so the record's size is that of the candidate while *)
(* it is installed.                                                        *)
Sized(a) ==
    AllowUnsignedLegacy /\ ~a.magic /\ a.kind # "D13P" => a.total_size = ImageSize[a.target]

Sizes ==
    /\ ckpt.state # "IDLE" => Sized(ckpt.artifact)
    /\ pc \in Application /\ session.state \in {"RECEIVING", "ARTIFACT_READY"}
          => Sized(session.artifact)
    /\ handoff.version # 0 => handoff.artifact.total_size = ImageSize[handoff.artifact.target]
    /\ pc \in InInstall => md.expected_size = ImageSize[Candidate]

(* The pages below an offset hold what the backup holds.                   *)
RestoredBelow(offset) == \A p \in Pages : p * INTERNAL_FLASH_PAGE_SIZE < offset => app[p] = bk[p]

(* Without I/O errors nothing leads to a halt, and a restoration keeps     *)
(* what its checkpoints claim.                                             *)
Unfaulted ==
    ~faulted =>
      /\ pc \notin {"fatal", "markFailed"} /\ md.state # "FAILED"
      /\ mustReject => ~incoming.magic
      /\ md.state = "ROLLBACK" => RestoredBelow(md.copy_offset)
      /\ pc \in {"reprogram", "restoreCommit"} => md.copy_offset < APPLICATION_MAX_SIZE
      /\ pc = "restoreCommit" => app[PageOf(md.copy_offset)] = bk[PageOf(md.copy_offset)]

PowerInv == Kinds /\ Sizes /\ Unfaulted

-----------------------------------------------------------------------------
(* The records the routines commit pass BootMetadata_Validate.             *)

(* What a valid record in each state says of its sizes.                    *)
LEMMA ValidFields ==
    ASSUME NEW m \in MetadataType, FieldsAreValid(m),
           m.state \in UpdateState \ {"IDLE", "RECEIVING", "FAILED"}
    PROVE  UpdatePayloadIsComplete(m) /\ m.expected_size \in 1..EXT_INCOMING_SIZE
<1>1. UpdatePayloadIsComplete(m)
  BY DEF FieldsAreValid, StateFieldsAreConsistent, UpdateState
<1> QED BY <1>1 DEF UpdatePayloadIsComplete, MetadataType

(* Transition() of a record with a complete payload.                       *)
LEMMA ValidTransition ==
    ASSUME NEW m \in MetadataType, FieldsAreValid(m), m.state \in Container,
           NEW s \in {"VERIFYING_CONTAINER", "VERIFYING_BASE", "PATCHING"}
    PROVE  FieldsAreValid(Transition(m, s))
<1> DEFINE n == Transition(m, s)
<1>1. UpdatePayloadIsComplete(m)
  BY ValidFields DEF Container, UpdateState
<1>2. /\ n.state = s /\ n.copy_offset = 0 /\ n.active_update_id = m.active_update_id
      /\ n.received_size = m.received_size /\ n.expected_size = m.expected_size
  BY DEF Transition, MetadataType
<1>3. m.expected_size \in 0..EXT_INCOMING_SIZE
  BY DEF MetadataType
<1> HIDE DEF n
<1>4. FieldsAreValid(n)
  BY <1>1, <1>2, <1>3
     DEF FieldsAreValid, ProgressIsValid, StateFieldsAreConsistent, UpdatePayloadIsComplete,
               UpdateState
<1> QED BY <1>4 DEF n

(* The record of a verified image.                                         *)
LEMMA ValidImageReady ==
    ASSUME NEW m \in MetadataType, FieldsAreValid(m), m.state = "PATCHING",
           NEW size \in 1..APPLICATION_MAX_SIZE
    PROVE  FieldsAreValid(ImageReady(m, size))
<1> DEFINE n == ImageReady(m, size)
<1>1. UpdatePayloadIsComplete(m)
  BY ValidFields DEF UpdateState
<1>2. /\ n.state = "IMAGE_READY" /\ n.copy_offset = 0 /\ n.active_update_id = m.active_update_id
      /\ n.received_size = size /\ n.expected_size = size
  BY DEF ImageReady, Transition, MetadataType
<1> HIDE DEF n
<1>3. FieldsAreValid(n)
  BY <1>1, <1>2
     DEF FieldsAreValid, ProgressIsValid, StateFieldsAreConsistent, UpdatePayloadIsComplete,
               UpdateState
<1> QED BY <1>3 DEF n

(* Back to IDLE, from whatever was in RAM.                                 *)
LEMMA ValidIdle ==
    ASSUME NEW m \in MetadataType, NEW v, NEW e
    PROVE  FieldsAreValid(IdleFields(m, v, e)) /\ IdleFields(m, v, e).state = "IDLE"
<1> DEFINE n == IdleFields(m, v, e)
<1>1. /\ n.state = "IDLE" /\ n.copy_offset = 0 /\ n.active_update_id = 0 /\ n.pending_version = 0
      /\ n.received_size = 0 /\ n.expected_size = 0 /\ n.boot_attempts = 0
  BY DEF IdleFields, MetadataType
<1> HIDE DEF n
<1>2. FieldsAreValid(n)
  BY <1>1 DEF FieldsAreValid, ProgressIsValid, StateFieldsAreConsistent, UpdateState
<1> QED BY <1>1, <1>2 DEF n

(* The backup begins.                                                      *)
LEMMA ValidBackingUp ==
    ASSUME NEW m \in MetadataType, FieldsAreValid(m), m.state \in {"ARTIFACT_READY", "IMAGE_READY"},
           m.pending_version # 0
    PROVE  FieldsAreValid(BackingUp(m))
<1> DEFINE n == BackingUp(m)
<1>1. UpdatePayloadIsComplete(m)
  BY ValidFields DEF UpdateState
<1>2. /\ n.state = "BACKING_UP" /\ n.copy_offset = 0 /\ n.active_update_id = m.active_update_id
      /\ n.received_size = m.received_size /\ n.expected_size = m.expected_size
      /\ n.boot_attempts = 0 /\ n.pending_version = m.pending_version
  BY DEF BackingUp, AtOffset, MetadataType
<1>3. m.expected_size \in 0..EXT_INCOMING_SIZE
  BY DEF MetadataType
<1>4. 0 % EXT_FLASH_SECTOR_SIZE = 0
  OBVIOUS
<1> HIDE DEF n
<1>5. FieldsAreValid(n)
  BY <1>1, <1>2, <1>3, <1>4
     DEF FieldsAreValid, ProgressIsValid, StateFieldsAreConsistent, UpdatePayloadIsComplete,
         UpdateState, AlignedOrEnd
<1> QED BY <1>5 DEF n

(* The installation begins, or begins again.                               *)
LEMMA ValidInstalling ==
    ASSUME NEW m \in MetadataType, FieldsAreValid(m),
           m.state \in {"BACKING_UP", "VERIFYING_INSTALL"}
    PROVE  FieldsAreValid(Installing(m))
<1> DEFINE n == Installing(m)
<1>1. UpdatePayloadIsComplete(m)
  BY ValidFields DEF UpdateState
<1>2. /\ n.state = "INSTALLING" /\ n.copy_offset = 0 /\ n.active_update_id = m.active_update_id
      /\ n.received_size = m.received_size /\ n.expected_size = m.expected_size
  BY DEF Installing, AtOffset, MetadataType
<1>3. m.expected_size \in 0..EXT_INCOMING_SIZE
  BY DEF MetadataType
<1>4. 0 % INTERNAL_FLASH_PAGE_SIZE = 0
  OBVIOUS
<1> HIDE DEF n
<1>5. FieldsAreValid(n)
  BY <1>1, <1>2, <1>3, <1>4
     DEF FieldsAreValid, ProgressIsValid, StateFieldsAreConsistent, UpdatePayloadIsComplete,
         UpdateState, AlignedOrEnd
<1> QED BY <1>5 DEF n

(* The checkpoint after a page, or at the end of the image, is aligned.    *)
LEMMA NextPage ==
    ASSUME NEW offset \in Nat, NEW size \in Nat, offset <= size,
           AlignedOrEnd(offset, INTERNAL_FLASH_PAGE_SIZE, size)
    PROVE  /\ InstallProgress_NextCheckpoint(size, offset) \in 0..size
           /\ AlignedOrEnd(InstallProgress_NextCheckpoint(size, offset),
                INTERNAL_FLASH_PAGE_SIZE, size)
<1>1. offset % INTERNAL_FLASH_PAGE_SIZE = 0 =>
         (offset + INTERNAL_FLASH_PAGE_SIZE) % INTERNAL_FLASH_PAGE_SIZE = 0
  <2> DEFINE p == INTERNAL_FLASH_PAGE_SIZE
             q == offset \div p
             k == (offset + p) \div p
             r == (offset + p) % p
             d == q + 1 - k
  <2>1. p \in Nat \ {0} /\ q \in Int /\ k \in Int /\ r \in 0..(p - 1) /\ d \in Int
    OBVIOUS
  <2>2. offset % p = 0 => offset = p * q
    OBVIOUS
  <2>3. offset + p = p * k + r
    BY <2>1
  <2>4. p * q + p - p * k = p * d
    BY <2>1
  <2> HIDE DEF q, k, d
  <2>5. offset % p = 0 => r = p * d
    BY <2>1, <2>2, <2>3, <2>4
  <2>6. p * d >= 0 /\ p * d < p => d = 0
    BY <2>1
  <2>7. p * 0 = 0
    OBVIOUS
  <2> QED BY <2>1, <2>5, <2>6, <2>7
<1> QED BY <1>1 DEF InstallProgress_NextCheckpoint, MinOf, AlignedOrEnd

(* A checkpoint of the installation.                                       *)
LEMMA ValidCheckpoint ==
    ASSUME NEW m \in MetadataType, FieldsAreValid(m), m.state = "INSTALLING",
           m.expected_size <= APPLICATION_MAX_SIZE
    PROVE  FieldsAreValid(AtOffset(m, InstallProgress_NextCheckpoint(m.expected_size,
                                                                     m.copy_offset)))
<1> DEFINE next == InstallProgress_NextCheckpoint(m.expected_size, m.copy_offset)
           n == AtOffset(m, next)
<1>1. UpdatePayloadIsComplete(m)
  BY ValidFields DEF UpdateState
<1>2. /\ n.state = "INSTALLING" /\ n.copy_offset = next /\ n.active_update_id = m.active_update_id
      /\ n.received_size = m.received_size /\ n.expected_size = m.expected_size
  BY DEF AtOffset, MetadataType
<1>3. m.expected_size \in 0..EXT_INCOMING_SIZE /\ m.copy_offset \in 0..APPLICATION_MAX_SIZE
  BY DEF MetadataType
<1>4. m.copy_offset <= m.expected_size
      /\ AlignedOrEnd(m.copy_offset, INTERNAL_FLASH_PAGE_SIZE, m.expected_size)
  BY DEF FieldsAreValid, StateFieldsAreConsistent
<1>5. next \in 0..m.expected_size /\ AlignedOrEnd(next, INTERNAL_FLASH_PAGE_SIZE, m.expected_size)
  BY <1>3, <1>4, NextPage
<1> HIDE DEF next, n
<1>6. FieldsAreValid(n)
  BY <1>1, <1>2, <1>3, <1>5
     DEF FieldsAreValid, ProgressIsValid, StateFieldsAreConsistent, UpdatePayloadIsComplete,
         UpdateState
<1> QED BY <1>6 DEF n, next

(* The installation is complete.                                           *)
LEMMA ValidVerifying ==
    ASSUME NEW m \in MetadataType, FieldsAreValid(m), m.state = "INSTALLING",
           m.expected_size <= APPLICATION_MAX_SIZE
    PROVE  FieldsAreValid(VerifyingInstall(m, m.expected_size))
<1> DEFINE n == VerifyingInstall(m, m.expected_size)
<1>1. UpdatePayloadIsComplete(m)
  BY ValidFields DEF UpdateState
<1>2. /\ n.state = "VERIFYING_INSTALL" /\ n.copy_offset = m.expected_size
      /\ n.active_update_id = m.active_update_id
      /\ n.received_size = m.received_size /\ n.expected_size = m.expected_size
  BY DEF VerifyingInstall, AtOffset, MetadataType
<1>3. m.expected_size \in 0..EXT_INCOMING_SIZE
  BY DEF MetadataType
<1> HIDE DEF n
<1>4. FieldsAreValid(n)
  BY <1>1, <1>2, <1>3
     DEF FieldsAreValid, ProgressIsValid, StateFieldsAreConsistent, UpdatePayloadIsComplete,
         UpdateState
<1> QED BY <1>4 DEF n

(* The trial begins.                                                       *)
LEMMA ValidTrial ==
    ASSUME NEW m \in MetadataType, FieldsAreValid(m), m.state = "VERIFYING_INSTALL",
           m.pending_version # 0
    PROVE  FieldsAreValid(TrialBoot(m))
<1> DEFINE n == TrialBoot(m)
<1>1. UpdatePayloadIsComplete(m)
  BY ValidFields DEF UpdateState
<1>2. /\ n.state = "TRIAL_BOOT" /\ n.copy_offset = 0 /\ n.active_update_id = m.active_update_id
      /\ n.received_size = m.received_size /\ n.expected_size = m.expected_size
      /\ n.boot_attempts = 0 /\ n.pending_version = m.pending_version
  BY DEF TrialBoot, AtOffset, MetadataType
<1>3. m.expected_size \in 0..EXT_INCOMING_SIZE
  BY DEF MetadataType
<1> HIDE DEF n
<1>4. FieldsAreValid(n)
  BY <1>1, <1>2, <1>3
     DEF FieldsAreValid, ProgressIsValid, StateFieldsAreConsistent, UpdatePayloadIsComplete,
         UpdateState
<1> QED BY <1>4 DEF n

(* The rollback begins.                                                    *)
LEMMA ValidBeginRollback ==
    ASSUME NEW m \in MetadataType, FieldsAreValid(m), m.state \in Replacing \cup {"TRIAL_BOOT"},
           m.pending_version # 0, NEW e
    PROVE  FieldsAreValid(BeginRollback(m, e)) /\ BeginRollback(m, e).copy_offset = 0
<1> DEFINE n == BeginRollback(m, e)
<1>1. UpdatePayloadIsComplete(m)
  BY ValidFields DEF UpdateState, Replacing
<1>2. /\ n.state = "ROLLBACK" /\ n.copy_offset = 0 /\ n.active_update_id = m.active_update_id
      /\ n.received_size = m.received_size /\ n.expected_size = m.expected_size
      /\ n.boot_attempts = m.boot_attempts /\ n.pending_version = m.pending_version
  BY DEF BeginRollback, MetadataType
<1>3. m.expected_size \in 0..EXT_INCOMING_SIZE /\ m.boot_attempts \in 0..MAX_BOOT_ATTEMPTS
  BY DEF MetadataType
<1>4. 0 % INTERNAL_FLASH_PAGE_SIZE = 0
  OBVIOUS
<1> HIDE DEF n
<1>5. FieldsAreValid(n)
  BY <1>1, <1>2, <1>3, <1>4
     DEF FieldsAreValid, ProgressIsValid, StateFieldsAreConsistent, UpdatePayloadIsComplete,
         UpdateState, AlignedOrEnd
<1> QED BY <1>2, <1>5 DEF n

(* A checkpoint of the restoration.                                        *)
LEMMA ValidRestoredTo ==
    ASSUME NEW m \in MetadataType, FieldsAreValid(m), m.state = "ROLLBACK"
    PROVE  FieldsAreValid(RestoredTo(m, InstallProgress_NextCheckpoint(APPLICATION_MAX_SIZE,
                                                                       m.copy_offset)))
<1> DEFINE next == InstallProgress_NextCheckpoint(APPLICATION_MAX_SIZE, m.copy_offset)
           n == RestoredTo(m, next)
<1>1. UpdatePayloadIsComplete(m)
  BY ValidFields DEF UpdateState
<1>2. /\ n.state = "ROLLBACK" /\ n.copy_offset = next /\ n.active_update_id = m.active_update_id
      /\ n.received_size = m.received_size /\ n.expected_size = m.expected_size
      /\ n.boot_attempts = m.boot_attempts /\ n.pending_version = m.pending_version
  BY DEF RestoredTo, MetadataType
<1>3. m.expected_size \in 0..EXT_INCOMING_SIZE /\ m.copy_offset \in 0..APPLICATION_MAX_SIZE
      /\ m.boot_attempts \in 0..MAX_BOOT_ATTEMPTS
  BY DEF MetadataType
<1>4. AlignedOrEnd(m.copy_offset, INTERNAL_FLASH_PAGE_SIZE, APPLICATION_MAX_SIZE)
      /\ m.pending_version # 0
  BY DEF FieldsAreValid, StateFieldsAreConsistent
<1>5. next \in 0..APPLICATION_MAX_SIZE
      /\ AlignedOrEnd(next, INTERNAL_FLASH_PAGE_SIZE, APPLICATION_MAX_SIZE)
  BY <1>3, <1>4, NextPage
<1> HIDE DEF next, n
<1>6. FieldsAreValid(n)
  BY <1>1, <1>2, <1>3, <1>4, <1>5
     DEF FieldsAreValid, ProgressIsValid, StateFieldsAreConsistent, UpdatePayloadIsComplete,
         UpdateState
<1> QED BY <1>6 DEF n, next

(* An attempt is counted.                                                  *)
LEMMA ValidPrepared ==
    ASSUME NEW m \in MetadataType, FieldsAreValid(m), m.state = "TRIAL_BOOT",
           m.boot_attempts < MAX_BOOT_ATTEMPTS
    PROVE  FieldsAreValid(PreparedAttempt(m))
<1> DEFINE n == PreparedAttempt(m)
<1>1. UpdatePayloadIsComplete(m)
  BY ValidFields DEF UpdateState
<1>2. /\ n.state = "TRIAL_BOOT" /\ n.copy_offset = m.copy_offset
      /\ n.active_update_id = m.active_update_id
      /\ n.received_size = m.received_size /\ n.expected_size = m.expected_size
      /\ n.boot_attempts = m.boot_attempts + 1 /\ n.pending_version = m.pending_version
  BY DEF PreparedAttempt, MetadataType
<1>3. m.expected_size \in 0..EXT_INCOMING_SIZE /\ m.boot_attempts \in 0..MAX_BOOT_ATTEMPTS
  BY DEF MetadataType
<1>4. m.copy_offset = 0 /\ m.pending_version # 0
  BY DEF FieldsAreValid, StateFieldsAreConsistent
<1> HIDE DEF n
<1>5. FieldsAreValid(n)
  BY <1>1, <1>2, <1>3, <1>4
     DEF FieldsAreValid, ProgressIsValid, StateFieldsAreConsistent, UpdatePayloadIsComplete,
         UpdateState
<1> QED BY <1>5 DEF n

-----------------------------------------------------------------------------
(* A page boundary inside the application region is the start of a page.   *)
LEMMA PageAt ==
    ASSUME NEW offset \in 0..APPLICATION_MAX_SIZE, offset < APPLICATION_MAX_SIZE,
           AlignedOrEnd(offset, INTERNAL_FLASH_PAGE_SIZE, APPLICATION_MAX_SIZE)
    PROVE  /\ PageOf(offset) \in Pages
           /\ \A p \in Pages :
                 /\ p * INTERNAL_FLASH_PAGE_SIZE < offset => p # PageOf(offset)
                 /\ p * INTERNAL_FLASH_PAGE_SIZE < offset + INTERNAL_FLASH_PAGE_SIZE
                       => p * INTERNAL_FLASH_PAGE_SIZE < offset \/ p = PageOf(offset)
<1> DEFINE s == INTERNAL_FLASH_PAGE_SIZE
           q == offset \div s
           k == APPLICATION_MAX_SIZE \div s
<1>1. /\ s \in Nat \ {0} /\ q \in Int /\ k \in Int /\ offset = q * s /\ APPLICATION_MAX_SIZE = k * s
  BY DEF AlignedOrEnd
<1>2. PageOf(offset) = q /\ Pages = 0..(k - 1)
  BY DEF PageOf, Pages
<1> HIDE DEF s, q, k
<1>3. q >= 0 /\ q < k
  BY <1>1
<1>4. ASSUME NEW p \in Int, p * s < q * s + s, p # q PROVE p * s < q * s
  BY <1>1, <1>4
<1> QED BY <1>1, <1>2, <1>3, <1>4 DEF s

(* Every page starts inside the region.                                    *)
LEMMA PagesInside == \A p \in Pages : p * INTERNAL_FLASH_PAGE_SIZE < APPLICATION_MAX_SIZE
                                      /\ p * INTERNAL_FLASH_PAGE_SIZE >= 0
<1> DEFINE s == INTERNAL_FLASH_PAGE_SIZE
           k == APPLICATION_MAX_SIZE \div s
<1>1. s \in Nat \ {0} /\ k \in Int /\ APPLICATION_MAX_SIZE = k * s /\ Pages = 0..(k - 1)
  BY DEF Pages
<1> HIDE DEF s, k
<1>2. ASSUME NEW p \in 0..(k - 1) PROVE p * s < k * s /\ p * s >= 0
  BY <1>1
<1> QED BY <1>1, <1>2 DEF s

(* Steps that obviously keep Unfaulted.                                    *)
Tame ==
    /\ faulted => faulted'
    /\ ~faulted' =>
         /\ pc' \notin {"fatal", "markFailed", "reprogram", "restoreCommit"}
         /\ md'.state # "FAILED"
         /\ mustReject' => mustReject /\ UNCHANGED incoming
         /\ md'.state = "ROLLBACK" => UNCHANGED <<app, bk, md>>

(* They do.                                                                *)
LEMMA TameKeeps == ASSUME Unfaulted, Tame PROVE Unfaulted'
BY DEF Unfaulted, Tame, RestoredBelow

(* A commit of a valid record fails only with the flash.                   *)
LEMMA ValidCommit ==
    ASSUME NEW m, FieldsAreValid(m), NEW ok, NEW err, CommitStep(m, ok, err),
           faulted \in BOOLEAN
    PROVE  /\ faulted => faulted'
           /\ ~faulted' => md' = m /\ pc' = ok
           /\ UNCHANGED <<app, bk, bkHdr, incoming, mustReject>>
<1>1. CASE Committed(m) /\ pc' = ok
  BY <1>1 DEF CommitStep, Committed
<1>2. CASE NotCommitted(m)
  <2>1. faulted' = TRUE
    BY <1>2, Zenon DEF NotCommitted
  <2> QED BY <2>1 DEF CommitStep
<1> QED BY <1>1, <1>2 DEF CommitStep

(* So does one that ends a turn of the loop.                               *)
LEMMA ValidReturn ==
    ASSUME NEW m, FieldsAreValid(m), CommitAndReturn(m), faulted \in BOOLEAN
    PROVE  /\ faulted => faulted'
           /\ ~faulted' => md' = m /\ pc' = "decide"
           /\ UNCHANGED <<app, bk, bkHdr, incoming, mustReject>>
<1>1. CASE Committed(m) /\ NextPass(m)
  BY <1>1 DEF CommitAndReturn, Committed, NextPass
<1>2. CASE NotCommitted(m) /\ Goto("fatal")
  <2>1. faulted' = TRUE
    BY <1>2, Zenon DEF NotCommitted
  <2> QED BY <1>2, <2>1 DEF CommitAndReturn, Goto
<1> QED BY <1>1, <1>2 DEF CommitAndReturn

(* A commit of any record leaves the rest of the flash alone.              *)
LEMMA AnyCommit ==
    ASSUME NEW m, NEW ok, NEW err, CommitStep(m, ok, err), faulted \in BOOLEAN
    PROVE  /\ faulted => faulted'
           /\ (md' = m /\ pc' = ok) \/ (md' \in {md, m} /\ pc' = err)
           /\ UNCHANGED <<app, bk, bkHdr, incoming, ckpt, handoff, mustReject, session,
                          AllowUnsignedLegacy>>
<1>1. faulted => faulted'
  BY Zenon DEF CommitStep, Committed, NotCommitted
<1> QED BY <1>1 DEF CommitStep, Committed, NotCommitted, records, world

(* So does one that ends a turn of the loop.                               *)
LEMMA AnyReturn ==
    ASSUME NEW m, CommitAndReturn(m), faulted \in BOOLEAN
    PROVE  /\ faulted => faulted'
           /\ (md' = m /\ pc' = "decide") \/ (md' \in {md, m} /\ pc' = "fatal")
           /\ UNCHANGED <<app, bk, bkHdr, incoming, ckpt, handoff, mustReject, session,
                          AllowUnsignedLegacy>>
<1>1. faulted => faulted'
  BY Zenon DEF CommitAndReturn, Committed, NotCommitted
<1> QED BY <1>1 DEF CommitAndReturn, Committed, NotCommitted, NextPass, Goto, records, world

(* Steps outside the routines that the parts speak of keep them.           *)
LEMMA KindsStay ==
    ASSUME Kinds, UNCHANGED incoming, pc' \notin InContainer \cup InPatch \cup Application,
           md'.state = md.state \/ md'.state \notin Container \ {"ARTIFACT_READY"}
    PROVE  Kinds'
BY DEF Kinds, DeltaPatcher_IsDeltaArtifact

(* Records that are cleared or lost claim nothing.                         *)
LEMMA SizesStay ==
    ASSUME Sizes, UNCHANGED AllowUnsignedLegacy, pc' \notin InInstall,
           ckpt' \in {ckpt, NoCheckpoint}, handoff' \in {handoff, NoHandoff},
           pc' \in Application => pc \in Application /\ UNCHANGED session
    PROVE  Sizes'
BY DEF Sizes, Sized, NoCheckpoint, NoHandoff

(* What the invariant of the node says at every step of the bootloader.    *)
LEMMA PowerFacts ==
    ASSUME NodeInv
    PROVE  /\ faulted \in BOOLEAN /\ mustReject \in BOOLEAN
           /\ md \in MetadataType /\ FieldsAreValid(md) /\ w \in MetadataType
           /\ pc \notin {"revert", "revertCommit", "markFailed", "fatal"} => w = md
           /\ md.state \in Requested \cup Replacing \cup {"TRIAL_BOOT"} => md.pending_version # 0
<1>1. Facts
  BY FactsHold DEF NodeInv
<1>2. md.state \in Requested \cup Replacing \cup {"TRIAL_BOOT"} => md.pending_version # 0
  BY <1>1, AboveIsVersion DEF Facts, NodeInv, Consistent, Newer
<1> QED BY <1>2 DEF NodeInv, TypeOK, FlashTypeOK, RamTypeOK, EnvTypeOK, Consistent, WorkingCopy

-----------------------------------------------------------------------------
(* The decision loop and the trial.                                        *)
LEMMA BootPower == ASSUME NodeInv, PowerInv, BootStep PROVE PowerInv'
<1>0. /\ faulted \in BOOLEAN /\ mustReject \in BOOLEAN
      /\ md \in MetadataType /\ FieldsAreValid(md) /\ w \in MetadataType
      /\ pc \notin {"revert", "revertCommit", "markFailed", "fatal"} => w = md
      /\ Kinds /\ Sizes /\ Unfaulted
  BY PowerFacts DEF PowerInv
<1> USE DEF InContainer, InPatch, InInstall, Application
<1>1. CASE BootLoad
  <2>1. Tame
    BY <1>0, <1>1 DEF Unfaulted, Tame, BootLoad, Goto, flash, env
  <2> QED BY <1>0, <1>1, <2>1, TameKeeps, KindsStay, SizesStay
          DEF PowerInv, BootLoad, Goto, flash, env, records, world
<1>2. CASE BootDispatch
  <2>1. w = md
    BY <1>0, <1>2 DEF BootDispatch
  <2>2. pc' \in {"fatal", "isIncoming", "install", "rollback", "confirmed", "prepare", "jump"}
    <3>1. ApplicationValid \in BOOLEAN
      BY DEF ApplicationValid
    <3> QED BY <1>0, <1>2, <2>1, <3>1, DecisionIsTotal DEF BootDispatch
  <2>3. ~faulted => pc' # "fatal"
    <3> SUFFICES ASSUME ~faulted PROVE pc' # "fatal"
      OBVIOUS
    <3>1. md.state \notin {"FAILED", "RECEIVING"} /\ md.state \in UpdateState
      BY <1>0 DEF Unfaulted, NodeInv, Consistent, StatesAt, MetadataType
    <3>2. md.state = "IDLE" => ApplicationValid
      <4>1. Facts
        BY FactsHold DEF NodeInv
      <4> QED BY <4>1 DEF NodeInv, Consistent, NoImageLoss, ApplicationValid, Facts, Blank
    <3>3. passes < MAX_BOOT_TRANSITIONS /\ passes \in Nat
      BY PassesBelow DEF NodeInv, TypeOK, RamTypeOK
    <3>4. ApplicationValid \in BOOLEAN
      BY DEF ApplicationValid
    <3>5. BootDecision_Evaluate(md, ApplicationValid) # "STAY_RECOVERY"
      BY <1>0, <3>1, <3>2 DEF BootDecision_Evaluate, UpdateState
    <3>6. ~(passes >= MAX_BOOT_TRANSITIONS)
      BY <3>3 DEF MAX_BOOT_TRANSITIONS
    <3> QED BY <1>0, <1>2, <2>1, <3>4, <3>5, <3>6, DecisionIsTotal DEF BootDispatch
  <2>4. Tame
    BY <1>0, <1>2, <2>2, <2>3 DEF Tame, BootDispatch, flash, env, Unfaulted
  <2> QED BY <1>0, <1>2, <2>2, <2>4, TameKeeps, KindsStay, SizesStay
          DEF PowerInv, BootDispatch, flash, env, records, world
<1>3. CASE BootIsIncoming
  <2>1. Unfaulted'
    BY <1>0, <1>3 DEF BootIsIncoming, Fault, flash, world, Unfaulted, RestoredBelow
  <2> QED BY <1>0, <1>3, <2>1, KindsStay, SizesStay
          DEF PowerInv, BootIsIncoming, flash, records, world
<1>4. CASE BootIsIncomingLegacy
  <2>1. md.state \in Container /\ w = md
    BY <1>0, <1>4 DEF BootIsIncomingLegacy, NodeInv, Consistent, StatesAt
  <2>2. UNCHANGED <<incoming, md, app, bk, mustReject, session, ckpt, handoff, AllowUnsignedLegacy>>
    BY <1>4 DEF BootIsIncomingLegacy, flash, records, world
  <2>3. /\ pc' \in {"secure", "delta", "install", "fatal"}
        /\ pc' = "delta" => DeltaPatcher_IsDeltaArtifact
        /\ faulted => faulted'
        /\ ~faulted' => pc' # "fatal"
    <3>1. CASE /\ pc' = LegacyRoute(incoming.magic, DeltaPatcher_IsDeltaArtifact)
               /\ UNCHANGED faulted
      <4>1. w.state # "ARTIFACT_READY" => incoming.magic \/ DeltaPatcher_IsDeltaArtifact
        BY <1>0, <2>1 DEF Kinds
      <4> QED BY <3>1, <4>1 DEF LegacyRoute, DeltaPatcher_IsDeltaArtifact
    <3>2. CASE /\ \E delta \in {FALSE, DeltaPatcher_IsDeltaArtifact} :
                    pc' = LegacyRoute(FALSE, delta)
               /\ Fault
      BY <3>2 DEF LegacyRoute, Fault, DeltaPatcher_IsDeltaArtifact
    <3> QED BY <1>4, <3>1, <3>2 DEF BootIsIncomingLegacy
  <2>4. Tame
    BY <1>0, <2>2, <2>3 DEF Tame, Unfaulted
  <2>5. Kinds'
    BY <1>0, <2>2, <2>3 DEF Kinds, DeltaPatcher_IsDeltaArtifact
  <2> QED BY <1>0, <2>2, <2>3, <2>4, <2>5, TameKeeps, SizesStay DEF PowerInv
<1>5. CASE TrialPrepareAttempt
  <2>1. FieldsAreValid(PreparedAttempt(w)) /\ PreparedAttempt(w).state = "TRIAL_BOOT"
    BY <1>0, <1>5, ValidPrepared, PreparedAttemptRecord
       DEF TrialPrepareAttempt, NodeInv, Consistent, StatesAt
  <2>2. CommitStep(PreparedAttempt(w), "jumpTrial", "fatal")
    BY <1>5, TrialCommits
  <2>3. Tame
    BY <1>0, <2>1, <2>2, ValidCommit DEF Tame
  <2> QED BY <1>0, <2>1, <2>2, <2>3, TameKeeps, KindsStay, SizesStay, AnyCommit
             DEF PowerInv, Container
<1>6. CASE TrialFinalizeConfirmation
  <2>1. /\ FieldsAreValid(FinalizedConfirmation(w)) /\ FinalizedConfirmation(w).state = "IDLE"
    BY <1>0, ValidIdle DEF FinalizedConfirmation
  <2>2. CommitAndReturn(FinalizedConfirmation(w))
    BY <1>6, TrialCommits
  <2>3. Tame
    BY <1>0, <2>1, <2>2, ValidReturn DEF Tame
  <2> QED BY <1>0, <2>1, <2>2, <2>3, TameKeeps, KindsStay, SizesStay, AnyReturn
             DEF PowerInv, Container
<1>7. CASE BootJump
  <2>1. Tame
    BY <1>0, <1>7 DEF Tame, BootJump, Fault, flash, Unfaulted
  <2>2. Kinds'
    BY <1>0, <1>7 DEF Kinds, BootJump, flash, DeltaPatcher_IsDeltaArtifact
  <2>3. Sizes'
    <3>1. session' \in {RestoredSession, StorageLost}
      BY <1>7 DEF BootJump
    <3>2. session'.state \in {"RECEIVING", "ARTIFACT_READY"} =>
            ckpt.state # "IDLE" /\ session'.artifact = ckpt.artifact
      <4>1. StorageLost.state = "NO_STORAGE"
        BY DEF StorageLost, NoSession
      <4>2. RestoredSession.state \in {"RECEIVING", "ARTIFACT_READY"}
               => ckpt.state # "IDLE" /\ RestoredSession.artifact = ckpt.artifact
        BY DEF RestoredSession, NoSession
      <4> QED BY <3>1, <4>1, <4>2
    <3> QED BY <1>0, <1>7, <3>2 DEF Sizes, Sized, BootJump, flash, records, world
  <2> QED BY <1>0, <2>1, <2>2, <2>3, TameKeeps DEF PowerInv
<1> QED BY <1>1, <1>2, <1>3, <1>4, <1>5, <1>6, <1>7 DEF BootStep

(* SecureContainer_Process.                                                *)
LEMMA SecurePower == ASSUME NodeInv, PowerInv, SecureStep PROVE PowerInv'
<1>0. /\ faulted \in BOOLEAN /\ mustReject \in BOOLEAN
      /\ md \in MetadataType /\ FieldsAreValid(md) /\ w \in MetadataType
      /\ pc \notin {"revert", "revertCommit", "markFailed", "fatal"} => w = md
      /\ Kinds /\ Sizes /\ Unfaulted
  BY PowerFacts DEF PowerInv
<1>a. incoming.target \in Versions /\ ImageSize[incoming.target] \in 1..APPLICATION_MAX_SIZE
  BY FactsHold DEF NodeInv, Facts
<1> USE DEF InContainer, InPatch, InInstall, Application
<1>1. CASE SecureVerify
  <2>1. Tame
    BY <1>0, <1>1 DEF Tame, Unfaulted, SecureVerify, InSecure, Goto
  <2>2. Kinds'
    BY <1>0, <1>1
       DEF Kinds, SecureVerify, InSecure, Goto, SecureContainer_LoadVerifiedInfo, ReadHeader,
          DeltaPatcher_IsDeltaArtifact
  <2> QED BY <1>0, <1>1, <2>1, <2>2, TameKeeps, SizesStay
          DEF PowerInv, SecureVerify, InSecure, Goto, EnvKept, records, world
<1>2. CASE SecureTransition
  <2>0. w = md /\ md.state \in Container /\ incoming.magic
    BY <1>0, <1>2 DEF SecureTransition, NodeInv, Consistent, StatesAt, Kinds
  <2> DEFINE m == Transition(w, NextSecureState(w.state, incoming.kind))
  <2>1. FieldsAreValid(m) /\ m.state \in Container
    <3>1. NextSecureState(w.state, incoming.kind) \in {"VERIFYING_CONTAINER", "VERIFYING_BASE",
                                                       "PATCHING"}
      BY DEF NextSecureState
    <3> QED BY <1>0, <2>0, <3>1, ValidTransition, TransitionRecord DEF UpdateState, Container
  <2>2. CommitStep(m, "transition", "fatal")
    BY <1>2 DEF SecureTransition
  <2> HIDE DEF m
  <2>3. Tame
    BY <1>0, <2>1, <2>2, ValidCommit DEF Tame, Container
  <2>4. Kinds'
    BY <1>0, <2>0, <2>2, AnyCommit DEF Kinds, DeltaPatcher_IsDeltaArtifact
  <2> QED BY <1>0, <2>2, <2>3, <2>4, TameKeeps, SizesStay, AnyCommit DEF PowerInv
<1>3. CASE SecureBaseRejected
  <2>1. Tame
    BY <1>0, <1>3 DEF Tame, Unfaulted, SecureBaseRejected, InSecure, Goto
  <2> QED BY <1>0, <1>3, <2>1, TameKeeps, KindsStay, SizesStay
          DEF PowerInv, SecureBaseRejected, InSecure, Goto, EnvKept, records, world
<1>4. CASE EraseReconstructed
  <2>1. Tame
    BY <1>0, <1>4 DEF Tame, Unfaulted, EraseReconstructed, InSecure, Goto
  <2>2. Kinds'
    BY <1>0, <1>4 DEF Kinds, EraseReconstructed, InSecure, Goto, DeltaPatcher_IsDeltaArtifact
  <2> QED BY <1>0, <1>4, <2>1, <2>2, TameKeeps, SizesStay
          DEF PowerInv, EraseReconstructed, InSecure, Goto, EnvKept, records, world
<1>5. CASE SecureRebuild
  <2>1. Tame
    BY <1>0, <1>5 DEF Tame, Unfaulted, SecureRebuild, Fault, InSecure, Goto
  <2>2. Kinds'
    BY <1>0, <1>5 DEF Kinds, SecureRebuild, InSecure, Goto, DeltaPatcher_IsDeltaArtifact
  <2> QED BY <1>0, <1>5, <2>1, <2>2, TameKeeps, SizesStay
          DEF PowerInv, SecureRebuild, InSecure, Goto, EnvKept, records, world
<1>6. CASE VerifyReconstructed
  <2>1. Tame
    BY <1>0, <1>6 DEF Tame, Unfaulted, VerifyReconstructed, InSecure, Goto
  <2>2. Kinds'
    BY <1>0, <1>6 DEF Kinds, VerifyReconstructed, InSecure, Goto, DeltaPatcher_IsDeltaArtifact
  <2> QED BY <1>0, <1>6, <2>1, <2>2, TameKeeps, SizesStay
          DEF PowerInv, VerifyReconstructed, InSecure, Goto, EnvKept, records, world
<1>7. CASE SecureFinish
  <2>0. w = md /\ md.state = "PATCHING" /\ incoming.magic
    BY <1>0, <1>7 DEF SecureFinish, NodeInv, Consistent, StatesAt, Kinds
  <2> DEFINE m == ImageReady(w, ImageSize[incoming.target])
  <2>1. FieldsAreValid(m) /\ m.state = "IMAGE_READY"
    BY <1>0, <1>a, <2>0, ValidImageReady, ImageReadyRecord
  <2>2. \/ mustReject /\ CommitStep(m, "fatal", "fatal")
        \/ ~mustReject /\ CommitAndReturn(m)
    BY <1>7 DEF SecureFinish
  <2> HIDE DEF m
  <2>3. CASE mustReject /\ CommitStep(m, "fatal", "fatal")
    <3>1. faulted
      BY <1>0, <2>0, <2>3 DEF Unfaulted
    <3>2. faulted'
      BY <1>0, <2>3, <3>1, AnyCommit
    <3>3. Tame
      BY <3>2 DEF Tame
    <3>4. /\ md' = m \/ md' = md
          /\ pc' = "fatal"
          /\ UNCHANGED <<incoming, ckpt, handoff, AllowUnsignedLegacy>>
      BY <1>0, <2>3, AnyCommit
    <3> QED BY <1>0, <2>1, <3>3, <3>4, TameKeeps, KindsStay, SizesStay DEF PowerInv, Container
  <2>4. CASE ~mustReject /\ CommitAndReturn(m)
    <3>1. Tame
      BY <1>0, <2>1, <2>4, ValidReturn DEF Tame
    <3> QED BY <1>0, <2>1, <2>4, <3>1, TameKeeps, KindsStay, SizesStay, AnyReturn
               DEF PowerInv, Container
  <2> QED BY <2>2, <2>3, <2>4
<1>8. CASE RejectClear
  <2>1. Tame
    BY <1>0, <1>8
       DEF Tame, Unfaulted, RejectClear, ClearBestEffort, CheckpointStored, CheckpointFails,
           Fault, Goto
  <2> QED BY <1>0, <1>8, <2>1, TameKeeps, KindsStay, SizesStay
          DEF PowerInv, RejectClear, ClearBestEffort, CheckpointStored, CheckpointFails, Goto,
                    EnvKept, world
<1>9. CASE RejectCommit
  <2>1. /\ FieldsAreValid(IdleFields(w, w.active_version, "secure"))
        /\ IdleFields(w, w.active_version, "secure").state = "IDLE"
    BY <1>0, ValidIdle
  <2>2. CommitAndReturn(IdleFields(w, w.active_version, "secure"))
    BY <1>9 DEF RejectCommit
  <2>3. Tame
    BY <1>0, <2>1, <2>2, ValidReturn DEF Tame
  <2> QED BY <1>0, <2>1, <2>2, <2>3, TameKeeps, KindsStay, SizesStay, AnyReturn
             DEF PowerInv, Container
<1>10. CASE SecureFault
  <2>1. Tame
    BY <1>10 DEF Tame, SecureFault, Fault
  <2>2. pc' \in {"fatal", "reject"}
    BY <1>10 DEF SecureFault, SecureFaultTarget, Goto
  <2> QED BY <1>0, <1>10, <2>1, <2>2, TameKeeps, KindsStay, SizesStay
          DEF PowerInv, SecureFault, EnvKept, records, world
<1> QED BY <1>1, <1>2, <1>3, <1>4, <1>5, <1>6, <1>7, <1>8, <1>9, <1>10 DEF SecureStep

(* DeltaPatcher_Process.                                                   *)
LEMMA DeltaPower == ASSUME NodeInv, PowerInv, DeltaStep PROVE PowerInv'
<1>0. /\ faulted \in BOOLEAN /\ mustReject \in BOOLEAN
      /\ md \in MetadataType /\ FieldsAreValid(md) /\ w \in MetadataType
      /\ pc \notin {"revert", "revertCommit", "markFailed", "fatal"} => w = md
      /\ Kinds /\ Sizes /\ Unfaulted
  BY PowerFacts DEF PowerInv
<1>a. incoming.target \in Versions /\ ImageSize[incoming.target] \in 1..APPLICATION_MAX_SIZE
  BY FactsHold DEF NodeInv, Facts
<1> USE DEF InContainer, InPatch, InInstall, Application
<1>1. CASE DeltaVerify
  <2>1. Tame
    BY <1>0, <1>1 DEF Tame, Unfaulted, DeltaVerify, InSecure, Goto
  <2>2. Kinds'
    BY <1>0, <1>1 DEF Kinds, DeltaVerify, InSecure, Goto, DeltaPatcher_IsDeltaArtifact
  <2> QED BY <1>0, <1>1, <2>1, <2>2, TameKeeps, SizesStay
          DEF PowerInv, DeltaVerify, InSecure, Goto, EnvKept, records, world
<1>2. CASE DeltaTransition
  <2>0. w = md /\ md.state \in Container /\ DeltaPatcher_IsDeltaArtifact
    BY <1>0, <1>2 DEF DeltaTransition, NodeInv, Consistent, StatesAt, Kinds
  <2> DEFINE m == Transition(w, NextSecureState(w.state, "DELTA"))
  <2>1. FieldsAreValid(m) /\ m.state \in Container
    <3>1. NextSecureState(w.state, "DELTA") \in {"VERIFYING_CONTAINER", "VERIFYING_BASE",
                                                 "PATCHING"}
      BY DEF NextSecureState
    <3> QED BY <1>0, <2>0, <3>1, ValidTransition, TransitionRecord DEF UpdateState, Container
  <2>2. CommitStep(m, "deltaStep", "fatal")
    BY <1>2 DEF DeltaTransition
  <2> HIDE DEF m
  <2>3. Tame
    BY <1>0, <2>1, <2>2, ValidCommit DEF Tame, Container
  <2>4. Kinds'
    BY <1>0, <2>0, <2>2, AnyCommit DEF Kinds, DeltaPatcher_IsDeltaArtifact
  <2> QED BY <1>0, <2>2, <2>3, <2>4, TameKeeps, SizesStay, AnyCommit DEF PowerInv
<1>3. CASE DeltaPayloadRejected
  <2>1. Tame
    BY <1>0, <1>3 DEF Tame, Unfaulted, DeltaPayloadRejected, InSecure, Goto
  <2> QED BY <1>0, <1>3, <2>1, TameKeeps, KindsStay, SizesStay
          DEF PowerInv, DeltaPayloadRejected, InSecure, Goto, EnvKept, records, world
<1>4. CASE DeltaErase
  <2>1. Tame
    BY <1>0, <1>4 DEF Tame, Unfaulted, DeltaErase, InSecure, Goto
  <2>2. Kinds'
    BY <1>0, <1>4 DEF Kinds, DeltaErase, InSecure, Goto, DeltaPatcher_IsDeltaArtifact
  <2> QED BY <1>0, <1>4, <2>1, <2>2, TameKeeps, SizesStay
          DEF PowerInv, DeltaErase, InSecure, Goto, EnvKept, records, world
<1>5. CASE DeltaApply
  <2>1. Tame
    BY <1>0, <1>5 DEF Tame, Unfaulted, DeltaApply, Fault, InSecure, Goto
  <2>2. Kinds'
    BY <1>0, <1>5 DEF Kinds, DeltaApply, InSecure, Goto, DeltaPatcher_IsDeltaArtifact
  <2> QED BY <1>0, <1>5, <2>1, <2>2, TameKeeps, SizesStay
          DEF PowerInv, DeltaApply, InSecure, Goto, EnvKept, records, world
<1>6. CASE VerifyTarget
  <2>1. Tame
    BY <1>0, <1>6 DEF Tame, Unfaulted, VerifyTarget, InSecure, Goto
  <2>2. Kinds'
    BY <1>0, <1>6 DEF Kinds, VerifyTarget, InSecure, Goto, DeltaPatcher_IsDeltaArtifact
  <2> QED BY <1>0, <1>6, <2>1, <2>2, TameKeeps, SizesStay
          DEF PowerInv, VerifyTarget, InSecure, Goto, EnvKept, records, world
<1>7. CASE DeltaFinish
  <2>0. w = md /\ md.state = "PATCHING"
    BY <1>0, <1>7 DEF DeltaFinish, NodeInv, Consistent, StatesAt
  <2> DEFINE m == ImageReady(w, ImageSize[incoming.target])
  <2>1. FieldsAreValid(m) /\ m.state = "IMAGE_READY"
    BY <1>0, <1>a, <2>0, ValidImageReady, ImageReadyRecord
  <2>2. CommitAndReturn(m)
    BY <1>7 DEF DeltaFinish
  <2> HIDE DEF m
  <2>3. Tame
    BY <1>0, <2>1, <2>2, ValidReturn DEF Tame
  <2> QED BY <1>0, <2>1, <2>2, <2>3, TameKeeps, KindsStay, SizesStay, AnyReturn
             DEF PowerInv, Container
<1>8. CASE RejectDeltaClear
  <2>1. Tame
    BY <1>0, <1>8
       DEF Tame, Unfaulted, RejectDeltaClear, ClearBestEffort, CheckpointStored, CheckpointFails,
           Fault,
          Goto
  <2> QED BY <1>0, <1>8, <2>1, TameKeeps, KindsStay, SizesStay
          DEF PowerInv, RejectDeltaClear, ClearBestEffort, CheckpointStored, CheckpointFails,
                    Goto, EnvKept, world
<1>9. CASE RejectDelta
  <2>1. /\ FieldsAreValid(IdleFields(w, w.active_version, "delta"))
        /\ IdleFields(w, w.active_version, "delta").state = "IDLE"
    BY <1>0, ValidIdle
  <2>2. CommitAndReturn(IdleFields(w, w.active_version, "delta"))
    BY <1>9 DEF RejectDelta
  <2>3. Tame
    BY <1>0, <2>1, <2>2, ValidReturn DEF Tame
  <2> QED BY <1>0, <2>1, <2>2, <2>3, TameKeeps, KindsStay, SizesStay, AnyReturn
             DEF PowerInv, Container
<1>10. CASE DeltaFault
  <2>1. Tame
    BY <1>10 DEF Tame, DeltaFault, Fault
  <2>2. pc' \in {"fatal", "deltaReject"}
    BY <1>10 DEF DeltaFault, DeltaFaultTarget, Goto
  <2> QED BY <1>0, <1>10, <2>1, <2>2, TameKeeps, KindsStay, SizesStay
          DEF PowerInv, DeltaFault, EnvKept, records, world
<1> QED BY <1>1, <1>2, <1>3, <1>4, <1>5, <1>6, <1>7, <1>8, <1>9, <1>10 DEF DeltaStep

(* The candidate is the same as long as Incoming and the handoff are.      *)
LEMMA CandidateStays == ASSUME UNCHANGED <<incoming, handoff>> PROVE Candidate' = Candidate
BY DEF Candidate, IsBareImage

(* The record keeps its size on the way to the trial.                      *)
LEMMA SizeStays ==
    ASSUME NEW m \in MetadataType, NEW o, NEW e
    PROVE  /\ AtOffset(m, o).expected_size = m.expected_size
           /\ BackingUp(m).expected_size = m.expected_size
           /\ Installing(m).expected_size = m.expected_size
BY DEF AtOffset, BackingUp, Installing, MetadataType

(* Within the routine: the candidate's size stays what the record says.    *)
LEMMA InstallSizes ==
    ASSUME Sizes, pc \in InInstall, UNCHANGED <<incoming, handoff, ckpt, AllowUnsignedLegacy>>,
           md'.expected_size = md.expected_size, pc' \notin Application
    PROVE  Sizes'
BY CandidateStays DEF Sizes, Sized

(* A commit within it.                                                     *)
LEMMA InstallCommit ==
    ASSUME PowerInv, faulted \in BOOLEAN, NEW m, NEW ok, NEW err, CommitStep(m, ok, err),
           pc \in InInstall,
           m.expected_size = md.expected_size,
           m.state \notin Container \cup {"FAILED", "ROLLBACK"},
           {ok, err} \cap (InContainer \cup InPatch \cup Application
                              \cup {"reprogram", "restoreCommit"}) = {},
           ok \notin {"fatal", "markFailed"},
           err \in {"fatal", "markFailed"} => FieldsAreValid(m), md.state # "ROLLBACK"
    PROVE  PowerInv'
<1>1. Tame
  <2>1. faulted => faulted'
    BY AnyCommit
  <2>2. CASE FieldsAreValid(m)
    BY <2>2, ValidCommit, <2>1 DEF Tame
  <2>3. CASE err \notin {"fatal", "markFailed"}
    <3>1. /\ (md' = m /\ pc' = ok) \/ (md' \in {md, m} /\ pc' = err)
          /\ UNCHANGED <<incoming, mustReject>>
      BY AnyCommit
    <3>2. ~faulted' => md.state # "FAILED"
      BY <2>1 DEF PowerInv, Unfaulted
    <3> QED BY <2>1, <2>3, <3>1, <3>2 DEF Tame
  <2> QED BY <2>2, <2>3
<1>2. Sizes'
  BY AnyCommit, InstallSizes DEF PowerInv
<1>3. Kinds'
  BY AnyCommit, KindsStay DEF PowerInv
<1> QED BY <1>1, <1>2, <1>3, TameKeeps DEF PowerInv

(* A step of the installer that writes no record and does not touch pages. *)
LEMMA InstallGoes ==
    ASSUME PowerInv, NEW l, Goto(l), UNCHANGED <<app, bk, md, incoming, AllowUnsignedLegacy>>,
           l \notin InContainer \cup InPatch \cup Application \cup {"reprogram", "restoreCommit"},
           ~faulted' => l \notin {"fatal", "markFailed"}, faulted => faulted',
           ckpt' \in {ckpt, NoCheckpoint}, handoff' \in {handoff, NoHandoff},
           l \in InInstall => pc \in InInstall /\ UNCHANGED <<ckpt, handoff>>
    PROVE  PowerInv'
<1>1. pc' = l /\ UNCHANGED mustReject
  BY DEF Goto
<1>2. Tame
  BY <1>1 DEF Tame, PowerInv, Unfaulted
<1>3. Kinds'
  BY <1>1, KindsStay DEF PowerInv
<1>4. Sizes'
  BY <1>1, SizesStay, InstallSizes DEF PowerInv
<1> QED BY <1>2, <1>3, <1>4, TameKeeps DEF PowerInv

(* The commit that begins a restoration: no page is claimed yet.           *)
LEMMA RollbackCommit ==
    ASSUME PowerInv, NodeInv, NEW e, NEW ok \in {"rollback", "restore"},
           CommitStep(BeginRollback(md, e), ok, "fatal"), md.state \in Replacing \cup {"TRIAL_BOOT"}
    PROVE  PowerInv'
<1> DEFINE m == BeginRollback(md, e)
<1>0. faulted \in BOOLEAN /\ md \in MetadataType /\ FieldsAreValid(md) /\ md.pending_version # 0
  BY PowerFacts
<1>1. FieldsAreValid(m) /\ m.copy_offset = 0 /\ m.state = "ROLLBACK"
  <2>1. FieldsAreValid(m) /\ m.copy_offset = 0
    BY <1>0, ValidBeginRollback
  <2>2. m.state = "ROLLBACK"
    BY <1>0 DEF BeginRollback, MetadataType
  <2> QED BY <2>1, <2>2
<1>2. CommitStep(m, ok, "fatal")
  OBVIOUS
<1> HIDE DEF m
<1>3. Kinds'
  BY <1>0, <1>1, <1>2, AnyCommit, KindsStay
     DEF PowerInv, Container, InContainer, InPatch, Application
<1>4. Sizes'
  BY <1>0, <1>2, AnyCommit, SizesStay DEF PowerInv, InInstall, Application
<1>5. Unfaulted'
  <2> SUFFICES ASSUME ~faulted'
               PROVE  /\ pc' \in {"rollback", "restore"} /\ md'.state # "FAILED"
                      /\ mustReject' => ~incoming'.magic
                      /\ RestoredBelow(md.copy_offset)'
    BY DEF Unfaulted
  <2>1. ~faulted /\ md' = m /\ pc' = ok /\ UNCHANGED <<incoming, mustReject>>
    BY <1>0, <1>1, <1>2, ValidCommit
  <2>2. RestoredBelow(md.copy_offset)'
    <3>1. \A p \in Pages : ~(p * INTERNAL_FLASH_PAGE_SIZE < 0)
      <4> SUFFICES ASSUME NEW p \in Pages PROVE ~(p * INTERNAL_FLASH_PAGE_SIZE < 0)
        OBVIOUS
      <4>1. p * INTERNAL_FLASH_PAGE_SIZE \in Int
        BY DEF Pages
      <4> QED BY <4>1, PagesInside
    <3>2. md'.copy_offset = 0
      BY <1>1, <2>1
    <3> QED BY <3>1, <3>2 DEF RestoredBelow
  <2> QED BY <1>1, <2>1, <2>2 DEF PowerInv, Unfaulted
<1> QED BY <1>3, <1>4, <1>5 DEF PowerInv

(* ImageInstaller_ProcessBasicFull and ImageInstaller_ProcessRollback.     *)
LEMMA InstallPower == ASSUME NodeInv, PowerInv, InstallStep PROVE PowerInv'
<1>0. /\ faulted \in BOOLEAN /\ mustReject \in BOOLEAN
      /\ md \in MetadataType /\ FieldsAreValid(md) /\ w \in MetadataType
      /\ pc \notin {"revert", "revertCommit", "markFailed", "fatal"} => w = md
      /\ Kinds /\ Sizes /\ Unfaulted
      /\ md.state \in Requested \cup Replacing \cup {"TRIAL_BOOT"} => md.pending_version # 0
  BY PowerFacts DEF PowerInv
<1>a. Candidate \in Versions /\ ImageSize[Candidate] \in 1..APPLICATION_MAX_SIZE
  BY FactsHold DEF NodeInv, Facts, Candidate
<1>b. md.state \in Replacing \cup {"TRIAL_BOOT", "ROLLBACK"} => BackupValid
  BY DEF NodeInv, Consistent, NoImageLoss, BackupHolds, Replacing
<1>c. StatesAt
  BY DEF NodeInv, Consistent
<1> USE DEF InContainer, InPatch, InInstall, Application, At, Quiet
<1>1. CASE InstallStart
  <2>0. w = md /\ UNCHANGED <<app, bk, md, incoming, ckpt, handoff, AllowUnsignedLegacy, faulted>>
    BY <1>0, <1>1 DEF InstallStart, records, world
  <2> DEFINE accepted == LoadCandidateSource(w) /\ ValidateExternalSource
  <2>1. w.state \in {"ARTIFACT_READY", "IMAGE_READY", "BACKING_UP", "INSTALLING",
                     "VERIFYING_INSTALL"}
    BY <1>1, <1>c, <2>0 DEF InstallStart, StatesAt, Replacing
  <2>2. accepted => md.expected_size = ImageSize[Candidate]
    BY <1>0, <2>0 DEF LoadCandidateSource, FullRecordMatchesMetadata, Candidate, Sizes
  <2>3. \E l \in {"installRollback", "revert", "invalidate", "backup", "validateBackup"} :
           Goto(l) /\ (l \in InInstall => accepted)
    BY <1>1, <2>1 DEF InstallStart, InternalMayBeModified
  <2> HIDE DEF accepted
  <2>4. PICK l \in {"installRollback", "revert", "invalidate", "backup", "validateBackup"} :
           Goto(l) /\ (l \in InInstall => accepted)
    BY <2>3
  <2>5. pc' = l /\ UNCHANGED mustReject
    BY <2>4 DEF Goto
  <2>6. Tame
    BY <1>0, <2>0, <2>5 DEF Tame, Unfaulted
  <2>7. Kinds'
    BY <1>0, <2>0, <2>5, KindsStay
  <2>8. Sizes'
    BY <1>0, <2>0, <2>2, <2>4, <2>5, CandidateStays DEF Sizes, Sized
  <2> QED BY <1>0, <2>6, <2>7, <2>8, TameKeeps DEF PowerInv
<1>2. CASE BackupInvalidateHeader
  BY <1>0, <1>2, InstallGoes DEF BackupInvalidateHeader, records, world
<1>3. CASE BeginBackup
  <2>1. w = md /\ md.state \in {"ARTIFACT_READY", "IMAGE_READY"} /\ md.pending_version # 0
    BY <1>0, <1>3, <1>c DEF BeginBackup, StatesAt, Requested, Container
  <2>2. FieldsAreValid(BackingUp(w)) /\ BackingUp(w).state = "BACKING_UP"
        /\ BackingUp(w).expected_size = md.expected_size
    BY <1>0, <2>1, ValidBackingUp, BackingUpRecord, SizeStays
  <2> QED BY <1>0, <1>3, <2>1, <2>2, InstallCommit DEF BeginBackup, Container
<1>4. CASE BackupEraseSector
  <2>1. /\ pc' = "backupWrite" /\ md.state = "BACKING_UP"
        /\ UNCHANGED <<md, incoming, ckpt, handoff, AllowUnsignedLegacy, faulted, mustReject>>
    BY <1>4, <1>c DEF BackupEraseSector, Goto, StatesAt, records, world
  <2>2. Tame
    BY <1>0, <2>1 DEF Tame
  <2> QED BY <1>0, <1>4, <2>1, <2>2, TameKeeps, KindsStay, InstallSizes
             DEF PowerInv, BackupEraseSector
<1>5. CASE BackupWrite
  <2>1. /\ pc' = "backupCommit" /\ md.state = "BACKING_UP"
        /\ UNCHANGED <<md, incoming, ckpt, handoff, AllowUnsignedLegacy, faulted, mustReject>>
    BY <1>5, <1>c DEF BackupWrite, Goto, StatesAt, records, world
  <2>2. Tame
    BY <1>0, <2>1 DEF Tame
  <2> QED BY <1>0, <1>5, <2>1, <2>2, TameKeeps, KindsStay, InstallSizes DEF PowerInv, BackupWrite
<1>6. CASE BackupCheckpoint
  <2>1. w = md /\ md.state = "BACKING_UP"
    BY <1>0, <1>6, <1>c DEF BackupCheckpoint, StatesAt
  <2> DEFINE m == AtOffset(w, BackupProgress_NextCheckpoint(w.copy_offset))
  <2>2. m.state = "BACKING_UP" /\ m.expected_size = md.expected_size
    BY <1>0, <2>1 DEF AtOffset, MetadataType
  <2>3. CommitStep(m, "backup", "revert")
    BY <1>6 DEF BackupCheckpoint
  <2> HIDE DEF m
  <2> QED BY <1>0, <1>6, <2>1, <2>2, <2>3, InstallCommit DEF BackupCheckpoint, Container
<1>7. CASE BackupSeal
  <2>1. \E l \in {"sealed", "revert"} : Goto(l)
    BY <1>7 DEF BackupSeal
  <2> QED BY <1>0, <1>7, <2>1, InstallGoes DEF BackupSeal, records, world
<1>8. CASE BackupComplete
  <2>1. w = md /\ md.state = "BACKING_UP"
    BY <1>0, <1>8, <1>c DEF BackupComplete, StatesAt
  <2>2. Installing(w).state = "INSTALLING" /\ Installing(w).expected_size = md.expected_size
    BY <1>0, <2>1, InstallingRecord, SizeStays
  <2> QED BY <1>0, <1>8, <2>1, <2>2, InstallCommit DEF BackupComplete, Container
<1>9. CASE InstallCheckBackup
  <2>1. BackupValid
    BY <1>9, <1>b, <1>c DEF InstallCheckBackup, StatesAt
  <2>2. \E l \in {"clear", "beginInstall", "copy", "installRollback"} : Goto(l)
    BY <1>9, <2>1 DEF InstallCheckBackup
  <2> QED BY <1>0, <1>9, <2>2, InstallGoes DEF InstallCheckBackup, records, world
<1>10. CASE BeginInstall
  <2>1. w = md /\ md.state = "VERIFYING_INSTALL"
    BY <1>0, <1>10, <1>c DEF BeginInstall, StatesAt
  <2>2. /\ FieldsAreValid(Installing(w)) /\ Installing(w).state = "INSTALLING"
        /\ Installing(w).expected_size = md.expected_size
    BY <1>0, <2>1, ValidInstalling, InstallingRecord, SizeStays
  <2> QED BY <1>0, <1>10, <2>1, <2>2, InstallCommit DEF BeginInstall, Container
<1>11. CASE InstallErasePage
  <2>1. /\ pc' = "program" /\ md.state = "INSTALLING"
        /\ UNCHANGED <<md, incoming, ckpt, handoff, AllowUnsignedLegacy, faulted, mustReject>>
    BY <1>11, <1>c DEF InstallErasePage, Goto, StatesAt, records, world
  <2>2. Tame
    BY <1>0, <2>1 DEF Tame
  <2> QED BY <1>0, <1>11, <2>1, <2>2, TameKeeps, KindsStay, InstallSizes
             DEF PowerInv, InstallErasePage
<1>12. CASE InstallProgramPage
  <2>1. /\ pc' = "copyCommit" /\ md.state = "INSTALLING"
        /\ UNCHANGED <<md, incoming, ckpt, handoff, AllowUnsignedLegacy, faulted, mustReject>>
    BY <1>12, <1>c DEF InstallProgramPage, Goto, StatesAt, records, world
  <2>2. Tame
    BY <1>0, <2>1 DEF Tame
  <2> QED BY <1>0, <1>12, <2>1, <2>2, TameKeeps, KindsStay, InstallSizes
             DEF PowerInv, InstallProgramPage
<1>13. CASE InstallCheckpoint
  <2>1. w = md /\ md.state = "INSTALLING" /\ md.expected_size = ImageSize[Candidate]
    BY <1>0, <1>13, <1>c DEF InstallCheckpoint, StatesAt, Sizes
  <2> DEFINE m == AtOffset(w, InstallProgress_NextCheckpoint(w.expected_size, w.copy_offset))
  <2>2. FieldsAreValid(m)
    BY <1>0, <1>a, <2>1, ValidCheckpoint
  <2>3. m.state = "INSTALLING" /\ m.expected_size = md.expected_size
    BY <1>0, <2>1 DEF AtOffset, MetadataType
  <2>4. CommitStep(m, "copy", "fatal")
    BY <1>13, <2>1 DEF InstallCheckpoint
  <2> HIDE DEF m
  <2> QED BY <1>0, <1>13, <2>1, <2>2, <2>3, <2>4, InstallCommit DEF InstallCheckpoint, Container
<1>14. CASE TransitionToVerify
  <2>1. w = md /\ md.state = "INSTALLING" /\ md.expected_size = ImageSize[Candidate]
    BY <1>0, <1>14, <1>c DEF TransitionToVerify, StatesAt, Sizes
  <2> DEFINE m == VerifyingInstall(w, w.expected_size)
  <2>2. FieldsAreValid(m)
    BY <1>0, <1>a, <2>1, ValidVerifying
  <2>3. m.state = "VERIFYING_INSTALL" /\ m.expected_size = md.expected_size
    BY <1>0, <2>1 DEF VerifyingInstall, AtOffset, MetadataType
  <2>4. CommitStep(m, "verify", "fatal")
    BY <1>14, <2>1 DEF TransitionToVerify
  <2> HIDE DEF m
  <2> QED BY <1>0, <1>14, <2>1, <2>2, <2>3, <2>4, InstallCommit DEF TransitionToVerify, Container
<1>15. CASE InstallVerify
  <2>1. \E l \in {"clear", "installRollback"} : Goto(l)
    BY <1>15 DEF InstallVerify
  <2> QED BY <1>0, <1>15, <2>1, InstallGoes DEF InstallVerify, records, world
<1>16. CASE TrialClearCheckpoint
  <2>1. CASE CheckpointStored(NoCheckpoint) /\ Goto("toTrial")
    BY <1>0, <1>16, <2>1, InstallGoes DEF TrialClearCheckpoint, CheckpointStored, world
  <2>2. CASE CheckpointFails(NoCheckpoint) /\ Goto("fatal")
    BY <1>0, <1>16, <2>2, InstallGoes DEF TrialClearCheckpoint, CheckpointFails, Fault, world
  <2> QED BY <1>16, <2>1, <2>2 DEF TrialClearCheckpoint
<1>17. CASE TransitionToTrialBoot
  <2>1. w = md /\ md.state = "VERIFYING_INSTALL" /\ md.pending_version # 0
    BY <1>0, <1>17, <1>c DEF TransitionToTrialBoot, StatesAt, Replacing
  <2>2. FieldsAreValid(TrialBoot(w)) /\ TrialBoot(w).state = "TRIAL_BOOT"
    BY <1>0, <2>1, ValidTrial, TrialBootRecord
  <2>3. CommitAndReturn(TrialBoot(w))
    BY <1>17 DEF TransitionToTrialBoot
  <2>4. Tame
    BY <1>0, <2>2, <2>3, ValidReturn DEF Tame
  <2> QED BY <1>0, <2>2, <2>3, <2>4, TameKeeps, KindsStay, SizesStay, AnyReturn
             DEF PowerInv, Container
<1>18. CASE RevertClear
  <2>1. Goto("revertCommit") /\ (faulted => faulted') /\ ckpt' \in {ckpt, NoCheckpoint}
        /\ handoff' \in {handoff, NoHandoff}
    BY <1>18 DEF RevertClear, ClearBestEffort, CheckpointStored, CheckpointFails, Fault
  <2> QED BY <1>18, <2>1, InstallGoes DEF RevertClear, world
<1>19. CASE RevertCommit
  <2> DEFINE m == IdleFields(w, w.active_version, "installer")
  <2>1. FieldsAreValid(m) /\ m.state = "IDLE"
    BY <1>0, ValidIdle
  <2>2. CommitAndReturn(m)
    BY <1>19 DEF RevertCommit
  <2> HIDE DEF m
  <2>3. Tame
    BY <1>0, <2>1, <2>2, ValidReturn DEF Tame
  <2> QED BY <1>0, <2>1, <2>2, <2>3, TameKeeps, KindsStay, SizesStay, AnyReturn
             DEF PowerInv, Container
<1>20. CASE BestEffortMarkFailed
  <2>1. faulted /\ CommitStep(MarkedFailed(w), "fatal", "fatal")
    BY <1>0, <1>20 DEF BestEffortMarkFailed, Unfaulted
  <2>2. MarkedFailed(w).state = "FAILED"
    BY <1>0, MarkedFailedRecord
  <2>3. Tame
    BY <1>0, <2>1, AnyCommit DEF Tame
  <2> QED BY <1>0, <2>1, <2>2, <2>3, TameKeeps, KindsStay, SizesStay, AnyCommit
             DEF PowerInv, Container
<1>21. CASE RollbackAfterInstallFailure
  <2>1. w = md /\ md.state \in Replacing
    BY <1>0, <1>21, <1>c DEF RollbackAfterInstallFailure, StatesAt
  <2> QED BY <1>0, <1>21, <2>1, RollbackCommit DEF RollbackAfterInstallFailure
<1>22. CASE RollbackStart
  <2>1. w = md /\ md.state \in {"TRIAL_BOOT", "ROLLBACK"} /\ BackupValid
    BY <1>0, <1>22, <1>b, <1>c DEF RollbackStart, StatesAt
  <2>2. md.state = "ROLLBACK" => InstallProgress_Validate(APPLICATION_MAX_SIZE, md.copy_offset)
    BY <1>0 DEF FieldsAreValid, StateFieldsAreConsistent, InstallProgress_Validate
  <2>3. \E l \in {"beginRollback", "restore"} : Goto(l)
    BY <1>22, <2>1, <2>2 DEF RollbackStart
  <2> QED BY <1>0, <1>22, <2>3, InstallGoes DEF RollbackStart, records, world
<1>23. CASE RollbackBegin
  <2>1. w = md /\ md.state = "TRIAL_BOOT"
    BY <1>0, <1>23, <1>c DEF RollbackBegin, StatesAt
  <2> QED BY <1>0, <1>23, <2>1, RollbackCommit DEF RollbackBegin
<1>d. md.state = "ROLLBACK" => /\ md.copy_offset \in 0..APPLICATION_MAX_SIZE
                               /\ AlignedOrEnd(md.copy_offset, INTERNAL_FLASH_PAGE_SIZE,
                                               APPLICATION_MAX_SIZE)
  BY <1>0 DEF FieldsAreValid, StateFieldsAreConsistent, MetadataType
<1>e. app \in [Pages -> Contents] /\ bk \in [Pages -> Contents]
  BY DEF NodeInv, TypeOK, FlashTypeOK
<1>24. CASE RollbackErasePage
  <2>1. /\ w = md /\ md.state = "ROLLBACK" /\ md.copy_offset < APPLICATION_MAX_SIZE
        /\ pc' = "reprogram"
        /\ UNCHANGED <<bk, md, incoming, ckpt, handoff, AllowUnsignedLegacy, faulted, mustReject>>
    BY <1>0, <1>24, <1>c DEF RollbackErasePage, Goto, StatesAt, records, world
  <2>2. \A p \in Pages : p * INTERNAL_FLASH_PAGE_SIZE < md.copy_offset => app'[p] = app[p]
    BY <1>24, <1>d, <1>e, <2>1, PageAt DEF RollbackErasePage
  <2>3. Unfaulted'
    BY <1>0, <2>1, <2>2 DEF Unfaulted, RestoredBelow
  <2> QED BY <1>0, <2>1, <2>3, KindsStay, SizesStay DEF PowerInv
<1>25. CASE RollbackProgramPage
  <2>1. /\ w = md /\ md.state = "ROLLBACK" /\ pc' = "restoreCommit"
        /\ UNCHANGED <<bk, md, incoming, ckpt, handoff, AllowUnsignedLegacy, faulted, mustReject>>
    BY <1>0, <1>25, <1>c DEF RollbackProgramPage, Goto, StatesAt, records, world
  <2>2. ~faulted => /\ md.copy_offset < APPLICATION_MAX_SIZE
                    /\ app'[PageOf(md.copy_offset)] = bk[PageOf(md.copy_offset)]
                    /\ \A p \in Pages : p * INTERNAL_FLASH_PAGE_SIZE < md.copy_offset =>
                         app'[p] = app[p]
    <3> SUFFICES ASSUME ~faulted
                 PROVE  /\ md.copy_offset < APPLICATION_MAX_SIZE
                        /\ app'[PageOf(md.copy_offset)] = bk[PageOf(md.copy_offset)]
                        /\ \A p \in Pages : p * INTERNAL_FLASH_PAGE_SIZE < md.copy_offset =>
                             app'[p] = app[p]
      OBVIOUS
    <3>1. md.copy_offset < APPLICATION_MAX_SIZE
      BY <1>0, <1>25 DEF Unfaulted, RollbackProgramPage
    <3> QED BY <1>25, <1>d, <1>e, <2>1, <3>1, PageAt DEF RollbackProgramPage, LoadBackupPage
  <2>3. Unfaulted'
    BY <1>0, <2>1, <2>2 DEF Unfaulted, RestoredBelow
  <2> QED BY <1>0, <2>1, <2>3, KindsStay, SizesStay DEF PowerInv
<1>26. CASE RollbackCheckpoint
  <2> DEFINE next == InstallProgress_NextCheckpoint(APPLICATION_MAX_SIZE, w.copy_offset)
             m == RestoredTo(w, next)
  <2>0. w = md /\ md.state = "ROLLBACK" /\ CommitStep(m, "restore", "markFailed")
    BY <1>0, <1>26, <1>c DEF RollbackCheckpoint, StatesAt
  <2>1. FieldsAreValid(m)
    BY <1>0, <2>0, ValidRestoredTo
  <2>2. m.state = "ROLLBACK" /\ m.copy_offset = next
    BY <1>0, <2>0 DEF RestoredTo, MetadataType
  <2>3. next \in Int /\ next <= md.copy_offset + INTERNAL_FLASH_PAGE_SIZE
    BY <1>d, <2>0 DEF InstallProgress_NextCheckpoint, MinOf
  <2> HIDE DEF m, next
  <2>4. Unfaulted'
    <3> SUFFICES ASSUME ~faulted'
                 PROVE  /\ pc' = "restore" /\ md'.state # "FAILED"
                        /\ mustReject' => ~incoming'.magic
                        /\ RestoredBelow(md.copy_offset)'
      BY DEF Unfaulted
    <3>1. /\ ~faulted /\ md' = m /\ pc' = "restore"
          /\ UNCHANGED <<app, bk, incoming, mustReject>>
      BY <1>0, <2>0, <2>1, ValidCommit
    <3>2. /\ RestoredBelow(md.copy_offset) /\ md.copy_offset < APPLICATION_MAX_SIZE
          /\ app[PageOf(md.copy_offset)] = bk[PageOf(md.copy_offset)]
      BY <1>0, <1>26, <2>0, <3>1 DEF Unfaulted, RollbackCheckpoint
    <3>3. ASSUME NEW p \in Pages, p * INTERNAL_FLASH_PAGE_SIZE < next PROVE app[p] = bk[p]
      <4>1. p * INTERNAL_FLASH_PAGE_SIZE \in Int
        BY DEF Pages
      <4>2. p * INTERNAL_FLASH_PAGE_SIZE < md.copy_offset + INTERNAL_FLASH_PAGE_SIZE
        BY <1>d, <2>0, <2>3, <3>3, <4>1
      <4> QED BY <1>d, <2>0, <3>2, <4>2, PageAt DEF RestoredBelow
    <3>4. RestoredBelow(md.copy_offset)'
      BY <2>2, <3>1, <3>3 DEF RestoredBelow
    <3> QED BY <1>0, <2>2, <3>1, <3>4 DEF Unfaulted
  <2>5. Kinds'
    BY <1>0, <2>0, <2>2, AnyCommit, KindsStay DEF Container
  <2>6. Sizes'
    BY <1>0, <2>0, AnyCommit, SizesStay
  <2> QED BY <2>4, <2>5, <2>6 DEF PowerInv
<1>27. CASE RollbackVerify
  <2>1. w = md /\ md.state = "ROLLBACK" /\ md.copy_offset = APPLICATION_MAX_SIZE /\ BackupValid
    BY <1>0, <1>27, <1>b, <1>c DEF RollbackVerify, StatesAt
  <2>2. ~faulted => VerifyRolledBackApplication
    <3> SUFFICES ASSUME ~faulted PROVE VerifyRolledBackApplication
      OBVIOUS
    <3>1. \A p \in Pages : app[p] = bk[p]
      BY <1>0, <2>1, PagesInside DEF Unfaulted, RestoredBelow
    <3>2. app = bk /\ bkHdr.image = bk
      BY <1>e, <2>1, <3>1 DEF BackupValid
    <3>3. ImageHeld(app, md.active_version)
      BY <2>1, <3>2 DEF NodeInv, Consistent, NoImageLoss, BackupHolds
    <3>4. app[0] # Blank
      BY <3>3, FactsHold DEF NodeInv, Facts, Blank
    <3> QED BY <3>2, <3>4 DEF VerifyRolledBackApplication, ApplicationValid
  <2>3. \E l \in {"restored", "markFailed"} : Goto(l) /\ (~faulted => l # "markFailed")
    BY <1>27, <2>2 DEF RollbackVerify
  <2> QED BY <1>0, <1>27, <2>3, InstallGoes DEF RollbackVerify, records, world
<1>28. CASE RollbackClear
  <2>1. Goto("finalize") /\ (faulted => faulted') /\ ckpt' \in {ckpt, NoCheckpoint}
        /\ handoff' \in {handoff, NoHandoff}
    BY <1>28 DEF RollbackClear, ClearBestEffort, CheckpointStored, CheckpointFails, Fault
  <2> QED BY <1>28, <2>1, InstallGoes DEF RollbackClear, world
<1>29. CASE FinalizeRollback
  <2> DEFINE m == IdleFields(w, bkHdr.version, RollbackDiagnostic(w))
  <2>1. FieldsAreValid(m) /\ m.state = "IDLE"
    BY <1>0, ValidIdle
  <2>2. CommitAndReturn(m)
    BY <1>29 DEF FinalizeRollback
  <2> HIDE DEF m
  <2>3. Tame
    BY <1>0, <2>1, <2>2, ValidReturn DEF Tame
  <2> QED BY <1>0, <2>1, <2>2, <2>3, TameKeeps, KindsStay, SizesStay, AnyReturn
             DEF PowerInv, Container
<1>30. CASE InstallFault
  <2>1. \E l \in {"fatal", "installRollback", "revert", "markFailed"} : Goto(l)
    BY <1>30 DEF InstallFault, InstallFaultTarget
  <2>2. faulted' /\ UNCHANGED <<app, bk, md, incoming, ckpt, handoff, AllowUnsignedLegacy>>
    BY <1>30 DEF InstallFault, Fault, records, world
  <2> QED BY <2>1, <2>2, InstallGoes
<1> QED
  BY <1>1, <1>2, <1>3, <1>4, <1>5, <1>6, <1>7, <1>8, <1>9, <1>10, <1>11, <1>12, <1>13, <1>14, <1>15,
     <1>16, <1>17, <1>18, <1>19, <1>20, <1>21, <1>22, <1>23, <1>24, <1>25, <1>26, <1>27, <1>28,
     <1>29, <1>30 DEF InstallStep

(* The application: the artifacts of a transfer are of the size announced. *)
LEMMA ApplicationPower == ASSUME NodeInv, NodeInv', PowerInv, ApplicationStep PROVE PowerInv'
<1>0. /\ faulted \in BOOLEAN /\ mustReject \in BOOLEAN
      /\ md \in MetadataType /\ FieldsAreValid(md) /\ w \in MetadataType
      /\ Kinds /\ Sizes /\ Unfaulted
  BY PowerFacts DEF PowerInv
<1>a. /\ pc \in Application /\ ~mustReject
      /\ md.state \in {"IDLE", "ARTIFACT_READY", "TRIAL_BOOT", "CONFIRMED"}
  <2>1. pc \in Application
    BY DEF ApplicationStep, OtaStart, OtaDataSome, OtaDataAll, OtaFinish, OtaAbort, OtaInstall,
           OtaInstallFull,
           OtaPersistHandoff, OtaRequestInstall, TrialConfirm, ProcessConfirm, InApp, Application
  <2> QED BY <1>0, <2>1 DEF NodeInv, Consistent, StatesAt, Kinds
<1>b. AppMoves
  BY ApplicationMoves
<1>c. faulted => faulted'
  <2>1. ASSUME NEW m, Committed(m) \/ NotCommitted(m) PROVE faulted => faulted'
    BY <2>1, Zenon DEF Committed, NotCommitted
  <2> QED BY <2>1
             DEF ApplicationStep, OtaStart, OtaDataSome, OtaDataAll, OtaFinish, OtaAbort,
                 OtaInstall,
           OtaInstallFull, OtaPersistHandoff, OtaRequestInstall, TrialConfirm, ProcessConfirm,
           ConfirmNow,
           CheckpointStored, CheckpointFails, Fault, env
<1>d. UNCHANGED <<bk, AllowUnsignedLegacy>> /\ ~mustReject' /\ pc' \in Application \cup {"reset"}
  <2> USE DEF InApp, Application
  <2>1. CASE \E o \in Offers[AllowUnsignedLegacy] : OtaStart(o)
    BY <1>a, <2>1 DEF OtaStart, AppKept, world
  <2>2. CASE OtaDataSome \/ OtaDataAll \/ OtaFinish \/ OtaAbort
    BY <1>a, <2>2 DEF OtaDataSome, OtaDataAll, OtaFinish, OtaAbort, AppKept, world
  <2>3. CASE OtaInstall \/ OtaInstallFull
    BY <1>a, <2>3 DEF OtaInstall, OtaInstallFull, GoesOn, Goto, Reset, flash, env, world
  <2>4. CASE OtaPersistHandoff \/ OtaRequestInstall
    BY <1>a, <2>4 DEF OtaPersistHandoff, OtaRequestInstall, GoesOn, Goto, Reset, world
  <2>5. CASE TrialConfirm \/ ProcessConfirm
    BY <1>a, <2>5 DEF TrialConfirm, ProcessConfirm, ConfirmNow, GoesOn, Reset, world
  <2> QED BY <2>1, <2>2, <2>3, <2>4, <2>5 DEF ApplicationStep
<1>1. Tame
  BY <1>0, <1>a, <1>b, <1>c, <1>d DEF Tame, AppMoves, Application
<1>2. Kinds'
  BY <1>0, <1>a, <1>b, <1>d DEF Kinds, AppMoves, Application, Container, InContainer, InPatch
<1>3. Sizes'
  <2> USE DEF Application, InInstall, InApp
  <2>1. CASE \E o \in Offers[AllowUnsignedLegacy] : OtaStart(o)
    <3>1. PICK o \in Offers[AllowUnsignedLegacy] : OtaStart(o)
      BY <2>1
    <3>2. Sized(o.artifact)
      BY <3>1, BareOffersAssumption DEF Sized, NodeInv, TypeOK, EnvTypeOK
    <3> DEFINE record == [state |-> "RECEIVING", version |-> o.version, artifact |-> o.artifact]
    <3>3. /\ ckpt' \in {ckpt, record} /\ handoff' \in {handoff, NoHandoff}
          /\ session' \in {[state |-> "RECEIVING", version |-> o.version,
                            artifact |-> o.artifact, received |-> FALSE],
                           [NoSession EXCEPT !.state = "IDLE"]}
      BY <3>1 DEF OtaStart, CheckpointStored, CheckpointFails, ResetTransfer
    <3>4. ckpt'.state # "IDLE" => Sized(ckpt'.artifact)
      BY <1>0, <3>2, <3>3 DEF Sizes
    <3>5. session'.state \in {"RECEIVING", "ARTIFACT_READY"} => Sized(session'.artifact)
      BY <3>2, <3>3 DEF NoSession
    <3>6. handoff'.version # 0 => handoff'.artifact.total_size = ImageSize[handoff'.artifact.target]
      BY <1>0, <3>3 DEF Sizes, NoHandoff
    <3> QED BY <1>d, <3>4, <3>5, <3>6 DEF Sizes, Sized
  <2>2. CASE OtaDataSome \/ OtaDataAll
    <3>1. UNCHANGED <<ckpt, handoff>> /\ pc' = "app" /\ pc = "app" /\ session.state = "RECEIVING"
          /\ session'.artifact = session.artifact
      BY <2>2 DEF OtaDataSome, OtaDataAll, AppKept, records, NodeInv, TypeOK, RamTypeOK, Session
    <3> QED BY <1>0, <1>d, <3>1 DEF Sizes, Sized
  <2>3. CASE OtaFinish
    <3> DEFINE record == [state |-> "ARTIFACT_READY", version |-> session.version,
                          artifact |-> session.artifact]
    <3>1. /\ ckpt' \in {ckpt, record} /\ handoff' \in {handoff, NoHandoff} /\ pc' = "app"
          /\ pc = "app"
          /\ session.state = "RECEIVING" /\ session'.artifact = session.artifact
      BY <2>3
         DEF OtaFinish, CheckpointStored, CheckpointFails, AppKept, records, NodeInv, TypeOK,
             RamTypeOK,
            Session
    <3>2. Sized(session.artifact)
      BY <1>0, <3>1 DEF Sizes
    <3>3. ckpt'.state # "IDLE" => Sized(ckpt'.artifact)
      BY <1>0, <3>1, <3>2 DEF Sizes
    <3>4. handoff'.version # 0 => handoff'.artifact.total_size = ImageSize[handoff'.artifact.target]
      BY <1>0, <3>1 DEF Sizes, NoHandoff
    <3> QED BY <1>d, <3>1, <3>2, <3>3, <3>4 DEF Sizes, Sized
  <2>4. CASE OtaAbort
    <3>1. /\ ckpt' \in {ckpt, NoCheckpoint} /\ handoff' \in {handoff, NoHandoff}
          /\ pc' = "app" /\ pc = "app"
          /\ session' \in {session, [NoSession EXCEPT !.state = "IDLE"]}
      BY <2>4 DEF OtaAbort, CheckpointStored, CheckpointFails, AppKept, ResetTransfer
    <3> QED BY <1>0, <1>d, <3>1 DEF Sizes, Sized, NoCheckpoint, NoHandoff, NoSession
  <2>5. CASE OtaInstall \/ OtaInstallFull \/ OtaRequestInstall \/ TrialConfirm \/ ProcessConfirm
    <3>1. UNCHANGED <<ckpt, handoff>> /\ (pc' = "reset" \/ UNCHANGED session)
      BY <2>5
         DEF OtaInstall, OtaInstallFull, OtaRequestInstall, TrialConfirm, ProcessConfirm,
             ConfirmNow, GoesOn, Reset, Goto, flash, records
    <3> QED BY <1>0, <1>a, <1>d, <3>1, SizesStay
  <2>6. CASE OtaPersistHandoff
    <3>1. /\ pc = "persist" /\ session.state = "ARTIFACT_READY" /\ UNCHANGED session
          /\ ckpt' \in {ckpt, NoCheckpoint}
          /\ handoff' \in {handoff, [version |-> session.version, artifact |-> session.artifact]}
      BY <2>6 DEF OtaPersistHandoff, Goto, NodeInv, Consistent, Transfers
    <3>2. session.artifact.total_size = ImageSize[session.artifact.target]
      BY <1>0, <3>1 DEF Sizes, Sized, NodeInv, Consistent, Transfers
    <3> QED BY <1>0, <1>d, <3>1, <3>2 DEF Sizes, Sized, NoCheckpoint
  <2> QED BY <2>1, <2>2, <2>3, <2>4, <2>5, <2>6 DEF ApplicationStep
<1> QED BY <1>0, <1>1, <1>2, <1>3, TameKeeps DEF PowerInv

(* The environment.                                                        *)
LEMMA DisturbancePower == ASSUME NodeInv, PowerInv, Disturbance PROVE PowerInv'
<1>0. Kinds /\ Sizes /\ Unfaulted
  BY DEF PowerInv
<1> USE DEF InContainer, InPatch, InInstall, Application
<1>1. CASE WatchdogReset \/ PowerLoss \/ PowerCycle
  <2>1. /\ pc' = "reset" /\ ~mustReject'
        /\ UNCHANGED <<app, bk, md, incoming, AllowUnsignedLegacy, faulted>>
        /\ ckpt' \in {ckpt, NoCheckpoint} /\ handoff' \in {handoff, NoHandoff}
    BY <1>1 DEF WatchdogReset, PowerLoss, PowerCycle, Reset, flash, env, records, world
  <2>2. Tame
    BY <1>0, <2>1 DEF Tame, Unfaulted
  <2> QED BY <1>0, <2>1, <2>2, TameKeeps, KindsStay, SizesStay DEF PowerInv
<1>2. CASE PageDecays
  <2>1. Unfaulted'
    BY <1>2 DEF PageDecays, Fault, Unfaulted
  <2>2. UNCHANGED <<pc, md, incoming, handoff, ckpt, session, mustReject, AllowUnsignedLegacy>>
    BY <1>2 DEF PageDecays, records, ram, world
  <2> QED BY <1>0, <2>1, <2>2, CandidateStays
             DEF PowerInv, Kinds, Sizes, Sized, DeltaPatcher_IsDeltaArtifact
<1>3. CASE ArtifactDecays
  <2>1. Unfaulted'
    BY <1>3 DEF ArtifactDecays, Fault, Unfaulted
  <2>2. /\ UNCHANGED <<pc, md, handoff, ckpt, session, mustReject, AllowUnsignedLegacy>>
        /\ pc = "reset"
        /\ incoming'.magic = incoming.magic /\ incoming'.kind = incoming.kind
    BY <1>3 DEF ArtifactDecays, records, ram, world, NodeInv, TypeOK, FlashTypeOK, Artifact
  <2> QED BY <1>0, <2>1, <2>2 DEF PowerInv, Kinds, Sizes, Sized, DeltaPatcher_IsDeltaArtifact
<1>4. CASE Stabilise
  <2>1. UNCHANGED <<pc, md, app, bk, incoming, handoff, ckpt, session, mustReject,
                    AllowUnsignedLegacy, faulted>>
    BY <1>4 DEF Stabilise, flash, records, ram
  <2> QED BY <1>0, <2>1, CandidateStays DEF PowerInv, Kinds, Sizes, Sized, Unfaulted, RestoredBelow,
          DeltaPatcher_IsDeltaArtifact
<1> QED BY <1>1, <1>2, <1>3, <1>4 DEF Disturbance

(* POWER LOSS.  Power cuts alone, anywhere and any number of times, never  *)
(* halt the bootloader and never end in FAILED: only an I/O error does.    *)
THEOREM PowerLossDoesNoHarm == ASSUME HostFollowsPlan PROVE Spec => []PowerLossIsHarmless
<1>1. Init => PowerInv
  <2> SUFFICES ASSUME Init PROVE PowerInv
    OBVIOUS
  <2>1. /\ md.state = "IDLE" /\ pc = "reset" /\ mustReject = FALSE
        /\ ckpt.state = "IDLE" /\ handoff.version = 0
    BY DEF Init, BootMetadata_Init, NoCheckpoint, NoHandoff
  <2> QED BY <2>1
             DEF PowerInv, Kinds, Sizes, Unfaulted, Container, Application, InContainer, InPatch,
                 InInstall
<1>2. NodeInv /\ NodeInv' /\ PowerInv /\ [Next]_vars => PowerInv'
  <2> SUFFICES ASSUME NodeInv, NodeInv', PowerInv, [Next]_vars PROVE PowerInv'
    OBVIOUS
  <2>1. CASE UNCHANGED vars
    <3>1. UNCHANGED <<pc, md, app, bk, incoming, handoff, ckpt, session, mustReject,
                      AllowUnsignedLegacy, faulted>>
      BY <2>1 DEF vars, flash, records, ram, env, world
    <3> QED BY <3>1, CandidateStays DEF PowerInv, Kinds, Sizes, Sized, Unfaulted, RestoredBelow,
            DeltaPatcher_IsDeltaArtifact
  <2> QED BY <2>1, BootPower, SecurePower, DeltaPower, InstallPower, ApplicationPower,
                    DisturbancePower
          DEF Next, Disturbance
<1>3. PowerInv => PowerLossIsHarmless
  BY DEF PowerInv, Unfaulted, PowerLossIsHarmless
<1> QED BY <1>1, <1>2, <1>3, NodeInvariant, PTL DEF Spec
=============================================================================
