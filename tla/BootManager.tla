----------------------------- MODULE BootManager -----------------------------
(***************************************************************************)
(* BootManager_Run with BootDecision_Evaluate and TrialBoot                *)
(* (bootloader/src), composed with the components it calls and with the    *)
(* application it starts: the whole node, under power loss and transient   *)
(* flash faults.                                                           *)
(***************************************************************************)
EXTENDS SecureContainer, ImageInstaller, NodeApplication

(* Mutant: a loop limit that looks generous for one update.                *)
TwoTransitions == 2

MAX_BOOT_TRANSITIONS == 8

(* Mutant: the last chance of a trial is not given.                        *)
AttemptsShort(m) == m.boot_attempts + 1 >= MAX_BOOT_ATTEMPTS

AttemptsExhausted(m) == m.boot_attempts >= MAX_BOOT_ATTEMPTS

(* BootDecision_Evaluate, named by the branch of BootManager_Run taken.    *)
BootDecision_Evaluate(m, valid) ==
    CASE ~FieldsAreValid(m) -> "STAY_RECOVERY"
      [] FieldsAreValid(m) /\ m.state \in {"IDLE", "RECEIVING"} ->
            IF valid THEN "JUMP_ACTIVE" ELSE "STAY_RECOVERY"
      [] FieldsAreValid(m) /\ m.state \in {"ARTIFACT_READY", "VERIFYING_CONTAINER",
                                           "VERIFYING_BASE", "PATCHING"} -> "CONTAINER"
      [] FieldsAreValid(m) /\ m.state \in {"IMAGE_READY", "BACKING_UP", "INSTALLING",
                                           "VERIFYING_INSTALL"} -> "INSTALL"
      [] FieldsAreValid(m) /\ m.state = "TRIAL_BOOT" ->
            IF AttemptsExhausted(m) \/ ~valid
              THEN "RESUME_ROLLBACK" ELSE "BOOT_TRIAL"
      [] FieldsAreValid(m) /\ m.state = "CONFIRMED" -> "FINALIZE_CONFIRMATION"
      [] FieldsAreValid(m) /\ m.state = "ROLLBACK" -> "RESUME_ROLLBACK"
      [] FieldsAreValid(m) /\ m.state = "FAILED" -> "STAY_RECOVERY"

(* Mutant: the attempt is counted when it is decided on and once more.     *)
CountedTwice(m) == [m EXCEPT !.boot_attempts = @ + 2, !.last_error = "none"]

PreparedAttempt(m) ==
    [m EXCEPT !.boot_attempts = @ + 1, !.last_error = "none"]

FinalizedConfirmation(m) == IdleFields(m, m.pending_version, "none")

(* Mutant: the watchdog is not started.                                    *)
NoWatchdog(label) == FALSE

(* TrialBoot_StartWatchdog precedes the jump of a trial only.              *)
WatchdogStarted(label) == label = "jumpTrial"

(* The history counter `launches` counts no further than this.             *)
LaunchCap == MAX_BOOT_ATTEMPTS + 1

-----------------------------------------------------------------------------
(* MetadataStorage_Load at the start of BootManager_Run.  On a first boot  *)
(* the defaults are used whether or not their commit succeeds.             *)
BootLoad ==
    /\ pc = "reset"
    /\ Goto("decide")
    /\ UNCHANGED <<flash, env>>

(* One evaluation of the loop's decision.                                  *)
BootDispatch ==
    /\ pc = "decide"
    /\ LET action == BootDecision_Evaluate(w, ApplicationValid)
       IN  pc' = CASE passes >= MAX_BOOT_TRANSITIONS \/ action = "STAY_RECOVERY" -> "fatal"
                   [] OTHER -> CASE action = "CONTAINER" -> "isIncoming"
                                 [] action = "INSTALL" -> "install"
                                 [] action = "RESUME_ROLLBACK" -> "rollback"
                                 [] action = "FINALIZE_CONFIRMATION" -> "confirmed"
                                 [] action = "BOOT_TRIAL" -> "prepare"
                                 [] action = "JUMP_ACTIVE" -> "jump"
    /\ UNCHANGED <<w, passes, mustReject, session, trial, flash, env>>

(* SecureContainer_IsIncoming as called by the boot manager: a missing     *)
(* container, and a flash that does not answer, lead to the path on which  *)
(* only a rejection is accepted.                                           *)
BootIsIncoming ==
    /\ pc = "isIncoming" /\ ~AllowUnsignedLegacy
    /\ pc' = "secure"
    /\ \/ mustReject' = ~incoming.magic /\ UNCHANGED faulted
       \/ mustReject' = TRUE /\ Fault
    /\ UNCHANGED <<w, passes, session, trial, flash, world, launches, guarded>>

(* With unsigned artifacts allowed: the container, the patch, or a bare    *)
(* image, for which the states of the other two make no sense.             *)
LegacyRoute(secure, delta) ==
    CASE secure -> "secure"
      [] ~secure /\ delta -> "delta"
      [] ~secure /\ ~delta /\ w.state = "ARTIFACT_READY" -> "install"
      [] OTHER -> "fatal"

BootIsIncomingLegacy ==
    /\ pc = "isIncoming" /\ AllowUnsignedLegacy
    /\ \/ /\ pc' = LegacyRoute(incoming.magic, DeltaPatcher_IsDeltaArtifact)
          /\ UNCHANGED faulted
       \/ /\ \E delta \in {FALSE, DeltaPatcher_IsDeltaArtifact} : pc' = LegacyRoute(FALSE, delta)
          /\ Fault
    /\ UNCHANGED <<w, passes, mustReject, session, trial, flash, world, launches, guarded>>

(* TrialBoot_PrepareAttempt: the attempt is durable before the jump.  It   *)
(* checks again what BootDecision_Evaluate has decided.                    *)
TrialPrepareAttempt ==
    /\ pc = "prepare"
    /\ IF w.state = "TRIAL_BOOT" /\ w.boot_attempts < MAX_BOOT_ATTEMPTS
       THEN CommitStep(PreparedAttempt(w), "jumpTrial", "fatal")
       ELSE Goto("fatal") /\ UNCHANGED <<flash, world, faulted, launches>>
    /\ UNCHANGED guarded

(* TrialBoot_FinalizeConfirmation, with its check.                         *)
TrialFinalizeConfirmation ==
    /\ pc = "confirmed"
    /\ IF w.state = "CONFIRMED" /\ w.pending_version # 0
       THEN CommitAndReturn(FinalizedConfirmation(w))
       ELSE Goto("fatal") /\ UNCHANGED <<flash, world, faulted>>
    /\ UNCHANGED <<launches, guarded>>

(* ApplicationJump_Execute, for a trial after TrialBoot_StartWatchdog, and *)
(* the application's start-up up to its main loop.                         *)
BootJump ==
    /\ pc \in {"jump", "jumpTrial"}
    /\ pc' = "app" /\ trial' = WatchdogStarted(pc)
    /\ launches' = (IF pc = "jumpTrial" THEN MinOf(launches + 1, LaunchCap) ELSE launches)
    /\ \/ session' = RestoredSession /\ UNCHANGED faulted
       \/ session' = StorageLost /\ Fault
    /\ w' = md /\ passes' = 0 /\ mustReject' = FALSE
    /\ UNCHANGED <<flash, world, guarded>>

BootStep ==
    \/ BootLoad
    \/ BootDispatch
    \/ BootIsIncoming
    \/ BootIsIncomingLegacy
    \/ TrialPrepareAttempt
    \/ TrialFinalizeConfirmation
    \/ BootJump

-----------------------------------------------------------------------------
(* The environment.                                                        *)

(* The IWDG, started only for trials, is never fed by the application.     *)
WatchdogReset ==
    /\ pc = "app" /\ trial
    /\ UNCHANGED <<flash, env>> /\ Reset

(* Even after the environment has calmed down, a node whose application is *)
(* running may be switched off.  A commit of the checkpoint that it        *)
(* interrupts may take the handoff record of that sector with it, and vice *)
(* versa.                                                                  *)
PowerLoss ==
    /\ ~stable \/ pc = "app"
    /\ pc \notin {"reset", "fatal"}
    /\ handoff' \in {handoff} \cup
          (IF pc \in {"app", "reject", "deltaReject", "revert", "clear", "restored"}
             THEN {NoHandoff} ELSE {})
    /\ ckpt' \in {ckpt} \cup (IF pc = "persist" THEN {NoCheckpoint} ELSE {})
    /\ UNCHANGED <<app, md, bk, bkHdr, incoming, rec, env>> /\ Reset

(* BootManager_ShowFatalPulses never returns: someone restarts the node.   *)
PowerCycle ==
    /\ pc = "fatal"
    /\ UNCHANGED <<flash, env>> /\ Reset

Stabilise ==
    /\ ~stable /\ stable' = TRUE
    /\ UNCHANGED <<AllowUnsignedLegacy, flash, ram, faulted, launches, guarded>>

Next ==
    \/ BootStep
    \/ SecureStep
    \/ DeltaStep
    \/ InstallStep
    \/ ApplicationStep
    \/ PageDecays
    \/ ArtifactDecays
    \/ WatchdogReset
    \/ PowerLoss
    \/ PowerCycle
    \/ Stabilise

Spec == Init /\ [][Next]_vars

(* The bootloader is sequential code that never blocks; a trial that is    *)
(* not confirmed is ended by the watchdog; a halted node is power cycled;  *)
(* faults and power cuts eventually stop.                                  *)
Fairness ==
    /\ WF_vars(BootStep \/ SecureStep \/ DeltaStep \/ InstallStep)
    /\ WF_vars(WatchdogReset)
    /\ WF_vars(PowerCycle)
    /\ WF_vars(Stabilise)

FairSpec == Spec /\ Fairness

-----------------------------------------------------------------------------
Labels ==
    {"reset", "decide", "isIncoming", "prepare", "confirmed", "jump", "jumpTrial",
     "app", "fatal", "secure", "transition", "rebuild", "verifyRec", "imageReady",
     "reject", "rejectCommit", "delta", "deltaStep", "deltaApply", "deltaVerify",
     "deltaReady", "deltaReject", "deltaRejectCommit", "persist", "request", "install", "invalidate", "beginBackup", "backup",
     "backupWrite", "backupCommit", "sealed", "validateBackup", "beginInstall",
     "copy", "program", "copyCommit", "verify", "clear", "toTrial", "revert",
     "revertCommit", "markFailed", "installRollback", "rollback", "beginRollback",
     "restore", "reprogram", "restoreCommit", "restored", "finalize"}

Diagnostics ==
    {"none", "secure", "delta", "installer", "install", "trial_limit", "invalid_trial"}

MetadataType ==
    [state : UpdateState, active_version : Versions, pending_version : Versions \cup {0},
     active_update_id : {0, 1}, received_size : 0..EXT_INCOMING_SIZE,
     expected_size : 0..EXT_INCOMING_SIZE, copy_offset : 0..APPLICATION_MAX_SIZE,
     boot_attempts : 0..MAX_BOOT_ATTEMPTS,
     last_error : Diagnostics]

BackupHeader == [version : Versions \cup {0}, image : [Pages -> Contents]]
DownloadCheckpoint ==
    [state : {"IDLE", "RECEIVING", "ARTIFACT_READY"}, version : Versions \cup {0},
     artifact : Artifact]
Handoff == [version : Versions \cup {0}, artifact : Artifact]
Session ==
    [state : UpdateState \cup {"NONE", "NO_STORAGE"}, version : Versions \cup {0},
     artifact : Artifact, received : BOOLEAN]

(* The boot record always validates; what is half done is in the pages.    *)
FlashTypeOK ==
    /\ app \in [Pages -> Contents] /\ bk \in [Pages -> Contents] /\ bkHdr \in BackupHeader
    /\ md \in MetadataType /\ FieldsAreValid(md)
    /\ incoming \in Artifact /\ rec \in Contents
    /\ ckpt \in DownloadCheckpoint /\ handoff \in Handoff

RamTypeOK ==
    /\ pc \in Labels /\ w \in MetadataType /\ passes \in 0..MAX_BOOT_TRANSITIONS
    /\ mustReject \in BOOLEAN /\ session \in Session /\ trial \in BOOLEAN

EnvTypeOK ==
    /\ stable \in BOOLEAN /\ AllowUnsignedLegacy \in Builds
    /\ faulted \in BOOLEAN /\ launches \in 0..LaunchCap /\ guarded \in Versions \cup {0}

TypeOK == FlashTypeOK /\ RamTypeOK /\ EnvTypeOK

BackupHolds(v) == BackupValid /\ bkHdr.version = v /\ ImageHeld(bk, v)

(* NO IMAGE LOSS.  Whatever fails and whenever power is cut, a complete    *)
(* image of the active version exists: in the application region before    *)
(* the installer may touch it, in a sealed backup from then on, in at      *)
(* least one of them after FAILED; and an image is on trial, or confirmed, *)
(* only when all of it is installed.                                       *)
NoImageLoss ==
    /\ md.state \in {"IDLE", "ARTIFACT_READY", "VERIFYING_CONTAINER", "VERIFYING_BASE",
                     "PATCHING", "IMAGE_READY", "BACKING_UP"}
          => ImageHeld(app, md.active_version)
    /\ md.state \in {"INSTALLING", "VERIFYING_INSTALL", "TRIAL_BOOT", "ROLLBACK"}
          => BackupHolds(md.active_version)
    /\ md.state \in {"TRIAL_BOOT", "CONFIRMED"} => ImageHeld(app, md.pending_version)
    /\ md.state = "FAILED" =>
          ImageHeld(app, md.active_version) \/ BackupHolds(md.active_version)

(* The bootloader only starts a complete image, never one caught half      *)
(* programmed although its vectors look valid: the pending one as a trial, *)
(* otherwise the active one.  And IMAGE_READY stands for a reconstructed   *)
(* image that was compared with its checksums after it was written.        *)
RunsCompleteImage ==
    /\ pc \in {"jump", "jumpTrial", "app"} =>
          ImageHeld(app, IF trial \/ pc = "jumpTrial" THEN md.pending_version
                                                       ELSE md.active_version)
    /\ md.state = "IMAGE_READY" => rec = incoming.target

(* docs/architecture.md, principle 8: "Backup is retained until the trial  *)
(* application is confirmed."  From the commit of INSTALLING to CONFIRMED, *)
(* or to the end of a rollback, the backup of the replaced version stays.  *)
BackupRetained == guarded # 0 => BackupHolds(guarded)

(* Power loss alone, at any point and any number of times, never halts the *)
(* bootloader nor drives the record to FAILED.                             *)
PowerLossIsHarmless == ~faulted => pc # "fatal" /\ md.state # "FAILED"

(* The loop limit of BootManager_Run never cuts a legal sequence short.    *)
PassesSuffice == pc = "decide" => passes < MAX_BOOT_TRANSITIONS

(* The reason of a rollback survives every checkpoint and reset of the     *)
(* restoration and is still in the record that ends it.                    *)
DiagnosticSurvives ==
    [][md.state = "ROLLBACK" /\ md'.state \in {"ROLLBACK", "IDLE"}
          => md'.last_error = md.last_error]_vars

(* What is left of the node in UpdateContract: the boot record's state, in *)
(* phases, and the image whose code is running.  RevertToActiveImage runs  *)
(* before anything was replaced, also where the commit of INSTALLING was   *)
(* reported as failed and is in force.                                     *)
ContractPhase(state) ==
    CASE state \in {"IDLE", "RECEIVING"} -> "settled"
      [] state \in {"ARTIFACT_READY", "VERIFYING_CONTAINER", "VERIFYING_BASE", "PATCHING",
                    "IMAGE_READY", "BACKING_UP"} -> "requested"
      [] state \in {"INSTALLING", "VERIFYING_INSTALL"} -> "replacing"
      [] state = "TRIAL_BOOT" -> "trial"
      [] state = "CONFIRMED" -> "confirmed"
      [] state = "ROLLBACK" -> "undoing"
      [] state = "FAILED" -> "failed"

UpdatePhase ==
    IF pc \in {"revert", "revertCommit"} THEN "requested" ELSE ContractPhase(md.state)

Contract == INSTANCE UpdateContract WITH
    phase <- UpdatePhase,
    active <- md.active_version,
    pending <- md.pending_version,
    tries <- IF md.state = "TRIAL_BOOT" THEN md.boot_attempts ELSE 0,
    starts <- IF md.state = "TRIAL_BOOT" THEN launches ELSE 0,
    running <- IF pc \in {"app", "persist", "request"} THEN APPLICATION_VERSION ELSE 0

(* The whole node, under power loss, faults and any sequence of host       *)
(* commands of the plan, keeps the promise of UpdateContract: every start, *)
(* replacement, confirmation and fallback is one the contract allows.  So  *)
(* the active version never goes backwards, rollbacks included, and an     *)
(* unconfirmed image is started at most MAX_BOOT_ATTEMPTS times, however   *)
(* often power is lost around the commit of the attempt counter.           *)
KeepsContract == Contract!Spec

(* An accepted INSTALL, which resets the node, is decided, and so is one   *)
(* that was refused although its record is in force, once the node is      *)
(* restarted: it ends in IDLE, on the old or on the new version, or in     *)
(* FAILED.                                                                 *)
UpdateSettles ==
    pc = "reset" /\ md.state = "ARTIFACT_READY" ~> md.state \in {"IDLE", "FAILED"}

(* Unless the record says FAILED, an application runs again and again.     *)
BootsAgain == []<>(pc = "app" \/ md.state = "FAILED")

=============================================================================
