--------------------------- MODULE NodeApplication ---------------------------
(***************************************************************************)
(* The running application as the boot chain sees it: the OTA receiver's   *)
(* session (application/src/ota_receiver.c), with the DATA packets of a    *)
(* transfer abstracted to "some" and "all", and the confirmation of a      *)
(* trial (application/src/trial_confirmation.c).                           *)
(***************************************************************************)
EXTENDS NodeState

(* firmware_version.h: compiled into the image that is running.            *)
APPLICATION_VERSION == app[0]

(* OtaReceiver_Init: the checkpoint if there is one, otherwise a mirror of *)
(* the trial in progress.  Without external flash every transfer command   *)
(* is refused.                                                             *)
RestoredSession ==
    CASE ckpt.state # "IDLE" ->
            [state |-> ckpt.state, version |-> ckpt.version,
             artifact |-> ckpt.artifact, received |-> ckpt.state = "ARTIFACT_READY"]
      [] ckpt.state = "IDLE" /\ md.state \in {"TRIAL_BOOT", "CONFIRMED"} ->
            [NoSession EXCEPT !.state = md.state, !.version = md.pending_version]
      [] OTHER -> [NoSession EXCEPT !.state = "IDLE"]

(* Without storage the session is reset and START is refused.              *)
StorageLost == [NoSession EXCEPT !.state = "NO_STORAGE"]

ResetTransfer == session' = [NoSession EXCEPT !.state = "IDLE"]

(* ProcessStart's checks of the announced artifact.                        *)
StartAccepted(o) ==
    /\ session.state \in {"IDLE", "FAILED", "RECEIVING"}
    /\ o.version > APPLICATION_VERSION
    /\ o.artifact.base = (IF o.artifact.kind = "FULL" THEN 0 ELSE APPLICATION_VERSION)

InApp == pc = "app"
AppKept == UNCHANGED <<app, bk, bkHdr, rec, pc, w, passes, mustReject, trial,
                       world, launches, guarded>>

(* A commit of the boot record is reported as failed: the application does *)
(* not reset the node but goes on, whether or not the record changed.      *)
(* Every request loads it afresh.                                          *)
GoesOn == pc' = "app" /\ w' = md' /\ UNCHANGED <<passes, mustReject, session, trial>>

-----------------------------------------------------------------------------
OtaStart(o) ==
    /\ InApp /\ StartAccepted(o)
    /\ LET record == [state |-> "RECEIVING", version |-> o.version, artifact |-> o.artifact]
       IN  \/ /\ CheckpointStored(record)
              /\ session' = [state |-> "RECEIVING", version |-> o.version,
                             artifact |-> o.artifact, received |-> FALSE]
           \/ CheckpointFails(record) /\ ResetTransfer
    /\ UNCHANGED <<md, incoming>> /\ AppKept

(* Some packets: the first sectors of Incoming are erased and rewritten.   *)
OtaDataSome ==
    /\ InApp /\ session.state = "RECEIVING" /\ ~session.received
    /\ incoming # Junk
    /\ incoming' = Junk
    /\ UNCHANGED <<md, records, session, faulted>> /\ AppKept

(* The last packet; the bytes are those announced, or do not match the     *)
(* CRC announced in START.                                                 *)
OtaDataAll ==
    /\ InApp /\ session.state = "RECEIVING" /\ ~session.received
    /\ \E a \in {session.artifact, Junk} : incoming' = a
    /\ session' = [session EXCEPT !.received = TRUE]
    /\ UNCHANGED <<md, records, faulted>> /\ AppKept

OtaFinish ==
    /\ InApp /\ session.state = "RECEIVING" /\ session.received
    /\ IF incoming = session.artifact
         THEN LET record == [state |-> "ARTIFACT_READY", version |-> session.version,
                             artifact |-> session.artifact]
              IN  \/ /\ CheckpointStored(record)
                     /\ session' = [session EXCEPT !.state = "ARTIFACT_READY"]
                  \/ CheckpointFails(record) /\ UNCHANGED session
         ELSE session' = [session EXCEPT !.state = "FAILED"] /\ UNCHANGED <<records, faulted>>
    /\ UNCHANGED <<md, incoming>> /\ AppKept

(* The states in which uart_ota_plan.c decides to ABORT a foreign session. *)
PlanAborts == session.state \in {"RECEIVING", "ARTIFACT_READY", "FAILED"}

(* ABORT: the receiver itself does not look at the session's state.        *)
OtaAbort ==
    /\ InApp
    /\ session.state # "NO_STORAGE"
    /\ HostFollowsPlan => PlanAborts
    /\ \/ CheckpointStored(NoCheckpoint) /\ ResetTransfer
       \/ CheckpointFails(NoCheckpoint) /\ UNCHANGED session
    /\ UNCHANGED <<md, incoming>> /\ AppKept

(* PersistSecureInstallRequest: every other field of the record survives.  *)
InstallRequest(m, s) ==
    [m EXCEPT !.state = "ARTIFACT_READY", !.pending_version = s.version,
              !.active_update_id = 1, !.received_size = s.artifact.total_size,
              !.expected_size = s.artifact.total_size, !.copy_offset = 0,
              !.boot_attempts = 0, !.last_error = "none"]

IncomingLooksLikeSecureContainer == incoming.magic
IncomingLooksLikeDelta == ~incoming.magic /\ incoming.kind = "D13P"

(* The versions the D13P header names.                                     *)
ReadDeltaHeader == [base |-> incoming.base, target |-> incoming.target]

(* CalculateIncomingCrcRange, over the patch, finds the CRC of the header. *)
PatchCrcMatches == incoming.genuine

(* ValidateDeltaInstallRequest and PersistDeltaInstallRequest up to the    *)
(* commit.                                                                 *)
DeltaInstallAccepted ==
    /\ ReadDeltaHeader.base = APPLICATION_VERSION
    /\ ReadDeltaHeader.target = session.version
    /\ PatchCrcMatches /\ ImageHeld(app, incoming.base_image)
    /\ md.active_version = ReadDeltaHeader.base

(* INSTALL: only the magic of the container is looked at.  A D13P patch is *)
(* checked here as well.  On success the agent resets the node.            *)
OtaInstall ==
    /\ InApp /\ session.state = "ARTIFACT_READY"
    /\ \/ IncomingLooksLikeSecureContainer
       \/ AllowUnsignedLegacy /\ IncomingLooksLikeDelta /\ DeltaInstallAccepted
    /\ LET m == InstallRequest(md, session)
       IN  \/ Committed(m) /\ Reset
           \/ NotCommitted(m) /\ GoesOn
    /\ UNCHANGED <<app, bk, bkHdr, incoming, rec, records, world, launches, guarded>>

(* INSTALL of a bare image: ValidateIncomingApplication, then the handoff  *)
(* record is written before the boot record points at it.                  *)
OtaInstallFull ==
    /\ InApp /\ session.state = "ARTIFACT_READY"
    /\ AllowUnsignedLegacy /\ ~incoming.magic /\ incoming.kind = "FULL"
    /\ session.artifact.total_size <= APPLICATION_MAX_SIZE /\ incoming.genuine
    /\ Goto("persist")
    /\ UNCHANGED <<flash, env>>

(* UpdateHandoffStorage_Commit; when it fails, the checkpoint that shared  *)
(* its sector may be gone.                                                 *)
OtaPersistHandoff ==
    /\ pc = "persist"
    /\ LET r == [version |-> session.version, artifact |-> session.artifact]
       IN  \/ handoff' = r /\ Goto("request") /\ UNCHANGED <<ckpt, faulted>>
          \/ /\ handoff' \in {handoff, r} /\ ckpt' \in {ckpt, NoCheckpoint}
             /\ Goto("app") /\ Fault
    /\ UNCHANGED <<app, md, bk, bkHdr, incoming, rec, world, launches, guarded>>

OtaRequestInstall ==
    /\ pc = "request"
    /\ LET m == InstallRequest(md, session)
       IN  \/ Committed(m) /\ Reset
           \/ NotCommitted(m) /\ GoesOn
    /\ UNCHANGED <<app, bk, bkHdr, incoming, rec, records, world, launches, guarded>>

LoadTrialMetadata ==
    /\ md.state = "TRIAL_BOOT" /\ md.pending_version = APPLICATION_VERSION
    /\ md.boot_attempts \in 1..MAX_BOOT_ATTEMPTS

(* The record of a confirmed trial: the attempts made stay in it.          *)
Confirmed(m) == [m EXCEPT !.state = "CONFIRMED", !.copy_offset = 0, !.last_error = "none"]

(* TrialConfirmation_ConfirmNow; both callers reset the node on success.   *)
ConfirmNow ==
    /\ LoadTrialMetadata
    /\ LET m == Confirmed(md)
       IN  \/ Committed(m) /\ Reset
           \/ NotCommitted(m) /\ GoesOn
    /\ guarded' = (IF md'.state = "CONFIRMED" THEN 0 ELSE guarded)
    /\ UNCHANGED <<app, bk, bkHdr, incoming, rec, records, world, launches>>

(* TrialConfirmation_Process: the health timer has run out.                *)
TrialConfirm == InApp /\ ConfirmNow

(* CONFIRM: only in a session that mirrors the trial, which a checkpoint   *)
(* left in the external flash, or a flash that fails, prevents.            *)
ProcessConfirm == InApp /\ session.state = "TRIAL_BOOT" /\ ConfirmNow

ApplicationStep ==
    \/ \E o \in Offers[AllowUnsignedLegacy] : OtaStart(o)
    \/ OtaDataSome
    \/ OtaDataAll
    \/ OtaFinish
    \/ OtaAbort
    \/ OtaInstall
    \/ OtaInstallFull
    \/ OtaPersistHandoff
    \/ OtaRequestInstall
    \/ TrialConfirm
    \/ ProcessConfirm

=============================================================================
