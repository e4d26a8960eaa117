--------------------------- MODULE SecureContainer ---------------------------
(***************************************************************************)
(* SecureContainer_Process (bootloader/src/secure_container.c): from       *)
(* ARTIFACT_READY to IMAGE_READY, or back to IDLE.  The routine restarts   *)
(* from its beginning after every reset; the boot record tells it which    *)
(* of its transitions are already durable.                                 *)
(***************************************************************************)
EXTENDS NodeState

(* The header parses; its payload has the signed digest and CRC.           *)
ReadHeader == incoming.magic
HashAndCrcPayload == incoming.genuine

(* Format, key id, CRC, signature and, for a full image, target hash.      *)
SecureContainer_LoadVerifiedInfo == ReadHeader /\ HashAndCrcPayload

ValidateMetadataPolicy(info, m) ==
    /\ m.active_update_id # 0
    /\ m.pending_version = info.target
    /\ m.received_size = m.expected_size
    /\ m.expected_size = info.total_size
    /\ info.target > m.active_version
    /\ info.base = (IF info.kind = "FULL" THEN 0 ELSE m.active_version)

ValidateBase(info) == info.kind = "DELTA" => ImageHeld(app, info.base_image)

(* ValidateBase runs before the transition to PATCHING and again on every  *)
(* replay of PATCHING; a full image has no business in VERIFYING_BASE.     *)
BaseAccepted ==
    /\ w.state \in {"VERIFYING_BASE", "PATCHING"} => ValidateBase(incoming)
    /\ w.state = "VERIFYING_BASE" => incoming.kind = "DELTA"

(* The durable transitions of the routine and the order they come in.      *)
NextSecureState(state, kind) ==
    CASE state = "ARTIFACT_READY" -> "VERIFYING_CONTAINER"
      [] state = "VERIFYING_CONTAINER" /\ kind = "DELTA" -> "VERIFYING_BASE"
      [] OTHER -> "PATCHING"

Transition(m, state) ==
    [m EXCEPT !.state = state, !.copy_offset = 0, !.boot_attempts = 0,
              !.last_error = "none"]

ImageReady(m, size) ==
    [Transition(m, "IMAGE_READY") EXCEPT !.received_size = size,
                                         !.expected_size = size]

InSecure(label) == pc = label /\ UNCHANGED <<app, md, bk, bkHdr, incoming, records>>
EnvKept == UNCHANGED <<world, launches, guarded>>

-----------------------------------------------------------------------------
(* From entry to the metadata policy: nothing is written.                  *)
SecureVerify ==
    /\ InSecure("secure")
    /\ IF SecureContainer_LoadVerifiedInfo /\ ValidateMetadataPolicy(incoming, w)
         THEN Goto("transition") ELSE Goto("reject")
    /\ UNCHANGED <<rec, faulted>> /\ EnvKept

(* Transition() to VERIFYING_CONTAINER, VERIFYING_BASE and PATCHING.       *)
SecureTransition ==
    /\ pc = "transition" /\ w.state # "PATCHING" /\ BaseAccepted
    /\ CommitStep(Transition(w, NextSecureState(w.state, incoming.kind)),
                  "transition", "fatal")
    /\ UNCHANGED guarded

SecureBaseRejected ==
    /\ InSecure("transition") /\ ~BaseAccepted
    /\ Goto("reject")
    /\ UNCHANGED <<rec, faulted>> /\ EnvKept

EraseReconstructed ==
    /\ InSecure("transition")
    /\ w.state = "PATCHING" /\ BaseAccepted
    /\ rec' = Partial
    /\ Goto("rebuild")
    /\ UNCHANGED faulted /\ EnvKept

(* CopyFullPayload and ApplyDeltaPayload: the target image, unless the     *)
(* patch does not fit or the flash dropped bits without an error.          *)
SecureRebuild ==
    /\ InSecure("rebuild")
    /\ \/ rec' = (IF incoming.patch_ok THEN incoming.target ELSE Partial)
          /\ UNCHANGED faulted
       \/ rec' = Partial /\ Fault
    /\ Goto("verifyRec") /\ EnvKept

VerifyReconstructed ==
    /\ InSecure("verifyRec")
    /\ Goto(IF rec = incoming.target THEN "imageReady" ELSE "reject")
    /\ UNCHANGED <<rec, faulted>> /\ EnvKept

(* The final commit.  When the boot manager had found no container it      *)
(* expects a rejection and halts on any other result.                      *)
SecureFinish ==
    /\ pc = "imageReady"
    /\ LET m == ImageReady(w, ImageSize[incoming.target])
       IN  IF mustReject THEN CommitStep(m, "fatal", "fatal") /\ UNCHANGED guarded
           ELSE CommitAndReturn(m) /\ UNCHANGED <<launches, guarded>>

(* Reject(): discard the checkpoint, best effort, then go back to IDLE.    *)
RejectClear ==
    /\ pc = "reject"
    /\ ClearBestEffort
    /\ Goto("rejectCommit")
    /\ UNCHANGED <<app, md, bk, bkHdr, incoming, rec>> /\ EnvKept

RejectCommit ==
    /\ pc = "rejectCommit"
    /\ CommitAndReturn(IdleFields(w, w.active_version, "secure"))
    /\ UNCHANGED <<launches, guarded>>

(* Where a failing flash operation takes the routine: the boot manager     *)
(* halts when Init fails, every later failure is a reason to reject.       *)
SecureFaultTarget(label) ==
    CASE label = "secure" -> {"fatal", "reject"}
      [] label \in {"transition", "rebuild", "verifyRec"} -> {"reject"}
      [] OTHER -> {}

SecureFault ==
    /\ \E target \in SecureFaultTarget(pc) : Goto(target)
    /\ pc = "transition" => w.state = "PATCHING" /\ BaseAccepted
    /\ rec' = (IF pc \in {"transition", "rebuild"} THEN Partial ELSE rec)
    /\ Fault
    /\ UNCHANGED <<app, md, bk, bkHdr, incoming, records>> /\ EnvKept

SecureStep ==
    \/ SecureVerify
    \/ SecureTransition
    \/ SecureBaseRejected
    \/ EraseReconstructed
    \/ SecureRebuild
    \/ VerifyReconstructed
    \/ SecureFinish
    \/ RejectClear
    \/ RejectCommit
    \/ SecureFault

-----------------------------------------------------------------------------
(* DeltaPatcher_Process (bootloader/src/delta_patcher.c): the unsigned     *)
(* D13P patches of builds with SECURE_CONTAINER_ALLOW_UNSIGNED_LEGACY.     *)
(* Like SecureContainer_Process it restarts from its beginning after every *)
(* reset, but it commits VERIFYING_CONTAINER before it has looked at the   *)
(* payload.  What a patch rebuilds is described in Janpatch.               *)

DeltaPatcher_IsDeltaArtifact == ~incoming.magic /\ incoming.kind = "D13P"

(* DeltaPatch_ParseHeader against the received length.                     *)
DeltaPatch_ParseHeader(h, size) == h.target > h.base /\ h.base # 0 /\ h.total_size = size

ValidateHeaderAgainstMetadata(h, m) ==
    /\ m.active_update_id # 0
    /\ m.pending_version = h.target
    /\ m.active_version = h.base
    /\ m.received_size = m.expected_size
    /\ m.expected_size = h.total_size

(* ValidatePatchCrc after the first transition, ValidateBase after the     *)
(* second; both again on every replay.                                     *)
ValidatePatchCrc == incoming.genuine
ValidateDeltaBase == ImageHeld(app, incoming.base_image)
DeltaAccepted ==
    /\ w.state # "ARTIFACT_READY" => ValidatePatchCrc
    /\ w.state \in {"VERIFYING_BASE", "PATCHING"} => ValidateDeltaBase

DeltaVerify ==
    /\ InSecure("delta")
    /\ IF DeltaPatch_ParseHeader(incoming, w.expected_size)
            /\ ValidateHeaderAgainstMetadata(incoming, w)
         THEN Goto("deltaStep") ELSE Goto("deltaReject")
    /\ UNCHANGED <<rec, faulted>> /\ EnvKept

DeltaTransition ==
    /\ pc = "deltaStep" /\ w.state # "PATCHING" /\ DeltaAccepted
    /\ CommitStep(Transition(w, NextSecureState(w.state, "DELTA")), "deltaStep", "fatal")
    /\ UNCHANGED guarded

DeltaPayloadRejected ==
    /\ InSecure("deltaStep") /\ ~DeltaAccepted
    /\ Goto("deltaReject")
    /\ UNCHANGED <<rec, faulted>> /\ EnvKept

DeltaErase ==
    /\ InSecure("deltaStep") /\ w.state = "PATCHING" /\ DeltaAccepted
    /\ rec' = Partial
    /\ Goto("deltaApply")
    /\ UNCHANGED faulted /\ EnvKept

(* JanpatchPort_Apply: the target image, unless the patch does not fit or  *)
(* the flash dropped bits without an error.                                *)
DeltaApply ==
    /\ InSecure("deltaApply")
    /\ \/ rec' = (IF incoming.patch_ok THEN incoming.target ELSE Partial)
          /\ UNCHANGED faulted
       \/ rec' = Partial /\ Fault
    /\ Goto("deltaVerify") /\ EnvKept

VerifyTarget ==
    /\ InSecure("deltaVerify")
    /\ Goto(IF rec = incoming.target THEN "deltaReady" ELSE "deltaReject")
    /\ UNCHANGED <<rec, faulted>> /\ EnvKept

DeltaFinish ==
    /\ pc = "deltaReady"
    /\ CommitAndReturn(ImageReady(w, ImageSize[incoming.target]))
    /\ UNCHANGED <<launches, guarded>>

(* RejectDelta                                                             *)
RejectDeltaClear ==
    /\ pc = "deltaReject"
    /\ ClearBestEffort
    /\ Goto("deltaRejectCommit")
    /\ UNCHANGED <<app, md, bk, bkHdr, incoming, rec>> /\ EnvKept

RejectDelta ==
    /\ pc = "deltaRejectCommit"
    /\ CommitAndReturn(IdleFields(w, w.active_version, "delta"))
    /\ UNCHANGED <<launches, guarded>>

(* Where a failing flash operation takes the routine.  The boot manager    *)
(* halts when Init fails or the magic is not found again.                  *)
DeltaFaultTarget(label) ==
    CASE label = "delta" -> {"fatal", "deltaReject"}
      [] label \in {"deltaStep", "deltaApply", "deltaVerify"} -> {"deltaReject"}
      [] OTHER -> {}

DeltaFault ==
    /\ \E target \in DeltaFaultTarget(pc) : Goto(target)
    /\ pc = "deltaStep" => w.state # "ARTIFACT_READY" /\ DeltaAccepted
    /\ rec' = (IF pc = "deltaApply" \/ (pc = "deltaStep" /\ w.state = "PATCHING")
                 THEN Partial ELSE rec)
    /\ Fault
    /\ UNCHANGED <<app, md, bk, bkHdr, incoming, records>> /\ EnvKept

DeltaStep ==
    \/ DeltaVerify
    \/ DeltaTransition
    \/ DeltaPayloadRejected
    \/ DeltaErase
    \/ DeltaApply
    \/ VerifyTarget
    \/ DeltaFinish
    \/ RejectDeltaClear
    \/ RejectDelta
    \/ DeltaFault
=============================================================================
