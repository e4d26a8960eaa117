------------------------------ MODULE NodeState ------------------------------
(***************************************************************************)
(* What the STM32 node keeps: internal flash (application region, boot     *)
(* record), external flash (Incoming, Reconstructed, Backup, download      *)
(* checkpoint), the RAM of the program that is running, and the vocabulary *)
(* shared by the modules that describe its steps.                          *)
(*                                                                         *)
(* An image is its version number; flash holds, page by page, the version  *)
(* whose bytes are there.  CRC-32, SHA-256 and ECDSA are exact: they tell  *)
(* any two contents apart.  The boot record is an atomic register, which   *)
(* is what MetadataStorage is shown to implement.                          *)
(***************************************************************************)
EXTENDS BootMetadata

CONSTANTS
    Versions,         \* firmware versions, non-zero naturals
    ImageSize,        \* ImageSize[v]: length of the image of version v
    FactoryVersion,   \* the image programmed at production
    Builds,           \* values of AllowUnsignedLegacy to consider
    Offers,           \* Offers[b]: what hosts may send to a node of build b, see Offer
    HostFollowsPlan   \* FALSE: hosts may ABORT in every state, TRUE: as uart_ota_plan.c

Blank == 0            \* an erased page
Partial == -1         \* a page or a partition caught half programmed

Contents == Versions \cup {Blank, Partial}

(* The signed header of a container in Incoming: `magic` is SDOT,          *)
(* `genuine` stands for key id, CRC, signature and hash checks.  A delta   *)
(* names its base version and, by hash, its base image; `target` is the    *)
(* signed target image and `patch_ok` whether the payload rebuilds it.     *)
(* Without the magic it is an unsigned artifact: a patch in a D13P         *)
(* envelope, whose CRC stands for `genuine`, or a bare image.              *)
Artifact ==
    [magic : BOOLEAN, genuine : BOOLEAN, kind : {"FULL", "DELTA", "D13P"},
     target : Versions, base : Versions \cup {0}, base_image : Versions \cup {0},
     patch_ok : BOOLEAN, total_size : 1..EXT_INCOMING_SIZE]

(* What is offered in START (target_version) and then sent as DATA.        *)
Offer == [version : Versions, artifact : Artifact]

(* Incoming while it holds no complete transfer.                           *)
Junk == [magic |-> FALSE, genuine |-> FALSE, kind |-> "FULL",
         target |-> FactoryVersion, base |-> 0, base_image |-> 0,
         patch_ok |-> FALSE, total_size |-> 1]

ASSUME VersionsAssumption ==
    /\ Versions \subseteq Nat \ {0}
    /\ FactoryVersion \in Versions
    /\ ImageSize \in [Versions -> 1..APPLICATION_MAX_SIZE]

ASSUME OffersAssumption ==
    /\ Builds \subseteq BOOLEAN /\ Offers \in [Builds -> SUBSET Offer]
    /\ HostFollowsPlan \in BOOLEAN

(* A bare image is the image and nothing else; it does not name its        *)
(* version, so the host must name it truly.                                *)
ASSUME BareOffersAssumption ==
    \A b \in Builds : b => \A o \in Offers[b] :
        ~o.artifact.magic /\ o.artifact.kind # "D13P" =>
          o.artifact.target = o.version /\ o.artifact.total_size = ImageSize[o.artifact.target]

VARIABLES
    app,       \* internal application region, page by page
    md,        \* the boot record
    bk,        \* data of the external Backup partition, page by page
    bkHdr,     \* header of the Backup partition: version and checksummed image
    incoming,  \* external Incoming partition
    rec,       \* external Reconstructed partition, one whole image
    ckpt,      \* external download checkpoint
    handoff,   \* external handoff record of a bare image
    pc,        \* where the running program is
    w,         \* its working copy of the boot record
    passes,    \* iterations of BootManager_Run's loop
    mustReject,\* SecureContainer_Process was entered without a container
    session,   \* the application's g_session
    trial,     \* the running application was started as a trial (IWDG on)
    AllowUnsignedLegacy, \* SECURE_CONTAINER_ALLOW_UNSIGNED_LEGACY of the build, off by default
    stable,    \* environment: no further power loss or I/O fault
    faulted,   \* history: some I/O operation has failed
    launches,  \* history: starts of the current trial image
    guarded    \* history: version the backup was sealed for, 0 once released

records == <<ckpt, handoff>>
flash == <<app, md, bk, bkHdr, incoming, rec, records>>
ram == <<pc, w, passes, mustReject, session, trial>>
world == <<stable, AllowUnsignedLegacy>>
env == <<world, faulted, launches, guarded>>
vars == <<flash, ram, env>>

Pages == 0..(APPLICATION_MAX_SIZE \div INTERNAL_FLASH_PAGE_SIZE - 1)
PageOf(offset) == offset \div INTERNAL_FLASH_PAGE_SIZE
SectorPages(offset) ==
    {p \in Pages : (p * INTERNAL_FLASH_PAGE_SIZE) \div EXT_FLASH_SECTOR_SIZE
                      = offset \div EXT_FLASH_SECTOR_SIZE}

(* The first ImageSize[v] bytes of mem are the image of version v.         *)
ImageHeld(mem, v) ==
    \A p \in Pages : p * INTERNAL_FLASH_PAGE_SIZE < ImageSize[v] => mem[p] = v

NoHeader == [version |-> 0, image |-> [p \in Pages |-> Blank]]

(* BackupImageStorage_LoadHeader and the comparison of the data's CRC.     *)
BackupValid == bkHdr.version # 0 /\ bkHdr.image = bk

(* FullImage_ValidateVector and ApplicationJump_Validate read the first    *)
(* two words of the application: only an erased first page fails them.     *)
ApplicationValid == app[0] # Blank

NoSession == [state |-> "NONE", version |-> 0, artifact |-> Junk, received |-> FALSE]
NoCheckpoint == [state |-> "IDLE", version |-> 0, artifact |-> Junk]
NoHandoff == [version |-> 0, artifact |-> Junk]

Init ==
    /\ app = [p \in Pages |->
                IF p * INTERNAL_FLASH_PAGE_SIZE < ImageSize[FactoryVersion]
                  THEN FactoryVersion ELSE Blank]
    /\ md = BootMetadata_Init(FactoryVersion)
    /\ bk = [p \in Pages |-> Blank]
    /\ bkHdr = NoHeader
    /\ incoming = Junk
    /\ rec = Blank
    /\ ckpt = NoCheckpoint /\ handoff = NoHandoff
    /\ pc = "reset" /\ w = md /\ passes = 0 /\ mustReject = FALSE
    /\ session = NoSession /\ trial = FALSE
    /\ AllowUnsignedLegacy \in Builds
    /\ stable = FALSE /\ faulted = FALSE /\ launches = 0 /\ guarded = 0

-----------------------------------------------------------------------------
(* Steps every component is made of.                                       *)

(* An I/O operation of the running program fails.                          *)
Fault == ~stable /\ faulted' = TRUE

(* A reset leaves only flash behind.                                       *)
Reset ==
    /\ pc' = "reset" /\ w' = md' /\ passes' = 0 /\ mustReject' = FALSE
    /\ session' = NoSession /\ trial' = FALSE

Goto(label) ==
    pc' = label /\ UNCHANGED <<w, passes, mustReject, session, trial>>

(* One turn of the BootManager_Run loop ends with this record.             *)
NextPass(m) ==
    /\ pc' = "decide" /\ w' = m /\ passes' = passes + 1
    /\ UNCHANGED <<mustReject, session, trial>>

(* MetadataStorage_Commit(m) succeeds ...                                  *)
Committed(m) == FieldsAreValid(m) /\ md' = m /\ UNCHANGED faulted

(* ... or returns an error: m does not validate, or the flash failed.      *)
(* Then the register may have changed all the same, see ProgramFails in    *)
(* MetadataStorage.  The caller keeps m in RAM.                            *)
NotCommitted(m) ==
    /\ FieldsAreValid(m) => ~stable
    /\ faulted' = (faulted \/ FieldsAreValid(m))
    /\ md' \in {md} \cup (IF FieldsAreValid(m) THEN {m} ELSE {})

(* DownloadCheckpointStorage_Commit(c) succeeds, or reports an error: then *)
(* the old record is still the newest, unless only the read-back failed,   *)
(* but the handoff record that shared its sector may be gone.              *)
CheckpointStored(c) == ckpt' = c /\ UNCHANGED <<handoff, faulted>>
CheckpointFails(c) == ckpt' \in {ckpt, c} /\ handoff' \in {handoff, NoHandoff} /\ Fault

(* DownloadCheckpointStorage_Clear, in a caller that ignores its result.   *)
ClearBestEffort == CheckpointStored(NoCheckpoint) \/ CheckpointFails(NoCheckpoint)

(* A commit in the middle of a routine.                                    *)
CommitStep(m, onOk, onError) ==
    /\ \/ Committed(m) /\ pc' = onOk
       \/ NotCommitted(m) /\ pc' = onError
    /\ w' = m
    /\ UNCHANGED <<app, bk, bkHdr, incoming, rec, records,
                   passes, mustReject, session, trial, world, launches>>

(* A commit whose success ends the routine and the turn of the loop.       *)
CommitAndReturn(m) ==
    /\ \/ Committed(m) /\ NextPass(m)
       \/ NotCommitted(m) /\ Goto("fatal")
    /\ UNCHANGED <<app, bk, bkHdr, incoming, rec, records, world>>

=============================================================================
