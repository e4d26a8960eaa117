------------------------------ MODULE MCStorage ------------------------------
(***************************************************************************)
(* The three places where the node keeps redundant or sealed records, side *)
(* by side for TLC: the two internal pages of the boot record, the two     *)
(* metadata sectors of the external flash, and the Backup partition.  They *)
(* share no state; a behaviour is a behaviour of one of them.              *)
(*                                                                         *)
(* Bodies of the boot record are real ones: the default, two later ones,   *)
(* and one that BootMetadata_Validate must refuse.  One body of each kind  *)
(* in the metadata sectors does not validate either.  Generations wrap     *)
(* around after a few commits.                                             *)
(* StorageProofs proves the properties for all constants.                  *)
(***************************************************************************)
EXTENDS BootMetadata, MetadataStorage

Idle1 == BootMetadata_Init(1)
Ready == [Idle1 EXCEPT !.state = "ARTIFACT_READY", !.pending_version = 2,
                       !.active_update_id = 7, !.received_size = 4,
                       !.expected_size = 4]
Trial == [Ready EXCEPT !.state = "TRIAL_BOOT", !.boot_attempts = 3]
Overrun == [Trial EXCEPT !.boot_attempts = 4]

MCBodies == {Idle1, Ready, Trial, Overrun}
MCValidBodies == {b \in MCBodies : FieldsAreValid(b)}

Session(state, size, next) ==
    [state |-> state, update_id |-> 1, image_size |-> size, next_offset |-> next]
NoSession == [state |-> "IDLE", update_id |-> 0, image_size |-> 0, next_offset |-> 0]
Handoff(id, size) == [update_id |-> id, target_version |-> 2, image_size |-> size]

MCKindSets == {{"C"}, {"C", "H"}}

MCSectorBodies ==
    [k \in {"C", "H"} |->
       IF k = "C" THEN {NoSession, Session("RECEIVING", 3, 2), Session("RECEIVING", 3, 1)}
                  ELSE {Handoff(1, 9), Handoff(1, 7)}]

CONSTANTS
    KindSets, SectorBodies, SectorGenHalf,     \* of ExternalMetadata
    MIN_IMAGE, MAX_IMAGE, INCOMING, SECTOR, Faults,
    REGION, ERASE, Values                      \* of BackupStorage

VARIABLES
    place,                                              \* the one that is looked at
    sector, commit, result, promised, hurt, kinds,      \* of ExternalMetadata
    part, app, md, pc, original, faulted                \* of BackupStorage

Sectors == INSTANCE ExternalMetadata WITH
    Bodies <- SectorBodies, GenHalf <- SectorGenHalf,
    call <- commit, status <- result, faulted <- hurt

Backup == INSTANCE BackupStorage WITH
    APPLICATION_MAX_SIZE <- REGION, EXT_FLASH_SECTOR_SIZE <- ERASE

ASSUME StorageAssumption == Sectors!ExternalAssumption /\ Backup!BackupAssumption

sectorVars == <<sector, commit, result, promised, hurt, kinds>>
backupVars == <<part, app, md, pc, original, faulted>>

StorageInit ==
    /\ place \in {"boot record", "metadata sectors", "backup"}
    /\ Init /\ Sectors!Init /\ Backup!Init
    /\ place # "metadata sectors" => kinds = CHOOSE k \in KindSets : TRUE
    /\ place # "backup" => \A p \in DOMAIN app : app[p] = CHOOSE v \in Values : TRUE

StorageNext ==
    \/ place = "boot record" /\ Next /\ UNCHANGED <<place, sectorVars, backupVars>>
    \/ place = "metadata sectors" /\ Sectors!Next /\ UNCHANGED <<place, vars, backupVars>>
    \/ place = "backup" /\ Backup!Next /\ UNCHANGED <<place, vars, sectorVars>>

storageVars == <<place, vars, sectorVars, backupVars>>

StorageSpec == StorageInit /\ [][StorageNext]_storageVars

-----------------------------------------------------------------------------
(* The two kinds of record that share the external sectors                 *)
(* (download_checkpoint_storage.c, update_handoff_storage.c): a commit is  *)
(* atomic for its own kind with every fault, what is reported as OK is     *)
(* what the next Load finds, and as long as no operation fails the record  *)
(* of the other kind comes through the erase of its sector.                *)
BothKindsKept == Sectors!BothKindsKept

(* Where only checkpoints are written, the sectors implement the atomic    *)
(* register of MetadataRegister.                                           *)
AtomicCheckpoint == Sectors!AtomicCheckpoint

(* A backup header that loads speaks of the image behind it, wherever      *)
(* power is cut; during installation and rollback that is the image the    *)
(* update started from; power cuts alone never make the bootloader give up *)
(* (backup_image_storage.c, image_installer.c).                            *)
BackupIsOriginal == Backup!BackupIsOriginal

=============================================================================
