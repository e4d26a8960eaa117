---------------------------- MODULE BackupStorage ----------------------------
(***************************************************************************)
(* The Backup partition of the external flash, cell by cell: the header    *)
(* that BackupImageStorage_CommitHeader writes in two pieces, the image    *)
(* behind it (common/storage/backup_image_storage.c), and the installer's  *)
(* use of both (BeginBackup, ResumeBackup and ResumeRollbackCopy of        *)
(* bootloader/src/image_installer.c).  ImageInstaller takes the header for *)
(* a register that holds the old record, none, or the new one.             *)
(*                                                                         *)
(* A cell is the installer's page buffer: an internal flash page.  The     *)
(* boot record is the atomic register that MetadataStorage implements.     *)
(***************************************************************************)
EXTENDS Integers, TLAPS

CONSTANTS
    APPLICATION_MAX_SIZE,   \* cells of the application region
    EXT_FLASH_SECTOR_SIZE,  \* cells of an erase unit of the external flash
    Values                  \* what a page may hold

(* What the constants have to satisfy.                                     *)
BackupAssumption ==
    /\ APPLICATION_MAX_SIZE \in Nat \ {0}
    /\ EXT_FLASH_SECTOR_SIZE \in Nat \ {0}

VARIABLES
    part,     \* the partition, cell by cell
    app,      \* the application region, page by page
    md,       \* boot record: state and copy_offset
    pc,       \* where the bootloader is
    original, \* history: the image the backup is made of
    faulted   \* history: an operation on the external flash has failed

vars == <<part, app, md, pc, original, faulted>>

Pages == 0..(APPLICATION_MAX_SIZE - 1)

(* The header has a sector of its own.                                     *)
BACKUP_IMAGE_DATA_OFFSET == EXT_FLASH_SECTOR_SIZE

Cells == 0..(BACKUP_IMAGE_DATA_OFFSET + APPLICATION_MAX_SIZE + EXT_FLASH_SECTOR_SIZE - 1)

Erased == <<"erased">>
Torn == <<"torn">>
Data(v) == <<"data", v>>

(* BackupImageRecord_t: its body names the image by its CRC; `sealed` says *)
(* whether the CRC of the body has been written behind it.                 *)
Header(image, sealed) == <<"header", image, sealed>>

(* BackupImage_Validate.                                                   *)
HeaderValid(cell) == cell[1] = "header" /\ cell[3]

LoadHeader == HeaderValid(part[0])

-----------------------------------------------------------------------------
(* Operations on the partition: what they make of it.                      *)

ImageRangeValid(offset, length) == offset + length <= APPLICATION_MAX_SIZE

SectorOf(cell) == {c \in Cells : c \div EXT_FLASH_SECTOR_SIZE = cell \div EXT_FLASH_SECTOR_SIZE}

EraseRange(cell, value) == [c \in Cells |-> IF c \in SectorOf(cell) THEN value ELSE part[c]]

EraseSector(offset, value) == EraseRange(BACKUP_IMAGE_DATA_OFFSET + offset, value)

(* BackupImageStorage_Read of one page.                                    *)
ImageAt(p) == part[BACKUP_IMAGE_DATA_OFFSET + p]

(* The flash refuses to program a cell that is not blank.                  *)
Writable(offset, length) ==
    /\ ImageRangeValid(offset, length)
    /\ \A p \in offset..(offset + length - 1) : ImageAt(p) = Erased

(* The first n pages of a chunk have been written.                         *)
Written(offset, n) ==
    [c \in Cells |->
        LET p == c - BACKUP_IMAGE_DATA_OFFSET
        IN  IF p \in offset..(offset + n - 1) THEN Data(app[p]) ELSE part[c]]

HeaderCell(cell) == [part EXCEPT ![0] = cell]

-----------------------------------------------------------------------------
(* backup_progress.c                                                       *)
ChunkLength(offset) ==
    IF APPLICATION_MAX_SIZE - offset > EXT_FLASH_SECTOR_SIZE
      THEN EXT_FLASH_SECTOR_SIZE ELSE APPLICATION_MAX_SIZE - offset

(* CalculateBackupCrc against the CRC of an image.                         *)
BackupHolds(image) == \A p \in Pages : ImageAt(p) = Data(image[p])

InitialBackup == [c \in Cells |-> Erased]

Init ==
    /\ part = InitialBackup
    /\ app \in [Pages -> Values]
    /\ md = [state |-> "IDLE", offset |-> 0]
    /\ pc = "run"
    /\ original = app
    /\ faulted = FALSE

Goto(label) == pc' = label /\ UNCHANGED <<app, md, original, faulted>>

(* An update has come to the point where the active image is saved.        *)
StartUpdate ==
    /\ pc = "run"
    /\ Goto("invalidate") /\ UNCHANGED part

(* BeginBackup                                                             *)
InvalidateHeader ==
    /\ pc = "invalidate"
    /\ part' = EraseRange(0, Erased)
    /\ Goto("begin")

BeginBackup ==
    /\ pc = "begin"
    /\ md' = [state |-> "BACKING_UP", offset |-> 0]
    /\ pc' = "copy" /\ original' = app
    /\ UNCHANGED <<part, app, faulted>>

(* CopyActiveImageToBackupChunk                                            *)
CopyErase ==
    /\ pc = "copy" /\ md.offset < APPLICATION_MAX_SIZE
    /\ part' = EraseSector(md.offset, Erased)
    /\ Goto("write")

CopyWrite ==
    /\ pc = "write"
    /\ IF Writable(md.offset, ChunkLength(md.offset))
         THEN part' = Written(md.offset, ChunkLength(md.offset)) /\ Goto("checkpoint")
         ELSE UNCHANGED part /\ Goto("revert")

(* The chunk has been verified; its checkpoint is committed.               *)
CopyCheckpoint ==
    /\ pc = "checkpoint"
    /\ md' = [md EXCEPT !.offset = @ + ChunkLength(@)]
    /\ pc' = "copy"
    /\ UNCHANGED <<part, app, original, faulted>>

(* The end of ResumeBackup: both CRCs, then the header.                    *)
CompareCrc ==
    /\ pc = "copy" /\ md.offset = APPLICATION_MAX_SIZE
    /\ Goto(IF BackupHolds(app) THEN "sealErase" ELSE "revert")
    /\ UNCHANGED part

(* BackupImageStorage_CommitHeader                                         *)
SealErase ==
    /\ pc = "sealErase"
    /\ part' = EraseRange(0, Erased)
    /\ Goto("sealBody")

(* Mutant: the boot record goes ahead of the header.                       *)
InstallBeforeSealing ==
    /\ pc = "sealBody"
    /\ part' = HeaderCell(Header(app, FALSE))
    /\ md' = [state |-> "INSTALLING", offset |-> 0]
    /\ pc' = "sealCrc"
    /\ UNCHANGED <<app, original, faulted>>

SealBody ==
    /\ pc = "sealBody"
    /\ part' = HeaderCell(Header(app, FALSE))
    /\ Goto("sealCrc")

SealCrc ==
    /\ pc = "sealCrc"
    /\ part' = HeaderCell(Header(app, TRUE))
    /\ Goto("sealed")

(* The header has been read back: the commit of INSTALLING.                *)
BackupComplete ==
    /\ pc = "sealed"
    /\ md' = [state |-> "INSTALLING", offset |-> 0]
    /\ pc' = "check"
    /\ UNCHANGED <<part, app, original, faulted>>

-----------------------------------------------------------------------------
(* ValidateBackupImage, before an installation and before a rollback.      *)
ValidateBackupImage ==
    /\ pc = "check"
    /\ Goto(CASE ~LoadHeader \/ ~BackupHolds(part[0][2]) -> "failed"
              [] OTHER -> IF md.state = "INSTALLING" THEN "installing" ELSE "restore")
    /\ UNCHANGED part

(* Pages of the new image; ImageInstaller has the details.                 *)
InstallPage ==
    /\ pc = "installing"
    /\ \E p \in Pages, v \in Values : app' = [app EXCEPT ![p] = v]
    /\ UNCHANGED <<part, md, pc, original, faulted>>

(* The trial is confirmed ...                                              *)
Confirmed ==
    /\ pc = "installing"
    /\ md' = [state |-> "IDLE", offset |-> 0] /\ pc' = "run"
    /\ UNCHANGED <<part, app, original, faulted>>

(* ... or the installation or the trial fails: BeginRollback.              *)
BeginRollback ==
    /\ pc = "installing"
    /\ md' = [state |-> "ROLLBACK", offset |-> 0] /\ pc' = "check"
    /\ UNCHANGED <<part, app, original, faulted>>

NextPage(offset) == offset + 1

(* ProgramAndVerifyBackupPage, and its checkpoint.                         *)
RestorePage ==
    /\ pc = "restore" /\ md.offset < APPLICATION_MAX_SIZE
    /\ app' = [app EXCEPT ![md.offset] = ImageAt(md.offset)[2]]
    /\ md' = [md EXCEPT !.offset = NextPage(@)]
    /\ UNCHANGED <<part, pc, original, faulted>>

(* VerifyRolledBackApplication and FinalizeRollback.                       *)
FinalizeRollback ==
    /\ pc = "restore" /\ md.offset = APPLICATION_MAX_SIZE
    /\ IF app = part[0][2]
         THEN md' = [state |-> "IDLE", offset |-> 0] /\ pc' = "run"
         ELSE UNCHANGED md /\ pc' = "failed"
    /\ UNCHANGED <<part, app, original, faulted>>

RevertToActiveImage ==
    /\ pc = "revert"
    /\ md' = [state |-> "IDLE", offset |-> 0] /\ pc' = "run"
    /\ UNCHANGED <<part, app, original, faulted>>

BestEffortMarkFailed ==
    /\ pc = "failed" /\ md.state # "FAILED"
    /\ md' = [md EXCEPT !.state = "FAILED"]
    /\ UNCHANGED <<part, app, pc, original, faulted>>

-----------------------------------------------------------------------------
(* What an operation that fails, or is cut short, may leave behind.        *)
Interrupted ==
    {part} \cup
    CASE pc \in {"invalidate", "sealErase"} -> {EraseRange(0, Torn), EraseRange(0, Erased)}
      [] pc = "copy" /\ md.offset < APPLICATION_MAX_SIZE ->
            {EraseSector(md.offset, Torn), EraseSector(md.offset, Erased)}
      [] pc = "write" -> {Written(md.offset, n) : n \in 0..ChunkLength(md.offset)}
      [] pc = "sealBody" -> {HeaderCell(Torn), HeaderCell(Header(app, FALSE))}
      [] pc = "sealCrc" -> {HeaderCell(Torn), HeaderCell(Header(app, TRUE))}
      [] OTHER -> {}

(* The external flash reports an error; the callers give up differently.   *)
StorageFails ==
    /\ \/ /\ pc \in {"copy", "write", "sealErase", "sealBody", "sealCrc", "sealed"}
          /\ pc' = "revert"
       \/ pc \in {"invalidate", "check", "restore"} /\ pc' = "failed"
    /\ part' \in Interrupted
    /\ faulted' = TRUE
    /\ UNCHANGED <<app, md, original>>

(* Where BootManager_Run takes an interrupted update up again.             *)
Resumed(state) ==
    CASE state = "IDLE" -> "run"
      [] state = "BACKING_UP" -> "copy"
      [] state \in {"INSTALLING", "ROLLBACK"} -> "check"
      [] state = "FAILED" -> "failed"

PowerLoss ==
    /\ part' \in Interrupted
    /\ pc' = Resumed(md.state)
    /\ UNCHANGED <<app, md, original, faulted>>

Next ==
    \/ StartUpdate
    \/ InvalidateHeader
    \/ BeginBackup
    \/ CopyErase
    \/ CopyWrite
    \/ CopyCheckpoint
    \/ CompareCrc
    \/ SealErase
    \/ SealBody
    \/ SealCrc
    \/ BackupComplete
    \/ ValidateBackupImage
    \/ InstallPage
    \/ Confirmed
    \/ BeginRollback
    \/ RestorePage
    \/ FinalizeRollback
    \/ RevertToActiveImage
    \/ BestEffortMarkFailed
    \/ StorageFails
    \/ PowerLoss

Spec == Init /\ [][Next]_vars

-----------------------------------------------------------------------------
(* A header that LoadHeader accepts, of this backup or of an earlier one,  *)
(* speaks of the image that lies behind it, wherever the power was cut and *)
(* whatever failed: the image is not touched before the header is gone and *)
(* the header's own erasure does not reach it.                             *)
HeaderCoversData == LoadHeader => BackupHolds(part[0][2])

(* From the commit of INSTALLING until the end of the update the partition *)
(* holds a valid backup of the image the update started from.              *)
OriginalIsSaved ==
    md.state \in {"INSTALLING", "ROLLBACK"} => LoadHeader /\ BackupHolds(original)

(* As long as the external flash does what it is asked for, no power cut   *)
(* makes the bootloader give up (BestEffortMarkFailed).                    *)
OnlyFaultsAreFatal == pc = "failed" => faulted

(* The three together: the backup that a rollback relies on.               *)
BackupIsOriginal == HeaderCoversData /\ OriginalIsSaved /\ OnlyFaultsAreFatal

-----------------------------------------------------------------------------
(* The same for every size of the region and of the sectors.               *)

Labels ==
    {"run", "invalidate", "begin", "copy", "write", "checkpoint", "sealErase", "sealBody",
     "sealCrc", "sealed", "revert", "check", "installing", "restore", "failed"}

States == {"IDLE", "BACKING_UP", "INSTALLING", "ROLLBACK", "FAILED"}

TypeOK ==
    /\ DOMAIN part = Cells /\ part = [c \in Cells |-> part[c]]
    /\ app \in [Pages -> Values] /\ original \in [Pages -> Values]
    /\ md \in [state : States, offset : 0..APPLICATION_MAX_SIZE]
    /\ pc \in Labels /\ faulted \in BOOLEAN
    /\ LoadHeader => part[0][2] \in [Pages -> Values]

(* Which state of the record goes with which place in the bootloader.      *)
PlacesAgree ==
    /\ pc \in {"run", "invalidate", "begin"} => md.state = "IDLE"
    /\ pc \in {"copy", "write", "checkpoint", "sealErase", "sealBody", "sealCrc", "sealed",
               "revert"} => md.state = "BACKING_UP"
    /\ pc \in {"write", "checkpoint"} => md.offset < APPLICATION_MAX_SIZE
    /\ pc = "check" => md.state \in {"INSTALLING", "ROLLBACK"}
    /\ pc = "installing" => md.state = "INSTALLING"
    /\ pc = "restore" => md.state = "ROLLBACK"
    /\ md.state = "FAILED" => faulted

(* The image is copied while no header vouches for it, and sealed once it  *)
(* has been compared; what is being saved has not been touched yet.        *)
CopyInProgress ==
    /\ pc = "begin" => ~LoadHeader
    /\ md.state = "BACKING_UP" => app = original
    /\ md.state = "BACKING_UP" /\ md.offset < APPLICATION_MAX_SIZE => ~LoadHeader
    /\ pc \in {"sealErase", "sealBody", "sealCrc", "sealed"} =>
          md.offset = APPLICATION_MAX_SIZE /\ BackupHolds(app)
    /\ pc = "sealed" => LoadHeader

(* A restoration has done what its checkpoints claim.                      *)
RestoreInProgress ==
    md.state = "ROLLBACK" => \A p \in Pages : p < md.offset => ImageAt(p) = Data(app[p])

(* The inductive invariant.                                                *)
BackupInv ==
    TypeOK /\ PlacesAgree /\ CopyInProgress /\ RestoreInProgress /\ BackupIsOriginal

-----------------------------------------------------------------------------
(* The header's sector and the cells of the image have nothing in common.  *)
LEMMA HeaderApart ==
    ASSUME BackupAssumption
    PROVE  /\ 0 \in Cells /\ 0 \in SectorOf(0)
           /\ \A p \in Pages : /\ BACKUP_IMAGE_DATA_OFFSET + p \in Cells
                               /\ BACKUP_IMAGE_DATA_OFFSET + p # 0
                               /\ BACKUP_IMAGE_DATA_OFFSET + p \notin SectorOf(0)
           /\ \A o \in Nat : 0 \notin SectorOf(BACKUP_IMAGE_DATA_OFFSET + o)
<1> DEFINE S == EXT_FLASH_SECTOR_SIZE
<1>0. S \in Nat /\ S > 0 /\ APPLICATION_MAX_SIZE \in Nat /\ APPLICATION_MAX_SIZE > 0
  BY DEF BackupAssumption
<1>1. 0 \div S = 0
  BY <1>0
<1>2. \A o \in Nat : (S + o) \div S # 0
  BY <1>0
<1>3. 0 \in Cells /\ \A p \in Pages : p \in Nat /\ S + p \in Cells /\ S + p # 0
  BY <1>0 DEF Cells, Pages, BACKUP_IMAGE_DATA_OFFSET
<1> QED BY <1>1, <1>2, <1>3 DEF SectorOf, BACKUP_IMAGE_DATA_OFFSET

(* What a step may make of the partition: nothing; another cell for the    *)
(* header, before which or behind which nothing changes; or another image. *)
HeaderBecomes(cell) ==
    /\ DOMAIN part' = Cells /\ part' = [c \in Cells |-> part'[c]]
    /\ part'[0] = cell /\ \A p \in Pages : ImageAt(p)' = ImageAt(p)

ImageChanges ==
    /\ DOMAIN part' = Cells /\ part' = [c \in Cells |-> part'[c]]
    /\ part'[0] = part[0]

(* What the writes and erasures of the partition make of it.               *)
LEMMA Effects ==
    ASSUME BackupAssumption, TypeOK
    PROVE  /\ \A v : part' = EraseRange(0, v) => HeaderBecomes(v)
           /\ \A v : part' = HeaderCell(v) => HeaderBecomes(v)
           /\ \A v : part' = EraseSector(md.offset, v) => ImageChanges
           /\ \A n : part' = Written(md.offset, n) => ImageChanges
<1>0. md.offset \in Nat
  BY DEF TypeOK, BackupAssumption
<1>1. ASSUME NEW v, part' = EraseRange(0, v) PROVE HeaderBecomes(v)
  BY <1>1, HeaderApart DEF EraseRange, HeaderBecomes, ImageAt
<1>2. ASSUME NEW v, part' = HeaderCell(v) PROVE HeaderBecomes(v)
  BY <1>2, HeaderApart DEF HeaderCell, HeaderBecomes, ImageAt, TypeOK
<1>3. ASSUME NEW v, part' = EraseSector(md.offset, v) PROVE ImageChanges
  BY <1>0, <1>3, HeaderApart DEF EraseSector, EraseRange, ImageChanges
<1>4. ASSUME NEW n, part' = Written(md.offset, n) PROVE ImageChanges
  <2>1. 0 - BACKUP_IMAGE_DATA_OFFSET \notin md.offset..(md.offset + n - 1)
    BY <1>0 DEF BACKUP_IMAGE_DATA_OFFSET, BackupAssumption
  <2> QED BY <1>4, <2>1, HeaderApart DEF Written, ImageChanges
<1> QED BY <1>1, <1>2, <1>3, <1>4

(* A cell that is erased or torn, or a header without its CRC, is refused. *)
LEMMA Refused ==
    /\ ~HeaderValid(Erased) /\ ~HeaderValid(Torn)
    /\ \A i : ~HeaderValid(Header(i, FALSE))
    /\ \A i : HeaderValid(Header(i, TRUE)) /\ Header(i, TRUE)[2] = i
BY DEF HeaderValid, Erased, Torn, Header

(* The header is lost, or one that says nothing takes its place.           *)
LEMMA HeaderGone ==
    ASSUME BackupInv, NEW v, ~HeaderValid(v), HeaderBecomes(v), UNCHANGED <<app, md, original>>,
           md.state \notin {"INSTALLING", "ROLLBACK"}, pc' \in Labels, faulted' \in BOOLEAN
    PROVE  /\ TypeOK' /\ HeaderCoversData' /\ OriginalIsSaved' /\ RestoreInProgress'
           /\ ~LoadHeader' /\ (BackupHolds(app) => BackupHolds(app)')
<1>1. ~LoadHeader'
  BY DEF LoadHeader, HeaderBecomes
<1>2. TypeOK'
  BY <1>1 DEF BackupInv, TypeOK, HeaderBecomes
<1>3. BackupHolds(app) => BackupHolds(app)'
  BY DEF BackupHolds, HeaderBecomes
<1> QED BY <1>1, <1>2, <1>3 DEF HeaderCoversData, OriginalIsSaved, RestoreInProgress

(* The image changes while there is no header.                             *)
LEMMA ImageMoves ==
    ASSUME BackupInv, ImageChanges, UNCHANGED <<app, md, original>>, ~LoadHeader,
           md.state \notin {"INSTALLING", "ROLLBACK"}, pc' \in Labels, faulted' \in BOOLEAN
    PROVE  /\ TypeOK' /\ HeaderCoversData' /\ OriginalIsSaved' /\ RestoreInProgress'
           /\ ~LoadHeader'
<1>1. ~LoadHeader'
  BY DEF LoadHeader, ImageChanges
<1>2. TypeOK'
  BY <1>1 DEF BackupInv, TypeOK, ImageChanges
<1> QED BY <1>1, <1>2 DEF HeaderCoversData, OriginalIsSaved, RestoreInProgress

(* The header is sealed.                                                   *)
LEMMA HeaderSealed ==
    ASSUME BackupInv, HeaderBecomes(Header(app, TRUE)), UNCHANGED <<app, md, original>>,
           pc = "sealCrc", pc' \in Labels, faulted' \in BOOLEAN
    PROVE  /\ TypeOK' /\ HeaderCoversData' /\ OriginalIsSaved' /\ RestoreInProgress'
           /\ LoadHeader' /\ BackupHolds(app)'
<1>1. LoadHeader' /\ part'[0][2] = app
  BY Refused DEF LoadHeader, HeaderBecomes
<1>2. TypeOK'
  BY <1>1 DEF BackupInv, TypeOK, HeaderBecomes
<1>3. BackupHolds(app)'
  BY DEF BackupInv, CopyInProgress, BackupHolds, HeaderBecomes
<1>4. HeaderCoversData'
  BY <1>1, <1>3 DEF HeaderCoversData, BackupHolds
<1>5. md.state = "BACKING_UP"
  BY DEF BackupInv, PlacesAgree
<1> QED BY <1>1, <1>2, <1>3, <1>4, <1>5 DEF OriginalIsSaved, RestoreInProgress

(* Nothing but the place changes.                                          *)
LEMMA PartStays ==
    ASSUME BackupInv, UNCHANGED <<part, app, md, original>>, pc' \in Labels, faulted' \in BOOLEAN
    PROVE  /\ TypeOK' /\ HeaderCoversData' /\ OriginalIsSaved' /\ RestoreInProgress'
           /\ LoadHeader' = LoadHeader /\ BackupHolds(app)' = BackupHolds(app)
BY DEF BackupInv, TypeOK, BackupIsOriginal, HeaderCoversData, OriginalIsSaved,
       RestoreInProgress, LoadHeader, BackupHolds, ImageAt

(* What an operation that is cut short leaves behind, and where it may     *)
(* find the bootloader.                                                    *)
LEMMA CutShort ==
    ASSUME BackupAssumption, BackupInv, part' \in Interrupted
    PROVE  \/ UNCHANGED part
           \/ /\ pc \in {"invalidate", "sealErase", "sealBody", "sealCrc"}
              /\ \E v : ~HeaderValid(v) /\ HeaderBecomes(v)
           \/ pc = "sealCrc" /\ HeaderBecomes(Header(app, TRUE))
           \/ pc \in {"copy", "write"} /\ md.offset < APPLICATION_MAX_SIZE /\ ImageChanges
<1>0. TypeOK /\ PlacesAgree
  BY DEF BackupInv
<1>1. CASE pc \in {"invalidate", "sealErase"}
  BY <1>0, <1>1, Effects, Refused DEF Interrupted
<1>2. CASE pc = "copy"
  BY <1>0, <1>2, Effects DEF Interrupted
<1>3. CASE pc = "write"
  BY <1>0, <1>3, Effects DEF Interrupted, PlacesAgree
<1>4. CASE pc = "sealBody"
  BY <1>0, <1>4, Effects, Refused DEF Interrupted
<1>5. CASE pc = "sealCrc"
  BY <1>0, <1>5, Effects, Refused DEF Interrupted
<1>6. CASE pc \notin {"invalidate", "sealErase", "copy", "write", "sealBody", "sealCrc"}
  BY <1>6 DEF Interrupted
<1> QED BY <1>1, <1>2, <1>3, <1>4, <1>5, <1>6

(* A cut or a failure, wherever it goes on from there.                     *)
LEMMA CutKeeps ==
    ASSUME BackupAssumption, BackupInv, part' \in Interrupted, UNCHANGED <<app, md, original>>,
           faulted' \in BOOLEAN, pc' \in {"run", "copy", "check", "failed", "revert"},
           pc' = "run" => md.state = "IDLE",
           pc' \in {"copy", "revert"} => md.state = "BACKING_UP",
           pc' = "check" => md.state \in {"INSTALLING", "ROLLBACK"},
           faulted => faulted', pc' = "failed" => faulted'
    PROVE  BackupInv'
<1>0. TypeOK /\ PlacesAgree /\ CopyInProgress
  BY DEF BackupInv
<1>1. pc' \in Labels
  BY DEF Labels
<1>2. /\ TypeOK' /\ HeaderCoversData' /\ OriginalIsSaved' /\ RestoreInProgress'
      /\ md.state = "BACKING_UP" /\ md.offset < APPLICATION_MAX_SIZE => ~LoadHeader'
  <2>1. CASE UNCHANGED part
    BY <1>0, <1>1, <2>1, PartStays DEF CopyInProgress
  <2>2. CASE /\ pc \in {"invalidate", "sealErase", "sealBody", "sealCrc"}
             /\ \E v : ~HeaderValid(v) /\ HeaderBecomes(v)
    <3>1. PICK v : ~HeaderValid(v) /\ HeaderBecomes(v)
      BY <2>2
    <3>2. md.state \notin {"INSTALLING", "ROLLBACK"}
      BY <1>0, <2>2 DEF PlacesAgree
    <3> QED BY <1>1, <3>1, <3>2, HeaderGone
  <2>3. CASE pc = "sealCrc" /\ HeaderBecomes(Header(app, TRUE))
    <3>1. md.offset = APPLICATION_MAX_SIZE
      BY <1>0, <2>3 DEF CopyInProgress
    <3>2. ~(md.offset < APPLICATION_MAX_SIZE)
      BY <3>1 DEF BackupAssumption
    <3> QED BY <1>1, <2>3, <3>2, HeaderSealed
  <2>4. CASE pc \in {"copy", "write"} /\ md.offset < APPLICATION_MAX_SIZE /\ ImageChanges
    BY <1>0, <1>1, <2>4, ImageMoves DEF PlacesAgree, CopyInProgress
  <2> QED BY <2>1, <2>2, <2>3, <2>4, CutShort
<1>3. PlacesAgree'
  BY <1>0 DEF PlacesAgree
<1>4. CopyInProgress'
  BY <1>0, <1>2 DEF CopyInProgress
<1> QED BY <1>2, <1>3, <1>4 DEF BackupInv, BackupIsOriginal, OnlyFaultsAreFatal

(* Every step keeps the invariant.                                         *)
LEMMA StepKeeps ==
    ASSUME BackupAssumption, BackupInv, Next PROVE BackupInv'
<1>0. /\ TypeOK /\ PlacesAgree /\ CopyInProgress /\ RestoreInProgress
      /\ HeaderCoversData /\ OriginalIsSaved /\ OnlyFaultsAreFatal
  BY DEF BackupInv, BackupIsOriginal
<1>a. /\ md.offset \in 0..APPLICATION_MAX_SIZE /\ md.state \in States /\ faulted \in BOOLEAN
      /\ APPLICATION_MAX_SIZE \in Nat /\ EXT_FLASH_SECTOR_SIZE \in Nat
  BY <1>0 DEF TypeOK, BackupAssumption
<1> USE DEF PlacesAgree, CopyInProgress, OnlyFaultsAreFatal, Goto
<1>1. CASE StartUpdate
  BY <1>0, <1>a, <1>1, PartStays DEF StartUpdate, Labels, BackupInv, BackupIsOriginal
<1>2. CASE InvalidateHeader
  <2>1. HeaderBecomes(Erased)
    BY <1>0, <1>2, Effects DEF InvalidateHeader
  <2> QED BY <1>0, <1>a, <1>2, <2>1, HeaderGone, Refused
          DEF InvalidateHeader, Labels, BackupInv, BackupIsOriginal
<1>3. CASE BeginBackup
  <2>1. /\ part' = part /\ app' = app /\ original' = app /\ faulted' = faulted /\ pc' = "copy"
        /\ md' = [state |-> "BACKING_UP", offset |-> 0] /\ ~LoadHeader
    BY <1>0, <1>3 DEF BeginBackup
  <2>2. TypeOK'
    BY <1>0, <1>a, <2>1 DEF TypeOK, States, Labels, LoadHeader
  <2>3. HeaderCoversData' /\ OriginalIsSaved' /\ RestoreInProgress' /\ ~LoadHeader'
    BY <1>0, <2>1 DEF HeaderCoversData, OriginalIsSaved, RestoreInProgress, LoadHeader
  <2>4. PlacesAgree' /\ CopyInProgress'
    BY <1>0, <1>a, <2>1, <2>3
  <2> QED BY <2>1, <2>2, <2>3, <2>4 DEF BackupInv, BackupIsOriginal
<1>4. CASE CopyErase
  <2>1. ImageChanges
    BY <1>0, <1>4, Effects DEF CopyErase
  <2> QED BY <1>0, <1>a, <1>4, <2>1, ImageMoves DEF CopyErase, Labels, BackupInv, BackupIsOriginal
<1>5. CASE CopyWrite
  <2>1. CASE part' = Written(md.offset, ChunkLength(md.offset)) /\ Goto("checkpoint")
    <3>1. ImageChanges
      BY <1>0, <2>1, Effects
    <3> QED BY <1>0, <1>a, <1>5, <2>1, <3>1, ImageMoves
            DEF CopyWrite, Labels, BackupInv, BackupIsOriginal
  <2>2. CASE UNCHANGED part /\ Goto("revert")
    BY <1>0, <1>a, <1>5, <2>2, PartStays DEF CopyWrite, Labels, BackupInv, BackupIsOriginal
  <2> QED BY <1>5, <2>1, <2>2 DEF CopyWrite
<1>6. CASE CopyCheckpoint
  <2>1. md.offset + ChunkLength(md.offset) \in 0..APPLICATION_MAX_SIZE
    BY <1>a DEF ChunkLength
  <2>2. /\ UNCHANGED <<part, app, original, faulted>> /\ pc' = "copy" /\ md.state = "BACKING_UP"
        /\ md' \in [state : States, offset : 0..APPLICATION_MAX_SIZE] /\ md'.state = md.state
        /\ ~LoadHeader
    BY <1>0, <1>6, <2>1 DEF CopyCheckpoint, TypeOK
  <2>3. TypeOK'
    BY <1>0, <2>2 DEF TypeOK, Labels, LoadHeader
  <2>4. HeaderCoversData' /\ OriginalIsSaved' /\ RestoreInProgress' /\ ~LoadHeader'
    BY <1>0, <2>2 DEF HeaderCoversData, OriginalIsSaved, RestoreInProgress, LoadHeader
  <2>5. PlacesAgree' /\ CopyInProgress'
    BY <1>0, <2>2, <2>4
  <2> QED BY <2>2, <2>3, <2>4, <2>5 DEF BackupInv, BackupIsOriginal
<1>7. CASE CompareCrc
  BY <1>0, <1>a, <1>7, PartStays DEF CompareCrc, Labels, BackupInv, BackupIsOriginal
<1>8. CASE SealErase
  <2>1. HeaderBecomes(Erased)
    BY <1>0, <1>8, Effects DEF SealErase
  <2> QED BY <1>0, <1>a, <1>8, <2>1, HeaderGone, Refused
          DEF SealErase, Labels, BackupInv, BackupIsOriginal
<1>9. CASE SealBody
  <2>1. HeaderBecomes(Header(app, FALSE))
    BY <1>0, <1>9, Effects DEF SealBody
  <2> QED BY <1>0, <1>a, <1>9, <2>1, HeaderGone, Refused
          DEF SealBody, Labels, BackupInv, BackupIsOriginal
<1>10. CASE SealCrc
  <2>1. HeaderBecomes(Header(app, TRUE))
    BY <1>0, <1>10, Effects DEF SealCrc
  <2> QED BY <1>0, <1>a, <1>10, <2>1, HeaderSealed DEF SealCrc, Labels, BackupInv, BackupIsOriginal
<1>11. CASE BackupComplete
  <2>1. /\ UNCHANGED <<part, app, original, faulted>> /\ pc' = "check"
        /\ md' = [state |-> "INSTALLING", offset |-> 0] /\ LoadHeader /\ BackupHolds(original)
    BY <1>0, <1>11 DEF BackupComplete
  <2>2. TypeOK'
    BY <1>0, <1>a, <2>1 DEF TypeOK, States, Labels, LoadHeader
  <2>3. HeaderCoversData' /\ OriginalIsSaved' /\ RestoreInProgress'
    BY <1>0, <2>1 DEF HeaderCoversData, OriginalIsSaved, RestoreInProgress, LoadHeader,
          BackupHolds, ImageAt
  <2> QED BY <1>0, <2>1, <2>2, <2>3 DEF BackupInv, BackupIsOriginal
<1>12. CASE ValidateBackupImage
  <2>1. LoadHeader /\ BackupHolds(part[0][2])
    BY <1>0, <1>12 DEF ValidateBackupImage, OriginalIsSaved, HeaderCoversData
  <2>2. pc' = IF md.state = "INSTALLING" THEN "installing" ELSE "restore"
    BY <1>12, <2>1 DEF ValidateBackupImage
  <2> QED BY <1>0, <1>a, <1>12, <2>2, PartStays
          DEF ValidateBackupImage, Labels, BackupInv, BackupIsOriginal
<1>13. CASE InstallPage
  <2>1. /\ UNCHANGED <<part, md, pc, original, faulted>> /\ pc = "installing"
        /\ app' \in [Pages -> Values]
    BY <1>0, <1>13 DEF InstallPage, TypeOK
  <2>2. TypeOK'
    BY <1>0, <2>1 DEF TypeOK, LoadHeader
  <2>3. HeaderCoversData' /\ OriginalIsSaved' /\ RestoreInProgress'
    BY <1>0, <2>1 DEF HeaderCoversData, OriginalIsSaved, RestoreInProgress, LoadHeader,
          BackupHolds, ImageAt
  <2> QED BY <1>0, <2>1, <2>2, <2>3 DEF BackupInv, BackupIsOriginal
<1>14. CASE Confirmed \/ BeginRollback \/ RevertToActiveImage
  <2>1. /\ UNCHANGED <<part, app, original, faulted>> /\ pc' \in {"run", "check"}
        /\ md'.state = IF pc' = "run" THEN "IDLE" ELSE "ROLLBACK"
        /\ md' \in [state : States, offset : 0..APPLICATION_MAX_SIZE] /\ md'.offset = 0
        /\ md'.state = "ROLLBACK" => LoadHeader /\ BackupHolds(original)
    BY <1>0, <1>a, <1>14
       DEF Confirmed, BeginRollback, RevertToActiveImage, States, OriginalIsSaved
  <2>2. TypeOK'
    BY <1>0, <2>1 DEF TypeOK, Labels, LoadHeader
  <2>3. HeaderCoversData' /\ OriginalIsSaved'
    BY <1>0, <2>1 DEF HeaderCoversData, OriginalIsSaved, LoadHeader, BackupHolds, ImageAt
  <2>4. RestoreInProgress'
    BY <1>a, <2>1 DEF RestoreInProgress, Pages
  <2> QED BY <1>0, <2>1, <2>2, <2>3, <2>4 DEF BackupInv, BackupIsOriginal
<1>15. CASE RestorePage
  <2>1. /\ UNCHANGED <<part, pc, original, faulted>> /\ pc = "restore" /\ md.state = "ROLLBACK"
        /\ md.offset \in Pages /\ md'.state = md.state /\ md'.offset = md.offset + 1
        /\ md' \in [state : States, offset : 0..APPLICATION_MAX_SIZE]
    BY <1>0, <1>a, <1>15 DEF RestorePage, NextPage, TypeOK, Pages
  <2>2. /\ part[0][2] \in [Pages -> Values]
        /\ \A p \in Pages : ImageAt(p) = Data(part[0][2][p])
    BY <1>0, <2>1 DEF TypeOK, OriginalIsSaved, HeaderCoversData, BackupHolds
  <2>3. ImageAt(md.offset)[2] = part[0][2][md.offset]
    BY <2>1, <2>2 DEF Data
  <2>4. /\ app' \in [Pages -> Values]
        /\ \A p \in Pages : app'[p] = IF p = md.offset THEN part[0][2][p] ELSE app[p]
    BY <1>0, <1>15, <2>1, <2>2, <2>3 DEF RestorePage, TypeOK
  <2>5. TypeOK'
    BY <1>0, <2>1, <2>4 DEF TypeOK, LoadHeader
  <2>6. HeaderCoversData' /\ OriginalIsSaved'
    BY <1>0, <2>1 DEF HeaderCoversData, OriginalIsSaved, LoadHeader, BackupHolds, ImageAt
  <2>7. RestoreInProgress'
    <3> SUFFICES ASSUME NEW p \in Pages, p < md.offset + 1
                 PROVE  ImageAt(p) = Data(app'[p])
      BY <2>1 DEF RestoreInProgress, ImageAt
    <3>1. CASE p = md.offset
      BY <2>2, <2>4, <3>1
    <3>2. CASE p < md.offset
      BY <1>0, <2>1, <2>4, <3>2 DEF RestoreInProgress, Pages
    <3> QED BY <1>a, <3>1, <3>2 DEF Pages
  <2> QED BY <1>0, <2>1, <2>5, <2>6, <2>7 DEF BackupInv, BackupIsOriginal
<1>16. CASE FinalizeRollback
  <2>1. /\ UNCHANGED <<part, app, original, faulted>> /\ md.state = "ROLLBACK"
        /\ md.offset = APPLICATION_MAX_SIZE /\ LoadHeader
    BY <1>0, <1>16 DEF FinalizeRollback, OriginalIsSaved
  <2>2. app = part[0][2]
    <3>1. /\ app \in [Pages -> Values] /\ part[0][2] \in [Pages -> Values]
      BY <1>0, <2>1 DEF TypeOK
    <3>2. \A p \in Pages : Data(app[p]) = Data(part[0][2][p])
      BY <1>0, <1>a, <2>1 DEF RestoreInProgress, HeaderCoversData, BackupHolds, Pages
    <3> QED BY <3>1, <3>2 DEF Data
  <2>3. md' = [state |-> "IDLE", offset |-> 0] /\ pc' = "run"
    BY <1>16, <2>2 DEF FinalizeRollback
  <2>4. TypeOK'
    BY <1>0, <1>a, <2>1, <2>3 DEF TypeOK, Labels, States, LoadHeader
  <2>5. HeaderCoversData' /\ OriginalIsSaved' /\ RestoreInProgress'
    BY <1>0, <2>1, <2>3 DEF HeaderCoversData, OriginalIsSaved, RestoreInProgress, LoadHeader,
          BackupHolds, ImageAt
  <2> QED BY <1>0, <2>1, <2>3, <2>4, <2>5 DEF BackupInv, BackupIsOriginal
<1>17. CASE BestEffortMarkFailed
  <2>1. /\ UNCHANGED <<part, app, pc, original, faulted>> /\ pc = "failed" /\ faulted
        /\ md' \in [state : States, offset : 0..APPLICATION_MAX_SIZE] /\ md'.state = "FAILED"
    BY <1>0, <1>17 DEF BestEffortMarkFailed, TypeOK, States
  <2>2. TypeOK'
    BY <1>0, <2>1 DEF TypeOK, LoadHeader
  <2>3. HeaderCoversData' /\ OriginalIsSaved' /\ RestoreInProgress'
    BY <1>0, <2>1 DEF HeaderCoversData, OriginalIsSaved, RestoreInProgress, LoadHeader,
          BackupHolds, ImageAt
  <2> QED BY <1>0, <2>1, <2>2, <2>3 DEF BackupInv, BackupIsOriginal
<1>18. CASE StorageFails
  BY <1>0, <1>18, CutKeeps DEF StorageFails
<1>19. CASE PowerLoss
  <2>1. /\ pc' \in {"run", "copy", "check", "failed"}
        /\ pc' = "run" => md.state = "IDLE"
        /\ pc' = "copy" => md.state = "BACKING_UP"
        /\ pc' = "check" => md.state \in {"INSTALLING", "ROLLBACK"}
        /\ pc' = "failed" => faulted
    BY <1>0, <1>a, <1>19 DEF PowerLoss, Resumed, States
  <2> QED BY <1>a, <1>19, <2>1, CutKeeps DEF PowerLoss
<1> QED BY <1>1, <1>2, <1>3, <1>4, <1>5, <1>6, <1>7, <1>8, <1>9, <1>10, <1>11, <1>12, <1>13,
     <1>14, <1>15, <1>16, <1>17, <1>18, <1>19 DEF Next

(* For every size of the region and of the sectors, every fault and every  *)
(* power cut (backup_image_storage.c, image_installer.c): a header that    *)
(* LoadHeader accepts speaks of the image behind it, from INSTALLING to    *)
(* the end of the update that is the image the update started from, and    *)
(* only faults make the bootloader give up.                                *)
THEOREM BackupHoldsOriginal == ASSUME BackupAssumption PROVE Spec => []BackupIsOriginal
<1>1. Init => BackupInv
  <2> SUFFICES ASSUME Init PROVE BackupInv
    OBVIOUS
  <2>1. ~LoadHeader
    BY HeaderApart, Refused DEF Init, InitialBackup, LoadHeader
  <2>2. DOMAIN part = Cells /\ part = [c \in Cells |-> part[c]]
    BY DEF Init, InitialBackup
  <2>3. md \in [state : States, offset : 0..APPLICATION_MAX_SIZE]
    BY DEF Init, States, BackupAssumption
  <2>4. TypeOK
    BY <2>1, <2>2, <2>3 DEF Init, TypeOK, Labels
  <2> QED BY <2>1, <2>4 DEF Init, BackupInv, PlacesAgree, CopyInProgress, RestoreInProgress,
        BackupIsOriginal, HeaderCoversData, OriginalIsSaved, OnlyFaultsAreFatal
<1>2. BackupInv /\ [Next]_vars => BackupInv'
  <2> SUFFICES ASSUME BackupInv, [Next]_vars PROVE BackupInv'
    OBVIOUS
  <2>1. CASE UNCHANGED vars
    BY <2>1 DEF vars, BackupInv, TypeOK, PlacesAgree, CopyInProgress, RestoreInProgress,
       BackupIsOriginal, HeaderCoversData, OriginalIsSaved, OnlyFaultsAreFatal, LoadHeader,
       BackupHolds, ImageAt
  <2> QED BY <2>1, StepKeeps
<1> QED BY <1>1, <1>2, PTL DEF Spec, BackupInv

=============================================================================
