---------------------------- MODULE BootMetadata ----------------------------
(***************************************************************************)
(* The persistent boot record of the node (shared/src/boot_metadata.c):    *)
(* its fields, its default value and the consistency rules that decide     *)
(* whether a record is valid.  Magic, format version and CRC-32 are        *)
(* abstracted to "the record is readable" and live in MetadataStorage,     *)
(* together with the generation number.                                    *)
(*                                                                         *)
(* Sizes and offsets are counted in an arbitrary unit; only the relations  *)
(* stated in SizesAssumption matter.                                       *)
(***************************************************************************)
EXTENDS Integers

CONSTANTS
    APPLICATION_MAX_SIZE,      \* size of the internal application region
    EXT_INCOMING_SIZE,         \* size of the external Incoming partition
    EXT_FLASH_SECTOR_SIZE,     \* erase unit of the external flash
    INTERNAL_FLASH_PAGE_SIZE,  \* erase unit of the internal flash
    MAX_BOOT_ATTEMPTS          \* trial boots before rollback

ASSUME SizesAssumption ==
    /\ INTERNAL_FLASH_PAGE_SIZE \in Nat \ {0}
    /\ EXT_FLASH_SECTOR_SIZE \in Nat \ {0}
    /\ EXT_FLASH_SECTOR_SIZE % INTERNAL_FLASH_PAGE_SIZE = 0
    /\ APPLICATION_MAX_SIZE \in Nat \ {0}
    /\ APPLICATION_MAX_SIZE % INTERNAL_FLASH_PAGE_SIZE = 0
    /\ EXT_INCOMING_SIZE \in Nat
    /\ EXT_INCOMING_SIZE >= APPLICATION_MAX_SIZE
    /\ MAX_BOOT_ATTEMPTS \in Nat \ {0}

UpdateState ==
    {"IDLE", "RECEIVING", "ARTIFACT_READY", "VERIFYING_CONTAINER",
     "VERIFYING_BASE", "PATCHING", "IMAGE_READY", "BACKING_UP", "INSTALLING",
     "VERIFYING_INSTALL", "TRIAL_BOOT", "CONFIRMED", "ROLLBACK", "FAILED"}

(* A field that must be a multiple of u, or exactly the end of its range.  *)
AlignedOrEnd(offset, u, end) == offset = end \/ offset % u = 0

UpdatePayloadIsComplete(m) ==
    /\ m.active_update_id # 0
    /\ m.expected_size # 0
    /\ m.received_size = m.expected_size

StateFieldsAreConsistent(m) ==
    CASE m.state = "IDLE" ->
            /\ m.pending_version = 0
            /\ m.active_update_id = 0
            /\ m.received_size = 0
            /\ m.expected_size = 0
            /\ m.copy_offset = 0
            /\ m.boot_attempts = 0
      [] m.state = "RECEIVING" ->
            /\ m.active_update_id # 0
            /\ m.expected_size # 0
            /\ m.pending_version # 0
      [] m.state = "ARTIFACT_READY" ->
            UpdatePayloadIsComplete(m) /\ m.copy_offset = 0
      [] m.state \in {"VERIFYING_CONTAINER", "VERIFYING_BASE", "PATCHING",
                      "IMAGE_READY"} ->
            UpdatePayloadIsComplete(m)
      [] m.state = "BACKING_UP" ->
            /\ UpdatePayloadIsComplete(m)
            /\ m.pending_version # 0
            /\ m.boot_attempts = 0
            /\ m.copy_offset <= APPLICATION_MAX_SIZE
            /\ AlignedOrEnd(m.copy_offset, EXT_FLASH_SECTOR_SIZE,
                            APPLICATION_MAX_SIZE)
      [] m.state = "INSTALLING" ->
            /\ UpdatePayloadIsComplete(m)
            /\ m.copy_offset <= m.expected_size
            /\ AlignedOrEnd(m.copy_offset, INTERNAL_FLASH_PAGE_SIZE,
                            m.expected_size)
      [] m.state = "VERIFYING_INSTALL" ->
            UpdatePayloadIsComplete(m) /\ m.copy_offset = m.expected_size
      [] m.state = "TRIAL_BOOT" ->
            /\ UpdatePayloadIsComplete(m)
            /\ m.pending_version # 0
            /\ m.copy_offset = 0
            /\ m.boot_attempts <= MAX_BOOT_ATTEMPTS
      [] m.state = "CONFIRMED" ->
            /\ UpdatePayloadIsComplete(m)
            /\ m.pending_version # 0
            /\ m.copy_offset = 0
            /\ m.boot_attempts \in 1..MAX_BOOT_ATTEMPTS
      [] m.state = "ROLLBACK" ->
            /\ UpdatePayloadIsComplete(m)
            /\ m.pending_version # 0
            /\ m.boot_attempts <= MAX_BOOT_ATTEMPTS
            /\ m.copy_offset <= APPLICATION_MAX_SIZE
            /\ AlignedOrEnd(m.copy_offset, INTERNAL_FLASH_PAGE_SIZE,
                            APPLICATION_MAX_SIZE)
      [] m.state = "FAILED" -> TRUE
      [] OTHER -> FALSE

ProgressIsValid(m) ==
    /\ m.received_size <= m.expected_size
    /\ m.expected_size <= EXT_INCOMING_SIZE
    /\ m.copy_offset <= APPLICATION_MAX_SIZE

(* BootMetadata_Validate, apart from magic, format, generation and CRC.    *)
FieldsAreValid(m) ==
    m.state \in UpdateState /\ ProgressIsValid(m) /\ StateFieldsAreConsistent(m)

(* The fields every "back to IDLE" path of the firmware resets.            *)
IdleFields(m, version, error) ==
    [m EXCEPT !.state = "IDLE", !.active_version = version,
              !.pending_version = 0, !.active_update_id = 0,
              !.received_size = 0, !.expected_size = 0, !.copy_offset = 0,
              !.boot_attempts = 0, !.last_error = error]

BootMetadata_Init(version) ==
    [state |-> "IDLE", active_version |-> version, pending_version |-> 0,
     active_update_id |-> 0, received_size |-> 0, expected_size |-> 0,
     copy_offset |-> 0, boot_attempts |-> 0, last_error |-> "none"]

=============================================================================
