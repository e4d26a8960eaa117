--------------------------- MODULE ContainerFormat ---------------------------
(***************************************************************************)
(* The headers of the artifacts, from the release tools                    *)
(* (tools/secure_container.py, tools/delta_artifact.py) through the        *)
(* gateway (secure_container_meta.c) to the node (firmware_container.c,    *)
(* delta_patch.c).  Each reads or writes the bytes with code of its own.   *)
(***************************************************************************)
EXTENDS LittleEndian

CONSTANTS
    EXT_INCOMING_SIZE, APPLICATION_MAX_SIZE, EXT_RECONSTRUCTED_SIZE, \* memory_map.h
    APPLICATION_START_ADDRESS,
    FW_CONTAINER_MAGIC, FW_CONTAINER_EXTENSION_MAGIC, DELTA_PATCH_MAGIC,
    PRODUCT_ID

(* What the constants have to satisfy.                                     *)
ContainerAssumption ==
    /\ ByteAssumption
    /\ BYTE * BYTE > 140
    /\ 8 < APPLICATION_MAX_SIZE /\ 204 + APPLICATION_MAX_SIZE <= EXT_INCOMING_SIZE
    /\ APPLICATION_MAX_SIZE <= EXT_RECONSTRUCTED_SIZE /\ EXT_INCOMING_SIZE < U32
    /\ {APPLICATION_START_ADDRESS, FW_CONTAINER_MAGIC, FW_CONTAINER_EXTENSION_MAGIC,
        DELTA_PATCH_MAGIC, PRODUCT_ID} \subseteq 1..(U32 - 1)

Refused == [ok |-> FALSE]
FW_IMAGE_FULL == 1
FW_IMAGE_DELTA == 2
FW_CONTAINER_FIXED_HEADER_SIZE == 120
FW_CONTAINER_HEADER_SIZE == 140
FW_SIGNATURE_SIZE == 64
DELTA_PATCH_HEADER_SIZE == 48

-----------------------------------------------------------------------------
(* tools/secure_container.py: FIXED and EXT, packed without padding.       *)

ToolHeader ==
    [magic |-> <<0, 4>>, format_version |-> <<4, 2>>, header_size |-> <<6, 2>>,
     product_id |-> <<8, 4>>, hardware_revision |-> <<12, 4>>, image_type |-> <<16, 4>>,
     flags |-> <<20, 4>>, base_version |-> <<24, 4>>, target_version |-> <<28, 4>>,
     payload_size |-> <<32, 4>>, target_image_size |-> <<36, 4>>,
     target_load_address |-> <<40, 4>>, base_image_sha256 |-> <<44, 32>>,
     target_image_sha256 |-> <<76, 32>>, payload_crc32 |-> <<108, 4>>,
     hash_algorithm |-> <<112, 2>>, signature_algorithm |-> <<114, 2>>,
     signature_size |-> <<116, 2>>, reserved |-> <<118, 2>>,
     extension_magic |-> <<120, 4>>, extension_version |-> <<124, 2>>,
     extension_size |-> <<126, 2>>, key_id |-> <<128, 4>>,
     base_image_size |-> <<132, 4>>, target_image_crc32 |-> <<136, 4>>]

(* pack_header: the fields of a container for the options of the tool.     *)
pack_header(full, base_version, target_version, payload_size, target_size, base_size, key_id) ==
    [magic |-> FW_CONTAINER_MAGIC, format_version |-> 1,
     header_size |-> FW_CONTAINER_HEADER_SIZE, product_id |-> PRODUCT_ID,
     hardware_revision |-> 1, image_type |-> IF full THEN FW_IMAGE_FULL ELSE FW_IMAGE_DELTA,
     flags |-> 0, base_version |-> IF full THEN 0 ELSE base_version,
     target_version |-> target_version,
     payload_size |-> IF full THEN target_size ELSE payload_size,
     target_image_size |-> target_size, target_load_address |-> APPLICATION_START_ADDRESS,
     base_image_sha256 |-> IF full THEN 0 ELSE BYTE ^ 3, target_image_sha256 |-> 77,
     payload_crc32 |-> 99, hash_algorithm |-> 1, signature_algorithm |-> 1,
     signature_size |-> FW_SIGNATURE_SIZE, reserved |-> 0,
     extension_magic |-> FW_CONTAINER_EXTENSION_MAGIC, extension_version |-> 1,
     extension_size |-> 20, key_id |-> key_id,
     base_image_size |-> IF full THEN 0 ELSE base_size, target_image_crc32 |-> 55]

(* tools/delta_artifact.py: the D13P header; its CRC follows in the last   *)
(* four bytes.                                                             *)
ToolPatchHeader ==
    [magic |-> <<0, 4>>, format_version |-> <<4, 2>>, header_size |-> <<6, 2>>,
     base_version |-> <<8, 4>>, target_version |-> <<12, 4>>, base_image_size |-> <<16, 4>>,
     patch_size |-> <<20, 4>>, target_image_size |-> <<24, 4>>,
     target_load_address |-> <<28, 4>>, base_image_crc32 |-> <<32, 4>>,
     target_image_crc32 |-> <<36, 4>>, patch_crc32 |-> <<40, 4>>]

build_header(base_version, target_version, base_size, patch_size, target_size) ==
    [magic |-> DELTA_PATCH_MAGIC, format_version |-> 1,
     header_size |-> DELTA_PATCH_HEADER_SIZE, base_version |-> base_version,
     target_version |-> target_version, base_image_size |-> base_size,
     patch_size |-> patch_size, target_image_size |-> target_size,
     target_load_address |-> APPLICATION_START_ADDRESS, base_image_crc32 |-> 33,
     target_image_crc32 |-> 55, patch_crc32 |-> 99]

-----------------------------------------------------------------------------
(* The node: ParseFixed, ParseExtension and FirmwareContainer_Parse.       *)

FixedLayout ==
    [magic |-> <<0, 4>>, format_version |-> <<4, 2>>, header_size |-> <<6, 2>>,
     product_id |-> <<8, 4>>, hardware_revision |-> <<12, 4>>, image_type |-> <<16, 4>>,
     flags |-> <<20, 4>>, base_version |-> <<24, 4>>, target_version |-> <<28, 4>>,
     payload_size |-> <<32, 4>>, target_image_size |-> <<36, 4>>,
     target_load_address |-> <<40, 4>>, payload_crc32 |-> <<108, 4>>,
     hash_algorithm |-> <<112, 2>>, signature_algorithm |-> <<114, 2>>,
     signature_size |-> <<116, 2>>, reserved |-> <<118, 2>>]

ParseFixed(h) ==
    /\ h.magic = FW_CONTAINER_MAGIC /\ h.format_version = 1
    /\ h.header_size = FW_CONTAINER_HEADER_SIZE
    /\ h.product_id = PRODUCT_ID /\ h.hardware_revision = 1
    /\ h.image_type \in {FW_IMAGE_FULL, FW_IMAGE_DELTA} /\ h.flags = 0
    /\ h.target_version # 0
    /\ h.payload_size \in 1..(EXT_INCOMING_SIZE - FW_CONTAINER_HEADER_SIZE - FW_SIGNATURE_SIZE)
    /\ h.target_image_size \in 8..APPLICATION_MAX_SIZE
    /\ h.target_image_size <= EXT_RECONSTRUCTED_SIZE
    /\ h.target_load_address = APPLICATION_START_ADDRESS
    /\ h.hash_algorithm = 1 /\ h.signature_algorithm = 1
    /\ h.signature_size = FW_SIGNATURE_SIZE /\ h.reserved = 0

ExtensionLayout ==
    [extension_magic |-> <<0, 4>>, extension_version |-> <<4, 2>>,
     extension_size |-> <<6, 2>>, key_id |-> <<8, 4>>, base_image_size |-> <<12, 4>>,
     target_image_crc32 |-> <<16, 4>>]

ParseExtension(x) ==
    /\ x.extension_magic = FW_CONTAINER_EXTENSION_MAGIC /\ x.extension_version = 1
    /\ x.extension_size = 20 /\ x.key_id # 0

FirmwareContainer_HashIsZero(raw, offset) == \A i \in 1..32 : raw[offset + i] = 0

(* The base fields of a full image are empty, those of a delta are not.    *)
BaseFits(raw, h, x) ==
    IF h.image_type = FW_IMAGE_FULL
      THEN /\ h.base_version = 0 /\ x.base_image_size = 0
           /\ FirmwareContainer_HashIsZero(raw, 44)
           /\ h.payload_size = h.target_image_size
      ELSE /\ h.base_version # 0 /\ x.base_image_size \in 8..APPLICATION_MAX_SIZE
           /\ ~FirmwareContainer_HashIsZero(raw, 44)

TotalSize(total, artifact_size) == total < U32 /\ artifact_size \in {0, total}

FirmwareContainer_Parse(raw, artifact_size) ==
    LET h == Get(FixedLayout, raw)
        x == Get(ExtensionLayout, SubSeq(raw, FW_CONTAINER_FIXED_HEADER_SIZE + 1, Len(raw)))
        total == h.header_size + h.payload_size + h.signature_size
    IN  IF /\ ParseFixed(h) /\ ParseExtension(x) /\ BaseFits(raw, h, x)
           /\ TotalSize(total, artifact_size)
          THEN [ok |-> TRUE, header |-> h, extension |-> x,
                payload_offset |-> h.header_size,
                signature_offset |-> h.header_size + h.payload_size, total_size |-> total]
          ELSE Refused

(* DeltaPatch_ParseHeader, the legacy header.                              *)
PatchLayout ==
    [magic |-> <<0, 4>>, format_version |-> <<4, 2>>, header_size |-> <<6, 2>>,
     base_version |-> <<8, 4>>, target_version |-> <<12, 4>>, base_image_size |-> <<16, 4>>,
     patch_size |-> <<20, 4>>, target_image_size |-> <<24, 4>>,
     target_load_address |-> <<28, 4>>, base_image_crc32 |-> <<32, 4>>,
     target_image_crc32 |-> <<36, 4>>, patch_crc32 |-> <<40, 4>>]

DeltaPatch_HeaderCrc32(raw) == Crc32(SubSeq(raw, 1, 44))

DeltaPatch_ParseHeader(raw, artifact_size) ==
    LET h == Get(PatchLayout, raw)
    IN  IF /\ h.magic = DELTA_PATCH_MAGIC /\ h.format_version = 1
           /\ h.header_size = DELTA_PATCH_HEADER_SIZE
           /\ h.base_version # 0 /\ h.target_version > h.base_version
           /\ h.base_image_size \in 8..APPLICATION_MAX_SIZE
           /\ h.patch_size \in 1..(EXT_INCOMING_SIZE - DELTA_PATCH_HEADER_SIZE)
           /\ h.target_image_size \in 8..APPLICATION_MAX_SIZE
           /\ h.target_image_size <= EXT_RECONSTRUCTED_SIZE
           /\ h.target_load_address = APPLICATION_START_ADDRESS
           /\ artifact_size \in {0, DELTA_PATCH_HEADER_SIZE + h.patch_size}
           /\ GetLe(raw, 44, 4) = DeltaPatch_HeaderCrc32(raw)
          THEN [ok |-> TRUE, header |-> h] ELSE Refused

-----------------------------------------------------------------------------
(* The gateway: SecureContainerMeta_Parse.  The type is cut to one byte,   *)
(* and the sum of the sizes is formed in 64 bits.                          *)

MetaLayout ==
    [image_type |-> <<16, 1>>, base_version |-> <<24, 4>>, target_version |-> <<28, 4>>,
     payload_size |-> <<32, 4>>, target_size |-> <<36, 4>>, key_id |-> <<128, 4>>]

SecureContainerMeta_HasMagic(raw) == Len(raw) >= 4 /\ GetLe(raw, 0, 4) = FW_CONTAINER_MAGIC

MetaConstants(raw) ==
    /\ SecureContainerMeta_HasMagic(raw) /\ GetLe(raw, 4, 2) = 1
    /\ GetLe(raw, 6, 2) = FW_CONTAINER_HEADER_SIZE
    /\ GetLe(raw, 8, 4) = PRODUCT_ID /\ GetLe(raw, 12, 4) = 1
    /\ GetLe(raw, 120, 4) = FW_CONTAINER_EXTENSION_MAGIC
    /\ GetLe(raw, 124, 2) = 1 /\ GetLe(raw, 126, 2) = 20
    /\ GetLe(raw, 112, 2) = 1 /\ GetLe(raw, 114, 2) = 1
    /\ GetLe(raw, 40, 4) = APPLICATION_START_ADDRESS
    /\ GetLe(raw, 116, 2) = FW_SIGNATURE_SIZE

MetaBase(raw, m) ==
    IF m.image_type = FW_IMAGE_FULL
      THEN m.base_version = 0 /\ GetLe(raw, 132, 4) = 0
      ELSE m.base_version # 0 /\ m.target_version > m.base_version /\ GetLe(raw, 132, 4) >= 8

(* Mutant: the header is left out of the total.                            *)
MetaTotalWithoutHeader(m, size) == m.payload_size + FW_SIGNATURE_SIZE = size

MetaTotal(m, size) == FW_CONTAINER_HEADER_SIZE + m.payload_size + FW_SIGNATURE_SIZE = size

SecureContainerMeta_Parse(raw, container_size) ==
    LET m == Get(MetaLayout, raw)
    IN  IF /\ Len(raw) >= FW_CONTAINER_HEADER_SIZE
           /\ MetaConstants(raw) /\ m.image_type \in {FW_IMAGE_FULL, FW_IMAGE_DELTA}
           /\ m.target_version # 0 /\ MetaBase(raw, m) /\ m.key_id # 0
           /\ MetaTotal(m, container_size)
          THEN [ok |-> TRUE, meta |-> m] ELSE Refused

-----------------------------------------------------------------------------
(* An artifact, and what became of its header under way: another producer  *)
(* or another release of the tools may put anything into one field.        *)

VARIABLES kind, header, size, altered

vars == <<kind, header, size, altered>>

Init == kind = "NONE" /\ header = <<>> /\ size = 0 /\ altered = FALSE

Sizes == {8, APPLICATION_MAX_SIZE}
Versions == {<<1, 2>>, <<2, BYTE ^ 3 + 1>>}

BuildContainer ==
    /\ kind = "NONE" /\ kind' = "SDOT" /\ altered' = FALSE
    /\ \E full \in BOOLEAN, v \in Versions, target \in Sizes, base \in Sizes, key \in {1, U32 - 1},
          payload \in {1, EXT_INCOMING_SIZE - 204, EXT_INCOMING_SIZE - 203} :
         LET h == pack_header(full, v[1], v[2], payload, target, base, key)
         IN  /\ header' = Put(ToolHeader, FW_CONTAINER_HEADER_SIZE, h)
             /\ size' = FW_CONTAINER_HEADER_SIZE + h.payload_size + FW_SIGNATURE_SIZE

BuildPatch ==
    /\ kind = "NONE" /\ kind' = "D13P" /\ altered' = FALSE
    /\ \E v \in Versions, target \in Sizes, base \in Sizes,
          patch \in {1, EXT_INCOMING_SIZE - 48, EXT_INCOMING_SIZE - 47} :
         LET s == Put(ToolPatchHeader, 44, build_header(v[1], v[2], base, patch, target))
         IN  header' = s \o CrcBytes(s) /\ size' = DELTA_PATCH_HEADER_SIZE + patch

SetField(layout, f, value) ==
    [i \in DOMAIN header |->
       IF layout[f][1] < i /\ i <= layout[f][1] + layout[f][2]
         THEN PutLe(value, i - 1 - layout[f][1]) ELSE header[i]]

AlterField ==
    /\ kind = "SDOT" /\ ~altered /\ altered' = TRUE
    /\ \E f \in DOMAIN ToolHeader, w \in Words :
         /\ header' = SetField(ToolHeader, f, w) /\ header' # header
    /\ UNCHANGED <<kind, size>>

AlterPatch ==
    /\ kind = "D13P" /\ ~altered /\ altered' = TRUE
    /\ \E i \in DOMAIN header : header' = [header EXCEPT ![i] = (@ + 1) % BYTE]
    /\ UNCHANGED <<kind, size>>

Truncate ==
    /\ kind # "NONE" /\ ~altered /\ altered' = TRUE
    /\ size' = size - 1
    /\ UNCHANGED <<kind, header>>

Next == BuildContainer \/ BuildPatch \/ AlterField \/ AlterPatch \/ Truncate

Spec == Init /\ [][Next]_vars

-----------------------------------------------------------------------------
NodeReads ==
    IF kind = "SDOT" THEN FirmwareContainer_Parse(header, size)
    ELSE DeltaPatch_ParseHeader(header, size)

GatewayReads == SecureContainerMeta_Parse(header, size)

(* What the release tools build the gateway accepts, and the node does     *)
(* whenever it fits the incoming partition; both read what was packed.     *)
BuiltIsUsable ==
    (kind # "NONE" /\ ~altered) =>
      /\ NodeReads.ok <=> size <= EXT_INCOMING_SIZE
      /\ kind = "SDOT" => GatewayReads.ok
      /\ (kind = "D13P" /\ NodeReads.ok) =>
           \A f \in DOMAIN ToolPatchHeader :
             NodeReads.header[f] = GetLe(header, ToolPatchHeader[f][1], ToolPatchHeader[f][2])

(* The gateway forwards every container the node would take: whatever one  *)
(* field holds, if the node's parser and its rule that an update has a     *)
(* higher version than its base (ValidateMetadataPolicy) accept the        *)
(* header, so does the gateway's, and both mean the same artifact.         *)
GatewayForwards ==
    (kind = "SDOT" /\ NodeReads.ok) =>
      LET h == NodeReads.header
          m == GatewayReads.meta
      IN  h.target_version > h.base_version =>
            /\ GatewayReads.ok
            /\ m.image_type = h.image_type
            /\ m.base_version = h.base_version /\ m.target_version = h.target_version
            /\ m.payload_size = h.payload_size /\ m.target_size = h.target_image_size
            /\ m.key_id = NodeReads.extension.key_id

(* Regions the node goes on to read lie inside the artifact, do not        *)
(* overlap and leave nothing over; an image never exceeds its partition.   *)
RegionsFit ==
    (kind # "NONE" /\ NodeReads.ok) =>
      /\ size <= EXT_INCOMING_SIZE
      /\ NodeReads.header.target_image_size <= APPLICATION_MAX_SIZE
      /\ kind = "SDOT" =>
           /\ NodeReads.payload_offset = Len(header)
           /\ NodeReads.signature_offset = NodeReads.payload_offset
                                             + NodeReads.header.payload_size
           /\ NodeReads.signature_offset + FW_SIGNATURE_SIZE = size
      /\ kind = "D13P" => ~altered

=============================================================================
