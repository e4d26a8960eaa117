------------------------------ MODULE UartLink ------------------------------
(***************************************************************************)
(* The UART line between the gateway and the node: the packets of the OTA  *)
(* protocol and the two byte streams, as queues of frames.                 *)
(*                                                                         *)
(* COBS framing and the CRC of a frame are exact, so that a damaged frame  *)
(* is never taken for another one: it is dropped by the parser or, when    *)
(* only its CRC fails, answered with a NACK.  Frames are not reordered and *)
(* not duplicated by the line; duplicates come from retransmission.  Until *)
(* the environment calms down any frame may be lost: on the line, in a     *)
(* receive buffer that is full, or because nobody reads it.                *)
(***************************************************************************)
EXTENDS Integers, Sequences, FiniteSets

CONSTANTS
    Catalogues,      \* what the server may publish: sets of artifacts
    MTU,             \* OTA_MAX_PAYLOAD_SIZE, bytes of a DATA packet
    SECTOR,          \* EXT_FLASH_SECTOR_SIZE
    INCOMING_SIZE,   \* EXT_INCOMING_SIZE
    MaxLag           \* response timeouts within which the node takes up a request

Blank == "blank"     \* an erased byte, or one that is only half programmed
Garbage == "garbage" \* a byte of a sector whose erase was cut off

(* `crc` stands for the contents: flash holds, byte by byte, the contents  *)
(* the byte belongs to.  A full image has base_version 0.                  *)
Artifact == [update_id : Nat \ {0}, target_version : Nat \ {0}, base_version : Nat,
             size : 1..INCOMING_SIZE, crc : STRING \ {Blank, Garbage}]

ASSUME GeometryAssumption ==
    /\ MTU \in Nat \ {0} /\ SECTOR \in Nat \ {0} /\ SECTOR % MTU = 0
    /\ INCOMING_SIZE \in Nat \ {0} /\ INCOMING_SIZE % SECTOR = 0

(* RESPONSE TIME.  The client sends at most one frame per response timeout *)
(* of 1.5 s without reading an answer.  No request waits longer than       *)
(* MaxLag of them: the slowest handlers (DATA with a sector erase and a    *)
(* checkpoint, FINISH with the CRC of 128 KiB) take about one second while *)
(* the external flash keeps to its erase time or fails at once.  A device  *)
(* that stays busy up to the driver's own limit of 30 million polls        *)
(* (spi_flash.c) is outside this assumption.  ResponseTimeout uses it.     *)
ASSUME ResponseTimeAssumption == MaxLag \in Nat \ {0}

ASSUME CataloguesAssumption ==
    \A a \in UNION Catalogues :
       /\ {a.update_id, a.target_version} \subseteq Nat \ {0}
       /\ a.base_version \in Nat /\ a.size \in 1..INCOMING_SIZE
       /\ a.crc \notin {Blank, Garbage}

NoArtifact == [update_id |-> 0, target_version |-> 0, base_version |-> 0,
               size |-> 0, crc |-> Blank]

VARIABLES
    boot,      \* what the node runs: "app", or "boot", which has no UART service
    toNode,    \* frames in the node's receive buffer
    toClient,  \* frames in the gateway's receive buffer
    stable,    \* environment: no further fault, loss or power cut
    catalogue  \* environment: the artifacts the server publishes

world == <<stable, catalogue>>

(* A request: a START carries the description of an artifact, a DATA       *)
(* `length` of its bytes from `offset`.                                    *)
Packet(command, id, offset, sequence, length, a) ==
    [command |-> command, update_id |-> id, offset |-> offset,
     sequence |-> sequence, length |-> length, artifact |-> a]

NoPacket == Packet("NONE", 0, 0, 0, 0, NoArtifact)

(* What may become of the queue when p is sent.                            *)
Sent(queue, p) ==
    {Append(queue, p)} \cup (IF stable THEN {} ELSE {queue})

=============================================================================
