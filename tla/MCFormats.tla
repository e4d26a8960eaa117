------------------------------ MODULE MCFormats ------------------------------
(***************************************************************************)
(* The algorithms on bytes and words, side by side for TLC: the framing    *)
(* and the packets of the UART line, the headers of artifacts, the delta   *)
(* decoder and its tool, checksums, hash and signature.  Each has its own  *)
(* variables and inputs; a behaviour feeds one of them.                    *)
(***************************************************************************)
EXTENDS Integers

VARIABLES
    unit,                                                  \* the one that is fed
    packet,                                                \* UartFraming, COBS
    line, faults, g_rx_buffer, g_rx_head, g_rx_tail,       \* UartFraming, ring
      overflowed, pc, tail, byte, parser, accepted, hurt,
    kind, request, body, wire, damaged,                    \* WireFormat
    artifact, header, size, altered,                       \* ContainerFormat
    patch, position, wanted, ops,                          \* Janpatch
    modulus, left, right,                                  \* EcdsaP256, arithmetic
    what, key, other, digest, r, s,                        \* EcdsaP256, signatures
    message, running, copy, copyCrc,                       \* Digests, CRC-32
    step, state, block, w, v, i,                           \* Digests, one block
    context, input, data, hash                             \* Digests, a stream

Cobs == INSTANCE UartFraming WITH
    FULL <- 4, Data <- {0, 1, 4}, MaxInput <- 7, ENCODED <- 11, RAW <- 8,
    Frames <- <<>>, RING <- 4, MaxLineFaults <- 0

(* Two packets: one with a full COBS block, and an empty one behind it.    *)
Framing == INSTANCE UartFraming WITH
    Frames <- << <<1, 1, 3>>, <<0, 2>> >>,
    RING <- 4, ENCODED <- 6, RAW <- 3, FULL <- 4, MaxLineFaults <- 1,
    Data <- {0}, MaxInput <- 0

Wire == INSTANCE WireFormat WITH
    BYTE <- 12, Words <- {0, 13, 20735}, MAX_PAYLOAD <- 40, MAGIC <- 130, packet <- request

Container == INSTANCE ContainerFormat WITH
    BYTE <- 12, Words <- {0, 1, 2, 7, 20, 64, 140, 145, 1000, 1729, 20735},
    EXT_INCOMING_SIZE <- 1500, APPLICATION_MAX_SIZE <- 1000, EXT_RECONSTRUCTED_SIZE <- 1200,
    APPLICATION_START_ADDRESS <- 13800, FW_CONTAINER_MAGIC <- 9001,
    FW_CONTAINER_EXTENSION_MAGIC <- 9002, DELTA_PATCH_MAGIC <- 9003, PRODUCT_ID <- 1001,
    kind <- artifact

(* Patches that the tool makes of a base image with escapes and opcodes in *)
(* it, long enough for lengths of one, two and three bytes, with literals  *)
(* longer than the buffer; and any short stream (2..7: opcodes, escape).   *)
Tool == INSTANCE Janpatch WITH
    BYTE <- 10, Base <- <<1, 7, 3, 7, 7, 0, 1, 2, 3, 4, 5, 6, 7, 8, 9, 1, 2, 3, 4>>,
    TARGET_MAX <- 24, BUFFER <- 2, Symbols <- {}, MaxStream <- 0,
    Lengths <- {1, 6, 7, 16, 17}, MaxOps <- 3,
    Literals <- {<<>>, <<1>>, <<7>>, <<7, 3>>, <<4, 7>>, <<7, 7, 1>>, <<0, 6, 7, 5>>}

Stream == INSTANCE Janpatch WITH
    BYTE <- 10, Base <- <<1, 7, 2>>, TARGET_MAX <- 4, BUFFER <- 2, Symbols <- 1..8,
    MaxStream <- 5, Lengths <- {}, Literals <- {}, MaxOps <- 0

(* A curve over the field of 41 elements, of order 37.                     *)
Ecdsa == INSTANCE EcdsaP256 WITH
    LIMB <- 2, LIMBS <- 3, Moduli <- {32, 37, 41, 61, 63},
    P <- 41, N <- 37, B <- 20, GX <- 0, GY <- 15,
    Scales <- {1, 7, 40}, Digests <- {37, 63}, SValues <- {0, 5, 36, 37}

Digest == INSTANCE Digests WITH
    CrcLetters <- {0, 255}, MaxMessage <- 5, Patterns <- {1, 128, 90},
    SHA256_BLOCK_SIZE <- 4, LENGTH_SIZE <- 2, StreamLetters <- {0, 129}, MaxData <- 9,
    pc <- step, digest <- hash

ASSUME FormatsAssumption ==
    /\ Cobs!CobsAssumption /\ Framing!FramingAssumption /\ Wire!WireAssumption
    /\ Container!ContainerAssumption /\ Tool!JanpatchAssumption /\ Stream!JanpatchAssumption
    /\ Ecdsa!CurveAssumption /\ Ecdsa!GroupAssumption /\ Digest!DigestsAssumption

-----------------------------------------------------------------------------
framingVars == <<line, faults, g_rx_buffer, g_rx_head, g_rx_tail, overflowed, pc, tail, byte,
                 parser, accepted, hurt>>
wireVars == <<kind, request, body, wire, damaged>>
containerVars == <<artifact, header, size, altered>>
patchVars == <<patch, position, wanted, ops>>
arithmeticVars == <<modulus, left, right>>
curveVars == <<what, key, other, digest, r, s>>
crcVars == <<message, running, copy, copyCrc>>
transformVars == <<step, state, block, w, v, i>>
streamVars == <<context, input, data, hash>>

formatsVars == <<unit, packet, framingVars, wireVars, containerVars, patchVars, arithmeticVars,
                 curveVars, crcVars, transformVars, streamVars>>

Units == {"cobs", "framing", "wire", "container", "tool", "stream", "arithmetic", "curve",
          "crc", "transform", "sha"}

FormatsInit ==
    /\ unit \in Units
    /\ Cobs!CobsInit /\ Framing!Init /\ Wire!Init /\ Container!Init /\ Tool!Init
    /\ Ecdsa!ArithmeticInit /\ Ecdsa!CurveInit
    /\ Digest!CrcInit /\ Digest!TransformInit /\ Digest!StreamInit
    /\ unit # "arithmetic" => modulus = 37
    /\ unit # "curve" => key = <<0, 15>>

Others(u) ==
    /\ IF u = "cobs" THEN TRUE ELSE UNCHANGED packet
    /\ IF u = "framing" THEN TRUE ELSE UNCHANGED framingVars
    /\ IF u = "wire" THEN TRUE ELSE UNCHANGED wireVars
    /\ IF u = "container" THEN TRUE ELSE UNCHANGED containerVars
    /\ IF u \in {"tool", "stream"} THEN TRUE ELSE UNCHANGED patchVars
    /\ IF u = "arithmetic" THEN TRUE ELSE UNCHANGED arithmeticVars
    /\ IF u = "curve" THEN TRUE ELSE UNCHANGED curveVars
    /\ IF u = "crc" THEN TRUE ELSE UNCHANGED crcVars
    /\ IF u = "transform" THEN TRUE ELSE UNCHANGED transformVars
    /\ IF u = "sha" THEN TRUE ELSE UNCHANGED streamVars
    /\ UNCHANGED unit

FormatsNext ==
    \/ unit = "cobs" /\ Cobs!CobsNext /\ Others("cobs")
    \/ unit = "framing" /\ Framing!Next /\ Others("framing")
    \/ unit = "wire" /\ Wire!Next /\ Others("wire")
    \/ unit = "container" /\ Container!Next /\ Others("container")
    \/ unit = "tool" /\ Tool!GenerateEqual /\ Others("tool")
    \/ unit = "tool" /\ Tool!GenerateGap /\ Others("tool")
    \/ unit = "stream" /\ Stream!AnyByte /\ Others("stream")
    \/ unit = "arithmetic" /\ Ecdsa!ArithmeticNext /\ Others("arithmetic")
    \/ unit = "curve" /\ Ecdsa!CurveNext /\ Others("curve")
    \/ unit = "crc" /\ Digest!CrcNext /\ Others("crc")
    \/ unit = "transform" /\ Digest!TransformNext /\ Others("transform")
    \/ unit = "sha" /\ Digest!StreamNext /\ Others("sha")

FormatsSpec == FormatsInit /\ [][FormatsNext]_formatsVars

-----------------------------------------------------------------------------
(* What is sent arrives.  COBS: one end decodes what the other encoded, in *)
(* buffers of their sizes, no frame contains the delimiter, a buffer is    *)
(* never overrun and refused only when it is too small.  The ring between  *)
(* interrupt and main loop keeps the order of bytes, and line faults and   *)
(* overflows cost only the frames they damage (cobs.c, uart.c,             *)
(* ota_parser.c, ota_agent.c, uart_ota_protocol.c).                        *)
FramesArrive ==
    /\ unit = "cobs" => Cobs!RoundTrip /\ Cobs!NoDelimiterInside /\ Cobs!ExactCapacity
    /\ unit = "framing" => /\ Framing!TypeOK /\ Framing!RingIsFifo /\ Framing!TakesTheOldest
                           /\ Framing!UndamagedAccepted

(* Every side reads what another wrote.  Packets and answers are           *)
(* understood, damaged ones refused (ota_packet.c, ota_response.c,         *)
(* uart_ota_protocol.c); tools, gateway and node agree on the headers of   *)
(* artifacts, and the regions that a header names fit                      *)
(* (secure_container.py, secure_container_meta.c, firmware_container.c,    *)
(* delta_patch.c).                                                         *)
SidesAgree ==
    /\ unit = "wire" => Wire!Understood /\ Wire!DamageRefused
    /\ unit = "container" =>
          Container!BuiltIsUsable /\ Container!GatewayForwards /\ Container!RegionsFit

(* The bootloader rebuilds the image the tool diffed, and on any stream at *)
(* all it stays in bounds and agrees with the tool (janpatch_port.c,       *)
(* jojodiff_patch.py).                                                     *)
PatchRebuilds ==
    /\ unit = "tool" => Tool!RebuildsTarget
    /\ unit = "stream" => Stream!StaysInBounds /\ Stream!AgreesWithTool

(* The arithmetic on words is that of the integers and that on points that *)
(* of the group; a signature is VALID exactly when it is genuine, and what *)
(* the release tool signs is accepted (ecdsa_p256.c).                      *)
SignaturesAreExact ==
    /\ unit = "arithmetic" => Ecdsa!ArithmeticExact /\ Ecdsa!InverseExact
    /\ unit = "curve" => Ecdsa!GroupLaw /\ Ecdsa!MatchesDefinition /\ Ecdsa!SignedIsAccepted

(* The CRC-32 has its known value and notices bursts (crc32.c); SHA-256    *)
(* has its known digest, whatever pieces the bytes come in (sha256.c).     *)
DigestsAreExact ==
    /\ unit = "crc" => Digest!KnownValue /\ Digest!BurstNoticed
    /\ unit = "transform" => Digest!KnownDigest
    /\ unit = "sha" => Digest!DigestIsStandard /\ Digest!NothingLost

=============================================================================
