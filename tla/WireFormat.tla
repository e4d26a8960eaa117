------------------------------ MODULE WireFormat ------------------------------
(***************************************************************************)
(* The bytes that gateway and node exchange.  Each side has its own code   *)
(* for the packet (ota_packet.c, uart_ota_protocol.c), the answers         *)
(* (ota_response.c, UartOta_ParseAck, UartOta_ParseHello) and the START    *)
(* payload (UartOta_BuildStartPayload, ProcessStart); the layouts below    *)
(* are read off each of them.  Framing is in UartFraming.                  *)
(***************************************************************************)
EXTENDS LittleEndian

CONSTANTS
    MAX_PAYLOAD,  \* OTA_MAX_PAYLOAD_SIZE, UART_OTA_MAX_PAYLOAD
    MAGIC         \* OTA_PACKET_MAGIC, UART_OTA_MAGIC

(* What the constants have to satisfy.                                     *)
WireAssumption ==
    ByteAssumption /\ MAX_PAYLOAD \in 37..(BYTE * BYTE - 1) /\ MAGIC \in 1..(BYTE * BYTE - 1)

HEADER_SIZE == 16
CRC_SIZE == 4
PROTOCOL_VERSION == 1
STATUS_OK == 0
HELLO == 1
START == 2
DATA == 3
ACK == 8
NACK == 9

Refused == [ok |-> FALSE]

CrcOk(raw, n) == GetLe(raw, HEADER_SIZE + n, CRC_SIZE) = Crc32(SubSeq(raw, 1, HEADER_SIZE + n))

(* The checks of both deserializers: length, magic, version, CRC.          *)
WellFormed(raw, h) ==
    /\ h.magic = MAGIC /\ h.protocol_version = PROTOCOL_VERSION
    /\ h.payload_length <= MAX_PAYLOAD
    /\ Len(raw) = HEADER_SIZE + h.payload_length + CRC_SIZE
    /\ CrcOk(raw, h.payload_length)

Payload(raw, h) == SubSeq(raw, HEADER_SIZE + 1, HEADER_SIZE + h.payload_length)

-----------------------------------------------------------------------------
(* The packet, on the node ...                                             *)

NodePacket ==
    [magic |-> <<0, 2>>, protocol_version |-> <<2, 1>>, command |-> <<3, 1>>,
     update_id |-> <<4, 4>>, offset |-> <<8, 4>>, sequence |-> <<12, 2>>,
     payload_length |-> <<14, 2>>]

OtaPacket_Serialize(header, payload) ==
    LET s == Put(NodePacket, HEADER_SIZE, header) \o payload IN s \o CrcBytes(s)

OtaPacket_Deserialize(raw) ==
    IF Len(raw) < HEADER_SIZE + CRC_SIZE THEN Refused
    ELSE LET h == Get(NodePacket, raw)
         IN  IF WellFormed(raw, h)
               THEN [ok |-> TRUE, header |-> h, payload |-> Payload(raw, h)] ELSE Refused

(* ... and on the gateway, whose packet has no magic and no version: they  *)
(* are written and checked as constants.                                   *)
GatewayPacket ==
    [magic |-> <<0, 2>>, protocol_version |-> <<2, 1>>, command |-> <<3, 1>>,
     update_id |-> <<4, 4>>, offset |-> <<8, 4>>, sequence |-> <<12, 2>>,
     payload_length |-> <<14, 2>>]

UartOta_Serialize(packet, payload) ==
    LET h == [magic |-> MAGIC, protocol_version |-> PROTOCOL_VERSION] @@ packet
        s == Put(GatewayPacket, HEADER_SIZE, h) \o payload
    IN  s \o CrcBytes(s)

UartOta_Deserialize(raw) ==
    IF Len(raw) < HEADER_SIZE + CRC_SIZE THEN Refused
    ELSE LET h == Get(GatewayPacket, raw)
         IN  IF WellFormed(raw, h)
               THEN [ok |-> TRUE,
                     header |-> [command |-> h.command, update_id |-> h.update_id,
                                 offset |-> h.offset, sequence |-> h.sequence,
                                 payload_length |-> h.payload_length],
                     payload |-> Payload(raw, h)]
               ELSE Refused

-----------------------------------------------------------------------------
(* Answers: InitResponse and BuildStatus for ACK and NACK ...              *)

InitResponse(request, command, info, length) ==
    [magic |-> MAGIC, protocol_version |-> PROTOCOL_VERSION, command |-> command,
     update_id |-> request.update_id, offset |-> info.next_expected_offset,
     sequence |-> request.sequence, payload_length |-> length]

ACK_SIZE == 20

StatusLayout ==
    [status |-> <<0, 1>>, update_state |-> <<1, 1>>, sequence |-> <<2, 2>>,
     next_expected_offset |-> <<4, 4>>, received_size |-> <<8, 4>>,
     expected_size |-> <<12, 4>>, last_error_detail |-> <<16, 4>>]

BuildStatus(request, info) ==
    [header |-> InitResponse(request, IF info.status = STATUS_OK THEN ACK ELSE NACK,
                             info, ACK_SIZE),
     payload |-> Put(StatusLayout, ACK_SIZE, [info EXCEPT !.sequence = request.sequence])]

(* ... and UartOta_ParseAck.                                               *)
AckLayout ==
    [status |-> <<0, 1>>, update_state |-> <<1, 1>>, acknowledged_sequence |-> <<2, 2>>,
     next_expected_offset |-> <<4, 4>>, received_size |-> <<8, 4>>,
     expected_size |-> <<12, 4>>, last_error_detail |-> <<16, 4>>]

UartOta_ParseAck(p) ==
    IF p.ok /\ p.header.command \in {ACK, NACK} /\ p.header.payload_length = ACK_SIZE
      THEN Get(AckLayout, p.payload) ELSE Refused

(* The answer to HELLO, QUERY and STATUS; two bytes at 23 are reserved.    *)
HELLO_SIZE == 37

HelloQuery ==
    [protocol_version |-> <<0, 1>>, bootloader_version |-> <<1, 4>>,
     application_version |-> <<5, 4>>, product_id |-> <<9, 4>>,
     hardware_revision |-> <<13, 4>>, capability_flags |-> <<17, 4>>,
     update_state |-> <<21, 1>>, last_status |-> <<22, 1>>,
     active_update_id |-> <<25, 4>>, next_expected_offset |-> <<29, 4>>,
     expected_size |-> <<33, 4>>]

OtaResponse_BuildHelloQuery(request, info) ==
    [header |-> InitResponse(request, ACK, info, HELLO_SIZE),
     payload |-> Put(HelloQuery, HELLO_SIZE, info)]

HelloLayout ==
    [protocol_version |-> <<0, 1>>, bootloader_version |-> <<1, 4>>,
     application_version |-> <<5, 4>>, product_id |-> <<9, 4>>,
     hardware_revision |-> <<13, 4>>, capability_flags |-> <<17, 4>>,
     update_state |-> <<21, 1>>, last_status |-> <<22, 1>>,
     active_update_id |-> <<25, 4>>, next_expected_offset |-> <<29, 4>>,
     expected_artifact_size |-> <<33, 4>>]

UartOta_ParseHello(p) ==
    IF p.ok /\ p.header.command = ACK /\ p.header.payload_length = HELLO_SIZE
      THEN Get(HelloLayout, p.payload) ELSE Refused

(* The START payload: UartOta_BuildStartPayload and ProcessStart.          *)
START_SIZE == 24
CONTAINER_FORMAT == 1

StartPayload ==
    [artifact_type |-> <<0, 1>>, container_version |-> <<2, 2>>, base_version |-> <<4, 4>>,
     target_version |-> <<8, 4>>, artifact_size |-> <<12, 4>>,
     artifact_crc32 |-> <<16, 4>>, container_header_size |-> <<20, 4>>]

UartOta_BuildStartPayload(v) ==
    Put(StartPayload, START_SIZE, [v EXCEPT !.container_version = CONTAINER_FORMAT])

ProcessStart ==
    [artifact_type |-> <<0, 1>>, container_version |-> <<2, 2>>, base_version |-> <<4, 4>>,
     target_version |-> <<8, 4>>, artifact_size |-> <<12, 4>>,
     artifact_crc32 |-> <<16, 4>>, container_header_size |-> <<20, 4>>]

-----------------------------------------------------------------------------
(* One message at a time: what its sender meant and the bytes it sent.     *)

VARIABLES kind, packet, body, wire, damaged

vars == <<kind, packet, body, wire, damaged>>

PacketLayout ==
    [command |-> <<3, 1>>, update_id |-> <<4, 4>>, offset |-> <<8, 4>>,
     sequence |-> <<12, 2>>, payload_length |-> <<14, 2>>]

Header(h, command, n) == [h EXCEPT !.command = command, !.payload_length = n]

Packets(command, n) == {Header(h, command, n) : h \in Fields(PacketLayout)}

(* A header and a payload, one of them as usual.                           *)
Messages(command, n, layout) ==
    (Packets(command, n) \X {Usual(layout)})
      \cup ({Header(Usual(PacketLayout), command, n)} \X Fields(layout))

Init == kind = "NONE" /\ packet = Refused /\ body = <<>> /\ wire = <<>> /\ damaged = FALSE

Message(k) == kind = "NONE" /\ kind' = k /\ damaged' = FALSE

(* DATA, with payloads of any length up to the maximum.                    *)
GatewaySendsData ==
    /\ Message("DATA")
    /\ \E n \in {0, 1, 2, MAX_PAYLOAD} : \E p \in Packets(DATA, n) :
         /\ packet' = p /\ body' = [i \in 1..n |-> (i * 5) % BYTE]
         /\ wire' = UartOta_Serialize(p, body')

GatewaySendsStart ==
    /\ Message("START")
    /\ \E <<p, v>> \in Messages(START, START_SIZE, StartPayload) :
         /\ packet' = p /\ body' = [v EXCEPT !.container_version = CONTAINER_FORMAT]
         /\ wire' = UartOta_Serialize(p, UartOta_BuildStartPayload(v))

(* The node's answers, to a request it has received.                       *)
NodeAnswers ==
    /\ Message("ACK")
    /\ \E <<p, v>> \in Messages(DATA, 1, StatusLayout) :
         /\ packet' = p /\ body' = v
         /\ wire' = OtaPacket_Serialize(BuildStatus(p, v).header, BuildStatus(p, v).payload)

NodeSaysHello ==
    /\ Message("HELLO")
    /\ \E <<p, v>> \in Messages(HELLO, 0, HelloQuery) :
         LET r == OtaResponse_BuildHelloQuery(p, v)
         IN  /\ packet' = p /\ body' = v
             /\ wire' = OtaPacket_Serialize(r.header, r.payload)

(* A byte changes on the line; the framing lost one or ran on.             *)
Damage ==
    /\ kind # "NONE" /\ ~damaged /\ damaged' = TRUE
    /\ \/ \E i \in DOMAIN wire : wire' = [wire EXCEPT ![i] = (@ + 1) % BYTE]
       \/ wire' = SubSeq(wire, 1, Len(wire) - 1)
       \/ wire' = Append(wire, 0)
    /\ UNCHANGED <<kind, packet, body>>

Next == GatewaySendsData \/ GatewaySendsStart \/ NodeAnswers \/ NodeSaysHello \/ Damage

Spec == Init /\ [][Next]_vars

-----------------------------------------------------------------------------
NodeReads == OtaPacket_Deserialize(wire)
GatewayReads == UartOta_Deserialize(wire)

(* A request reaches the node as the gateway meant it ...                  *)
RequestUnderstood ==
    kind \in {"DATA", "START"} =>
      /\ NodeReads.ok
      /\ \A f \in DOMAIN packet : NodeReads.header[f] = packet[f]
      /\ kind = "DATA" => NodeReads.payload = body
      /\ kind = "START" => Get(ProcessStart, NodeReads.payload) = body

(* ... and an answer the gateway as the node meant it, for the request it  *)
(* answers.                                                                *)
AnswerUnderstood ==
    /\ kind = "ACK" =>
         LET a == UartOta_ParseAck(GatewayReads)
         IN  /\ GatewayReads.header.sequence = packet.sequence
             /\ GatewayReads.header.command = ACK <=> a.status = STATUS_OK
             /\ a.acknowledged_sequence = packet.sequence
             /\ \A f \in DOMAIN a \ {"acknowledged_sequence"} : a[f] = body[f]
    /\ kind = "HELLO" =>
         LET a == UartOta_ParseHello(GatewayReads)
         IN  /\ a.expected_artifact_size = body.expected_size
             /\ \A f \in DOMAIN a \ {"expected_artifact_size"} : a[f] = body[f]
             /\ UartOta_ParseAck(GatewayReads) = Refused

(* What one side writes the other reads: every field of header and         *)
(* payload, at the limits of its width, though no code is shared           *)
(* (uart_ota_protocol.c; ota_packet.c, ota_response.c, ProcessStart).      *)
Understood == ~damaged => RequestUnderstood /\ AnswerUnderstood

(* A packet with one changed, missing or additional byte is refused by     *)
(* both deserializers, the length field and the CRC included.              *)
DamageRefused == damaged => NodeReads = Refused /\ GatewayReads = Refused

=============================================================================
