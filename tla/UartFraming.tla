---------------------------- MODULE UartFraming -----------------------------
(***************************************************************************)
(* How the node receives: USART1_IRQHandler puts bytes into a ring buffer, *)
(* the main loop (OtaAgent_Process) takes them out and feeds the parser,   *)
(* which turns what lies between two delimiters into a packet.  The        *)
(* interrupt may come between any two accesses of Uart_ReadByte to the     *)
(* shared indices, and while a packet is being processed.                  *)
(*                                                                         *)
(* COBS is the same on both ends of the line (cobs.c on the node,          *)
(* UartOta_CobsEncode and UartOta_CobsDecode on the gateway).  A byte is a *)
(* number; FULL stands for the block code 0xFF that ends a block without   *)
(* an implied zero (a code is one byte and wraps around after it).  The    *)
(* capacities of the output buffers are checked where the code checks      *)
(* them.  `packet` grows byte by byte to try it on every short packet.     *)
(*                                                                         *)
(* The other end sends Frames one after the other, COBS encoded.  On the   *)
(* way a byte may be overrun (ORE) or changed (noise, framing error).  The *)
(* CRC is ideal: it matches for the packets that were sent and no others.  *)
(***************************************************************************)
EXTENDS Integers, Sequences, SequencesExt, FiniteSets

CONSTANTS
    Frames,         \* the packets that are sent: <<payload_length, payload ..., crc>>
    RING,           \* UART_RX_BUFFER_SIZE
    ENCODED,        \* OTA_MAX_ENCODED_FRAME
    RAW,            \* OTA_PACKET_MAX_RAW_SIZE
    FULL,           \* 0xFF of the code
    MaxLineFaults,  \* bound on overruns and changed bytes
    Data,           \* the values that occur in the packets COBS is tried on, 0 among them
    MaxInput        \* bound on their length

HEADER == 1      \* OTA_PACKET_HEADER_SIZE
CRC_SIZE == 1    \* OTA_PACKET_CRC_SIZE

(* What the constants have to satisfy.                                     *)
FramingAssumption ==
    /\ RING \in Nat /\ RING > 1 /\ MaxLineFaults \in Nat
    /\ \A i \in DOMAIN Frames : Len(Frames[i]) = HEADER + Frames[i][1] + CRC_SIZE

(* For the packets that COBS is tried on: each fits the buffers.           *)
CobsAssumption ==
    /\ FULL \in Nat /\ FULL > 2 /\ 0 \in Data /\ Data \subseteq Nat
    /\ RAW \in Nat /\ MaxInput <= RAW
    /\ ENCODED >= RAW + RAW \div (FULL - 1) + 1

VARIABLES
    packet,      \* the packet COBS is tried on
    line,        \* what is still to be sent: <<[frame, at (position), value], ...>>
    faults,      \* line faults so far
    g_rx_buffer, g_rx_head, g_rx_tail,
    overflowed,  \* g_rx_overflow_count # g_last_rx_overflow_count
    pc, tail, byte,  \* where OtaAgent_Process is, and the locals of Uart_ReadByte
    parser,      \* OtaParser_t, with the frames its bytes belong to
    accepted,    \* history: the frames that became packets
    hurt         \* history: frames that lost a byte, a delimiter or their place

vars == <<line, faults, g_rx_buffer, g_rx_head, g_rx_tail, overflowed, pc, tail, byte,
          parser, accepted, hurt>>
ring == <<g_rx_buffer, g_rx_head, g_rx_tail, overflowed>>
agent == <<pc, tail, byte, parser, accepted>>

Failed == [ok |-> FALSE, bytes |-> <<>>]
Done(b) == [ok |-> TRUE, bytes |-> b]

-----------------------------------------------------------------------------
(* Encoding.  The state of the loop: the output, with a placeholder at     *)
(* code_index, and the code of the open block.                             *)

EncodeStart == [ok |-> TRUE, output |-> <<0>>, code_index |-> 1, code |-> 1]

(* The open block gets its code and a new one begins.                      *)
CloseBlock(e, capacity) ==
    [ok |-> e.ok /\ Len(e.output) < capacity,
     output |-> Append([e.output EXCEPT ![e.code_index] = e.code], 0),
     code_index |-> Len(e.output) + 1,
     code |-> 1]

EncodeByte(e, b, capacity) ==
    LET copied == [e EXCEPT !.ok = @ /\ Len(e.output) < capacity,
                            !.output = Append(@, b), !.code = (@ + 1) % (FULL + 1)]
    IN  CASE b = 0 -> CloseBlock(e, capacity)
          [] b # 0 /\ copied.code = FULL -> CloseBlock(copied, capacity)
          [] OTHER -> copied

Cobs_Encode(input, capacity) ==
    LET e == FoldLeft(LAMBDA state, b : EncodeByte(state, b, capacity), EncodeStart, input)
    IN  IF capacity = 0 \/ ~e.ok THEN Failed
        ELSE Done([e.output EXCEPT ![e.code_index] = e.code])

-----------------------------------------------------------------------------
(* Decoding, block by block.                                               *)

(* A block that is not full is followed by a zero, unless it is the last.  *)
ImpliedZero(code, rest) == code # FULL /\ rest # <<>>

RECURSIVE Decode(_, _, _)

(* `input` is what remains, `output` what was written.                     *)
Decode(input, output, capacity) ==
    IF input = <<>> THEN Done(output)
    ELSE LET code == Head(input)
             count == code - 1
             rest == SubSeq(input, code + 1, Len(input))
             copied == output \o SubSeq(input, 2, code)
         IN  CASE \/ code = 0
                  \/ count > Len(input) - 1
                  \/ count > capacity - Len(output) -> Failed
               [] ~ImpliedZero(code, rest) -> Decode(rest, copied, capacity)
               [] Len(copied) >= capacity -> Failed
               [] OTHER -> Decode(rest, Append(copied, 0), capacity)

Cobs_Decode(input, capacity) == IF input = <<>> THEN Failed ELSE Decode(input, <<>>, capacity)

-----------------------------------------------------------------------------
(* Every packet of at most MaxInput bytes, grown byte by byte.             *)

CobsInit == packet = <<>>
CobsNext == \E d \in Data : Len(packet) < MaxInput /\ packet' = Append(packet, d)

-----------------------------------------------------------------------------
(* The ring and the parser.                                                *)

Next1(i) == (i + 1) % RING
Stored == [k \in 1..((g_rx_head - g_rx_tail) % RING) |-> g_rx_buffer[(g_rx_tail + k - 1) % RING]]
NoByte == [frame |-> 0, at |-> 0, value |-> 0]
EmptyParser == [encoded |-> <<>>, overflowed |-> FALSE]

(* SendFrame of the gateway: the encoded packet and a delimiter.           *)
UartOta_EncodeFrame(i) ==
    [k \in 1..(Len(Cobs_Encode(Frames[i], ENCODED).bytes) + 1) |->
       [frame |-> i, at |-> k, value |-> IF k <= Len(Cobs_Encode(Frames[i], ENCODED).bytes)
                                              THEN Cobs_Encode(Frames[i], ENCODED).bytes[k] ELSE 0]]

Init ==
    /\ line = FlattenSeq([i \in DOMAIN Frames |-> UartOta_EncodeFrame(i)])
    /\ faults = 0 /\ hurt = {} /\ accepted = <<>>
    /\ g_rx_buffer = [i \in 0..(RING - 1) |-> NoByte]
    /\ g_rx_head = 0 /\ g_rx_tail = 0 /\ overflowed = FALSE
    /\ pc = "process" /\ tail = 0 /\ byte = NoByte
    /\ parser = EmptyParser

-----------------------------------------------------------------------------
(* The interrupt.                                                          *)

(* What a lost or changed byte damages: its frame, and the next one when   *)
(* it is the delimiter between the two.                                    *)
Damage(b) == {b.frame} \cup (IF b.value = 0 THEN {b.frame + 1} ELSE {})

(* USART1_IRQHandler with RXNE set.                                        *)
Store(b) ==
    IF Next1(g_rx_head) = g_rx_tail
      THEN /\ overflowed' = TRUE
           /\ hurt' = hurt \cup Damage(b)
           /\ UNCHANGED <<g_rx_buffer, g_rx_head>>
      ELSE /\ g_rx_buffer' = [g_rx_buffer EXCEPT ![g_rx_head] = b]
           /\ g_rx_head' = Next1(g_rx_head)
           /\ UNCHANGED <<overflowed, hurt>>

USART1_IRQHandler ==
    /\ line # <<>>
    /\ Store(Head(line))
    /\ line' = Tail(line)
    /\ UNCHANGED <<faults, g_rx_tail, agent>>

(* The handler comes too late for the byte before, which is only counted   *)
(* as an error.                                                            *)
Overrun ==
    /\ line # <<>> /\ faults < MaxLineFaults
    /\ line' = Tail(line) /\ faults' = faults + 1
    /\ hurt' = hurt \cup Damage(Head(line))
    /\ UNCHANGED <<ring, agent>>

(* Noise: the byte on the line becomes another one, possibly a delimiter.  *)
Noise ==
    /\ line # <<>> /\ faults < MaxLineFaults
    /\ \E v \in {0, 1, FULL} \ {Head(line).value} :
         /\ line' = <<[Head(line) EXCEPT !.value = v]>> \o Tail(line)
         /\ hurt' = hurt \cup Damage(Head(line)) \cup (IF v = 0 THEN {Head(line).frame} ELSE {})
    /\ faults' = faults + 1
    /\ UNCHANGED <<ring, agent>>

-----------------------------------------------------------------------------
(* OtaAgent_Process, one access to the shared state at a time.             *)

FramesOf(bytes) == {bytes[i].frame : i \in DOMAIN bytes}

(* The overflow counter is compared once per call, before the loop.        *)
CheckOverflow ==
    /\ pc = "process"
    /\ overflowed' = FALSE /\ pc' = "read"
    /\ IF overflowed
         THEN parser' = EmptyParser /\ hurt' = hurt \cup FramesOf(parser.encoded)
         ELSE UNCHANGED <<parser, hurt>>
    /\ UNCHANGED <<line, faults, g_rx_buffer, g_rx_head, g_rx_tail, tail, byte, accepted>>

ReadTail ==
    /\ pc = "read"
    /\ tail' = g_rx_tail /\ pc' = "compare"
    /\ UNCHANGED <<line, faults, ring, byte, parser, accepted, hurt>>

CompareHead ==
    /\ pc = "compare"
    /\ pc' = IF tail = g_rx_head THEN "process" ELSE "take"
    /\ UNCHANGED <<line, faults, ring, tail, byte, parser, accepted, hurt>>

TakeByte ==
    /\ pc = "take"
    /\ byte' = g_rx_buffer[tail] /\ pc' = "advance"
    /\ UNCHANGED <<line, faults, ring, tail, parser, accepted, hurt>>

AdvanceTail ==
    /\ pc = "advance"
    /\ g_rx_tail' = Next1(tail) /\ pc' = "push"
    /\ UNCHANGED <<line, faults, g_rx_buffer, g_rx_head, overflowed, tail, byte, parser,
                   accepted, hurt>>

-----------------------------------------------------------------------------
(* OtaPacket_Deserialize: too short, length field, CRC.                    *)
OtaPacket_Deserialize(raw) ==
    CASE Len(raw) < HEADER + CRC_SIZE -> "INVALID_FRAME"
      [] Len(raw) >= HEADER + CRC_SIZE /\ Len(raw) # HEADER + raw[1] + CRC_SIZE -> "INVALID_FRAME"
      [] OTHER -> IF \E i \in DOMAIN Frames : Frames[i] = raw THEN "PACKET" ELSE "CRC_ERROR"

Values(bytes) == [i \in DOMAIN bytes |-> bytes[i].value]

(* What OtaParser_PushByte makes of the bytes before a delimiter.          *)
Event(p) ==
    LET raw == Cobs_Decode(Values(p.encoded), RAW)
    IN  CASE p.encoded = <<>> /\ ~p.overflowed -> "NONE"
          [] p.overflowed -> "INVALID_FRAME"
          [] OTHER -> IF raw.ok THEN OtaPacket_Deserialize(raw.bytes) ELSE "INVALID_FRAME"

(* Mutant: a bad frame stays in the parser.                                *)
AfterDelimiterKeep(p) ==
    IF Event(p) \in {"PACKET", "NONE"} THEN EmptyParser ELSE p

(* Every delimiter leaves an empty parser.                                 *)
AfterDelimiter(p) == EmptyParser

(* OtaParser_PushByte and what OtaAgent_Process does with the event: a     *)
(* packet goes to OtaReceiver_ProcessPacket, a CRC error is answered with  *)
(* a NACK and anything else is discarded.                                  *)
PushByte ==
    /\ pc = "push" /\ pc' = "read"
    /\ parser' = CASE byte.value = 0 -> AfterDelimiter(parser)
                   [] byte.value # 0 /\ parser.overflowed -> parser
                   [] byte.value # 0 /\ ~parser.overflowed /\ Len(parser.encoded) >= ENCODED ->
                        [parser EXCEPT !.overflowed = TRUE]
                   [] OTHER -> [parser EXCEPT !.encoded = Append(@, byte)]
    /\ accepted' = IF byte.value = 0 /\ Event(parser) = "PACKET"
                     THEN Append(accepted, byte.frame) ELSE accepted
    /\ tail' = 0 /\ byte' = NoByte  \* out of scope
    /\ UNCHANGED <<line, faults, ring, hurt>>

Next ==
    \/ USART1_IRQHandler \/ Overrun \/ Noise
    \/ CheckOverflow \/ ReadTail \/ CompareHead \/ TakeByte \/ AdvanceTail \/ PushByte

Spec ==
    /\ Init /\ CobsInit
    /\ [][(Next /\ UNCHANGED packet) \/ (CobsNext /\ UNCHANGED vars)]_<<vars, packet>>

-----------------------------------------------------------------------------
(* What one end encodes the other decodes, block boundaries included, and  *)
(* the frame fits the buffers of both ends: SendPacket and SendFrame never *)
(* fail on a packet that OtaPacket_Serialize produced.                     *)
RoundTrip ==
    LET e == Cobs_Encode(packet, ENCODED)
    IN  e.ok /\ Cobs_Decode(e.bytes, RAW) = Done(packet)

(* No byte of a frame is the delimiter: a receiver that lost its place     *)
(* finds it again at the next zero.                                        *)
NoDelimiterInside == \A i \in DOMAIN Cobs_Encode(packet, ENCODED).bytes :
    Cobs_Encode(packet, ENCODED).bytes[i] # 0

(* Neither loop writes past the end of its output buffer, whatever its     *)
(* capacity, and a buffer that is large enough is never refused.           *)
ExactCapacity ==
    LET e == Cobs_Encode(packet, ENCODED).bytes
    IN  \A c \in 0..ENCODED :
          /\ Cobs_Encode(packet, c) = (IF c < Len(e) THEN Failed ELSE Done(e))
          /\ Cobs_Decode(e, c) = (IF c < Len(packet) THEN Failed ELSE Done(packet))

(* Types of the variables of the receive path.                             *)
TypeOK ==
    /\ g_rx_head \in 0..(RING - 1) /\ g_rx_tail \in 0..(RING - 1) /\ tail \in 0..(RING - 1)
    /\ pc \in {"process", "read", "compare", "take", "advance", "push"}
    /\ overflowed \in BOOLEAN
    /\ Len(parser.encoded) <= ENCODED
    /\ hurt \subseteq 1..(Len(Frames) + 1)

(* Bytes leave the ring in the order in which they arrived, although both  *)
(* indices move while Uart_ReadByte runs: from the parser through the ring *)
(* to the line, each byte is followed by the next one of its frame, and a  *)
(* gap is one that an overflow or the line has made.                       *)
RingIsFifo ==
    LET stream == parser.encoded \o (IF pc = "push" THEN <<byte>> ELSE <<>>) \o Stored \o line
    IN  \A i \in 1..(Len(stream) - 1) :
          LET a == stream[i]
              b == stream[i + 1]
          IN  \/ b.frame = a.frame /\ b.at = a.at + 1
              \/ b.frame = a.frame + 1 /\ b.at = 1
              \/ /\ b.frame > a.frame \/ (b.frame = a.frame /\ b.at > a.at)
                 /\ {a.frame, b.frame} \cap hurt # {}

(* The byte that Uart_ReadByte is about to take is the oldest one stored.  *)
TakesTheOldest ==
    pc \in {"take", "advance"} =>
      Stored # <<>> /\ tail = g_rx_tail /\ (pc = "advance" => byte = Stored[1])

(* A decoder error costs the frames it damaged and no other one: every     *)
(* frame that arrived whole, with the delimiter before it, and was not in  *)
(* the parser when OtaAgent_Process noticed an overflow becomes a packet,  *)
(* in the order in which the frames were sent.                             *)
Intact(upto) == SelectSeq([i \in 1..upto |-> i], LAMBDA f : f \notin hurt)

UndamagedAccepted ==
    line = <<>> /\ Stored = <<>> /\ pc = "process" =>
      Intact(Len(Frames)) = SelectSeq(accepted, LAMBDA f : f \notin hurt)

=============================================================================
