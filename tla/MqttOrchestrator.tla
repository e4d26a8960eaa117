-------------------------- MODULE MqttOrchestrator --------------------------
(***************************************************************************)
(* The gateway's MQTT side: the event handler, which runs on the client's  *)
(* own task, and the calls of the worker, with the broker they talk to.    *)
(*                                                                         *)
(* The client library is external.  A message that is enqueued waits in    *)
(* the outbox for the client's task; one that is published goes out at     *)
(* once when the link is up, before those that still wait.  A QoS 1        *)
(* message stays in the outbox until its PUBACK; when the link is lost     *)
(* acknowledgements in flight are lost too and messages are sent again.    *)
(* The session is clean: the broker forgets the subscription.  Progress    *)
(* reports are QoS 0 telemetry on another topic and leave no state.        *)
(***************************************************************************)
EXTENDS Integers, Sequences

CONSTANTS
    Payloads,     \* messages of the operator's side: [topic, length, json]
    FRAGMENT,     \* size of the client's receive buffer
    MAX_PAYLOAD,  \* MQTT_ORCH_MAX_PAYLOAD_LENGTH
    UINT32_MAX,   \* the greatest number of the fields
    MIN_SIZE,     \* 8, the least image_size
    MAX_IMAGE,    \* 128 * 1024, the greatest
    OUTBOX,       \* messages that fit into the outbox
    MAX_LOSSES,   \* bound: losses of the link
    MAX_MESSAGES  \* bound: messages sent to the gateway

ASSUME OrchestratorAssumption ==
    /\ FRAGMENT \in Nat \ {0} /\ MAX_PAYLOAD \in Nat /\ OUTBOX \in Nat
    /\ \A p \in Payloads : p.length \in Nat /\ (p.json # <<>> => p.length > 0)

VARIABLES
    client,      \* "none", "started" or "destroyed"
    link,        \* is there an MQTT connection?
    subscribed,  \* the broker's side of the subscription
    events,      \* bits of the event group
    fragment,    \* fragment_active, _total, _received and _buffer
    command_queue,
    delivery,    \* message that the client is receiving: [payload, offset]
    outbox,      \* QoS 1 messages of the client: [id, status, sent]
    next_id,     \* message identifier of the client
    acks,        \* PUBACKs on the way to the client
    handler,     \* MQTT_EVENT_PUBLISHED: "idle", or between its two statements
    last_published_message_id,
    broker,      \* status topic: [retained, seen], the latter a history of final ones
    losses, messages

mqttVars == <<client, link, subscribed, events, fragment, command_queue, delivery, outbox,
              next_id, acks, handler, last_published_message_id, broker, losses, messages>>

CONNECTED_BIT == "connected"
READY_BIT == "ready"
PUBLISHED_BIT == "published"
COMMAND_QUEUE_LENGTH == 1

NoFragment == [active |-> FALSE, total |-> 0, received |-> 0, buffer |-> <<>>]
NoDelivery == [payload |-> <<>>, offset |-> 0]
NoStatus == [state |-> "none", update_id |-> 0, target_version |-> 0]

MqttInit ==
    /\ client = "none" /\ link = FALSE /\ subscribed = FALSE
    /\ events = {} /\ fragment = NoFragment /\ command_queue = <<>>
    /\ delivery = NoDelivery /\ outbox = <<>> /\ next_id = 1 /\ acks = <<>>
    /\ handler = "idle" /\ last_published_message_id = -1
    /\ broker = [retained |-> NoStatus, seen |-> {}]
    /\ losses = 0 /\ messages = 0

-----------------------------------------------------------------------------
(* Parsing.  A JSON text is what its members hold: a record, or a text     *)
(* that is no update command (`json = <<>>`).                              *)

JsonUint32(x) == x \in 0..UINT32_MAX

(* MqttOrchestration_ValidateCommand.                                      *)
ValidateCommand(c, max) ==
    /\ c.schema = 1
    /\ c.update_id # 0
    /\ c.target_version # 0
    /\ c.image_size \in MIN_SIZE..max
    /\ c.https

ParseCommandJson(json) ==
    /\ json # <<>>
    /\ \A x \in {json.schema, json.update_id, json.target_version, json.image_size} : JsonUint32(x)
    /\ ValidateCommand(json, MAX_IMAGE)

-----------------------------------------------------------------------------
(* HandleData.  The buffer holds, for each byte, whose it is.              *)

(* Mutant: the fragment is left as it is.                                  *)
ResetForgotten(f) == f

ResetFragment(f) == NoFragment

Bytes(p, from, n) == [i \in 1..n |-> <<p, from + i - 1>>]
Whole(p) == Bytes(p, 0, p.length)

(* The first fragment of a message starts anew.                            *)
Started(p, f) ==
    IF p.topic = "command" /\ p.length <= MAX_PAYLOAD
      THEN [ResetFragment(f) EXCEPT !.active = TRUE, !.total = p.length]
      ELSE ResetFragment(f)

(* The fragment continues what is in the buffer.                           *)
Continues(p, offset, n, f) ==
    f.active /\ p.length = f.total /\ offset = f.received /\ n <= f.total - f.received

Appended(p, offset, n, f) ==
    [active |-> f.active, total |-> f.total, received |-> f.received + n,
     buffer |-> f.buffer \o Bytes(p, offset, n)]

(* A full buffer is parsed and, if the queue has room, queued.             *)
Offered(f) ==
    IF /\ \E p \in Payloads : f.buffer = Whole(p) /\ ParseCommandJson(p.json)
       /\ Len(command_queue) < COMMAND_QUEUE_LENGTH
      THEN Append(command_queue, f.buffer[1][1].json)
      ELSE command_queue

HandleData(p, offset, n) ==
    LET f == IF offset = 0 THEN Started(p, fragment) ELSE fragment
        g == Appended(p, offset, n, f)
    IN  IF ~Continues(p, offset, n, f)
          THEN fragment' = ResetFragment(f) /\ UNCHANGED command_queue
          ELSE IF g.received # g.total
            THEN fragment' = g /\ UNCHANGED command_queue
            ELSE fragment' = ResetFragment(g) /\ command_queue' = Offered(g)

-----------------------------------------------------------------------------
(* The client's task and the broker.                                       *)

Live == client = "started" /\ link /\ handler = "idle"

(* MQTT_EVENT_CONNECTED: the handler subscribes; the call may fail.        *)
Connected ==
    /\ client = "started" /\ ~link
    /\ link' = TRUE
    /\ events' = events \cup {CONNECTED_BIT}
    /\ subscribed' \in BOOLEAN
    /\ UNCHANGED <<client, fragment, command_queue, delivery, outbox, next_id, acks,
                   handler, last_published_message_id, broker, losses, messages>>

(* MQTT_EVENT_SUBSCRIBED.                                                  *)
Subscribed ==
    /\ Live /\ subscribed /\ READY_BIT \notin events
    /\ events' = events \cup {READY_BIT}
    /\ UNCHANGED <<client, link, subscribed, fragment, command_queue, delivery, outbox,
                   next_id, acks, handler, last_published_message_id, broker, losses, messages>>

(* MQTT_EVENT_DISCONNECTED.                                                *)
Disconnected ==
    /\ Live /\ losses < MAX_LOSSES
    /\ losses' = losses + 1
    /\ link' = FALSE /\ subscribed' = FALSE
    /\ events' = events \ {CONNECTED_BIT, READY_BIT}
    /\ fragment' = ResetFragment(fragment)
    /\ delivery' = NoDelivery /\ acks' = <<>>
    /\ outbox' = [i \in 1..Len(outbox) |-> [outbox[i] EXCEPT !.sent = FALSE]]
    /\ UNCHANGED <<client, handler, command_queue, next_id, last_published_message_id, broker, messages>>

(* The broker starts to deliver a message of the operator.                 *)
Deliver(p) ==
    /\ Live /\ subscribed /\ delivery = NoDelivery /\ messages < MAX_MESSAGES
    /\ messages' = messages + 1
    /\ delivery' = [payload |-> p, offset |-> 0]
    /\ UNCHANGED <<client, handler, link, subscribed, events, fragment, command_queue, outbox, next_id,
                   acks, last_published_message_id, broker, losses>>

(* MQTT_EVENT_DATA: the next fragment.                                     *)
Data ==
    /\ Live /\ delivery # NoDelivery
    /\ LET p == delivery.payload
           left == p.length - delivery.offset
           n == IF left < FRAGMENT THEN left ELSE FRAGMENT
       IN  /\ HandleData(p, delivery.offset, n)
           /\ delivery' = IF n = left THEN NoDelivery
                          ELSE [delivery EXCEPT !.offset = @ + n]
    /\ UNCHANGED <<client, link, subscribed, events, outbox, next_id, acks,
                   handler, last_published_message_id, broker, losses, messages>>

(* The broker takes a message, which carries the retain flag.              *)
FinalStates == {"confirmed", "failed"}
Received(s) == [retained |-> s,
                seen |-> IF s.state \in FinalStates THEN broker.seen \cup {s} ELSE broker.seen]

(* The client's task sends the first message that still waits.             *)
SendQueued ==
    /\ Live
    /\ \E i \in 1..Len(outbox) :
         /\ ~outbox[i].sent /\ \A j \in 1..(i - 1) : outbox[j].sent
         /\ outbox' = [outbox EXCEPT ![i].sent = TRUE]
         /\ acks' = Append(acks, outbox[i].id)
         /\ broker' = Received(outbox[i].status)
    /\ UNCHANGED <<client, handler, link, subscribed, events, fragment, command_queue, delivery, next_id,
                   last_published_message_id, losses, messages>>

(* The outbox without the message of this identifier.                      *)
Without(box, id) ==
    IF \E k \in 1..Len(box) : box[k].id = id
      THEN LET k == CHOOSE k \in 1..Len(box) : box[k].id = id
           IN  [i \in 1..(Len(box) - 1) |-> box[IF i < k THEN i ELSE i + 1]]
      ELSE box

(* MQTT_EVENT_PUBLISHED: the identifier, then the bit.                     *)
PublishedId ==
    /\ Live /\ acks # <<>>
    /\ acks' = Tail(acks)
    /\ outbox' = Without(outbox, Head(acks))
    /\ last_published_message_id' = Head(acks)
    /\ handler' = "bit"
    /\ UNCHANGED <<client, link, subscribed, events, fragment, command_queue, delivery, next_id,
                   broker, losses, messages>>

PublishedBit ==
    /\ handler = "bit"
    /\ handler' = "idle"
    /\ events' = events \cup {PUBLISHED_BIT}
    /\ UNCHANGED <<client, link, subscribed, fragment, command_queue, delivery, outbox, next_id,
                   acks, last_published_message_id, broker, losses, messages>>

MqttTask == Connected \/ Subscribed \/ SendQueued \/ PublishedId \/ PublishedBit \/ Data

-----------------------------------------------------------------------------
(* The worker's calls.                                                     *)

(* MqttOrchestrator_Start up to esp_mqtt_client_start.                     *)
Start ==
    /\ client' = "started"
    /\ UNCHANGED <<link, subscribed, events, fragment, command_queue, delivery, outbox, next_id,
                   acks, handler, last_published_message_id, broker, losses, messages>>

(* MqttOrchestrator_Stop, and the label fail_started of Start: what is     *)
(* left in the outbox goes with the client.                                *)
Stop ==
    /\ client' = "destroyed" /\ link' = FALSE /\ subscribed' = FALSE
    /\ events' = {} /\ command_queue' = <<>> /\ fragment' = ResetFragment(fragment)
    /\ delivery' = NoDelivery /\ outbox' = <<>> /\ acks' = <<>>
    /\ handler' = "idle"
    /\ UNCHANGED <<next_id, last_published_message_id, broker, losses, messages>>

HasRoom == Len(outbox) < OUTBOX

Message(s, sent) == [id |-> next_id, status |-> s, sent |-> sent]

(* MqttOrchestrator_PublishStatus, through EnqueueJson.                    *)
PublishStatus(s) ==
    /\ HasRoom
    /\ outbox' = Append(outbox, Message(s, FALSE))
    /\ next_id' = next_id + 1
    /\ UNCHANGED <<client, link, subscribed, events, fragment, command_queue, delivery, acks,
                   handler, last_published_message_id, broker, losses, messages>>

(* MqttOrchestrator_PublishStatusAndWait up to esp_mqtt_client_publish.    *)
PublishAndClear(s) ==
    /\ HasRoom
    /\ events' = events \ {PUBLISHED_BIT}
    /\ last_published_message_id' = -1
    /\ outbox' = Append(outbox, Message(s, link))
    /\ acks' = IF link THEN Append(acks, next_id) ELSE acks
    /\ broker' = IF link THEN Received(s) ELSE broker
    /\ next_id' = next_id + 1
    /\ UNCHANGED <<client, handler, link, subscribed, fragment, command_queue, delivery, losses, messages>>

PublishRefused ==
    /\ ~HasRoom
    /\ events' = events \ {PUBLISHED_BIT}
    /\ last_published_message_id' = -1
    /\ UNCHANGED <<client, handler, link, subscribed, fragment, command_queue, delivery, outbox, next_id,
                   acks, broker, losses, messages>>

(* Mutant: any acknowledgement ends the wait.                              *)
AnyAck(id) == PUBLISHED_BIT \in events

(* The tests of the loop of PublishStatusAndWait.                          *)
AckSeen(id) == last_published_message_id = id

(* xEventGroupWaitBits returns with the bit set and clears it.             *)
TakePublishedBit ==
    /\ PUBLISHED_BIT \in events
    /\ events' = events \ {PUBLISHED_BIT}
    /\ UNCHANGED <<client, link, subscribed, fragment, command_queue, delivery, outbox, next_id,
                   acks, handler, last_published_message_id, broker, losses, messages>>

(* MqttOrchestrator_WaitCommand.                                           *)
WaitCommand ==
    /\ command_queue # <<>>
    /\ command_queue' = Tail(command_queue)
    /\ UNCHANGED <<client, link, subscribed, events, fragment, delivery, outbox, next_id, acks,
                   handler, last_published_message_id, broker, losses, messages>>

=============================================================================
