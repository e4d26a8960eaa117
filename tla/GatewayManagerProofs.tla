------------------------ MODULE GatewayManagerProofs ------------------------
(***************************************************************************)
(* The gateway, for all messages, files and versions, and for every size   *)
(* of fragments, buffer and outbox: what is installed is what was ordered, *)
(* what it reports is so, and commands are queued whole.                   *)
(*                                                                         *)
(* Inv is inductive.  MqttInv is about the event handler and the client:   *)
(* the buffer holds what has arrived of the message in delivery, and an    *)
(* acknowledgement of a final status is only on its way when the broker    *)
(* has the status.  OrderInv follows the order through cache and artifact. *)
(* ReportInv is about the final status the worker waits for: WaitOK is     *)
(* what lets the identifier alone, which may belong to a message of        *)
(* another connection, stand for the arrival of the status, and Grounded   *)
(* what HELLO says of the node when its state is only that of a session.   *)
(***************************************************************************)
EXTENDS MCGatewayLive, SequenceTheorems, TLAPS

(* What a command, a status and a message of the outbox may be.            *)
Commands == {p.json : p \in Payloads}
Ids == {c.update_id : c \in Commands} \cup {0}
Targets == {c.target_version : c \in Commands} \cup Versions \cup {0}
Statuses ==
    [state : {"none", "online", "accepted", "downloaded", "installing", "confirmed", "failed"},
     update_id : Ids, target_version : Targets]
Messages == [id : Nat, status : Statuses, sent : BOOLEAN]
Nodes == [version : Targets, installing : Targets]

(* Outbox and acknowledgements: identifiers are used once, and a final     *)
(* status whose acknowledgement is on the way has reached the broker.      *)
OutboxOK(box, ack, last, next, seen) ==
    /\ box \in Seq(Messages) /\ Len(box) <= OUTBOX /\ ack \in Seq(Nat)
    /\ next \in Nat \ {0} /\ last \in -1..(next - 1) /\ seen \in SUBSET Statuses
    /\ \A i \in 1..Len(box) : box[i].id < next
    /\ \A i \in 1..Len(ack) : ack[i] < next
    /\ \A i, j \in 1..Len(box) : i # j => box[i].id # box[j].id
    /\ \A i \in 1..Len(ack), j \in 1..Len(box) :
          box[j].id = ack[i] /\ box[j].status.state \in FinalStates => box[j].status \in seen

(* The same for the message the worker waits for, or waited for last.      *)
WaitOK(m, box, ack, last, seen) ==
    /\ last = m.id => m.status \in seen
    /\ \A i \in 1..Len(ack) : ack[i] = m.id => m.status \in seen
    /\ \A i \in 1..Len(box) : box[i].id = m.id => box[i].status = m.status
    /\ m.status \in seen \/ \E i \in 1..Len(box) : box[i].status = m.status

(* A message that is a command by its topic and length, and the            *)
(* reassembly buffer once n bytes of it have arrived.                      *)
Relevant(p) == p.topic = "command" /\ p.length <= MAX_PAYLOAD
Held(p, n) == [active |-> TRUE, total |-> p.length, received |-> n, buffer |-> Bytes(p, 0, n)]

(* The buffer holds what has arrived of the message in delivery.           *)
FragmentOK(f, d) ==
    /\ d = NoDelivery \/ /\ d = [payload |-> d.payload, offset |-> d.offset]
                         /\ d.payload \in Payloads /\ d.offset \in Nat
                         /\ d.offset = 0 \/ d.offset < d.payload.length
    /\ f = IF d.offset # 0 /\ Relevant(d.payload) THEN Held(d.payload, d.offset) ELSE NoFragment

(* Places of the worker: before its loop, in ProcessCommand, and in the    *)
(* wait of PublishStatusAndWait.                                           *)
Starting == {"config", "wifi", "time", "start", "ready", "uart", "online"}
Processing == {"query", "accept", "download", "downloadFailed", "compare", "downloaded",
               "export", "install", "transfer", "transferFailed", "final"}
Waiting == {"ack", "loop", "check"}

(* The event handler, the client and the broker.                           *)
MqttInv ==
    /\ client \in {"none", "started", "destroyed"} /\ link \in BOOLEAN
    /\ events \subseteq {CONNECTED_BIT, READY_BIT, PUBLISHED_BIT}
    /\ command_queue \in Seq(Commands) /\ Len(command_queue) <= COMMAND_QUEUE_LENGTH
    /\ FragmentOK(fragment, delivery)
    /\ broker \in [retained : Statuses, seen : SUBSET Statuses]
    /\ OutboxOK(outbox, acks, last_published_message_id, next_id, broker.seen)

(* The worker's variables: it has a command while it processes one.        *)
WorkerTypes ==
    /\ wpc \in Starting \cup Processing \cup Waiting \cup {"finish", "wait", "returned"}
    /\ wpc \in Processing \cup Waiting \cup {"finish"} => command \in Commands
    /\ wpc \notin Processing \cup Waiting \cup {"finish"} => command = NoCommand
    /\ node \in Nodes
    /\ waiting \in [id : Nat, status : Statuses]
    /\ result \in {"none", "ok", "error"} /\ refused \in BOOLEAN /\ settled \in Statuses

(* What ordered the artifact in the cache and the one that is exported.    *)
OrderInv ==
    /\ wpc \in {"compare", "downloaded", "export"} =>
          cache.update_id = command.update_id /\ cache.target_version = command.target_version
    /\ wpc \in {"downloaded", "export"} =>
          cache.size = command.image_size /\ cache.crc = command.image_crc32
    /\ InstallsWhatWasOrdered

(* What an answer IDLE of version v says of the node n: it runs v,         *)
(* confirmed, or had an update under way that the answer did not show.     *)
Grounded(n, h, v) == n = [version |-> v, installing |-> 0] \/ h = v

(* The report that the worker has given, or is waiting for.                *)
ReportInv ==
    /\ wpc \in Starting => settled = NoStatus
    /\ wpc \in Waiting \/ (wpc = "finish" /\ ~refused) =>
          /\ waiting.id < next_id
          /\ waiting.status \in {Status("confirmed"), Status("failed")}
          /\ WaitOK(waiting, outbox, acks, last_published_message_id, broker.seen)
    /\ wpc \in Waiting /\ result = "ok" =>
          Grounded(node, hidden, waiting.status.target_version)
    /\ wpc = "final" /\ hello.idle => Grounded(node, hidden, hello.version)
    /\ settled # NoStatus => settled \in broker.seen
    /\ OkIsWitnessed

(* The inductive invariant.                                                *)
Inv == MqttInv /\ WorkerTypes /\ OrderInv /\ ReportInv

USE OrchestratorAssumption

-----------------------------------------------------------------------------
(* The outbox and the acknowledgements.                                     *)

(* A record of the outbox.                                                  *)
LEMMA MessageFields ==
    ASSUME NEW m \in Messages
    PROVE  m.id \in Nat /\ m.status \in Statuses /\ m.sent \in BOOLEAN
BY DEF Messages

(* The client's task sends a message of the outbox.                         *)
LEMMA SentOK ==
    ASSUME NEW box, NEW ack, NEW last, NEW next, NEW seen, OutboxOK(box, ack, last, next, seen),
           NEW k \in 1..Len(box), NEW new \in SUBSET Statuses, seen \subseteq new,
           box[k].status.state \in FinalStates => box[k].status \in new
    PROVE  OutboxOK([box EXCEPT ![k].sent = TRUE], Append(ack, box[k].id), last, next, new)
<1> DEFINE b == [box EXCEPT ![k].sent = TRUE]
           a == Append(ack, box[k].id)
<1>1. /\ box \in Seq(Messages) /\ Len(box) <= OUTBOX /\ ack \in Seq(Nat)
      /\ next \in Nat \ {0} /\ last \in -1..(next - 1)
      /\ \A i \in 1..Len(box) : box[i].id < next
      /\ \A i \in 1..Len(ack) : ack[i] < next
      /\ \A i, j \in 1..Len(box) : i # j => box[i].id # box[j].id
      /\ \A i \in 1..Len(ack), j \in 1..Len(box) :
            box[j].id = ack[i] /\ box[j].status.state \in FinalStates => box[j].status \in seen
  BY DEF OutboxOK
<1>2. box[k] \in Messages /\ box[k].id \in Nat
  BY <1>1, MessageFields
<1>3. /\ b \in Seq(Messages) /\ Len(b) = Len(box)
      /\ \A i \in 1..Len(box) : b[i].id = box[i].id /\ b[i].status = box[i].status
  <2>1. [box[k] EXCEPT !.sent = TRUE] \in Messages
        /\ [box[k] EXCEPT !.sent = TRUE].id = box[k].id
        /\ [box[k] EXCEPT !.sent = TRUE].status = box[k].status
    BY <1>2 DEF Messages
  <2>2. b = [box EXCEPT ![k] = [box[k] EXCEPT !.sent = TRUE]]
    OBVIOUS
  <2> QED BY <1>1, <2>1, <2>2
<1>4. /\ a \in Seq(Nat) /\ Len(a) = Len(ack) + 1 /\ a[Len(ack) + 1] = box[k].id
      /\ \A i \in 1..Len(ack) : a[i] = ack[i]
  BY <1>1, <1>2
<1> HIDE DEF a, b
<1>5. \A i \in 1..Len(a) : i \in 1..Len(ack) \/ i = Len(ack) + 1
  BY <1>1, <1>4
<1>6. \A i \in 1..Len(a) : a[i] < next
  BY <1>1, <1>4, <1>5
<1>7. ASSUME NEW i \in 1..Len(a), NEW j \in 1..Len(b), b[j].id = a[i],
             b[j].status.state \in FinalStates
      PROVE  b[j].status \in new
  <2>1. j \in 1..Len(box) /\ b[j].status = box[j].status /\ box[j].id = a[i]
    BY <1>3, <1>7
  <2>2. CASE i \in 1..Len(ack)
    BY <1>1, <1>4, <1>7, <2>1, <2>2
  <2>3. CASE i = Len(ack) + 1
    <3>1. j = k
      BY <1>1, <1>4, <2>1, <2>3
    <3> QED BY <1>7, <2>1, <3>1
  <2> QED BY <1>5, <2>2, <2>3
<1>8. OutboxOK(b, a, last, next, new)
  BY <1>1, <1>3, <1>4, <1>6, <1>7 DEF OutboxOK
<1> QED BY <1>8 DEF a, b

(* ... and what is known of the message the worker waits for stays true.    *)
LEMMA SentWait ==
    ASSUME NEW box, NEW ack, NEW last, NEW next, NEW seen, OutboxOK(box, ack, last, next, seen),
           NEW k \in 1..Len(box), NEW new \in SUBSET Statuses, seen \subseteq new,
           box[k].status.state \in FinalStates => box[k].status \in new,
           NEW m, m.status.state \in FinalStates, WaitOK(m, box, ack, last, seen)
    PROVE  WaitOK(m, [box EXCEPT ![k].sent = TRUE], Append(ack, box[k].id), last, new)
<1> DEFINE b == [box EXCEPT ![k].sent = TRUE]
           a == Append(ack, box[k].id)
<1>1. box \in Seq(Messages) /\ ack \in Seq(Nat)
  BY DEF OutboxOK
<1>2. box[k] \in Messages /\ box[k].id \in Nat
  BY <1>1, MessageFields
<1>3. /\ Len(b) = Len(box)
      /\ \A i \in 1..Len(box) : b[i].id = box[i].id /\ b[i].status = box[i].status
  <2>1. [box[k] EXCEPT !.sent = TRUE].id = box[k].id
        /\ [box[k] EXCEPT !.sent = TRUE].status = box[k].status
    BY <1>2 DEF Messages
  <2>2. b = [box EXCEPT ![k] = [box[k] EXCEPT !.sent = TRUE]]
    OBVIOUS
  <2> QED BY <1>1, <2>1, <2>2
<1>4. /\ Len(a) = Len(ack) + 1 /\ a[Len(ack) + 1] = box[k].id
      /\ \A i \in 1..Len(ack) : a[i] = ack[i]
  BY <1>1, <1>2
<1> HIDE DEF a, b
<1>5. \A i \in 1..Len(a) : i \in 1..Len(ack) \/ i = Len(ack) + 1
  BY <1>1, <1>4
<1>6. \A i \in 1..Len(a) : a[i] = m.id => m.status \in new
  BY <1>4, <1>5 DEF WaitOK
<1>7. m.status \in new \/ \E i \in 1..Len(b) : b[i].status = m.status
  BY <1>3 DEF WaitOK
<1>8. WaitOK(m, b, a, last, new)
  BY <1>3, <1>6, <1>7 DEF WaitOK
<1> QED BY <1>8 DEF a, b

(* The outbox without a message.                                            *)
LEMMA WithoutFacts ==
    ASSUME NEW box \in Seq(Messages), NEW id, NEW b, b = Without(box, id),
           \A i, j \in 1..Len(box) : i # j => box[i].id # box[j].id
    PROVE  /\ b \in Seq(Messages) /\ Len(b) <= Len(box)
           /\ \A i \in 1..Len(b) : \E k \in 1..Len(box) : b[i] = box[k]
           /\ \A i, j \in 1..Len(b) : i # j => b[i].id # b[j].id
           /\ \A k \in 1..Len(box) : box[k].id # id => \E i \in 1..Len(b) : b[i] = box[k]
<1>1. CASE ~\E k \in 1..Len(box) : box[k].id = id
  <2>1. b = box
    BY <1>1 DEF Without
  <2> QED BY <2>1
<1>2. CASE \E k \in 1..Len(box) : box[k].id = id
  <2> DEFINE k == CHOOSE k \in 1..Len(box) : box[k].id = id
             n == Len(box) - 1
  <2>1. k \in 1..Len(box) /\ box[k].id = id /\ n \in Nat /\ n + 1 = Len(box)
    BY <1>2
  <2>2. b = [i \in 1..n |-> box[IF i < k THEN i ELSE i + 1]]
    BY <1>2 DEF Without
  <2> HIDE DEF k, n
  <2>3. \A i \in 1..n : (IF i < k THEN i ELSE i + 1) \in 1..Len(box)
    BY <2>1
  <2>4. b \in Seq(Messages) /\ Len(b) = n
    BY <2>1, <2>2, <2>3
  <2>5. \A i \in 1..n : b[i] = box[IF i < k THEN i ELSE i + 1]
    BY <2>2
  <2>6. \A i \in 1..n : \E l \in 1..Len(box) : b[i] = box[l]
    BY <2>3, <2>5
  <2>7. \A i, j \in 1..n : i # j => b[i].id # b[j].id
    <3> SUFFICES ASSUME NEW i \in 1..n, NEW j \in 1..n, i # j PROVE b[i].id # b[j].id
      OBVIOUS
    <3>1. (IF i < k THEN i ELSE i + 1) # (IF j < k THEN j ELSE j + 1)
      BY <2>1
    <3> QED BY <2>3, <2>5, <3>1
  <2>8. ASSUME NEW l \in 1..Len(box), box[l].id # id PROVE \E i \in 1..n : b[i] = box[l]
    <3>1. l # k
      BY <2>1, <2>8
    <3>2. CASE l < k
      <4>1. l \in 1..n /\ b[l] = box[l]
        BY <2>1, <2>5, <3>2
      <4> QED BY <4>1
    <3>3. CASE l > k
      <4>1. l - 1 \in 1..n /\ ~(l - 1 < k) /\ (l - 1) + 1 = l
        BY <2>1, <3>3
      <4>2. b[l - 1] = box[l]
        BY <2>5, <4>1
      <4> QED BY <4>1, <4>2
    <3> QED BY <2>1, <3>1, <3>2, <3>3
  <2> QED BY <2>1, <2>4, <2>6, <2>7, <2>8
<1> QED BY <1>1, <1>2

(* MQTT_EVENT_PUBLISHED takes the message out.                              *)
LEMMA AckedOK ==
    ASSUME NEW box, NEW ack, NEW last, NEW next, NEW seen, OutboxOK(box, ack, last, next, seen),
           ack # <<>>
    PROVE  OutboxOK(Without(box, Head(ack)), Tail(ack), Head(ack), next, seen)
<1> DEFINE b == Without(box, Head(ack))
           a == Tail(ack)
<1>1. /\ box \in Seq(Messages) /\ Len(box) <= OUTBOX /\ ack \in Seq(Nat)
      /\ next \in Nat \ {0} /\ seen \in SUBSET Statuses
      /\ \A i \in 1..Len(box) : box[i].id < next
      /\ \A i \in 1..Len(ack) : ack[i] < next
      /\ \A i, j \in 1..Len(box) : i # j => box[i].id # box[j].id
      /\ \A i \in 1..Len(ack), j \in 1..Len(box) :
            box[j].id = ack[i] /\ box[j].status.state \in FinalStates => box[j].status \in seen
  BY DEF OutboxOK
<1>2. /\ b \in Seq(Messages) /\ Len(b) <= Len(box) /\ Len(b) \in Nat
      /\ \A i \in 1..Len(b) : \E k \in 1..Len(box) : b[i] = box[k]
      /\ \A i, j \in 1..Len(b) : i # j => b[i].id # b[j].id
  BY <1>1, WithoutFacts
<1>3. /\ a \in Seq(Nat) /\ \A i \in 1..Len(a) : i + 1 \in 1..Len(ack) /\ a[i] = ack[i + 1]
      /\ Head(ack) = ack[1] /\ 1 \in 1..Len(ack)
  BY <1>1
<1>4. Head(ack) \in -1..(next - 1)
  <2>1. ack[1] \in Nat /\ ack[1] < next
    BY <1>1, <1>3
  <2> QED BY <1>1, <1>3, <2>1
<1> HIDE DEF a, b
<1>5. \A i \in 1..Len(b) : b[i].id < next
  BY <1>1, <1>2
<1>6. \A i \in 1..Len(a) : a[i] < next
  BY <1>1, <1>3
<1>7. \A i \in 1..Len(a), j \in 1..Len(b) :
         b[j].id = a[i] /\ b[j].status.state \in FinalStates => b[j].status \in seen
  <2> SUFFICES ASSUME NEW i \in 1..Len(a), NEW j \in 1..Len(b), b[j].id = a[i],
                      b[j].status.state \in FinalStates
               PROVE  b[j].status \in seen
    OBVIOUS
  <2>1. PICK k \in 1..Len(box) : b[j] = box[k]
    BY <1>2
  <2>2. i + 1 \in 1..Len(ack) /\ a[i] = ack[i + 1]
    BY <1>3
  <2> QED BY <1>1, <2>1, <2>2
<1>8. Len(b) <= OUTBOX
  BY <1>1, <1>2
<1>9. OutboxOK(b, a, Head(ack), next, seen)
  BY <1>1, <1>2, <1>3, <1>4, <1>5, <1>6, <1>7, <1>8 DEF OutboxOK
<1> QED BY <1>9 DEF a, b

(* The wait goes on, or has found its message.                              *)
LEMMA AckedWait ==
    ASSUME NEW box, NEW ack, NEW last, NEW next, NEW seen, OutboxOK(box, ack, last, next, seen),
           ack # <<>>, NEW m, m.status.state \in FinalStates, WaitOK(m, box, ack, last, seen)
    PROVE  WaitOK(m, Without(box, Head(ack)), Tail(ack), Head(ack), seen)
<1> DEFINE b == Without(box, Head(ack))
           a == Tail(ack)
<1>1. /\ box \in Seq(Messages) /\ ack \in Seq(Nat)
      /\ \A i, j \in 1..Len(box) : i # j => box[i].id # box[j].id
      /\ \A i \in 1..Len(ack), j \in 1..Len(box) :
            box[j].id = ack[i] /\ box[j].status.state \in FinalStates => box[j].status \in seen
  BY DEF OutboxOK
<1> HIDE DEF b
<1>2. /\ \A i \in 1..Len(b) : \E k \in 1..Len(box) : b[i] = box[k]
      /\ \A k \in 1..Len(box) : box[k].id # Head(ack) => \E i \in 1..Len(b) : b[i] = box[k]
  <2>1. b = Without(box, Head(ack))
    BY DEF b
  <2>2. /\ box \in Seq(Messages)
        /\ \A i, j \in 1..Len(box) : i # j => box[i].id # box[j].id
    BY <1>1
  <2> DEFINE h == Head(ack)
  <2>3. b = Without(box, h)
    BY <2>1
  <2> HIDE DEF a, h
  <2>4. /\ \A i \in 1..Len(b) : \E k \in 1..Len(box) : b[i] = box[k]
        /\ \A k \in 1..Len(box) : box[k].id # h => \E i \in 1..Len(b) : b[i] = box[k]
    BY ONLY <2>2, <2>3, WithoutFacts
  <2> QED BY <2>4 DEF h
<1>3. /\ \A i \in 1..Len(a) : i + 1 \in 1..Len(ack) /\ a[i] = ack[i + 1]
      /\ Head(ack) = ack[1] /\ 1 \in 1..Len(ack)
  BY <1>1
<1> HIDE DEF a, b
<1>4. Head(ack) = m.id => m.status \in seen
  BY <1>3 DEF WaitOK
<1>5. \A i \in 1..Len(a) : a[i] = m.id => m.status \in seen
  BY <1>3 DEF WaitOK
<1>6. \A i \in 1..Len(b) : b[i].id = m.id => b[i].status = m.status
  BY <1>2 DEF WaitOK
<1>7. m.status \in seen \/ \E i \in 1..Len(b) : b[i].status = m.status
  <2> SUFFICES ASSUME m.status \notin seen PROVE \E i \in 1..Len(b) : b[i].status = m.status
    OBVIOUS
  <2>1. PICK k \in 1..Len(box) : box[k].status = m.status
    BY DEF WaitOK
  <2>2. box[k].id # Head(ack)
    BY <1>1, <1>3, <2>1
  <2> QED BY <1>2, <2>1, <2>2
<1>8. WaitOK(m, b, a, Head(ack), seen)
  BY <1>4, <1>5, <1>6, <1>7 DEF WaitOK
<1> QED BY <1>8 DEF a, b

(* The link is lost: everything that waits is sent again.                   *)
LEMMA UnsentOK ==
    ASSUME NEW box, NEW ack, NEW last, NEW next, NEW seen, OutboxOK(box, ack, last, next, seen)
    PROVE  LET b == [i \in 1..Len(box) |-> [box[i] EXCEPT !.sent = FALSE]]
           IN  /\ OutboxOK(b, <<>>, last, next, seen)
               /\ \A m : WaitOK(m, box, ack, last, seen) => WaitOK(m, b, <<>>, last, seen)
<1> DEFINE b == [i \in 1..Len(box) |-> [box[i] EXCEPT !.sent = FALSE]]
<1>1. box \in Seq(Messages) /\ Len(box) \in Nat
  BY DEF OutboxOK
<1>2. \A i \in 1..Len(box) :
         /\ [box[i] EXCEPT !.sent = FALSE] \in Messages
         /\ [box[i] EXCEPT !.sent = FALSE].id = box[i].id
         /\ [box[i] EXCEPT !.sent = FALSE].status = box[i].status
  <2> SUFFICES ASSUME NEW i \in 1..Len(box)
               PROVE  /\ [box[i] EXCEPT !.sent = FALSE] \in Messages
                      /\ [box[i] EXCEPT !.sent = FALSE].id = box[i].id
                      /\ [box[i] EXCEPT !.sent = FALSE].status = box[i].status
    OBVIOUS
  <2>1. box[i] \in Messages
    BY <1>1
  <2> QED BY <2>1 DEF Messages
<1>3. /\ b \in Seq(Messages) /\ Len(b) = Len(box)
      /\ \A i \in 1..Len(box) : b[i].id = box[i].id /\ b[i].status = box[i].status
  <2>1. b \in [1..Len(box) -> Messages]
    BY <1>2
  <2>2. \A i \in 1..Len(box) : b[i] = [box[i] EXCEPT !.sent = FALSE]
    OBVIOUS
  <2> HIDE DEF b
  <2>3. b \in Seq(Messages) /\ Len(b) = Len(box)
    BY <1>1, <2>1
  <2> QED BY <1>2, <2>2, <2>3
<1>4. <<>> \in Seq(Nat) /\ Len(<<>>) = 0
  OBVIOUS
<1> HIDE DEF b
<1>5. OutboxOK(b, <<>>, last, next, seen)
  <2>1. /\ next \in Nat \ {0} /\ last \in -1..(next - 1) /\ seen \in SUBSET Statuses
        /\ Len(box) <= OUTBOX /\ \A i \in 1..Len(box) : box[i].id < next
        /\ \A i, j \in 1..Len(box) : i # j => box[i].id # box[j].id
    BY DEF OutboxOK
  <2>2. /\ \A i \in 1..Len(b) : b[i].id < next
        /\ \A i, j \in 1..Len(b) : i # j => b[i].id # b[j].id
    BY <1>3, <2>1
  <2>3. \A i \in 1..Len(<<>>) : FALSE
    BY <1>4
  <2> QED BY <1>3, <1>4, <2>1, <2>2, <2>3 DEF OutboxOK
<1>6. ASSUME NEW m, WaitOK(m, box, ack, last, seen) PROVE WaitOK(m, b, <<>>, last, seen)
  BY <1>3, <1>4, <1>6 DEF WaitOK
<1> QED BY <1>5, <1>6 DEF b

(* A message is put into the outbox, and sent at once or not.               *)
LEMMA QueuedOK ==
    ASSUME NEW box, NEW ack, NEW last, NEW next, NEW seen, OutboxOK(box, ack, last, next, seen),
           Len(box) < OUTBOX, NEW m \in Messages, m.id = next,
           NEW new \in SUBSET Statuses, seen \subseteq new, NEW recent \in {last, -1},
           NEW a \in {ack, Append(ack, next)},
           a # ack /\ m.status.state \in FinalStates => m.status \in new
    PROVE  OutboxOK(Append(box, m), a, recent, next + 1, new)
<1> DEFINE b == Append(box, m)
<1>1. /\ box \in Seq(Messages) /\ Len(box) <= OUTBOX /\ ack \in Seq(Nat)
      /\ next \in Nat \ {0} /\ last \in -1..(next - 1)
      /\ \A i \in 1..Len(box) : box[i].id < next
      /\ \A i \in 1..Len(ack) : ack[i] < next
      /\ \A i, j \in 1..Len(box) : i # j => box[i].id # box[j].id
      /\ \A i \in 1..Len(ack), j \in 1..Len(box) :
            box[j].id = ack[i] /\ box[j].status.state \in FinalStates => box[j].status \in seen
  BY DEF OutboxOK
<1>2. /\ b \in Seq(Messages) /\ Len(b) = Len(box) + 1 /\ b[Len(box) + 1] = m
      /\ \A i \in 1..Len(box) : b[i] = box[i]
  BY <1>1
<1>3. /\ a \in Seq(Nat)
      /\ \A i \in 1..Len(a) : (i \in 1..Len(ack) /\ a[i] = ack[i]) \/ (a[i] = next /\ a # ack)
  <2>1. CASE a = ack
    BY <1>1, <2>1
  <2>2. CASE a = Append(ack, next)
    <3>1. /\ a \in Seq(Nat) /\ Len(a) = Len(ack) + 1 /\ a[Len(ack) + 1] = next
          /\ \A i \in 1..Len(ack) : a[i] = ack[i]
      BY <1>1, <2>2
    <3>2. a # ack
      BY <1>1, <3>1
    <3>3. \A i \in 1..Len(a) : i \in 1..Len(ack) \/ i = Len(ack) + 1
      BY <1>1, <3>1
    <3> QED BY <3>1, <3>2, <3>3
  <2> QED BY <2>1, <2>2
<1> HIDE DEF b
<1>4. \A i \in 1..Len(b) : i \in 1..Len(box) \/ i = Len(box) + 1
  BY <1>1, <1>2
<1>5. \A i \in 1..Len(box) : box[i].id \in Nat
  BY <1>1, MessageFields
<1>6. \A i \in 1..Len(b) : b[i].id < next + 1
  <2> SUFFICES ASSUME NEW i \in 1..Len(b) PROVE b[i].id < next + 1
    OBVIOUS
  <2>1. CASE i \in 1..Len(box)
    <3>1. b[i] = box[i] /\ box[i].id \in Nat /\ box[i].id < next /\ next \in Nat
      BY <1>1, <1>2, <1>5, <2>1
    <3> QED BY <3>1
  <2>2. CASE i = Len(box) + 1
    BY <1>1, <1>2, <2>2
  <2> QED BY <1>4, <2>1, <2>2
<1>7. \A i \in 1..Len(a) : a[i] < next + 1
  <2> SUFFICES ASSUME NEW i \in 1..Len(a) PROVE a[i] < next + 1
    OBVIOUS
  <2>1. a[i] \in Nat /\ next \in Nat /\ (a[i] < next \/ a[i] = next)
    BY <1>1, <1>3
  <2> QED BY <2>1
<1>8. \A i, j \in 1..Len(b) : i # j => b[i].id # b[j].id
  <2> SUFFICES ASSUME NEW i \in 1..Len(b), NEW j \in 1..Len(b), i # j PROVE b[i].id # b[j].id
    OBVIOUS
  <2>1. CASE i \in 1..Len(box) /\ j \in 1..Len(box)
    BY <1>1, <1>2, <2>1
  <2>2. CASE i \in 1..Len(box) /\ j = Len(box) + 1
    <3>1. /\ b[i] = box[i] /\ box[i].id \in Nat /\ box[i].id < next /\ next \in Nat
          /\ b[j].id = next
      BY <1>1, <1>2, <1>5, <2>2
    <3> QED BY <3>1
  <2>3. CASE i = Len(box) + 1 /\ j \in 1..Len(box)
    <3>1. /\ b[j] = box[j] /\ box[j].id \in Nat /\ box[j].id < next /\ next \in Nat
          /\ b[i].id = next
      BY <1>1, <1>2, <1>5, <2>3
    <3> QED BY <3>1
  <2> QED BY <1>4, <2>1, <2>2, <2>3
<1>9. ASSUME NEW i \in 1..Len(a), NEW j \in 1..Len(b), b[j].id = a[i],
             b[j].status.state \in FinalStates
      PROVE  b[j].status \in new
  <2>1. CASE j \in 1..Len(box)
    <3>1. b[j] = box[j] /\ box[j].id < next /\ box[j].id \in Nat
      BY <1>1, <1>2, <1>5, <2>1
    <3>2. a[i] # next
      <4>1. a[i] < next /\ a[i] \in Nat /\ next \in Nat
        BY <1>1, <1>9, <3>1
      <4> QED BY <4>1
    <3>3. i \in 1..Len(ack) /\ a[i] = ack[i]
      BY <1>3, <3>2
    <3> QED BY <1>1, <1>9, <2>1, <3>1, <3>3
  <2>2. CASE j = Len(box) + 1
    <3>1. b[j] = m
      BY <1>2, <2>2
    <3>2. a # ack
      BY <1>1, <1>3, <1>9, <3>1
    <3> QED BY <1>9, <3>1, <3>2
  <2> QED BY <1>4, <2>1, <2>2
<1>10. recent \in -1..(next + 1 - 1) /\ next + 1 \in Nat \ {0} /\ Len(b) <= OUTBOX
  BY <1>1, <1>2
<1>11. OutboxOK(b, a, recent, next + 1, new)
  BY <1>2, <1>3, <1>6, <1>7, <1>8, <1>9, <1>10 DEF OutboxOK
<1> QED BY <1>11 DEF b

(* The wait for that message begins.                                        *)
LEMMA QueuedWait ==
    ASSUME NEW box, NEW ack, NEW last, NEW next, NEW seen, OutboxOK(box, ack, last, next, seen),
           NEW m \in Messages, m.id = next, NEW new,
           NEW a \in {ack, Append(ack, next)}, a # ack => m.status \in new,
           NEW w, w.id = next, w.status = m.status
    PROVE  WaitOK(w, Append(box, m), a, -1, new)
<1> DEFINE b == Append(box, m)
<1>1. /\ box \in Seq(Messages) /\ ack \in Seq(Nat) /\ next \in Nat \ {0}
      /\ \A i \in 1..Len(box) : box[i].id < next
      /\ \A i \in 1..Len(ack) : ack[i] < next
  BY DEF OutboxOK
<1>2. /\ Len(b) = Len(box) + 1 /\ b[Len(box) + 1] = m
      /\ \A i \in 1..Len(box) : b[i] = box[i]
  BY <1>1
<1>3. \A i \in 1..Len(b) : i \in 1..Len(box) \/ i = Len(box) + 1
  BY <1>1, <1>2
<1>4. \A i \in 1..Len(a) : a[i] = next => a # ack
  BY <1>1
<1>5. \A i \in 1..Len(box) : box[i].id \in Nat
  BY <1>1, MessageFields
<1> HIDE DEF b
<1>6. \A i \in 1..Len(b) : b[i].id = next => b[i].status = m.status
  BY <1>1, <1>2, <1>3, <1>5
<1>7. \E i \in 1..Len(b) : b[i].status = m.status
  <2>1. Len(box) + 1 \in 1..Len(b)
    BY <1>1, <1>2
  <2> QED BY <1>2, <2>1
<1>8. WaitOK(w, b, a, -1, new)
  BY <1>1, <1>4, <1>6, <1>7 DEF WaitOK
<1> QED BY <1>8 DEF b

-----------------------------------------------------------------------------
(* The reassembly of a command.                                             *)

(* Bytes of a message that follow each other.                               *)
LEMMA BytesFacts ==
    ASSUME NEW p, NEW o \in Nat, NEW n \in Nat
    PROVE  /\ Bytes(p, 0, 0) = <<>> /\ Len(Bytes(p, o, n)) = n
           /\ Bytes(p, 0, o) \o Bytes(p, o, n) = Bytes(p, 0, o + n)
           /\ n > 0 => Bytes(p, 0, n)[1] = <<p, 0>>
<1> DEFINE S == {<<p, i>> : i \in Nat}
           x == Bytes(p, 0, o)
           y == Bytes(p, o, n)
           z == Bytes(p, 0, o + n)
<1>1. \A from, k \in Nat : Bytes(p, from, k) \in Seq(S) /\ Len(Bytes(p, from, k)) = k
  <2> SUFFICES ASSUME NEW from \in Nat, NEW k \in Nat
               PROVE  Bytes(p, from, k) \in Seq(S) /\ Len(Bytes(p, from, k)) = k
    OBVIOUS
  <2>1. \A i \in 1..k : from + i - 1 \in Nat
    OBVIOUS
  <2>2. \A i \in 1..k : <<p, from + i - 1>> \in S
    BY <2>1
  <2> DEFINE b == Bytes(p, from, k)
  <2>3. b \in [1..k -> S]
    BY <2>2 DEF Bytes
  <2> HIDE DEF S, b
  <2>4. b \in Seq(S) /\ Len(b) = k
    BY <2>3
  <2> QED BY <2>4 DEF b
<1>2. /\ x \in Seq(S) /\ Len(x) = o /\ y \in Seq(S) /\ Len(y) = n
      /\ z \in Seq(S) /\ Len(z) = o + n
  <2>1. 0 \in Nat /\ o + n \in Nat
    OBVIOUS
  <2> HIDE DEF S
  <2> QED BY <1>1, <2>1
<1>3. /\ \A i \in 1..o : x[i] = <<p, i - 1>>
      /\ \A i \in 1..n : y[i] = <<p, o + i - 1>>
      /\ \A i \in 1..(o + n) : z[i] = <<p, i - 1>>
  BY DEF Bytes
<1>4. Bytes(p, 0, 0) = <<>>
  BY DEF Bytes
<1> HIDE DEF S, x, y, z
<1>5. x \o y = z
  <2>1. x \o y \in Seq(S) /\ Len(x \o y) = o + n
    BY <1>2
  <2>2. ASSUME NEW i \in 1..(o + n) PROVE (x \o y)[i] = z[i]
    <3>0. i <= o \/ i > o
      OBVIOUS
    <3>1. CASE i <= o
      <4>1. i \in 1..o /\ (x \o y)[i] = x[i]
        BY <1>2, <3>1
      <4> QED BY <1>3, <4>1
    <3>2. CASE i > o
      <4>1. i - o \in 1..n /\ (x \o y)[i] = y[i - o]
        BY <1>2, <3>2
      <4>2. y[i - o] = <<p, o + (i - o) - 1>> /\ z[i] = <<p, i - 1>>
        BY <1>3, <4>1
      <4>3. o + (i - o) - 1 = i - 1
        OBVIOUS
      <4>4. <<p, o + (i - o) - 1>> = <<p, i - 1>>
        BY <4>3
      <4> QED BY <4>1, <4>2, <4>4
    <3> QED BY <3>0, <3>1, <3>2, Zenon
  <2> QED BY <1>2, <2>1, <2>2, SeqEqual
<1>6. n > 0 => Bytes(p, 0, n)[1] = <<p, 0>>
  BY DEF Bytes
<1> QED BY <1>2, <1>4, <1>5, <1>6 DEF x, y, z

(* The fragment that HandleData works on, and what it becomes.              *)
LEMMA FragmentMoves ==
    ASSUME MqttInv, Data
    PROVE  LET p == delivery.payload
               left == p.length - delivery.offset
               n == IF left < FRAGMENT THEN left ELSE FRAGMENT
           IN  /\ p \in Payloads /\ p.length \in Nat
               /\ Relevant(p) =>
                     IF n = left
                       THEN /\ fragment' = NoFragment /\ delivery' = NoDelivery
                            /\ command_queue' = Offered(Held(p, p.length))
                       ELSE /\ fragment' = Held(p, delivery.offset + n)
                            /\ delivery' = [payload |-> p, offset |-> delivery.offset + n]
                            /\ UNCHANGED command_queue
               /\ ~Relevant(p) => fragment' = NoFragment /\ UNCHANGED command_queue
               /\ FragmentOK(fragment', delivery')
<1> DEFINE p == delivery.payload
           o == delivery.offset
           left == p.length - o
           n == IF left < FRAGMENT THEN left ELSE FRAGMENT
           f == IF o = 0 THEN Started(p, fragment) ELSE fragment
           g == Appended(p, o, n, f)
<1>1. /\ delivery # NoDelivery /\ HandleData(p, o, n)
      /\ delivery' = IF n = left THEN NoDelivery ELSE [delivery EXCEPT !.offset = @ + n]
  BY DEF Data
<1>2. /\ p \in Payloads /\ p.length \in Nat /\ o \in Nat
      /\ o = 0 \/ o < p.length
      /\ fragment = IF o # 0 /\ Relevant(p) THEN Held(p, o) ELSE NoFragment
      /\ (n # left => delivery' = [payload |-> p, offset |-> o + n])
  <2>1. FragmentOK(fragment, delivery)
    BY DEF MqttInv
  <2>2. /\ p \in Payloads /\ o \in Nat /\ (o = 0 \/ o < p.length)
        /\ fragment = IF o # 0 /\ Relevant(p) THEN Held(p, o) ELSE NoFragment
        /\ delivery = [payload |-> p, offset |-> o]
    BY <1>1, <2>1 DEF FragmentOK
  <2>3. n # left => delivery' = [payload |-> p, offset |-> o + n]
    <3> HIDE DEF p, o, n, left
    <3> QED BY <1>1, <2>2
  <2> QED BY <2>2, <2>3
<1>3. /\ n \in Nat /\ left \in Nat /\ n <= left /\ o + n <= p.length
      /\ (n = left <=> o + n = p.length) /\ (n # left => n > 0)
  BY <1>2
<1> HIDE DEF p, o, n, left
<1>4. ASSUME Relevant(p)
      PROVE  /\ n = left => /\ fragment' = NoFragment /\ delivery' = NoDelivery
                            /\ command_queue' = Offered(Held(p, p.length))
             /\ n # left => /\ fragment' = Held(p, o + n) /\ UNCHANGED command_queue
  <2>1. f = Held(p, o)
    <3>1. CASE o = 0
      <4>1. Bytes(p, 0, 0) = <<>>
        BY BytesFacts
      <4> QED BY <1>4, <3>1, <4>1 DEF Started, ResetFragment, NoFragment, Held, Relevant
    <3>2. CASE o # 0
      BY <1>2, <1>4, <3>2
    <3> QED BY <3>1, <3>2
  <2>2. Continues(p, o, n, f)
    BY <1>2, <1>3, <2>1 DEF Continues, Held
  <2>3. g = Held(p, o + n)
    <3>1. Bytes(p, 0, o) \o Bytes(p, o, n) = Bytes(p, 0, o + n)
      BY <1>2, <1>3, BytesFacts
    <3>2. Appended(p, o, n, Held(p, o)) = Held(p, o + n)
      BY <3>1 DEF Appended, Held
    <3> HIDE DEF f
    <3> QED BY <2>1, <3>2
  <2>4. g.received = o + n /\ g.total = p.length
    BY <2>3 DEF Held
  <2>5. CASE n = left
    <3>1. g.received = g.total /\ g = Held(p, p.length)
      BY <1>3, <2>3, <2>4, <2>5
    <3>2. fragment' = ResetFragment(g) /\ command_queue' = Offered(g)
      BY <1>1, <2>2, <3>1 DEF HandleData
    <3> QED BY <1>1, <2>5, <3>1, <3>2 DEF ResetFragment
  <2>6. CASE n # left
    <3>1. g.received # g.total
      BY <1>3, <2>4, <2>6
    <3>2. fragment' = g /\ UNCHANGED command_queue
      BY <1>1, <2>2, <3>1 DEF HandleData
    <3> QED BY <2>3, <2>6, <3>2
  <2> QED BY <2>5, <2>6
<1>5. ASSUME ~Relevant(p) PROVE fragment' = NoFragment /\ UNCHANGED command_queue
  <2>1. f = NoFragment
    BY <1>2, <1>5 DEF Started, ResetFragment, Relevant
  <2>2. ~Continues(p, o, n, f)
    BY <2>1 DEF Continues, NoFragment
  <2> QED BY <1>1, <2>2 DEF HandleData, ResetFragment
<1>6. FragmentOK(fragment', delivery')
  <2>1. CASE n = left
    <3>1. delivery' = NoDelivery /\ fragment' = NoFragment
      BY <1>1, <1>4, <1>5, <2>1
    <3>2. NoDelivery.offset = 0
      BY DEF NoDelivery
    <3> QED BY <3>1, <3>2 DEF FragmentOK
  <2>2. CASE n # left
    <3>1. /\ delivery'.payload = p /\ delivery'.offset = o + n
          /\ o + n \in Nat /\ o + n # 0 /\ o + n < p.length
      BY <1>2, <1>3, <2>2
    <3> QED BY <1>2, <1>4, <1>5, <2>2, <3>1 DEF FragmentOK
  <2> QED BY <2>1, <2>2
<1> QED BY <1>1, <1>2, <1>4, <1>5, <1>6 DEF p, o, n, left

(* A complete message is queued, or not.                                    *)
LEMMA OfferedFacts ==
    ASSUME MqttInv, NEW p \in Payloads
    PROVE  /\ Offered(Held(p, p.length)) \in Seq(Commands)
           /\ Len(Offered(Held(p, p.length))) <= COMMAND_QUEUE_LENGTH
           /\ command_queue = <<>> /\ ParseCommandJson(p.json) =>
                 Offered(Held(p, p.length)) = <<p.json>>
<1> DEFINE f == Held(p, p.length)
<1>1. p.length \in Nat /\ p.json \in Commands
  BY DEF Commands
<1>2. f.buffer = Whole(p) /\ Len(Whole(p)) = p.length
  BY <1>1, BytesFacts DEF Held, Whole
<1>3. p.length > 0 => f.buffer[1][1].json = p.json
  <2>1. p.length > 0 => f.buffer[1] = <<p, 0>>
    BY <1>1, <1>2, BytesFacts DEF Whole
  <2> QED BY <2>1
<1>4. command_queue \in Seq(Commands) /\ Len(command_queue) <= COMMAND_QUEUE_LENGTH
  BY DEF MqttInv
<1>5. \A q \in Payloads : f.buffer = Whole(q) /\ ParseCommandJson(q.json) => p.length > 0
  <2> SUFFICES ASSUME NEW q \in Payloads, f.buffer = Whole(q), ParseCommandJson(q.json)
               PROVE  p.length > 0
    OBVIOUS
  <2>1. q.length \in Nat /\ q.length > 0
    BY DEF ParseCommandJson
  <2>2. Len(Whole(q)) = q.length
    BY <2>1, BytesFacts DEF Whole
  <2> QED BY <1>2, <2>1, <2>2
<1> HIDE DEF f
<1>6. CASE /\ \E q \in Payloads : f.buffer = Whole(q) /\ ParseCommandJson(q.json)
           /\ Len(command_queue) < COMMAND_QUEUE_LENGTH
  <2>1. Offered(f) = Append(command_queue, p.json)
    BY <1>3, <1>5, <1>6 DEF Offered
  <2>2. command_queue = <<>> => Append(command_queue, p.json) = <<p.json>>
    OBVIOUS
  <2> QED BY <1>1, <1>4, <1>6, <2>1, <2>2 DEF COMMAND_QUEUE_LENGTH, f
<1>7. CASE ~(/\ \E q \in Payloads : f.buffer = Whole(q) /\ ParseCommandJson(q.json)
             /\ Len(command_queue) < COMMAND_QUEUE_LENGTH)
  <2>1. Offered(f) = command_queue
    BY <1>7 DEF Offered
  <2>2. command_queue = <<>> => Len(command_queue) < COMMAND_QUEUE_LENGTH
    BY DEF COMMAND_QUEUE_LENGTH
  <2> QED BY <1>2, <1>4, <1>7, <2>1, <2>2 DEF f
<1> QED BY <1>6, <1>7

(* The broker takes a status.                                               *)
LEMMA ReceivedFacts ==
    ASSUME MqttInv, NEW s \in Statuses
    PROVE  /\ Received(s) \in [retained : Statuses, seen : SUBSET Statuses]
           /\ broker.seen \subseteq Received(s).seen
           /\ s.state \in FinalStates => s \in Received(s).seen
BY DEF MqttInv, Received

-----------------------------------------------------------------------------
(* Steps of the client's task, of the link and of the broker.               *)

(* Steps that leave the messages alone.                                     *)
MessagesKept == UNCHANGED <<outbox, next_id, acks, last_published_message_id, broker>>

(* What every step of the client's task, of the link and of the broker      *)
(* keeps: the invariant, what is known of a final message, and what the     *)
(* broker has seen.                                                         *)
Kept(m) ==
    /\ MqttInv' /\ next_id' = next_id /\ broker.seen \subseteq broker'.seen
    /\ m.status.state \in FinalStates
          /\ WaitOK(m, outbox, acks, last_published_message_id, broker.seen) =>
       WaitOK(m, outbox', acks', last_published_message_id', broker'.seen)

(* A step that leaves the messages alone keeps the rest.                    *)
LEMMA QuietKept ==
    ASSUME MqttInv, MessagesKept, NEW m,
           client' \in {"none", "started", "destroyed"}, link' \in BOOLEAN,
           events' \subseteq {CONNECTED_BIT, READY_BIT, PUBLISHED_BIT},
           command_queue' \in Seq(Commands), Len(command_queue') <= COMMAND_QUEUE_LENGTH,
           FragmentOK(fragment', delivery')
    PROVE  Kept(m)
BY DEF MqttInv, MessagesKept, Kept

(* MQTT_EVENT_CONNECTED.                                                    *)
LEMMA ConnectedKeeps == ASSUME MqttInv, Connected, NEW m PROVE Kept(m)
BY QuietKept DEF MqttInv, Connected, MessagesKept

(* MQTT_EVENT_SUBSCRIBED.                                                   *)
LEMMA SubscribedKeeps == ASSUME MqttInv, Subscribed, NEW m PROVE Kept(m)
BY QuietKept DEF MqttInv, Subscribed, MessagesKept

(* MQTT_EVENT_PUBLISHED, its second statement.                              *)
LEMMA PublishedBitKeeps == ASSUME MqttInv, PublishedBit, NEW m PROVE Kept(m)
BY QuietKept DEF MqttInv, PublishedBit, MessagesKept

(* xEventGroupWaitBits clears the bit.                                      *)
LEMMA TakeBitKeeps == ASSUME MqttInv, TakePublishedBit, NEW m PROVE Kept(m)
BY QuietKept DEF MqttInv, TakePublishedBit, MessagesKept

(* The broker begins to deliver a message.                                  *)
LEMMA DeliverKeeps ==
    ASSUME MqttInv, NEW p \in Payloads, Deliver(p), NEW m PROVE Kept(m)
<1>1. FragmentOK(fragment', delivery')
  <2>1. FragmentOK(fragment, delivery) /\ delivery = NoDelivery
    BY DEF MqttInv, Deliver
  <2>2. fragment = NoFragment
    BY <2>1 DEF FragmentOK, NoDelivery
  <2>3. delivery' = [payload |-> p, offset |-> 0] /\ UNCHANGED fragment
    BY DEF Deliver
  <2> QED BY <2>2, <2>3 DEF FragmentOK
<1> QED BY <1>1, QuietKept DEF MqttInv, Deliver, MessagesKept

(* MQTT_EVENT_DATA.                                                         *)
LEMMA DataKeeps == ASSUME MqttInv, Data, NEW m PROVE Kept(m)
<1>1. FragmentOK(fragment', delivery')
  BY FragmentMoves
<1>2. command_queue' \in Seq(Commands) /\ Len(command_queue') <= COMMAND_QUEUE_LENGTH
  <2>1. command_queue' = command_queue
        \/ command_queue' = Offered(Held(delivery.payload, delivery.payload.length))
    BY FragmentMoves
  <2>2. delivery.payload \in Payloads
    BY FragmentMoves
  <2> QED BY <2>1, <2>2, OfferedFacts DEF MqttInv
<1> QED BY <1>1, <1>2, QuietKept DEF MqttInv, Data, MessagesKept

(* The messages themselves move.                                            *)
LEMMA SendQueuedKeeps == ASSUME MqttInv, SendQueued, NEW m PROVE Kept(m)
<1>1. PICK k \in 1..Len(outbox) :
         /\ outbox' = [outbox EXCEPT ![k].sent = TRUE]
         /\ acks' = Append(acks, outbox[k].id)
         /\ broker' = Received(outbox[k].status)
  BY DEF SendQueued
<1>2. /\ UNCHANGED <<client, link, events, fragment, command_queue, delivery, next_id>>
      /\ UNCHANGED last_published_message_id
  BY DEF SendQueued
<1>3. OutboxOK(outbox, acks, last_published_message_id, next_id, broker.seen)
  BY DEF MqttInv
<1>4. outbox[k].status \in Statuses
  BY <1>3, MessageFields DEF OutboxOK
<1>5. /\ broker' \in [retained : Statuses, seen : SUBSET Statuses]
      /\ broker.seen \subseteq broker'.seen /\ broker'.seen \in SUBSET Statuses
      /\ outbox[k].status.state \in FinalStates => outbox[k].status \in broker'.seen
  BY <1>1, <1>4, ReceivedFacts
<1>6. OutboxOK(outbox', acks', last_published_message_id, next_id, broker'.seen)
  BY <1>1, <1>3, <1>5, SentOK
<1>7. m.status.state \in FinalStates
      /\ WaitOK(m, outbox, acks, last_published_message_id, broker.seen) =>
         WaitOK(m, outbox', acks', last_published_message_id, broker'.seen)
  BY <1>1, <1>3, <1>5, SentWait
<1> QED BY <1>2, <1>5, <1>6, <1>7 DEF MqttInv, Kept

(* MQTT_EVENT_PUBLISHED, its first statement.                               *)
LEMMA PublishedIdKeeps == ASSUME MqttInv, PublishedId, NEW m PROVE Kept(m)
<1>1. /\ acks # <<>> /\ acks' = Tail(acks) /\ outbox' = Without(outbox, Head(acks))
      /\ last_published_message_id' = Head(acks)
      /\ UNCHANGED <<client, link, events, fragment, command_queue, delivery, next_id, broker>>
  BY DEF PublishedId
<1>2. OutboxOK(outbox, acks, last_published_message_id, next_id, broker.seen)
  BY DEF MqttInv
<1>3. OutboxOK(outbox', acks', last_published_message_id', next_id, broker.seen)
  BY <1>1, <1>2, AckedOK
<1>4. m.status.state \in FinalStates
      /\ WaitOK(m, outbox, acks, last_published_message_id, broker.seen) =>
         WaitOK(m, outbox', acks', last_published_message_id', broker.seen)
  BY <1>1, <1>2, AckedWait
<1> QED BY <1>1, <1>3, <1>4 DEF MqttInv, Kept

(* MQTT_EVENT_DISCONNECTED.                                                 *)
LEMMA DisconnectedKeeps == ASSUME MqttInv, Disconnected, NEW m PROVE Kept(m)
<1>1. /\ link' = FALSE /\ events' = events \ {CONNECTED_BIT, READY_BIT}
      /\ fragment' = NoFragment /\ delivery' = NoDelivery /\ acks' = <<>>
      /\ outbox' = [i \in 1..Len(outbox) |-> [outbox[i] EXCEPT !.sent = FALSE]]
      /\ UNCHANGED <<client, command_queue, next_id, last_published_message_id, broker>>
  BY DEF Disconnected, ResetFragment
<1>2. OutboxOK(outbox, acks, last_published_message_id, next_id, broker.seen)
  BY DEF MqttInv
<1>3. /\ OutboxOK(outbox', acks', last_published_message_id, next_id, broker.seen)
      /\ WaitOK(m, outbox, acks, last_published_message_id, broker.seen) =>
         WaitOK(m, outbox', acks', last_published_message_id, broker.seen)
  BY <1>1, <1>2, UnsentOK
<1>4. FragmentOK(fragment', delivery')
  BY <1>1 DEF FragmentOK, NoDelivery
<1> QED BY <1>1, <1>3, <1>4 DEF MqttInv, Kept

(* The client's task.                                                       *)
LEMMA MqttTaskKeeps == ASSUME MqttInv, MqttTask, NEW m PROVE Kept(m)
BY ConnectedKeeps, SubscribedKeeps, SendQueuedKeeps, PublishedIdKeeps, PublishedBitKeeps,
   DataKeeps DEF MqttTask

(* The calls of the worker.                                                 *)
LEMMA StartKeeps == ASSUME MqttInv, Start PROVE MqttInv' /\ broker' = broker
BY DEF MqttInv, Start

(* MqttOrchestrator_Stop.                                                   *)
LEMMA StopKeeps == ASSUME MqttInv, Stop PROVE MqttInv' /\ broker' = broker
<1>1. /\ client' = "destroyed" /\ link' = FALSE /\ events' = {} /\ command_queue' = <<>>
      /\ fragment' = NoFragment /\ delivery' = NoDelivery /\ outbox' = <<>> /\ acks' = <<>>
      /\ UNCHANGED <<next_id, last_published_message_id, broker>>
  BY DEF Stop, ResetFragment
<1>2. OutboxOK(outbox, acks, last_published_message_id, next_id, broker.seen)
  BY DEF MqttInv
<1>3. <<>> \in Seq(Messages) /\ <<>> \in Seq(Nat) /\ <<>> \in Seq(Commands) /\ Len(<<>>) = 0
  OBVIOUS
<1>4. OutboxOK(outbox', acks', last_published_message_id, next_id, broker.seen)
  BY <1>1, <1>2, <1>3 DEF OutboxOK
<1>5. FragmentOK(fragment', delivery')
  BY <1>1 DEF FragmentOK, NoDelivery
<1>6. /\ client' \in {"none", "started", "destroyed"} /\ link' \in BOOLEAN
      /\ events' \subseteq {CONNECTED_BIT, READY_BIT, PUBLISHED_BIT}
      /\ broker' \in [retained : Statuses, seen : SUBSET Statuses]
  BY <1>1 DEF MqttInv
<1>7. command_queue' \in Seq(Commands) /\ Len(command_queue') <= COMMAND_QUEUE_LENGTH
  BY <1>1, <1>3 DEF COMMAND_QUEUE_LENGTH
<1>8. OutboxOK(outbox, acks, last_published_message_id, next_id, broker.seen)'
  BY <1>1, <1>4
<1> QED BY <1>1, <1>5, <1>6, <1>7, <1>8 DEF MqttInv

(* MqttOrchestrator_WaitCommand.                                            *)
LEMMA WaitCommandKeeps ==
    ASSUME MqttInv, WaitCommand
    PROVE  MqttInv' /\ broker' = broker /\ Head(command_queue) \in Commands
<1>1. /\ command_queue # <<>> /\ command_queue \in Seq(Commands)
      /\ Len(command_queue) <= COMMAND_QUEUE_LENGTH
  BY DEF MqttInv, WaitCommand
<1>2. /\ Head(command_queue) \in Commands /\ Tail(command_queue) \in Seq(Commands)
      /\ Len(Tail(command_queue)) <= COMMAND_QUEUE_LENGTH
  BY <1>1 DEF COMMAND_QUEUE_LENGTH
<1> QED BY <1>2 DEF MqttInv, WaitCommand

(* MqttOrchestrator_PublishStatus.                                          *)
LEMMA PublishStatusKeeps ==
    ASSUME MqttInv, NEW s \in Statuses, PublishStatus(s) PROVE MqttInv' /\ broker' = broker
<1>1. /\ Len(outbox) < OUTBOX /\ outbox' = Append(outbox, Message(s, FALSE))
      /\ next_id' = next_id + 1
      /\ UNCHANGED <<client, link, events, fragment, command_queue, delivery, acks,
                     last_published_message_id, broker>>
  BY DEF PublishStatus, HasRoom
<1>2. /\ OutboxOK(outbox, acks, last_published_message_id, next_id, broker.seen)
      /\ next_id \in Nat /\ broker.seen \in SUBSET Statuses
  BY DEF MqttInv, OutboxOK
<1>3. Message(s, FALSE) \in Messages /\ Message(s, FALSE).id = next_id
  BY <1>2 DEF Message, Messages
<1>4. OutboxOK(outbox', acks', last_published_message_id', next_id', broker.seen)
  BY <1>1, <1>2, <1>3, QueuedOK
<1> QED BY <1>1, <1>4 DEF MqttInv

(* PublishStatusAndWait publishes, and the wait begins.                     *)
LEMMA PublishAndClearKeeps ==
    ASSUME MqttInv, NEW s \in Statuses, s.state \in FinalStates, PublishAndClear(s)
    PROVE  /\ MqttInv' /\ broker.seen \subseteq broker'.seen
           /\ next_id < next_id' /\ next_id \in Nat
           /\ WaitOK([id |-> next_id, status |-> s], outbox', acks',
                     last_published_message_id', broker'.seen)
<1> DEFINE m == Message(s, link)
           w == [id |-> next_id, status |-> s]
<1>1. /\ Len(outbox) < OUTBOX /\ outbox' = Append(outbox, m) /\ next_id' = next_id + 1
      /\ events' = events \ {PUBLISHED_BIT} /\ last_published_message_id' = -1
      /\ acks' = IF link THEN Append(acks, next_id) ELSE acks
      /\ broker' = IF link THEN Received(s) ELSE broker
      /\ UNCHANGED <<client, link, fragment, command_queue, delivery>>
  BY DEF PublishAndClear, HasRoom
<1>2. /\ OutboxOK(outbox, acks, last_published_message_id, next_id, broker.seen)
      /\ next_id \in Nat /\ broker \in [retained : Statuses, seen : SUBSET Statuses]
      /\ link \in BOOLEAN /\ acks \in Seq(Nat)
  BY DEF MqttInv, OutboxOK
<1>3. /\ broker' \in [retained : Statuses, seen : SUBSET Statuses]
      /\ broker.seen \subseteq broker'.seen /\ broker'.seen \in SUBSET Statuses
      /\ link => s \in broker'.seen
  BY <1>1, <1>2, ReceivedFacts
<1>4. m \in Messages /\ m.id = next_id /\ m.status = s
  BY <1>2 DEF Message, Messages
<1>5. acks' \in {acks, Append(acks, next_id)} /\ (acks' # acks => link)
  BY <1>1
<1> HIDE DEF m
<1>6. OutboxOK(outbox', acks', last_published_message_id', next_id', broker'.seen)
  BY <1>1, <1>2, <1>3, <1>4, <1>5, QueuedOK
<1>7. w.id = next_id /\ w.status = s
  OBVIOUS
<1> HIDE DEF w
<1>8. WaitOK(w, outbox', acks', last_published_message_id', broker'.seen)
  BY <1>1, <1>2, <1>3, <1>4, <1>5, <1>7, QueuedWait
<1> QED BY <1>1, <1>2, <1>3, <1>6, <1>8 DEF MqttInv, w

(* The outbox is full.                                                      *)
LEMMA PublishRefusedKeeps ==
    ASSUME MqttInv, PublishRefused PROVE MqttInv' /\ broker' = broker
<1>1. OutboxOK(outbox, acks, -1, next_id, broker.seen)
  BY DEF MqttInv, OutboxOK
<1> QED BY <1>1 DEF MqttInv, PublishRefused

-----------------------------------------------------------------------------
(* The worker.                                                              *)

(* The statuses of the command that is being processed.                     *)
LEMMA StatusOK ==
    ASSUME command \in Commands,
           NEW s \in {"accepted", "downloaded", "installing", "confirmed", "failed"}
    PROVE  Status(s) \in Statuses /\ Status(s).state = s
BY DEF Status, Statuses, Ids, Targets

(* Statuses before anything is known.                                       *)
LEMMA NothingYet ==
    /\ NoStatus \in Statuses /\ NoStatus.state = "none"
    /\ [NoStatus EXCEPT !.state = "online"] \in Statuses
    /\ NoWait \in [id : Nat, status : Statuses]
<1>1. NoStatus \in Statuses /\ NoStatus.state = "none"
  BY DEF NoStatus, Statuses, Ids, Targets
<1>2. [NoStatus EXCEPT !.state = "online"] \in Statuses
  BY <1>1 DEF Statuses
<1> QED BY <1>1, <1>2 DEF NoWait

(* GatewayManager_Run up to its loop.                                       *)
LEMMA RunKeeps == ASSUME Inv, Run PROVE Inv'
<1>1. MqttInv /\ WorkerTypes /\ OrderInv /\ ReportInv
  BY DEF Inv
<1>2. /\ wpc \in Starting /\ wpc' \in Starting \cup {"wait", "returned"}
      /\ UNCHANGED <<command, node, waiting, result, refused, settled, hidden>>
  BY DEF Run, ValidateConfiguration, Wifi, Time, StartMqtt, StartReady, UartInit, Online, Goto,
         Return, Starting
<1>3. command = NoCommand /\ settled = NoStatus
  BY <1>1, <1>2 DEF WorkerTypes, ReportInv, Starting, Processing, Waiting
<1>4. MqttInv' /\ broker' = broker
  <2>1. \/ UNCHANGED mqttVars \/ Start \/ Stop
        \/ PublishStatus([NoStatus EXCEPT !.state = "online"])
    BY DEF Run, ValidateConfiguration, Wifi, Time, StartMqtt, StartReady, UartInit, Online
  <2>2. UNCHANGED mqttVars => MqttInv' /\ broker' = broker
    BY <1>1 DEF mqttVars, MqttInv
  <2> QED BY <1>1, <2>1, <2>2, StartKeeps, StopKeeps, PublishStatusKeeps, NothingYet
<1>5. WorkerTypes'
  BY <1>1, <1>2, <1>3 DEF WorkerTypes, Starting, Processing, Waiting
<1>6. OrderInv'
  BY <1>2 DEF OrderInv, InstallsWhatWasOrdered, Starting
<1>7. ReportInv'
  BY <1>2, <1>3 DEF ReportInv, OkIsWitnessed, Starting, Waiting
<1> QED BY <1>4, <1>5, <1>6, <1>7 DEF Inv

(* A command is taken from the queue.                                       *)
LEMMA TakeCommandKeeps == ASSUME Inv, TakeCommand PROVE Inv'
<1>1. MqttInv /\ WorkerTypes
  BY DEF Inv
<1>2. MqttInv' /\ command' \in Commands
  BY <1>1, WaitCommandKeeps DEF TakeCommand
<1>3. /\ wpc' = "query" /\ settled' = NoStatus /\ result' = "none" /\ refused' = FALSE
      /\ UNCHANGED <<node, waiting>>
  BY DEF TakeCommand, Goto
<1>4. WorkerTypes'
  BY <1>1, <1>2, <1>3, NothingYet DEF WorkerTypes, Starting, Processing, Waiting
<1>5. OrderInv'
  BY <1>3 DEF OrderInv, InstallsWhatWasOrdered
<1>6. ReportInv'
  BY <1>3 DEF ReportInv, OkIsWitnessed, Starting, Waiting
<1> QED BY <1>2, <1>4, <1>5, <1>6 DEF Inv

(* ProcessCommand has returned.                                             *)
LEMMA FinishKeeps == ASSUME Inv, Finish PROVE Inv'
<1>1. MqttInv /\ WorkerTypes /\ ReportInv
  BY DEF Inv
<1>2. /\ wpc = "finish" /\ wpc' \in {"wait", "returned"} /\ command' = NoCommand
      /\ waiting' = NoWait /\ UNCHANGED <<node, result, refused, settled, hidden>>
  BY DEF Finish, Goto, Return
<1>3. MqttInv' /\ broker' = broker
  <2>1. UNCHANGED mqttVars => MqttInv' /\ broker' = broker
    BY <1>1 DEF mqttVars, MqttInv
  <2> QED BY <1>1, <2>1, StopKeeps DEF Finish
<1>4. WorkerTypes'
  BY <1>1, <1>2, NothingYet DEF WorkerTypes, Starting, Processing, Waiting
<1>5. OrderInv'
  BY <1>2 DEF OrderInv, InstallsWhatWasOrdered
<1>6. ReportInv'
  BY <1>1, <1>2, <1>3 DEF ReportInv, OkIsWitnessed, Starting, Waiting
<1> QED BY <1>3, <1>4, <1>5, <1>6 DEF Inv

(* The command gives up on the loop: nothing is being processed.            *)
LEMMA CommandTimeoutKeeps == ASSUME Inv, CommandTimeout PROVE Inv'
<1>1. MqttInv /\ WorkerTypes /\ ReportInv
  BY DEF Inv
<1>2. /\ wpc = "wait" /\ wpc' = "returned"
      /\ UNCHANGED <<command, node, waiting, result, refused, settled, hidden>>
  BY DEF CommandTimeout, Return, Goto
<1>3. MqttInv' /\ broker' = broker
  BY <1>1, StopKeeps DEF CommandTimeout
<1>4. WorkerTypes'
  BY <1>1, <1>2 DEF WorkerTypes, Starting, Processing, Waiting
<1>5. OrderInv'
  BY <1>2 DEF OrderInv, InstallsWhatWasOrdered
<1>6. ReportInv'
  BY <1>1, <1>2, <1>3 DEF ReportInv, OkIsWitnessed, Starting, Waiting
<1> QED BY <1>3, <1>4, <1>5, <1>6 DEF Inv

(* A final status is published, truthfully, or refused by the outbox.       *)
LEMMA PublishFinalKeeps ==
    ASSUME Inv, wpc \in Processing, NEW state \in FinalStates, NEW outcome \in {"ok", "error"},
           outcome = "ok" => Grounded(node, hidden', command.target_version),
           PublishFinal(state, outcome)
    PROVE  Inv'
<1>1. MqttInv /\ WorkerTypes /\ ReportInv
  BY DEF Inv
<1>2. command \in Commands /\ Status(state) \in Statuses /\ Status(state).state = state
  BY <1>1, StatusOK DEF WorkerTypes, FinalStates
<1>3. UNCHANGED <<command, cache, node, settled>>
  BY DEF PublishFinal
<1>4. CASE /\ PublishAndClear(Status(state))
           /\ waiting' = [id |-> next_id, status |-> Status(state)]
           /\ result' = outcome /\ UNCHANGED refused /\ wpc' = "ack"
  <2>1. /\ MqttInv' /\ broker.seen \subseteq broker'.seen
        /\ next_id < next_id' /\ next_id \in Nat
        /\ WaitOK(waiting', outbox', acks', last_published_message_id', broker'.seen)
    BY <1>1, <1>2, <1>4, PublishAndClearKeeps
  <2>2. /\ waiting' \in [id : Nat, status : Statuses] /\ waiting'.id = next_id
        /\ waiting'.status = Status(state)
    BY <1>2, <1>4, <2>1
  <2>3. WorkerTypes'
    BY <1>1, <1>2, <1>3, <1>4, <2>2 DEF WorkerTypes, Starting, Processing, Waiting
  <2>4. OrderInv'
    BY <1>4 DEF OrderInv, InstallsWhatWasOrdered
  <2>5. waiting'.status \in {Status("confirmed"), Status("failed")}'
    BY <1>3, <2>2 DEF Status, FinalStates
  <2>6. result' = "ok" => Grounded(node', hidden', waiting'.status.target_version)
    <3>1. waiting'.status.target_version = command.target_version
      BY <2>2 DEF Status
    <3> QED BY <1>3, <1>4, <3>1
  <2>7. settled' # NoStatus => settled' \in broker'.seen
    BY <1>1, <1>3, <2>1 DEF ReportInv
  <2>8. ReportInv'
    BY <1>4, <2>1, <2>2, <2>5, <2>6, <2>7 DEF ReportInv, OkIsWitnessed, Starting, Waiting
  <2> QED BY <2>1, <2>3, <2>4, <2>8 DEF Inv
<1>5. CASE /\ PublishRefused /\ result' = "error" /\ refused' = TRUE /\ wpc' = "finish"
           /\ UNCHANGED waiting
  <2>1. MqttInv' /\ broker' = broker
    BY <1>1, <1>5, PublishRefusedKeeps
  <2>2. WorkerTypes'
    BY <1>1, <1>2, <1>3, <1>5 DEF WorkerTypes, Starting, Processing, Waiting
  <2>3. OrderInv'
    BY <1>5 DEF OrderInv, InstallsWhatWasOrdered
  <2>4. ReportInv'
    BY <1>1, <1>3, <1>5, <2>1 DEF ReportInv, OkIsWitnessed, Starting, Waiting
  <2> QED BY <2>1, <2>2, <2>3, <2>4 DEF Inv
<1> QED BY <1>4, <1>5 DEF PublishFinal, Goto

(* The waits of PublishStatusAndWait.                                       *)
LEMMA AckKeeps == ASSUME Inv, PublishStatusAndWait PROVE Inv'
<1>1. MqttInv /\ WorkerTypes /\ ReportInv
  BY DEF Inv
<1>2. wpc \in Waiting /\ command \in Commands
  BY <1>1 DEF PublishStatusAndWait, AckAtOnce, AckBit, AckCheck, AckDeadline, Waiting, WorkerTypes
<1>3. /\ waiting.id < next_id /\ waiting.status \in {Status("confirmed"), Status("failed")}
      /\ WaitOK(waiting, outbox, acks, last_published_message_id, broker.seen)
      /\ result = "ok" => Grounded(node, hidden, waiting.status.target_version)
      /\ settled # NoStatus => settled \in broker.seen
  BY <1>1, <1>2 DEF ReportInv
<1>4. waiting.status \in Statuses /\ waiting.status.state \in FinalStates
  BY <1>2, <1>3, StatusOK DEF FinalStates
<1>5. UNCHANGED <<command, node, waiting, refused, hidden>>
  BY DEF PublishStatusAndWait, AckAtOnce, AckBit, AckCheck, AckDeadline, AckOk, AckStep, AckTimeout
<1>6. Kept(waiting)
  <2>1. UNCHANGED mqttVars => MessagesKept /\ UNCHANGED <<client, link, events, command_queue,
                                                          fragment, delivery>>
    BY DEF mqttVars, MessagesKept
  <2>2. UNCHANGED mqttVars => Kept(waiting)
    BY <1>1, <2>1, QuietKept DEF MqttInv
  <2> QED BY <1>1, <2>2, TakeBitKeeps
          DEF PublishStatusAndWait, AckAtOnce, AckBit, AckCheck, AckDeadline
<1>7. /\ MqttInv' /\ next_id' = next_id /\ broker.seen \subseteq broker'.seen
      /\ WaitOK(waiting, outbox', acks', last_published_message_id', broker'.seen)
  BY <1>3, <1>4, <1>6 DEF Kept
<1>8. OrderInv' /\ WorkerTypes' /\ ReportInv'
  <2>1. \/ wpc' = "finish" /\ settled' = waiting.status /\ AckSeen(waiting.id) /\ UNCHANGED result
        \/ wpc' = "finish" /\ result' = "error" /\ UNCHANGED settled
        \/ wpc' \in Waiting /\ UNCHANGED <<result, settled>>
    BY DEF PublishStatusAndWait, AckAtOnce, AckBit, AckCheck, AckDeadline, AckOk, AckStep,
           AckTimeout, Goto, Waiting
  <2>2. wpc' \in Waiting \cup {"finish"}
    BY <2>1
  <2>3. OrderInv'
    BY <2>2 DEF OrderInv, InstallsWhatWasOrdered, Waiting
  <2>4. WorkerTypes'
    BY <1>1, <1>2, <1>4, <1>5, <2>1, <2>2 DEF WorkerTypes, Waiting, Processing, Starting
  <2>5. settled' # NoStatus => settled' \in broker'.seen
    BY <1>3, <1>7, <2>1 DEF AckSeen, WaitOK
  <2>6. OkIsWitnessed'
    BY <1>3, <1>5, <2>1 DEF OkIsWitnessed, Grounded, Waiting
  <2>7. wpc' \in Waiting /\ result' = "ok" =>
           Grounded(node', hidden', waiting'.status.target_version)
    BY <1>3, <1>5, <2>1 DEF Waiting
  <2>8. /\ waiting'.id < next_id' /\ waiting'.status \in {Status("confirmed"), Status("failed")}'
        /\ WaitOK(waiting', outbox', acks', last_published_message_id', broker'.seen)
    BY <1>3, <1>5, <1>7 DEF Status
  <2> QED BY <2>2, <2>3, <2>4, <2>5, <2>6, <2>7, <2>8 DEF ReportInv, Waiting, Starting
<1> QED BY <1>7, <1>8 DEF Inv

(* A step from one label of ProcessCommand to the next that gives no        *)
(* report.                                                                  *)
LEMMA ProcessingKeeps ==
    ASSUME Inv, wpc \in Processing, wpc' \in Processing \ {"final"}, MqttInv', broker' = broker,
           UNCHANGED <<command, waiting, result, refused, settled>>,
           node' \in Nodes, OrderInv'
    PROVE  Inv'
<1>1. WorkerTypes /\ ReportInv
  BY DEF Inv
<1>2. WorkerTypes'
  BY <1>1 DEF WorkerTypes, Starting, Processing, Waiting
<1>3. ReportInv'
  BY <1>1 DEF ReportInv, OkIsWitnessed, Starting, Processing, Waiting
<1> QED BY <1>2, <1>3 DEF Inv

(* The worker takes a step by itself.                                       *)
LEMMA MqttUnchanged == ASSUME MqttInv, UNCHANGED mqttVars PROVE MqttInv' /\ broker' = broker
BY DEF MqttInv, mqttVars

(* PublishFailure claims nothing of the node.                               *)
LEMMA FailureKeeps ==
    ASSUME Inv, wpc \in Processing, PublishFailure PROVE Inv'
BY PublishFinalKeeps DEF PublishFailure, FinalStates

(* An answer IDLE is so of the node that gave it, or hid an update.         *)
LEMMA AnswerGrounded ==
    ASSUME NEW n \in Nodes, NEW h \in Answers(n), Decides(h, n), h.idle
    PROVE  Grounded(n, hidden', h.version)
<1>1. CASE n.installing = 0
  <2>1. h.version = n.version
    BY <1>1 DEF Answers
  <2>2. n = [version |-> n.version, installing |-> n.installing]
    BY DEF Nodes
  <2> QED BY <1>1, <2>1, <2>2 DEF Grounded
<1>2. CASE n.installing # 0
  BY <1>2 DEF Decides, Grounded
<1> QED BY <1>1, <1>2

(* UartOta_Query: the node may run the version already.                     *)
LEMMA QueryKeeps == ASSUME Inv, Query PROVE Inv'
<1>1. wpc = "query" /\ wpc \in Processing
  BY DEF Query, Processing
<1>2. MqttInv /\ WorkerTypes
  BY DEF Inv
<1>3. CASE PublishFailure
  BY <1>1, <1>3, FailureKeeps
<1>4. ASSUME NEW h \in Answers(node), IsTarget(h), PublishFinal("confirmed", "ok"),
             Decides(h, node)
      PROVE  Inv'
  <2>1. Grounded(node, hidden', command.target_version)
    BY <1>2, <1>4, AnswerGrounded DEF WorkerTypes, IsTarget
  <2> QED BY <1>1, <1>4, <2>1, PublishFinalKeeps DEF FinalStates
<1>5. CASE /\ Goto("accept")
           /\ UNCHANGED <<mqttVars, config, command, cache, node, waiting, result, refused,
                          settled, hidden>>
  <2>1. OrderInv'
    BY <1>5 DEF OrderInv, InstallsWhatWasOrdered, Goto
  <2>2. wpc' \in Processing \ {"final"} /\ node' \in Nodes
    BY <1>2, <1>5 DEF Goto, Processing, WorkerTypes
  <2> QED BY <1>1, <1>2, <1>5, <2>1, <2>2, MqttUnchanged, ProcessingKeeps
<1> QED BY <1>3, <1>4, <1>5 DEF Query

(* The first status of a command.                                           *)
LEMMA AcceptKeeps == ASSUME Inv, Accept PROVE Inv'
<1>1. wpc = "accept" /\ wpc \in Processing
  BY DEF Accept, Processing
<1>2. MqttInv /\ WorkerTypes /\ ReportInv /\ command \in Commands
  BY <1>1 DEF Inv, WorkerTypes
<1>3. UNCHANGED <<command, node, waiting, settled, hidden>>
  BY DEF Accept
<1>4. CASE PublishStatus(Status("accepted")) /\ Goto("download") /\ UNCHANGED <<result, refused>>
  <2>1. MqttInv' /\ broker' = broker
    BY <1>2, <1>4, StatusOK, PublishStatusKeeps
  <2>2. OrderInv'
    BY <1>4 DEF OrderInv, InstallsWhatWasOrdered, Goto
  <2>3. wpc' \in Processing \ {"final"} /\ node' \in Nodes
    BY <1>2, <1>3, <1>4 DEF Goto, Processing, WorkerTypes
  <2> QED BY <1>1, <1>3, <1>4, <2>1, <2>2, <2>3, ProcessingKeeps
<1>5. CASE UNCHANGED mqttVars /\ Goto("finish") /\ result' = "error" /\ refused' = TRUE
  <2>1. MqttInv' /\ broker' = broker
    BY <1>2, <1>5, MqttUnchanged
  <2>2. WorkerTypes'
    BY <1>2, <1>3, <1>5 DEF WorkerTypes, Starting, Processing, Waiting, Goto
  <2>3. OrderInv'
    BY <1>5 DEF OrderInv, InstallsWhatWasOrdered, Goto
  <2>4. ReportInv'
    BY <1>2, <1>3, <1>5, <2>1 DEF ReportInv, OkIsWitnessed, Starting, Waiting, Goto
  <2> QED BY <2>1, <2>2, <2>3, <2>4 DEF Inv
<1> QED BY <1>4, <1>5 DEF Accept

(* HttpsDownload_ToCache labels the file with the command.                  *)
LEMMA DownloadKeeps == ASSUME Inv, Download PROVE Inv'
<1>1. wpc = "download" /\ wpc \in Processing
  BY DEF Download, Processing
<1>2. MqttInv /\ WorkerTypes
  BY DEF Inv
<1>3. /\ wpc' \in {"downloadFailed", "compare"}
      /\ UNCHANGED <<command, node, waiting, result, refused, settled, hidden>>
      /\ UNCHANGED mqttVars
  BY DEF Download, Goto
<1>4. wpc' = "compare" => /\ cache'.update_id = command.update_id
                          /\ cache'.target_version = command.target_version
  BY DEF Download, Goto
<1>5. OrderInv'
  BY <1>3, <1>4 DEF OrderInv, InstallsWhatWasOrdered
<1>6. wpc' \in Processing \ {"final"} /\ node' \in Nodes
  BY <1>2, <1>3 DEF Processing, WorkerTypes
<1> QED BY <1>1, <1>2, <1>3, <1>5, <1>6, MqttUnchanged, ProcessingKeeps

(* Size and checksum against the command.                                   *)
LEMMA CompareKeeps == ASSUME Inv, Compare PROVE Inv'
<1>1. wpc = "compare" /\ wpc \in Processing
  BY DEF Compare, Processing
<1>2. MqttInv /\ WorkerTypes /\ OrderInv
  BY DEF Inv
<1>3. CASE PublishFailure
  BY <1>1, <1>3, FailureKeeps
<1>4. CASE /\ MatchesCommand /\ Goto("downloaded")
           /\ UNCHANGED <<mqttVars, config, command, cache, node, waiting, result, refused,
                          settled, hidden>>
  <2>1. OrderInv'
    BY <1>1, <1>2, <1>4 DEF OrderInv, InstallsWhatWasOrdered, Goto, MatchesCommand
  <2>2. wpc' \in Processing \ {"final"} /\ node' \in Nodes
    BY <1>2, <1>4 DEF Goto, Processing, WorkerTypes
  <2> QED BY <1>1, <1>2, <1>4, <2>1, <2>2, MqttUnchanged, ProcessingKeeps
<1> QED BY <1>3, <1>4 DEF Compare

(* The statuses whose failure is ignored.                                   *)
LEMMA AnnounceKeeps == ASSUME Inv, Downloaded \/ Installing PROVE Inv'
<1>1. /\ UNCHANGED <<command, cache, artifact, node, waiting, result, refused, settled, hidden>>
      /\ \/ wpc = "downloaded" /\ wpc' = "export"
         \/ wpc = "install" /\ wpc' = "transfer"
  BY DEF Downloaded, Installing, Announce, Goto
<1>2. wpc \in Processing /\ wpc' \in Processing \ {"final"}
  BY <1>1 DEF Processing
<1>3. MqttInv /\ WorkerTypes /\ OrderInv /\ command \in Commands
  BY <1>2 DEF Inv, WorkerTypes
<1>4. MqttInv' /\ broker' = broker
  BY <1>3, StatusOK, PublishStatusKeeps, MqttUnchanged DEF Downloaded, Installing, Announce
<1>5. OrderInv'
  BY <1>1, <1>3 DEF OrderInv, InstallsWhatWasOrdered
<1>6. node' \in Nodes
  BY <1>1, <1>3 DEF WorkerTypes
<1> QED BY <1>1, <1>2, <1>4, <1>5, <1>6, ProcessingKeeps

(* ArtifactCache_AsUartArtifact.                                            *)
LEMMA ExportKeeps == ASSUME Inv, Export PROVE Inv'
<1>1. wpc = "export" /\ wpc \in Processing
  BY DEF Export, Processing
<1>2. MqttInv /\ WorkerTypes /\ OrderInv
  BY DEF Inv
<1>3. CASE PublishFailure
  BY <1>1, <1>3, FailureKeeps
<1>4. CASE /\ artifact' = cache /\ Goto("install")
           /\ UNCHANGED <<mqttVars, config, command, cache, node, waiting, result, refused,
                          settled, hidden>>
  <2>1. OrderInv'
    BY <1>1, <1>2, <1>4 DEF OrderInv, InstallsWhatWasOrdered, Goto
  <2>2. wpc' \in Processing \ {"final"} /\ node' \in Nodes
    BY <1>2, <1>4 DEF Goto, Processing, WorkerTypes
  <2> QED BY <1>1, <1>2, <1>4, <2>1, <2>2, MqttUnchanged, ProcessingKeeps
<1> QED BY <1>3, <1>4 DEF Export

(* UartOta_TransferInstallAndWait.                                          *)
LEMMA TransferKeeps == ASSUME Inv, Transfer PROVE Inv'
<1>1. MqttInv /\ WorkerTypes /\ OrderInv /\ ReportInv
  BY DEF Inv
<1>2. wpc = "transfer" /\ wpc \in Processing /\ command \in Commands
  BY <1>1 DEF Transfer, Processing, WorkerTypes
<1>3. artifact.target_version \in Targets /\ 0 \in Targets
  BY <1>1, <1>2 DEF OrderInv, InstallsWhatWasOrdered, Targets
<1>4. /\ node' \in {node, [version |-> artifact.target_version, installing |-> 0],
                    [node EXCEPT !.installing = artifact.target_version]}
      /\ \/ hello' \in Answers(node') /\ Decides(hello', node') /\ wpc' = "final"
         \/ wpc' = "transferFailed"
      /\ UNCHANGED <<command, waiting, result, refused, settled>> /\ UNCHANGED mqttVars
  BY DEF Transfer, Goto
<1>5. node' \in Nodes
  <2>1. node \in Nodes
    BY <1>1 DEF WorkerTypes
  <2>2. [version |-> artifact.target_version, installing |-> 0] \in Nodes
    BY <1>3 DEF Nodes
  <2>3. [node EXCEPT !.installing = artifact.target_version] \in Nodes
    BY <1>3, <2>1 DEF Nodes
  <2> QED BY <1>4, <2>1, <2>2, <2>3
<1>6. MqttInv' /\ broker' = broker
  BY <1>1, <1>4, MqttUnchanged
<1>7. /\ wpc' \in {"final", "transferFailed"}
      /\ wpc' = "final" /\ hello'.idle => Grounded(node', hidden', hello'.version)
  BY <1>4, <1>5, AnswerGrounded
<1>8. WorkerTypes'
  BY <1>1, <1>2, <1>4, <1>5, <1>7 DEF WorkerTypes, Starting, Processing, Waiting
<1>9. OrderInv'
  BY <1>7 DEF OrderInv, InstallsWhatWasOrdered
<1>10. ReportInv'
  BY <1>1, <1>4, <1>6, <1>7 DEF ReportInv, OkIsWitnessed, Starting, Waiting
<1> QED BY <1>6, <1>8, <1>9, <1>10 DEF Inv

(* The last answer against the command.                                     *)
LEMMA FinalKeeps == ASSUME Inv, Final PROVE Inv'
<1>1. wpc = "final" /\ wpc \in Processing
  BY DEF Final, Processing
<1>2. CASE IsTarget(hello) /\ PublishFinal("confirmed", "ok") /\ UNCHANGED hidden
  <2>1. Grounded(node, hidden', command.target_version)
    BY <1>1, <1>2 DEF Inv, ReportInv, IsTarget
  <2> QED BY <1>1, <1>2, <2>1, PublishFinalKeeps DEF FinalStates
<1>3. CASE PublishFailure
  BY <1>1, <1>3, FailureKeeps
<1> QED BY <1>2, <1>3 DEF Final

(* ProcessCommand.                                                          *)
LEMMA ProcessCommandKeeps == ASSUME Inv, ProcessCommand PROVE Inv'
<1>1. DownloadFailed \/ TransferFailed => wpc \in Processing /\ PublishFailure
  BY DEF DownloadFailed, TransferFailed, Processing
<1> QED BY <1>1, QueryKeeps, AcceptKeeps, DownloadKeeps, CompareKeeps, AnnounceKeeps, ExportKeeps,
           TransferKeeps, FinalKeeps, FailureKeeps DEF ProcessCommand

(* Steps of the others, while the worker stands still.                      *)
LEMMA OthersKeep ==
    ASSUME Inv, Kept(waiting), UNCHANGED workerVars PROVE Inv'
<1>1. WorkerTypes /\ OrderInv /\ ReportInv
  BY DEF Inv
<1>2. UNCHANGED <<wpc, command, cache, artifact, node, hello, waiting, result, refused, settled,
                hidden>>
  BY DEF workerVars
<1>3. MqttInv' /\ next_id' = next_id /\ broker.seen \subseteq broker'.seen
  BY DEF Kept
<1>4. WorkerTypes' /\ OrderInv'
  BY <1>1, <1>2 DEF WorkerTypes, OrderInv, InstallsWhatWasOrdered
<1>5. ASSUME wpc \in Waiting \/ (wpc = "finish" /\ ~refused)
      PROVE  WaitOK(waiting', outbox', acks', last_published_message_id', broker'.seen)
  <2>1. /\ waiting.status \in {Status("confirmed"), Status("failed")} /\ command \in Commands
        /\ WaitOK(waiting, outbox, acks, last_published_message_id, broker.seen)
    BY <1>1, <1>5 DEF ReportInv, WorkerTypes
  <2>2. waiting.status.state \in FinalStates
    BY <2>1, StatusOK DEF FinalStates
  <2> QED BY <1>2, <2>1, <2>2 DEF Kept
<1>6. settled' # NoStatus => settled' \in broker'.seen
  BY <1>1, <1>2, <1>3 DEF ReportInv
<1>7. Status("confirmed")' = Status("confirmed") /\ Status("failed")' = Status("failed")
  BY <1>2 DEF Status
<1>8. ReportInv'
  BY <1>1, <1>2, <1>3, <1>5, <1>6, <1>7 DEF ReportInv, OkIsWitnessed
<1> QED BY <1>3, <1>4, <1>8 DEF Inv

(* The node ends an update by itself: one that was reported as done only if *)
(* the node's answer hid it.                                                *)
LEMMA NodeSettlesKeeps == ASSUME Inv, NodeSettles PROVE Inv'
<1>1. MqttInv /\ WorkerTypes /\ OrderInv /\ ReportInv
  BY DEF Inv
<1>2. /\ node.installing # 0 /\ node \in Nodes
      /\ node' \in [version : {node.version, node.installing}, installing : {0}]
      /\ UNCHANGED <<wpc, command, cache, artifact, hello, waiting, result, refused, settled,
                     hidden>>
      /\ UNCHANGED mqttVars
  BY <1>1 DEF NodeSettles, WorkerTypes
<1>3. MqttInv'
  BY <1>1, <1>2, MqttUnchanged
<1>4. node' \in Nodes
  BY <1>2 DEF Nodes, Targets
<1>5. WorkerTypes' /\ OrderInv'
  BY <1>1, <1>2, <1>4 DEF WorkerTypes, OrderInv, InstallsWhatWasOrdered
<1>6. UNCHANGED <<next_id, outbox, acks, last_published_message_id, broker>>
  BY <1>2 DEF mqttVars
<1>7. \A v : Grounded(node, hidden, v) => Grounded(node', hidden', v)
  BY <1>2 DEF Grounded
<1>8. OkIsWitnessed'
  BY <1>1, <1>2, <1>7 DEF Grounded, ReportInv, OkIsWitnessed
<1>9. Status("confirmed")' = Status("confirmed") /\ Status("failed")' = Status("failed")
  BY <1>2 DEF Status
<1>10. ReportInv'
  BY <1>1, <1>2, <1>6, <1>7, <1>8, <1>9 DEF ReportInv
<1> QED BY <1>3, <1>5, <1>10 DEF Inv

(* The initial state.                                                       *)
LEMMA InitHolds == ASSUME Init PROVE Inv
<1>1. MqttInv
  <2>1. <<>> \in Seq(Messages) /\ <<>> \in Seq(Nat) /\ <<>> \in Seq(Commands) /\ Len(<<>>) = 0
    OBVIOUS
  <2>2. OutboxOK(outbox, acks, last_published_message_id, next_id, broker.seen)
    BY <2>1 DEF Init, MqttInit, OutboxOK
  <2>3. FragmentOK(fragment, delivery)
    BY DEF Init, MqttInit, FragmentOK, NoDelivery
  <2>4. broker \in [retained : Statuses, seen : SUBSET Statuses]
    BY NothingYet DEF Init, MqttInit
  <2>5. command_queue \in Seq(Commands) /\ Len(command_queue) <= COMMAND_QUEUE_LENGTH
    BY <2>1 DEF Init, MqttInit, COMMAND_QUEUE_LENGTH
  <2> QED BY <2>2, <2>3, <2>4, <2>5 DEF Init, MqttInit, MqttInv
<1>2. WorkerTypes
  <2>1. node \in Nodes
    BY DEF Init, Nodes, Targets
  <2> QED BY <2>1, NothingYet DEF Init, WorkerTypes, Starting, Processing, Waiting
<1>3. OrderInv
  BY DEF Init, OrderInv, InstallsWhatWasOrdered
<1>4. ReportInv
  BY DEF Init, ReportInv, OkIsWitnessed, Starting, Waiting
<1> QED BY <1>1, <1>2, <1>3, <1>4 DEF Inv

(* Every step of the gateway and of its surroundings.                       *)
LEMMA NextKeeps == ASSUME Inv, [Next]_vars PROVE Inv'
<1>0. MqttInv
  BY DEF Inv
<1>1. CASE Worker
  BY <1>1, RunKeeps, TakeCommandKeeps, ProcessCommandKeeps, AckKeeps, FinishKeeps DEF Worker
<1>2. CASE Mqtt
  BY <1>0, <1>2, MqttTaskKeeps, OthersKeep DEF Mqtt
<1>3. CASE Environment
  BY <1>0, <1>3, DisconnectedKeeps, DeliverKeeps, NodeSettlesKeeps, CommandTimeoutKeeps,
     OthersKeep DEF Environment
<1>4. CASE UNCHANGED vars
  <2>1. UNCHANGED mqttVars /\ UNCHANGED workerVars
    BY <1>4 DEF vars
  <2>2. MessagesKept /\ UNCHANGED <<client, link, events, command_queue, fragment, delivery>>
    BY <2>1 DEF mqttVars, MessagesKept
  <2>3. Kept(waiting)
    BY <1>0, <2>2, QuietKept DEF MqttInv
  <2> QED BY <2>1, <2>3, OthersKeep
<1> QED BY <1>1, <1>2, <1>3, <1>4 DEF Next

-----------------------------------------------------------------------------
(* The invariant of the gateway, for all messages, files and versions, and  *)
(* for every size of fragments and of the outbox.                           *)
THEOREM GatewayInvariant == Spec => []Inv
BY InitHolds, NextKeeps, PTL DEF Spec

(* What is sent to the node is what the command ordered (ProcessCommand,    *)
(* ArtifactCache_AsUartArtifact).                                           *)
THEOREM OrderIsInstalled == Spec => []InstallsWhatWasOrdered
<1>1. Inv => InstallsWhatWasOrdered
  BY DEF Inv, OrderInv
<1> QED BY <1>1, GatewayInvariant, PTL

(* What the gateway reports is so, and it reports                           *)
(* (MqttOrchestrator_PublishStatusAndWait, ProcessCommand), up to an update *)
(* that the node's answer IDLE hid (OtaReceiver_Init).                      *)
THEOREM ReportsHold == Spec => []ReportsAreTrue
<1>1. ASSUME Inv PROVE ReportsAreTrue
  <2>1. MqttInv /\ WorkerTypes /\ ReportInv
    BY <1>1 DEF Inv
  <2>2. OutcomeIsPublished
    BY <2>1 DEF ReportInv, OutcomeIsPublished, WaitOK
  <2>3. /\ fragment.received = Len(fragment.buffer) /\ fragment.received <= fragment.total
        /\ fragment.total <= MAX_PAYLOAD /\ (~fragment.active => fragment = NoFragment)
    <3>1. FragmentOK(fragment, delivery)
      BY <2>1 DEF MqttInv
    <3>2. CASE fragment = NoFragment
      BY <3>2 DEF NoFragment
    <3>3. CASE fragment # NoFragment
      <4>1. /\ delivery.payload \in Payloads /\ delivery.offset \in Nat
            /\ delivery.offset < delivery.payload.length /\ Relevant(delivery.payload)
            /\ fragment = Held(delivery.payload, delivery.offset)
        BY <3>1, <3>3 DEF FragmentOK, NoDelivery
      <4>2. Len(Bytes(delivery.payload, 0, delivery.offset)) = delivery.offset
        <5>1. \A q : \A n \in Nat : Len(Bytes(q, 0, n)) = n
          BY BytesFacts
        <5> QED BY <4>1, <5>1
      <4> QED BY <4>1, <4>2 DEF Held, Relevant
    <3> QED BY <3>2, <3>3
  <2>4. TypeOK
    BY <2>1, <2>3 DEF MqttInv, WorkerTypes, OutboxOK, TypeOK, Starting, Processing, Waiting
  <2> QED BY <2>1, <2>2, <2>4 DEF ReportInv, ReportsAreTrue, AckIsReal
<1> QED BY <1>1, GatewayInvariant, PTL

(* Only HandleData completes a delivery over a connection that stays, and   *)
(* only it lengthens the queue.                                             *)
LEMMA QueueMoves ==
    ASSUME Inv, [Next]_vars, ~Data
    PROVE  /\ delivery' = delivery \/ delivery = NoDelivery \/ ~link'
           /\ Len(command_queue') <= Len(command_queue)
<1>0. MqttInv /\ command_queue \in Seq(Commands) /\ Len(command_queue) \in Nat
  BY DEF Inv, MqttInv
<1>1. Stop => ~link' /\ Len(command_queue') <= Len(command_queue)
  <2>1. Len(<<>>) = 0
    OBVIOUS
  <2> QED BY <1>0, <2>1 DEF Stop
<1>2. UNCHANGED mqttVars => UNCHANGED <<delivery, command_queue>>
  BY DEF mqttVars
<1>3. CASE Worker
  <2>1. Stop \/ WaitCommand \/ UNCHANGED <<delivery, command_queue>>
    <3>1. Run => Stop \/ UNCHANGED <<delivery, command_queue>>
      BY <1>2 DEF Run, ValidateConfiguration, Wifi, Time, StartMqtt, StartReady, UartInit, Online,
                  PublishStatus, Start
    <3>2. PublishStatusAndWait => UNCHANGED <<delivery, command_queue>>
      BY <1>2 DEF PublishStatusAndWait, AckAtOnce, AckBit, AckCheck, AckDeadline, TakePublishedBit
    <3>3. \A state, outcome : PublishFinal(state, outcome) => UNCHANGED <<delivery, command_queue>>
      BY DEF PublishFinal, PublishAndClear, PublishRefused
    <3>4. ProcessCommand => UNCHANGED <<delivery, command_queue>>
      BY <1>2, <3>3 DEF ProcessCommand, Query, Accept, Download, DownloadFailed, Compare,
             Downloaded, Export, Installing, Announce, Transfer, TransferFailed, Final,
             PublishFailure, PublishStatus
    <3> QED BY <1>2, <1>3, <3>1, <3>2, <3>4 DEF Worker, TakeCommand, Finish
  <2>2. WaitCommand => delivery' = delivery /\ Len(command_queue') <= Len(command_queue)
    BY <1>0 DEF WaitCommand
  <2> QED BY <1>0, <1>1, <2>1, <2>2
<1>4. CASE Mqtt
  <2>1. UNCHANGED <<delivery, command_queue>>
    BY <1>4 DEF Mqtt, MqttTask, Connected, Subscribed, SendQueued, PublishedId, PublishedBit
  <2> QED BY <1>0, <2>1
<1>5. CASE Environment
  <2>1. \/ Stop \/ UNCHANGED mqttVars
        \/ UNCHANGED command_queue /\ (~link' \/ delivery = NoDelivery)
    BY <1>5 DEF Environment, Disconnected, Deliver, NodeSettles, CommandTimeout
  <2> QED BY <1>0, <1>1, <1>2, <2>1
<1>6. CASE UNCHANGED vars
  BY <1>0, <1>2, <1>6 DEF vars
<1> QED BY <1>3, <1>4, <1>5, <1>6 DEF Next

(* Commands are queued whole, and nothing else is (HandleData).             *)
THEOREM DeliveriesAreQueued == Spec => DeliveredIsQueued
<1> DEFINE complete == delivery # NoDelivery /\ delivery' = NoDelivery /\ link'
           p == delivery.payload
           Step == /\ complete /\ p.topic = "command" /\ p.length <= MAX_PAYLOAD
                        /\ ParseCommandJson(p.json) /\ command_queue = <<>>
                      => command_queue' = <<p.json>>
                   /\ Len(command_queue') > Len(command_queue) => complete
<1>1. ASSUME Inv, [Next]_vars PROVE Step
  <2>0. MqttInv /\ command_queue \in Seq(Commands) /\ Len(command_queue) \in Nat
    BY <1>1 DEF Inv, MqttInv
  <2>1. CASE Data
    <3> DEFINE left == p.length - delivery.offset
               n == IF left < FRAGMENT THEN left ELSE FRAGMENT
    <3>1. link' /\ delivery # NoDelivery
      BY <2>1 DEF Data, Live
    <3>2. /\ p \in Payloads
          /\ Relevant(p) /\ n = left =>
                delivery' = NoDelivery /\ command_queue' = Offered(Held(p, p.length))
          /\ Relevant(p) /\ n # left =>
                /\ delivery' = [payload |-> p, offset |-> delivery.offset + n]
                /\ UNCHANGED command_queue
          /\ ~Relevant(p) => UNCHANGED command_queue
      BY <2>0, <2>1, FragmentMoves
    <3>3. Relevant(p) /\ n # left => delivery' # NoDelivery
      <4>1. FragmentOK(fragment, delivery)
        BY <2>0 DEF MqttInv
      <4>2. delivery.offset \in Nat
        BY <3>1, <4>1 DEF FragmentOK
      <4>3. n # left => delivery.offset + n # 0
        BY <4>2
      <4> HIDE DEF n, left
      <4> QED BY <3>2, <4>3 DEF NoDelivery
    <3> HIDE DEF n, left
    <3> QED BY <2>0, <3>1, <3>2, <3>3, OfferedFacts DEF Relevant
  <2>2. CASE ~Data
    BY <1>1, <2>0, <2>2, QueueMoves
  <2> QED BY <2>1, <2>2
<1>2. DeliveredIsQueued <=> [][Step]_vars
  BY DEF DeliveredIsQueued
<1> QED BY <1>1, <1>2, GatewayInvariant, PTL DEF Spec

-----------------------------------------------------------------------------
(* The cache and the station, which the manager knows by their results.    *)

(* What is run is, seen from the cache, the specification of the download. *)
LEMMA BenchRunsCache == LiveSpec => Cache!Spec
<1>1. LiveInit => Cache!Init
  BY DEF LiveInit
<1>2. [LiveNext]_liveVars => [Cache!Next]_(Cache!vars)
  BY DEF LiveNext, CommandStep, DownloadStep, StationStep, liveVars, cacheState, Cache!vars,
         Cache!cacheVars, Cache!downloadVars
<1> QED BY <1>1, <1>2, PTL DEF LiveSpec, Cache!Spec

(* Seen from the station, it is the one of that.                           *)
LEMMA BenchRunsStation == LiveSpec => Station!Spec
<1>1. LiveInit => Station!Init
  BY DEF LiveInit
<1>2. [LiveNext]_liveVars => [Station!Next]_(Station!vars)
  BY DEF LiveNext, CommandStep, DownloadStep, StationStep, liveVars, wifiState, Station!vars
<1> QED BY <1>1, <1>2, PTL DEF LiveSpec, Station!Spec

(* The station has counted no more retries than there were disconnections, *)
(* the radio is off until it is started, and after the wait there has been *)
(* an address.                                                             *)
StationInv ==
    /\ Station!TypeOK /\ Station!OkIsAwake /\ Station!GivesUpLate
    /\ failures \in Nat /\ s_retry_count <= failures
    /\ pc \in {"nvs", "nvsErase", "nvsAgain", "start"} => radio = "off" /\ failures = 0
    /\ pc \in {"setPs", "getPs"} => "connected" \in bits

(* WifiStation_Connect and WifiEventHandler preserve it.                   *)
LEMMA StationInvNext == StationInv /\ [Station!Next]_(Station!vars) => StationInv'
<1> SUFFICES ASSUME StationInv, [Station!Next]_(Station!vars) PROVE StationInv'
  OBVIOUS
<1>0. WIFI_MAX_RETRIES \in Nat
  BY TransportAssumption DEF Station!WifiAssumption
<1> USE DEF StationInv, Station!TypeOK, Station!OkIsAwake, Station!GivesUpLate,
            Station!CONNECTED_BIT, Station!FAILED_BIT
<1>1. CASE Station!InitNvs
  BY <1>1 DEF Station!InitNvs, Station!Goto, Station!Returned
<1>2. CASE Station!StartStation
  BY <1>0, <1>2 DEF Station!StartStation, Station!Returned
<1>3. CASE Station!Wait
  BY <1>3 DEF Station!Wait, Station!Goto, Station!Returned
<1>4. CASE Station!SetPowerSave
  BY <1>4 DEF Station!SetPowerSave, Station!Returned
<1>5. CASE Station!GetPowerSave
  BY <1>5 DEF Station!GetPowerSave, Station!Returned
<1>6. CASE Station!StaStart
  BY <1>6 DEF Station!StaStart
<1>7. CASE Station!GotIp
  BY <1>0, <1>7 DEF Station!GotIp
<1>8. CASE Station!StaDisconnected
  <2>1. CASE s_retry_count < WIFI_MAX_RETRIES
    <3>1. /\ s_retry_count' \in 0..WIFI_MAX_RETRIES
          /\ failures' \in Nat /\ s_retry_count' <= failures'
      BY <1>0, <1>8, <2>1 DEF Station!StaDisconnected
    <3>2. /\ radio' = "connecting" /\ radio # "off"
          /\ UNCHANGED <<pc, returned, power_save, bits>>
      BY <1>8, <2>1 DEF Station!StaDisconnected
    <3> QED BY <3>1, <3>2
  <2>2. CASE ~(s_retry_count < WIFI_MAX_RETRIES)
    <3>1. failures' > WIFI_MAX_RETRIES /\ failures' \in Nat /\ s_retry_count' <= failures'
      BY <1>0, <1>8, <2>2 DEF Station!StaDisconnected
    <3> QED BY <1>0, <1>8, <2>2, <3>1 DEF Station!StaDisconnected
  <2> QED BY <2>1, <2>2
<1>9. CASE UNCHANGED Station!vars
  BY <1>9 DEF Station!vars
<1> QED BY <1>1, <1>2, <1>3, <1>4, <1>5, <1>6, <1>7, <1>8, <1>9
        DEF Station!Next, Station!Worker, Station!EventTask

(* WifiStation_Connect and WifiEventHandler, for every number of retries:  *)
(* ESP_OK means an address and no modem sleep, and the station gives up    *)
(* only after a whole run of disconnections with no address in between.    *)
THEOREM StationIsSound ==
    Station!Spec => [](Station!TypeOK /\ Station!OkIsAwake /\ Station!GivesUpLate)
<1>1. Station!Init => StationInv
  BY TransportAssumption DEF Station!WifiAssumption, Station!Init, StationInv, Station!TypeOK,
         Station!OkIsAwake, Station!GivesUpLate
<1>2. StationInv => Station!TypeOK /\ Station!OkIsAwake /\ Station!GivesUpLate
  BY DEF StationInv
<1> QED BY <1>1, <1>2, StationInvNext, PTL DEF Station!Spec

(* ArtifactCache, HttpsDownload_ToCache and WifiStation_Connect, for all   *)
(* files, requests, sizes and numbers of retries: what they report as done *)
(* is done (HttpsDownload, DownloadIsSound).                               *)
THEOREM DoneIsDone == LiveSpec => []OkMeansDone
<1>1. Cache!Spec => []Cache!CacheIsSound
  BY TransportAssumption, Cache!DownloadIsSound
<1>2. Cache!CacheIsSound /\ Station!TypeOK /\ Station!OkIsAwake /\ Station!GivesUpLate
        => OkMeansDone
  BY DEF Cache!CacheIsSound, OkMeansDone
<1> QED BY <1>1, <1>2, StationIsSound, BenchRunsCache, BenchRunsStation, PTL

=============================================================================
