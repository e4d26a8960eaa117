--------------------------- MODULE GatewayManager ---------------------------
(***************************************************************************)
(* The gateway's worker task: GatewayTask, GatewayManager_Run and          *)
(* ProcessCommand, between the broker, the file servers and the node.      *)
(*                                                                         *)
(* A download is one step with the promise that HttpsDownload checks, a    *)
(* transfer one step with what UartTransfer leaves open: the node runs the *)
(* new version, has returned to the old one, or is still busy.             *)
(***************************************************************************)
EXTENDS MqttOrchestrator

CONSTANTS
    Files,       \* what servers answer with: [size, crc, container_target]
    Versions     \* versions the node may run at the start

VARIABLES
    config,      \* GatewayConfig_t: [valid, single_shot]
    wpc,         \* place of the worker
    command,     \* MqttOtaCommand_t being processed
    cache,       \* the artifact in the cache: [update_id, target_version, size, crc,
                 \*                             container_target]
    artifact,    \* UartOtaArtifact_t handed to the UART client
    node,        \* the node: [version, installing], the confirmed version, and the one
                 \* of an accepted INSTALL that is not yet confirmed or rolled back, or 0
    hello,       \* final_info, its last answer to the transfer: [version, idle]
    waiting,     \* message PublishStatusAndWait waits for: [id, status]
    result,      \* what ProcessCommand and GatewayManager_Run return
    refused,     \* history: the outbox refused a message of this command
    settled,     \* history: final status whose publication returned ESP_OK
    hidden       \* history: version that the node ran when it gave the answer that
                 \* decides, with an update under way that it did not show, or 0

workerVars == <<config, wpc, command, cache, artifact, node, hello, waiting, result, refused, settled, hidden>>
vars == <<mqttVars, workerVars>>

NoCommand == <<>>
NoFile == [update_id |-> 0, target_version |-> 0, size |-> 0, crc |-> 0, container_target |-> 0]
NoHello == [version |-> 0, idle |-> FALSE]
NoWait == [id |-> 0, status |-> NoStatus]
Status(state) == [state |-> state, update_id |-> command.update_id,
                  target_version |-> command.target_version]

Init ==
    /\ MqttInit
    /\ config \in [valid : BOOLEAN, single_shot : BOOLEAN]
    /\ wpc = "config" /\ command = NoCommand /\ cache = NoFile /\ artifact = NoFile
    /\ node \in [version : Versions, installing : {0}]
    /\ hello = NoHello /\ waiting = NoWait /\ result = "none" /\ refused = FALSE
    /\ settled = NoStatus /\ hidden = 0

Goto(pc) == wpc' = pc

(* GatewayTask after GatewayManager_Run: it only delays.                   *)
Return == Goto("returned")

-----------------------------------------------------------------------------
(* GatewayManager_Run up to its loop.                                      *)

ValidateConfiguration ==
    /\ wpc = "config"
    /\ IF config.valid THEN Goto("wifi") ELSE Return
    /\ UNCHANGED <<mqttVars, config, command, cache, artifact, node, hello, waiting, result, refused, settled, hidden>>

(* WifiStation_Connect.                                                    *)
Wifi ==
    /\ wpc = "wifi"
    /\ Goto("time") \/ Return
    /\ UNCHANGED <<mqttVars, config, command, cache, artifact, node, hello, waiting, result, refused, settled, hidden>>

(* TimeSync_UseTestEpoch or TimeSync_Sntp.                                 *)
Time ==
    /\ wpc = "time"
    /\ Goto("start") \/ Return
    /\ UNCHANGED <<mqttVars, config, command, cache, artifact, node, hello, waiting, result, refused, settled, hidden>>

StartMqtt ==
    /\ wpc = "start"
    /\ \/ Start /\ Goto("ready")
       \/ UNCHANGED mqttVars /\ Return
    /\ UNCHANGED <<config, command, cache, artifact, node, hello, waiting, result, refused, settled, hidden>>

(* The wait for the ready bit, and its timeout.                            *)
StartReady ==
    /\ wpc = "ready"
    /\ \/ READY_BIT \in events /\ Goto("uart") /\ UNCHANGED mqttVars
       \/ READY_BIT \notin events /\ Stop /\ Return
    /\ UNCHANGED <<config, command, cache, artifact, node, hello, waiting, result, refused, settled, hidden>>

UartInit ==
    /\ wpc = "uart"
    /\ \/ Goto("online") /\ UNCHANGED mqttVars
       \/ Stop /\ Return
    /\ UNCHANGED <<config, command, cache, artifact, node, hello, waiting, result, refused, settled, hidden>>

Online ==
    /\ wpc = "online"
    /\ \/ PublishStatus([NoStatus EXCEPT !.state = "online"]) /\ Goto("wait")
       \/ ~HasRoom /\ Stop /\ Return
    /\ UNCHANGED <<config, command, cache, artifact, node, hello, waiting, result, refused, settled, hidden>>

(* The loop takes a command, or times out.                                 *)
TakeCommand ==
    /\ wpc = "wait"
    /\ WaitCommand
    /\ command' = Head(command_queue)
    /\ settled' = NoStatus /\ refused' = FALSE /\ result' = "none" /\ hidden' = 0
    /\ Goto("query")
    /\ UNCHANGED <<config, cache, artifact, node, hello, waiting>>

CommandTimeout ==
    /\ wpc = "wait" /\ config.single_shot /\ command_queue = <<>>
    /\ Stop /\ Return
    /\ UNCHANGED <<config, command, cache, artifact, node, hello, waiting, result, refused, settled, hidden>>

(* ProcessCommand has returned, and with it its locals end.  The cache     *)
(* itself stays, but is not read before the next download.                 *)
Finish ==
    /\ wpc = "finish"
    /\ command' = NoCommand /\ waiting' = NoWait
    /\ artifact' = NoFile /\ cache' = NoFile /\ hello' = NoHello
    /\ IF config.single_shot THEN Stop /\ Return ELSE UNCHANGED mqttVars /\ Goto("wait")
    /\ UNCHANGED <<config, node, result, refused, settled, hidden>>

-----------------------------------------------------------------------------
(* PublishStatusAndWait and its callers.                                   *)

(* The message goes out and the wait begins; ProcessCommand returns        *)
(* `outcome` if the acknowledgement comes.                                 *)
PublishFinal(state, outcome) ==
    /\ \/ /\ PublishAndClear(Status(state))
          /\ waiting' = [id |-> next_id, status |-> Status(state)]
          /\ result' = outcome /\ UNCHANGED refused
          /\ Goto("ack")
       \/ /\ PublishRefused
          /\ result' = "error" /\ refused' = TRUE
          /\ Goto("finish") /\ UNCHANGED waiting
    /\ UNCHANGED <<config, command, cache, node, settled>>

(* PublishFailure.                                                         *)
PublishFailure == PublishFinal("failed", "error") /\ hidden' = 0

AckOk ==
    /\ settled' = waiting.status
    /\ Goto("finish")
    /\ UNCHANGED <<config, command, cache, artifact, node, hello, waiting, result, refused, hidden>>

AckTimeout ==
    /\ Goto("finish") /\ result' = "error"
    /\ UNCHANGED <<config, command, cache, artifact, node, hello, waiting, refused, settled, hidden>>

AckStep(pc) ==
    /\ Goto(pc)
    /\ UNCHANGED <<config, command, cache, artifact, node, hello, waiting, result, refused, settled, hidden>>

(* The check before the loop.                                              *)
AckAtOnce ==
    /\ wpc = "ack"
    /\ IF AckSeen(waiting.id) THEN AckOk ELSE AckStep("loop")
    /\ UNCHANGED mqttVars

(* xEventGroupWaitBits returns because of the bit.                         *)
AckBit ==
    /\ wpc = "loop"
    /\ TakePublishedBit
    /\ AckStep("check")

AckCheck ==
    /\ wpc = "check"
    /\ IF AckSeen(waiting.id) THEN AckOk ELSE AckStep("loop")
    /\ UNCHANGED mqttVars

(* Mutant: the deadline is never reached.                                  *)
AckForever ==
    /\ wpc = "loop" /\ AckSeen(waiting.id) /\ AckOk
    /\ UNCHANGED mqttVars

(* The deadline: at the top of the loop, or inside xEventGroupWaitBits,    *)
(* after which the identifier is looked at once more.                      *)
AckDeadline ==
    /\ wpc = "loop"
    /\ \/ AckTimeout
       \/ PUBLISHED_BIT \notin events /\ AckSeen(waiting.id) /\ AckOk
    /\ UNCHANGED mqttVars

-----------------------------------------------------------------------------
(* ProcessCommand.                                                         *)

(* HELLO of a node n: the running version is compiled in, the state is     *)
(* that of the session in RAM.  A transfer that was left is not IDLE on a  *)
(* settled node; a trial, or an INSTALL that was recorded but refused, is  *)
(* IDLE after an ABORT or a start without external flash.                  *)
Answers(n) == [version : {n.version, n.installing} \ {0}, idle : BOOLEAN]

(* The answer h, which decides, is taken from the node n.                  *)
Decides(h, n) == hidden' = IF h.idle /\ n.installing # 0 THEN h.version ELSE 0

(* Mutant: the state is not looked at.                                     *)
RunsTarget(h) == h.version = command.target_version

(* HELLO, the first or the last, against the command.                      *)
IsTarget(h) == h.version = command.target_version /\ h.idle

Query ==
    /\ wpc = "query"
    /\ \/ PublishFailure
       \/ \E h \in Answers(node) :
            IF IsTarget(h)
              THEN PublishFinal("confirmed", "ok") /\ Decides(h, node)
              ELSE /\ Goto("accept")
                   /\ UNCHANGED <<mqttVars, config, command, cache, node, waiting, result, refused,
                                  settled, hidden>>
    /\ UNCHANGED <<artifact, hello>>

(* A refusal of the outbox ends the command without a report.              *)
Accept ==
    /\ wpc = "accept"
    /\ \/ PublishStatus(Status("accepted")) /\ Goto("download") /\ UNCHANGED <<result, refused>>
       \/ ~HasRoom /\ UNCHANGED mqttVars /\ Goto("finish") /\ result' = "error" /\ refused' = TRUE
    /\ UNCHANGED <<config, command, cache, artifact, node, hello, waiting, settled, hidden>>

(* HttpsDownload_ToCache.  A failure leaves no artifact in the cache.      *)
Download ==
    /\ wpc = "download"
    /\ \/ cache' = NoFile /\ Goto("downloadFailed")
       \/ \E f \in Files :
            /\ cache' = [update_id |-> command.update_id,
                         target_version |-> command.target_version,
                         size |-> f.size, crc |-> f.crc, container_target |-> f.container_target]
            /\ Goto("compare")
    /\ UNCHANGED <<mqttVars, config, command, artifact, node, hello, waiting, result, refused, settled, hidden>>

DownloadFailed == wpc = "downloadFailed" /\ PublishFailure /\ UNCHANGED <<artifact, hello>>

(* Mutant: the size is compared, the checksum is not.                      *)
SameSize == cache.size = command.image_size

(* The comparison of the download with the command.                        *)
MatchesCommand == cache.size = command.image_size /\ cache.crc = command.image_crc32

Compare ==
    /\ wpc = "compare"
    /\ IF MatchesCommand
         THEN /\ Goto("downloaded")
              /\ UNCHANGED <<mqttVars, config, command, cache, node, waiting, result, refused, settled,
                             hidden>>
         ELSE PublishFailure
    /\ UNCHANGED <<artifact, hello>>

(* Statuses whose failure is ignored.                                      *)
Announce(pc, state, next) ==
    /\ wpc = pc
    /\ PublishStatus(Status(state)) \/ (~HasRoom /\ UNCHANGED mqttVars)
    /\ Goto(next)
    /\ UNCHANGED <<config, command, cache, artifact, node, hello, waiting, result, refused, settled, hidden>>

Downloaded == Announce("downloaded", "downloaded", "export")

(* ArtifactCache_AsUartArtifact: a container must be for the version of    *)
(* the cache header; 0 stands for a file that is no container.             *)
Export ==
    /\ wpc = "export"
    /\ IF cache.container_target \in {0, cache.target_version}
         THEN /\ artifact' = cache /\ Goto("install")
              /\ UNCHANGED <<mqttVars, config, command, cache, node, waiting, result, refused, settled,
                             hidden>>
         ELSE PublishFailure /\ UNCHANGED artifact
    /\ UNCHANGED hello

Installing == Announce("install", "installing", "transfer")

(* UartOta_TransferInstallAndWait: its last answer, or an error.  The      *)
(* node may be left with the update under way and settle later.            *)
Transfer ==
    /\ wpc = "transfer"
    /\ \E n \in {node, [version |-> artifact.target_version, installing |-> 0],
                 [node EXCEPT !.installing = artifact.target_version]} :
         /\ node' = n
         /\ \/ \E h \in Answers(n) : hello' = h /\ Decides(h, n) /\ Goto("final")
            \/ UNCHANGED <<hello, hidden>> /\ Goto("transferFailed")
    /\ UNCHANGED <<mqttVars, config, command, cache, artifact, waiting, result, refused, settled>>

TransferFailed == wpc = "transferFailed" /\ PublishFailure /\ UNCHANGED <<artifact, hello>>

Final ==
    /\ wpc = "final"
    /\ IF IsTarget(hello)
         THEN PublishFinal("confirmed", "ok") /\ UNCHANGED hidden
         ELSE PublishFailure
    /\ hello' = NoHello
    /\ UNCHANGED artifact

(* The node ends an update by itself, either way.                          *)
NodeSettles ==
    /\ node.installing # 0
    /\ node' \in [version : {node.version, node.installing}, installing : {0}]
    /\ UNCHANGED <<mqttVars, config, wpc, command, cache, artifact, hello, waiting, result, refused, settled, hidden>>

-----------------------------------------------------------------------------
Run == ValidateConfiguration \/ Wifi \/ Time \/ StartMqtt \/ StartReady \/ UartInit \/ Online

ProcessCommand ==
    \/ Query \/ Accept \/ Download \/ DownloadFailed \/ Compare \/ Downloaded \/ Export
    \/ Installing \/ Transfer \/ TransferFailed \/ Final

PublishStatusAndWait == AckAtOnce \/ AckBit \/ AckCheck \/ AckDeadline

Worker == Run \/ TakeCommand \/ ProcessCommand \/ PublishStatusAndWait \/ Finish

Mqtt == MqttTask /\ UNCHANGED workerVars

Environment ==
    \/ Disconnected /\ UNCHANGED workerVars
    \/ \E p \in Payloads : Deliver(p) /\ UNCHANGED workerVars
    \/ NodeSettles
    \/ CommandTimeout

Next == Worker \/ Mqtt \/ Environment

Spec == Init /\ [][Next]_vars

(* The worker task is scheduled, and the calls that wait have deadlines.   *)
FairSpec == Spec /\ WF_vars(Worker)

-----------------------------------------------------------------------------
(* Types of the variables of the worker and of the orchestrator.           *)
TypeOK ==
    /\ client \in {"none", "started", "destroyed"}
    /\ events \subseteq {CONNECTED_BIT, READY_BIT, PUBLISHED_BIT}
    /\ fragment.received = Len(fragment.buffer) /\ fragment.received <= fragment.total
    /\ fragment.total <= MAX_PAYLOAD /\ (~fragment.active => fragment = NoFragment)
    /\ Len(command_queue) <= COMMAND_QUEUE_LENGTH
    /\ Len(outbox) <= OUTBOX
    /\ \A i, j \in 1..Len(outbox) : i # j => outbox[i].id # outbox[j].id
    /\ last_published_message_id \in -1..(next_id - 1)
    /\ result \in {"none", "ok", "error"}
    /\ wpc \in {"wait", "returned"} => command = NoCommand

(* A command whose fragments all arrived over one connection is queued,    *)
(* whatever was received or broken off before, unless one is queued        *)
(* already, which then stays; nothing else is ever queued.                 *)
DeliveredIsQueued ==
    [][ LET complete == delivery # NoDelivery /\ delivery' = NoDelivery /\ link'
            p == delivery.payload
        IN  /\ complete /\ p.topic = "command" /\ p.length <= MAX_PAYLOAD
                  /\ ParseCommandJson(p.json) /\ command_queue = <<>>
               => command_queue' = <<p.json>>
            /\ Len(command_queue') > Len(command_queue) => complete ]_vars

(* What is sent to the node is what the command ordered, in identifier,    *)
(* version, size and checksum, although the file comes from elsewhere and  *)
(* passes through the cache.                                               *)
InstallsWhatWasOrdered ==
    wpc \in {"install", "transfer"} =>
       /\ artifact.update_id = command.update_id
       /\ artifact.target_version = command.target_version
       /\ artifact.size = command.image_size /\ artifact.crc = command.image_crc32

(* PublishStatusAndWait returns ESP_OK only for a status that the broker   *)
(* has received: acknowledgements of the messages that PublishStatus left  *)
(* in the outbox do not count.                                             *)
AckIsReal == settled # NoStatus => settled \in broker.seen

(* ESP_OK of ProcessCommand, which GatewayTask reports as PASS: the node   *)
(* runs the version that was ordered, confirmed, and goes on running it.   *)
(* HELLO is all the gateway has for it: the one exception is a node that   *)
(* ran this version with an update under way which its last answer did not *)
(* show.  Run uart_storage_lost has such a trial, and it may be rolled     *)
(* back after the report.                                                  *)
OkIsWitnessed ==
    result = "ok" /\ wpc \in {"finish", "wait", "returned"} /\ settled # NoStatus =>
       \/ node = [version |-> settled.target_version, installing |-> 0]
       \/ hidden = settled.target_version

(* A command does not end without its outcome: a final status has reached  *)
(* the broker or waits in the outbox, unless the outbox refused a message. *)
OutcomeIsPublished ==
    wpc = "finish" /\ ~refused =>
       \E s \in {Status("confirmed"), Status("failed")} :
          s \in broker.seen \/ \E i \in 1..Len(outbox) : outbox[i].status = s

(* What the gateway reports is so, and it reports: the three above.        *)
ReportsAreTrue == TypeOK /\ AckIsReal /\ OkIsWitnessed /\ OutcomeIsPublished

(* Processing a command ends, with the link lost for good too.             *)
CommandEnds == (command # NoCommand) ~> (command = NoCommand)

=============================================================================
