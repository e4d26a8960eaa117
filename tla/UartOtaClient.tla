---------------------------- MODULE UartOtaClient ----------------------------
(***************************************************************************)
(* The gateway's end of a transfer: ProcessCommand of the gateway manager  *)
(* and UartOta_TransferInstallAndWait, one step per request,               *)
(* retransmission and answer.  Both are sequential: `cpc` names the        *)
(* routine that waits for the answer to `req`.                             *)
(***************************************************************************)
EXTENDS UartLink

CONSTANTS
    RetryCount,      \* transmissions of a request, retry_count
    MaxTransitions   \* bound of the plan loop

ASSUME ClientAssumption == {RetryCount, MaxTransitions} \subseteq Nat \ {0}

VARIABLES
    cpc,          \* routine that waits for an answer; "idle" between commands,
                  \* "fetch" during the download
    art,          \* artifact of the current or last command
    req,          \* outstanding request
    attempts,     \* times it has been sent
    transitions,  \* turns of the plan loop completed
    verdict       \* result of the last command

clientVars == <<cpc, art, req, attempts, transitions, verdict>>

Control(command, id, offset, sequence) ==
    Packet(command, id, offset, sequence, 0, NoArtifact)

Query == Control("QUERY", 0, 0, 0)
Start == Packet("START", art.update_id, 0, 0, 0, art)
Resume == Control("RESUME", art.update_id, 0, 0)
Finish == Control("FINISH", art.update_id, art.size, (art.size + MTU - 1) \div MTU)
Install == Control("INSTALL", art.update_id, art.size, 0)

Chunk(offset) == IF art.size - offset > MTU THEN MTU ELSE art.size - offset
Data(offset) == Packet("DATA", art.update_id, offset, offset \div MTU, Chunk(offset), art)

(* SendFrame: nobody listens while the bootloader runs.                    *)
Transmitted(p) == IF boot = "app" THEN Sent(toNode, p) ELSE {toNode}

-----------------------------------------------------------------------------
(* Request(p) is called by the routine pc, or a routine returns.           *)
Issue(pc, p) ==
    /\ cpc' = pc /\ req' = p /\ attempts' = 1
    /\ toNode' \in Transmitted(p)
    /\ UNCHANGED <<art, verdict>>

Call(pc, p) == Issue(pc, p) /\ UNCHANGED transitions

Return(result) ==
    /\ cpc' = "idle" /\ req' = NoPacket /\ attempts' = 0 /\ transitions' = 0
    /\ verdict' = result
    /\ art' = IF result = "failed" THEN NoArtifact ELSE art
    /\ UNCHANGED toNode

(* Request's test of a candidate answer.                                   *)
Matches(a) ==
    /\ a.sequence = req.sequence
    /\ req.update_id # 0 => a.update_id = req.update_id

RequireAck(a) == a.command = "ACK" /\ a.payload = "status"
ParseHello(a) == a.command = "ACK" /\ a.payload = "hello"

-----------------------------------------------------------------------------
(* Mutant: a session of the right size is taken for the own one.           *)
SameSize(t) == t.expected_size = art.size

SameArtifact(t) ==
    t.active_update_id = art.update_id /\ t.expected_size = art.size

(* Mutant: any offset will do.                                             *)
ResumableAnywhere(t) == SameArtifact(t) /\ t.next <= art.size

Resumable(t) == SameArtifact(t) /\ t.next <= art.size /\ t.next % MTU = 0

(* UartOta_SelectPlan.                                                     *)
SelectPlan(t) ==
    CASE t.application_version = art.target_version /\ t.update_state = "IDLE" ->
            "ALREADY_TARGET"
      [] t.application_version # art.target_version /\ t.update_state = "IDLE" ->
            "START_NEW"
      [] t.update_state = "RECEIVING" ->
            IF Resumable(t) THEN "RESUME" ELSE "ABORT_FOREIGN"
      [] t.update_state = "ARTIFACT_READY" ->
            IF SameArtifact(t) THEN "INSTALL_READY" ELSE "ABORT_FOREIGN"
      [] t.update_state \in {"TRIAL_BOOT", "CONFIRMED"} -> "WAIT_TARGET"
      [] t.update_state = "FAILED" -> "ABORT_FOREIGN"

(* Checked once, before the plan loop.                                     *)
TargetSupports(t) == t.capable /\ art.base_version \in {0, t.application_version}

ExecutePlan(t) ==
    LET plan == SelectPlan(t)
    IN  \/ plan = "ALREADY_TARGET" /\ Return("ok")
        \/ plan = "START_NEW" /\ Call("start", Start)
        \/ plan = "RESUME" /\ Call("resume", Resume)
        \/ plan = "INSTALL_READY" /\ Call("install", Install)
        \/ plan = "WAIT_TARGET" /\ Call("final", Query)
        \/ plan = "ABORT_FOREIGN" /\ Call("abort", Control("ABORT", t.active_update_id, 0, 0))

(* The next turn of SendData, which may fail to read the artifact cache.   *)
SendData(offset) ==
    IF offset < art.size
      THEN Call("data", Data(offset)) \/ (~stable /\ Return("failed"))
      ELSE Call("finish", Finish)

(* The next turn of UartOta_Query or WaitForFinal, unless the deadline has *)
(* passed: in 12 s and in 120 s the node has dealt with every request but  *)
(* the polls of that very loop.                                            *)
Poll(pc) ==
    \/ Call(pc, Query)
    \/ /\ \A i \in 1..Len(toNode) : toNode[i].command = "QUERY"
       /\ Return("failed")

-----------------------------------------------------------------------------
(* The answer to the outstanding request, per calling routine.             *)

(* ProcessCommand looks at the node before it downloads the artifact.      *)
OnProbe(a) ==
    IF ~ParseHello(a) THEN Poll("probe")
    ELSE IF a.application_version = art.target_version /\ a.update_state = "IDLE"
      THEN Return("ok")
      ELSE /\ cpc' = "fetch" /\ req' = NoPacket /\ attempts' = 0
           /\ UNCHANGED <<art, transitions, verdict, toNode>>

(* HttpsDownload_ToCache, and on to the transfer.                          *)
Fetch ==
    /\ cpc = "fetch"
    /\ Call("query", Query) \/ (~stable /\ Return("failed"))
    /\ UNCHANGED toClient

OnQuery(a) ==
    IF ~ParseHello(a) THEN Poll("query")
    ELSE IF \/ transitions = 0 /\ ~TargetSupports(a)
            \/ transitions = MaxTransitions
      THEN Return("failed")
      ELSE ExecutePlan(a)

OnAbort(a) ==
    IF RequireAck(a) THEN Issue("query", Query) /\ transitions' = transitions + 1
                     ELSE Return("failed")

OnStart(a) == IF RequireAck(a) THEN SendData(0) ELSE Return("failed")

OnResume(a) ==
    IF RequireAck(a) /\ a.next <= art.size /\ a.next % MTU = 0
      THEN SendData(a.next) ELSE Return("failed")

OnData(a) ==
    IF RequireAck(a) /\ a.next = req.offset + req.length
      THEN SendData(req.offset + req.length) ELSE Return("failed")

(* FINISH is sent and acknowledged twice.                                  *)
OnFinish(a) ==
    IF ~RequireAck(a) \/ a.update_state # "ARTIFACT_READY" THEN Return("failed")
    ELSE IF cpc = "finish" THEN Call("refinish", Finish)
                           ELSE Call("install", Install)

(* Whatever INSTALL is answered, the state of the target decides.          *)
OnInstall(a) == Call("final", Query)

(* Mutant: the version alone decides.                                      *)
OnFinalVersion(a) ==
    IF ParseHello(a) /\ a.application_version = art.target_version
      THEN Return("ok") ELSE Poll("final")

(* One poll of WaitForFinal.                                               *)
OnFinal(a) ==
    CASE ~ParseHello(a) -> Poll("final")
      [] ParseHello(a) /\ a.update_state = "IDLE" ->
            Return(IF a.application_version = art.target_version THEN "ok" ELSE "rejected")
      [] OTHER -> Poll("final")

OnAnswer(a) ==
    \/ cpc = "probe" /\ OnProbe(a)
    \/ cpc = "query" /\ OnQuery(a)
    \/ cpc = "abort" /\ OnAbort(a)
    \/ cpc = "start" /\ OnStart(a)
    \/ cpc = "resume" /\ OnResume(a)
    \/ cpc = "data" /\ OnData(a)
    \/ cpc \in {"finish", "refinish"} /\ OnFinish(a)
    \/ cpc = "install" /\ OnInstall(a)
    \/ cpc = "final" /\ OnFinal(a)

(* A frame is read; what does not match the request is skipped.            *)
ReadFrame ==
    /\ req # NoPacket /\ toClient # <<>>
    /\ toClient' = Tail(toClient)
    /\ IF Matches(Head(toClient)) THEN OnAnswer(Head(toClient))
                                  ELSE UNCHANGED <<clientVars, toNode>>

-----------------------------------------------------------------------------
(* Time.                                                                   *)

(* The response timeout.  The client empties its receive buffer while it   *)
(* waits: an answer that comes too late comes after the timeout.  By the   *)
(* time the next timeout expires, the node has taken up the request that   *)
(* was sent MaxLag timeouts ago, and 1.5 s are longer than any answer      *)
(* takes once nothing goes wrong any more.                                 *)
ResponseTimeout ==
    /\ req # NoPacket /\ toClient = <<>>
    /\ Len(toNode) < MaxLag
    /\ stable => toNode = <<>>

(* Mutant: one transmission too many.                                      *)
RetransmitOnceMore ==
    /\ ResponseTimeout /\ attempts <= RetryCount
    /\ attempts' = attempts + 1
    /\ toNode' \in Transmitted(req)
    /\ UNCHANGED <<cpc, art, req, transitions, verdict, toClient>>

Retransmit ==
    /\ ResponseTimeout /\ attempts < RetryCount
    /\ attempts' = attempts + 1
    /\ toNode' \in Transmitted(req)
    /\ UNCHANGED <<cpc, art, req, transitions, verdict, toClient>>

(* Request returns ESP_ERR_TIMEOUT.                                        *)
GiveUp ==
    /\ ResponseTimeout /\ attempts = RetryCount
    /\ CASE cpc \in {"probe", "query", "final"} -> Poll(cpc)
         [] cpc = "install" -> Call("final", Query)
         [] OTHER -> Return("failed")
    /\ UNCHANGED toClient

-----------------------------------------------------------------------------
(* A command that names the artifact a arrives.                            *)
Command(a) ==
    /\ cpc = "idle"
    /\ cpc' = "probe" /\ art' = a /\ verdict' = "none"
    /\ req' = Query /\ attempts' = 1 /\ transitions' = 0
    /\ toNode' \in Transmitted(Query)
    /\ UNCHANGED toClient

(* The gateway restarts.  By the time it has joined the network and        *)
(* UartOta_Init flushes its receive buffer, the node has answered what it  *)
(* was sent.                                                               *)
GatewayRestart ==
    /\ ~stable /\ toNode = <<>>
    /\ cpc' = "idle" /\ art' = NoArtifact /\ verdict' = "none"
    /\ req' = NoPacket /\ attempts' = 0 /\ transitions' = 0
    /\ toClient' = <<>>
    /\ UNCHANGED toNode

=============================================================================
