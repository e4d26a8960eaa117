---------------------------- MODULE UartTransfer ----------------------------
(***************************************************************************)
(* Gateway client and node receiver over a line that loses and damages     *)
(* frames, with power cuts of either side and flash errors of the node:    *)
(* what the transfer of an artifact promises.                              *)
(***************************************************************************)
EXTENDS OtaReceiver, UartOtaClient, Functions

CONSTANT Wanted    \* the artifact the operator keeps asking for in the end

ASSUME WantedAssumption == \A c \in Catalogues : Wanted \in c

VARIABLE unclear   \* history: an INSTALL was refused but its record is in force,
                   \* and no command has begun since on a quiet system

vars == <<toNode, toClient, world, nodeVars, clientVars, unclear>>

Init ==
    /\ boot = "boot" /\ toNode = <<>> /\ toClient = <<>>
    /\ stable = FALSE /\ catalogue \in Catalogues
    /\ session = IdleSession(FALSE)
    /\ incoming = [o \in Bytes |-> Blank]
    /\ ckpt = NoCheckpoint
    /\ md = SettledRecord(FactoryVersion) /\ version = FactoryVersion
    /\ cpc = "idle" /\ art = NoArtifact /\ req = NoPacket
    /\ attempts = 0 /\ transitions = 0 /\ verdict = "none"
    /\ unclear = FALSE

(* An INSTALL that is accepted restarts the node.                          *)
RefusedInForce ==
    boot = "app" /\ boot' = "app" /\ md'.state = "ARTIFACT_READY" /\ md' # md

NodeFrame == unclear' = (unclear \/ RefusedInForce) /\ UNCHANGED clientVars

(* The boot record is settled and no frame is under way.                   *)
Quiet == md.state = "IDLE" /\ toNode = <<>> /\ toClient = <<>>

ClientFrame ==
    /\ unclear' = (unclear /\ ~(cpc = "idle" /\ cpc' = "probe" /\ Quiet))
    /\ UNCHANGED <<nodeVars, world>>

NodeStep ==
    /\ \/ OtaAgent_Process
       \/ TrialConfirm
       \/ TrialWatchdog
       \/ Bootloader
       \/ PowerCut
    /\ NodeFrame

ClientStep ==
    /\ \/ ReadFrame
       \/ Retransmit
       \/ GiveUp
       \/ Fetch
       \/ \E a \in catalogue : (stable => a = Wanted) /\ Command(a)
       \/ GatewayRestart
    /\ ClientFrame

(* The environment calms down.                                             *)
Settle ==
    /\ ~stable /\ stable' = TRUE
    /\ UNCHANGED <<catalogue, toNode, toClient, nodeVars, clientVars, unclear>>

Next == NodeStep \/ ClientStep \/ Settle

Spec == Init /\ [][Next]_vars

(* The poll that finds UART_OTA_FINAL_TIMEOUT_MS expired.                  *)
FinalDeadline ==
    cpc = "final" /\ (ReadFrame \/ GiveUp) /\ verdict' = "failed"

(* Both programs keep running, the operator repeats the command, the       *)
(* timers of the client expire, and polls do not outlast the deadline.     *)
Fairness ==
    /\ WF_vars(OtaAgent_Process /\ NodeFrame)
    /\ WF_vars(TrialConfirm /\ NodeFrame)
    /\ WF_vars(TrialWatchdog /\ NodeFrame)
    /\ WF_vars(Bootloader /\ NodeFrame)
    /\ WF_vars(ReadFrame /\ ClientFrame)
    /\ WF_vars((Retransmit \/ GiveUp) /\ ClientFrame)
    /\ WF_vars(Fetch /\ ClientFrame)
    /\ SF_vars(FinalDeadline /\ ClientFrame)
    /\ WF_vars(Command(Wanted) /\ ClientFrame)

FairSpec == Spec /\ Fairness

-----------------------------------------------------------------------------
NodeStates == {"IDLE", "RECEIVING", "ARTIFACT_READY", "TRIAL_BOOT", "CONFIRMED", "FAILED"}

(* Shape of the state; a request is sent at most RetryCount times and the  *)
(* plan loop turns at most MaxTransitions times (Request and               *)
(* UartOta_TransferInstallAndWait).                                        *)
TypeOK ==
    /\ boot \in {"app", "boot"} /\ stable \in BOOLEAN
    /\ session.state \in NodeStates /\ session.next \in 0..INCOMING_SIZE
    /\ session.erased \subseteq Sectors
    /\ ckpt.state \in {"IDLE", "RECEIVING", "ARTIFACT_READY"} /\ CheckpointValid(ckpt)
    /\ md.state \in NodeStates
    /\ Len(toNode) + Len(toClient) + (IF req = NoPacket THEN 1 ELSE 0) <= MaxLag
    /\ attempts \in 0..RetryCount /\ transitions \in 0..MaxTransitions
    /\ verdict \in {"none", "ok", "rejected", "failed"}

(* Contents a transfer with this identifier may consist of.                *)
ContentsOf(id) == {a.crc : a \in {b \in catalogue : b.update_id = id}}

(* Every byte below the offset the receiver claims, in RAM or in its       *)
(* checkpoint, has been programmed by a transfer with that identifier:     *)
(* lost, repeated and stale DATA packets, interrupted erases and resumed   *)
(* transfers leave no hole (ProcessData, RestoreDownloadCheckpoint).       *)
StagedWithoutHoles ==
    /\ session.state \in {"RECEIVING", "ARTIFACT_READY"} =>
          \A o \in 0..(session.next - 1) :
             incoming[o] \in ContentsOf(session.artifact.update_id)
    /\ ckpt.state # "IDLE" =>
          \A o \in 0..(ckpt.next - 1) :
             incoming[o] \in ContentsOf(ckpt.artifact.update_id)

(* ARTIFACT_READY, in RAM and in the checkpoint, means that Incoming holds *)
(* the announced artifact, even when two artifacts share an identifier and *)
(* a transfer mixes their bytes (ProcessFinish).                           *)
ReadyMeansWhole ==
    /\ session.state = "ARTIFACT_READY" => Holds(incoming, session.artifact)
    /\ ckpt.state = "ARTIFACT_READY" => Holds(incoming, ckpt.artifact)

(* What the receiver believes to be persisted never exceeds what it has,   *)
(* and a checkpoint of its session never claims more than the session, so  *)
(* a restart never skips bytes (PersistReceiveBoundaryIfNeeded).           *)
CheckpointBehind ==
    session.state = "RECEIVING" =>
       /\ session.persisted <= session.next
       /\ ckpt.state = "RECEIVING" =>
             ckpt.artifact = session.artifact /\ ckpt.next <= session.next

(* A command reported as successful left the node with that version,       *)
(* confirmed: its boot record is settled (WaitForFinal, ALREADY_TARGET).   *)
(* The client decides by the state in HELLO, and that may be old or lost:  *)
(* - with a node slower than MaxLag = 3 a HELLO of an earlier state,       *)
(*   answered after its deadline, can make the client abort a trial, which *)
(*   no longer shows in the next HELLO;                                    *)
(* - so can an INSTALL that was refused although its record is in force,   *)
(*   when the node restarts behind the client's back, until a command      *)
(*   begins on a settled record with no frame under way;                   *)
(* - a start without external flash does not show a trial at all.          *)
OkIsReal ==
    verdict = "ok" /\ ~unclear => version = art.target_version /\ md.state = "IDLE"

(* Bytes of its artifact the client takes to be on the node.               *)
Delivered ==
    CASE cpc = "data" -> req.offset
      [] cpc \in {"finish", "refinish", "install"} -> art.size
      [] OTHER -> 0

(* The node holds every byte the client takes to be there, of the very     *)
(* artifact of the command: no stale answer, power cut or foreign session  *)
(* makes it continue, finish or install another transfer (SendData,        *)
(* FinishTransfer, plans RESUME and INSTALL_READY).  A transfer is known   *)
(* by its identifier alone, so this needs a server that uses each once.    *)
(* It also needs the response time of the node, MaxLag < 4: answers carry  *)
(* sequence number and identifier only, which a repeated command repeats,  *)
(* and nothing drains the client's buffer between commands.                *)
ContinuesItsOwn ==
    IsInjective([a \in catalogue |-> a.update_id]) =>
       \A o \in 0..(Delivered - 1) : incoming[o] = art.crc

(* Once faults stop and the operator keeps asking, the artifact is         *)
(* installed, confirmed and reported, from whatever state the faults left  *)
(* (resume, abort of foreign and failed sessions, lost INSTALL answer),    *)
(* unless a newer version has already been confirmed.  Two faults have     *)
(* consequences that outlive them: an error in the installation or the     *)
(* rollback that the bootloader records as FAILED, and a start of a        *)
(* confirmed application without external flash, which OtaReceiver_Init    *)
(* does not try again before the next reset.                               *)
TransferCompletes ==
    stable ~> \/ /\ md.state = "IDLE"
                 /\ \/ version > Wanted.target_version
                    \/ version = Wanted.target_version /\ verdict = "ok"
              \/ md.state = "FAILED"
              \/ boot = "app" /\ ~session.storage_ready /\ md.state = "IDLE"

=============================================================================
