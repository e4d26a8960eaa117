------------------------- MODULE UartTransferProofs -------------------------
(***************************************************************************)
(* The transfer of an artifact, for every catalogue, geometry of the       *)
(* flash, response time of the node and bound of the retries: what the     *)
(* receiver claims to have, in RAM and in its checkpoint, is in the        *)
(* Incoming partition, whatever is lost, repeated, damaged or cut off.     *)
(*                                                                         *)
(* Inv is inductive.  LinkInv and ClientInv say what is on the line and    *)
(* which requests the client makes: a DATA is never empty and belongs to a *)
(* published artifact.  LagInv counts the frames on the line, with room    *)
(* for one more while no request is outstanding: an answer is read before  *)
(* the next request is sent, and only a timeout adds a frame.  NodeInv     *)
(* ties the session to the checkpoint and the partition.  The part that    *)
(* none of the properties names is the bitmap of erased sectors: every     *)
(* byte the session claims lies in one of them, so that no packet erases a *)
(* byte that was received before.                                          *)
(***************************************************************************)
EXTENDS UartTransfer, TLAPS

Artifacts == catalogue \cup {NoArtifact}
Commands == {"NONE", "QUERY", "START", "DATA", "FINISH", "ABORT", "RESUME", "INSTALL"}

(* What the client sends: a START and a DATA are about a published         *)
(* artifact, and a DATA is not empty.                                      *)
Requests ==
    {p \in [command : Commands, update_id : Nat, offset : Nat, sequence : Nat,
            length : Nat, artifact : Artifacts] :
       /\ p.command \in {"START", "DATA"} =>
             p.artifact \in catalogue /\ p.update_id = p.artifact.update_id
       /\ p.command = "DATA" => p.length > 0}

Replies ==
    [command : {"ACK", "NACK"}, payload : {"status", "hello"}, update_id : Nat,
     sequence : Nat, update_state : NodeStates, active_update_id : Nat,
     next : 0..INCOMING_SIZE, expected_size : Nat, application_version : Nat,
     capable : BOOLEAN]

LinkInv == toNode \in Seq(Requests) /\ toClient \in Seq(Replies)

(* The part of it that the client writes to.                               *)
ToNodeOK == toNode \in Seq(Requests)

(* A client without an outstanding request may send one.                   *)
Slack == IF req = NoPacket THEN 1 ELSE 0
LagInv == Len(toNode) + Len(toClient) + Slack <= MaxLag

(* A routine of the client uses up the room of the frame it has read, of   *)
(* the timeout or of the slack, and no more.                               *)
OneMore == Len(toNode') + Slack' <= Len(toNode) + 1

Routines == {"probe", "fetch", "query", "abort", "start", "resume", "data", "finish",
             "refinish", "install", "final"}

ClientInv ==
    /\ cpc \in Routines \cup {"idle"}
    /\ art \in Artifacts /\ (cpc # "idle" => art \in catalogue)
    /\ req \in Requests /\ (cpc \in {"idle", "fetch"} => req = NoPacket)
    /\ attempts \in 0..RetryCount /\ transitions \in 0..MaxTransitions
    /\ cpc = "abort" => transitions < MaxTransitions
    /\ verdict \in {"none", "ok", "rejected", "failed"}

SessionType ==
    [state : NodeStates, artifact : Artifacts, next : 0..INCOMING_SIZE,
     persisted : 0..INCOMING_SIZE, erased : SUBSET Sectors, sequence : Nat,
     last : Seq(Nat), storage_ready : BOOLEAN]
CheckpointType ==
    [state : {"IDLE", "RECEIVING", "ARTIFACT_READY"}, artifact : Artifacts,
     next : 0..INCOMING_SIZE]
RecordType ==
    [state : {"IDLE", "ARTIFACT_READY", "TRIAL_BOOT", "CONFIRMED", "FAILED"},
     artifact : Artifacts, active : Nat]

(* The bytes below n are those of transfers with the artifact's identifier.*)
Staged(mem, a, n) == \A o \in 0..(n - 1) : mem[o] \in ContentsOf(a.update_id)

(* A session over this checkpoint and this partition.  While it receives,  *)
(* every sector it has written to is in its bitmap, and a checkpoint       *)
(* belongs to it and is behind it.                                         *)
SessionOK(s, c, mem) ==
    /\ s \in SessionType
    /\ s.state \in {"RECEIVING", "ARTIFACT_READY"} =>
          s.artifact \in catalogue /\ Staged(mem, s.artifact, s.next)
    /\ s.state = "RECEIVING" =>
          /\ s.next <= s.artifact.size /\ s.persisted <= s.next
          /\ \A o \in 0..(s.next - 1) : (o \div SECTOR) \in s.erased
          /\ c.state # "IDLE" => c.artifact = s.artifact /\ c.next <= s.next
    /\ s.state = "ARTIFACT_READY" => s.next = s.artifact.size /\ Holds(mem, s.artifact)

CheckpointOK(c, mem) ==
    /\ c \in CheckpointType /\ CheckpointValid(c)
    /\ c.state = "IDLE" => c = NoCheckpoint
    /\ c.state # "IDLE" => c.artifact \in catalogue /\ Staged(mem, c.artifact, c.next)
    /\ c.state = "ARTIFACT_READY" => Holds(mem, c.artifact)

NodeTypes ==
    /\ boot \in {"app", "boot"} /\ stable \in BOOLEAN /\ catalogue \in Catalogues
    /\ md \in RecordType /\ version \in Nat

NodeInv ==
    /\ NodeTypes
    /\ SessionOK(session, ckpt, incoming)
    /\ CheckpointOK(ckpt, incoming)

Inv == LinkInv /\ LagInv /\ ClientInv /\ NodeInv

USE GeometryAssumption, CataloguesAssumption, ReceiverAssumption, ClientAssumption,
    ResponseTimeAssumption

-----------------------------------------------------------------------------
(* Arithmetic of sectors, and the two queues.                              *)

(* A byte of the partition lies in one of its sectors.                     *)
LEMMA SectorOfByte == \A o \in Bytes : (o \div SECTOR) \in Sectors
<1> SUFFICES ASSUME NEW o \in Bytes PROVE (o \div SECTOR) \in Sectors
  OBVIOUS
<1> DEFINE q == o \div SECTOR
           k == INCOMING_SIZE \div SECTOR
<1>1. o \in Nat /\ o < INCOMING_SIZE
  BY DEF Bytes
<1>2. /\ q \in Int /\ k \in Int /\ SECTOR * k = INCOMING_SIZE
      /\ SECTOR * q <= o /\ o < SECTOR * q + SECTOR
  BY <1>1
<1> HIDE DEF q, k
<1>3. q >= 0 /\ q < k
  BY <1>1, <1>2
<1> QED BY <1>2, <1>3 DEF Sectors, q, k

(* The sectors below a checkpoint hold every byte below it.                *)
LEMMA CompletedCover ==
    ASSUME NEW n \in 0..INCOMING_SIZE, n % SECTOR = 0
    PROVE  \A o \in 0..(n - 1) : (o \div SECTOR) \in CompletedSectors(n)
<1> SUFFICES ASSUME NEW o \in 0..(n - 1) PROVE (o \div SECTOR) \in CompletedSectors(n)
  OBVIOUS
<1> DEFINE q == o \div SECTOR
           k == n \div SECTOR
<1>1. q \in Int /\ k \in Int /\ SECTOR * q <= o /\ SECTOR * k = n
  OBVIOUS
<1>2. q \in Sectors
  BY SectorOfByte, SMTT(30) DEF Bytes
<1> HIDE DEF q, k
<1>3. q < k
  BY <1>1
<1> QED BY <1>2, <1>3 DEF CompletedSectors, q, k

(* A packet number.                                                        *)
LEMMA DivNat == \A n \in Nat : n \div MTU \in Nat
OBVIOUS

(* A queue that a frame is sent to.                                        *)
LEMMA SentKeeps ==
    ASSUME NEW S, NEW q \in Seq(S), NEW p \in S, NEW r \in Sent(q, p)
    PROVE  r \in Seq(S) /\ Len(r) <= Len(q) + 1
BY DEF Sent

(* A queue that a frame is read from.                                      *)
LEMMA TailKeeps ==
    ASSUME NEW S, NEW q \in Seq(S), q # <<>>
    PROVE  Head(q) \in S /\ Tail(q) \in Seq(S) /\ Len(q) = Len(Tail(q)) + 1
OBVIOUS

(* Identifiers and sizes of artifacts.                                     *)
LEMMA ArtifactFields ==
    ASSUME catalogue \in Catalogues
    PROVE  /\ \A a \in catalogue : a.update_id \in Nat \ {0} /\ a.size \in 1..INCOMING_SIZE
           /\ \A a \in Artifacts : a.update_id \in Nat /\ a.size \in 0..INCOMING_SIZE
           /\ NoArtifact \in Artifacts /\ NoArtifact.update_id = 0
BY DEF Artifacts, NoArtifact

-----------------------------------------------------------------------------
(* The client.                                                             *)

Issued == Requests \ {NoPacket}

(* What the client asks for during a command.                              *)
LEMMA RequestsAreGood ==
    ASSUME NodeTypes, NEW a \in catalogue, art = a
    PROVE  /\ Query \in Issued /\ Start \in Issued /\ Resume \in Issued
           /\ Finish \in Issued /\ Install \in Issued
           /\ \A id \in Nat : Control("ABORT", id, 0, 0) \in Issued
           /\ \A o \in Nat : o < art.size => Data(o) \in Issued
<1>1. /\ a.update_id \in Nat /\ a.size \in 1..INCOMING_SIZE /\ a.size \in Nat
      /\ NoArtifact \in Artifacts /\ a \in Artifacts
  BY ArtifactFields DEF NodeTypes, Artifacts
<1>2. (a.size + MTU - 1) \div MTU \in Nat
  BY <1>1, DivNat
<1> USE DEF Requests, Commands, Packet, Control
<1>3. Query \in Requests /\ Resume \in Requests /\ Install \in Requests
  BY <1>1 DEF Query, Resume, Install
<1>4. Start \in Requests
  BY <1>1 DEF Start
<1>5. Finish \in Requests
  BY <1>1, <1>2 DEF Finish
<1>6. \A id \in Nat : Control("ABORT", id, 0, 0) \in Requests
  BY <1>1
<1>7. ASSUME NEW o \in Nat, o < art.size PROVE Data(o) \in Requests
  <2>1. Chunk(o) \in Nat /\ Chunk(o) > 0
    BY <1>1, <1>7 DEF Chunk
  <2>2. o \div MTU \in Nat
    BY DivNat
  <2> QED BY <1>1, <2>1, <2>2 DEF Data
<1>8. /\ Query # NoPacket /\ Start # NoPacket /\ Resume # NoPacket
      /\ Finish # NoPacket /\ Install # NoPacket
  BY DEF NoPacket, Query, Start, Resume, Finish, Install
<1>9. /\ \A id \in Nat : Control("ABORT", id, 0, 0) # NoPacket
      /\ \A o \in Nat : Data(o) # NoPacket
  BY DEF NoPacket, Data
<1> QED BY <1>3, <1>4, <1>5, <1>6, <1>7, <1>8, <1>9, Zenon DEF Issued

(* The request of an idle client.                                          *)
LEMMA NoPacketIsGood == ASSUME NodeTypes PROVE NoPacket \in Requests
BY ArtifactFields DEF NodeTypes, NoPacket, Packet, Requests, Commands

(* A status request.                                                       *)
LEMMA QueryIsGood == ASSUME NodeTypes PROVE Query \in Issued
<1>1. Query \in Requests
  BY ArtifactFields DEF NodeTypes, Query, Control, Packet, Requests, Commands
<1>2. Query # NoPacket
  BY DEF Query, Control, Packet, NoPacket
<1> QED BY <1>1, <1>2 DEF Issued

(* SendFrame.                                                              *)
LEMMA TransmitKeeps ==
    ASSUME LinkInv, NEW p \in Requests, toNode' \in Transmitted(p), UNCHANGED catalogue
    PROVE  ToNodeOK' /\ Len(toNode') <= Len(toNode) + 1
<1>1. toNode' \in Seq(Requests) /\ Len(toNode') <= Len(toNode) + 1
  BY SentKeeps DEF Transmitted, LinkInv
<1>2. Requests' = Requests
  BY DEF Requests, Artifacts
<1> QED BY <1>1, <1>2 DEF ToNodeOK

(* A request is issued.                                                    *)
LEMMA IssueKeeps ==
    ASSUME NodeTypes, LinkInv, ClientInv, UNCHANGED catalogue, art \in catalogue,
           NEW pc \in Routines \ {"fetch"}, NEW p \in Issued, Issue(pc, p),
           transitions' \in 0..MaxTransitions, pc = "abort" => transitions' < MaxTransitions
    PROVE  ClientInv' /\ ToNodeOK' /\ OneMore
<1>0. p \in Requests /\ p # NoPacket
  BY DEF Issued
<1>1. ToNodeOK' /\ Len(toNode') <= Len(toNode) + 1
  BY <1>0, TransmitKeeps DEF Issue
<1>2. Requests' = Requests /\ Artifacts' = Artifacts
  BY DEF Requests, Artifacts
<1>3. 1 \in 0..RetryCount
  OBVIOUS
<1>4. ClientInv'
  BY <1>0, <1>2, <1>3 DEF Issue, ClientInv, Routines
<1>5. Slack' = 0
  BY <1>0 DEF Issue, Slack
<1> QED BY <1>1, <1>4, <1>5 DEF OneMore, LinkInv, ToNodeOK

(* A request within the turn of the plan loop.                             *)
LEMMA CallKeeps ==
    ASSUME NodeTypes, LinkInv, ClientInv, UNCHANGED catalogue, art \in catalogue,
           NEW pc \in Routines \ {"fetch"}, NEW p \in Issued, Call(pc, p),
           pc = "abort" => transitions < MaxTransitions
    PROVE  ClientInv' /\ ToNodeOK' /\ OneMore
BY IssueKeeps DEF Call, ClientInv

(* A routine returns.                                                      *)
LEMMA ReturnKeeps ==
    ASSUME NodeTypes, LinkInv, ClientInv, UNCHANGED catalogue,
           NEW result \in {"ok", "rejected", "failed"}, Return(result)
    PROVE  ClientInv' /\ ToNodeOK' /\ OneMore
<1>1. Requests' = Requests /\ Artifacts' = Artifacts
  BY DEF Requests, Artifacts
<1>2. NoPacket \in Requests /\ NoArtifact \in Artifacts
  BY NoPacketIsGood DEF Artifacts
<1>3. ToNodeOK'
  BY <1>1 DEF Return, LinkInv, ToNodeOK
<1>4. OneMore
  BY DEF Return, OneMore, Slack, LinkInv
<1> QED BY <1>1, <1>2, <1>3, <1>4 DEF Return, ClientInv, Routines

(* A status poll.                                                          *)
LEMMA PollKeeps ==
    ASSUME NodeTypes, LinkInv, ClientInv, UNCHANGED catalogue, art \in catalogue,
           NEW pc \in Routines \ {"abort", "fetch"}, Poll(pc)
    PROVE  ClientInv' /\ ToNodeOK' /\ OneMore
BY CallKeeps, ReturnKeeps, QueryIsGood DEF Poll

(* SendData.                                                               *)
LEMMA SendDataKeeps ==
    ASSUME NodeTypes, LinkInv, ClientInv, UNCHANGED catalogue, art \in catalogue,
           NEW o \in Nat, SendData(o)
    PROVE  ClientInv' /\ ToNodeOK' /\ OneMore
<1>1. Finish \in Issued /\ (o < art.size => Data(o) \in Issued)
  BY RequestsAreGood
<1> QED BY <1>1, CallKeeps, ReturnKeeps DEF SendData, Routines

(* The plan is executed.                                                   *)
LEMMA PlanKeeps ==
    ASSUME NodeTypes, LinkInv, ClientInv, UNCHANGED catalogue, art \in catalogue,
           NEW t \in Replies, ExecutePlan(t), transitions < MaxTransitions
    PROVE  ClientInv' /\ ToNodeOK' /\ OneMore
<1>1. /\ Query \in Issued /\ Start \in Issued /\ Resume \in Issued /\ Install \in Issued
      /\ Control("ABORT", t.active_update_id, 0, 0) \in Issued
  BY RequestsAreGood DEF Replies
<1> QED BY <1>1, CallKeeps, ReturnKeeps DEF ExecutePlan, Routines

(* An answer is taken, routine by routine.                                 *)
LEMMA AnswerKeeps ==
    ASSUME NodeTypes, LinkInv, ClientInv, UNCHANGED catalogue, NEW a \in Replies, OnAnswer(a)
    PROVE  ClientInv' /\ ToNodeOK' /\ OneMore
<1>0. /\ art \in catalogue /\ a.next \in Nat
      /\ req \in Requests /\ req.offset \in Nat /\ req.length \in Nat
  BY DEF OnAnswer, ClientInv, Replies, Requests
<1>1. Query \in Issued /\ Install \in Issued /\ Finish \in Issued /\ NoPacket \in Requests
  BY <1>0, RequestsAreGood, NoPacketIsGood
<1>2. CASE cpc = "probe" /\ OnProbe(a)
  <2>1. CASE Poll("probe")
    BY <1>0, <2>1, PollKeeps DEF Routines
  <2>2. CASE Return("ok")
    BY <2>2, ReturnKeeps
  <2>3. CASE /\ cpc' = "fetch" /\ req' = NoPacket /\ attempts' = 0
             /\ UNCHANGED <<art, transitions, verdict, toNode>>
    <3>1. Requests' = Requests /\ Artifacts' = Artifacts
      BY DEF Requests, Artifacts
    <3>2. OneMore
      BY <2>3 DEF OneMore, Slack, LinkInv
    <3> QED BY <1>0, <1>1, <2>3, <3>1, <3>2 DEF ClientInv, LinkInv, ToNodeOK, Routines
  <2> QED BY <1>2, <2>1, <2>2, <2>3 DEF OnProbe
<1>3. CASE cpc = "query" /\ OnQuery(a)
  <2>1. transitions \in 0..MaxTransitions
    BY DEF ClientInv
  <2> QED BY <1>0, <1>3, <2>1, PollKeeps, ReturnKeeps, PlanKeeps DEF OnQuery, Routines
<1>4. CASE cpc = "abort" /\ OnAbort(a)
  <2>1. transitions + 1 \in 0..MaxTransitions
    BY <1>4 DEF ClientInv
  <2> QED BY <1>0, <1>1, <1>4, <2>1, IssueKeeps, ReturnKeeps DEF OnAbort, Routines
<1>5. CASE cpc = "start" /\ OnStart(a)
  BY <1>0, <1>5, SendDataKeeps, ReturnKeeps DEF OnStart
<1>6. CASE cpc = "resume" /\ OnResume(a)
  BY <1>0, <1>6, SendDataKeeps, ReturnKeeps DEF OnResume
<1>7. CASE cpc = "data" /\ OnData(a)
  BY <1>0, <1>7, SendDataKeeps, ReturnKeeps DEF OnData
<1>8. CASE cpc \in {"finish", "refinish"} /\ OnFinish(a)
  BY <1>0, <1>1, <1>8, CallKeeps, ReturnKeeps DEF OnFinish, Routines
<1>9. CASE cpc = "install" /\ OnInstall(a)
  BY <1>0, <1>1, <1>9, CallKeeps DEF OnInstall, Routines
<1>10. CASE cpc = "final" /\ OnFinal(a)
  <2>1. \/ Poll("final") \/ Return("ok") \/ Return("rejected")
    BY <1>10 DEF OnFinal
  <2> QED BY <1>0, <2>1, PollKeeps, ReturnKeeps DEF Routines
<1> QED BY <1>2, <1>3, <1>4, <1>5, <1>6, <1>7, <1>8, <1>9, <1>10 DEF OnAnswer

(* The frame that is read makes room for the next one.                     *)
LEMMA LagStep ==
    ASSUME LinkInv, LinkInv', LagInv, OneMore, Slack = 0, Len(toClient) = Len(toClient') + 1
    PROVE  LagInv'
BY DEF LinkInv, LagInv, OneMore, Slack

(* A client without a request has room for one.                            *)
LEMMA SlackLag ==
    ASSUME LinkInv, LinkInv', LagInv, OneMore, Slack = 1, UNCHANGED toClient
    PROVE  LagInv'
BY DEF LinkInv, LagInv, OneMore, Slack

(* After a response timeout fewer than MaxLag frames are on the line.      *)
LEMMA TimeoutLag ==
    ASSUME LinkInv, LinkInv', ResponseTimeout, OneMore, UNCHANGED toClient
    PROVE  LagInv'
BY DEF LinkInv, LagInv, OneMore, Slack, ResponseTimeout

(* Every step of the client.                                               *)
LEMMA ClientKeeps ==
    ASSUME NodeTypes, LinkInv, LagInv, ClientInv, ClientStep
    PROVE  LinkInv' /\ LagInv' /\ ClientInv'
<1>0. /\ UNCHANGED <<nodeVars, world>> /\ UNCHANGED catalogue
      /\ Requests' = Requests /\ Artifacts' = Artifacts
  BY DEF ClientStep, ClientFrame, Requests, Artifacts, world
<1>1. Replies' = Replies
  OBVIOUS
<1>2. CASE ReadFrame
  <2>1. /\ Head(toClient) \in Replies /\ Tail(toClient) \in Seq(Replies)
        /\ Len(toClient) = Len(Tail(toClient)) + 1
    BY <1>2, TailKeeps DEF ReadFrame, LinkInv
  <2>2. ClientInv' /\ ToNodeOK' /\ OneMore
    <3>1. CASE OnAnswer(Head(toClient))
      BY <1>0, <2>1, <3>1, AnswerKeeps
    <3>2. CASE UNCHANGED <<clientVars, toNode>>
      BY <1>0, <3>2 DEF clientVars, ClientInv, LinkInv, ToNodeOK, OneMore, Slack
    <3> QED BY <1>2, <3>1, <3>2 DEF ReadFrame
  <2>3. toClient' = Tail(toClient) /\ Slack = 0
    BY <1>2 DEF ReadFrame, Slack
  <2>4. LinkInv'
    BY <1>1, <2>1, <2>2, <2>3 DEF LinkInv, ToNodeOK
  <2>5. LagInv'
    BY <2>1, <2>2, <2>3, <2>4, LagStep
  <2> QED BY <2>2, <2>4, <2>5
<1>3. CASE Retransmit
  <2>1. ToNodeOK' /\ Len(toNode') <= Len(toNode) + 1
    BY <1>0, <1>3, TransmitKeeps DEF Retransmit, ClientInv
  <2>2. attempts' \in 0..RetryCount
    BY <1>3 DEF Retransmit, ClientInv
  <2>3. LinkInv' /\ ClientInv'
    BY <1>0, <1>1, <1>3, <2>1, <2>2 DEF Retransmit, ClientInv, LinkInv, ToNodeOK
  <2>4. OneMore /\ UNCHANGED toClient
    BY <1>3, <2>1 DEF Retransmit, ResponseTimeout, OneMore, Slack
  <2>5. LagInv'
    BY <1>3, <2>3, <2>4, TimeoutLag DEF Retransmit
  <2> QED BY <2>3, <2>5
<1>4. CASE GiveUp
  <2>1. cpc # "idle" => art \in catalogue
    BY DEF ClientInv
  <2>2. ClientInv' /\ ToNodeOK' /\ OneMore
    <3>1. CASE cpc \in {"probe", "query", "final"} /\ Poll(cpc)
      BY <1>0, <2>1, <3>1, PollKeeps DEF Routines
    <3>2. CASE cpc = "install" /\ Call("final", Query)
      BY <1>0, <2>1, <3>2, CallKeeps, QueryIsGood DEF Routines
    <3>3. CASE Return("failed")
      BY <1>0, <3>3, ReturnKeeps
    <3> QED BY <1>4, <3>1, <3>2, <3>3 DEF GiveUp
  <2>3. LinkInv' /\ UNCHANGED toClient
    BY <1>1, <1>4, <2>2 DEF GiveUp, LinkInv, ToNodeOK
  <2>4. LagInv'
    BY <1>4, <2>2, <2>3, TimeoutLag DEF GiveUp
  <2> QED BY <2>2, <2>3, <2>4
<1>5. CASE Fetch
  <2>1. art \in catalogue
    BY <1>5 DEF Fetch, ClientInv
  <2>2. ClientInv' /\ ToNodeOK' /\ OneMore
    BY <1>0, <1>5, <2>1, CallKeeps, ReturnKeeps, QueryIsGood DEF Fetch, Routines
  <2>3. LinkInv' /\ UNCHANGED toClient /\ Slack = 1
    BY <1>1, <1>5, <2>2 DEF Fetch, LinkInv, ToNodeOK, ClientInv, Slack
  <2>4. LagInv'
    BY <2>2, <2>3, SlackLag
  <2> QED BY <2>2, <2>3, <2>4
<1>6. CASE \E a \in catalogue : Command(a)
  <2>1. PICK a \in catalogue : Command(a)
    BY <1>6
  <2>0. Query \in Requests /\ Query # NoPacket
    BY QueryIsGood DEF Issued
  <2>2. ToNodeOK' /\ Len(toNode') <= Len(toNode) + 1
    BY <1>0, <2>0, <2>1, TransmitKeeps DEF Command
  <2>3. ClientInv'
    <3>1. 1 \in 0..RetryCount /\ 0 \in 0..MaxTransitions
      OBVIOUS
    <3> QED BY <1>0, <2>0, <2>1, <3>1 DEF Command, ClientInv, Routines, Artifacts
  <2>4. LinkInv' /\ UNCHANGED toClient /\ Slack = 1
    BY <1>1, <2>1, <2>2 DEF Command, LinkInv, ToNodeOK, ClientInv, Slack
  <2>5. OneMore
    BY <2>0, <2>1, <2>2 DEF Command, OneMore, Slack
  <2>6. LagInv'
    BY <2>4, <2>5, SlackLag
  <2> QED BY <2>3, <2>4, <2>6
<1>7. CASE GatewayRestart
  <2>1. NoPacket \in Requests /\ NoArtifact \in Artifacts
    BY NoPacketIsGood DEF Artifacts
  <2>2. ClientInv'
    BY <1>0, <1>7, <2>1 DEF GatewayRestart, ClientInv
  <2>3. LagInv'
    BY <1>7 DEF GatewayRestart, LagInv, Slack
  <2> QED BY <1>0, <1>7, <2>2, <2>3 DEF GatewayRestart, LinkInv
<1> QED BY <1>2, <1>3, <1>4, <1>5, <1>6, <1>7 DEF ClientStep

-----------------------------------------------------------------------------
(* Replies, and sessions of one field changed.                             *)

(* A reply to a request.                                                    *)
LEMMA ReplyIsGood ==
    ASSUME NodeTypes, NEW r \in Requests, NEW s \in SessionType,
           NEW command \in {"ACK", "NACK"}, NEW payload \in {"status", "hello"}
    PROVE  Reply(r, command, payload, s) \in Replies
<1>1. r.update_id \in Nat /\ r.sequence \in Nat
  BY DEF Requests
<1>2. /\ s.artifact \in Artifacts /\ s.state \in NodeStates /\ s.next \in 0..INCOMING_SIZE
      /\ s.storage_ready \in BOOLEAN
  BY DEF SessionType
<1>3. s.artifact.update_id \in Nat /\ s.artifact.size \in Nat
  BY <1>2, ArtifactFields DEF NodeTypes
<1> QED BY <1>1, <1>2, <1>3 DEF Reply, Replies, NodeTypes

(* The answer to the request that is read.                                  *)
LEMMA SendKeeps ==
    ASSUME NodeTypes, LinkInv, toNode # <<>>, UNCHANGED catalogue, NEW s \in SessionType,
           NEW command \in {"ACK", "NACK"}, NEW payload \in {"status", "hello"},
           Send(Head(toNode), command, payload, s)
    PROVE  session' = s /\ LinkInv'
<1>1. Head(toNode) \in Requests /\ Tail(toNode) \in Seq(Requests)
  BY TailKeeps DEF LinkInv
<1>2. Reply(Head(toNode), command, payload, s) \in Replies
  BY <1>1, ReplyIsGood
<1>3. toClient' \in Seq(Replies)
  BY <1>2, SentKeeps DEF Send, LinkInv
<1>4. Requests' = Requests
  BY DEF Requests, Artifacts
<1> QED BY <1>1, <1>3, <1>4 DEF Send, LinkInv

(* Sessions of one field changed.                                           *)
LEMMA PersistedField ==
    ASSUME NEW s \in SessionType, NEW n \in 0..INCOMING_SIZE
    PROVE  LET t == [s EXCEPT !.persisted = n]
           IN  /\ t \in SessionType /\ t.state = s.state /\ t.artifact = s.artifact
               /\ t.next = s.next /\ t.erased = s.erased /\ t.persisted = n
BY DEF SessionType

(* The same for the state.                                                 *)
LEMMA StateField ==
    ASSUME NEW s \in SessionType, NEW x \in NodeStates
    PROVE  LET t == [s EXCEPT !.state = x]
           IN  /\ t \in SessionType /\ t.state = x /\ t.artifact = s.artifact
               /\ t.next = s.next /\ t.erased = s.erased /\ t.persisted = s.persisted
BY DEF SessionType

(* The same for the bitmap.                                                *)
LEMMA ErasedField ==
    ASSUME NEW s \in SessionType, NEW e \in SUBSET Sectors
    PROVE  LET t == [s EXCEPT !.erased = @ \cup e]
           IN  /\ t \in SessionType /\ t.state = s.state /\ t.artifact = s.artifact
               /\ t.next = s.next /\ t.erased = s.erased \cup e /\ t.persisted = s.persisted
BY DEF SessionType

(* The session after a packet.                                             *)
LEMMA AdvancedFields ==
    ASSUME NEW s \in SessionType, NEW r \in Requests, s.next + r.length <= INCOMING_SIZE
    PROVE  /\ Advanced(s, r) \in SessionType /\ Advanced(s, r).state = s.state
           /\ Advanced(s, r).artifact = s.artifact /\ Advanced(s, r).next = s.next + r.length
           /\ Advanced(s, r).erased = s.erased /\ Advanced(s, r).persisted = s.persisted
<1>1. r.sequence \in Nat /\ r.offset \in Nat /\ r.length \in Nat
  BY DEF Requests
<1>2. <<r.sequence, r.offset, r.length>> \in Seq(Nat)
  BY <1>1
<1>3. s.next + r.length \in 0..INCOMING_SIZE /\ s.sequence + 1 \in Nat
  BY <1>1 DEF SessionType
<1>4. /\ Advanced(s, r).state = s.state /\ Advanced(s, r).artifact = s.artifact
      /\ Advanced(s, r).next = s.next + r.length /\ Advanced(s, r).erased = s.erased
      /\ Advanced(s, r).persisted = s.persisted
  BY DEF Advanced, SessionType
<1>5. Advanced(s, r) \in SessionType
  BY <1>2, <1>3 DEF Advanced, SessionType
<1> QED BY <1>4, <1>5

(* A session that has been reset.                                          *)
LEMMA IdleIsOK ==
    ASSUME catalogue \in Catalogues, NEW ready \in BOOLEAN, NEW c, NEW mem
    PROVE  IdleSession(ready) \in SessionType /\ IdleSession(ready).state = "IDLE"
           /\ SessionOK(IdleSession(ready), c, mem)
<1>1. <<>> \in Seq(Nat) /\ 0 \in 0..INCOMING_SIZE /\ {} \in SUBSET Sectors
  OBVIOUS
<1>2. IdleSession(ready) \in SessionType
  BY <1>1, ArtifactFields DEF IdleSession, SessionType, NodeStates
<1>3. IdleSession(ready).state = "IDLE"
  BY DEF IdleSession
<1> QED BY <1>2, <1>3 DEF SessionOK

(* A cleared checkpoint.                                                   *)
LEMMA NoCheckpointIsOK ==
    ASSUME catalogue \in Catalogues, NEW mem
    PROVE  CheckpointOK(NoCheckpoint, mem) /\ NoCheckpoint.state = "IDLE" /\ NoCheckpoint.next = 0
<1>1. NoCheckpoint \in CheckpointType
  BY ArtifactFields DEF NoCheckpoint, Checkpoint, CheckpointType
<1> QED BY <1>1 DEF CheckpointOK, NoCheckpoint, Checkpoint, CheckpointValid

(* DownloadCheckpointStorage_Commit and the answer.                         *)
LEMMA PersistKeeps ==
    ASSUME NodeTypes, LinkInv, toNode # <<>>, UNCHANGED catalogue, NEW c, NEW mem,
           NEW done \in SessionType, NEW failed \in SessionType,
           c.next \in 0..INCOMING_SIZE,
           CheckpointOK(ckpt, mem), CheckpointValid(c) => CheckpointOK(c, mem),
           CheckpointValid(c) => SessionOK([done EXCEPT !.persisted = c.next], c, mem),
           CheckpointValid(c) => SessionOK(failed, c, mem), SessionOK(failed, ckpt, mem),
           PersistDownloadCheckpoint(Head(toNode), c, done, failed)
    PROVE  LinkInv' /\ SessionOK(session', ckpt', mem) /\ CheckpointOK(ckpt', mem)
<1>1. CASE Stored(c) /\ Ack(Head(toNode), [done EXCEPT !.persisted = c.next])
  <2>1. [done EXCEPT !.persisted = c.next] \in SessionType
    BY PersistedField
  <2> QED BY <1>1, <2>1, SendKeeps DEF Stored, Ack
<1>2. CASE NotStored(c) /\ Nack(Head(toNode), failed)
  <2>1. LinkInv' /\ session' = failed
    BY <1>2, SendKeeps DEF Nack
  <2> QED BY <1>2, <2>1 DEF NotStored
<1> QED BY <1>1, <1>2 DEF PersistDownloadCheckpoint

-----------------------------------------------------------------------------
(* Sessions and checkpoints.                                               *)

(* Facts about a session by name.                                           *)
LEMMA SessionFacts ==
    ASSUME NodeTypes, NEW s, NEW c, NEW mem, SessionOK(s, c, mem)
    PROVE  /\ s \in SessionType /\ s.state \in NodeStates /\ s.next \in 0..INCOMING_SIZE
           /\ s.persisted \in 0..INCOMING_SIZE /\ s.artifact \in Artifacts
           /\ s.storage_ready \in BOOLEAN /\ s.erased \in SUBSET Sectors
           /\ s.state \in {"RECEIVING", "ARTIFACT_READY"} =>
                 /\ s.artifact \in catalogue /\ Staged(mem, s.artifact, s.next)
                 /\ s.artifact.size \in 1..INCOMING_SIZE /\ s.artifact.update_id # 0
<1>1. s \in SessionType
  BY DEF SessionOK
<1>2. /\ s.state \in NodeStates /\ s.next \in 0..INCOMING_SIZE
      /\ s.persisted \in 0..INCOMING_SIZE /\ s.artifact \in Artifacts
      /\ s.storage_ready \in BOOLEAN /\ s.erased \in SUBSET Sectors
  BY <1>1 DEF SessionType
<1>3. \A a \in catalogue : a.update_id # 0 /\ a.size \in 1..INCOMING_SIZE
  BY ArtifactFields DEF NodeTypes
<1> QED BY <1>1, <1>2, <1>3 DEF SessionOK

(* A session that is not receiving cares for no checkpoint.                 *)
LEMMA OtherCheckpoint ==
    ASSUME NEW s, NEW c, NEW d, NEW mem, SessionOK(s, c, mem),
           d.state # "IDLE" /\ s.state = "RECEIVING" =>
              d.artifact = s.artifact /\ d.next <= s.next
    PROVE  SessionOK(s, d, mem)
BY DEF SessionOK

(* The checkpoint that follows a session which receives.                    *)
LEMMA BoundaryCheckpoint ==
    ASSUME NodeTypes, NEW s, NEW c, NEW mem, SessionOK(s, c, mem), s.state = "RECEIVING"
    PROVE  LET d == Checkpoint("RECEIVING", s.artifact, s.next)
           IN  /\ d.next = s.next /\ d.state = "RECEIVING" /\ d.artifact = s.artifact
               /\ CheckpointValid(d) => CheckpointOK(d, mem)
               /\ SessionOK(s, d, mem) /\ SessionOK([s EXCEPT !.persisted = d.next], d, mem)
<1> DEFINE d == Checkpoint("RECEIVING", s.artifact, s.next)
           t == [s EXCEPT !.persisted = d.next]
<1>1. d.next = s.next /\ d.state = "RECEIVING" /\ d.artifact = s.artifact
  BY DEF Checkpoint
<1>2. /\ s \in SessionType /\ s.next \in 0..INCOMING_SIZE /\ s.artifact \in catalogue
      /\ s.artifact \in Artifacts /\ Staged(mem, s.artifact, s.next)
  BY SessionFacts
<1>3. d \in CheckpointType
  BY <1>2 DEF Checkpoint, CheckpointType
<1>4. /\ t \in SessionType /\ t.state = s.state /\ t.artifact = s.artifact
      /\ t.next = s.next /\ t.erased = s.erased /\ t.persisted = s.next
  BY <1>1, <1>2, PersistedField
<1> HIDE DEF d, t
<1>5. CheckpointValid(d) => CheckpointOK(d, mem)
  BY <1>1, <1>2, <1>3 DEF CheckpointOK
<1>6. SessionOK(s, d, mem)
  BY <1>1, <1>2, OtherCheckpoint
<1>7. SessionOK(t, d, mem)
  BY <1>1, <1>2, <1>4, <1>6 DEF SessionOK
<1> QED BY <1>1, <1>5, <1>6, <1>7 DEF d, t

(* PersistReceiveBoundaryIfNeeded and the answer.                           *)
LEMMA BoundaryKeeps ==
    ASSUME NodeTypes, LinkInv, toNode # <<>>, UNCHANGED catalogue, NEW mem, NEW s,
           SessionOK(s, ckpt, mem), s.state = "RECEIVING", CheckpointOK(ckpt, mem),
           PersistReceiveBoundaryIfNeeded(Head(toNode), s)
    PROVE  LinkInv' /\ SessionOK(session', ckpt', mem) /\ CheckpointOK(ckpt', mem)
<1> DEFINE d == Checkpoint("RECEIVING", s.artifact, s.next)
<1>1. s \in SessionType /\ s.next \in 0..INCOMING_SIZE
  BY SessionFacts
<1>2. CASE Ack(Head(toNode), s) /\ UNCHANGED ckpt
  <2>1. LinkInv' /\ session' = s
    BY <1>1, <1>2, SendKeeps DEF Ack
  <2> QED BY <1>2, <2>1
<1>3. CASE PersistDownloadCheckpoint(Head(toNode), d, s, s)
  <2>1. /\ d.next = s.next /\ (CheckpointValid(d) => CheckpointOK(d, mem))
        /\ SessionOK(s, d, mem) /\ SessionOK([s EXCEPT !.persisted = d.next], d, mem)
    BY BoundaryCheckpoint
  <2> HIDE DEF d
  <2> QED BY <1>1, <1>3, <2>1, PersistKeeps
<1> QED BY <1>2, <1>3 DEF PersistReceiveBoundaryIfNeeded

(* An answer that leaves the session and the flash alone.                   *)
LEMMA AnswerOnly ==
    ASSUME NodeTypes, LinkInv, toNode # <<>>, UNCHANGED <<catalogue, ckpt, incoming>>,
           SessionOK(session, ckpt, incoming), CheckpointOK(ckpt, incoming),
           NEW command \in {"ACK", "NACK"}, NEW payload \in {"status", "hello"},
           Send(Head(toNode), command, payload, session)
    PROVE  /\ LinkInv' /\ SessionOK(session', ckpt', incoming')
           /\ CheckpointOK(ckpt', incoming')
<1>1. session \in SessionType
  BY SessionFacts
<1>2. LinkInv' /\ session' = session
  BY <1>1, SendKeeps
<1> QED BY <1>2

(* ProcessStart.                                                            *)
LEMMA StartKeeps ==
    ASSUME NodeTypes, LinkInv, toNode # <<>>, UNCHANGED catalogue,
           SessionOK(session, ckpt, incoming), CheckpointOK(ckpt, incoming),
           Head(toNode).command = "START", ProcessStart(Head(toNode))
    PROVE  /\ LinkInv' /\ SessionOK(session', ckpt', incoming')
           /\ CheckpointOK(ckpt', incoming')
<1> DEFINE r == Head(toNode)
           s == [IdleSession(TRUE) EXCEPT !.state = "RECEIVING", !.artifact = r.artifact]
           c == Checkpoint("RECEIVING", r.artifact, 0)
<1>1. r \in Requests
  BY TailKeeps DEF LinkInv
<1>2. r.artifact \in catalogue /\ r.artifact \in Artifacts
  BY <1>1 DEF Requests, Artifacts
<1>3. /\ IdleSession(TRUE) \in SessionType /\ IdleSession(TRUE).next = 0
      /\ IdleSession(TRUE).persisted = 0
  BY IdleIsOK DEF NodeTypes, IdleSession
<1>4. /\ s \in SessionType /\ s.state = "RECEIVING" /\ s.artifact = r.artifact
      /\ s.next = 0 /\ s.persisted = 0
  <2>1. "RECEIVING" \in NodeStates
    BY DEF NodeStates
  <2> QED BY <1>2, <1>3, <2>1 DEF SessionType
<1>5. c.next = 0 /\ c.state = "RECEIVING" /\ c.artifact = r.artifact
  BY DEF Checkpoint
<1>6. c \in CheckpointType
  BY <1>2 DEF Checkpoint, CheckpointType
<1>7. UNCHANGED incoming
  BY DEF ProcessStart
<1>8. CASE Nack(r, session) /\ UNCHANGED ckpt
  BY <1>7, <1>8, AnswerOnly DEF Nack
<1>9. CASE PersistDownloadCheckpoint(r, c, s, ResetTransfer)
  <2> HIDE DEF s, c
  <2>1. r.artifact.size \in 1..INCOMING_SIZE
    BY <1>2, ArtifactFields DEF NodeTypes
  <2>2. CheckpointValid(c) => CheckpointOK(c, incoming)
    BY <1>2, <1>5, <1>6 DEF CheckpointOK, Staged
  <2>3. SessionOK(s, c, incoming)
    BY <1>2, <1>4, <1>5, <2>1 DEF SessionOK, Staged
  <2>4. SessionOK([s EXCEPT !.persisted = c.next], c, incoming)
    <3>1. LET t == [s EXCEPT !.persisted = c.next]
          IN  /\ t \in SessionType /\ t.state = s.state /\ t.artifact = s.artifact
              /\ t.next = s.next /\ t.erased = s.erased /\ t.persisted = 0
      BY <1>4, <1>5, PersistedField
    <3> QED BY SMTT(30), <1>2, <1>4, <1>5, <2>1, <3>1 DEF SessionOK, Staged
  <2>5. ResetTransfer \in SessionType /\ SessionOK(ResetTransfer, c, incoming)
        /\ SessionOK(ResetTransfer, ckpt, incoming)
    BY SessionFacts, IdleIsOK DEF ResetTransfer, NodeTypes
  <2>6. LinkInv' /\ SessionOK(session', ckpt', incoming) /\ CheckpointOK(ckpt', incoming)
    BY <1>4, <1>5, <1>9, <2>2, <2>3, <2>4, <2>5, PersistKeeps
  <2> QED BY <1>7, <2>6
<1> QED BY <1>8, <1>9 DEF ProcessStart

-----------------------------------------------------------------------------
(* A DATA packet that is written.                                          *)

(* What a DATA packet in order does to a session that receives: the bytes   *)
(* the session has lie in sectors that are not erased again, and the new    *)
(* ones follow them.                                                        *)
LEMMA DataFacts ==
    ASSUME NodeTypes, SessionOK(session, ckpt, incoming), CheckpointOK(ckpt, incoming),
           NEW r \in Requests, r.command = "DATA", Addressed(r), DataInOrder(r)
    PROVE  /\ session.state = "RECEIVING" /\ session.artifact \in catalogue
           /\ r.offset = session.next /\ r.length \in Nat \ {0}
           /\ session.next \in Nat /\ session.next + r.length <= session.artifact.size
           /\ session.artifact.size <= INCOMING_SIZE
           /\ r.artifact.crc \in ContentsOf(session.artifact.update_id)
           /\ SectorsToErase(r) \in SUBSET Sectors
           /\ \A o \in 0..(session.next - 1) : ~InSector(o, SectorsToErase(r))
           /\ ckpt.state # "ARTIFACT_READY"
<1>1. /\ session.state = "RECEIVING" /\ r.offset = session.next
      /\ r.length <= session.artifact.size - session.next
      /\ r.update_id = session.artifact.update_id
  BY DEF Addressed, DataInOrder
<1>2. r.length \in Nat \ {0} /\ r.artifact \in catalogue /\ r.update_id = r.artifact.update_id
  BY DEF Requests
<1>3. /\ session.artifact \in catalogue /\ session.artifact.size \in 1..INCOMING_SIZE
      /\ session.next \in 0..INCOMING_SIZE
  BY <1>1, SessionFacts
<1>4. r.artifact.crc \in ContentsOf(session.artifact.update_id)
  BY <1>1, <1>2 DEF ContentsOf
<1>5. SectorsToErase(r) \in SUBSET Sectors
  <2>1. \A o \in Span(r) : o \in Bytes
    BY <1>1, <1>2, <1>3 DEF Span, Bytes
  <2> QED BY <2>1, SectorOfByte DEF SectorsToErase
<1>6. \A o \in 0..(session.next - 1) : ~InSector(o, SectorsToErase(r))
  BY <1>1 DEF SessionOK, SectorsToErase, InSector
<1>7. ckpt.state # "ARTIFACT_READY"
  <2> SUFFICES ASSUME ckpt.state = "ARTIFACT_READY" PROVE FALSE
    OBVIOUS
  <2>1. ckpt.next = ckpt.artifact.size
    BY DEF CheckpointOK, CheckpointValid, SessionFieldsValid, NoCheckpoint, Checkpoint
  <2>2. ckpt.artifact = session.artifact /\ ckpt.next <= session.next
    BY <1>1 DEF SessionOK
  <2> QED BY <1>1, <1>2, <1>3, <2>1, <2>2
<1> QED BY <1>1, <1>2, <1>3, <1>4, <1>5, <1>6, <1>7

(* A span that ends in the partition.                                       *)
LEMMA InsideBytes ==
    ASSUME NEW first \in Nat, NEW count \in Nat, NEW size \in Nat, first + count <= size,
           size <= INCOMING_SIZE, NEW o \in first..(first + count - 1)
    PROVE  o \in Bytes
BY DEF Bytes

(* A partition that agrees below the session's offset serves the session    *)
(* and its checkpoint as well.                                              *)
LEMMA AgreeBelow ==
    ASSUME NodeTypes, NEW s, NEW c, NEW mem, NEW new, SessionOK(s, c, mem), CheckpointOK(c, mem),
           s.state = "RECEIVING", c.state # "ARTIFACT_READY",
           \A o \in 0..(s.next - 1) : new[o] = mem[o]
    PROVE  SessionOK(s, c, new) /\ CheckpointOK(c, new)
<1>1. s.next \in 0..INCOMING_SIZE
  BY SessionFacts
<1>2. Staged(new, s.artifact, s.next)
  BY <1>1, SessionFacts DEF Staged
<1>3. SessionOK(s, c, new)
  BY <1>2 DEF SessionOK
<1>4. ASSUME c.state # "IDLE" PROVE Staged(new, c.artifact, c.next)
  <2>1. c.artifact = s.artifact /\ c.next <= s.next /\ c.next \in 0..INCOMING_SIZE
    BY <1>4 DEF SessionOK, CheckpointOK, CheckpointType
  <2> QED BY <1>1, <1>2, <2>1 DEF Staged
<1> QED BY <1>3, <1>4 DEF CheckpointOK

(* More sectors in the bitmap.                                              *)
LEMMA ErasedMore ==
    ASSUME NEW s, NEW c, NEW mem, SessionOK(s, c, mem), s.state = "RECEIVING",
           NEW e \in SUBSET Sectors
    PROVE  SessionOK([s EXCEPT !.erased = @ \cup e], c, mem)
<1> DEFINE t == [s EXCEPT !.erased = @ \cup e]
<1>1. /\ t \in SessionType /\ t.state = s.state /\ t.artifact = s.artifact
      /\ t.next = s.next /\ t.erased = s.erased \cup e /\ t.persisted = s.persisted
  BY ErasedField DEF SessionOK
<1> HIDE DEF t
<1>2. SessionOK(t, c, mem)
  BY <1>1 DEF SessionOK
<1> QED BY <1>2 DEF t

(* The session moves on by a packet whose bytes are in place.               *)
LEMMA AdvancedKeeps ==
    ASSUME NodeTypes, NEW s, NEW c, NEW mem, SessionOK(s, c, mem), CheckpointOK(c, mem),
           s.state = "RECEIVING",
           NEW r \in Requests, r.offset = s.next, s.next + r.length <= s.artifact.size,
           \A o \in Span(r) : /\ mem[o] \in ContentsOf(s.artifact.update_id)
                              /\ (o \div SECTOR) \in s.erased
    PROVE  SessionOK(Advanced(s, r), c, mem) /\ Advanced(s, r).state = "RECEIVING"
<1> DEFINE t == Advanced(s, r)
<1>1. /\ s \in SessionType /\ s.next \in 0..INCOMING_SIZE /\ s.persisted \in 0..INCOMING_SIZE
      /\ s.artifact \in catalogue /\ s.artifact.size \in 1..INCOMING_SIZE
      /\ Staged(mem, s.artifact, s.next)
  BY SessionFacts
<1>2. r.length \in Nat
  BY DEF Requests
<1>3. /\ t \in SessionType /\ t.state = s.state /\ t.artifact = s.artifact
      /\ t.next = s.next + r.length /\ t.erased = s.erased /\ t.persisted = s.persisted
  BY <1>1, <1>2, AdvancedFields
<1> HIDE DEF t
<1>4. \A o \in 0..(t.next - 1) : o \in 0..(s.next - 1) \/ o \in Span(r)
  BY <1>1, <1>2, <1>3 DEF Span
<1>5. Staged(mem, t.artifact, t.next)
  BY <1>1, <1>3, <1>4 DEF Staged
<1>6. \A o \in 0..(t.next - 1) : (o \div SECTOR) \in t.erased
  BY <1>3, <1>4 DEF SessionOK
<1>7. s.persisted <= t.next
  BY <1>1, <1>2, <1>3 DEF SessionOK
<1>8. c.state # "IDLE" => c.artifact = t.artifact /\ c.next <= t.next
  <2>1. c.next \in 0..INCOMING_SIZE
    BY DEF CheckpointOK, CheckpointType
  <2> QED BY <1>1, <1>2, <1>3, <2>1 DEF SessionOK
<1>9. SessionOK(t, c, mem)
  BY <1>1, <1>3, <1>5, <1>6, <1>7, <1>8 DEF SessionOK
<1> QED BY <1>3, <1>9 DEF t

(* WriteData.                                                               *)
LEMMA WriteKeeps ==
    ASSUME NodeTypes, LinkInv, toNode # <<>>, UNCHANGED catalogue,
           SessionOK(session, ckpt, incoming), CheckpointOK(ckpt, incoming),
           Head(toNode).command = "DATA", Addressed(Head(toNode)), DataInOrder(Head(toNode)),
           WriteData(Head(toNode))
    PROVE  /\ LinkInv' /\ SessionOK(session', ckpt', incoming')
           /\ CheckpointOK(ckpt', incoming')
<1> DEFINE r == Head(toNode)
           fresh == SectorsToErase(r)
           blank == Erase(incoming, fresh, Blank)
           s == [session EXCEPT !.erased = @ \cup fresh]
<1>1. r \in Requests
  BY TailKeeps DEF LinkInv
<1>2. /\ session.state = "RECEIVING" /\ session.artifact \in catalogue
      /\ r.offset = session.next /\ r.length \in Nat \ {0}
      /\ session.next \in Nat /\ session.next + r.length <= session.artifact.size
      /\ session.artifact.size <= INCOMING_SIZE
      /\ r.artifact.crc \in ContentsOf(session.artifact.update_id)
      /\ fresh \in SUBSET Sectors
      /\ \A o \in 0..(session.next - 1) : ~InSector(o, fresh)
      /\ ckpt.state # "ARTIFACT_READY"
  BY <1>1, DataFacts
<1>3. /\ session \in SessionType /\ session.next \in 0..INCOMING_SIZE
      /\ session.artifact.size \in 1..INCOMING_SIZE
  BY <1>2, SessionFacts
<1>4. /\ s \in SessionType /\ s.state = "RECEIVING" /\ s.artifact = session.artifact
      /\ s.next = session.next /\ s.erased = session.erased \cup fresh
  BY <1>2, <1>3, ErasedField
<1>5. /\ \A o \in 0..(session.next - 1) : Erase(incoming, fresh, Garbage)[o] = incoming[o]
      /\ \A n \in Nat : \A o \in 0..(session.next - 1) :
            Program(blank, session.next, n, r.artifact.crc)[o] = incoming[o]
  <2>1. \A o \in 0..(session.next - 1) : Erase(incoming, fresh, Garbage)[o] = incoming[o]
    BY <1>2, <1>3 DEF Erase, Bytes
  <2>2. ASSUME NEW n \in Nat, NEW o \in 0..(session.next - 1)
        PROVE  Program(blank, session.next, n, r.artifact.crc)[o] = incoming[o]
    <3>1. blank[o] = incoming[o]
      BY <1>2, <1>3 DEF Erase, Bytes
    <3>2. Program(blank, session.next, n, r.artifact.crc)[o] = blank[o]
      <4>1. o \in Bytes /\ o \notin session.next..(session.next + n - 1)
        BY <1>3 DEF Bytes
      <4> HIDE DEF blank, r
      <4> QED BY <4>1 DEF Program
    <3> QED BY <3>1, <3>2
  <2> QED BY <2>1, <2>2
<1>6. /\ SessionOK(session, ckpt, incoming') /\ CheckpointOK(ckpt, incoming')
      /\ SessionOK(s, ckpt, incoming')
  <2>1. \A o \in 0..(session.next - 1) : incoming'[o] = incoming[o]
    <3>1. CASE incoming' \in {incoming, Erase(incoming, fresh, Garbage)}
      BY <1>5, <3>1
    <3>2. CASE \E n \in 0..r.length : incoming' = Program(blank, r.offset, n, r.artifact.crc)
      <4>1. PICK n \in 0..r.length : incoming' = Program(blank, r.offset, n, r.artifact.crc)
        BY <3>2
      <4>2. n \in Nat
        BY <1>2, <4>1
      <4> QED BY <1>2, <1>5, <4>1, <4>2
    <3>3. CASE incoming' = Program(blank, r.offset, r.length, r.artifact.crc)
      BY <1>2, <1>5, <3>3
    <3> QED BY <3>1, <3>2, <3>3 DEF WriteData
  <2>2. SessionOK(session, ckpt, incoming') /\ CheckpointOK(ckpt, incoming')
    BY <1>2, <2>1, AgreeBelow
  <2> QED BY <1>2, <2>2, ErasedMore
<1> HIDE DEF s
<1>7. CASE Nack(r, session) /\ UNCHANGED ckpt
  <2>1. LinkInv' /\ session' = session
    BY <1>3, <1>7, SendKeeps DEF Nack
  <2> QED BY <1>6, <1>7, <2>1
<1>8. CASE Nack(r, s) /\ UNCHANGED ckpt
  <2>1. LinkInv' /\ session' = s
    BY <1>4, <1>8, SendKeeps DEF Nack
  <2> QED BY <1>6, <1>8, <2>1
<1>9. CASE /\ incoming' = Program(blank, r.offset, r.length, r.artifact.crc)
           /\ PersistReceiveBoundaryIfNeeded(r, Advanced(s, r))
  <2>1. \A o \in Span(r) : /\ incoming'[o] \in ContentsOf(s.artifact.update_id)
                           /\ (o \div SECTOR) \in s.erased
    <3> SUFFICES ASSUME NEW o \in Span(r)
                 PROVE  /\ incoming'[o] \in ContentsOf(s.artifact.update_id)
                        /\ (o \div SECTOR) \in s.erased
      OBVIOUS
    <3>1. o \in Bytes /\ o \in r.offset..(r.offset + r.length - 1)
      <4>1. o \in r.offset..(r.offset + r.length - 1)
        BY DEF Span
      <4>2. /\ r.offset \in Nat /\ r.length \in Nat /\ session.artifact.size \in Nat
            /\ r.offset + r.length <= session.artifact.size
            /\ session.artifact.size <= INCOMING_SIZE
        BY <1>2, <1>3
      <4> HIDE DEF r
      <4>3. o \in Bytes
        BY <4>1, <4>2, InsideBytes, Zenon
      <4> QED BY <4>1, <4>3
    <3>2. incoming'[o] = r.artifact.crc
      BY <1>9, <3>1 DEF Program
    <3>3. (o \div SECTOR) \in s.erased
      BY <1>4 DEF SectorsToErase
    <3> QED BY <1>2, <1>4, <3>2, <3>3
  <2>2. SessionOK(Advanced(s, r), ckpt, incoming') /\ Advanced(s, r).state = "RECEIVING"
    BY <1>1, <1>2, <1>4, <1>6, <2>1, AdvancedKeeps
  <2>3. /\ LinkInv' /\ SessionOK(session', ckpt', incoming')
        /\ CheckpointOK(ckpt', incoming')
    BY <1>6, <1>9, <2>2, BoundaryKeeps
  <2> QED BY <2>3
<1> QED BY <1>7, <1>8, <1>9 DEF WriteData, s

-----------------------------------------------------------------------------
(* The other commands.                                                     *)

(* ProcessData.                                                             *)
LEMMA DataKeeps ==
    ASSUME NodeTypes, LinkInv, toNode # <<>>, UNCHANGED catalogue,
           SessionOK(session, ckpt, incoming), CheckpointOK(ckpt, incoming),
           Head(toNode).command = "DATA", ProcessData(Head(toNode))
    PROVE  /\ LinkInv' /\ SessionOK(session', ckpt', incoming')
           /\ CheckpointOK(ckpt', incoming')
<1> DEFINE r == Head(toNode)
<1>1. CASE Nack(r, session) /\ UNCHANGED <<incoming, ckpt>>
  BY <1>1, AnswerOnly DEF Nack
<1>2. CASE Addressed(r) /\ RepeatData(r)
  <2>1. UNCHANGED incoming
    BY <1>2 DEF RepeatData
  <2>2. CASE PersistReceiveBoundaryIfNeeded(r, session)
    <3>1. session.state = "RECEIVING"
      BY <1>2 DEF Addressed
    <3>2. LinkInv' /\ SessionOK(session', ckpt', incoming) /\ CheckpointOK(ckpt', incoming)
      BY <2>2, <3>1, BoundaryKeeps
    <3> QED BY <2>1, <3>2
  <2>3. CASE Nack(r, session) /\ UNCHANGED ckpt
    BY <2>1, <2>3, AnswerOnly DEF Nack
  <2> QED BY <1>2, <2>2, <2>3 DEF RepeatData
<1>3. CASE Addressed(r) /\ DataInOrder(r) /\ WriteData(r)
  BY <1>3, WriteKeeps
<1> QED BY <1>1, <1>2, <1>3 DEF ProcessData

(* ProcessFinish.                                                           *)
LEMMA FinishKeeps ==
    ASSUME NodeTypes, LinkInv, toNode # <<>>, UNCHANGED catalogue,
           SessionOK(session, ckpt, incoming), CheckpointOK(ckpt, incoming),
           ProcessFinish(Head(toNode))
    PROVE  /\ LinkInv' /\ SessionOK(session', ckpt', incoming')
           /\ CheckpointOK(ckpt', incoming')
<1> DEFINE r == Head(toNode)
           c == Checkpoint("ARTIFACT_READY", session.artifact, session.artifact.size)
           s == [session EXCEPT !.state = "ARTIFACT_READY"]
           f == [session EXCEPT !.state = "FAILED"]
<1>0. UNCHANGED incoming
  BY DEF ProcessFinish
<1>1. CASE (Ack(r, session) \/ Nack(r, session)) /\ UNCHANGED ckpt
  BY <1>0, <1>1, AnswerOnly DEF Ack, Nack
<1>2. CASE Addressed(r) /\ session.next = session.artifact.size /\ FinishData(r)
  <2>1. /\ session.state = "RECEIVING" /\ session \in SessionType
        /\ session.artifact \in catalogue /\ session.artifact \in Artifacts
        /\ session.next \in 0..INCOMING_SIZE /\ session.persisted \in 0..INCOMING_SIZE
        /\ Staged(incoming, session.artifact, session.next)
    BY <1>2, SessionFacts DEF Addressed
  <2>2. "FAILED" \in NodeStates /\ "ARTIFACT_READY" \in NodeStates
    BY DEF NodeStates
  <2>3. CASE Nack(r, f) /\ UNCHANGED ckpt
    <3>1. f \in SessionType /\ f.state = "FAILED"
      BY <2>1, <2>2, StateField
    <3> HIDE DEF f
    <3>2. LinkInv' /\ session' = f
      BY <2>3, <3>1, SendKeeps DEF Nack
    <3>3. SessionOK(f, ckpt, incoming)
      BY <3>1 DEF SessionOK
    <3> QED BY <1>0, <2>3, <3>2, <3>3
  <2>4. CASE /\ Holds(incoming, session.artifact)
             /\ PersistDownloadCheckpoint(r, c, s, session)
    <3>1. /\ s \in SessionType /\ s.state = "ARTIFACT_READY" /\ s.artifact = session.artifact
          /\ s.next = session.next
      BY <2>1, <2>2, StateField
    <3>2. /\ c.state = "ARTIFACT_READY" /\ c.artifact = session.artifact
          /\ c.next = session.next /\ c \in CheckpointType
      BY <1>2, <2>1 DEF Checkpoint, CheckpointType
    <3> HIDE DEF s, c
    <3>3. CheckpointValid(c) => CheckpointOK(c, incoming)
      BY <2>1, <2>4, <3>2 DEF CheckpointOK
    <3>4. SessionOK(session, c, incoming)
      BY <2>1, <3>2, OtherCheckpoint
    <3>5. SessionOK([s EXCEPT !.persisted = c.next], c, incoming)
      <4> DEFINE t == [s EXCEPT !.persisted = c.next]
      <4>1. /\ t \in SessionType /\ t.state = s.state /\ t.artifact = s.artifact
            /\ t.next = s.next
        BY <2>1, <3>1, <3>2, PersistedField
      <4> HIDE DEF t
      <4>2. SessionOK(t, c, incoming)
        BY <1>2, <2>1, <2>4, <3>1, <4>1 DEF SessionOK
      <4> QED BY <4>2 DEF t
    <3>6. LinkInv' /\ SessionOK(session', ckpt', incoming) /\ CheckpointOK(ckpt', incoming)
      BY <2>1, <2>4, <3>1, <3>2, <3>3, <3>4, <3>5, PersistKeeps
    <3> QED BY <1>0, <3>6
  <2> QED BY <1>1, <1>2, <2>3, <2>4 DEF FinishData
<1> QED BY <1>1, <1>2 DEF ProcessFinish

(* ProcessAbort.                                                            *)
LEMMA AbortKeeps ==
    ASSUME NodeTypes, LinkInv, toNode # <<>>, UNCHANGED catalogue,
           SessionOK(session, ckpt, incoming), CheckpointOK(ckpt, incoming),
           ProcessAbort(Head(toNode))
    PROVE  /\ LinkInv' /\ SessionOK(session', ckpt', incoming')
           /\ CheckpointOK(ckpt', incoming')
<1> DEFINE t == [ResetTransfer EXCEPT !.persisted = NoCheckpoint.next]
<1>1. session \in SessionType /\ session.storage_ready \in BOOLEAN
  BY SessionFacts
<1>2. ResetTransfer \in SessionType /\ ResetTransfer.state = "IDLE"
  BY <1>1, IdleIsOK DEF ResetTransfer, NodeTypes
<1>3. /\ CheckpointOK(NoCheckpoint, incoming) /\ NoCheckpoint.state = "IDLE"
      /\ NoCheckpoint.next = 0 /\ NoCheckpoint.next \in 0..INCOMING_SIZE
  BY NoCheckpointIsOK DEF NodeTypes
<1>4. t \in SessionType /\ t.state = "IDLE"
  BY <1>2, <1>3, PersistedField
<1> HIDE DEF t
<1>5. SessionOK(t, NoCheckpoint, incoming)
  BY <1>4 DEF SessionOK
<1>6. SessionOK(session, NoCheckpoint, incoming)
  BY <1>3, OtherCheckpoint
<1>7. /\ UNCHANGED incoming
      /\ PersistDownloadCheckpoint(Head(toNode), NoCheckpoint, ResetTransfer, session)
  BY DEF ProcessAbort
<1>8. LinkInv' /\ SessionOK(session', ckpt', incoming) /\ CheckpointOK(ckpt', incoming)
  BY <1>1, <1>2, <1>3, <1>5, <1>6, <1>7, PersistKeeps DEF t
<1> QED BY <1>7, <1>8

-----------------------------------------------------------------------------
(* The node as a whole.                                                    *)

(* The session, the checkpoint and the record in the next state, when the   *)
(* catalogue stays what it is.                                              *)
LEMMA NextNode ==
    ASSUME NodeTypes, UNCHANGED world, boot' \in {"app", "boot"},
           md' \in RecordType, version' \in Nat,
           SessionOK(session', ckpt', incoming'), CheckpointOK(ckpt', incoming')
    PROVE  NodeInv'
<1>1. UNCHANGED catalogue /\ UNCHANGED stable
  BY DEF world
<1>2. Artifacts' = Artifacts /\ SessionType' = SessionType
      /\ CheckpointType' = CheckpointType /\ RecordType' = RecordType
  BY <1>1 DEF Artifacts, SessionType, CheckpointType, RecordType
<1>4. SessionOK(session, ckpt, incoming)'
  BY <1>1, <1>2 DEF SessionOK, Staged, ContentsOf, Holds
<1>5. CheckpointOK(ckpt, incoming)'
  BY <1>1, <1>2 DEF CheckpointOK, Staged, ContentsOf, Holds, CheckpointValid, SessionFieldsValid
<1>6. NodeTypes'
  BY <1>1, <1>2 DEF NodeTypes
<1> QED BY <1>4, <1>5, <1>6 DEF NodeInv

(* The line when the node resets: its receive buffer is gone.               *)
LEMMA ResetLink ==
    ASSUME LinkInv, UNCHANGED catalogue, toNode' = <<>>, toClient' \in Seq(Replies)
    PROVE  LinkInv'
<1>1. <<>> \in Seq(Requests)
  OBVIOUS
<1>2. Requests' = Requests
  BY DEF Requests, Artifacts
<1> QED BY <1>1, <1>2 DEF LinkInv

(* A reset of the node that may have moved the boot record.                 *)
LEMMA ResetKeeps ==
    ASSUME NodeInv, UNCHANGED <<world, incoming, ckpt, version>>, NodeReset, md' \in RecordType
    PROVE  NodeInv'
<1>0. boot' = "boot" /\ session' = IdleSession(FALSE)
  BY DEF NodeReset
<1>1. NodeTypes /\ CheckpointOK(ckpt, incoming)
  BY DEF NodeInv
<1>2. SessionOK(IdleSession(FALSE), ckpt, incoming)
  BY <1>1, IdleIsOK DEF NodeTypes
<1>3. version' \in Nat
  BY <1>1 DEF NodeTypes
<1> QED BY <1>0, <1>1, <1>2, <1>3, NextNode

(* A handler that leaves the node running and its program alone.            *)
LEMMA HandlerKeeps ==
    ASSUME NodeInv, UNCHANGED <<world, boot, version>>, md' \in RecordType,
           SessionOK(session', ckpt', incoming'), CheckpointOK(ckpt', incoming')
    PROVE  NodeInv'
<1>1. NodeTypes
  BY DEF NodeInv
<1> QED BY <1>1, NextNode DEF NodeTypes

(* ProcessInstall.                                                          *)
LEMMA InstallKeeps ==
    ASSUME NodeInv, LinkInv, boot = "app", toNode # <<>>, UNCHANGED world,
           ProcessInstall(Head(toNode))
    PROVE  NodeInv' /\ LinkInv'
<1> DEFINE r == Head(toNode)
<1>0. /\ NodeTypes /\ SessionOK(session, ckpt, incoming) /\ CheckpointOK(ckpt, incoming)
      /\ md \in RecordType
  BY DEF NodeInv, NodeTypes
<1>1. UNCHANGED catalogue
  BY DEF world
<1>2. session \in SessionType /\ InstallRequest \in RecordType
  <2>1. session \in SessionType /\ session.artifact \in Artifacts
    BY <1>0, SessionFacts
  <2> QED BY <1>0, <2>1 DEF InstallRequest, RecordType
<1>3. CASE /\ Nack(r, session) /\ md' \in {md, InstallRequest}
           /\ UNCHANGED <<boot, incoming, ckpt, version>>
  <2>1. /\ LinkInv' /\ SessionOK(session', ckpt', incoming')
        /\ CheckpointOK(ckpt', incoming')
    BY <1>0, <1>1, <1>3, AnswerOnly DEF Nack
  <2>2. md' \in RecordType
    BY <1>0, <1>2, <1>3
  <2> QED BY <1>3, <2>1, <2>2, HandlerKeeps
<1>4. CASE /\ InstallAccepted(r) /\ md' = InstallRequest
           /\ toClient' \in Sent(toClient, Reply(r, "ACK", "status", session))
           /\ NodeReset
           /\ UNCHANGED <<incoming, ckpt, version>>
  <2>1. NodeInv'
    BY <1>2, <1>4, ResetKeeps
  <2>2. r \in Requests
    BY TailKeeps DEF LinkInv
  <2>3. Reply(r, "ACK", "status", session) \in Replies
    BY <1>0, <1>2, <2>2, ReplyIsGood
  <2>4. toClient' \in Seq(Replies)
    BY <1>4, <2>3, SentKeeps DEF LinkInv
  <2>5. LinkInv'
    BY <1>1, <1>4, <2>4, ResetLink DEF NodeReset
  <2> QED BY <2>1, <2>5
<1> QED BY <1>3, <1>4 DEF ProcessInstall, flashVars

(* OtaAgent_Process.                                                        *)
LEMMA AgentKeeps ==
    ASSUME NodeInv, LinkInv, OtaAgent_Process PROVE NodeInv' /\ LinkInv'
<1> DEFINE r == Head(toNode)
<1>0. /\ NodeTypes /\ SessionOK(session, ckpt, incoming) /\ CheckpointOK(ckpt, incoming)
      /\ boot = "app" /\ toNode # <<>> /\ UNCHANGED world /\ UNCHANGED catalogue
      /\ md \in RecordType
  BY DEF NodeInv, NodeTypes, OtaAgent_Process, world
<1>1. CASE (\E payload \in {"status", "hello"}, command \in {"ACK", "NACK"} :
               Send(r, command, payload, session)) /\ UNCHANGED <<boot, flashVars>>
  <2>0. UNCHANGED <<boot, incoming, ckpt, md, version>>
    BY <1>1 DEF flashVars
  <2>1. PICK payload \in {"status", "hello"}, command \in {"ACK", "NACK"} :
           Send(r, command, payload, session)
    BY <1>1
  <2>2. /\ LinkInv' /\ SessionOK(session', ckpt', incoming')
        /\ CheckpointOK(ckpt', incoming')
    BY <1>0, <2>0, <2>1, AnswerOnly
  <2> QED BY <1>0, <2>0, <2>2, HandlerKeeps
<1>2. CASE r.command = "START" /\ ProcessStart(r)
  <2>1. /\ LinkInv' /\ SessionOK(session', ckpt', incoming')
        /\ CheckpointOK(ckpt', incoming')
    BY <1>0, <1>2, StartKeeps
  <2> QED BY <1>0, <1>2, <2>1, HandlerKeeps DEF ProcessStart
<1>3. CASE r.command = "DATA" /\ ProcessData(r)
  <2>1. /\ LinkInv' /\ SessionOK(session', ckpt', incoming')
        /\ CheckpointOK(ckpt', incoming')
    BY <1>0, <1>3, DataKeeps
  <2> QED BY <1>0, <1>3, <2>1, HandlerKeeps DEF ProcessData
<1>4. CASE ProcessFinish(r)
  <2>1. /\ LinkInv' /\ SessionOK(session', ckpt', incoming')
        /\ CheckpointOK(ckpt', incoming')
    BY <1>0, <1>4, FinishKeeps
  <2> QED BY <1>0, <1>4, <2>1, HandlerKeeps DEF ProcessFinish
<1>5. CASE ProcessAbort(r)
  <2>1. /\ LinkInv' /\ SessionOK(session', ckpt', incoming')
        /\ CheckpointOK(ckpt', incoming')
    BY <1>0, <1>5, AbortKeeps
  <2> QED BY <1>0, <1>5, <2>1, HandlerKeeps DEF ProcessAbort
<1>6. CASE ProcessInstall(r)
  BY <1>0, <1>6, InstallKeeps
<1>7. CASE ProcessQuery(r) \/ ProcessResume(r) \/ CrcError(r)
  <2>1. /\ \E payload \in {"status", "hello"}, command \in {"ACK", "NACK"} :
              Send(r, command, payload, session)
        /\ UNCHANGED <<boot, flashVars>>
    BY <1>7 DEF ProcessQuery, ProcessResume, CrcError, Ack, Nack
  <2> QED BY <1>1, <2>1
<1> QED BY <1>2, <1>3, <1>4, <1>5, <1>6, <1>7 DEF OtaAgent_Process, OtaReceiver_ProcessPacket

-----------------------------------------------------------------------------
(* The start of the application, and the theorems.                         *)

(* RestoreDownloadCheckpoint: the sectors below a checkpoint are complete.  *)
LEMMA RestoredIsOK ==
    ASSUME NodeTypes, NEW c, NEW mem, CheckpointOK(c, mem), c.state # "IDLE"
    PROVE  SessionOK(RestoreDownloadCheckpoint(c), c, mem)
<1> DEFINE s == RestoreDownloadCheckpoint(c)
<1>1. /\ c.state \in {"RECEIVING", "ARTIFACT_READY"} /\ c.next \in 0..INCOMING_SIZE
      /\ c.artifact \in catalogue /\ c.artifact \in Artifacts
      /\ Staged(mem, c.artifact, c.next)
  BY DEF CheckpointOK, CheckpointType
<1>2. /\ c.next <= c.artifact.size
      /\ c.state = "RECEIVING" => c.next % SECTOR = 0
      /\ c.state = "ARTIFACT_READY" => c.next = c.artifact.size
  <2>1. SessionFieldsValid(c)
    BY DEF CheckpointOK, CheckpointValid, NoCheckpoint, Checkpoint
  <2>2. CASE c.state = "RECEIVING"
    BY <2>1, <2>2 DEF SessionFieldsValid
  <2>3. CASE c.state = "ARTIFACT_READY"
    BY <2>1, <2>3 DEF SessionFieldsValid
  <2> QED BY <1>1, <2>2, <2>3
<1>3. CompletedSectors(c.next) \in SUBSET Sectors /\ c.next \div MTU \in Nat
  BY <1>1, DivNat DEF CompletedSectors
<1>4. IdleSession(TRUE) \in SessionType
  BY IdleIsOK DEF NodeTypes
<1>5. /\ s \in SessionType /\ s.state = c.state /\ s.artifact = c.artifact /\ s.next = c.next
      /\ s.persisted = c.next /\ s.erased = CompletedSectors(c.next)
  <2>1. c.state \in NodeStates
    BY <1>1 DEF NodeStates
  <2> QED BY <1>1, <1>3, <1>4, <2>1 DEF RestoreDownloadCheckpoint, SessionType
<1> HIDE DEF s
<1>6. c.state = "RECEIVING" => \A o \in 0..(s.next - 1) : (o \div SECTOR) \in s.erased
  BY <1>1, <1>2, <1>5, CompletedCover
<1>7. c.state = "ARTIFACT_READY" => Holds(mem, c.artifact)
  BY DEF CheckpointOK
<1>8. SessionOK(s, c, mem)
  BY <1>1, <1>2, <1>5, <1>6, <1>7 DEF SessionOK
<1> QED BY <1>8 DEF s

(* MirrorPersistentTrialState: a session that receives nothing.             *)
LEMMA MirroredIsOK ==
    ASSUME NodeTypes, NEW m \in RecordType, NEW c, NEW mem
    PROVE  SessionOK(MirrorPersistentTrialState(m), c, mem)
<1>1. IdleSession(TRUE) \in SessionType /\ SessionOK(IdleSession(TRUE), c, mem)
  BY IdleIsOK DEF NodeTypes
<1>2. CASE m.state \in {"TRIAL_BOOT", "CONFIRMED"}
  <2> DEFINE s == [IdleSession(TRUE) EXCEPT !.state = m.state, !.artifact = m.artifact,
                                            !.next = m.artifact.size]
  <2>1. m.artifact \in Artifacts /\ m.artifact.size \in 0..INCOMING_SIZE
    BY ArtifactFields DEF RecordType, NodeTypes
  <2>2. m.state \in NodeStates
    BY <1>2 DEF NodeStates
  <2>3. s \in SessionType /\ s.state = m.state
    BY <1>1, <2>1, <2>2 DEF SessionType
  <2>4. MirrorPersistentTrialState(m) = s
    BY <1>2 DEF MirrorPersistentTrialState
  <2> HIDE DEF s
  <2>5. SessionOK(s, c, mem)
    BY <1>2, <2>3 DEF SessionOK
  <2> QED BY <2>4, <2>5
<1>3. CASE m.state \notin {"TRIAL_BOOT", "CONFIRMED"}
  BY <1>1, <1>3 DEF MirrorPersistentTrialState
<1> QED BY <1>2, <1>3

(* The record of a settled node.                                           *)
LEMMA SettledIsRecord ==
    ASSUME NodeTypes, NEW v \in Nat
    PROVE  SettledRecord(v) \in RecordType /\ SettledRecord(v).state = "IDLE"
BY ArtifactFields DEF SettledRecord, RecordType, NodeTypes

(* Versions of artifacts.                                                  *)
LEMMA VersionIsNat == ASSUME NodeTypes PROVE \A a \in Artifacts : a.target_version \in Nat
BY DEF NodeTypes, Artifacts, NoArtifact

(* Bootloader.                                                              *)
LEMMA BootloaderKeeps ==
    ASSUME NodeInv, LinkInv, Bootloader PROVE NodeInv' /\ LinkInv'
<1>0. /\ NodeTypes /\ CheckpointOK(ckpt, incoming) /\ UNCHANGED world /\ UNCHANGED catalogue
      /\ UNCHANGED <<incoming, toNode, toClient>>
  BY DEF NodeInv, Bootloader, world
<1>1. md \in RecordType /\ md.active \in Nat /\ md.artifact \in Artifacts /\ version \in Nat
  BY <1>0 DEF NodeTypes, RecordType
<1>2. LinkInv'
  <2>1. Requests' = Requests
    BY <1>0 DEF Requests, Artifacts
  <2> QED BY <1>0, <2>1 DEF LinkInv
<1>3. ckpt' \in {ckpt, NoCheckpoint}
  BY DEF Bootloader, BootActive, BootInstall, BootReject, BootTrialAgain, BootRollback,
         BootFinalize, BootFail, ClearBestEffort
<1>4. CheckpointOK(ckpt', incoming)
  BY <1>0, <1>3, NoCheckpointIsOK DEF NodeTypes
<1>5. md' \in RecordType /\ version' \in Nat
  <2>1. CASE BootActive
    BY <1>1, <2>1 DEF BootActive
  <2>2. CASE BootInstall
    <3>1. md' = [md EXCEPT !.state = "TRIAL_BOOT"] /\ version' = md.artifact.target_version
      BY <2>2 DEF BootInstall
    <3>2. md' \in RecordType
      BY <1>1, <3>1 DEF RecordType
    <3> QED BY <1>0, <1>1, <3>1, <3>2, VersionIsNat
  <2>3. CASE BootReject
    BY <1>0, <1>1, <2>3, SettledIsRecord DEF BootReject
  <2>4. CASE BootTrialAgain
    BY <1>1, <2>4 DEF BootTrialAgain
  <2>5. CASE BootRollback
    BY <1>0, <1>1, <2>5, SettledIsRecord DEF BootRollback
  <2>6. CASE BootFinalize
    BY <1>0, <1>1, <2>6, SettledIsRecord DEF BootFinalize
  <2>7. CASE BootFail
    BY <1>1, <2>7 DEF BootFail, RecordType
  <2> QED BY <2>1, <2>2, <2>3, <2>4, <2>5, <2>6, <2>7 DEF Bootloader
<1>6. boot' \in {"app", "boot"} /\ SessionOK(session', ckpt', incoming)
  <2>0. CASE BootFail
    BY <2>0 DEF BootFail, Bootloader, NodeInv
  <2> SUFFICES ASSUME StartApplication PROVE boot' = "app" /\ SessionOK(session', ckpt', incoming)
    BY <2>0 DEF Bootloader
  <2>1. boot' = "app" /\ session' \in OtaReceiver_Init(ckpt', md')
    BY DEF StartApplication
  <2>2. CASE session' = IdleSession(FALSE)
    BY <1>0, <2>1, <2>2, IdleIsOK DEF NodeTypes
  <2>3. CASE ckpt'.state # "IDLE" /\ session' = RestoreDownloadCheckpoint(ckpt')
    <3>1. SessionOK(RestoreDownloadCheckpoint(ckpt'), ckpt', incoming)
      BY <1>0, <1>4, <2>3, RestoredIsOK
    <3> QED BY <2>1, <2>3, <3>1
  <2>4. CASE session' = MirrorPersistentTrialState(md')
    <3>1. SessionOK(MirrorPersistentTrialState(md'), ckpt', incoming)
      BY <1>0, <1>5, MirroredIsOK
    <3> QED BY <2>1, <2>4, <3>1
  <2> QED BY <2>1, <2>2, <2>3, <2>4 DEF OtaReceiver_Init
<1>7. NodeInv'
  BY <1>0, <1>4, <1>5, <1>6, NextNode
<1> QED BY <1>2, <1>7

(* TrialConfirm.                                                            *)
LEMMA ConfirmKeeps ==
    ASSUME NodeInv, LinkInv, TrialConfirm PROVE NodeInv' /\ LinkInv'
<1>1. md' \in RecordType /\ md'.state = "CONFIRMED"
  <2>1. md \in RecordType
    BY DEF NodeInv, NodeTypes
  <2> QED BY <2>1 DEF TrialConfirm, RecordType
<1>2. CASE NodeReset
  <2>1. NodeInv'
    BY <1>1, <1>2, ResetKeeps DEF TrialConfirm
  <2>2. LinkInv'
    BY <1>2, ResetLink DEF TrialConfirm, NodeReset, LinkInv, world
  <2> QED BY <2>1, <2>2
<1>3. CASE UNCHANGED <<boot, session, toNode>>
  <2>1. UNCHANGED <<world, incoming, ckpt, version, toClient>> /\ UNCHANGED catalogue
    BY DEF TrialConfirm, world
  <2>2. SessionOK(session', ckpt', incoming') /\ CheckpointOK(ckpt', incoming')
    BY <1>3, <2>1 DEF NodeInv
  <2>3. NodeInv'
    BY <1>1, <1>3, <2>1, <2>2, HandlerKeeps
  <2>4. Requests' = Requests
    BY <2>1 DEF Requests, Artifacts
  <2> QED BY <1>3, <2>1, <2>3, <2>4 DEF LinkInv
<1> QED BY <1>2, <1>3 DEF TrialConfirm

(* PowerCut and TrialWatchdog.                                              *)
LEMMA PowerCutKeeps ==
    ASSUME NodeInv, LinkInv, PowerCut \/ TrialWatchdog PROVE NodeInv' /\ LinkInv'
<1>1. UNCHANGED <<world, incoming, ckpt, md, version, toClient>> /\ NodeReset
  BY DEF PowerCut, TrialWatchdog, flashVars
<1>2. md' \in RecordType
  BY <1>1 DEF NodeInv, NodeTypes
<1>3. NodeInv'
  BY <1>1, <1>2, ResetKeeps
<1>4. LinkInv'
  BY <1>1, ResetLink DEF NodeReset, LinkInv, world
<1> QED BY <1>3, <1>4

(* The node sends at most one answer per request that it reads.             *)
LEMMA AgentLag ==
    ASSUME LinkInv, LinkInv', OtaAgent_Process
    PROVE  Len(toNode') + Len(toClient') <= Len(toNode) + Len(toClient)
<1> DEFINE r == Head(toNode)
<1>1. toNode # <<>> /\ toNode \in Seq(Requests) /\ toClient \in Seq(Replies)
  BY DEF OtaAgent_Process, LinkInv
<1>2. /\ toNode' \in {Tail(toNode), <<>>}
      /\ \E x : toClient' \in Sent(toClient, x)
  <2> USE DEF Send, Ack, Nack
  <2> HIDE DEF r
  <2>1. CASE ProcessQuery(r) \/ ProcessResume(r) \/ CrcError(r)
    BY <2>1 DEF ProcessQuery, ProcessResume, CrcError, r
  <2>2. CASE ProcessStart(r) \/ ProcessAbort(r)
    BY <2>2 DEF ProcessStart, ProcessAbort, PersistDownloadCheckpoint, r
  <2>3. CASE ProcessData(r)
    BY <2>3 DEF ProcessData, RepeatData, WriteData, PersistReceiveBoundaryIfNeeded,
                PersistDownloadCheckpoint, r
  <2>4. CASE ProcessFinish(r)
    BY <2>4 DEF ProcessFinish, FinishData, PersistDownloadCheckpoint, r
  <2>5. CASE ProcessInstall(r)
    BY <2>5 DEF ProcessInstall, NodeReset, r
  <2> QED BY <2>1, <2>2, <2>3, <2>4, <2>5 DEF OtaAgent_Process, OtaReceiver_ProcessPacket, r
<1>3. Len(toClient') <= Len(toClient) + 1
  BY <1>1, <1>2 DEF Sent
<1>4. Len(toNode') <= Len(toNode) - 1
  BY <1>1, <1>2
<1> QED BY <1>1, <1>3, <1>4 DEF LinkInv

(* Steps of the node leave room on the line.                                *)
LEMMA NodeLag ==
    ASSUME LinkInv, LinkInv', LagInv, NodeStep PROVE LagInv'
<1>1. UNCHANGED Slack
  BY DEF NodeStep, NodeFrame, clientVars, Slack
<1>2. Len(toNode') + Len(toClient') <= Len(toNode) + Len(toClient)
  <2>1. CASE OtaAgent_Process
    BY <2>1, AgentLag
  <2>2. CASE TrialConfirm \/ TrialWatchdog \/ PowerCut
    <3>1. UNCHANGED toClient /\ toNode' \in {toNode, <<>>}
      BY <2>2 DEF TrialConfirm, TrialWatchdog, PowerCut, NodeReset
    <3> QED BY <3>1 DEF LinkInv
  <2>3. CASE Bootloader
    <3>1. UNCHANGED <<toNode, toClient>>
      BY <2>3 DEF Bootloader
    <3> QED BY <3>1 DEF LinkInv
  <2> QED BY <2>1, <2>2, <2>3 DEF NodeStep
<1> QED BY <1>1, <1>2 DEF LagInv, LinkInv, Slack

(* Steps of the node leave the client.                                     *)
LEMMA ClientUnchanged ==
    ASSUME ClientInv, UNCHANGED clientVars, UNCHANGED catalogue PROVE ClientInv'
<1>1. Requests' = Requests /\ Artifacts' = Artifacts
  BY DEF Requests, Artifacts
<1> QED BY <1>1 DEF ClientInv, clientVars

(* Steps of the client and of the environment leave the node.              *)
LEMMA NodeUnchanged ==
    ASSUME NodeInv, UNCHANGED nodeVars, UNCHANGED catalogue, stable' \in BOOLEAN PROVE NodeInv'
<1>1. UNCHANGED <<boot, session, incoming, ckpt, md, version>>
  BY DEF nodeVars, flashVars
<1>2. /\ Artifacts' = Artifacts /\ SessionType' = SessionType
      /\ CheckpointType' = CheckpointType /\ RecordType' = RecordType
  BY DEF Artifacts, SessionType, CheckpointType, RecordType
<1>3. NodeTypes'
  BY <1>1, <1>2 DEF NodeInv, NodeTypes
<1>4. SessionOK(session, ckpt, incoming)'
  BY <1>1, <1>2 DEF NodeInv, SessionOK, Staged, ContentsOf, Holds
<1>5. CheckpointOK(ckpt, incoming)'
  BY <1>1, <1>2 DEF NodeInv, CheckpointOK, Staged, ContentsOf, Holds, CheckpointValid,
                    SessionFieldsValid
<1> QED BY <1>3, <1>4, <1>5 DEF NodeInv

(* The initial state.                                                       *)
LEMMA InitHolds == ASSUME Init PROVE Inv
<1>1. catalogue \in Catalogues /\ NodeTypes
  <2>1. catalogue \in Catalogues
    BY DEF Init
  <2>2. md \in RecordType
    BY <2>1, ArtifactFields DEF Init, SettledRecord, RecordType
  <2> QED BY <2>1, <2>2 DEF Init, NodeTypes
<1>2. LinkInv /\ LagInv
  BY DEF Init, LinkInv, LagInv, Slack
<1>3. ClientInv
  BY <1>1, NoPacketIsGood DEF Init, ClientInv, Artifacts
<1>4. SessionOK(session, ckpt, incoming)
  BY <1>1, IdleIsOK DEF Init
<1>5. CheckpointOK(ckpt, incoming)
  BY <1>1, NoCheckpointIsOK DEF Init
<1>6. NodeInv
  BY <1>1, <1>4, <1>5 DEF NodeInv
<1> QED BY <1>2, <1>3, <1>6 DEF Inv

(* Every step of the system.                                               *)
LEMMA NextKeeps == ASSUME Inv, [Next]_vars PROVE Inv'
<1>0. LinkInv /\ LagInv /\ ClientInv /\ NodeInv /\ NodeTypes
  BY DEF Inv, NodeInv
<1>1. CASE NodeStep
  <2>1. NodeInv' /\ LinkInv'
    BY <1>0, <1>1, AgentKeeps, ConfirmKeeps, BootloaderKeeps, PowerCutKeeps DEF NodeStep
  <2>2. UNCHANGED catalogue
    BY <1>1 DEF NodeStep, OtaAgent_Process, TrialConfirm, TrialWatchdog, Bootloader,
                PowerCut, world
  <2>3. LagInv'
    BY <1>0, <1>1, <2>1, NodeLag
  <2> QED BY <1>0, <1>1, <2>1, <2>2, <2>3, ClientUnchanged DEF NodeStep, NodeFrame, Inv
<1>2. CASE ClientStep
  <2>1. UNCHANGED nodeVars /\ UNCHANGED catalogue /\ UNCHANGED stable
    BY <1>2 DEF ClientStep, ClientFrame, world
  <2>2. NodeInv'
    BY <1>0, <2>1, NodeUnchanged DEF NodeTypes
  <2> QED BY <1>0, <1>2, <2>2, ClientKeeps DEF Inv
<1>3. CASE Settle \/ UNCHANGED vars
  <2>1. /\ UNCHANGED <<catalogue, toNode, toClient>> /\ UNCHANGED nodeVars
        /\ UNCHANGED clientVars /\ stable' \in BOOLEAN
    BY <1>0, <1>3 DEF Settle, vars, world, NodeTypes
  <2>2. LinkInv'
    <3>1. Requests' = Requests
      BY <2>1 DEF Requests, Artifacts
    <3> QED BY <1>0, <2>1, <3>1 DEF LinkInv
  <2>3. LagInv'
    BY <1>0, <2>1 DEF LagInv, Slack, clientVars
  <2> QED BY <1>0, <2>1, <2>2, <2>3, ClientUnchanged, NodeUnchanged DEF Inv
<1> QED BY <1>1, <1>2, <1>3 DEF Next

(* The invariant of the transfer, for every catalogue, geometry of the      *)
(* flash, response time of the node and number of retries.                  *)
THEOREM TransferInvariant == Spec => []Inv
BY InitHolds, NextKeeps, PTL DEF Spec

(* Shape of the state, the bounds of the line, of the retries and of the    *)
(* plan loop among it (Request, UartOta_TransferInstallAndWait).            *)
THEOREM TransferTypes == Spec => []TypeOK
<1>1. Inv => TypeOK
  BY DEF Inv, LinkInv, LagInv, Slack, ClientInv, NodeInv, NodeTypes, SessionOK, CheckpointOK,
         SessionType, CheckpointType, RecordType, NodeStates, TypeOK
<1> QED BY <1>1, TransferInvariant, PTL

(* No hole below the offset of the session or of the checkpoint             *)
(* (ProcessData, RestoreDownloadCheckpoint).                                *)
THEOREM NoHoles == Spec => []StagedWithoutHoles
<1>1. Inv => StagedWithoutHoles
  BY DEF Inv, NodeInv, SessionOK, CheckpointOK, Staged, StagedWithoutHoles
<1> QED BY <1>1, TransferInvariant, PTL

(* ARTIFACT_READY means that Incoming holds the artifact (ProcessFinish,    *)
(* RestoreDownloadCheckpoint).                                              *)
THEOREM ReadyIsWhole == Spec => []ReadyMeansWhole
<1>1. Inv => ReadyMeansWhole
  BY DEF Inv, NodeInv, SessionOK, CheckpointOK, ReadyMeansWhole
<1> QED BY <1>1, TransferInvariant, PTL

(* The checkpoint is behind its session (PersistReceiveBoundaryIfNeeded).   *)
THEOREM CheckpointIsBehind == Spec => []CheckpointBehind
<1>1. Inv => CheckpointBehind
  BY DEF Inv, NodeInv, SessionOK, CheckpointBehind
<1> QED BY <1>1, TransferInvariant, PTL

=============================================================================
