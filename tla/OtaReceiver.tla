----------------------------- MODULE OtaReceiver -----------------------------
(***************************************************************************)
(* The node's end of a transfer, packet by packet: the OTA agent and the   *)
(* OTA receiver of the application, the download checkpoint, the Incoming  *)
(* partition of the external flash, and what a reset makes of them.  The   *)
(* bootloader is reduced to what it decides; BootManager, SecureContainer  *)
(* and ImageInstaller describe how.                                        *)
(*                                                                         *)
(* A handler is one step.  A power cut inside it leaves in flash what one  *)
(* of its failures leaves there, and a failure may be followed by Reset.   *)
(***************************************************************************)
EXTENDS UartLink

CONSTANTS
    FactoryVersion,    \* the version the node is delivered with
    StorageInitFails   \* may ExternalFlashStorage_Init fail at a start?

ASSUME ReceiverAssumption ==
    FactoryVersion \in Nat \ {0} /\ StorageInitFails \in BOOLEAN

VARIABLES
    session,   \* g_session
    incoming,  \* the Incoming partition, byte by byte
    ckpt,      \* newest download checkpoint
    md,        \* boot record: update state, its artifact, the confirmed version
    version    \* APPLICATION_VERSION of the installed image

flashVars == <<incoming, ckpt, md, version>>
nodeVars == <<boot, session, flashVars>>

Bytes == 0..(INCOMING_SIZE - 1)
Sectors == 0..(INCOMING_SIZE \div SECTOR - 1)

(* `last` is the last DATA packet written, <<>> without has_last_data.     *)
IdleSession(ready) ==
    [state |-> "IDLE", artifact |-> NoArtifact, next |-> 0, persisted |-> 0,
     erased |-> {}, sequence |-> 0, last |-> <<>>, storage_ready |-> ready]

ResetTransfer == IdleSession(session.storage_ready)

Checkpoint(state, a, next) == [state |-> state, artifact |-> a, next |-> next]
NoCheckpoint == Checkpoint("IDLE", NoArtifact, 0)

-----------------------------------------------------------------------------
(* Download checkpoint.                                                    *)

SessionFieldsValid(c) ==
    /\ c.artifact.update_id # 0
    /\ c.artifact.size \in 1..INCOMING_SIZE
    /\ c.next <= c.artifact.size
    /\ CASE c.state = "RECEIVING" -> c.next % SECTOR = 0
         [] c.state = "ARTIFACT_READY" -> c.next = c.artifact.size

CheckpointValid(c) == c = NoCheckpoint \/ SessionFieldsValid(c)

StorageMayFail == ~stable \/ ~session.storage_ready

(* DownloadCheckpointStorage_Commit.  When it fails the older record is    *)
(* the newest one, or the new one if only the read-back went wrong.        *)
Stored(c) == CheckpointValid(c) /\ ckpt' = c
NotStored(c) ==
    IF CheckpointValid(c) THEN StorageMayFail /\ ckpt' \in {ckpt, c}
                          ELSE UNCHANGED ckpt

-----------------------------------------------------------------------------
(* Replies.  Each removes the request from the receive buffer.             *)

Reply(r, command, payload, s) ==
    [command |-> command, payload |-> payload,
     update_id |-> r.update_id, sequence |-> r.sequence,
     update_state |-> s.state, active_update_id |-> s.artifact.update_id,
     next |-> s.next, expected_size |-> s.artifact.size,
     application_version |-> version, capable |-> s.storage_ready]

Send(r, command, payload, s) ==
    /\ session' = s
    /\ toNode' = Tail(toNode)
    /\ toClient' \in Sent(toClient, Reply(r, command, payload, s))

Ack(r, s) == Send(r, "ACK", "status", s)
Nack(r, s) == Send(r, "NACK", "status", s)

(* PersistDownloadCheckpoint or ClearDownloadCheckpoint, and the answer:   *)
(* persisted_offset follows the record that was committed.                 *)
PersistDownloadCheckpoint(r, c, done, failed) ==
    \/ Stored(c) /\ Ack(r, [done EXCEPT !.persisted = c.next])
    \/ NotStored(c) /\ Nack(r, failed)

-----------------------------------------------------------------------------
(* Incoming partition.                                                     *)

InSector(o, sectors) == (o \div SECTOR) \in sectors
Erase(mem, sectors, value) == [o \in Bytes |-> IF InSector(o, sectors) THEN value ELSE mem[o]]
Program(mem, first, count, c) ==
    [o \in Bytes |-> IF o \in first..(first + count - 1) THEN c ELSE mem[o]]

Span(r) == r.offset..(r.offset + r.length - 1)

(* PreflightProgrammable: sure to succeed on erased bytes and on bytes     *)
(* that hold the data already, a matter of luck on any other.              *)
Programmable(mem, r) == \A o \in Span(r) : mem[o] \in {Blank, r.artifact.crc}

StoredDataMatches(r) == \A o \in Span(r) : incoming[o] = r.artifact.crc

Holds(mem, a) == \A o \in 0..(a.size - 1) : mem[o] = a.crc

-----------------------------------------------------------------------------
(* Commands.                                                               *)

ProcessQuery(r) ==
    /\ Send(r, "ACK", "hello", session)
    /\ UNCHANGED <<boot, flashVars>>

StartAccepted(r) ==
    /\ session.state \in {"IDLE", "FAILED", "RECEIVING"}
    /\ session.storage_ready
    /\ r.update_id # 0
    /\ r.artifact.size <= INCOMING_SIZE
    /\ r.artifact.target_version > version
    /\ r.artifact.base_version \in {0, version}

ProcessStart(r) ==
    LET s == [IdleSession(TRUE) EXCEPT !.state = "RECEIVING", !.artifact = r.artifact]
        c == Checkpoint("RECEIVING", r.artifact, 0)
    IN  /\ \/ ~StartAccepted(r) /\ Nack(r, session) /\ UNCHANGED ckpt
           \/ StartAccepted(r) /\ PersistDownloadCheckpoint(r, c, s, ResetTransfer)
        /\ UNCHANGED <<boot, incoming, md, version>>

(* A RECEIVING session with this identifier.                               *)
Addressed(r) == session.state = "RECEIVING" /\ r.update_id = session.artifact.update_id

Repeated(r) == session.last = <<r.sequence, r.offset, r.length>>

(* Mutant: packets may be missing in between.                              *)
DataAhead(r) ==
    /\ r.sequence >= session.sequence
    /\ r.offset >= session.next
    /\ r.length <= session.artifact.size - session.next

DataInOrder(r) ==
    /\ r.sequence = session.sequence
    /\ r.offset = session.next
    /\ r.length <= session.artifact.size - session.next

(* Mutant: the checkpoint covers the sector that is being filled.          *)
PersistOnSectorEntry(r, s) ==
    LET end == ((s.next + SECTOR - 1) \div SECTOR) * SECTOR
        c == Checkpoint("RECEIVING", s.artifact, end)
    IN  PersistDownloadCheckpoint(r, c, s, s)

(* The end of ProcessData, with the session as it is by then.              *)
PersistReceiveBoundaryIfNeeded(r, s) ==
    LET c == Checkpoint("RECEIVING", s.artifact, s.next)
    IN  IF s.next = 0 \/ s.next % SECTOR # 0 \/ s.persisted = s.next
          THEN Ack(r, s) /\ UNCHANGED ckpt
          ELSE PersistDownloadCheckpoint(r, c, s, s)

RepeatData(r) ==
    /\ \/ StoredDataMatches(r) /\ PersistReceiveBoundaryIfNeeded(r, session)
       \/ (~StoredDataMatches(r) \/ ~stable) /\ Nack(r, session) /\ UNCHANGED ckpt
    /\ UNCHANGED incoming

Advanced(s, r) ==
    [s EXCEPT !.last = <<r.sequence, r.offset, r.length>>,
              !.next = @ + r.length, !.sequence = @ + 1]

(* The sectors that EnsureIncomingSectorsErased has to erase first.        *)
SectorsToErase(r) == {o \div SECTOR : o \in Span(r)} \ session.erased

WriteData(r) ==
    LET fresh == SectorsToErase(r)
        blank == Erase(incoming, fresh, Blank)
        s == [session EXCEPT !.erased = @ \cup fresh]
    IN  \/ \* EnsureIncomingSectorsErased fails
           /\ ~stable /\ fresh # {}
           /\ incoming' \in {incoming, Erase(incoming, fresh, Garbage)}
           /\ Nack(r, session) /\ UNCHANGED ckpt
        \/ \* the write or its verification fails
           /\ ~stable \/ ~Programmable(blank, r)
           /\ \E n \in 0..r.length : incoming' = Program(blank, r.offset, n, r.artifact.crc)
           /\ Nack(r, s) /\ UNCHANGED ckpt
        \/ /\ incoming' = Program(blank, r.offset, r.length, r.artifact.crc)
           /\ PersistReceiveBoundaryIfNeeded(r, Advanced(s, r))

ProcessData(r) ==
    /\ CASE ~Addressed(r) -> Nack(r, session) /\ UNCHANGED <<incoming, ckpt>>
         [] Addressed(r) /\ Repeated(r) -> RepeatData(r)
         [] Addressed(r) /\ ~Repeated(r) /\ DataInOrder(r) -> WriteData(r)
         [] OTHER -> Nack(r, session) /\ UNCHANGED <<incoming, ckpt>>
    /\ UNCHANGED <<boot, md, version>>

AlreadyFinished(r) ==
    /\ session.state = "ARTIFACT_READY"
    /\ r.update_id = session.artifact.update_id
    /\ session.next = session.artifact.size

(* Mutant: the CRC of the artifact is not compared.                        *)
FinishUnchecked(r) ==
    LET c == Checkpoint("ARTIFACT_READY", session.artifact, session.artifact.size)
    IN  PersistDownloadCheckpoint(r, c, [session EXCEPT !.state = "ARTIFACT_READY"], session)

FinishData(r) ==
    LET c == Checkpoint("ARTIFACT_READY", session.artifact, session.artifact.size)
        s == [session EXCEPT !.state = "ARTIFACT_READY"]
    IN  \/ ~stable /\ Nack(r, session) /\ UNCHANGED ckpt     \* CalculateIncomingCrc fails
        \/ /\ ~Holds(incoming, session.artifact)
           /\ Nack(r, [session EXCEPT !.state = "FAILED"]) /\ UNCHANGED ckpt
        \/ Holds(incoming, session.artifact) /\ PersistDownloadCheckpoint(r, c, s, session)

ProcessFinish(r) ==
    /\ CASE AlreadyFinished(r) -> Ack(r, session) /\ UNCHANGED ckpt
         [] Addressed(r) /\ session.next = session.artifact.size -> FinishData(r)
         [] OTHER -> Nack(r, session) /\ UNCHANGED ckpt
    /\ UNCHANGED <<boot, incoming, md, version>>

ProcessAbort(r) ==
    /\ PersistDownloadCheckpoint(r, NoCheckpoint, ResetTransfer, session)
    /\ UNCHANGED <<boot, incoming, md, version>>

ProcessResume(r) ==
    /\ IF Addressed(r) THEN Ack(r, session) ELSE Nack(r, session)
    /\ UNCHANGED <<boot, flashVars>>

InstallAccepted(r) ==
    /\ session.state = "ARTIFACT_READY"
    /\ r.update_id = session.artifact.update_id
    /\ incoming[0] \notin {Blank, Garbage}    \* IncomingLooksLikeSecureContainer

NodeReset == boot' = "boot" /\ session' = IdleSession(FALSE) /\ toNode' = <<>>

InstallRequest == [md EXCEPT !.state = "ARTIFACT_READY", !.artifact = session.artifact]

(* The record is committed, the ACK leaves, and the agent resets the node. *)
(* A commit that is reported as failed may be in force all the same, see   *)
(* ProgramFails in MetadataStorage: then the node goes on with it.         *)
ProcessInstall(r) ==
    \/ ~InstallAccepted(r) /\ Nack(r, session) /\ UNCHANGED <<boot, flashVars>>
    \/ /\ InstallAccepted(r) /\ ~stable
       /\ md' \in {md, InstallRequest}
       /\ Nack(r, session)
       /\ UNCHANGED <<boot, incoming, ckpt, version>>
    \/ /\ InstallAccepted(r)
       /\ md' = InstallRequest
       /\ toClient' \in Sent(toClient, Reply(r, "ACK", "status", session))
       /\ NodeReset
       /\ UNCHANGED <<incoming, ckpt, version>>

(* A frame whose CRC fails is answered if its header can be read.          *)
CrcError(r) ==
    /\ ~stable
    /\ Nack(r, session)
    /\ UNCHANGED <<boot, flashVars>>

(* The commands the gateway's client sends; CONFIRM is in NodeApplication. *)
OtaReceiver_ProcessPacket(r) ==
    \/ r.command = "QUERY" /\ ProcessQuery(r)
    \/ r.command = "START" /\ ProcessStart(r)
    \/ r.command = "DATA" /\ ProcessData(r)
    \/ r.command = "FINISH" /\ ProcessFinish(r)
    \/ r.command = "ABORT" /\ ProcessAbort(r)
    \/ r.command = "RESUME" /\ ProcessResume(r)
    \/ r.command = "INSTALL" /\ ProcessInstall(r)

(* OtaAgent_Process, one frame.                                            *)
OtaAgent_Process ==
    /\ boot = "app" /\ toNode # <<>>
    /\ OtaReceiver_ProcessPacket(Head(toNode)) \/ CrcError(Head(toNode))
    /\ UNCHANGED world

-----------------------------------------------------------------------------
(* Start of the application.                                               *)

CompletedSectors(offset) == {n \in Sectors : n < offset \div SECTOR}

RestoreDownloadCheckpoint(c) ==
    [IdleSession(TRUE) EXCEPT
       !.state = c.state, !.artifact = c.artifact, !.next = c.next,
       !.persisted = c.next, !.erased = CompletedSectors(c.next),
       !.sequence = c.next \div MTU]

MirrorPersistentTrialState(m) ==
    IF m.state \in {"TRIAL_BOOT", "CONFIRMED"}
      THEN [IdleSession(TRUE) EXCEPT !.state = m.state, !.artifact = m.artifact,
                                     !.next = m.artifact.size]
      ELSE IdleSession(TRUE)

(* OtaReceiver_Init: the sessions an application may come up with.         *)
OtaReceiver_Init(c, m) ==
    {IF c.state # "IDLE" THEN RestoreDownloadCheckpoint(c)
                         ELSE MirrorPersistentTrialState(m)}
      \cup (IF StorageInitFails /\ ~stable THEN {IdleSession(FALSE)} ELSE {})

StartApplication ==
    boot' = "app" /\ session' \in OtaReceiver_Init(ckpt', md')

(* TrialConfirmation_Process: confirm, then reset.  Taken for failed, the  *)
(* confirmation may be in force; it is not tried again then.               *)
TrialConfirm ==
    /\ boot = "app" /\ md.state = "TRIAL_BOOT" /\ md.artifact.target_version = version
    /\ md' = [md EXCEPT !.state = "CONFIRMED"]
    /\ NodeReset \/ (~stable /\ UNCHANGED <<boot, session, toNode>>)
    /\ UNCHANGED <<incoming, ckpt, version, toClient, world>>

(* The watchdog, which nobody feeds, ends such a trial.                    *)
TrialWatchdog ==
    /\ boot = "app" /\ md.state = "CONFIRMED"
    /\ NodeReset
    /\ UNCHANGED <<flashVars, toClient, world>>

(* Power cut, or the watchdog of a trial that does not confirm.            *)
PowerCut ==
    /\ ~stable
    /\ NodeReset
    /\ UNCHANGED <<flashVars, toClient, world>>

-----------------------------------------------------------------------------
(* What the bootloader decides before it starts an application.            *)

SettledRecord(v) == [state |-> "IDLE", artifact |-> NoArtifact, active |-> v]

(* A published artifact that fits the record is whole in Incoming: the     *)
(* record names version and size, the container is signed.                 *)
Acceptable(m) ==
    \E a \in catalogue :
       /\ Holds(incoming, a)
       /\ a.target_version = m.artifact.target_version /\ a.size = m.artifact.size
       /\ a.target_version > m.active
       /\ a.base_version \in {0, m.active}

ClearBestEffort == ckpt' = NoCheckpoint \/ (~stable /\ UNCHANGED ckpt)

BootActive ==
    /\ md.state = "IDLE"
    /\ UNCHANGED <<md, ckpt, version>>

BootInstall ==
    /\ md.state = "ARTIFACT_READY" /\ Acceptable(md)
    /\ version' = md.artifact.target_version
    /\ md' = [md EXCEPT !.state = "TRIAL_BOOT"]
    /\ ckpt' = NoCheckpoint

BootReject ==
    /\ md.state = "ARTIFACT_READY" /\ (~stable \/ ~Acceptable(md))
    /\ md' = SettledRecord(md.active)
    /\ ClearBestEffort
    /\ UNCHANGED version

BootTrialAgain ==
    /\ md.state = "TRIAL_BOOT"
    /\ UNCHANGED <<md, ckpt, version>>

BootRollback ==
    /\ md.state = "TRIAL_BOOT"
    /\ version' = md.active /\ md' = SettledRecord(md.active)
    /\ ClearBestEffort

BootFinalize ==
    /\ md.state = "CONFIRMED"
    /\ md' = SettledRecord(version)
    /\ UNCHANGED <<ckpt, version>>

(* BestEffortMarkFailed, after an error that leaves neither image to start *)
(* from, in the installation or in a rollback: the node never starts an    *)
(* application again.                                                      *)
BootFail ==
    /\ md.state \in {"ARTIFACT_READY", "TRIAL_BOOT"} /\ ~stable
    /\ md' = [md EXCEPT !.state = "FAILED"]
    /\ UNCHANGED <<ckpt, version, boot, session>>

(* A halt without that record ends with the next power cycle.              *)
Bootloader ==
    /\ boot = "boot"
    /\ \/ BootActive /\ StartApplication
       \/ BootInstall /\ StartApplication
       \/ BootReject /\ StartApplication
       \/ BootTrialAgain /\ StartApplication
       \/ BootRollback /\ StartApplication
       \/ BootFinalize /\ StartApplication
       \/ BootFail
    /\ UNCHANGED <<incoming, toNode, toClient, world>>

=============================================================================
