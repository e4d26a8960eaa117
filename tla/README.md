# TLA+ verification of the secure delta OTA bootloader

This directory holds TLA+ models of the update system in this repository, the
TLC runs that check them and TLAPS proofs about them. `PROJECT.json` is the
machine-readable index: which definition models which lines, which run checks
which property, which theorem is proved, and the hazards the properties are for.

## 1. Inventory

| Component | State it keeps | Operations | Interacts with |
|---|---|---|---|
| Boot record (`shared/src/boot_metadata.c`) | update state, active and pending version, sizes, copy offset, attempts, last error | validate, generation arithmetic, slot selection | everything on the node |
| Metadata storage (`bootloader/storage/metadata_storage.c`) | two internal flash pages | Load, Commit | bootloader and application |
| Boot manager, boot decision, trial boot (`bootloader/src`) | RAM copy of the record, loop counter | decide, count attempt, finalise confirmation, start watchdog, jump | calls the next two, starts the application |
| Secure container, delta patcher (`secure_container.c`, `delta_patcher.c`, `patch/`) | Reconstructed partition | authenticate, check policy and base, rebuild, verify, reject | Incoming partition, checkpoint |
| Image installer (`image_installer.c`, backup and progress helpers) | application region, Backup partition and header | back up, install, verify, roll back, mark failed | all partitions |
| OTA receiver (`application/src/ota_receiver.c`) | session in RAM, download checkpoint, Incoming | HELLO, QUERY, START, RESUME, DATA, FINISH, ABORT, INSTALL, CONFIRM | host over UART, boot record |
| Trial confirmation (`trial_confirmation.c`) | — | confirm after the health delay | boot record |
| Download checkpoint and update handoff storage | two external sectors that both kinds share | Load, Commit, Clear | receiver, bootloader |
| OTA agent, parser, COBS, UART driver | 512-byte ring, partial frame, overflow counter | receive in the interrupt, take, resynchronise | receiver |
| Cryptography and checksums (`ecdsa_p256.c`, `sha256.c`, `crc32.c`) | streaming contexts | verify, digest, checksum | bootloader, receiver, gateway |
| External flash driver and partitions (`spi_flash.c`, `external_flash_storage.c`) | the driver's ready flag; the device | read, erase, write with preflight and read-back, self test | everything with a partition |
| Internal flash access, start-up, board set-up | registers | unlock, erase, program; clocks, tick, jump; pins, buses, watchdog | both programs |
| Gateway UART client and plan (`gateway-esp32/components/uart_ota`) | retry counters, plan | HELLO/QUERY, transfer with retries, ABORT of foreign sessions, wait for the outcome | node over UART |
| Gateway manager, MQTT orchestrator | command queue of length one, reassembly buffer, last acknowledgement | receive, deduplicate, process, publish and wait | broker, cache, client |
| Artifact cache, HTTPS download, Wi-Fi station, time | flash cache with header; retry counter | open, write, finish; stream; connect, reconnect | server, access point |
| Release server, tools, scripts | files | build, sign, publish | — |
| Standard peripheral library, CMSIS | registers | see section 2 | drivers |

Two programs share the node and never run at the same time: the bootloader,
which is sequential and can be cut off by a reset at any instruction, and the
application, which is driven by packets, a timer and, during a trial, a
watchdog it never feeds. They communicate only through flash: the boot record,
the download checkpoint and the Incoming partition; and through what a jump
leaves behind in the registers. On the gateway a worker task, the event task of
the MQTT client and the event task of the Wi-Fi driver share a queue, an event
group and a few variables.

What is hard on the node is not concurrency but *cutting*: power loss and flash
errors between any two durable effects, replays that start from whatever is in
flash, failure paths that themselves fail, and sequences of host commands that
reach an unexpected combination of record, session and partitions. On the wire
it is stale, repeated and lost answers; on the gateway the order of
acknowledgements and statuses; in the algorithms the carries, escapes and
paddings that random inputs do not meet. The list, at the lines where it bites,
is under `hazards` in `PROJECT.json`.

What makes each component correct:

* metadata storage: a commit is atomic, whatever happens and when; wrap-around
  of the generation does not resurrect an old record;
* installer and boot manager: the active image always exists completely
  somewhere; only complete images are started; a trial is bounded and ends in
  confirmation or rollback; the backup outlives the trial; power loss alone
  never ends in a halt;
* secure container: nothing that is not genuine, newer and made for the active
  image is ever installed;
* receiver and client: under loss, damage, delay and repetition of packets, and
  cuts of either side, the Incoming partition holds exactly the announced bytes
  when a session becomes ARTIFACT_READY; the gateway continues only its own
  transfer, reports success only for a confirmed version, and gets there;
* gateway: commands are queued whole, what is installed is what was ordered,
  what counts as acknowledged has arrived, every command ends; a cached artifact
  with a header is whole;
* formats and algorithms: both ends agree, with each other and with the
  definition;
* drivers: success means stored, a failure leaves nothing behind for the next
  caller, and the registers say what was asked for.

## 2. Modules

```
MetadataRegister      abstract: an atomic register whose commits may fail, or
                      leave open whether they took effect
  MetadataStorage     the A/B pages; implements MetadataRegister
  ExternalMetadata    checkpoint and handoff in two shared sectors; implements
                      MetadataRegister where only checkpoints are written;
                      with proofs
BackupStorage         the Backup partition, header and image, cell by cell; with
                      proofs
  StorageProofs       proofs about the boot record, and about the bench that
                      runs the three stores

UpdateContract        abstract: what the node promises of an update
BootMetadata          the record and its validity rules
  NodeState           flash, RAM and the common steps (commit, fault, reset)
    SecureContainer   ARTIFACT_READY .. IMAGE_READY, signed and legacy (D13P)
    ImageInstaller    IMAGE_READY .. TRIAL_BOOT, ROLLBACK, FAILED
    NodeApplication   OTA session, INSTALL, trial confirmation
      BootManager     composes them: decision loop, trial boot, environment;
                      implements UpdateContract
        BootManagerProofs

UartLink              packets, the two byte streams as queues of frames, the
                      response time of the node
  OtaReceiver         the node's packet handlers, Incoming, checkpoint, start-up
  UartOtaClient       the gateway's requests, retries, plans and deadlines
    UartTransfer      composes them
      UartTransferProofs

MqttOrchestrator      event handler, outbox, broker, PublishStatusAndWait
  GatewayManager      the worker: command, download, transfer, outcome
    GatewayManagerProofs  the gateway, the station, and their bench
HttpsDownload         the read loop over the artifact cache; with proofs
WifiStation           connect, event handler, retries

UartFraming           COBS; ring buffer, interrupt and parser byte by byte
LittleEndian          fields in byte buffers
  WireFormat          packets as node and gateway write and read them
  ContainerFormat     artifact headers: tool, gateway, node
Janpatch              the patch interpreter and the tool's generator
EcdsaP256             word arithmetic, curve, verification
Digests               CRC-32, SHA-256

FlashDriver           stm32f10x_flash.c over the flash controller
  InternalFlash       its two users in the bootloader
ExternalFlashStorage  spi_flash.c over the W25Q device; partitions, self test,
                      sanitizer build
StdPeriph             clock, pin, USART and SPI drivers on register bits
  PeripheralCalls     the timer driver; sequences of calls of all of them with
                      the device behind them
  NodeStartup         SystemInit, tick, jump, interrupts
  BoardSetup          pins, buses and the trial watchdog in time
ImageVector           the two vector checks on an image's way, with proofs

MCNode, MCUartTransfer, MCGateway               instances of one specification
MCStorage, MCFormats, MCDrivers, MCBoard,
MCGatewayLive                                   benches of several components
```

A *bench* puts components that share no state side by side: a variable that
never changes (`unit`, `place`, `task`) says which one a behaviour is about, the
others stand still. It is a way to ask several questions in one run, not a
composition. The invariants of a bench are conjunctions of named parts, one or
more for each component (`FramesArrive`, `DigestsAreExact`, ...); where this text
names a part, the comment above the conjunction says what it contributes.

Definitions marked *Mutant* are faulty variants of the definition after them.
They are not used by any specification; substituting one must make the property
`PROJECT.json` names fail.

### Records in flash

`MetadataStorage`: `page` is the flash, `call` the commit in progress (its
program counter, target slot and candidate), `status` what the last commit
returned. A page is reduced to "CRC matches", generation and body; every
unreadable content is `Torn`. `Commit`, `ErasePage`, `ProgramSlot` and `Verify`
are the stages of `MetadataStorage_Commit`; `EraseFails`, `ProgramFails` and
`ProgramCorrupts` its error paths, and `PowerLoss` may strike between any two.
An erase and the half-word loop are one step each: since the CRC is the last
word written, every state in between is `Torn`. The refinement `AtomicCommit`
maps the register's value to what `MetadataStorage_Load` would return; the
commit takes effect in the step that completes the target page.

A programming error does not say that the record is not there. The last
half-word may time out and be completed by the controller all the same, or the
half-words that are missing may be 0xFFFF; `ProgramSlot` returns
`PROGRAM_FAILED` without reading back either way (`metadata_storage.c:169-177`,
`stm32f10x_flash.c:1595`). `ProgramFails` is therefore enabled before and after
the page is complete. In `MetadataRegister` it is `Unclear`: the status is
UNKNOWN and the value is the old one or the new one. A commit whose erase fails
or whose read-back differs is `Fail`, one that does not validate `Refuse`, and
there the old record stays. Everything built on the register
(`NotCommitted` in `NodeState`, `ProcessInstall` and `TrialConfirm` in
`OtaReceiver`) has the same three outcomes.

`ExternalMetadata` has two sectors, each with a place for a checkpoint and one
for a handoff. A commit reads the target sector, erases it, writes the record,
writes back the other kind and reads back; every operation may fail and power
may be lost in between. `BackupStorage` has the header, written in two pieces,
and the image behind it, under BeginBackup, ResumeBackup and the restoration.

### The node

Versions stand for images. The application region and the backup are functions
from internal flash pages to the version whose bytes they hold, `Blank` or
`Partial`; Reconstructed is one whole image; Incoming is the header of a
container. Checksums, hashes and signatures are exact. The boot record `md` is
atomic, which `MetadataStorage` justifies; the refusal of records that do not
validate is part of every commit (`Committed`, `NotCommitted`), and so is a
commit that is reported as failed and in force: the routine goes on with its
error path, the next boot, or the next request to the application, meets the new
record.

`pc` is the place in the running program (`reset`, the bootloader's routines,
`app`, or `fatal` for `BootManager_ShowFatalPulses`, which never returns), `w`
the routine's working copy of the record. Each action is the code between two
durable effects or external operations. Every external flash operation and
every commit may fail with the outcome the code gives it. A page caught between
erase and program is `Blank` or `Partial`: the second kind has valid vectors.
`PageDecays` and `ArtifactDecays` let flash lose bits where a later check would
see it; decay after the last check is not modelled, no code looks for it. A
fault is transient: cells that fail for good are not modelled.

`AllowUnsignedLegacy` stands for the build option
`SECURE_CONTAINER_ALLOW_UNSIGNED_LEGACY` (off by default): it is chosen at the
start and never changes. The legacy build also accepts bare images and unsigned
deltas, which take the path of `delta_patcher.c` (`DeltaStep`).

In the application, one transfer is START, some DATA, all DATA (with bytes that
do or do not have the announced CRC) and FINISH. The version announced in START
need not be the one in the signed header. `HostFollowsPlan` says whether the
host behaves like the shipped gateway, which never sends ABORT in a trial, or
sends whatever the receiver accepts. Confirmation comes from the timer or from
the CONFIRM command.

History variables: `faulted` (some I/O failed), `launches` (starts of the
current trial image, capped by `LaunchCap`), `guarded` (the version the backup
was sealed for, until confirmation or the end of the rollback). `stable` is the
environment's promise that faults and power cuts are over.

`UpdateContract` speaks of phases only (settled, requested, replacing, trial,
confirmed, undoing, failed), of the active and the pending version, and of the
chances used. `KeepsContract` maps the node's record, application region and
program counter to it, for every fault and every cut.

### The transfer

`OtaReceiver` is the same application seen from the wire. `session` is
`g_session`; an artifact is its START description, and flash holds byte by byte
the contents (`crc`) each byte belongs to, `Blank`, or `Garbage` after an erase
that was cut off. A handler is one step: `OtaAgent_Process` takes the first
frame from `toNode`, and the handler's state change, flash effects and reply
happen together. Every flash operation may fail, with a partial effect
(`WriteData`: any prefix programmed), and a power cut inside a handler is such a
failure followed by `PowerCut`. The bootloader is reduced to its decisions: how
they come about is the subject of `BootManager`. A halt that a power cycle ends is
here a bootloader that takes no step until then; a halt with the record FAILED
(`BootFail`, `BestEffortMarkFailed`) is final.

`UartOtaClient` is sequential; `cpc` names the routine whose request is
outstanding. `ReadFrame` takes a frame and either skips it (`Matches`) or gives
it to the routine, which issues the next request or returns. Nothing flushes the
client's receive buffer between commands, so answers to retransmissions of one
request are found by the next one: QUERY, START, RESUME, ABORT and INSTALL all
carry sequence 0. `verdict` is what `ProcessCommand` reports.

The line may lose any frame (`Sent`), a full receive buffer loses the newest, and
a frame whose CRC fails may be answered with a NACK (`CrcError`). That a damaged
frame is never mistaken for another one is the ideal CRC of this model and of
`UartFraming`; `BurstNoticed`, a part of `DigestsAreExact`, is what the real one
guarantees.

Timing. Three facts about real time replace clocks. The client drains its buffer
while it waits, so a timeout is a state with nothing to read; when one expires
fewer than `MaxLag` requests are still waiting in the node (`ResponseTimeout`, see
*Bounds*), and once the environment is stable, none. When a 12 s or 120 s deadline passes, the node has dealt
with every request but the polls of that loop (`Poll`). While the gateway
restarts, the node finishes what it was sent (`GatewayRestart`). Without the
second and third fact a stale answer can outlive the installation it belongs to.

### The gateway

`MqttOrchestrator` has the event handler, which runs on the client's task, with
fragmented deliveries, the command queue and the acknowledgement bits, and the
worker's calls. esp-mqtt is external: a message that is enqueued is sent later
by the client's task, a message that is published goes out at once when the link
is up; QoS 1 messages stay in the outbox until their PUBACK and are sent again
after a reconnection; the session is clean. `GatewayManager` is the worker; a
download is one step with the promise `HttpsDownload` checks, a transfer one
step with the outcomes `UartTransfer` leaves open. What the worker learns of the
node is HELLO and no more (`Answers`): the version that is running, and the state
of a session in RAM. After an ABORT, or a start without external flash
(`ota_receiver.c:1172`), a node with an update under way answers IDLE; the history
variable `hidden` remembers that the answer which decided a report was of that
kind. `HttpsDownload` includes the
artifact cache (header invalidated first, written last) and a gateway that may
restart between any two flash operations. `WifiStation` is the worker that waits
for the first connection and the event handler that outlives it. JSON text,
topic names, TLS and progress telemetry are left out.

### Formats and algorithms

Small words stand for the real ones wherever the algorithm does not depend on
the width: COBS blocks of 4 for 255, bytes of 10 or 12 values in patches and
headers, integers of three 2-bit words for eight of 32 bits, a curve of order 37
(every point, all signature values), hash blocks of 4 bytes for the padding.
CRC-32 and the compression function of SHA-256 have their real widths and
tables. The patch interpreter is run on every patch the tool can write for a
base with escapes in it, and on every short stream.

`UartFraming` has the interrupt between any two accesses of the main loop to the
ring, one line fault (a byte overrun or changed), and full rings. The agent
resets the parser when the overflow counter has changed, at a place of the
stream other than the one where bytes were lost, so an intact frame behind a
loss can be dropped too; `UndamagedAccepted`, a part of `FramesArrive`, says what is
guaranteed.

### Drivers and board

A register is the set of its one bits. `FlashDriver` turns each function of
`stm32f10x_flash.c` into its phases (set a mode bit, start, wait, clear), over a
controller that can fail, hang or be locked, takes the two keys in order and
loads the option bytes at reset. `PeripheralCalls` calls the functions of
`StdPeriph` and of the timer driver in any order; of the timers it has TIM1, with break and dead
time but lock level 0, and TIM3, channels being configured while they are off.
`ExternalFlashStorage` has one step
per chip-select frame over a device that finishes when it likes, ignores commands
while busy, and only clears bits. The behaviour of the flash controller, of the
W25Q, of clocks, USART, SPI and watchdog is external and follows the reference
manuals as the drivers use them.

`NodeStartup` is one register write per step, with a crystal that starts, starts
late or never, pending interrupts and resets. `BoardSetup` runs both programs'
set-up on the registers and then counts time in units of 50 ms: a watchdog
oscillator of at most 60 kHz, a set-up of at most ten units and a commit of at
most three.

What the library does besides (no property contradicts it, the firmware does not
depend on it): `FLASH_EraseOptionBytes` clears OPTPG instead of OPTER on its
error path; `USART_Init` loses the carry of a fraction that rounds up;
`USART_ClearFlag` has no effect on ORE; a second lock of pins is ignored; a
watchdog reload may still load the reset limit 0xFFF; `RCC_DeInit` clears the
prescalers in the same write as the clock switch, so PCLK1 may exceed 36 MHz
until the switch has taken place (SysTick is off by then).

Of these drivers the two images call `RCC_DeInit`, `RCC_APB2PeriphClockCmd`,
`GPIO_StructInit`, `GPIO_Init`, `GPIO_SetBits`, `GPIO_ResetBits`, `GPIO_WriteBit`,
`GPIO_ReadOutputDataBit`, `USART_StructInit`, `USART_Init`, `USART_ITConfig`,
`USART_Cmd`, `SPI_StructInit`, `SPI_Init`, `SPI_NSSInternalSoftwareConfig`, `SPI_Cmd`,
the `IWDG` functions, `NVIC_Init`, `SysTick_Config` and, for the flash,
`FLASH_Unlock`, `FLASH_Lock`, `FLASH_ErasePage`, `FLASH_ProgramHalfWord` and
`FLASH_ClearFlag`, and through them a few more (`RCC_GetClocksFreq`, `NVIC_SystemReset`).
The rest of `StdPeriph`, `FlashDriver` and `PeripheralCalls`, and all of the timer
driver, is library code that is linked or vendored and called by no image. It is
modelled because its functions share registers with the ones above; no hazard
rests on it.

## 3. Runs

| Run | Question | Distinct states |
|---|---|---|
| `storage` | Are commits to the boot record, the checkpoint, the handoff and the backup header atomic under power loss and flash errors, across the wrap of the generation, and side by side? | 0.27 M |
| `node_safety` | Is the active image ever lost, an incomplete image started, a trial unbounded, the backup given up, the version lowered, the diagnostic lost, the loop limit reached? Does power loss alone ever halt the node? Does the node, in either build, implement its contract? | 1.8 M |
| `node_liveness` | Is every accepted INSTALL decided, and does an application run again? | 0.41 M |
| `node_any_abort` | Does the backup survive a host that sends ABORT during a trial? | violated |
| `uart_transfer` | Two updates, also under one identifier, over a bad line with power cuts: are there holes in the staged artifact, checkpoints ahead of the data, foreign transfers continued, mixtures accepted, false success reports? | 2.2 M |
| `uart_liveness` | Does a repeated command get its update installed and reported once faults stop? | 0.58 M |
| `uart_storage_lost` | Is a success report real when the external flash fails to initialise during a trial? | violated |
| `gateway` | Are commands queued whole, is what was ordered installed, is what counts as acknowledged there, is every outcome published, and does a success have a node behind it? | 4.1 M |
| `gateway_live` | Does a command end when the link never comes back, a download when the server stalls, does the station stay connected? Is a published artifact whole? | 0.28 M |
| `formats` | Do both ends agree on frames, packets and headers, does the decoder rebuild what the tool diffed, are arithmetic, signature, CRC and digest those of their definitions? | 0.34 M |
| `drivers` | Does success mean stored, does a failure leave the flash controller and the external flash usable, do the registers say what was asked for? | 1.0 M |
| `board` | Can an accepted image be started and restored, is every clock configuration safe, does anything stale reach the application, is a healthy trial in time and a hung one reset? | 0.17 M |

The two violated runs are the findings below; the others pass.

### Bounds

Generations modulo 8 (external sectors: 6) wrap within a few commits, and only
differences of 0, 1 and 2 between the two copies occur, so a larger modulus adds
nothing (the proofs hold for every modulus above 4). The application region has
three pages and one and a half external sectors, so that the last sector is
incomplete; images end inside the second page or fill the region, which makes
the clamped checkpoint, the untouched rest of the region and the whole-region
backup visible. Three versions allow two updates in a row, so that a stale
backup, a stale checkpoint and an old signed image exist. Power losses, faults,
retries and sessions of the node are not bounded: the state space is finite
without it.

Artifacts offered in `node_safety`: full and delta updates, an old image under a
new version number, a delta against another build of its base, a delta that does
not rebuild its target, a forged container, a bare image, and for the legacy
build unsigned deltas. `node_liveness` is the default build.

In the transfer, packets of 2 bytes, sectors of 4 and artifacts of 5 give one
checkpoint in the middle, a sector that is erased on the way, and a short last
packet whose end is not a multiple of the payload. Two transmissions per request
stand for five. The plan loop has its real bound. Losses, cuts, faults and
commands are not counted. `uart_transfer` does not look behind `Settle`
(`CONSTRAINT Unsettled`): `stable` only takes steps away, so every state there
occurs before it too; what happens after it is the question of `uart_liveness`,
which has `MaxLag` = 1 and starts whose storage fails to initialise.

**Response time.** Buffers are not bounded: the receive rings (512 bytes on the
node, `uart.c:8`; 1024 on the gateway, `uart_ota_client.c:13`) have room for some
twenty short frames, and a full one only loses frames, which the line may do
anyway. What limits the frames on the line is time. The client sends a frame per
response timeout of 1.5 s at most, after it has read all there is, and the node
answers in order. `ResponseTimeAssumption` says that no request waits in the node
for more than `MaxLag` response timeouts; `LagInv` (proved for every `MaxLag`)
turns this into a number of frames. The slowest handlers are a DATA that erases a
sector (0.4 s at most for the W25Q) and commits a checkpoint (two more
operations of that kind), and FINISH, which reads 128 KiB over SPI for the CRC:
about one second. `MaxLag` = 1 would be justified with a device that keeps to its
data sheet; the run has 2. Outside the assumption is a device that stays busy until
the driver's own limit of 30 million polls (`spi_flash.c:26`), which is many times
the timeout.

The staging properties do not depend on `MaxLag` and are proved for every value.
`OkIsReal` and `ContinuesItsOwn` do. They hold with 2 (the run) and with 3 (8.9
million states, checked once, too long for a run that is repeated often), and
both are violated with 4:

* `ContinuesItsOwn`: START and the first DATA both carry sequence number 0, a
  repeated command has the same identifier, and nothing drains the client's
  buffer between commands. Acknowledgements of an earlier command that are late
  enough are taken for answers to the new one. The client goes on, the node
  refuses the next packet, the command fails; nothing is corrupted.
* `OkIsReal`: three HELLO answers from before INSTALL survive the final deadline. A
  command for another artifact reads one, sees a foreign ARTIFACT_READY and sends
  ABORT, which the receiver accepts during the trial (the first finding below);
  the session is then IDLE and the next answer reads like a confirmation.

Both need a node that leaves several requests unanswered for 1.5 s each and then
answers all of them. So what protects the code is that the node's main loop
answers in time, not the size of a buffer or a check in the protocol; a sequence
number that is not reused, or a flush of the client's buffer before a command,
would make it independent of that.

On the gateway the link is lost once and two messages are delivered while the
worker runs (`MAX_LOSSES`, `MAX_MESSAGES`); the outbox holds two messages, so that
it is full at times. The cache has a data area of two sectors and files of every
relation to it. The station has its real ten retries.

`drivers`: three calls in a row of the flash driver with one failure, three of
its users with two failures and a power loss, two of each peripheral driver;
the external flash takes any number of calls. `board`: the real memory map with
words around every bound, two resets during start-up, real reload and delay.

### Fairness

`BootManager`: the bootloader's steps (straight-line code with bounded loops),
`WatchdogReset` (the IWDG cannot be stopped and the application never feeds it),
`PowerCycle` (a halted node is eventually restarted by its operator; the code
offers no other way out), `Stabilise` (faults are transient and power comes
back). Nothing is assumed of the host or of the application's confirmation.

`UartTransfer`: both programs' loops run, the health timer of a trial fires, the
watchdog ends a trial that has recorded its confirmation without resetting
(`TrialWatchdog`: the bootloader started it and nothing feeds it), the client's
timers expire (the final deadline strongly: it is only looked at
between two polls), and the operator repeats the command.

`gateway_live`: each task runs: the worker, and for the station the event task.
Nothing is assumed of broker, server or access point; the waits of the worker
have timeouts in the code.

`board`: processor and clock hardware run, the tick counts, an enabled interrupt
that is pending is taken (SysTick strongly: it can be masked in between), time
passes, and the watchdog resets when it has run out.

Deadlock is checked in `storage`, `board` and the runs of node and transfer.
`gateway`, `gateway_live`, `formats` and `drivers` bound calls, messages or
inputs and may stop when they are used up.

### What the properties say

The comment above each property states it. Some deserve a remark:

* `NoImageLoss`, `RunsCompleteImage`, `BackupRetained` and `KeepsContract` (bounded
  trials, no lowered version) hold with any number of transient faults;
  `PowerLossIsHarmless` says that without I/O errors the node never halts and
  never records FAILED, wherever power is cut.
* A transient read error of the external flash while the backup is validated
  does record FAILED, from which the bootloader never returns, although the
  backup is intact (`NoImageLoss` says so). This is what the code intends with
  `BestEffortMarkFailed`; `BootsAgain` excepts FAILED.
* When the first read of the container's magic fails and the second succeeds,
  the boot manager halts although the container was accepted; the next power
  cycle continues with IMAGE_READY.
* After a reset during an erase the external device is still busy, and
  `SpiFlash_Init` reads the JEDEC identifier before it waits; an initialisation
  that fails is a fault like any other in the models of the node.
* `AtomicCommit` and `KeepsContract` include commits that are reported as failed
  and in force. For the node that is benign: the error path either halts or
  reverts to the active image before anything was replaced, and the next boot
  continues with the new record, as after a power cut behind the commit.
* `OkIsReal` makes an exception (`unclear`): from an INSTALL that was refused although
  its record is in force until a command begins on a settled record with no frame
  under way. In between the node goes on receiving under the old session, restarts
  into the trial when it pleases, and its HELLO shows neither; an answer of that
  time, read by the next command, misleads that one too.
* `ReadyMeansWhole` is about session and checkpoint. For the same reason a boot
  record ARTIFACT_READY may outlive the artifact it names; the bootloader checks
  the container's signature and size before it uses it.
* `TransferCompletes` has two exceptions, and they are the code's. FAILED in the boot
  record is final. And an application that started without external flash does
  not try again: `OtaReceiver_Init` is called once (`ota_receiver.c:1159`), every
  START is refused with a storage error, and nothing resets a confirmed
  application. Only a power cycle helps. Both need a fault before faults stop.
* `TransferCompletes` covers sessions that cannot be resumed (a transfer that
  stopped after its short last packet), FAILED sessions whose checkpoint comes
  back with a reset, foreign sessions, and rejected artifacts whose checkpoint
  could not be cleared. It needs identifiers that are used once: with two
  artifacts of one identifier and size a DATA packet over bytes of the other
  one is refused with NEEDS_ERASE, and the client may repeat this for ever.
* Of `BothKindsKept`, the atomicity of a kind's own commits holds with every
  failure, as does `AtomicCheckpoint`; that a commit of one kind leaves the other
  alone, only as long as none occurs (see below).
* `ReportsAreTrue` contains that what `PublishStatusAndWait` takes for acknowledged
  has arrived, although it only compares message identifiers; and
  `OkIsWitnessed`: success means that the node runs the version ordered, confirmed,
  and goes on running it, with the one exception that `uart_storage_lost` shows, a
  node that ran this version and answered IDLE while an update was under way. No
  gateway can tell it from a confirmed one. That nothing else can make a false
  report (a stale answer, a rollback behind the report, a status of another
  command) is what the property adds.

### Findings

`node_any_abort`: `OtaReceiver_ProcessPacket` accepts ABORT in every state
(`ota_receiver.c:1237`), and the session is IDLE afterwards even though the boot
record says TRIAL_BOOT. A new transfer and INSTALL then replace the record by
ARTIFACT_READY, and the bootloader's `BeginBackup` erases the header of the only
backup of the last confirmed image. `docs/architecture.md:152` says "Backup is
retained until the trial application is confirmed."; `docs/boot-state-machine.md:299`
and `docs/uart-ota-protocol.md:264` agree. The shipped gateway does not produce
the sequence (`uart_ota_plan.c` waits during a trial), which is why `node_safety`
passes under `HostFollowsPlan = TRUE`.

`uart_storage_lost`: `OtaReceiver_Init` (`ota_receiver.c:1172`) mirrors a trial
into the session only if the external flash initialised. If it did not, QUERY
answers IDLE with the version on trial, which `WaitForFinal` takes for a
confirmation; the bootloader may still roll back, after the gateway has
published `confirmed`.
`gateway-esp32/README.md:168`: "waits for the target to become confirmed or for a
failure/rollback outcome".

Smaller divergences between text and code, which the models contain and no run
is devoted to:

* `uart_ota_plan.c:46` selects WAIT_TARGET for any trial; the README of the
  component (line 35) says "same `update_id`". A command for another update is
  then reported as rejected although nothing was sent.
* `uart_ota_plan.c:28`: RESUME carries the identifier only, and the plan compares
  identifier and size; `docs/uart-ota-protocol.md:246` says "matching `update_id`
  and expected artifact identity". `ContinuesItsOwn` is therefore stated for
  identifiers that are used once, and `ReadyMeansWhole` shows that a mixture goes
  no further than FINISH.
* `download_checkpoint_storage.c:139` says "Preserve any valid handoff record in
  the target sector across the erase". The copy is in RAM only: a reset or an
  error between the erase and the write-back loses the newest record of the
  other kind. Only the legacy build writes handoffs.
* `gateway_manager.c:145` calls the final status durable. Intermediate statuses
  are enqueued and the final one is published at once on the same retained topic
  (`mqtt_orchestrator.c:523`), so that an older status can be sent after it and
  stay.
* `mqtt_orchestrator.c:672` says its two checks cover the race with an immediate
  PUBACK. The acknowledgement of another message right behind it overwrites
  `last_published_message_id` (line 693), and the wait runs into its timeout.

## 4. Proofs

Eight modules hold theorems. Each theorem is about the specification that TLC
runs, for every value of the constants that the named assumptions allow; TLC
evaluates those assumptions in the runs. All proofs have the same shape: an
inductive invariant, found and first checked with TLC; one step per action, and
under it one per part that the action can disturb; the properties as
consequences.

### Boot record: `StorageProofs`

For every set of records, every default and every generation width
(`BodiesAssumption`, `GenAssumption`: `GenHalf > 2`):

* `InductiveInvariant`: `IndInv == TypeOK /\ CommitInProgress`. `CommitInProgress`
  is the strengthening that is needed: while a commit runs, its target is the
  slot that is not newest, the other page is untouched, and the candidate is one
  generation ahead of it. It rests on lemmas about the generation arithmetic
  (`NextGenerationIsNewer` is where wrap-around is settled) and slot selection
  (`EraseKeepsNewest`, `ProgramSelectsCandidate`).
* `NewestSurvives`: no step changes the page that Load selects.
* `ImplementsRegister`: every behaviour is one of `MetadataRegister`; each action
  maps to an action of the register or to a stutter, `ProgramFails` to `Unclear`,
  with the record in force or not.
* `RecordIsARegister`: the same three results for the bench that TLC runs
  (`BenchRunsRecord`).

With `GenHalf = 2` the candidate may be exactly half the range away from a stale
page and the selection rule is ambiguous; the proof fails there, as it should.

### Checkpoint and handoff: `ExternalMetadata`

For all bodies of both kinds, one kind in use or both, every generation width
(`ExternalAssumption`: `GenHalf > 2`) and every fault:

* `BothKindsAreKept`: `BothKindsKept`, that is, the two action properties
  `OwnKindAtomic` and `OkIsLoaded` with every fault and `Coexist` without.
* `CheckpointsAreAtomic`: `AtomicCheckpoint`, the second refinement of
  `MetadataRegister`. `WriteRecord` is its `Apply`, `Verify` its `Succeed`; every error is
  its `PowerLoss`, because the caller cannot tell whether the record is in force.

The invariant `SectorsInv` says of each kind that its two records follow each other
(`PairsOK`); of the kind that is written, that the record in the other sector is the
one Load returns until the candidate, its successor, is in place (`OwnOK`); of the
other kind, that what was saved in RAM fits what stays (`PartnerOK`); and, as long
as nothing has failed, that Load will return what is promised of the other kind
once the saved record is back (`Promises`). `PartnerOK` is what makes the proof go
through with faults: a commit of the other kind, or an erase that took one record
and left its neighbour, must not leave two valid records whose generations cannot
be compared. `LoadChanges` is the central lemma: Load changes in `WriteRecord` only.

### The backup: `BackupStorage`

`BackupHoldsOriginal`, for every size of the region and of the sectors
(`BackupAssumption`), all images, every failure of the external flash and power
cuts at every step: `BackupIsOriginal`. `BackupInv` adds which state of the record
goes with which place in the bootloader (`PlacesAgree`); that the image is copied
while no header vouches for it and sealed after it was compared
(`CopyInProgress`); and that a restoration has done what its checkpoints claim
(`RestoreInProgress`), without which `FinalizeRollback` might find a mismatch and give
up although nothing failed. The lemmas `HeaderApart` and `Effects` are the geometry:
no erase of the image reaches the header's sector, nor the converse. `CutShort` says
what an interrupted operation may leave behind.

`MCStorage`, the bench that TLC runs, has the constants of both as its own, and
`StorageProofs` carries the three theorems over: a behaviour of the bench is, seen
from either component, one of its specification (`BenchRunsSectors`,
`BenchRunsBackup`), hence `SectorsKeepBothKinds`, `SectorsAreARegister` and
`BackupStaysOriginal`.

### Vectors: `ImageVector`

`VectorsAgreeHolds`, for every memory map in which the boot record begins where
the application region ends and the region is aligned for vectors
(`MemoryMapAssumption`), and for all words and sizes: what
`FullImage_ValidateVector` accepts of a candidate, `ApplicationJump_Validate`
accepts of the region, and what the latter started, the former accepts of the
restored backup, although it is told the size of the region. The invariant
`VectorInv` adds what is known of an image at each place of its way; the lemmas
`AcceptedIsBootable` and `BootableIsAccepted` are the comparison of the two pieces
of C code.

### The node: `BootManagerProofs`

For every set of versions and offers, every size of images, pages and sectors
(`SizesAssumption`, `VersionsAssumption`, `OffersAssumption`), both builds, any
number of faults, power cuts and decayed pages, and hosts that follow the plan
of `uart_ota_plan.c` (`HostFollowsPlan`; without it `BackupRetained` is false, see
`node_any_abort`):

| Theorem | Property |
|---|---|
| `TypesHold` | `TypeOK` |
| `NoImageIsLost` | `NoImageLoss` |
| `OnlyCompleteImagesRun` | `RunsCompleteImage` |
| `BackupIsRetained` | `BackupRetained` |
| `LoopLimitSuffices` | `PassesSuffice` |
| `DiagnosticIsKept` | `DiagnosticSurvives` |
| `ImplementsContract` | `KeepsContract` |
| `PowerLossDoesNoHarm` | `PowerLossIsHarmless` |

The invariant `NodeInv` (theorem `NodeInvariant`) is `TypeOK` and nine parts. None of
the safety properties is inductive alone: that the application region may be
erased at `copy`, say, depends on the record being INSTALLING at that label, on
the backup having been sealed for the active version before that record was
committed, and on nothing but the confirmation or the end of the rollback giving
it up. Hence

* `StatesAt`: which states the record may have at which label, that is, what each
  routine may take for granted when it is called;
* `WorkingCopy`: the RAM copy is the record, except behind a commit that was
  reported as failed, where the record may be the old or the new one;
* `PassBound`: how many turns of the loop a boot can have made, by the rank of
  the record's state;
* `NoImageLoss`, `Backups`: where the active image is complete, and how far a
  backup or a copy has come below `copy_offset`;
* `Candidates`: what is installed is a whole image of the pending version;
* `Newer`: checkpoint, session and pending version are ahead of the active one;
* `Transfers`: session, checkpoint, handoff and Incoming describe one artifact;
* `Starts`: an attempt is counted before the image is started.

The proof goes component by component, first the types (`BootTypes`,
`SecureTypes`, ...), then the nine parts together with what the component does to
the record (`BootKeeps`, ...). From the moves of the record follow
`DiagnosticSurvives`, an action property, and the refinement of `UpdateContract`.
One step of the refinement is not that of the record: when the commit of
INSTALLING is reported as failed and is in force, `RevertToActiveImage` runs with
a record that says the region is being replaced, and it is not. `UpdatePhase`
therefore counts the update as requested while that routine is at work
(`InForce`), and `RevertSteps` shows that it is entered before anything is
replaced and only ends the update. If power is cut there, the boot that follows
does replace the region, which is a step of the contract as well.
`BareOffersAssumption` (of the legacy build only) says that a bare image, which
does not name its version, is announced under the version it has and with its
own length.

`PowerLossDoesNoHarm` needs more, because it is about what does *not* fail.
`PowerInv` is inductive relative to `NodeInv`: `Kinds` (the container routines only
meet containers, the patcher only unsigned deltas, also after a reset), `Sizes`
(the record's size is the candidate's while it is installed) and `Unfaulted`
(while no operation has failed, no label leads to a halt, and the pages below the
checkpoint of a rollback equal the backup). The first group of its lemmas shows
that every record the routines commit passes `BootMetadata_Validate`, including
the page-aligned and clamped checkpoints (`NextPage`, `ValidCheckpoint`,
`ValidRestoredTo`); otherwise a commit would be refused without any fault.

### The transfer: `UartTransferProofs`

For every catalogue of artifacts, also with shared identifiers, every geometry
(`GeometryAssumption`), response time (`ResponseTimeAssumption`) and number of
retries, and with storage that may fail to initialise:

| Theorem | Property |
|---|---|
| `TransferTypes` | `TypeOK` |
| `NoHoles` | `StagedWithoutHoles` |
| `ReadyIsWhole` | `ReadyMeansWhole` |
| `CheckpointIsBehind` | `CheckpointBehind` |

The invariant is `Inv == LinkInv /\ LagInv /\ ClientInv /\ NodeInv`
(`TransferInvariant`). `LagInv`: both queues together hold at most `MaxLag` frames, one less
while the client has no request outstanding. A timeout needs an empty queue to the
client and adds one frame, an answer that is read makes room for the next request
(`OneMore`), and the node replaces a request by its answer.
`SessionOK` and `CheckpointOK` relate the session, the checkpoint and the bytes in
Incoming. The strengthening that matters is the bitmap of erased sectors: every
byte below the session's offset lies in a sector the bitmap knows, so that the
erase on demand of `WriteData` never hits staged bytes. A DATA packet is not
empty and a checkpoint that says ARTIFACT_READY is complete
(`DownloadCheckpoint_Validate`); together they exclude writing under such a
checkpoint. Of what arrives on the line nothing is assumed but that it is a
request of the protocol about an artifact of the catalogue: not its order, nor
that the client means it.

### The gateway: `GatewayManagerProofs`

For all messages, files and versions and every size of fragments, buffer and
outbox (`OrchestratorAssumption`):

| Theorem | Property |
|---|---|
| `OrderIsInstalled` | `InstallsWhatWasOrdered` |
| `ReportsHold` | `ReportsAreTrue` |
| `DeliveriesAreQueued` | `DeliveredIsQueued` |

The invariant (`GatewayInvariant`) has three interesting parts. `MqttInv`: the
buffer holds exactly what has arrived of the message in delivery (`FragmentOK`),
identifiers in the outbox are distinct and below the next one, and an
acknowledgement is under way only for a final status the broker has
(`OutboxOK`). `OrderInv` follows the command through cache and artifact.
`ReportInv` has `WaitOK`, which says of the identifier the worker waits for that its
acknowledgement can only mean this status, also across a reconnection, and
`Grounded`: an answer IDLE with version v that decides means a node that runs v,
confirmed, or `hidden = v`, from the answer to the end of the command. A node that
is confirmed does not move; one that settles had an update under way, and then
only the second half can have been true (`NodeSettlesKeeps`).

### Cache and station: `HttpsDownload`, `GatewayManagerProofs`

`DownloadIsSound`, for all bodies and requests, every size of sectors, data area,
read buffer and download limit (`CacheAssumption`, `DownloadAssumption`), every
failure of flash and transport, and a reset at every step: `CacheIsSound`, that is,
a header matches the bytes behind it, an accepted artifact is one body as the
server gave it for the identifier and version of the header, and OK means that
the file asked for is published. The invariant `DownloadInv` follows the bytes:

* `WriterIsMine`: the writer was opened for this request and the length announced;
* `StreamIsPrefix`: it has taken the first bytes of the body, in order and no others;
* `HeaderIsErased`: from Begin to the header's write there is no header, so that a
  reset leaves none over changed data;
* `StoredIsStreamed`: the header is written only after the stored bytes were read
  back and compared;
* `HeaderIsTrue`: a header that can be read describes the cells behind it and a body
  that was served, also after later downloads that failed.

`StationIsSound`, for every number of retries: `ESP_OK` means an address and no modem
sleep, and reconnecting stops only after more than `WIFI_MAX_RETRIES` disconnections
in a row. `StationInv` adds that the retry counter never exceeds the run of
disconnections. `DoneIsDone` puts the two together for the bench that TLC runs
(`BenchRunsCache`, `BenchRunsStation`): `OkMeansDone`.

### What is only model-checked

* Liveness (`UpdateSettles`, `BootsAgain`, `TransferCompletes`, `GatewayRecovers`,
  `BoardComesUp`): fairness and ENABLED are out of the prover's reach.
* `OkIsReal` and `ContinuesItsOwn`: false for a response time of four timeouts (see
  *Bounds*), so there is no theorem for every `MaxLag`. For two and three TLC is
  exhaustive over the other bounds.
* The algorithms of `formats`: what a recursive definition computes for every
  input needs induction over data.
* Clock start-up, jump, set-up and watchdog (`StartupIsSafe`, `SetupIsSafe`): most of
  their constants are those of the hardware, for which TLC's run is exhaustive;
  a register's fields are numbers read by a recursive operator.
* The drivers (`FlashDriver`, `InternalFlash`, `ExternalFlashStorage`, `PeripheralCalls`):
  model-checked over short sequences of calls.

## 5. Plan

1. *(done)* boot record, metadata storage, node, transfer, first theorems.
2. *(done)* external records and backup, gateway, formats and algorithms,
   drivers and board, the contract of an update.
3. *(done)* proofs about the node, including the refinement of its contract and
   the harmlessness of power loss; about the receiver's side of the transfer; about
   the gateway.
4. *(done)* proofs about the external sectors (a second refinement of
   `MetadataRegister`) and the backup header.
5. *(done)* proofs about the cache and the station of the gateway, and about the
   benches that are run.
6. *(done)* commits that are reported as failed and in force, in the store, the
   node and the transfer; the response time of the node as an assumption of its
   own; the final halt of the bootloader and a start without external flash in the
   transfer; HELLO as the only thing the gateway knows of the node.
7. Open: a theorem about `OkIsReal` and `ContinuesItsOwn` for `MaxLag` < 4; proofs about
   the drivers, `ExternalFlashStorage` first.

## 6. Not modelled

* The fault-injection builds (`HIL_*`) other than the sanitizer, LED signalling,
  logging, progress telemetry, JSON text and topic names.
* The release server, key handling, scripts and host tools, except where the
  node must agree with what they write (`secure_container.py`,
  `delta_artifact.py`, `jojodiff_patch.py`): offline programs without state
  shared with the node.
* Failures of the ESP-IDF UART and partition drivers beyond an error return; a
  subscription that fails after a reconnection is only logged by
  `mqtt_orchestrator.c:290`, and the gateway hears nothing until the link is lost
  again.
* Most parts of the standard peripheral library that the firmware does not call
  (CAN, I2C, ADC, DMA, ...), the CMSIS headers (register declarations)
  and start-up assembly.
* The gateway directories that contain a README only (`device_manager`,
  `https_downloader`, `manifest_parser`, `mqtt_service`, `storage`, `telemetry`,
  `update_scheduler`).
