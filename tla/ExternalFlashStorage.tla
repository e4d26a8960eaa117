------------------------ MODULE ExternalFlashStorage ------------------------
(***************************************************************************)
(* The external NOR flash.  First its driver (common/drivers/spi_flash.c)  *)
(* and the W25Q device behind it: a step is one chip-select frame; between *)
(* two frames the device may finish what it is busy with.  A byte is the   *)
(* set of its one bits: programming clears bits, erasing sets them.        *)
(*                                                                         *)
(* Then the partitions (common/storage/external_flash_storage.c) over the  *)
(* driver, with clients that call any of its operations with any           *)
(* arguments; and the two special builds of the application that run on    *)
(* the bare external flash: the self test                                  *)
(* (application/src/flash_selftest.c, FLASH_SELFTEST_HW_MODE of main.c)    *)
(* and the sanitizer of the hardware tests (HIL_SANITIZE_EXTERNAL of       *)
(* main.c).                                                                *)
(***************************************************************************)
EXTENDS Integers, Sequences, FiniteSets

CONSTANTS
    EXT_FLASH_SIZE, EXT_FLASH_SECTOR_SIZE, EXT_FLASH_PAGE_SIZE,
    PREFLIGHT_BUFFER_SIZE,
    Bits,               \* of a byte
    SupportedIds,       \* JEDEC ids of the W25Q32 and the W25Q64
    OtherIds,           \* what else may be read from the bus
    DeviceId            \* of the device that is fitted

SpiFlashAssumption ==
    /\ EXT_FLASH_PAGE_SIZE \in Nat \ {0} /\ PREFLIGHT_BUFFER_SIZE \in Nat \ {0}
    /\ EXT_FLASH_SECTOR_SIZE % EXT_FLASH_PAGE_SIZE = 0
    /\ EXT_FLASH_SIZE % EXT_FLASH_SECTOR_SIZE = 0
    /\ DeviceId \in SupportedIds \cup OtherIds

VARIABLES
    mem,        \* the cells
    worn,       \* cells that no erase sets (low) or no program clears (high)
    device,     \* what the device does: busy with an operation, write enable latch
    driver,     \* g_initialized, g_jedec_id, g_last_status
    call,       \* the driver call in progress or last finished
    settled     \* no call timed out since the device was initialized

Address == 0..(EXT_FLASH_SIZE - 1)
Byte == SUBSET Bits
ERASED == Bits

IdleDevice == [busy |-> "no", wel |-> FALSE, cells |-> <<>>, allowed |-> {}]
NoCall == [op |-> "none", pc |-> "done", address |-> 0, data |-> <<>>, length |-> 0,
           offset |-> 0, ok |-> FALSE, touched |-> FALSE, allowed |-> {}]
ResetDriver == [initialized |-> FALSE, jedec_id |-> "none", last_status |-> "NOT_INITIALIZED"]

Cells(address, length) == {address + i : i \in 0..(length - 1)}
SectorOf(a) == Cells(a - (a % EXT_FLASH_SECTOR_SIZE), EXT_FLASH_SECTOR_SIZE)

-----------------------------------------------------------------------------
(* ext_flash_layout.c                                                      *)

ExtFlash_IsRangeValid(region_size, offset, length) ==
    offset <= region_size /\ length <= region_size - offset

ExtFlash_IsAbsoluteRangeValid(address, length) ==
    ExtFlash_IsRangeValid(EXT_FLASH_SIZE, address, length)

ExtFlash_IsSectorAligned(address) == address % EXT_FLASH_SECTOR_SIZE = 0

ExtFlash_PageChunkLength(address, remaining) ==
    LET page_remaining == EXT_FLASH_PAGE_SIZE - (address % EXT_FLASH_PAGE_SIZE)
    IN  IF remaining < page_remaining THEN remaining ELSE page_remaining

-----------------------------------------------------------------------------
(* The device.  While it is busy it answers the status command only, what  *)
(* is read of it meanwhile is anything; the latch falls when it finishes.  *)

Busy == device.busy # "no"

Healthy == [low |-> {}, high |-> {}]

(* Page program wraps round in its page.                                   *)
Programmed(address, data) ==
    LET page == address - (address % EXT_FLASH_PAGE_SIZE)
        At(i) == page + ((address + i - 1) % EXT_FLASH_PAGE_SIZE)
        To(a) == {i \in DOMAIN data : At(i) = a}
    IN  [a \in {At(i) : i \in DOMAIN data} |->
           IF a \in worn.high THEN mem[a]
           ELSE mem[a] \cap data[CHOOSE i \in To(a) : \A j \in To(a) : j <= i]]

SectorErased(address) ==
    [a \in SectorOf(address) |-> IF a \in worn.low THEN {} ELSE ERASED]

Started(kind, cells) ==
    IF Busy \/ ~device.wel THEN device
    ELSE [device EXCEPT !.busy = kind, !.cells = cells, !.allowed = call.allowed]

DeviceFinishes ==
    /\ Busy
    /\ mem' = [a \in Address |-> IF a \in DOMAIN device.cells THEN device.cells[a] ELSE mem[a]]
    /\ device' = IdleDevice /\ call' = [call EXCEPT !.touched = @ \/ mem' # mem]
    /\ UNCHANGED <<worn, driver, settled>>

-----------------------------------------------------------------------------
(* Calls.                                                                  *)

(* A call that failed keeps its name and address only.                     *)
Failed(c) == [NoCall EXCEPT !.op = c.op, !.address = c.address, !.touched = c.touched]

Finish(ok, status) ==
    /\ call' = (IF ok THEN [call EXCEPT !.pc = "done", !.ok = TRUE, !.offset = 0, !.allowed = {}]
                ELSE Failed(call))
    /\ driver' = [driver EXCEPT !.last_status = status]

(* A Transfer of the frame ran into its timeout: the call fails, and a     *)
(* part of the frame may have reached the device.                          *)
TransferTimeout ==
    /\ Finish(FALSE, "TRANSFER_TIMEOUT") /\ settled' = FALSE

(* The checks every call starts with, in their order.                      *)
Refusal(op, address, length) ==
    IF ~driver.initialized THEN "NOT_INITIALIZED"
    ELSE IF op = "EraseSector" /\ ~ExtFlash_IsSectorAligned(address) THEN "ALIGNMENT_ERROR"
    ELSE IF ~ExtFlash_IsAbsoluteRangeValid(address, length) THEN "RANGE_ERROR"
    ELSE "OK"

FirstStep(op) ==
    CASE op = "Write" -> "preflight" [] op = "EraseSector" -> "enable" [] OTHER -> "read"

(* SpiFlash_Read, _Verify, _Write, _EraseSector and _IsErased, as a client *)
(* that may touch the cells of allowed calls them.                         *)
StartCall(op, address, data, length, allowed) ==
    LET refusal == Refusal(op, address, length)
        over == refusal # "OK" \/ length = 0
        new == [NoCall EXCEPT !.op = op, !.address = address]
    IN  /\ call' = (IF over THEN [new EXCEPT !.ok = refusal = "OK"]
                    ELSE [new EXCEPT !.pc = FirstStep(op), !.data = data, !.length = length,
                                     !.allowed = allowed])
        /\ driver' = [driver EXCEPT !.last_status = IF over THEN refusal ELSE @]
        /\ UNCHANGED <<mem, worn, device, settled>>

(* SpiFlash_Init sets up pins and SPI1 and reads the JEDEC id.             *)
SpiFlash_Init(allowed) ==
    /\ driver' = ResetDriver
    /\ call' = [NoCall EXCEPT !.op = "Init", !.pc = "jedec", !.allowed = allowed]
    /\ UNCHANGED <<mem, worn, device, settled>>

SpiFlash_IsSupportedJedecId(id) == id \in SupportedIds

ReadJedecIdRaw ==
    /\ call.pc = "jedec"
    /\ \/ TransferTimeout
       \/ \E id \in IF Busy THEN SupportedIds \cup OtherIds ELSE {DeviceId} :
            /\ driver' = [driver EXCEPT !.jedec_id = id,
                            !.last_status = IF SpiFlash_IsSupportedJedecId(id)
                                              THEN @ ELSE "UNSUPPORTED_DEVICE"]
            /\ call' = (IF SpiFlash_IsSupportedJedecId(id)
                          THEN [call EXCEPT !.pc = "wait"] ELSE Failed(call))
            /\ UNCHANGED settled
    /\ UNCHANGED <<mem, worn, device>>

(* What the data phase of a read frame brings.                             *)
ReadData(address, length) ==
    IF Busy THEN [1..length -> Byte] ELSE {[i \in 1..length |-> mem[address + i - 1]]}

IsLastBuffer(chunk) == call.offset + chunk = call.length

(* PreflightProgrammable, one buffer of it: a bit that is zero must not be *)
(* wanted one.                                                             *)
PreflightProgrammable ==
    /\ call.pc = "preflight"
    /\ LET left == call.length - call.offset
           chunk == IF left > PREFLIGHT_BUFFER_SIZE THEN PREFLIGHT_BUFFER_SIZE ELSE left
           last == IsLastBuffer(chunk)
       IN  \/ TransferTimeout
           \/ \E existing \in ReadData(call.address + call.offset, chunk) :
                /\ IF \E i \in 1..chunk : ~ (call.data[call.offset + i] \subseteq existing[i])
                     THEN Finish(FALSE, "NEEDS_ERASE")
                     ELSE /\ call' = [call EXCEPT !.pc = IF last THEN "enable" ELSE "preflight",
                                                  !.offset = IF last THEN 0 ELSE @ + chunk]
                          /\ driver' = [driver EXCEPT !.last_status = "OK"]
                /\ UNCHANGED settled
    /\ UNCHANGED <<mem, worn, device>>

(* WriteEnable: the command ...                                            *)
WriteEnable ==
    /\ call.pc = "enable"
    /\ \/ TransferTimeout /\ UNCHANGED device
       \/ /\ device' = (IF Busy THEN device ELSE [device EXCEPT !.wel = TRUE])
          /\ \/ TransferTimeout
             \/ call' = [call EXCEPT !.pc = "latch"] /\ UNCHANGED <<driver, settled>>
    /\ UNCHANGED <<mem, worn>>

(* ... and the look at the latch.                                          *)
ReadLatch ==
    /\ call.pc = "latch"
    /\ \/ TransferTimeout
       \/ /\ IF device.wel THEN call' = [call EXCEPT !.pc = "command"] /\ UNCHANGED driver
             ELSE Finish(FALSE, "WRITE_ENABLE_FAILED")
          /\ UNCHANGED settled
    /\ UNCHANGED <<mem, worn, device>>

Chunk == ExtFlash_PageChunkLength(call.address + call.offset, call.length - call.offset)

(* ProgramPageChunk: at a timeout the bytes that were sent are programmed. *)
ProgramPageChunk ==
    /\ call.pc = "command" /\ call.op = "Write"
    /\ LET Send(n) == Programmed(call.address + call.offset,
                                 SubSeq(call.data, call.offset + 1, call.offset + n))
       IN  \/ TransferTimeout /\ UNCHANGED device
           \/ \E n \in 1..Chunk : device' = Started("program", Send(n)) /\ TransferTimeout
           \/ /\ device' = Started("program", Send(Chunk))
              /\ call' = [call EXCEPT !.pc = "wait"]
              /\ UNCHANGED <<driver, settled>>
    /\ UNCHANGED <<mem, worn>>

EraseSectorCommand ==
    /\ call.pc = "command" /\ call.op = "EraseSector"
    /\ \/ TransferTimeout /\ UNCHANGED device
       \/ /\ device' = Started("erase", SectorErased(call.address))
          /\ \/ TransferTimeout
             \/ call' = [call EXCEPT !.pc = "wait"] /\ UNCHANGED <<driver, settled>>
    /\ UNCHANGED <<mem, worn>>

StatusReady == ~Busy

(* WaitReady, one look: ready, or not and looked again, or given up.       *)
WaitReady ==
    /\ call.pc = "wait"
    /\ \/ TransferTimeout
       \/ Busy /\ Finish(FALSE, "BUSY_TIMEOUT") /\ settled' = FALSE
       \/ /\ StatusReady
          /\ CASE call.op = "Write" ->
                    call' = [call EXCEPT !.pc = "verify"] /\ UNCHANGED <<driver, settled>>
               [] call.op = "EraseSector" -> Finish(TRUE, "OK") /\ UNCHANGED settled
               [] call.op = "Init" ->
                    /\ call' = [call EXCEPT !.pc = "done", !.ok = TRUE]
                    /\ driver' = [driver EXCEPT !.initialized = TRUE, !.last_status = "OK"]
                    /\ settled' = TRUE
    /\ UNCHANGED <<mem, worn, device>>

(* Mutant: what was programmed is not compared.                            *)
TakenAsStored(value) == TRUE

SpiFlash_Verify(value) == value = SubSeq(call.data, call.offset + 1, call.offset + Len(value))

(* The read-back of a page, and on to the next page.                       *)
VerifyPageChunk ==
    /\ call.pc = "verify"
    /\ \/ TransferTimeout
       \/ \E value \in ReadData(call.address + call.offset, Chunk) :
            /\ IF ~SpiFlash_Verify(value) THEN Finish(FALSE, "VERIFY_FAILED")
               ELSE IF call.offset + Chunk = call.length THEN Finish(TRUE, "OK")
               ELSE /\ call' = [call EXCEPT !.pc = "enable", !.offset = @ + Chunk]
                    /\ driver' = [driver EXCEPT !.last_status = "OK"]
            /\ UNCHANGED settled
    /\ UNCHANGED <<mem, worn, device>>

(* SpiFlash_Read keeps what it reads, SpiFlash_Verify and _IsErased compare*)
(* it.                                                                     *)
ReadFrame ==
    /\ call.pc = "read"
    /\ \/ TransferTimeout
       \/ \E value \in ReadData(call.address, call.length) :
            /\ CASE call.op = "Read" ->
                      /\ call' = [call EXCEPT !.pc = "done", !.ok = TRUE, !.data = value,
                                              !.allowed = {}]
                      /\ driver' = [driver EXCEPT !.last_status = "OK"]
                 [] call.op = "Verify" ->
                      IF SpiFlash_Verify(value) THEN Finish(TRUE, "OK")
                      ELSE Finish(FALSE, "VERIFY_FAILED")
                 [] call.op = "IsErased" ->
                      IF \A i \in DOMAIN value : value[i] = ERASED THEN Finish(TRUE, "OK")
                      ELSE Finish(FALSE, "VERIFY_FAILED")
            /\ UNCHANGED settled
    /\ UNCHANGED <<mem, worn, device>>

DriverStep ==
    \/ ReadJedecIdRaw \/ PreflightProgrammable \/ WriteEnable \/ ReadLatch \/ ProgramPageChunk
    \/ EraseSectorCommand \/ WaitReady \/ VerifyPageChunk \/ ReadFrame

(* The processor restarts; the device carries on with what it is doing.    *)
ProcessorReset ==
    /\ call.pc # "done"
    /\ driver' = ResetDriver /\ call' = NoCall
    /\ UNCHANGED <<mem, worn, device, settled>>

(* Both lose power: the cells the device was working on hold anything.     *)
PowerLoss ==
    /\ call.pc # "done" /\ Busy
    /\ \E torn \in [DOMAIN device.cells -> Byte] :
         mem' = [a \in Address |-> IF a \in DOMAIN torn THEN torn[a] ELSE mem[a]]
    /\ driver' = ResetDriver /\ call' = NoCall /\ device' = IdleDevice
    /\ UNCHANGED <<worn, settled>>

-----------------------------------------------------------------------------
SpiFlashVars == <<mem, worn, device, driver, call, settled>>

Over(op) == call.op = op /\ call.pc = "done" /\ call.ok

-----------------------------------------------------------------------------
(* Partitions, and the special builds.                                     *)


CONSTANTS
    Partitions,         \* g_partitions: name -> [address, size]
    Writes,             \* what the clients write
    Pattern, PatternOffset  \* of the self test

PartitionAssumption ==
    /\ SpiFlashAssumption
    /\ \A p \in DOMAIN Partitions :
         Partitions[p].address \in Nat /\ Partitions[p].size \in Nat

VARIABLES
    job,                \* an erase of several sectors: where it is and how far it goes
    script, step, status    \* the special build: which, how far it is, its verdict

vars == <<mem, worn, device, driver, call, settled, job>>

NoJob == [next |-> 0, end |-> 0, cells |-> {}, ok |-> FALSE]
Working == job.next < job.end

CellsOf(p) == Cells(Partitions[p].address, Partitions[p].size)

(* The cells a client may mean by an offset and a length in a partition.   *)
Meant(p, offset, length) == Cells(Partitions[p].address + offset, length) \cap CellsOf(p)

ResolveRange(p, offset, length) ==
    ExtFlash_IsRangeValid(Partitions[p].size, offset, length)

Idle == call.pc = "done" /\ ~Working

-----------------------------------------------------------------------------
ExternalFlashStorage_Init == Idle /\ SpiFlash_Init({}) /\ job' = NoJob

(* Read, Verify, Write and IsErased.                                       *)
Access(op, p, offset, data, length) ==
    /\ Idle
    /\ ResolveRange(p, offset, length)
    /\ StartCall(op, Partitions[p].address + offset, data, length, Meant(p, offset, length))
    /\ job' = NoJob

(* ExternalFlashStorage_EraseRange up to its loop.                         *)
ExternalFlashStorage_EraseRange(p, offset, length) ==
    /\ Idle
    /\ length # 0 /\ ResolveRange(p, offset, length)
    /\ ExtFlash_IsSectorAligned(offset) /\ length % EXT_FLASH_SECTOR_SIZE = 0
    /\ ExtFlash_IsSectorAligned(Partitions[p].address + offset)
    /\ LET address == Partitions[p].address + offset
       IN  job' = [next |-> address, end |-> address + length,
                   cells |-> Meant(p, offset, length), ok |-> FALSE]
    /\ UNCHANGED SpiFlashVars

(* The whole partition; its table entry must be made of sectors.           *)
ExternalFlashStorage_ErasePartition(p) ==
    /\ Idle
    /\ ExtFlash_IsSectorAligned(Partitions[p].address)
    /\ Partitions[p].size % EXT_FLASH_SECTOR_SIZE = 0
    /\ job' = [next |-> Partitions[p].address,
               end |-> Partitions[p].address + Partitions[p].size,
               cells |-> CellsOf(p), ok |-> FALSE]
    /\ UNCHANGED SpiFlashVars

(* The loops of both: the first sector or, after a success, the next.      *)
EraseNext ==
    /\ Working /\ call.pc = "done"
    /\ call.op # "EraseSector" \/ call.address # job.next
    /\ StartCall("EraseSector", job.next, <<>>, EXT_FLASH_SECTOR_SIZE, job.cells)
    /\ UNCHANGED job

NextSector(address) == address + EXT_FLASH_SECTOR_SIZE

SectorDone ==
    /\ Working /\ call.pc = "done" /\ call.op = "EraseSector" /\ call.address = job.next
    /\ job' = IF call.ok
                THEN [job EXCEPT !.next = NextSector(@), !.ok = NextSector(job.next) = job.end]
                ELSE NoJob
    /\ call' = [call EXCEPT !.op = "none"]
    /\ UNCHANGED <<mem, worn, device, driver, settled>>

-----------------------------------------------------------------------------
Offsets(p) == 0..(Partitions[p].size + 1)

ClientStep ==
    \E p \in DOMAIN Partitions :
      \/ \E offset \in Offsets(p), length \in {0, EXT_FLASH_SECTOR_SIZE} :
           \/ Access("Read", p, offset, <<>>, length)
           \/ Access("IsErased", p, offset, <<>>, length)
           \/ ExternalFlashStorage_EraseRange(p, offset, length)
      \/ \E offset \in Offsets(p), data \in Writes :
           \/ Access("Write", p, offset, data, Len(data))
           \/ Access("Verify", p, offset, data, Len(data))
      \/ ExternalFlashStorage_ErasePartition(p)

StorageStep == DriverStep /\ UNCHANGED job

Init ==
    /\ mem \in [Address -> {ERASED, {}}]
    /\ \A a, b \in Address : SectorOf(a) = SectorOf(b) => mem[a] = mem[b]
    /\ worn = Healthy /\ device = IdleDevice /\ driver = ResetDriver /\ call = NoCall /\ settled = TRUE
    /\ job = NoJob

Next ==
    \/ ExternalFlashStorage_Init \/ ClientStep \/ EraseNext \/ SectorDone \/ StorageStep
    \/ DeviceFinishes /\ UNCHANGED job
    \/ ProcessorReset /\ job' = NoJob
    \/ PowerLoss /\ job' = NoJob

Spec == Init /\ [][Next]_vars

-----------------------------------------------------------------------------
(* The special builds.                                                     *)

(* A step: the call, what it must answer, and the verdict if it does not.  *)
Step(op, p, offset, data, length, expect, fail) ==
    [op |-> op, p |-> p, offset |-> offset, data |-> data, length |-> length,
     expect |-> expect, fail |-> fail]

Blank(p, fail) == Step("IsErased", p, 0, <<>>, Partitions[p].size, TRUE, fail)
Wipe(p, fail) == Step("ErasePartition", p, 0, <<>>, 0, TRUE, fail)
InitStep(fail) == Step("Init", "SELF_TEST", 0, <<>>, 0, TRUE, fail)

(* FlashSelfTest_Run                                                       *)
FlashSelfTest_Run ==
    << InitStep("FAIL_INIT"),
       Wipe("SELF_TEST", "FAIL_ERASE1"), Blank("SELF_TEST", "FAIL_BLANK1"),
       Step("Write", "SELF_TEST", PatternOffset, Pattern, Len(Pattern), TRUE, "FAIL_WRITE"),
       Step("Read", "SELF_TEST", PatternOffset, Pattern, Len(Pattern), TRUE, "FAIL_READ"),
       Step("Verify", "SELF_TEST", PatternOffset, Pattern, Len(Pattern), TRUE, "FAIL_VERIFY"),
       Step("Read", "SELF_TEST", Partitions["SELF_TEST"].size - 1, <<>>, 2, FALSE, "FAIL_BOUNDS"),
       Wipe("SELF_TEST", "FAIL_ERASE2"), Blank("SELF_TEST", "FAIL_BLANK2") >>

(* The sanitizer of main.c                                                 *)
Sanitize ==
    << InitStep("BLINK"), Wipe("METADATA_A", "BLINK"), Wipe("METADATA_B", "BLINK"),
       Wipe("INCOMING", "BLINK"), Blank("METADATA_A", "BLINK"), Blank("METADATA_B", "BLINK"),
       Blank("INCOMING", "BLINK") >>

Commands == IF script = "test" THEN FlashSelfTest_Run ELSE Sanitize
Command == Commands[step]

-----------------------------------------------------------------------------
Call ==
    /\ status = "RUNNING" /\ Idle
    /\ CASE Command.op = "Init" -> ExternalFlashStorage_Init
         [] Command.op = "ErasePartition" -> ExternalFlashStorage_ErasePartition(Command.p)
         [] OTHER ->
              IF ResolveRange(Command.p, Command.offset, Command.length)
                THEN Access(Command.op, Command.p, Command.offset, Command.data, Command.length)
                ELSE call' = [NoCall EXCEPT !.op = Command.op] /\ job' = NoJob
                     /\ UNCHANGED <<mem, worn, device, driver, settled>>
    /\ status' = "CALLED"
    /\ UNCHANGED <<script, step>>

(* The answer of a call, of an erase the answer of its last sector.        *)
Answer ==
    IF Command.op = "ErasePartition" THEN job.ok
    ELSE call.ok /\ (Command.op = "Read" => call.data = Command.data)

Judge ==
    /\ status = "CALLED" /\ Idle
    /\ IF Answer # Command.expect THEN status' = Command.fail /\ UNCHANGED step
       ELSE IF step = Len(Commands) THEN status' = "PASS" /\ UNCHANGED step
       ELSE status' = "RUNNING" /\ step' = step + 1
    /\ UNCHANGED <<vars, script>>

TestInit ==
    /\ mem \in {[a \in Address |-> b] : b \in {ERASED, {}}}
    /\ worn \in {Healthy} \cup {[Healthy EXCEPT !.low = {a}] : a \in Address}
                          \cup {[Healthy EXCEPT !.high = {a}] : a \in Address}
    /\ device = IdleDevice /\ driver = ResetDriver /\ call = NoCall /\ settled = TRUE
    /\ job = NoJob /\ script \in {"test", "sanitize"} /\ step = 1 /\ status = "RUNNING"

Own == UNCHANGED <<script, step, status>>

TestNext ==
    \/ Call \/ Judge
    \/ (EraseNext \/ SectorDone \/ StorageStep) /\ Own
    \/ DeviceFinishes /\ UNCHANGED job /\ Own

-----------------------------------------------------------------------------
(* A write that answers OK has stored its bytes (SpiFlash_Write verifies   *)
(* page by page), also after calls that timed out and left the device busy *)
(* behind the driver's back, and after resets in the middle of an erase.   *)
WriteOkIsStored ==
    Over("Write") => \A i \in DOMAIN call.data : mem[call.address + i - 1] = call.data[i]

(* Since the last successful SpiFlash_Init no call timed out: then a       *)
(* sector reported erased is blank, and what is read is what is stored.    *)
(* After a timeout neither need hold: a busy device ignores commands, the  *)
(* latch of its running operation passes for the one just set, and Read    *)
(* does not look at the status.                                            *)
SettledIsReal ==
    settled /\ driver.initialized =>
      /\ Over("EraseSector") => \A a \in SectorOf(call.address)  : mem[a] = ERASED
      /\ Over("Read") => \A i \in 1..call.length : call.data[i] = mem[call.address + i - 1]
      /\ Over("IsErased") => \A a \in Cells(call.address, call.length) : mem[a] = ERASED

(* While no call times out, one that fails has changed nothing: a write    *)
(* looks at its whole range before it programs the first page              *)
(* (docs/external-spi-flash.md, "checks that no 0 -> 1 NOR transition is   *)
(* requested").                                                            *)
FailedTouchesNothing ==
    (call.op # "none" /\ call.pc = "done" /\ ~call.ok /\ settled /\ driver.initialized)
      => ~call.touched

(* Cells change only in the range a client named, clipped to the partition *)
(* it named: neither a page that wraps round nor a range that runs over    *)
(* reaches a neighbour ("preventing later OTA code from using arbitrary    *)
(* addresses", docs/external-spi-flash.md).                                *)
TouchesNamedCells == \A a \in Address : mem'[a] # mem[a] => a \in device.allowed

Tested == Cells(Partitions["SELF_TEST"].address + PatternOffset, Len(Pattern))

(* PASS, and the solid LED of the sanitizer, mean what they are taken for: *)
(* the partitions are blank, no cell of the tested sector refuses to be    *)
(* erased and none under the pattern refuses to be programmed.             *)
PassIsDeserved ==
    status = "PASS" =>
      /\ script = "test" =>
           /\ \A a \in CellsOf("SELF_TEST") : mem[a] = ERASED /\ a \notin worn.low
           /\ Tested \cap worn.high = {}
      /\ script = "sanitize" =>
           \A p \in {"METADATA_A", "METADATA_B", "INCOMING"} : \A a \in CellsOf(p) : mem[a] = ERASED

(* A healthy flash fails neither, unless a transfer or the busy wait times *)
(* out: in particular the read that must fail at the end of the partition  *)
(* does, and a pattern across a page boundary comes back.                  *)
FailureIsReal ==
    status \notin {"RUNNING", "CALLED", "PASS"} => worn # Healthy \/ ~settled
=============================================================================
