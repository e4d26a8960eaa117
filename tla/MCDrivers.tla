------------------------------ MODULE MCDrivers ------------------------------
(***************************************************************************)
(* The device drivers of the node, for TLC.  A behaviour is one of five    *)
(* units:                                                                  *)
(*   "driver"    any sequence of calls of stm32f10x_flash.c by one thread; *)
(*   "users"     the two functions of the bootloader that use it           *)
(*               (InternalFlash), with two pages of two half-words;        *)
(*   "storage"   the external flash and any clients of its partitions: one *)
(*               of two sectors and one of one, a sector is a page of two  *)
(*               bytes of one bit;                                         *)
(*   "self test" the special builds: four partitions of one sector, two    *)
(*               pages of two bytes each, and a pattern across the pages;  *)
(*   "peripherals" calls of the clock, pin, USART, SPI or timer driver.    *)
(***************************************************************************)
EXTENDS FlashDriver

CONSTANTS MaxCalls      \* bound of the calls in a behaviour of the first unit

VARIABLES
    unit,
    calls,
    name,               \* the function called last
    open,               \* whether the controller was unlocked at the call
    excused,            \* a function that may leave a mode bit has ended so
    shadow,             \* what the settings of ACR and the interrupt enables should be
    pc, job, primask, entry, result, late, intact, losses,              \* of InternalFlash
    cells, worn, chip, driver, request, settled, erase, script, step, status,
                                                    \* of ExternalFlashStorage
    device, rcc, ports, afio, usarts, spis, tims, asked    \* of PeripheralCalls

MCPage == {1, 2}
MCHalfWord == {1, 2}
MCOption == {"RDP", "USER", "Data0", "Data1", "WRP0", "WRP1", "WRP2", "WRP3"}

Users == INSTANCE InternalFlash WITH
    Data <- {<<3, 4>>, <<4>>}, MaxFaults <- 1, MaxCalls <- 3, MaxLosses <- 1

TwoPartitions == [A |-> [address |-> 0, size |-> 4], B |-> [address |-> 4, size |-> 2]]
Storage == INSTANCE ExternalFlashStorage WITH
    EXT_FLASH_SIZE <- 6, EXT_FLASH_SECTOR_SIZE <- 2, EXT_FLASH_PAGE_SIZE <- 2,
    PREFLIGHT_BUFFER_SIZE <- 2, Bits <- {1},
    SupportedIds <- {"W25Q32"}, OtherIds <- {"other"}, DeviceId <- "W25Q32",
    Partitions <- TwoPartitions, Writes <- {<<{}, {1}, {1}, {}>>},
    Pattern <- <<>>, PatternOffset <- 0,
    mem <- cells, device <- chip, call <- request, job <- erase

FourPartitions ==
    [METADATA_A |-> [address |-> 0, size |-> 4], METADATA_B |-> [address |-> 4, size |-> 4],
     INCOMING |-> [address |-> 8, size |-> 4], SELF_TEST |-> [address |-> 12, size |-> 4]]
Test == INSTANCE ExternalFlashStorage WITH
    EXT_FLASH_SIZE <- 16, EXT_FLASH_SECTOR_SIZE <- 4, EXT_FLASH_PAGE_SIZE <- 2,
    PREFLIGHT_BUFFER_SIZE <- 2, Bits <- {0, 1},
    SupportedIds <- {"W25Q32"}, OtherIds <- {"other"}, DeviceId <- "W25Q32",
    Partitions <- FourPartitions, Writes <- {},
    Pattern <- <<{0}, {1}>>, PatternOffset <- 1,
    mem <- cells, device <- chip, call <- request, job <- erase

Calls == INSTANCE PeripheralCalls WITH
    HSI_VALUE <- 8000000, HSE_VALUE <- 8000000, MaxCalls <- 2, BaudRates <- {9600, 115200}

ASSUME DriversAssumption == Storage!PartitionAssumption /\ Test!PartitionAssumption

callerVars == <<name, open, excused, shadow>>
userVars == <<pc, job, primask, entry, result, late, intact, losses>>
externalVars == <<cells, worn, chip, driver, request, settled, erase, script, step, status>>
peripheralVars == <<device, rcc, ports, afio, usarts, spis, tims, asked>>
vars == <<unit, driverVars, calls, callerVars, userVars, externalVars, peripheralVars>>

BlankPages == [p \in Page |-> [h \in HalfWord |-> Erased]]
UnusedChip ==
    /\ cells = <<>> /\ worn = <<>> /\ chip = <<>> /\ driver = <<>> /\ request = <<>>
    /\ settled = TRUE /\ erase = <<>> /\ script = "none" /\ step = 1 /\ status = "none"
UnusedPeripherals ==
    /\ device = "none" /\ rcc = {} /\ ports = {} /\ afio = {} /\ usarts = {} /\ spis = {}
    /\ tims = {} /\ asked = {}

DriversInit ==
    /\ unit \in {"driver", "users", "storage", "self test", "peripherals"}
    /\ Users!Init
    /\ unit \in {"driver", "users"} \/ mem = BlankPages
    /\ unit = "driver" \/ ~FLASH_GetReadOutProtectionStatus
    /\ name = "none" /\ open = FALSE /\ excused = FALSE
    /\ shadow = [latency |-> {}, half |-> FALSE, prefetch |-> TRUE, its |-> {}]
    /\ CASE unit = "storage" -> Storage!Init /\ script = "none" /\ step = 1 /\ status = "none"
         [] unit = "self test" -> Test!TestInit
         [] OTHER -> UnusedChip
    /\ IF unit = "peripherals" THEN Calls!Init ELSE UnusedPeripherals

-----------------------------------------------------------------------------
Functions ==
    {[name |-> "ErasePage", phases |-> FLASH_ErasePage(1)],
     [name |-> "EraseAllPages", phases |-> FLASH_EraseAllPages],
     [name |-> "EraseAllBank1Pages", phases |-> FLASH_EraseAllBank1Pages],
     [name |-> "ProgramHalfWord", phases |-> FLASH_ProgramHalfWord(1, 2, 3)],
     [name |-> "ProgramWord", phases |-> FLASH_ProgramWord(1, 1, 3, 4)],
     [name |-> "ProgramOptionByteData", phases |-> FLASH_ProgramOptionByteData("Data0", 3)],
     [name |-> "UserOptionByteConfig", phases |-> FLASH_UserOptionByteConfig(0, 2, 4)],
     [name |-> "EnableWriteProtection", phases |-> FLASH_EnableWriteProtection(<<1, 0, 0, 128>>)],
     [name |-> "EraseOptionBytes", phases |-> FLASH_EraseOptionBytes],
     [name |-> "ReadOutProtection", phases |-> FLASH_ReadOutProtection(TRUE)]}
KeysFirst(function) == IF function = "UserOptionByteConfig" THEN {"OPTWRE"} ELSE {}

Free == call.step \in {"none", "returned"} /\ calls < MaxCalls
Counted == calls' = calls + 1

CallFunction ==
    /\ Free /\ Counted
    /\ \E f \in Functions : BeginWith(KeysFirst(f.name), f.phases) /\ name' = f.name
    /\ open' = ("LOCK" \notin cr)
    /\ UNCHANGED <<excused, shadow>>

CallUnlock == Free /\ Counted /\ "LOCK" \in cr /\ FLASH_Unlock /\ UNCHANGED <<name, open, excused, shadow>>
CallLock == Free /\ Counted /\ FLASH_Lock /\ UNCHANGED <<name, open, excused, shadow>>
CallClear ==
    /\ Free /\ Counted
    /\ \E flag \in {"EOP", "PGERR", "WRPRTERR"} : FLASH_GetFlagStatus(flag)
    /\ FLASH_ClearFlag({"EOP", "PGERR", "WRPRTERR"})
    /\ UNCHANGED <<name, open, excused, shadow>>

Settings ==
    /\ Free /\ Counted
    /\ \/ \E bits \in {{}, {"LATENCY1"}, {"LATENCY0"}} :
            /\ FLASH_SetLatency(bits) /\ shadow' = [shadow EXCEPT !.latency = bits]
            /\ UNCHANGED cr
       \/ \E on \in BOOLEAN :
            /\ UNCHANGED cr
            /\ \/ FLASH_HalfCycleAccessCmd(on) /\ shadow' = [shadow EXCEPT !.half = on]
               \/ FLASH_PrefetchBufferCmd(on) /\ shadow' = [shadow EXCEPT !.prefetch = on]
       \/ \E on \in BOOLEAN :
            /\ "LOCK" \notin cr
            /\ FLASH_ITConfig({"EOPIE"}, on)
            /\ shadow' = [shadow EXCEPT !.its = IF on THEN {"EOPIE"} ELSE {}]
            /\ UNCHANGED acr
    /\ UNCHANGED <<sr, dead, op, mem, opt, obr, call, faults, name, open, excused>>

MayLeaveModes ==
    /\ call'.step = "returned"
    /\ \/ call'.ret = "TIMEOUT"
       \/ call'.ret # "COMPLETE" /\ name = "EraseOptionBytes"

Runs ==
    /\ Driver \/ Controller
    /\ excused' = (excused \/ MayLeaveModes)
    /\ UNCHANGED <<calls, name, open, shadow>>

Resets ==
    /\ PowerLoss
    /\ name' = "none" /\ open' = FALSE /\ excused' = FALSE
    /\ shadow' = [latency |-> {}, half |-> FALSE, prefetch |-> TRUE, its |-> {}]
    /\ UNCHANGED calls

(* Any call of the driver.                                                 *)
DriverNext ==
    \/ CallFunction
    \/ CallUnlock
    \/ CallLock
    \/ CallClear
    \/ Settings
    \/ Runs
    \/ Resets

DriversNext ==
    \/ unit = "driver" /\ DriverNext /\ UNCHANGED <<unit, userVars, externalVars, peripheralVars>>
    \/ unit = "users" /\ Users!Next
       /\ UNCHANGED <<unit, callerVars, externalVars, peripheralVars>>
    \/ unit = "storage" /\ Storage!Next
       /\ UNCHANGED <<unit, driverVars, calls, callerVars, userVars, script, step, status,
                      peripheralVars>>
    \/ unit = "self test" /\ Test!TestNext
       /\ UNCHANGED <<unit, driverVars, calls, callerVars, userVars, peripheralVars>>
    \/ unit = "peripherals" /\ Calls!Next
       /\ UNCHANGED <<unit, driverVars, callerVars, userVars, externalVars>>

DriversSpec == DriversInit /\ [][DriversNext]_vars

-----------------------------------------------------------------------------
(* Properties.                                                             *)

(* An operation is started only when the controller has finished the last  *)
(* one, also after a wait that timed out and left it at work.              *)
OneAtATime == [][op' # op /\ op' # Idle => op = Idle]_vars

(* FLASH_COMPLETE from a function called on an unlocked controller means   *)
(* that its cells hold what it was asked to write.                         *)
Programmed(p, c, v) == mem[p][c] = v
CompleteIsDone ==
    (unit = "driver" /\ call.step = "returned" /\ call.ret = "COMPLETE" /\ open) =>
        CASE name = "ErasePage" -> \A h \in HalfWord : Programmed(1, h, Erased)
          [] name \in {"EraseAllPages", "EraseAllBank1Pages"} ->
                \A p \in Page, h \in HalfWord : Programmed(p, h, Erased)
          [] name = "ProgramHalfWord" -> Programmed(1, 2, 3)
          [] name = "ProgramWord" -> Programmed(1, 1, 3) /\ Programmed(1, 2, 4)
          [] name = "ProgramOptionByteData" -> opt["Data0"] = 3
          [] name = "UserOptionByteConfig" -> opt["USER"] = 254
          [] name = "EnableWriteProtection" -> opt["WRP0"] = 254 /\ opt["WRP3"] = 127
          [] name = "EraseOptionBytes" ->
                /\ opt["RDP"] = IF FLASH_GetReadOutProtectionStatus THEN 0 ELSE RDP_Key
                /\ \A o \in Option \ {"RDP"} : opt[o] = Erased
          [] name = "ReadOutProtection" -> opt["RDP"] = 0

(* After a reset the getters tell the option bytes, and OPTERR the ones    *)
(* that a power loss has torn.                                             *)
Byte(o) == IF opt[o] = Torn THEN 255 ELSE opt[o] % 256
OptionsTold ==
    (unit = "driver" /\ name = "none") =>
        /\ FLASH_GetUserOptionByte % 256 = Byte("USER")
        /\ FLASH_GetWriteProtectionOptionByte = <<Byte("WRP0"), Byte("WRP1"), Byte("WRP2"), Byte("WRP3")>>
        /\ FLASH_GetReadOutProtectionStatus = (opt["RDP"] # RDP_Key)
        /\ FLASH_GetFlagStatus("OPTERR") = (\E o \in Option : opt[o] = Torn)

(* No function that ended without a timeout leaves a mode bit set: a bit   *)
(* that stays would turn a later write into another operation.  The one    *)
(* exception is FLASH_EraseOptionBytes, whose error path clears the wrong  *)
(* bit; no caller in the images uses it.                                   *)
ModeBits == {"PG", "PER", "MER", "OPTPG", "OPTER"}
ModesCleared ==
    (unit = "driver" /\ call.step \in {"none", "returned"} /\ ~excused) => cr \cap ModeBits = {}

(* The settings last: the masks of CR and ACR that clear one bit leave the *)
(* interrupt enables, the latency and the prefetch buffer as they are.     *)
SettingsKept ==
    unit = "driver" =>
    /\ acr = shadow.latency \cup (IF shadow.half THEN {"HLFCYA"} ELSE {})
              \cup (IF shadow.prefetch THEN {"PRFTBE", "PRFTBS"} ELSE {})
    /\ FLASH_GetPrefetchBufferStatus = shadow.prefetch
    /\ cr \cap {"EOPIE"} = shadow.its

(* The driver of the internal flash and its users (stm32f10x_flash.c,      *)
(* metadata_storage.c, image_installer.c), whatever failed, timed out or   *)
(* lost power before: COMPLETE and OK mean that the cells hold the data,   *)
(* every path out of a call leaves controller, mode bits, settings and     *)
(* interrupts as the next caller needs them, errors do not stick, an       *)
(* operation starts only when the last one has finished, and no page       *)
(* changes but the one of the call.                                        *)
InternalFlashIsSound ==
    /\ [](/\ CompleteIsDone /\ OptionsTold /\ ModesCleared /\ SettingsKept
          /\ unit = "users" => Users!LeavesClean /\ Users!OkIsStored /\ Users!ErrorsDoNotStick)
    /\ OneAtATime
    /\ [][unit = "users" => Users!TouchesItsPage]_vars

(* The external flash (spi_flash.c, external_flash_storage.c,              *)
(* flash_selftest.c): a write that answers OK has stored its bytes, also   *)
(* after timeouts and resets that left the device busy; while no call      *)
(* times out, erased is blank, what is read is what is stored, and a call  *)
(* that fails has changed nothing; cells change only in the range a client *)
(* named; PASS and FAIL of the self test are deserved.                     *)
ExternalFlashIsSound ==
    /\ [](/\ unit = "storage" => /\ Storage!WriteOkIsStored /\ Storage!SettledIsReal
                                 /\ Storage!FailedTouchesNothing
          /\ unit = "self test" => Test!PassIsDeserved /\ Test!FailureIsReal)
    /\ [][unit = "storage" => Storage!TouchesNamedCells]_vars

(* Every setting of clocks, pins, routes, USARTs, SPIs and timers is the   *)
(* one asked for last, whatever was called since for the settings that     *)
(* share its register; the frequencies and the baud rate derived from them *)
(* are right on both oscillators and both buses; an interrupt status is up *)
(* for exactly the enabled interrupts whose flag is up, and clearing       *)
(* another flag does not lose a received byte (stm32f10x_rcc.c,            *)
(* stm32f10x_gpio.c, stm32f10x_usart.c, stm32f10x_spi.c, stm32f10x_tim.c). *)
RegistersAsAsked ==
    /\ [](/\ Calls!SettingsAsAsked /\ Calls!FrequenciesAsAsked /\ Calls!BaudRateNear
          /\ Calls!PinsAsAsked /\ Calls!RoutesAsAsked /\ Calls!PendingIsExact)
    /\ [][device = "USART" => Calls!ReceivedStays]_vars

=============================================================================
