---------------------------- MODULE FlashDriver ----------------------------
(***************************************************************************)
(* The driver of the internal flash (spl/src/stm32f10x_flash.c, one bank)  *)
(* and the flash controller it drives.  A driver function is a list of     *)
(* phases: set a mode bit, start an operation, wait for it, clear bits     *)
(* according to how the wait ended; the next phase follows a completion    *)
(* only.  A wait that runs out leaves the controller at work.              *)
(***************************************************************************)
EXTENDS Integers, Sequences, FiniteSets

CONSTANTS
    Page, HalfWord,     \* the flash: pages of half-words
    Option,             \* the option bytes
    MaxFaults           \* bound of failed operations and of timeouts

VARIABLES
    cr,                 \* FLASH->CR: bits that are one
    sr,                 \* FLASH->SR: BSY, EOP, PGERR, WRPRTERR
    acr,                \* FLASH->ACR
    dead,               \* the controller refuses everything until reset
    op,                 \* what it is doing
    mem, opt,           \* the cells: half-words and option bytes
    obr,                \* FLASH->OBR, FLASH->WRPR: the option bytes of the last reset
    call,               \* the driver function in progress
    faults

driverVars == <<cr, sr, acr, dead, op, mem, opt, obr, call, faults>>

Erased == 65535         \* an erased half-word, 0xFFFF
Torn == -1              \* one whose programming or erasing was cut short
RDP_Key == 165          \* the option byte that leaves the flash readable, 0xA5
Idle == [kind |-> "none"]
NoCall == [phases |-> <<>>, step |-> "none", ret |-> "none"]

(* The option bytes as the device loads them at reset.                     *)
Loaded(options) ==
    [byte |-> [o \in Option |-> IF options[o] = Torn THEN 255 ELSE options[o] % 256],
     opterr |-> \E o \in Option : options[o] = Torn]

DriverInit ==
    /\ cr = {"LOCK"} /\ sr = {} /\ acr = {"PRFTBE", "PRFTBS"} /\ dead = FALSE /\ op = Idle
    /\ mem \in [Page -> [HalfWord -> {Erased, 7}]]
    /\ \E rdp \in {0, RDP_Key} : opt = [o \in Option |-> IF o = "RDP" THEN rdp ELSE Erased]
    /\ obr = Loaded(opt)
    /\ call = NoCall
    /\ faults = 0

-----------------------------------------------------------------------------
(* The controller.                                                         *)

(* Two keys in a row unlock it; keys for an unlocked one are an error.     *)
FLASH_Unlock ==
    /\ IF "LOCK" \in cr /\ ~dead
       THEN cr' = cr \ {"LOCK"} /\ UNCHANGED dead
       ELSE dead' = TRUE /\ cr' = cr \cup {"LOCK"}
    /\ UNCHANGED <<sr, acr, op, mem, opt, obr, call, faults>>
FLASH_Lock ==
    /\ cr' = cr \cup {"LOCK"}
    /\ UNCHANGED <<sr, acr, dead, op, mem, opt, obr, call, faults>>
FLASH_ClearFlag(flags) ==
    /\ sr' = sr \ flags
    /\ UNCHANGED <<cr, acr, dead, op, mem, opt, obr, call, faults>>

(* CR keeps its value while it is locked.                                  *)
SetBits(bits) == IF "LOCK" \in cr THEN cr ELSE cr \cup bits
ClearBits(bits) == IF "LOCK" \in cr THEN cr ELSE cr \ bits

(* What a started operation does to the cells, and the flag it ends with.  *)
(* Only an erased cell can be programmed; 0x0000 goes over anything.       *)
Programmable(o) ==
    \/ o.kind = "program" /\ (mem[o.page][o.cell] = Erased \/ o.value = 0)
    \/ o.kind = "program option" /\ opt[o.option] = Erased
Applied(o) ==
    CASE o.kind = "erase page" -> [mem EXCEPT ![o.page] = [h \in HalfWord |-> Erased]]
      [] o.kind = "erase all" -> [p \in Page |-> [h \in HalfWord |-> Erased]]
      [] o.kind = "program" /\ Programmable(o) -> [mem EXCEPT ![o.page][o.cell] = o.value]
      [] OTHER -> mem
AppliedOptions(o) ==
    CASE o.kind = "erase options" -> [x \in Option |-> Erased]
      [] o.kind = "program option" /\ Programmable(o) -> [opt EXCEPT ![o.option] = o.value]
      [] OTHER -> opt
Outcome(o) ==
    CASE o.kind = "program" /\ ~Programmable(o) -> "PGERR"
      [] o.kind = "program option" /\ ~Programmable(o) -> "WRPRTERR"
      [] OTHER -> "EOP"

Finish ==
    /\ op # Idle
    /\ op' = Idle
    /\ mem' = Applied(op)
    /\ opt' = AppliedOptions(op)
    /\ sr' = (sr \ {"BSY"}) \cup {Outcome(op)}
    /\ UNCHANGED <<cr, acr, dead, obr, call, faults>>

(* A failed operation: write protection, or a cell that is left torn.      *)
Fail ==
    /\ op # Idle
    /\ faults < MaxFaults
    /\ faults' = faults + 1
    /\ op' = Idle
    /\ \/ mem' = mem /\ sr' = (sr \ {"BSY"}) \cup {"WRPRTERR"}
       \/ /\ op.kind = "program"
          /\ mem' = [mem EXCEPT ![op.page][op.cell] = Torn]
          /\ sr' = (sr \ {"BSY"}) \cup {"PGERR"}
    /\ UNCHANGED <<cr, acr, dead, opt, obr, call>>

-----------------------------------------------------------------------------
(* The driver's functions: their phases.                                   *)

Statuses == {"COMPLETE", "ERROR_PG", "ERROR_WRP", "TIMEOUT"}
Always(bits) == [s \in Statuses |-> bits]
UnlessTimeout(bits) == [s \in Statuses |-> IF s = "TIMEOUT" THEN {} ELSE bits]
OnError(bits) == [s \in Statuses |-> IF s \in {"COMPLETE", "TIMEOUT"} THEN {} ELSE bits]

(* A phase sets its mode bit, after the keys of OPTKEYR when it is the     *)
(* first one on the option bytes.                                          *)
Phase(mode, o, clear) == [bits |-> {mode}, op |-> o, clear |-> clear]
KeyedPhase(mode, o, clear) == [bits |-> {"OPTWRE", mode}, op |-> o, clear |-> clear]
ErasePageOp(p) == [kind |-> "erase page", page |-> p]
ProgramOp(p, c, v) == [kind |-> "program", page |-> p, cell |-> c, value |-> v]
OptionOp(o, v) == [kind |-> "program option", option |-> o, value |-> v]

FLASH_ErasePage(p) == <<Phase("PER", ErasePageOp(p), Always({"PER"}))>>
FLASH_EraseAllPages == <<Phase("MER", [kind |-> "erase all"], Always({"MER"}))>>
FLASH_EraseAllBank1Pages == <<Phase("MER", [kind |-> "erase all"], Always({"MER"}))>>

FLASH_ProgramHalfWord(p, c, v) == <<Phase("PG", ProgramOp(p, c, v), Always({"PG"}))>>

(* PG stays set between the halves of a word.                              *)
FLASH_ProgramWord(p, c, v, w) ==
    <<Phase("PG", ProgramOp(p, c, v), [s \in Statuses |-> IF s = "COMPLETE" THEN {} ELSE {"PG"}]),
      Phase("PG", ProgramOp(p, c + 1, w), Always({"PG"}))>>

FLASH_ProgramOptionByteData(o, v) ==
    <<KeyedPhase("OPTPG", OptionOp(o, v), UnlessTimeout({"OPTPG"}))>>

(* The three flags over 0xF8.  This function writes the keys before it     *)
(* waits for the controller.                                               *)
FLASH_UserOptionByteConfig(iwdg, stop, stdby) ==
    <<Phase("OPTPG", OptionOp("USER", iwdg + stop + stdby + 248), UnlessTimeout({"OPTPG"}))>>

(* The four bytes of FLASH_Pages, inverted: one phase for each that is not *)
(* 0xFF then.                                                              *)
FLASH_EnableWriteProtection(pages) ==
    LET WRP == <<"WRP0", "WRP1", "WRP2", "WRP3">>
        WRP_Data(i) == 255 - pages[i]
        written == SelectSeq(<<1, 2, 3, 4>>, LAMBDA i : WRP_Data(i) # 255)
    IN  [n \in DOMAIN written |->
            LET o == OptionOp(WRP[written[n]], WRP_Data(written[n]))
                clear == IF n = Len(written) THEN UnlessTimeout({"OPTPG"}) ELSE OnError({"OPTPG"})
            IN  IF n = 1 THEN KeyedPhase("OPTPG", o, clear) ELSE Phase("OPTPG", o, clear)]

(* What the device loaded at the last reset.                               *)
FLASH_GetUserOptionByte ==
    obr.byte["USER"] + 256 * obr.byte["Data0"] + 65536 * obr.byte["Data1"]
FLASH_GetWriteProtectionOptionByte ==
    <<obr.byte["WRP0"], obr.byte["WRP1"], obr.byte["WRP2"], obr.byte["WRP3"]>>
FLASH_GetReadOutProtectionStatus == obr.byte["RDP"] # RDP_Key

(* The protection byte is put back after the erase, as the status has it   *)
(* at the call.  When the erase fails, the code clears OPTPG, not OPTER.   *)
FLASH_EraseOptionBytes ==
    <<KeyedPhase("OPTER", [kind |-> "erase options"],
            [s \in Statuses |-> CASE s = "COMPLETE" -> {"OPTER"} [] s = "TIMEOUT" -> {}
                                  [] OTHER -> {"OPTPG"}]),
      Phase("OPTPG", OptionOp("RDP", IF FLASH_GetReadOutProtectionStatus THEN 0 ELSE RDP_Key),
            UnlessTimeout({"OPTPG"}))>>
FLASH_ReadOutProtection(on) ==
    <<KeyedPhase("OPTER", [kind |-> "erase options"], UnlessTimeout({"OPTER"})),
      Phase("OPTPG", OptionOp("RDP", IF on THEN 0 ELSE RDP_Key), UnlessTimeout({"OPTPG"}))>>

(* The status bit of the prefetch buffer follows its enable bit.           *)
FLASH_SetLatency(bits) == acr' = (acr \cap {"HLFCYA", "PRFTBE", "PRFTBS"}) \cup bits
FLASH_HalfCycleAccessCmd(on) == acr' = (acr \ {"HLFCYA"}) \cup (IF on THEN {"HLFCYA"} ELSE {})
FLASH_PrefetchBufferCmd(on) ==
    acr' = (acr \ {"PRFTBE", "PRFTBS"}) \cup (IF on THEN {"PRFTBE", "PRFTBS"} ELSE {})
FLASH_GetPrefetchBufferStatus == "PRFTBS" \in acr
FLASH_ITConfig(its, on) == cr' = IF on THEN SetBits(its) ELSE ClearBits(its)
FLASH_GetFlagStatus(flag) == IF flag = "OPTERR" THEN obr.opterr ELSE flag \in sr

-----------------------------------------------------------------------------
(* Running a function.                                                     *)

BeginWith(keys, phases) ==
    /\ call.step \in {"none", "returned"}
    /\ cr' = SetBits(keys)
    /\ call' = [phases |-> phases, step |-> "ready?", ret |-> "none"]
    /\ UNCHANGED <<sr, acr, dead, op, mem, opt, obr, faults>>
Begin(phases) == BeginWith({}, phases)

FLASH_GetStatus ==
    IF "BSY" \in sr THEN "BUSY" ELSE IF "PGERR" \in sr THEN "ERROR_PG"
    ELSE IF "WRPRTERR" \in sr THEN "ERROR_WRP" ELSE "COMPLETE"

Return(status) == call' = [call EXCEPT !.step = "returned", !.ret = status]

(* FLASH_WaitForLastOperation: the status once it is not busy.  A count    *)
(* that reaches zero is a timeout, also when the controller has finished   *)
(* in the very last turn; a controller that is free at the first look is   *)
(* never one.                                                              *)
FLASH_WaitForLastOperation(status, wasBusy) ==
    \/ /\ status = FLASH_GetStatus
       /\ status # "BUSY"
       /\ UNCHANGED faults
    \/ /\ status = "TIMEOUT"
       /\ wasBusy
       /\ faults < MaxFaults
       /\ faults' = faults + 1

WaitReady ==
    /\ call.step = "ready?"
    /\ \E status \in Statuses :
         /\ FLASH_WaitForLastOperation(status, "BSY" \in sr)
         /\ IF status = "COMPLETE" THEN call' = [call EXCEPT !.step = "start"]
            ELSE Return(status)
    /\ UNCHANGED <<cr, sr, acr, dead, op, mem, opt, obr>>

(* Nothing starts while the controller is locked, nor on the option bytes  *)
(* without their keys.                                                     *)
Accepted(o) ==
    /\ "LOCK" \notin cr
    /\ o.kind \in {"erase options", "program option"} => "OPTWRE" \in cr'

Start ==
    /\ call.step = "start"
    /\ cr' = SetBits(Head(call.phases).bits)
    /\ IF Accepted(Head(call.phases).op)
       THEN op' = Head(call.phases).op /\ sr' = sr \cup {"BSY"}
       ELSE UNCHANGED <<op, sr>>
    /\ call' = [call EXCEPT !.step = "wait"]
    /\ UNCHANGED <<acr, dead, mem, opt, obr, faults>>

WaitDone ==
    /\ call.step = "wait"
    /\ \E status \in Statuses :
         /\ FLASH_WaitForLastOperation(status, "LOCK" \notin cr)
         /\ cr' = ClearBits(Head(call.phases).clear[status])
         /\ IF status = "COMPLETE" /\ Len(call.phases) > 1
            THEN call' = [call EXCEPT !.phases = Tail(@), !.step = "start"]
            ELSE Return(status)
    /\ UNCHANGED <<sr, acr, dead, op, mem, opt, obr>>

(* The reset of the controller; an operation cut short leaves the cells    *)
(* it was working on torn.                                                 *)
PowerLoss ==
    /\ cr' = {"LOCK"} /\ sr' = {} /\ acr' = {"PRFTBE", "PRFTBS"} /\ dead' = FALSE
    /\ op' = Idle /\ call' = NoCall
    /\ mem' = CASE op.kind = "program" -> [mem EXCEPT ![op.page][op.cell] = Torn]
                [] op.kind = "erase page" -> [mem EXCEPT ![op.page] = [h \in HalfWord |-> Torn]]
                [] op.kind = "erase all" -> [p \in Page |-> [h \in HalfWord |-> Torn]]
                [] OTHER -> mem
    /\ opt' = CASE op.kind = "program option" -> [opt EXCEPT ![op.option] = Torn]
                [] op.kind = "erase options" -> [o \in Option |-> Torn]
                [] OTHER -> opt
    /\ obr' = Loaded(opt')
    /\ UNCHANGED faults

Driver == WaitReady \/ Start \/ WaitDone
Controller == Finish \/ Fail
=============================================================================
