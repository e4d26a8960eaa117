---------------------------- MODULE InternalFlash ----------------------------
(***************************************************************************)
(* The two users of the flash driver: MetadataStorage_ProgramSlot          *)
(* (storage/metadata_storage.c), which erases and programs a metadata      *)
(* page, and ProgramBufferedApplicationPage (image_installer.c), which     *)
(* does so for an application page and reads it back.  Both mask the       *)
(* interrupts and unlock the controller meanwhile.                         *)
(***************************************************************************)
EXTENDS FlashDriver

CONSTANTS
    Data,               \* page images to write
    MaxCalls, MaxLosses \* bounds of the calls and of the power losses

VARIABLES
    pc,
    job,                \* user, page and data of the call, and how far it is
    primask,            \* interrupts masked
    entry,              \* PRIMASK at the call
    result,
    late,               \* pages of calls that returned with the controller at work
    intact,             \* nothing failed since the call, and the controller was free
    calls, losses

clientVars == <<pc, job, primask, entry, result, late, intact, calls, losses>>
vars == <<driverVars, clientVars>>

NoJob == [user |-> "none", page |-> 1, data |-> <<>>, at |-> 1]

Init ==
    /\ DriverInit
    /\ pc = "idle" /\ job = NoJob
    /\ primask = FALSE /\ entry = FALSE
    /\ result = "none" /\ late = {} /\ intact = TRUE
    /\ calls = 0 /\ losses = 0

Goto(label) == pc' = label

-----------------------------------------------------------------------------
(* A call, by code that may itself have masked the interrupts.             *)
Call ==
    /\ pc = "idle"
    /\ calls < MaxCalls
    /\ calls' = calls + 1
    /\ \E user \in {"MetadataStorage_ProgramSlot", "ProgramBufferedApplicationPage"},
         page \in Page, data \in Data :
           job' = [user |-> user, page |-> page, data |-> data, at |-> 1]
    /\ \E masked \in BOOLEAN : entry' = masked
    /\ primask' = TRUE
    /\ intact' = (op = Idle)
    /\ result' = "none"
    /\ Goto("unlock")
    /\ UNCHANGED <<driverVars, late, losses>>

Unlock ==
    /\ pc = "unlock" /\ FLASH_Unlock /\ Goto("clear")
    /\ UNCHANGED <<job, primask, entry, result, late, intact, calls, losses>>

(* Mutant: flags of an earlier call are left in SR.                        *)
ErrorsStick ==
    /\ pc = "clear" /\ FLASH_ClearFlag({"EOP"}) /\ Goto("erase")
    /\ UNCHANGED <<job, primask, entry, result, late, intact, calls, losses>>

ClearFlags ==
    /\ pc = "clear" /\ FLASH_ClearFlag({"EOP", "PGERR", "WRPRTERR"}) /\ Goto("erase")
    /\ UNCHANGED <<job, primask, entry, result, late, intact, calls, losses>>

Erase ==
    /\ pc = "erase" /\ Begin(FLASH_ErasePage(job.page)) /\ Goto("erasing")
    /\ UNCHANGED <<job, primask, entry, result, late, intact, calls, losses>>

Returned == call.step = "returned"

EraseReturns ==
    /\ pc = "erasing" /\ Returned
    /\ IF call.ret = "COMPLETE" THEN Goto("program") /\ UNCHANGED result
       ELSE Goto("lock") /\ result' = "ERASE_FAILED"
    /\ UNCHANGED <<driverVars, job, primask, entry, late, intact, calls, losses>>

Program ==
    /\ pc = "program"
    /\ Begin(FLASH_ProgramHalfWord(job.page, job.at, job.data[job.at]))
    /\ Goto("programming")
    /\ UNCHANGED <<job, primask, entry, result, late, intact, calls, losses>>

ProgramReturns ==
    /\ pc = "programming" /\ Returned
    /\ CASE call.ret # "COMPLETE" ->
              Goto("lock") /\ result' = "PROGRAM_FAILED" /\ UNCHANGED job
         [] call.ret = "COMPLETE" /\ job.at = Len(job.data) ->
              Goto("lock") /\ result' = "OK" /\ UNCHANGED job
         [] OTHER -> Goto("program") /\ job' = [job EXCEPT !.at = @ + 1] /\ UNCHANGED result
    /\ UNCHANGED <<driverVars, primask, entry, late, intact, calls, losses>>

Lock ==
    /\ pc = "lock" /\ FLASH_Lock /\ Goto("restore")
    /\ UNCHANGED <<job, primask, entry, result, late, intact, calls, losses>>

Restore ==
    /\ pc = "restore"
    /\ primask' = entry
    /\ Goto(IF job.user = "ProgramBufferedApplicationPage" /\ result = "OK"
            THEN "verify" ELSE "idle")
    /\ late' = IF op = Idle THEN {} ELSE late \cup {job.page}
    /\ UNCHANGED <<driverVars, job, entry, result, intact, calls, losses>>

Verify ==
    /\ pc = "verify"
    /\ result' = IF \A i \in DOMAIN job.data : mem[job.page][i] = job.data[i]
                 THEN "OK" ELSE "VERIFY_FAILED"
    /\ Goto("idle")
    /\ UNCHANGED <<driverVars, job, primask, entry, late, intact, calls, losses>>

(* The driver and the controller at work.                                  *)
FlashRuns ==
    /\ Driver \/ Controller
    /\ intact' = (intact /\ faults' = faults)
    /\ UNCHANGED <<pc, job, primask, entry, result, late, calls, losses>>

Loss ==
    /\ losses < MaxLosses
    /\ losses' = losses + 1
    /\ PowerLoss
    /\ Goto("idle")
    /\ job' = NoJob /\ primask' = FALSE /\ entry' = FALSE /\ result' = "none"
    /\ late' = {} /\ intact' = TRUE
    /\ UNCHANGED calls

Next ==
    \/ Call
    \/ Unlock
    \/ ClearFlags
    \/ Erase
    \/ EraseReturns
    \/ Program
    \/ ProgramReturns
    \/ Lock
    \/ Restore
    \/ Verify
    \/ FlashRuns
    \/ Loss

Spec == Init /\ [][Next]_vars

-----------------------------------------------------------------------------
(* Properties.                                                             *)

(* Every path out of a call, the error paths too, leaves the controller    *)
(* locked and usable, without a mode bit, and the interrupts as the caller *)
(* had them: a second FLASH_Unlock of an unlocked controller would shut it *)
(* until reset.                                                            *)
LeavesClean ==
    /\ ~dead
    /\ pc = "idle" => /\ cr = {"LOCK"}
                      /\ result # "none" => primask = entry

(* OK means the page holds the data, whatever failed, timed out or lost    *)
(* power in this or an earlier call.                                       *)
OkIsStored ==
    (pc = "idle" /\ result = "OK") => \A i \in DOMAIN job.data : mem[job.page][i] = job.data[i]

(* A page changes only as the page of the call in progress or, when the    *)
(* call timed out, of one that returned with the controller still at work. *)
TouchesItsPage ==
    \A p \in Page : mem'[p] # mem[p] => (pc # "idle" /\ job.page = p) \/ p \in late

(* A call in which nothing fails, made when the controller is free,        *)
(* succeeds: errors of earlier calls do not stick.                         *)
ErrorsDoNotStick == (pc = "idle" /\ result # "none" /\ intact) => result = "OK"
=============================================================================
