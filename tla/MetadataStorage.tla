--------------------------- MODULE MetadataStorage ---------------------------
(***************************************************************************)
(* The two-page (A/B) metadata store in internal flash                     *)
(* (bootloader/storage/metadata_storage.c with the generation and slot     *)
(* rules of shared/src/boot_metadata.c).  A commit selects the page that   *)
(* is not the newest valid one, erases it, programs it half-word by        *)
(* half-word with the CRC last, and reads it back.  Power may be lost and  *)
(* the flash controller may fail between and during any of these.          *)
(*                                                                         *)
(* A page is abstracted to whether its CRC matches, its generation and its *)
(* body; every unreadable page (erased, half erased, half programmed) is   *)
(* Torn.  Generations are unsigned integers modulo 2 * GenHalf (the code:  *)
(* GenHalf = 2^31).                                                        *)
(***************************************************************************)
EXTENDS Integers

CONSTANTS Bodies, ValidBodies, DefaultBody, GenHalf

ASSUME BodiesAssumption == ValidBodies \subseteq Bodies /\ DefaultBody \in ValidBodies
ASSUME GenAssumption == GenHalf \in Nat /\ GenHalf > 2

VARIABLES
    page,    \* page["A"], page["B"]: the contents of the two flash pages
    call,    \* the commit in progress: where it is, its target, its candidate
    status   \* what the last call of MetadataStorage_Commit returned

vars == <<page, call, status>>

Slots == {"A", "B"}
Other(s) == IF s = "A" THEN "B" ELSE "A"

GenModulus == 2 * GenHalf
Generation == 0..(GenModulus - 1)

Page == [crc_ok : BOOLEAN, generation : Generation, body : Bodies]
Torn == [crc_ok |-> FALSE, generation |-> 0, body |-> DefaultBody]

Step == {"idle", "erase", "program", "verify"}
Status == {"NONE", "BUSY", "OK", "INVALID_ARGUMENT", "ERASE_FAILED",
           "PROGRAM_FAILED", "VERIFY_FAILED"}
NoCall == [pc |-> "idle", target |-> "A", candidate |-> Torn]

-----------------------------------------------------------------------------
(* Pure part: validity, generations and slot selection.                    *)

BootMetadata_Validate(p) ==
    p.crc_ok /\ p.generation # 0 /\ p.body \in ValidBodies

(* uint32_t subtraction a - b                                              *)
Difference(a, b) == IF a >= b THEN a - b ELSE a + GenModulus - b

(* Mutant: comparison without wrap-around.                                 *)
GreaterGeneration(candidate, reference) == candidate > reference

BootMetadata_IsGenerationNewer(candidate, reference) ==
    /\ Difference(candidate, reference) # 0
    /\ Difference(candidate, reference) < GenHalf

(* Mutant: no wrap-around.                                                 *)
UnwrappedGeneration(g) == g + 1

BootMetadata_NextGeneration(g) == IF g + 1 = GenModulus THEN 1 ELSE g + 1

BootMetadata_SelectNewestSlot(pg) ==
    CASE ~BootMetadata_Validate(pg["A"]) /\ ~BootMetadata_Validate(pg["B"]) -> "NONE"
      [] ~BootMetadata_Validate(pg["A"]) /\ BootMetadata_Validate(pg["B"]) -> "B"
      [] BootMetadata_Validate(pg["A"]) /\ ~BootMetadata_Validate(pg["B"]) -> "A"
      [] OTHER -> IF BootMetadata_IsGenerationNewer(pg["B"].generation,
                                                    pg["A"].generation)
                    THEN "B" ELSE "A"

(* Mutant: the newest slot is written over.                                *)
WriteNewestSlot(pg) == IF BootMetadata_SelectNewestSlot(pg) = "A" THEN "A" ELSE "B"

BootMetadata_SelectWriteSlot(pg) ==
    IF BootMetadata_SelectNewestSlot(pg) = "A" THEN "B" ELSE "A"

(* MetadataStorage_Load: the newest valid body, or the defaults.           *)
MetadataStorage_Load(pg) ==
    LET newest == BootMetadata_SelectNewestSlot(pg)
    IN  IF newest = "NONE" THEN DefaultBody ELSE pg[newest].body

CurrentGeneration(pg) ==
    LET newest == BootMetadata_SelectNewestSlot(pg)
    IN  IF newest = "NONE" THEN 0 ELSE pg[newest].generation

Candidate(pg, b) ==
    [crc_ok |-> TRUE, body |-> b,
     generation |-> BootMetadata_NextGeneration(CurrentGeneration(pg))]

-----------------------------------------------------------------------------
Init ==
    /\ page = [s \in Slots |-> Torn]
    /\ call = NoCall
    /\ status = "NONE"

(* MetadataStorage_Commit up to the validation of the candidate.           *)
Commit(b) ==
    /\ call.pc = "idle"
    /\ LET c == Candidate(page, b)
       IN  IF BootMetadata_Validate(c)
             THEN /\ call' = [pc |-> "erase", candidate |-> c,
                              target |-> BootMetadata_SelectWriteSlot(page)]
                  /\ status' = "BUSY"
             ELSE status' = "INVALID_ARGUMENT" /\ UNCHANGED call
    /\ UNCHANGED page

Return(s) == call' = NoCall /\ status' = s

(* FLASH_ErasePage: from here on the target page is unreadable.            *)
ErasePage ==
    /\ call.pc = "erase"
    /\ page' = [page EXCEPT ![call.target] = Torn]
    /\ call' = [call EXCEPT !.pc = "program"]
    /\ UNCHANGED status

(* A failing erase may or may not have destroyed the target page.          *)
EraseFails ==
    /\ call.pc = "erase"
    /\ \E p \in {page[call.target], Torn} :
          page' = [page EXCEPT ![call.target] = p]
    /\ Return("ERASE_FAILED")

(* The half-word loop has written the CRC, its last word: what is left is  *)
(* the wait for its end and the read-back.                                 *)
ProgramSlot ==
    /\ call.pc = "program"
    /\ page' = [page EXCEPT ![call.target] = call.candidate]
    /\ call' = [call EXCEPT !.pc = "verify"]
    /\ UNCHANGED status

(* The loop ends without an error but some bits did not take.              *)
ProgramCorrupts ==
    /\ call.pc = "program"
    /\ call' = [call EXCEPT !.pc = "verify"]
    /\ UNCHANGED <<page, status>>

(* FLASH_ProgramHalfWord reports an error or a timeout.  The record may be *)
(* complete all the same: the wait for its last half-word ran out and the  *)
(* controller finished it, or the half-words missing are 0xFFFF.  The      *)
(* error is returned without a read-back either way.                       *)
ProgramFails ==
    /\ call.pc \in {"program", "verify"}
    /\ Return("PROGRAM_FAILED")
    /\ UNCHANGED page

(* The read-back comparison at the end of MetadataStorage_Commit.          *)
Verify ==
    /\ call.pc = "verify"
    /\ Return(IF /\ BootMetadata_Validate(page[call.target])
                 /\ page[call.target] = call.candidate
                THEN "OK" ELSE "VERIFY_FAILED")
    /\ UNCHANGED page

(* Reset: RAM is lost, flash keeps whatever it holds.                      *)
PowerLoss ==
    /\ Return("NONE")
    /\ UNCHANGED page

Next ==
    \/ \E b \in Bodies : Commit(b)
    \/ ErasePage
    \/ EraseFails
    \/ ProgramSlot
    \/ ProgramCorrupts
    \/ ProgramFails
    \/ Verify
    \/ PowerLoss

Spec == Init /\ [][Next]_vars

-----------------------------------------------------------------------------
TypeOK ==
    /\ page \in [Slots -> Page]
    /\ call \in [pc : Step, target : Slots, candidate : Page]
    /\ status \in Status

(* While a commit runs, its target is never the page that Load selects,    *)
(* the candidate is one generation ahead of the page that stays, and the   *)
(* target holds nothing readable other than its old record (before the     *)
(* erase) or the candidate (after programming).                            *)
CommitInProgress ==
    call.pc # "idle" =>
        /\ BootMetadata_Validate(call.candidate)
        /\ call.candidate.generation =
              BootMetadata_NextGeneration(
                 IF BootMetadata_Validate(page[Other(call.target)])
                   THEN page[Other(call.target)].generation ELSE 0)
        /\ call.pc = "erase" => call.target = BootMetadata_SelectWriteSlot(page)
        /\ call.pc = "program" => page[call.target] = Torn
        /\ call.pc = "verify" => page[call.target] \in {Torn, call.candidate}

(* The types, and what is known of a commit in progress: the invariant     *)
(* that every step of MetadataStorage_Commit preserves.                    *)
IndInv == TypeOK /\ CommitInProgress

(* The page that holds the newest valid record is never erased or          *)
(* programmed by any step of a commit, failing or not.                     *)
NewestNeverErased ==
    [][LET newest == BootMetadata_SelectNewestSlot(page)
       IN  newest # "NONE" => page'[newest] = page[newest]]_vars

(* A/B paging implements an atomic register: see MetadataRegister.         *)
Register == INSTANCE MetadataRegister WITH
    value <- MetadataStorage_Load(page),
    pending <- IF call.pc = "idle" THEN {} ELSE {call.candidate.body},
    applied <- call.pc = "verify" /\ page[call.target] = call.candidate,
    status <- CASE status \in {"ERASE_FAILED", "VERIFY_FAILED"} -> "REJECTED"
                [] status = "PROGRAM_FAILED" -> "UNKNOWN"
                [] OTHER -> status

AtomicCommit == Register!Spec

=============================================================================
