----------------------------- MODULE StorageProofs -----------------------------
(***************************************************************************)
(* For every set of records and every generation width with GenHalf > 2:   *)
(* the A/B store keeps its types and its in-progress invariant, never      *)
(* touches the page that holds the newest record, and implements the       *)
(* atomic register.  The last theorems carry these results, and those of   *)
(* ExternalMetadata and BackupStorage, over to the specification that is   *)
(* run; the constants of all three are constants there too.                *)
(***************************************************************************)
EXTENDS MCStorage, TLAPS

USE BodiesAssumption, GenAssumption

(* The next generation is in range and never the invalid generation 0.     *)
LEMMA NextGenerationType ==
    ASSUME NEW g \in Generation
    PROVE  /\ BootMetadata_NextGeneration(g) \in Generation
           /\ BootMetadata_NextGeneration(g) # 0
BY DEF BootMetadata_NextGeneration, Generation, GenModulus

(* The successor of a generation is newer than it, and not conversely,     *)
(* also across the wrap to 1.                                              *)
LEMMA NextGenerationIsNewer ==
    ASSUME NEW g \in Generation, g # 0
    PROVE  /\ BootMetadata_IsGenerationNewer(BootMetadata_NextGeneration(g), g)
           /\ ~BootMetadata_IsGenerationNewer(g, BootMetadata_NextGeneration(g))
BY DEF BootMetadata_NextGeneration, BootMetadata_IsGenerationNewer, Difference,
       Generation, GenModulus

(* The newest slot is NONE exactly when no page is valid, and is valid     *)
(* otherwise.                                                              *)
LEMMA NewestIsValid ==
    ASSUME NEW pg \in [Slots -> Page]
    PROVE  LET n == BootMetadata_SelectNewestSlot(pg)
           IN  /\ n \in Slots \cup {"NONE"}
               /\ n = "NONE" <=> \A s \in Slots : ~BootMetadata_Validate(pg[s])
               /\ n # "NONE" => BootMetadata_Validate(pg[n])
BY DEF BootMetadata_SelectNewestSlot, Slots

(* An unreadable page is not valid.                                        *)
LEMMA TornIsInvalid == ~BootMetadata_Validate(Torn) /\ Torn \in Page
BY DEF BootMetadata_Validate, Torn, Page, Generation, GenModulus

(* Making the page that is written unreadable does not change what Load    *)
(* selects.                                                                *)
LEMMA EraseKeepsNewest ==
    ASSUME NEW pg \in [Slots -> Page], NEW t \in Slots,
           BootMetadata_SelectNewestSlot(pg) # t
    PROVE  BootMetadata_SelectNewestSlot([pg EXCEPT ![t] = Torn]) =
              BootMetadata_SelectNewestSlot(pg)
<1>1. ASSUME NEW s \in Slots, s # t
      PROVE  [pg EXCEPT ![t] = Torn][s] = pg[s]
  BY <1>1
<1>2. [pg EXCEPT ![t] = Torn][t] = Torn
  OBVIOUS
<1>3. CASE t = "A"
  BY <1>1, <1>2, <1>3, TornIsInvalid DEF BootMetadata_SelectNewestSlot, Slots
<1>4. CASE t = "B"
  BY <1>1, <1>2, <1>4, TornIsInvalid DEF BootMetadata_SelectNewestSlot, Slots
<1> QED BY <1>3, <1>4 DEF Slots

(* Programming a candidate one generation ahead of the other page makes    *)
(* Load select it.                                                         *)
LEMMA ProgramSelectsCandidate ==
    ASSUME NEW pg \in [Slots -> Page], NEW t \in Slots, NEW c \in Page,
           BootMetadata_Validate(c),
           c.generation = BootMetadata_NextGeneration(
               IF BootMetadata_Validate(pg[Other(t)])
                 THEN pg[Other(t)].generation ELSE 0)
    PROVE  BootMetadata_SelectNewestSlot([pg EXCEPT ![t] = c]) = t
<1> DEFINE q == [pg EXCEPT ![t] = c]
           o == Other(t)
<1>1. /\ o \in Slots
      /\ o # t
      /\ q[t] = c
      /\ q[o] = pg[o]
      /\ pg[o].generation \in Generation
  BY DEF Slots, Other, Page
<1>2. CASE ~BootMetadata_Validate(pg[o])
  BY <1>1, <1>2 DEF BootMetadata_SelectNewestSlot, Slots, Other
<1>3. CASE BootMetadata_Validate(pg[o])
  <2>1. pg[o].generation # 0 /\ c.generation = BootMetadata_NextGeneration(pg[o].generation)
    BY <1>3 DEF BootMetadata_Validate
  <2>2. /\ BootMetadata_IsGenerationNewer(c.generation, pg[o].generation)
        /\ ~BootMetadata_IsGenerationNewer(pg[o].generation, c.generation)
    BY <1>1, <2>1, NextGenerationIsNewer
  <2>3. CASE t = "A"
    BY <1>1, <1>3, <2>2, <2>3 DEF BootMetadata_SelectNewestSlot, Other
  <2>4. CASE t = "B"
    BY <1>1, <1>3, <2>2, <2>4 DEF BootMetadata_SelectNewestSlot, Other
  <2> QED BY <2>3, <2>4 DEF Slots
<1> QED BY <1>2, <1>3

(* A candidate built from the current pages has the type of a page.        *)
LEMMA CandidateType ==
    ASSUME NEW pg \in [Slots -> Page], NEW b \in Bodies
    PROVE  Candidate(pg, b) \in Page
<1>1. CurrentGeneration(pg) \in Generation
  <2>1. 0 \in Generation
    BY DEF Generation, GenModulus
  <2>2. ASSUME NEW s \in Slots PROVE pg[s].generation \in Generation
    BY DEF Page
  <2> QED BY <2>1, <2>2, NewestIsValid DEF CurrentGeneration
<1> QED BY <1>1, NextGenerationType DEF Candidate, Page

(* The candidate of a commit is one generation ahead of the page that is   *)
(* not written.                                                            *)
LEMMA CandidateGeneration ==
    ASSUME NEW pg \in [Slots -> Page], NEW b \in Bodies
    PROVE  LET o == Other(BootMetadata_SelectWriteSlot(pg))
           IN  Candidate(pg, b).generation =
                 BootMetadata_NextGeneration(
                    IF BootMetadata_Validate(pg[o]) THEN pg[o].generation ELSE 0)
<1> DEFINE n == BootMetadata_SelectNewestSlot(pg)
<1>1. CASE n = "NONE"
  BY <1>1, NewestIsValid
     DEF Candidate, CurrentGeneration, BootMetadata_SelectWriteSlot, Other, Slots
<1>2. CASE n \in Slots
  <2>1. BootMetadata_Validate(pg[n]) /\ n # "NONE"
    BY <1>2, NewestIsValid DEF Slots
  <2>2. Other(BootMetadata_SelectWriteSlot(pg)) = n
    BY <1>2 DEF BootMetadata_SelectWriteSlot, Other, Slots
  <2> QED BY <2>1, <2>2 DEF Candidate, CurrentGeneration
<1> QED BY <1>1, <1>2, NewestIsValid

-----------------------------------------------------------------------------
(* Type correctness of the two flash pages and of the commit in progress.  *)
THEOREM TypeCorrect == Spec => []TypeOK
<1>1. Init => TypeOK
  BY TornIsInvalid DEF Init, TypeOK, NoCall, Step, Slots, Status
<1>2. TypeOK /\ [Next]_vars => TypeOK'
  <2> SUFFICES ASSUME TypeOK, [Next]_vars PROVE TypeOK'
    OBVIOUS
  <2> USE DEF TypeOK
  <2>0. NoCall \in [pc : Step, target : Slots, candidate : Page]
    BY TornIsInvalid DEF NoCall, Step, Slots
  <2>1. ASSUME NEW b \in Bodies, Commit(b) PROVE TypeOK'
    <3>1. BootMetadata_SelectWriteSlot(page) \in Slots
      BY DEF BootMetadata_SelectWriteSlot, Slots
    <3> QED BY <2>1, <3>1, CandidateType DEF Commit, Step, Status
  <2>2. CASE ErasePage
    BY <2>2, TornIsInvalid DEF ErasePage, Step
  <2>3. CASE EraseFails
    BY <2>0, <2>3, TornIsInvalid DEF EraseFails, Return, Status
  <2>4. CASE ProgramSlot
    BY <2>4 DEF ProgramSlot, Step
  <2>5. CASE ProgramCorrupts
    BY <2>5 DEF ProgramCorrupts, Step
  <2>6. CASE ProgramFails
    BY <2>0, <2>6 DEF ProgramFails, Return, Status
  <2>7. CASE Verify
    BY <2>0, <2>7 DEF Verify, Return, Status
  <2>8. CASE PowerLoss
    BY <2>0, <2>8 DEF PowerLoss, Return, Status
  <2>9. CASE UNCHANGED vars
    BY <2>9 DEF vars
  <2> QED
    BY <2>1, <2>2, <2>3, <2>4, <2>5, <2>6, <2>7, <2>8, <2>9 DEF Next
<1> QED BY <1>1, <1>2, PTL DEF Spec

(* A commit in progress targets the page Load does not select, with a       *)
(* candidate one generation ahead of the page that stays: the inductive    *)
(* strengthening from which the other theorems follow.                     *)
THEOREM InProgressInvariant == Spec => []CommitInProgress
<1>1. Init => CommitInProgress
  BY DEF Init, CommitInProgress, NoCall
<1>2. IndInv /\ [Next]_vars => CommitInProgress'
  <2> SUFFICES ASSUME TypeOK, CommitInProgress, [Next]_vars
               PROVE  CommitInProgress'
    BY DEF IndInv
  <2>0. ASSUME call' = NoCall PROVE CommitInProgress'
    BY <2>0 DEF CommitInProgress, NoCall
  <2>1. ASSUME NEW b \in Bodies, Commit(b) PROVE CommitInProgress'
    <3>1. CASE BootMetadata_Validate(Candidate(page, b))
      <4>1. /\ call' = [pc |-> "erase", candidate |-> Candidate(page, b),
                        target |-> BootMetadata_SelectWriteSlot(page)]
            /\ page' = page
        BY <2>1, <3>1 DEF Commit
      <4> QED
        BY <3>1, <4>1, CandidateGeneration DEF CommitInProgress, TypeOK
    <3>2. CASE ~BootMetadata_Validate(Candidate(page, b))
      BY <2>1, <3>2 DEF Commit, CommitInProgress
    <3> QED BY <3>1, <3>2
  <2>2. CASE ErasePage
    <3>1. /\ call.pc = "erase"
          /\ call' = [call EXCEPT !.pc = "program"]
          /\ page' = [page EXCEPT ![call.target] = Torn]
          /\ call.target \in Slots
      BY <2>2 DEF ErasePage, TypeOK
    <3>2. /\ call'.pc = "program"
          /\ call'.target = call.target
          /\ call'.candidate = call.candidate
      BY <3>1 DEF TypeOK
    <3>3. page'[call.target] = Torn /\ page'[Other(call.target)] = page[Other(call.target)]
      BY <3>1 DEF TypeOK, Slots, Other
    <3> QED BY <3>1, <3>2, <3>3 DEF CommitInProgress
  <2>3. CASE EraseFails
    BY <2>0, <2>3 DEF EraseFails, Return
  <2>4. CASE ProgramSlot
    <3>1. /\ call.pc = "program"
          /\ call' = [call EXCEPT !.pc = "verify"]
          /\ page' = [page EXCEPT ![call.target] = call.candidate]
          /\ call.target \in Slots
      BY <2>4 DEF ProgramSlot, TypeOK
    <3>2. /\ call'.pc = "verify"
          /\ call'.target = call.target
          /\ call'.candidate = call.candidate
      BY <3>1 DEF TypeOK
    <3>3. /\ page'[call.target] = call.candidate
          /\ page'[Other(call.target)] = page[Other(call.target)]
      BY <3>1 DEF TypeOK, Slots, Other
    <3> QED BY <3>1, <3>2, <3>3 DEF CommitInProgress
  <2>5. CASE ProgramCorrupts
    <3>1. /\ call.pc = "program"
          /\ call'.pc = "verify"
          /\ call'.target = call.target
          /\ call'.candidate = call.candidate
          /\ page' = page
      BY <2>5 DEF ProgramCorrupts, TypeOK
    <3> QED BY <3>1 DEF CommitInProgress
  <2>6. CASE ProgramFails
    BY <2>0, <2>6 DEF ProgramFails, Return
  <2>7. CASE Verify
    BY <2>0, <2>7 DEF Verify, Return
  <2>8. CASE PowerLoss
    BY <2>0, <2>8 DEF PowerLoss, Return
  <2>9. CASE UNCHANGED vars
    BY <2>9 DEF vars, CommitInProgress
  <2> QED
    BY <2>1, <2>2, <2>3, <2>4, <2>5, <2>6, <2>7, <2>8, <2>9 DEF Next
<1> QED BY <1>1, <1>2, TypeCorrect, PTL DEF Spec, IndInv

(* The two together: every step of MetadataStorage_Commit, failing or not, *)
(* and every power loss preserve the invariant that TLC checks.            *)
THEOREM InductiveInvariant == Spec => []IndInv
BY TypeCorrect, InProgressInvariant, PTL DEF IndInv

(* The page a running commit writes is not the newest one.                 *)
LEMMA TargetIsNotNewest ==
    ASSUME IndInv, call.pc \in {"erase", "program"}
    PROVE  BootMetadata_SelectNewestSlot(page) # call.target
<1>1. CASE call.pc = "erase"
  BY <1>1 DEF IndInv, CommitInProgress, BootMetadata_SelectWriteSlot
<1>2. CASE call.pc = "program"
  BY <1>2, NewestIsValid, TornIsInvalid DEF IndInv, TypeOK, CommitInProgress, Slots
<1> QED BY <1>1, <1>2

(* No step of a commit writes the page that holds the newest record.       *)
THEOREM NewestSurvives == Spec => NewestNeverErased
<1>1. ASSUME IndInv, [Next]_vars
      PROVE  LET n == BootMetadata_SelectNewestSlot(page)
             IN  n # "NONE" => page'[n] = page[n]
  <2> DEFINE n == BootMetadata_SelectNewestSlot(page)
  <2> SUFFICES ASSUME n # "NONE" PROVE page'[n] = page[n]
    OBVIOUS
  <2> USE DEF IndInv, TypeOK
  <2>0. n \in Slots
    BY <1>1, NewestIsValid
  <2>1. ASSUME UNCHANGED page PROVE page'[n] = page[n]
    BY <2>1
  <2>2. ASSUME call.pc \in {"erase", "program"}, NEW p,
               page' = [page EXCEPT ![call.target] = p]
        PROVE  page'[n] = page[n]
    BY <1>1, <2>0, <2>2, TargetIsNotNewest
  <2> QED
    BY <1>1, <2>1, <2>2
       DEF Next, Commit, ErasePage, EraseFails, ProgramSlot, ProgramCorrupts,
           ProgramFails, Verify, PowerLoss, vars
<1> QED
  BY <1>1, TypeCorrect, InProgressInvariant, PTL DEF Spec, NewestNeverErased, IndInv

(* Every behaviour of the A/B store is a behaviour of the atomic register: *)
(* erasing stutters, the write of the CRC is the instant a commit takes    *)
(* effect, OK and every error but PROGRAM_FAILED tell whether it did, and  *)
(* after PROGRAM_FAILED, as after a power loss, it may or may not have.    *)
THEOREM ImplementsRegister == Spec => AtomicCommit
<1>1. Init => Register!Init
  <2> SUFFICES ASSUME Init PROVE Register!Init
    OBVIOUS
  <2>1. page["A"] = Torn /\ page["B"] = Torn
    BY DEF Init, Slots
  <2>2. BootMetadata_SelectNewestSlot(page) = "NONE"
    BY <2>1, TornIsInvalid DEF BootMetadata_SelectNewestSlot
  <2> QED BY <2>2 DEF Init, Register!Init, MetadataStorage_Load, NoCall
<1>2. IndInv /\ [Next]_vars => [Register!Next]_Register!vars
  <2> SUFFICES ASSUME IndInv, [Next]_vars
               PROVE  Register!Next \/ UNCHANGED Register!vars
    OBVIOUS
  <2> USE DEF IndInv, TypeOK
  <2>1. ASSUME NEW b \in Bodies, Commit(b) PROVE Register!Next
    <3>1. Candidate(page, b).body = b
      BY DEF Candidate
    <3>2. CASE BootMetadata_Validate(Candidate(page, b))
      <4>1. /\ call.pc = "idle"
            /\ call'.pc = "erase"
            /\ call'.candidate.body = b
            /\ status' = "BUSY"
            /\ page' = page
        BY <2>1, <3>1, <3>2 DEF Commit
      <4>2. b \in ValidBodies
        BY <3>1, <3>2 DEF BootMetadata_Validate
      <4>3. Register!Request(b)
        BY <4>1, <4>2 DEF Register!Request
      <4> QED BY <4>3 DEF Register!Next
    <3>3. CASE ~BootMetadata_Validate(Candidate(page, b))
      <4>1. /\ call.pc = "idle"
            /\ call' = call
            /\ status' = "INVALID_ARGUMENT"
            /\ page' = page
        BY <2>1, <3>3 DEF Commit
      <4>2. CurrentGeneration(page) \in Generation
        <5>1. 0 \in Generation
          BY DEF Generation, GenModulus
        <5> QED BY <5>1, NewestIsValid DEF CurrentGeneration, Page
      <4>3. b \notin ValidBodies
        BY <3>1, <3>3, <4>2, NextGenerationType DEF BootMetadata_Validate, Candidate
      <4>4. Register!Refuse(b)
        BY <4>1, <4>3 DEF Register!Refuse
      <4> QED BY <4>4 DEF Register!Next
    <3> QED BY <3>2, <3>3
  <2>2. ASSUME call.pc \in {"erase", "program"},
               page' = page \/ page' = [page EXCEPT ![call.target] = Torn]
        PROVE  MetadataStorage_Load(page') = MetadataStorage_Load(page)
    <3>1. CASE page' = page
      BY <3>1
    <3>2. CASE page' = [page EXCEPT ![call.target] = Torn]
      <4> DEFINE n == BootMetadata_SelectNewestSlot(page)
      <4>1. n # call.target /\ BootMetadata_SelectNewestSlot(page') = n
        BY <2>2, <3>2, TargetIsNotNewest, EraseKeepsNewest
      <4>2. n \in Slots => page'[n] = page[n]
        BY <3>2, <4>1
      <4>3. n \in Slots \cup {"NONE"}
        BY NewestIsValid
      <4> QED BY <4>1, <4>2, <4>3 DEF MetadataStorage_Load, Slots
    <3> QED BY <2>2, <3>1, <3>2
  <2>3. CASE ErasePage
    <3>1. /\ call.pc = "erase"
          /\ call'.pc = "program"
          /\ call'.candidate = call.candidate
          /\ status' = status
          /\ page' = [page EXCEPT ![call.target] = Torn]
      BY <2>3 DEF ErasePage
    <3>2. MetadataStorage_Load(page') = MetadataStorage_Load(page)
      BY <2>2, <3>1
    <3> QED BY <3>1, <3>2 DEF Register!vars
  <2>4. CASE EraseFails
    <3>1. /\ call.pc = "erase"
          /\ call'.pc = "idle"
          /\ status' = "ERASE_FAILED"
      BY <2>4 DEF EraseFails, Return, NoCall
    <3>2. page' = page \/ page' = [page EXCEPT ![call.target] = Torn]
      BY <2>4 DEF EraseFails
    <3>3. MetadataStorage_Load(page') = MetadataStorage_Load(page)
      BY <2>2, <3>1, <3>2
    <3>4. Register!Fail
      BY <3>1, <3>3 DEF Register!Fail
    <3> QED BY <3>4 DEF Register!Next
  <2>5. CASE ProgramSlot
    <3>1. /\ call.pc = "program"
          /\ call'.pc = "verify"
          /\ call'.candidate = call.candidate
          /\ call'.target = call.target
          /\ status' = status
          /\ page' = [page EXCEPT ![call.target] = call.candidate]
      BY <2>5 DEF ProgramSlot
    <3>2. BootMetadata_SelectNewestSlot(page') = call.target
      BY <3>1, ProgramSelectsCandidate DEF CommitInProgress
    <3>3. page'[call.target] = call.candidate
      BY <3>1
    <3>4. MetadataStorage_Load(page') = call.candidate.body
      BY <3>2, <3>3 DEF MetadataStorage_Load, Slots
    <3>5. Register!Apply
      BY <3>1, <3>3, <3>4 DEF Register!Apply
    <3> QED BY <3>5 DEF Register!Next
  <2>6. CASE ProgramCorrupts
    <3>1. /\ call.pc = "program"
          /\ call'.pc = "verify"
          /\ call'.candidate = call.candidate
          /\ call'.target = call.target
          /\ status' = status
          /\ page' = page
      BY <2>6 DEF ProgramCorrupts
    <3>2. page[call.target] # call.candidate
      BY <3>1, TornIsInvalid DEF CommitInProgress
    <3> QED BY <3>1, <3>2 DEF Register!vars
  <2>7. CASE ProgramFails
    <3>1. /\ call.pc \in {"program", "verify"}
          /\ call'.pc = "idle"
          /\ status' = "PROGRAM_FAILED"
          /\ page' = page
      BY <2>7 DEF ProgramFails, Return, NoCall
    <3>2. Register!Unclear
      BY <3>1 DEF Register!Unclear
    <3> QED BY <3>2 DEF Register!Next
  <2>8. CASE Verify
    <3>1. /\ call.pc = "verify"
          /\ call'.pc = "idle"
          /\ page' = page
      BY <2>8 DEF Verify, Return, NoCall
    <3>2. CASE page[call.target] = call.candidate
      <4>1. status' = "OK"
        BY <2>8, <3>1, <3>2 DEF Verify, Return, CommitInProgress
      <4>2. Register!Succeed
        BY <3>1, <3>2, <4>1 DEF Register!Succeed
      <4> QED BY <4>2 DEF Register!Next
    <3>3. CASE page[call.target] # call.candidate
      <4>1. status' = "VERIFY_FAILED"
        BY <2>8, <3>3 DEF Verify, Return
      <4>2. Register!Fail
        BY <3>1, <3>3, <4>1 DEF Register!Fail
      <4> QED BY <4>2 DEF Register!Next
    <3> QED BY <3>2, <3>3
  <2>9. CASE PowerLoss
    <3>1. call'.pc = "idle" /\ status' = "NONE" /\ page' = page
      BY <2>9 DEF PowerLoss, Return, NoCall
    <3>2. Register!PowerLoss
      BY <3>1 DEF Register!PowerLoss
    <3> QED BY <3>2 DEF Register!Next
  <2>10. CASE UNCHANGED vars
    BY <2>10 DEF vars, Register!vars
  <2> QED
    BY <2>1, <2>3, <2>4, <2>5, <2>6, <2>7, <2>8, <2>9, <2>10 DEF Next
<1> QED
  BY <1>1, <1>2, TypeCorrect, InProgressInvariant, PTL
     DEF Spec, AtomicCommit, Register!Spec, IndInv

-----------------------------------------------------------------------------
(* What is run is, seen from the boot record, its specification.           *)
LEMMA BenchRunsRecord == StorageSpec => Spec
<1>1. StorageInit => Init
  BY DEF StorageInit
<1>2. [StorageNext]_storageVars => [Next]_vars
  BY DEF StorageNext, storageVars
<1> QED BY <1>1, <1>2, PTL DEF StorageSpec, Spec

(* Seen from the metadata sectors, it is the one of these.                 *)
LEMMA BenchRunsSectors == StorageSpec => Sectors!Spec
<1>1. StorageInit => Sectors!Init
  BY DEF StorageInit
<1>2. [StorageNext]_storageVars => [Sectors!Next]_(Sectors!vars)
  BY DEF StorageNext, storageVars, sectorVars, Sectors!vars
<1> QED BY <1>1, <1>2, PTL DEF StorageSpec, Sectors!Spec

(* Seen from the Backup partition, it is the one of that.                  *)
LEMMA BenchRunsBackup == StorageSpec => Backup!Spec
<1>1. StorageInit => Backup!Init
  BY DEF StorageInit
<1>2. [StorageNext]_storageVars => [Backup!Next]_(Backup!vars)
  BY DEF StorageNext, storageVars, backupVars, Backup!vars
<1> QED BY <1>1, <1>2, PTL DEF StorageSpec, Backup!Spec

(* MetadataStorage_Commit and _Load where all three are run: the invariant *)
(* holds, the newest record is never erased, and the pages implement the   *)
(* atomic register.                                                        *)
THEOREM RecordIsARegister == StorageSpec => []IndInv /\ NewestNeverErased /\ AtomicCommit
BY BenchRunsRecord, InductiveInvariant, NewestSurvives, ImplementsRegister, PTL

(* DownloadCheckpointStorage_Commit and UpdateHandoffStorage_Commit, for   *)
(* all bodies of both kinds, every generation width and every fault: a     *)
(* commit is atomic for its own kind, OK means loaded, and without a       *)
(* failure the other kind is not disturbed (ExternalMetadata,              *)
(* BothKindsAreKept).                                                      *)
THEOREM SectorsKeepBothKinds == StorageSpec => BothKindsKept
<1>1. Sectors!Spec => Sectors!BothKindsKept
  BY StorageAssumption, Sectors!BothKindsAreKept
<1> QED BY <1>1, BenchRunsSectors, PTL DEF BothKindsKept

(* DownloadCheckpointStorage_Commit and _Load, where only checkpoints are  *)
(* written: the sectors implement the atomic register for all bodies,      *)
(* generation widths and faults (ExternalMetadata, CheckpointsAreAtomic).  *)
THEOREM SectorsAreARegister == StorageSpec => AtomicCheckpoint
<1>1. Sectors!Spec => Sectors!AtomicCheckpoint
  BY StorageAssumption, Sectors!CheckpointsAreAtomic
<1> QED BY <1>1, BenchRunsSectors, PTL DEF AtomicCheckpoint

(* BackupImageStorage and ImageInstaller, for every size of the region and *)
(* of the sectors, every failure and every power cut: the backup that      *)
(* loads is the image the update started from (BackupStorage,              *)
(* BackupHoldsOriginal).                                                   *)
THEOREM BackupStaysOriginal == StorageSpec => []BackupIsOriginal
<1>1. Backup!Spec => []Backup!BackupIsOriginal
  BY StorageAssumption, Backup!BackupHoldsOriginal
<1> QED BY <1>1, BenchRunsBackup, PTL DEF BackupIsOriginal

===============================================================================
