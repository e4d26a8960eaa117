-------------------------- MODULE ExternalMetadata --------------------------
(***************************************************************************)
(* The two metadata sectors of the external flash and the two kinds of     *)
(* redundant record that share them at different offsets: the download     *)
(* checkpoint ("C") and the install handoff ("H").  Each kind has its own  *)
(* generations and chooses its own sector, so that a commit of one kind    *)
(* may have to erase the sector that holds the newest record of the other, *)
(* which is read before and written back after.                            *)
(*                                                                         *)
(* A record is its generation, its body and whether its CRC matches; Torn  *)
(* stands for every record that does not validate.  Generations are        *)
(* integers modulo 2 * GenHalf (the code: GenHalf = 2^31).                 *)
(***************************************************************************)
EXTENDS Naturals, TLAPS

CONSTANTS
    KindSets,     \* the kinds of record that may be in use together
    Bodies,       \* Bodies[k]: what callers ask to be committed
    GenHalf,
    MIN_IMAGE, MAX_IMAGE, INCOMING, SECTOR,
    Faults        \* may operations fail and power be lost?

(* What the constants have to satisfy.                                     *)
ExternalAssumption ==
    /\ KindSets \subseteq SUBSET {"C", "H"} /\ GenHalf \in Nat /\ GenHalf > 2 /\ Faults \in BOOLEAN
    /\ SECTOR \in Nat \ {0}

VARIABLES
    sector,    \* sector[s][k]: the record of kind k in sector s
    call,      \* the commit in progress
    status,    \* what the last commit returned
    promised,  \* history: promised[k], the bodies that Load may return
    faulted,   \* history: an operation has failed or power was lost
    kinds      \* environment: the kinds of record that are written

vars == <<sector, call, status, promised, faulted, kinds>>

Slots == {"A", "B"}
AllKinds == {"C", "H"}
Partner(k) == IF k = "C" THEN "H" ELSE "C"

NoBody == [none |-> TRUE]
Torn == [crc_ok |-> FALSE, generation |-> 0, body |-> NoBody]
Record(g, b) == [crc_ok |-> TRUE, generation |-> g, body |-> b]
NoCall == [pc |-> "idle", kind |-> "C", target |-> "A", candidate |-> Torn, preserved |-> Torn]

-----------------------------------------------------------------------------
(* Validity of bodies, generations, selection of slots.                    *)

SessionFieldsValid(b) ==
    /\ b.update_id # 0 /\ b.image_size \in 1..INCOMING /\ b.next_offset <= b.image_size
    /\ CASE b.state = "RECEIVING" -> b.next_offset % SECTOR = 0
         [] b.state = "ARTIFACT_READY" -> b.next_offset = b.image_size
         [] OTHER -> FALSE

Idle == [state |-> "IDLE", update_id |-> 0, image_size |-> 0, next_offset |-> 0]

DownloadCheckpoint_Validate(r) ==
    r.crc_ok /\ r.generation # 0 /\ (r.body = Idle \/ (r.body.state # "IDLE" /\ SessionFieldsValid(r.body)))

UpdateHandoff_Validate(r) ==
    /\ r.crc_ok /\ r.generation # 0
    /\ r.body.update_id # 0 /\ r.body.target_version # 0
    /\ r.body.image_size \in MIN_IMAGE..MAX_IMAGE

Validate(k, r) == IF k = "C" THEN DownloadCheckpoint_Validate(r) ELSE UpdateHandoff_Validate(r)

Difference(a, b) == IF a >= b THEN a - b ELSE a + 2 * GenHalf - b

(* Mutant: comparison without wrap-around.                                 *)
GreaterGeneration(candidate, reference) == candidate > reference

IsGenerationNewer(candidate, reference) ==
    Difference(candidate, reference) # 0 /\ Difference(candidate, reference) < GenHalf

NextGeneration(g) == IF g + 1 = 2 * GenHalf THEN 1 ELSE g + 1

SelectNewest(k) ==
    LET a == sector["A"][k]
        b == sector["B"][k]
    IN  CASE ~Validate(k, a) /\ ~Validate(k, b) -> "NONE"
          [] ~Validate(k, a) /\ Validate(k, b) -> "B"
          [] Validate(k, a) /\ ~Validate(k, b) -> "A"
          [] OTHER -> IF IsGenerationNewer(b.generation, a.generation) THEN "B" ELSE "A"

SelectWriteSlot(k) == IF SelectNewest(k) = "A" THEN "B" ELSE "A"

(* DownloadCheckpointStorage_Load and UpdateHandoffStorage_Load.           *)
Load(k) == IF SelectNewest(k) = "NONE" THEN NoBody ELSE sector[SelectNewest(k)][k].body

CurrentGeneration(k) ==
    IF SelectNewest(k) = "NONE" THEN 0 ELSE sector[SelectNewest(k)][k].generation

-----------------------------------------------------------------------------
Init ==
    /\ sector = [s \in Slots |-> [k \in AllKinds |-> Torn]]
    /\ call = NoCall /\ status = "NONE"
    /\ promised = [k \in AllKinds |-> {NoBody}]
    /\ faulted = FALSE
    /\ kinds \in KindSets

(* Mutant: the record of the other kind is not saved.                      *)
PreserveNothing(k, s) == Torn

(* The record of the other kind in the sector that is about to be erased.  *)
Preserve(k, s) ==
    IF Validate(Partner(k), sector[s][Partner(k)]) THEN sector[s][Partner(k)] ELSE Torn

Begin(k, s, r, saved) ==
    [pc |-> "erase", kind |-> k, target |-> s, candidate |-> r, preserved |-> saved]

(* DownloadCheckpointStorage_Commit and UpdateHandoffStorage_Commit up to  *)
(* the erase.  When the other record cannot be read, the call goes on as   *)
(* if there was none.                                                      *)
Commit(k, b) ==
    /\ call.pc = "idle"
    /\ LET r == Record(NextGeneration(CurrentGeneration(k)), b)
           s == SelectWriteSlot(k)
       IN  IF Validate(k, r)
             THEN /\ \/ call' = Begin(k, s, r, Preserve(k, s)) /\ UNCHANGED faulted
                     \/ Faults /\ call' = Begin(k, s, r, Torn) /\ faulted' = TRUE
                  /\ status' = "BUSY"
                  /\ promised' = [promised EXCEPT ![k] = @ \cup {b}]
             ELSE /\ status' = "INVALID_ARGUMENT"
                  /\ UNCHANGED <<call, promised, faulted>>
    /\ UNCHANGED sector

Return(s) == call' = NoCall /\ status' = s

EraseSector ==
    /\ call.pc = "erase"
    /\ sector' = [sector EXCEPT ![call.target] = [k \in AllKinds |-> Torn]]
    /\ call' = [call EXCEPT !.pc = "write"]
    /\ UNCHANGED <<status, promised, faulted>>

(* The fields and then, as the last word, the CRC.                         *)
WriteRecord ==
    /\ call.pc = "write"
    /\ sector' = [sector EXCEPT ![call.target][call.kind] = call.candidate]
    /\ call' = [call EXCEPT !.pc = IF call.preserved = Torn THEN "verify" ELSE "restore"]
    /\ UNCHANGED <<status, promised, faulted>>

(* The other record is written back; it is not verified.                   *)
RestorePartner ==
    /\ call.pc = "restore"
    /\ sector' = [sector EXCEPT ![call.target][Partner(call.kind)] = call.preserved]
    /\ call' = [call EXCEPT !.pc = "verify"]
    /\ UNCHANGED <<status, promised, faulted>>

Verify ==
    /\ call.pc = "verify"
    /\ IF sector[call.target][call.kind] = call.candidate
         THEN /\ Return("OK")
              /\ promised' = [promised EXCEPT ![call.kind] = {call.candidate.body}]
         ELSE Return("VERIFY_FAILED") /\ UNCHANGED promised
    /\ UNCHANGED <<sector, faulted>>

-----------------------------------------------------------------------------
(* Faults: an operation fails part of the way, a write leaves bad bits     *)
(* behind without an error, power is lost.                                 *)

Failing == Faults /\ call.pc # "idle" /\ faulted' = TRUE /\ UNCHANGED promised

(* The records of both kinds could not be read; no call begins.            *)
ReadFails ==
    /\ Faults /\ call.pc = "idle" /\ faulted' = TRUE
    /\ status' = "READ_FAILED"
    /\ UNCHANGED <<sector, call, promised>>

(* An erase that does not finish takes any of the two records with it; the *)
(* call is told, or never returns because power is lost.                   *)
EraseFails ==
    /\ call.pc = "erase" /\ Failing
    /\ \E lost \in SUBSET AllKinds :
         sector' = [sector EXCEPT ![call.target] = [k \in AllKinds |-> IF k \in lost THEN Torn ELSE @[k]]]
    /\ Return("ERASE_FAILED") \/ Return("NONE")

WriteFails ==
    /\ call.pc \in {"write", "restore"} /\ Failing
    /\ Return("WRITE_FAILED")
    /\ UNCHANGED sector

WriteCorrupts ==
    /\ call.pc \in {"write", "restore"} /\ Failing
    /\ call' = [call EXCEPT !.pc = IF call.pc = "write" /\ call.preserved # Torn
                                     THEN "restore" ELSE "verify"]
    /\ UNCHANGED <<sector, status>>

VerifyFails ==
    /\ call.pc = "verify" /\ Failing
    /\ Return("VERIFY_FAILED")
    /\ UNCHANGED sector

PowerLoss ==
    /\ Failing
    /\ Return("NONE")
    /\ UNCHANGED sector

Next ==
    /\ \/ \E k \in kinds : \E b \in Bodies[k] : Commit(k, b)
       \/ EraseSector \/ WriteRecord \/ RestorePartner \/ Verify
       \/ ReadFails \/ EraseFails \/ WriteFails \/ WriteCorrupts \/ VerifyFails \/ PowerLoss
    /\ UNCHANGED kinds

Spec == Init /\ [][Next]_vars

-----------------------------------------------------------------------------
(* Types of the variables of the metadata sectors.                         *)
TypeOK ==
    /\ \A s \in Slots, k \in AllKinds :
         sector[s][k] = Torn \/ (Validate(k, sector[s][k]) /\ sector[s][k].body \in Bodies[k])
    /\ call.pc \in {"idle", "erase", "write", "restore", "verify"}
    /\ call.kind \in AllKinds /\ call.target \in Slots
    /\ call.pc = "idle" => call = NoCall

(* A commit is atomic for its own kind of record, at every step and with   *)
(* every fault: what Load returns stays as it was or becomes what was      *)
(* asked for.                                                              *)
OwnKindAtomic ==
    [][ \A k \in AllKinds : call.pc # "idle" /\ call.kind = k =>
          Load(k)' \in {Load(k), call.candidate.body} ]_vars

(* When a commit returns OK, its record is the one Load returns, across    *)
(* the wrap-around of generations.                                         *)
OkIsLoaded ==
    [][ \A k \in AllKinds : status = "BUSY" /\ status' = "OK" /\ call.kind = k =>
          Load(k)' = call.candidate.body ]_vars

(* The two kinds do not disturb each other as long as no operation fails:  *)
(* every erase puts the other record back before the call returns.         *)
Coexist ==
    ~faulted /\ call.pc = "idle" => \A k \in AllKinds : promised[k] = {Load(k)}

(* The three together, and the types.                                      *)
BothKindsKept == [](TypeOK /\ Coexist) /\ OwnKindAtomic /\ OkIsLoaded

(* With the sectors to themselves, checkpoints are the atomic register     *)
(* that the boot metadata pages are; otherwise nothing is said of them.    *)
Alone == kinds = {"C"}

Checkpoint == INSTANCE MetadataRegister WITH
    Bodies <- Bodies["C"],
    ValidBodies <- {b \in Bodies["C"] : Validate("C", Record(1, b))},
    DefaultBody <- NoBody,
    value <- IF Alone THEN Load("C") ELSE NoBody,
    pending <- IF Alone /\ call.pc # "idle" THEN {call.candidate.body} ELSE {},
    applied <- Alone /\ call.pc \in {"restore", "verify"} /\ sector[call.target]["C"] = call.candidate,
    status <- IF ~Alone \/ status \in {"READ_FAILED", "ERASE_FAILED", "WRITE_FAILED", "VERIFY_FAILED"}
                THEN "NONE" ELSE status

(* Every behaviour of the two checkpoint sectors, faults included, is one  *)
(* of the atomic register.  An error of DownloadCheckpointStorage_Commit   *)
(* tells its caller no more than a power loss does: the read-back itself   *)
(* can fail, so the new record may be in force after VERIFY_FAILED.        *)
AtomicCheckpoint == Checkpoint!Spec

-----------------------------------------------------------------------------
(* The same for all kinds, bodies and generations: the inductive invariant *)
(* of the two sectors, and the proofs.                                     *)

(* The other slot, and the generations of valid records.                   *)
Other(s) == IF s = "A" THEN "B" ELSE "A"
Generations == 1..(2 * GenHalf - 1)

(* A place for a record of kind k holds nothing or a valid one.            *)
RecordType(k) ==
    {Torn} \cup {r \in [crc_ok : {TRUE}, generation : Generations, body : Bodies[k]] : Validate(k, r)}
AnyRecord == RecordType("C") \cup RecordType("H")

(* Every place of both sectors is of its type.                             *)
SectorOK(sec) ==
    /\ sec \in [Slots -> [AllKinds -> AnyRecord]]
    /\ \A s \in Slots, k \in AllKinds : sec[s][k] \in RecordType(k)

(* A call in progress: of a kind in use, with a valid record to write.     *)
CallOK(c, ks) ==
    /\ c \in [pc : {"idle", "erase", "write", "restore", "verify"}, kind : AllKinds,
              target : Slots, candidate : AnyRecord, preserved : AnyRecord]
    /\ c.pc = "idle" => c = NoCall
    /\ c.pc # "idle" =>
          /\ c.kind \in ks
          /\ c.candidate \in RecordType(c.kind) \ {Torn}
          /\ c.preserved \in RecordType(Partner(c.kind))

(* Types, with those of the histories.                                     *)
Types ==
    /\ SectorOK(sector) /\ CallOK(call, kinds)
    /\ promised \in [AllKinds -> SUBSET (Bodies["C"] \cup Bodies["H"] \cup {NoBody})]
    /\ faulted \in BOOLEAN /\ kinds \subseteq AllKinds

(* One record is the successor of the other; Torn has generation 0.        *)
Ahead(r, o) == r.generation = NextGeneration(o.generation)
Follows(a, b) == a = Torn \/ b = Torn \/ Ahead(a, b) \/ Ahead(b, a)

(* What Load makes of two records of a kind, and of a slot and the other.  *)
Pick(a, b) ==
    IF b # Torn /\ (a = Torn \/ IsGenerationNewer(b.generation, a.generation))
      THEN b.body ELSE a.body
Side(s, own, stays) == IF s = "A" THEN Pick(own, stays) ELSE Pick(stays, own)

(* The records of a kind follow each other.                                *)
PairsOK(sec) == \A k \in AllKinds : Follows(sec["A"][k], sec["B"][k])

(* The kind that is written: the record that stays is the one Load returns *)
(* until the candidate, its successor, is in place.                        *)
OwnOK(sec, c) ==
    LET own == sec[c.target][c.kind]
        stays == sec[Other(c.target)][c.kind]
    IN  c.pc # "idle" =>
          /\ Ahead(c.candidate, stays)
          /\ c.pc = "erase" => own = Torn \/ (stays # Torn /\ Ahead(stays, own))
          /\ c.pc = "write" => own = Torn
          /\ c.pc \in {"restore", "verify"} => own \in {Torn, c.candidate}

(* The other kind: what is saved fits the record that stays.               *)
PartnerOK(sec, c) ==
    LET own == sec[c.target][Partner(c.kind)]
        stays == sec[Other(c.target)][Partner(c.kind)]
    IN  c.pc \in {"erase", "write", "restore"} =>
          /\ Follows(c.preserved, stays)
          /\ c.pc # "erase" => own = Torn

(* Without faults, what is promised of the other kind is what Load returns *)
(* once the record that was saved is back.                                 *)
Promises ==
    ~faulted =>
      /\ call.pc = "idle" => \A k \in AllKinds : promised[k] = {Load(k)}
      /\ call.pc # "idle" =>
           /\ promised[Partner(call.kind)] =
                {Side(call.target, call.preserved,
                      sector[Other(call.target)][Partner(call.kind)])}
           /\ call.pc \in {"erase", "verify"} =>
                sector[call.target][Partner(call.kind)] = call.preserved
           /\ call.pc \in {"restore", "verify"} =>
                sector[call.target][call.kind] = call.candidate

(* The inductive invariant.                                                *)
SectorsInv ==
    Types /\ PairsOK(sector) /\ OwnOK(sector, call) /\ PartnerOK(sector, call) /\ Promises

-----------------------------------------------------------------------------
(* A valid record is not torn, and the generation of a record does not     *)
(* matter to the validity of its body.                                     *)
LEMMA Valid ==
    /\ \A k \in AllKinds : ~Validate(k, Torn)
    /\ \A k \in AllKinds : \A g, b : g # 0 /\ Validate(k, Record(1, b)) => Validate(k, Record(g, b))
    /\ \A k \in AllKinds : \A g, b : Validate(k, Record(g, b)) => Validate(k, Record(1, b))
<1>1. \A k \in AllKinds : ~Validate(k, Torn)
  BY DEF Validate, DownloadCheckpoint_Validate, UpdateHandoff_Validate, Torn
<1>2. ASSUME NEW g, NEW b
      PROVE  /\ Record(g, b).crc_ok /\ Record(g, b).generation = g /\ Record(g, b).body = b
             /\ Record(1, b).crc_ok /\ Record(1, b).generation = 1 /\ Record(1, b).body = b
  BY DEF Record
<1>3. ASSUME NEW k \in AllKinds, NEW g, NEW b
      PROVE  /\ g # 0 /\ Validate(k, Record(1, b)) => Validate(k, Record(g, b))
             /\ Validate(k, Record(g, b)) => Validate(k, Record(1, b))
  <2> DEFINE r == Record(g, b)
             q == Record(1, b)
  <2>1. /\ r.crc_ok /\ r.generation = g /\ r.body = b
        /\ q.crc_ok /\ q.generation = 1 /\ q.body = b
    BY <1>2
  <2> HIDE DEF r, q
  <2>2. /\ g # 0 /\ Validate(k, q) => Validate(k, r)
        /\ Validate(k, r) => Validate(k, q)
    BY <2>1 DEF Validate, DownloadCheckpoint_Validate, UpdateHandoff_Validate
  <2> QED BY <2>2 DEF r, q
<1> QED BY <1>1, <1>3

(* The places of a record.                                                 *)
LEMMA Places ==
    ASSUME ExternalAssumption, NEW k \in AllKinds
    PROVE  /\ Torn \in RecordType(k) /\ RecordType(k) \subseteq AnyRecord
           /\ Torn.generation = 0 /\ Torn.body = NoBody /\ ~Torn.crc_ok
           /\ \A r \in RecordType(k) :
                 /\ Validate(k, r) <=> r # Torn
                 /\ r # Torn => r.generation \in Generations /\ r.body \in Bodies[k]
                 /\ r.generation \in Nat /\ r.generation < 2 * GenHalf
           /\ \A g \in Generations, b \in Bodies[k] :
                 Validate(k, Record(g, b)) => Record(g, b) \in RecordType(k) \ {Torn}
<1>1. Torn.generation = 0 /\ Torn.body = NoBody /\ ~Torn.crc_ok
  BY DEF Torn
<1>2. \A r \in RecordType(k) : r # Torn =>
         /\ Validate(k, r) /\ r.generation \in Generations /\ r.body \in Bodies[k]
  BY DEF RecordType
<1>3. \A g \in Generations : g \in Nat /\ g < 2 * GenHalf
  BY DEF Generations, ExternalAssumption
<1>4. 0 < 2 * GenHalf
  BY DEF ExternalAssumption
<1>5. ASSUME NEW g \in Generations, NEW b \in Bodies[k], Validate(k, Record(g, b))
      PROVE  Record(g, b) \in RecordType(k) \ {Torn}
  BY <1>1, <1>5 DEF RecordType, Record
<1>6. Torn \in RecordType(k) /\ RecordType(k) \subseteq AnyRecord
  BY DEF RecordType, AnyRecord, AllKinds
<1> QED BY <1>1, <1>2, <1>3, <1>4, <1>5, <1>6, Valid

(* The successor of a generation is newer than it, and not conversely,     *)
(* also across the wrap to 1.                                              *)
LEMMA Successor ==
    ASSUME ExternalAssumption, NEW g \in Nat, g < 2 * GenHalf
    PROVE  /\ NextGeneration(g) \in Generations /\ NextGeneration(g) # 0
           /\ g # 0 => /\ IsGenerationNewer(NextGeneration(g), g)
                       /\ ~IsGenerationNewer(g, NextGeneration(g))
BY DEF ExternalAssumption, NextGeneration, IsGenerationNewer, Difference, Generations

(* Load takes the record that is ahead, and the one that is there.         *)
LEMMA PickAhead ==
    ASSUME ExternalAssumption, NEW k \in AllKinds, NEW r \in RecordType(k), NEW o \in RecordType(k),
           r # Torn, Ahead(r, o)
    PROVE  Pick(r, o) = r.body /\ Pick(o, r) = r.body
<1>1. CASE o = Torn
  BY <1>1 DEF Pick
<1>2. CASE o # Torn
  <2>1. o.generation \in Nat /\ o.generation < 2 * GenHalf /\ o.generation # 0
    BY <1>2, Places, Valid DEF Generations
  <2> QED BY <1>2, <2>1, Successor DEF Pick, Ahead
<1> QED BY <1>1, <1>2

(* A torn record is never taken.                                           *)
LEMMA PickTorn == \A r : Pick(r, Torn) = r.body /\ Pick(Torn, r) = r.body
BY DEF Pick

(* Slots and kinds.                                                        *)
LEMMA Two ==
    /\ \A s \in Slots : Other(s) \in Slots /\ Other(s) # s /\ Other(Other(s)) = s
    /\ \A k \in AllKinds : Partner(k) \in AllKinds /\ Partner(k) # k /\ Partner(Partner(k)) = k
BY DEF Slots, AllKinds, Other, Partner

(* What Load returns, from the side of either slot.                        *)
LoadOf(sec, k) == Pick(sec["A"][k], sec["B"][k])

(* Load and SelectNewest in terms of the two records of a kind, ...        *)
LEMMA LoadIs ==
    ASSUME ExternalAssumption, SectorOK(sector)
    PROVE  \A k \in AllKinds :
              /\ Load(k) = LoadOf(sector, k)
              /\ SelectNewest(k) = "NONE" <=> sector["A"][k] = Torn /\ sector["B"][k] = Torn
              /\ SelectNewest(k) \in Slots \cup {"NONE"}
              /\ SelectNewest(k) # "NONE" => sector[SelectNewest(k)][k] # Torn
<1> SUFFICES ASSUME NEW k \in AllKinds
             PROVE  /\ Load(k) = LoadOf(sector, k)
                    /\ SelectNewest(k) = "NONE" <=> sector["A"][k] = Torn /\ sector["B"][k] = Torn
                    /\ SelectNewest(k) \in Slots \cup {"NONE"}
                    /\ SelectNewest(k) # "NONE" => sector[SelectNewest(k)][k] # Torn
  OBVIOUS
<1>1. /\ Validate(k, sector["A"][k]) <=> sector["A"][k] # Torn
      /\ Validate(k, sector["B"][k]) <=> sector["B"][k] # Torn
      /\ Torn.body = NoBody
  BY Places DEF SectorOK, Slots
<1> QED BY <1>1 DEF SelectNewest, Load, LoadOf, Pick, Slots

(* ... also in the next state.                                             *)
LEMMA LoadIsNext ==
    ASSUME ExternalAssumption, SectorOK(sector')
    PROVE  \A k \in AllKinds : Load(k)' = LoadOf(sector', k)
<1> SUFFICES ASSUME NEW k \in AllKinds PROVE Load(k)' = LoadOf(sector', k)
  OBVIOUS
<1>1. /\ Validate(k, sector'["A"][k]) <=> sector'["A"][k] # Torn
      /\ Validate(k, sector'["B"][k]) <=> sector'["B"][k] # Torn
      /\ Torn.body = NoBody
  BY Places DEF SectorOK, Slots
<1> QED BY <1>1 DEF SelectNewest, Load, LoadOf, Pick

(* What Load returns when a slot is empty, and when its record is ahead.   *)
LEMMA LoadAt ==
    ASSUME ExternalAssumption, NEW sec, SectorOK(sec), NEW k \in AllKinds, NEW t \in Slots
    PROVE  /\ sec[t][k] = Torn => LoadOf(sec, k) = sec[Other(t)][k].body
           /\ sec[t][k] # Torn /\ Ahead(sec[t][k], sec[Other(t)][k]) => LoadOf(sec, k) = sec[t][k].body
<1>1. sec["A"][k] \in RecordType(k) /\ sec["B"][k] \in RecordType(k)
  BY DEF SectorOK, Slots
<1>2. CASE t = "A"
  BY <1>1, <1>2, PickTorn, PickAhead DEF LoadOf, Other
<1>3. CASE t = "B"
  BY <1>1, <1>3, PickTorn, PickAhead DEF LoadOf, Other
<1> QED BY <1>2, <1>3 DEF Slots

(* Load is the same from the side of either slot.                          *)
LEMMA LoadSide ==
    ASSUME NEW sec, NEW k \in AllKinds, NEW t \in Slots
    PROVE  LoadOf(sec, k) = Side(t, sec[t][k], sec[Other(t)][k])
BY DEF LoadOf, Side, Other, Slots

(* So is the relation of the two records of a kind.                        *)
LEMMA PairsAt ==
    ASSUME NEW sec, NEW t \in Slots
    PROVE  PairsOK(sec) <=> \A k \in AllKinds : Follows(sec[t][k], sec[Other(t)][k])
<1>1. CASE t = "A"
  BY <1>1 DEF PairsOK, Other
<1>2. CASE t = "B"
  BY <1>2 DEF PairsOK, Other, Follows
<1> QED BY <1>1, <1>2 DEF Slots

(* During a call Load returns the candidate once it is in place, and the   *)
(* record of the other sector until then.                                  *)
LEMMA OwnLoad ==
    ASSUME ExternalAssumption, NEW sec, SectorOK(sec), NEW c, NEW ks, CallOK(c, ks), OwnOK(sec, c),
           c.pc # "idle"
    PROVE  LoadOf(sec, c.kind) =
              IF c.pc \in {"restore", "verify"} /\ sec[c.target][c.kind] = c.candidate
                THEN c.candidate.body ELSE sec[Other(c.target)][c.kind].body
<1> DEFINE t == c.target
           k == c.kind
           o == Other(t)
<1>1. t \in Slots /\ k \in AllKinds /\ o \in Slots /\ Other(o) = t /\ c.candidate # Torn
      /\ c.pc \in {"erase", "write", "restore", "verify"}
  BY Two DEF CallOK
<1>2. CASE sec[t][k] = Torn
  BY <1>1, <1>2, LoadAt
<1>3. CASE c.pc = "erase" /\ sec[t][k] # Torn
  <2>1. sec[o][k] # Torn /\ Ahead(sec[o][k], sec[Other(o)][k])
    BY <1>1, <1>3 DEF OwnOK
  <2>2. LoadOf(sec, k) = sec[o][k].body
    BY <1>1, <2>1, LoadAt
  <2> QED BY <1>3, <2>2
<1>4. CASE c.pc \in {"restore", "verify"} /\ sec[t][k] = c.candidate
  BY <1>1, <1>4, LoadAt DEF OwnOK
<1> QED BY <1>1, <1>2, <1>3, <1>4 DEF OwnOK

(* The slot that is written is not the one with the newest record.         *)
LEMMA WriteSlot ==
    ASSUME ExternalAssumption, SectorOK(sector), PairsOK(sector), NEW k \in AllKinds
    PROVE  LET s == SelectWriteSlot(k)
               own == sector[s][k]
               stays == sector[Other(s)][k]
           IN  /\ s \in Slots /\ CurrentGeneration(k) = stays.generation
               /\ own = Torn \/ (stays # Torn /\ Ahead(stays, own))
<1> DEFINE a == sector["A"][k]
           b == sector["B"][k]
<1>1. /\ a \in RecordType(k) /\ b \in RecordType(k)
      /\ Validate(k, a) <=> a # Torn
      /\ Validate(k, b) <=> b # Torn
      /\ Torn.generation = 0
  BY Places DEF SectorOK, Slots
<1>2. Follows(a, b)
  BY DEF PairsOK
<1>3. CASE a # Torn /\ b # Torn
  <2>1. /\ a.generation \in Nat /\ a.generation < 2 * GenHalf /\ a.generation # 0
        /\ b.generation \in Nat /\ b.generation < 2 * GenHalf /\ b.generation # 0
    BY <1>1, <1>3, Places DEF Generations
  <2>2. Ahead(a, b) => ~IsGenerationNewer(b.generation, a.generation)
    BY <2>1, Successor DEF Ahead
  <2>3. Ahead(b, a) => IsGenerationNewer(b.generation, a.generation)
    BY <2>1, Successor DEF Ahead
  <2>4. Ahead(a, b) \/ Ahead(b, a)
    BY <1>2, <1>3 DEF Follows
  <2>5. CASE Ahead(a, b)
    <3>1. SelectNewest(k) = "A"
      BY <1>1, <1>3, <2>2, <2>5 DEF SelectNewest
    <3> QED BY <1>3, <2>5, <3>1 DEF SelectWriteSlot, CurrentGeneration, Other, Slots
  <2>6. CASE Ahead(b, a) /\ ~Ahead(a, b)
    <3>1. SelectNewest(k) = "B"
      BY <1>1, <1>3, <2>3, <2>6 DEF SelectNewest
    <3> QED BY <1>3, <2>6, <3>1 DEF SelectWriteSlot, CurrentGeneration, Other, Slots
  <2> QED BY <2>4, <2>5, <2>6
<1>4. CASE a = Torn \/ b = Torn
  <2>1. SelectNewest(k) = IF a = Torn THEN IF b = Torn THEN "NONE" ELSE "B" ELSE "A"
    BY <1>1, <1>4 DEF SelectNewest
  <2> QED BY <1>1, <1>4, <2>1 DEF SelectWriteSlot, CurrentGeneration, Other, Slots
<1> QED BY <1>3, <1>4

(* A sector with one place written, and with the records in lost erased.   *)
Written(sec, t, k, r) == [sec EXCEPT ![t][k] = r]
Erased(sec, t, lost) == [sec EXCEPT ![t] = [k \in AllKinds |-> IF k \in lost THEN Torn ELSE sec[t][k]]]

(* One place is written.                                                   *)
LEMMA Put ==
    ASSUME ExternalAssumption, NEW sec, SectorOK(sec), NEW t \in Slots, NEW k \in AllKinds,
           NEW r \in RecordType(k), NEW new, new = Written(sec, t, k, r)
    PROVE  /\ SectorOK(new) /\ new[t][k] = r /\ new[t][Partner(k)] = sec[t][Partner(k)]
           /\ \A j \in AllKinds : new[Other(t)][j] = sec[Other(t)][j]
<1>1. sec \in [Slots -> [AllKinds -> AnyRecord]] /\ r \in AnyRecord
  BY Places DEF SectorOK
<1>2. \A s \in Slots, j \in AllKinds : new[s][j] = IF s = t /\ j = k THEN r ELSE sec[s][j]
  BY <1>1 DEF Written
<1>3. new \in [Slots -> [AllKinds -> AnyRecord]]
  BY <1>1 DEF Written
<1>4. SectorOK(new)
  BY <1>2, <1>3 DEF SectorOK
<1>5. /\ new[t][k] = r /\ new[t][Partner(k)] = sec[t][Partner(k)]
      /\ \A j \in AllKinds : new[Other(t)][j] = sec[Other(t)][j]
  BY <1>2, Two
<1> QED BY <1>4, <1>5

(* A sector loses records.                                                 *)
LEMMA Lose ==
    ASSUME ExternalAssumption, NEW sec, SectorOK(sec), NEW t \in Slots, NEW lost \in SUBSET AllKinds,
           NEW new, new = Erased(sec, t, lost)
    PROVE  /\ SectorOK(new)
           /\ \A j \in AllKinds : /\ new[t][j] = IF j \in lost THEN Torn ELSE sec[t][j]
                                  /\ new[Other(t)][j] = sec[Other(t)][j]
<1>1. sec \in [Slots -> [AllKinds -> AnyRecord]] /\ Torn \in AnyRecord
  BY Places DEF SectorOK, AllKinds
<1>2. \A s \in Slots, j \in AllKinds :
         new[s][j] = IF s = t /\ j \in lost THEN Torn ELSE sec[s][j]
  BY <1>1 DEF Erased
<1>3. new \in [Slots -> [AllKinds -> AnyRecord]]
  BY <1>1 DEF Erased
<1>4. SectorOK(new)
  BY <1>2, <1>3, Places DEF SectorOK
<1>5. \A j \in AllKinds : /\ new[t][j] = IF j \in lost THEN Torn ELSE sec[t][j]
                          /\ new[Other(t)][j] = sec[Other(t)][j]
  BY <1>2, Two
<1> QED BY <1>4, <1>5

-----------------------------------------------------------------------------
(* The idle call, and the records of a call in progress.                   *)
LEMMA IdleCall ==
    ASSUME ExternalAssumption
    PROVE  NoCall.pc = "idle" /\ \A ks : CallOK(NoCall, ks)
<1>1. /\ NoCall \in [pc : {"idle", "erase", "write", "restore", "verify"}, kind : AllKinds,
                     target : Slots, candidate : AnyRecord, preserved : AnyRecord]
      /\ NoCall.pc = "idle"
  BY Places DEF NoCall, AllKinds, Slots
<1> QED BY <1>1 DEF CallOK

(* A fault ends the call: nothing is promised after it, the records that   *)
(* are left still follow each other.                                       *)
LEMMA FaultEndsCall ==
    ASSUME ExternalAssumption, Types, SectorOK(sector'), PairsOK(sector'), call' = NoCall,
           faulted' = TRUE, promised' = promised, kinds' = kinds
    PROVE  SectorsInv'
<1>1. call'.pc = "idle" /\ CallOK(call', kinds')
  BY IdleCall
<1>2. Types'
  BY <1>1 DEF Types
<1>3. OwnOK(sector', call') /\ PartnerOK(sector', call')
  BY <1>1 DEF OwnOK, PartnerOK
<1>4. Promises'
  BY DEF Promises
<1> QED BY <1>2, <1>3, <1>4 DEF SectorsInv

(* A call moves on to its next step.                                       *)
LEMMA CallMoves ==
    ASSUME ExternalAssumption, Types, call.pc # "idle",
           NEW p \in {"erase", "write", "restore", "verify"}
    PROVE  LET c == [call EXCEPT !.pc = p]
           IN  /\ CallOK(c, kinds) /\ c.pc = p /\ c.kind = call.kind /\ c.target = call.target
               /\ c.candidate = call.candidate /\ c.preserved = call.preserved
BY DEF Types, CallOK

(* The kind, the slot and the records of a call in progress.               *)
LEMMA InCall ==
    ASSUME ExternalAssumption, SectorsInv, call.pc # "idle"
    PROVE  /\ call.pc \in {"erase", "write", "restore", "verify"}
           /\ call.kind \in AllKinds /\ Partner(call.kind) \in AllKinds /\ Partner(call.kind) # call.kind
           /\ Partner(Partner(call.kind)) = call.kind
           /\ \A k \in AllKinds : k = call.kind \/ k = Partner(call.kind)
           /\ call.target \in Slots /\ Other(call.target) \in Slots
           /\ call.candidate \in RecordType(call.kind) /\ call.candidate # Torn
           /\ call.preserved \in RecordType(Partner(call.kind))
           /\ SectorOK(sector) /\ PairsOK(sector)
<1>1. CallOK(call, kinds) /\ SectorOK(sector) /\ PairsOK(sector)
  BY DEF SectorsInv, Types
<1>2. \A k, j \in AllKinds : k = j \/ k = Partner(j)
  BY DEF AllKinds, Partner
<1> QED BY <1>1, <1>2, Two DEF CallOK

(* A commit finds its slot and its record, and saves the other record.     *)
LEMMA CommitStep ==
    ASSUME ExternalAssumption, SectorsInv, NEW k \in kinds, NEW b \in Bodies[k], Commit(k, b),
           kinds' = kinds
    PROVE  SectorsInv'
<1> DEFINE t == SelectWriteSlot(k)
           r == Record(NextGeneration(CurrentGeneration(k)), b)
           p == Partner(k)
<1>1. /\ SectorOK(sector) /\ PairsOK(sector) /\ k \in AllKinds /\ p \in AllKinds /\ p # k
      /\ sector' = sector /\ call.pc = "idle" /\ call = NoCall /\ kinds \subseteq AllKinds
      /\ CallOK(call, kinds)
      /\ \A j \in AllKinds : j = k \/ j = p
  BY Two DEF SectorsInv, Types, Commit, CallOK, AllKinds, Partner
<1>2. /\ t \in Slots /\ Other(t) \in Slots
      /\ CurrentGeneration(k) = sector[Other(t)][k].generation
      /\ sector[t][k] = Torn \/ (sector[Other(t)][k] # Torn /\ Ahead(sector[Other(t)][k], sector[t][k]))
  BY <1>1, WriteSlot, Two
<1>3. /\ CurrentGeneration(k) \in Nat /\ CurrentGeneration(k) < 2 * GenHalf
      /\ sector[t][p] \in RecordType(p)
  BY <1>1, <1>2, Places DEF SectorOK
<1>4. NextGeneration(CurrentGeneration(k)) \in Generations
  BY <1>3, Successor
<1>5. r.generation = NextGeneration(CurrentGeneration(k))
  BY DEF Record
<1>6. Preserve(k, t) = sector[t][p]
  BY <1>1, <1>3, Places DEF Preserve
<1>7. Ahead(r, sector[Other(t)][k])
  BY <1>2, <1>5 DEF Ahead
<1>8. \A j \in AllKinds : Follows(sector[t][j], sector[Other(t)][j])
  BY <1>1, <1>2, PairsAt
<1>9. CASE Validate(k, r)
  <2>1. PICK saved \in {sector[t][p], Torn} :
           /\ call' = Begin(k, t, r, saved)
           /\ (saved = sector[t][p] /\ faulted' = faulted) \/ faulted' = TRUE
    BY <1>6, <1>9 DEF Commit
  <2>2. promised' = [promised EXCEPT ![k] = @ \cup {b}]
    BY <1>9 DEF Commit
  <2>3. r \in RecordType(k) \ {Torn} /\ saved \in RecordType(p)
    BY <1>1, <1>3, <1>4, <1>9, <2>1, Places
  <2>4. /\ call'.pc = "erase" /\ call'.kind = k /\ call'.target = t /\ call'.candidate = r
        /\ call'.preserved = saved
    BY <2>1 DEF Begin
  <2> HIDE DEF t, r, p
  <2>5. CallOK(call', kinds')
    <3>1. r \in AnyRecord /\ saved \in AnyRecord
      BY <1>1, <2>3, Places
    <3> QED BY <1>1, <1>2, <2>1, <2>3, <2>4, <3>1 DEF CallOK, Begin, p
  <2>6. promised' \in [AllKinds -> SUBSET (Bodies["C"] \cup Bodies["H"] \cup {NoBody})]
    BY <1>1, <2>2 DEF SectorsInv, Types, AllKinds
  <2>7. Types'
    BY <1>1, <2>1, <2>5, <2>6 DEF SectorsInv, Types
  <2>8. OwnOK(sector', call')
    BY <1>1, <1>2, <1>7, <2>4 DEF OwnOK
  <2>9. PartnerOK(sector', call')
    BY <1>1, <1>8, <2>1, <2>4 DEF PartnerOK, Follows, p
  <2>10. ASSUME ~faulted' PROVE ~faulted /\ saved = sector[t][p]
    BY <2>1, <2>10
  <2>11. ASSUME ~faulted'
         PROVE  promised'[p] = {Side(t, saved, sector[Other(t)][p])}
    <3>1. promised[p] = {LoadOf(sector, p)}
      BY <1>1, <2>10, <2>11, LoadIs DEF SectorsInv, Promises
    <3>2. promised'[p] = promised[p]
      BY <1>1, <2>2 DEF SectorsInv, Types
    <3> QED BY <1>1, <1>2, <2>10, <2>11, <3>1, <3>2, LoadSide
  <2>12. Promises'
    BY <1>1, <2>4, <2>10, <2>11 DEF Promises, p
  <2> QED BY <1>1, <2>7, <2>8, <2>9, <2>12 DEF SectorsInv
<1>10. CASE ~Validate(k, r)
  <2>1. UNCHANGED <<sector, call, promised, faulted, kinds>>
    BY <1>10 DEF Commit
  <2>2. Types'
    BY <2>1 DEF SectorsInv, Types
  <2>3. Load(p)' = Load(p) /\ Load(k)' = Load(k)
    BY <2>1 DEF Load, SelectNewest
  <2>4. Promises'
    BY <1>1, <2>1, <2>3 DEF SectorsInv, Promises
  <2> QED BY <2>1, <2>2, <2>4 DEF SectorsInv
<1> QED BY <1>9, <1>10

(* The sector of the call is erased: both kinds lose the record in it.     *)
LEMMA EraseStep ==
    ASSUME ExternalAssumption, SectorsInv, EraseSector, kinds' = kinds
    PROVE  SectorsInv'
<1> DEFINE t == call.target
           k == call.kind
           p == Partner(k)
<1>1. call.pc = "erase" /\ call' = [call EXCEPT !.pc = "write"] /\ UNCHANGED <<promised, faulted>>
  BY DEF EraseSector
<1>2. /\ t \in Slots /\ k \in AllKinds /\ p \in AllKinds /\ SectorOK(sector)
      /\ \A j \in AllKinds : j = k \/ j = p
  BY <1>1, InCall
<1>3. /\ CallOK(call', kinds') /\ call'.pc = "write" /\ call'.kind = k /\ call'.target = t
      /\ call'.candidate = call.candidate /\ call'.preserved = call.preserved
  BY <1>1, CallMoves DEF SectorsInv
<1>4. sector' = Erased(sector, t, AllKinds)
  BY DEF EraseSector, Erased
<1> HIDE DEF t, k, p
<1>5. /\ SectorOK(sector')
      /\ \A j \in AllKinds : sector'[t][j] = Torn /\ sector'[Other(t)][j] = sector[Other(t)][j]
  BY <1>2, <1>4, Lose
<1>6. Types'
  BY <1>1, <1>3, <1>5 DEF SectorsInv, Types
<1>7. PairsOK(sector')
  BY <1>2, <1>5, PairsAt DEF Follows
<1>8. OwnOK(sector', call')
  BY <1>1, <1>2, <1>3, <1>5 DEF SectorsInv, OwnOK, t, k
<1>9. PartnerOK(sector', call')
  BY <1>1, <1>2, <1>3, <1>5 DEF SectorsInv, PartnerOK, t, k, p
<1>10. Promises'
  BY <1>1, <1>2, <1>3, <1>5 DEF SectorsInv, Promises, t, k, p
<1> QED BY <1>6, <1>7, <1>8, <1>9, <1>10 DEF SectorsInv

(* The candidate, the successor of the record that stays, is written.      *)
LEMMA WriteStep ==
    ASSUME ExternalAssumption, SectorsInv, WriteRecord, kinds' = kinds
    PROVE  SectorsInv'
<1> DEFINE t == call.target
           k == call.kind
           p == Partner(k)
           next == IF call.preserved = Torn THEN "verify" ELSE "restore"
<1>1. call.pc = "write" /\ call' = [call EXCEPT !.pc = next] /\ UNCHANGED <<promised, faulted>>
  BY DEF WriteRecord
<1>2. /\ t \in Slots /\ k \in AllKinds /\ p \in AllKinds /\ SectorOK(sector) /\ PairsOK(sector)
      /\ call.candidate \in RecordType(k) /\ \A j \in AllKinds : j = k \/ j = p
  BY <1>1, InCall
<1>3. /\ CallOK(call', kinds') /\ call'.pc = next /\ call'.kind = k /\ call'.target = t
      /\ call'.candidate = call.candidate /\ call'.preserved = call.preserved
  BY <1>1, CallMoves DEF SectorsInv
<1>4. sector' = Written(sector, t, k, call.candidate)
  BY DEF WriteRecord, Written
<1> HIDE DEF t, k, p, next
<1>5. /\ SectorOK(sector') /\ sector'[t][k] = call.candidate /\ sector'[t][p] = sector[t][p]
      /\ \A j \in AllKinds : sector'[Other(t)][j] = sector[Other(t)][j]
  BY <1>2, <1>4, Put DEF p
<1>6. /\ sector[t][p] = Torn /\ Follows(call.preserved, sector[Other(t)][p])
      /\ Ahead(call.candidate, sector[Other(t)][k])
  BY <1>1 DEF SectorsInv, OwnOK, PartnerOK, t, k, p
<1>7. next \in {"restore", "verify"} /\ (next = "verify" => call.preserved = Torn)
  BY DEF next
<1>8. Types'
  BY <1>1, <1>3, <1>5 DEF SectorsInv, Types
<1>9. PairsOK(sector')
  BY <1>2, <1>5, <1>6, PairsAt DEF Follows
<1>10. OwnOK(sector', call')
  BY <1>2, <1>3, <1>5, <1>6, <1>7 DEF OwnOK
<1>11. PartnerOK(sector', call')
  BY <1>2, <1>3, <1>5, <1>6, <1>7 DEF PartnerOK, p
<1>12. Promises'
  BY <1>1, <1>2, <1>3, <1>5, <1>6, <1>7 DEF SectorsInv, Promises, t, k, p
<1> QED BY <1>8, <1>9, <1>10, <1>11, <1>12 DEF SectorsInv

(* The record that was saved is put back.                                  *)
LEMMA RestoreStep ==
    ASSUME ExternalAssumption, SectorsInv, RestorePartner, kinds' = kinds
    PROVE  SectorsInv'
<1> DEFINE t == call.target
           k == call.kind
           p == Partner(k)
<1>1. call.pc = "restore" /\ call' = [call EXCEPT !.pc = "verify"] /\ UNCHANGED <<promised, faulted>>
  BY DEF RestorePartner
<1>2. /\ t \in Slots /\ k \in AllKinds /\ p \in AllKinds /\ SectorOK(sector) /\ PairsOK(sector)
      /\ call.preserved \in RecordType(p) /\ Partner(p) = k /\ \A j \in AllKinds : j = k \/ j = p
  BY <1>1, InCall
<1>3. /\ CallOK(call', kinds') /\ call'.pc = "verify" /\ call'.kind = k /\ call'.target = t
      /\ call'.candidate = call.candidate /\ call'.preserved = call.preserved
  BY <1>1, CallMoves DEF SectorsInv
<1>4. sector' = Written(sector, t, p, call.preserved)
  BY DEF RestorePartner, Written
<1> HIDE DEF t, k, p
<1>5. /\ SectorOK(sector') /\ sector'[t][p] = call.preserved /\ sector'[t][k] = sector[t][k]
      /\ \A j \in AllKinds : sector'[Other(t)][j] = sector[Other(t)][j]
  BY <1>2, <1>4, Put DEF p
<1>6. /\ Follows(call.preserved, sector[Other(t)][p])
      /\ Ahead(call.candidate, sector[Other(t)][k]) /\ sector[t][k] \in {Torn, call.candidate}
  BY <1>1 DEF SectorsInv, OwnOK, PartnerOK, t, k, p
<1>7. Types'
  BY <1>1, <1>3, <1>5 DEF SectorsInv, Types
<1>8. PairsOK(sector')
  BY <1>2, <1>5, <1>6, PairsAt DEF Follows
<1>9. OwnOK(sector', call') /\ PartnerOK(sector', call')
  BY <1>2, <1>3, <1>5, <1>6 DEF OwnOK, PartnerOK
<1>10. Promises'
  BY <1>1, <1>2, <1>3, <1>5 DEF SectorsInv, Promises, t, k, p
<1> QED BY <1>7, <1>8, <1>9, <1>10 DEF SectorsInv

(* The record is read back, and the call returns.                          *)
LEMMA VerifyStep ==
    ASSUME ExternalAssumption, SectorsInv, Verify, kinds' = kinds
    PROVE  SectorsInv'
<1> DEFINE t == call.target
           k == call.kind
           p == Partner(k)
<1>1. call.pc = "verify" /\ call' = NoCall /\ UNCHANGED <<sector, faulted>>
  BY DEF Verify, Return
<1>2. /\ t \in Slots /\ k \in AllKinds /\ p \in AllKinds /\ p # k
      /\ SectorOK(sector) /\ PairsOK(sector)
      /\ call.candidate \in RecordType(k) /\ call.candidate # Torn /\ \A j \in AllKinds : j = k \/ j = p
  BY <1>1, InCall
<1>3. call'.pc = "idle" /\ CallOK(call', kinds')
  BY <1>1, IdleCall
<1>4. promised' \in [AllKinds -> SUBSET (Bodies["C"] \cup Bodies["H"] \cup {NoBody})]
  <2>1. call.candidate.body \in Bodies["C"] \cup Bodies["H"]
    BY <1>2, Places DEF AllKinds
  <2> QED BY <1>1, <2>1 DEF SectorsInv, Types, Verify
<1>5. Types'
  BY <1>1, <1>3, <1>4 DEF SectorsInv, Types
<1>6. ASSUME ~faulted'
      PROVE  \A j \in AllKinds : promised'[j] = {Load(j)'}
  <2>1. /\ promised[p] = {Side(t, call.preserved, sector[Other(t)][p])}
        /\ sector[t][p] = call.preserved /\ sector[t][k] = call.candidate
    BY <1>1, <1>6 DEF SectorsInv, Promises
  <2>2. promised' = [promised EXCEPT ![k] = {call.candidate.body}]
    BY <2>1 DEF Verify
  <2>3. promised'[k] = {call.candidate.body} /\ promised'[p] = promised[p]
    BY <1>2, <2>2 DEF SectorsInv, Types
  <2>4. LoadOf(sector, k) = call.candidate.body
    BY <1>1, <1>2, <2>1, OwnLoad DEF SectorsInv, Types
  <2>5. LoadOf(sector, p) = Side(t, call.preserved, sector[Other(t)][p])
    BY <1>2, <2>1, LoadSide
  <2>6. \A j \in AllKinds : Load(j)' = LoadOf(sector, j)
    BY <1>1, <1>2, LoadIsNext
  <2> HIDE DEF t, k, p
  <2> QED BY <1>2, <2>1, <2>3, <2>4, <2>5, <2>6
<1>7. Promises'
  BY <1>3, <1>6 DEF Promises
<1>8. OwnOK(sector', call') /\ PartnerOK(sector', call')
  BY <1>3 DEF OwnOK, PartnerOK
<1> QED BY <1>1, <1>2, <1>5, <1>7, <1>8 DEF SectorsInv

(* An erase that fails part of the way, and the faults that write nothing. *)
LEMMA FaultStep ==
    ASSUME ExternalAssumption, SectorsInv, kinds' = kinds,
           EraseFails \/ WriteFails \/ VerifyFails \/ PowerLoss
    PROVE  SectorsInv'
<1>1. call.pc # "idle" /\ faulted' = TRUE /\ promised' = promised /\ call' = NoCall
  BY DEF EraseFails, WriteFails, VerifyFails, PowerLoss, Failing, Return
<1>2. Types /\ SectorOK(sector) /\ PairsOK(sector) /\ call.target \in Slots
  BY <1>1, InCall DEF SectorsInv
<1>3. CASE EraseFails
  <2>1. PICK lost \in SUBSET AllKinds : sector' = Erased(sector, call.target, lost)
    BY <1>3 DEF EraseFails, Erased
  <2>2. /\ SectorOK(sector')
        /\ \A j \in AllKinds :
             /\ sector'[call.target][j] = IF j \in lost THEN Torn ELSE sector[call.target][j]
             /\ sector'[Other(call.target)][j] = sector[Other(call.target)][j]
    BY <1>2, <2>1, Lose
  <2>3. \A j \in AllKinds : Follows(sector[call.target][j], sector[Other(call.target)][j])
    BY <1>2, PairsAt
  <2>4. \A j \in AllKinds : Follows(sector'[call.target][j], sector'[Other(call.target)][j])
    BY <2>2, <2>3 DEF Follows
  <2>5. PairsOK(sector')
    BY <1>2, <2>4, PairsAt
  <2> QED BY <1>1, <1>2, <2>2, <2>5, FaultEndsCall
<1>4. CASE WriteFails \/ VerifyFails \/ PowerLoss
  <2>1. sector' = sector
    BY <1>4 DEF WriteFails, VerifyFails, PowerLoss
  <2> QED BY <1>1, <1>2, <2>1, FaultEndsCall
<1> QED BY <1>3, <1>4

(* A write that left bad bits behind: the place stays torn.                *)
LEMMA CorruptStep ==
    ASSUME ExternalAssumption, SectorsInv, WriteCorrupts, kinds' = kinds
    PROVE  SectorsInv'
<1> DEFINE next == IF call.pc = "write" /\ call.preserved # Torn THEN "restore" ELSE "verify"
<1>1. /\ call.pc \in {"write", "restore"} /\ call' = [call EXCEPT !.pc = next]
      /\ faulted' = TRUE /\ UNCHANGED <<sector, promised>>
  BY DEF WriteCorrupts, Failing
<1>2. (next = "restore" /\ call.pc = "write") \/ next = "verify"
  OBVIOUS
<1> HIDE DEF next
<1>3. /\ CallOK(call', kinds') /\ call'.pc = next /\ call'.kind = call.kind
      /\ call'.target = call.target
      /\ call'.candidate = call.candidate /\ call'.preserved = call.preserved
  BY <1>1, <1>2, CallMoves DEF SectorsInv
<1>4. Types'
  BY <1>1, <1>3 DEF SectorsInv, Types
<1>5. OwnOK(sector', call')
  BY <1>1, <1>2, <1>3 DEF SectorsInv, OwnOK
<1>6. PartnerOK(sector', call')
  BY <1>1, <1>2, <1>3 DEF SectorsInv, PartnerOK
<1>7. Promises'
  BY <1>1 DEF Promises
<1> QED BY <1>1, <1>4, <1>5, <1>6, <1>7 DEF SectorsInv

(* The sectors could not be read: nothing changes but the status.          *)
LEMMA ReadFailsStep ==
    ASSUME ExternalAssumption, SectorsInv, ReadFails, kinds' = kinds
    PROVE  SectorsInv'
<1>1. UNCHANGED <<sector, call, promised>> /\ faulted' = TRUE
  BY DEF ReadFails
<1>2. Types'
  BY <1>1 DEF SectorsInv, Types
<1>3. Promises'
  BY <1>1 DEF Promises
<1> QED BY <1>1, <1>2, <1>3 DEF SectorsInv

(* Nothing that the sectors are about changes.                             *)
LEMMA SectorsStutter ==
    ASSUME ExternalAssumption, SectorsInv, UNCHANGED vars
    PROVE  SectorsInv'
<1>1. UNCHANGED <<sector, call, promised, faulted, kinds>>
  BY DEF vars
<1>2. Types'
  BY <1>1 DEF SectorsInv, Types
<1>3. \A k : Load(k)' = Load(k)
  BY <1>1 DEF Load, SelectNewest
<1>4. Promises'
  BY <1>1, <1>3 DEF SectorsInv, Promises
<1> QED BY <1>1, <1>2, <1>4 DEF SectorsInv

(* Both sectors are empty at first.                                        *)
LEMMA SectorsInit ==
    ASSUME ExternalAssumption, Init
    PROVE  SectorsInv
<1>1. \A s \in Slots, k \in AllKinds : sector[s][k] = Torn
  BY DEF Init
<1>2. Torn \in AnyRecord /\ \A k \in AllKinds : Torn \in RecordType(k)
  BY Places DEF AllKinds
<1>3. sector \in [Slots -> [AllKinds -> AnyRecord]]
  BY <1>2 DEF Init
<1>4. SectorOK(sector)
  BY <1>1, <1>2, <1>3 DEF SectorOK
<1>5. call.pc = "idle" /\ CallOK(call, kinds)
  BY IdleCall DEF Init
<1>6. Types
  <2>1. faulted \in BOOLEAN /\ kinds \subseteq AllKinds
    BY DEF Init, ExternalAssumption, AllKinds
  <2>2. promised \in [AllKinds -> SUBSET (Bodies["C"] \cup Bodies["H"] \cup {NoBody})]
    BY DEF Init
  <2> QED BY <1>4, <1>5, <2>1, <2>2 DEF Types
<1>7. PairsOK(sector)
  BY <1>1 DEF PairsOK, Follows, Slots
<1>8. OwnOK(sector, call) /\ PartnerOK(sector, call)
  BY <1>5 DEF OwnOK, PartnerOK
<1>9. Promises
  <2>1. \A k \in AllKinds : Load(k) = NoBody
    BY <1>1, <1>4, LoadIs DEF Load, Slots
  <2>2. \A k \in AllKinds : promised[k] = {NoBody}
    BY DEF Init
  <2> QED BY <1>5, <2>1, <2>2 DEF Promises
<1> QED BY <1>6, <1>7, <1>8, <1>9 DEF SectorsInv

(* SectorsInv is kept by every step.                                       *)
LEMMA SectorsStep ==
    ASSUME ExternalAssumption, SectorsInv, [Next]_vars
    PROVE  SectorsInv'
<1>1. CASE Next
  <2>1. kinds' = kinds
    BY <1>1 DEF Next
  <2>2. CASE \E k \in kinds : \E b \in Bodies[k] : Commit(k, b)
    BY <2>1, <2>2, CommitStep
  <2>3. CASE EraseSector
    BY <2>1, <2>3, EraseStep
  <2>4. CASE WriteRecord
    BY <2>1, <2>4, WriteStep
  <2>5. CASE RestorePartner
    BY <2>1, <2>5, RestoreStep
  <2>6. CASE Verify
    BY <2>1, <2>6, VerifyStep
  <2>7. CASE ReadFails
    BY <2>1, <2>7, ReadFailsStep
  <2>8. CASE WriteCorrupts
    BY <2>1, <2>8, CorruptStep
  <2>9. CASE EraseFails \/ WriteFails \/ VerifyFails \/ PowerLoss
    BY <2>1, <2>9, FaultStep
  <2> QED BY <1>1, <2>2, <2>3, <2>4, <2>5, <2>6, <2>7, <2>8, <2>9 DEF Next
<1>2. CASE UNCHANGED vars
  BY <1>2, SectorsStutter
<1> QED BY <1>1, <1>2

-----------------------------------------------------------------------------
(* During a call, what Load returns of the kind that is written changes in *)
(* one step only, the one that writes the candidate.                       *)
LEMMA LoadChanges ==
    ASSUME ExternalAssumption, SectorsInv, SectorsInv', Next, call.pc # "idle",
           NEW k \in AllKinds, call.kind = k
    PROVE  /\ WriteRecord => Load(k)' = call.candidate.body
           /\ ~WriteRecord => Load(k)' = Load(k)
<1> DEFINE t == call.target
<1>1. /\ k \in AllKinds /\ t \in Slots /\ SectorOK(sector) /\ Other(t) \in Slots
      /\ Partner(k) \in AllKinds /\ Partner(k) # k /\ Partner(Partner(k)) = k
      /\ call.candidate \in RecordType(k) /\ call.preserved \in RecordType(Partner(k))
      /\ CallOK(call, kinds)
  BY InCall DEF SectorsInv, Types
<1>2. SectorOK(sector') /\ CallOK(call', kinds') /\ OwnOK(sector', call')
  BY DEF SectorsInv, Types
<1>3. Load(k) = LoadOf(sector, k) /\ Load(k)' = LoadOf(sector', k)
  BY <1>1, <1>2, LoadIs, LoadIsNext
<1>4. CASE EraseSector \/ EraseFails
  <2>1. call.pc = "erase" /\ \E lost \in SUBSET AllKinds : sector' = Erased(sector, t, lost)
    <3>1. CASE EraseSector
      <4>1. call.pc = "erase" /\ sector' = Erased(sector, t, AllKinds)
        BY <3>1 DEF EraseSector, Erased
      <4> QED BY <4>1
    <3>2. CASE EraseFails
      BY <3>2 DEF EraseFails, Erased
    <3> QED BY <1>4, <3>1, <3>2
  <2>2. PICK lost \in SUBSET AllKinds : sector' = Erased(sector, t, lost)
    BY <2>1
  <2>3. /\ sector'[t][k] = Torn \/ sector'[t][k] = sector[t][k]
        /\ sector'[Other(t)][k] = sector[Other(t)][k]
    BY <1>1, <2>2, Lose
  <2>4. OwnOK(sector', call)
    BY <2>1, <2>3 DEF SectorsInv, OwnOK
  <2>5. LoadOf(sector', k) = sector'[Other(t)][k].body /\ LoadOf(sector, k) = sector[Other(t)][k].body
    BY <1>1, <1>2, <2>1, <2>4, OwnLoad DEF SectorsInv
  <2> QED BY <1>3, <2>1, <2>3, <2>5 DEF WriteRecord
<1>5. CASE WriteRecord
  <2>1. /\ call.pc = "write" /\ sector' = Written(sector, t, k, call.candidate)
        /\ call' = [call EXCEPT !.pc = IF call.preserved = Torn THEN "verify" ELSE "restore"]
    BY <1>5 DEF WriteRecord, Written
  <2>2. sector'[t][k] = call.candidate
    BY <1>1, <2>1, Put
  <2>3. /\ call'.pc \in {"restore", "verify"} /\ call'.kind = k /\ call'.target = t
        /\ call'.candidate = call.candidate
    BY <1>1, <2>1 DEF CallOK
  <2>4. LoadOf(sector', call'.kind) = call'.candidate.body
    BY <1>2, <2>2, <2>3, OwnLoad
  <2> QED BY <1>3, <1>5, <2>3, <2>4
<1>6. CASE RestorePartner
  <2>1. call.pc = "restore" /\ sector' = Written(sector, t, Partner(k), call.preserved)
    BY <1>6 DEF RestorePartner, Written
  <2>2. sector'[t][k] = sector[t][k] /\ sector'[Other(t)][k] = sector[Other(t)][k]
    BY <1>1, <2>1, Put
  <2>3. LoadOf(sector', k) = LoadOf(sector, k)
    BY <1>1, <2>2, LoadSide
  <2> QED BY <1>3, <2>1, <2>3 DEF WriteRecord
<1>7. CASE Verify \/ WriteFails \/ WriteCorrupts \/ VerifyFails \/ PowerLoss
  <2>1. sector' = sector
    BY <1>7 DEF Verify, WriteFails, WriteCorrupts, VerifyFails, PowerLoss
  <2>2. Load(k)' = Load(k)
    BY <1>3, <2>1
  <2>3. ~WriteRecord
    <3>1. SUFFICES ASSUME WriteRecord PROVE FALSE
      OBVIOUS
    <3>2. sector'[t][k] = call.candidate /\ call.pc = "write"
      <4>1. call.pc = "write" /\ sector' = Written(sector, t, k, call.candidate)
        BY <3>1 DEF WriteRecord, Written
      <4> QED BY <1>1, <4>1, Put
    <3>3. sector[t][k] = Torn /\ call.candidate # Torn
      BY <3>2, InCall DEF SectorsInv, OwnOK
    <3> QED BY <2>1, <3>2, <3>3
  <2> QED BY <2>2, <2>3
<1> QED BY <1>4, <1>5, <1>6, <1>7 DEF Next, Commit, ReadFails

(* When Verify finds the candidate in place, Load returns it.              *)
LEMMA VerifiedIsLoaded ==
    ASSUME ExternalAssumption, SectorsInv, call.pc \in {"restore", "verify"},
           sector[call.target][call.kind] = call.candidate
    PROVE  Load(call.kind) = call.candidate.body
<1>1. /\ call.kind \in AllKinds /\ SectorOK(sector) /\ CallOK(call, kinds) /\ OwnOK(sector, call)
  BY InCall DEF SectorsInv, Types
<1>2. LoadOf(sector, call.kind) = call.candidate.body
  BY <1>1, OwnLoad
<1> QED BY <1>1, <1>2, LoadIs

(* What a step may do to the kind that is written.                         *)
LEMMA OwnKindStep ==
    ASSUME ExternalAssumption, SectorsInv, SectorsInv', [Next]_vars, NEW k \in AllKinds,
           call.kind = k
    PROVE  /\ call.pc # "idle" => Load(k)' \in {Load(k), call.candidate.body}
           /\ status = "BUSY" /\ status' = "OK" => Load(k)' = call.candidate.body
<1>1. CASE UNCHANGED vars
  <2>1. Load(k)' = Load(k) /\ status' = status
    BY <1>1 DEF vars, Load, SelectNewest
  <2> QED BY <2>1
<1>2. CASE Next
  <2>1. ASSUME call.pc # "idle"
        PROVE  Load(k)' \in {Load(k), call.candidate.body}
    BY <1>2, <2>1, LoadChanges
  <2>2. ASSUME status = "BUSY", status' = "OK"
        PROVE  Load(k)' = call.candidate.body
    <3>1. Verify
      BY <1>2, <2>2 DEF Next, Commit, EraseSector, WriteRecord, RestorePartner, ReadFails,
         EraseFails, WriteFails, WriteCorrupts, VerifyFails, PowerLoss, Return
    <3>2. call.pc = "verify" /\ sector[call.target][call.kind] = call.candidate /\ sector' = sector
      BY <2>2, <3>1 DEF Verify, Return
    <3>3. Load(k) = call.candidate.body
      BY <3>2, VerifiedIsLoaded
    <3>4. Load(k)' = Load(k)
      BY <3>2 DEF Load, SelectNewest
    <3> QED BY <3>3, <3>4
  <2> QED BY <2>1, <2>2
<1> QED BY <1>1, <1>2

(* The properties of a state follow from SectorsInv.                       *)
LEMMA SectorsInvSuffices ==
    ASSUME ExternalAssumption, SectorsInv
    PROVE  TypeOK /\ Coexist
<1>1. \A s \in Slots, k \in AllKinds :
         sector[s][k] = Torn \/ (Validate(k, sector[s][k]) /\ sector[s][k].body \in Bodies[k])
  BY Places DEF SectorsInv, Types, SectorOK
<1>2. /\ call.pc \in {"idle", "erase", "write", "restore", "verify"}
      /\ call.kind \in AllKinds /\ call.target \in Slots
      /\ call.pc = "idle" => call = NoCall
  BY DEF SectorsInv, Types, CallOK
<1>3. Coexist
  BY DEF SectorsInv, Promises, Coexist
<1> QED BY <1>1, <1>2, <1>3 DEF TypeOK

(* Download checkpoints and install handoffs share their two sectors and   *)
(* do not harm each other (DownloadCheckpointStorage_Commit and            *)
(* UpdateHandoffStorage_Commit): a commit is atomic for its own kind with  *)
(* every fault, OK means that its record is the one Load returns across    *)
(* the wrap-around of generations, and while no operation fails the other  *)
(* kind's newest record outlives the erase of its sector.                  *)
THEOREM BothKindsAreKept ==
    ASSUME ExternalAssumption
    PROVE  Spec => BothKindsKept
<1> DEFINE Atomic == \A k \in AllKinds : call.pc # "idle" /\ call.kind = k =>
                       Load(k)' \in {Load(k), call.candidate.body}
           Loaded == \A k \in AllKinds : status = "BUSY" /\ status' = "OK" /\ call.kind = k =>
                       Load(k)' = call.candidate.body
<1>1. Init => SectorsInv
  BY SectorsInit
<1>2. SectorsInv /\ [Next]_vars => SectorsInv'
  BY SectorsStep
<1>3. SectorsInv => TypeOK /\ Coexist
  BY SectorsInvSuffices
<1>4. SectorsInv /\ SectorsInv' /\ [Next]_vars => Atomic /\ Loaded
  BY OwnKindStep
<1> QED BY <1>1, <1>2, <1>3, <1>4, PTL DEF Spec, BothKindsKept, OwnKindAtomic, OkIsLoaded

-----------------------------------------------------------------------------
(* When checkpoints have the sectors to themselves, a commit is a request  *)
(* to the register, or refused by it.                                      *)
LEMMA CommitIsRequest ==
    ASSUME ExternalAssumption, SectorsInv, Alone, kinds' = kinds,
           NEW b \in Bodies["C"], Commit("C", b)
    PROVE  Checkpoint!Next
<1> DEFINE g == NextGeneration(CurrentGeneration("C"))
           r == Record(g, b)
           t == SelectWriteSlot("C")
<1>1. call.pc = "idle" /\ sector' = sector /\ "C" \in AllKinds /\ SectorOK(sector) /\ PairsOK(sector)
  BY DEF Commit, AllKinds, SectorsInv, Types
<1>2. g # 0
  <2>1. t \in Slots /\ CurrentGeneration("C") = sector[Other(t)]["C"].generation
    BY <1>1, WriteSlot
  <2>2. CurrentGeneration("C") \in Nat /\ CurrentGeneration("C") < 2 * GenHalf
    BY <1>1, <2>1, Places, Two DEF SectorOK
  <2> QED BY <2>2, Successor
<1>3. Validate("C", r) <=> Validate("C", Record(1, b))
  BY <1>1, <1>2, Valid
<1>4. Load("C")' = Load("C")
  BY <1>1 DEF Load, SelectNewest
<1>5. CASE Validate("C", r)
  <2>1. status' = "BUSY" /\ call'.pc = "erase" /\ call'.candidate = r
    BY <1>5 DEF Commit, Begin
  <2>2. r.body = b
    BY DEF Record
  <2> HIDE DEF r
  <2>3. Checkpoint!Request(b)
    BY <1>1, <1>3, <1>4, <1>5, <2>1, <2>2 DEF Checkpoint!Request, Alone
  <2> QED BY <2>3 DEF Checkpoint!Next
<1>6. CASE ~Validate("C", r)
  <2>1. status' = "INVALID_ARGUMENT" /\ call' = call
    BY <1>6 DEF Commit
  <2>2. Checkpoint!Refuse(b)
    BY <1>1, <1>3, <1>4, <1>6, <2>1 DEF Checkpoint!Refuse, Alone
  <2> QED BY <2>2 DEF Checkpoint!Next
<1> QED BY <1>5, <1>6

(* Every other step is the register's Apply, Succeed or PowerLoss, or      *)
(* changes nothing of it.                                                  *)
LEMMA CheckpointStep ==
    ASSUME ExternalAssumption, SectorsInv, SectorsInv', [Next]_vars
    PROVE  [Checkpoint!Next]_Checkpoint!vars
<1>1. CASE UNCHANGED vars
  <2>1. Load("C")' = Load("C")
    BY <1>1 DEF vars, Load, SelectNewest
  <2> QED BY <1>1, <2>1 DEF vars, Checkpoint!vars, Alone
<1>2. CASE Next /\ ~Alone
  BY <1>2 DEF Next, Checkpoint!vars, Alone
<1>3. CASE Next /\ Alone /\ call.pc = "idle"
  <2>1. kinds' = kinds /\ kinds = {"C"}
    BY <1>3 DEF Next, Alone
  <2>2. CASE \E k \in kinds : \E b \in Bodies[k] : Commit(k, b)
    <3>1. PICK b \in Bodies["C"] : Commit("C", b)
      BY <2>1, <2>2
    <3> QED BY <1>3, <2>1, <3>1, CommitIsRequest
  <2>3. CASE ReadFails
    <3>1. status' = "READ_FAILED" /\ call' = call /\ sector' = sector
      BY <2>3 DEF ReadFails
    <3>2. Load("C")' = Load("C")
      BY <3>1 DEF Load, SelectNewest
    <3>3. Checkpoint!PowerLoss
      BY <1>3, <2>1, <3>1, <3>2 DEF Checkpoint!PowerLoss, Alone
    <3> QED BY <3>3 DEF Checkpoint!Next
  <2> QED BY <1>3, <2>2, <2>3 DEF Next, EraseSector, WriteRecord, RestorePartner, Verify,
             EraseFails, WriteFails, WriteCorrupts, VerifyFails, PowerLoss, Failing
<1>4. CASE Next /\ Alone /\ call.pc # "idle"
  <2>1. kinds' = kinds /\ kinds = {"C"}
    BY <1>4 DEF Next, Alone
  <2>2. /\ call.kind = "C" /\ "C" \in AllKinds /\ call.target \in Slots /\ SectorOK(sector)
        /\ call.candidate \in RecordType("C") /\ call.candidate # Torn
        /\ Partner("C") \in AllKinds /\ Partner(Partner("C")) = "C"
        /\ call.preserved \in RecordType(Partner("C"))
        /\ CallOK(call, kinds) /\ OwnOK(sector, call)
    BY <1>4, <2>1, InCall DEF SectorsInv, Types, CallOK
  <2>3. /\ WriteRecord => Load("C")' = call.candidate.body
        /\ ~WriteRecord => Load("C")' = Load("C")
    BY <1>4, <2>2, LoadChanges
  <2>4. ASSUME call' = NoCall, ~WriteRecord,
               status' \in {"NONE", "READ_FAILED", "ERASE_FAILED", "WRITE_FAILED", "VERIFY_FAILED"}
        PROVE  Checkpoint!Next
    <3>1. call'.pc = "idle"
      BY <2>4 DEF NoCall
    <3>2. Checkpoint!PowerLoss
      BY <1>4, <2>1, <2>3, <2>4, <3>1 DEF Checkpoint!PowerLoss, Alone
    <3> QED BY <3>2 DEF Checkpoint!Next
  <2>5. CASE EraseSector
    <3>1. call.pc = "erase" /\ call' = [call EXCEPT !.pc = "write"] /\ status' = status
      BY <2>5 DEF EraseSector
    <3>2. call'.pc = "write" /\ call'.candidate = call.candidate
      BY <2>2, <3>1 DEF CallOK
    <3>3. ~WriteRecord
      BY <3>1 DEF WriteRecord
    <3> QED BY <1>4, <2>1, <2>3, <3>1, <3>2, <3>3 DEF Checkpoint!vars, Alone
  <2>6. CASE WriteRecord
    <3>1. /\ call.pc = "write" /\ sector' = Written(sector, call.target, "C", call.candidate)
          /\ call' = [call EXCEPT !.pc = IF call.preserved = Torn THEN "verify" ELSE "restore"]
          /\ status' = status
      BY <2>2, <2>6 DEF WriteRecord, Written
    <3>2. /\ call'.pc \in {"restore", "verify"} /\ call'.candidate = call.candidate
          /\ call'.target = call.target
      BY <2>2, <3>1 DEF CallOK
    <3>3. sector'[call.target]["C"] = call.candidate
      BY <2>2, <3>1, Put
    <3>4. Checkpoint!Apply
      BY <1>4, <2>1, <2>3, <2>6, <3>1, <3>2, <3>3 DEF Checkpoint!Apply, Alone
    <3> QED BY <3>4 DEF Checkpoint!Next
  <2>7. CASE RestorePartner
    <3>1. /\ call.pc = "restore" /\ sector' = Written(sector, call.target, Partner("C"), call.preserved)
          /\ call' = [call EXCEPT !.pc = "verify"] /\ status' = status
      BY <2>2, <2>7 DEF RestorePartner, Written
    <3>2. call'.pc = "verify" /\ call'.candidate = call.candidate /\ call'.target = call.target
      BY <2>2, <3>1 DEF CallOK
    <3>3. sector'[call.target]["C"] = sector[call.target]["C"]
      BY <2>2, <3>1, Put
    <3>4. ~WriteRecord
      BY <3>1 DEF WriteRecord
    <3> QED BY <1>4, <2>1, <2>3, <3>1, <3>2, <3>3, <3>4 DEF Checkpoint!vars, Alone
  <2>8. CASE Verify
    <3>1. call.pc = "verify" /\ call' = NoCall /\ ~WriteRecord
      BY <2>8 DEF Verify, Return, WriteRecord
    <3>2. CASE sector[call.target]["C"] = call.candidate
      <4>1. status' = "OK" /\ call'.pc = "idle"
        BY <2>2, <2>8, <3>2 DEF Verify, Return, NoCall
      <4>2. Checkpoint!Succeed
        BY <1>4, <2>1, <2>3, <3>1, <3>2, <4>1 DEF Checkpoint!Succeed, Alone
      <4> QED BY <4>2 DEF Checkpoint!Next
    <3>3. CASE sector[call.target]["C"] # call.candidate
      <4>1. status' = "VERIFY_FAILED"
        BY <2>2, <2>8, <3>3 DEF Verify, Return
      <4> QED BY <2>4, <3>1, <4>1
    <3> QED BY <3>2, <3>3
  <2>9. CASE WriteCorrupts
    <3>1. /\ call.pc \in {"write", "restore"} /\ UNCHANGED <<sector, status>>
          /\ call' = [call EXCEPT !.pc = IF call.pc = "write" /\ call.preserved # Torn
                                           THEN "restore" ELSE "verify"]
      BY <2>9 DEF WriteCorrupts
    <3>2. /\ call'.pc \in {"restore", "verify"} /\ call'.candidate = call.candidate
          /\ call'.target = call.target
      BY <2>2, <3>1 DEF CallOK
    <3>3. call.pc = "write" => sector[call.target]["C"] # call.candidate
      BY <2>2 DEF OwnOK
    <3>4. Load("C")' = Load("C")
      BY <3>1 DEF Load, SelectNewest
    <3> QED BY <1>4, <2>1, <3>1, <3>2, <3>3, <3>4 DEF Checkpoint!vars, Alone
  <2>10. CASE EraseFails \/ VerifyFails
    BY <2>4, <2>10 DEF EraseFails, VerifyFails, Return, WriteRecord
  <2>11. CASE WriteFails \/ PowerLoss
    <3>1. call' = NoCall /\ status' \in {"WRITE_FAILED", "NONE"} /\ sector' = sector
      BY <2>11 DEF WriteFails, PowerLoss, Return
    <3>2. ~WriteRecord
      <4>1. WriteRecord => call'.pc \in {"restore", "verify"}
        BY <2>2 DEF WriteRecord, CallOK
      <4> QED BY <3>1, <4>1 DEF NoCall
    <3> QED BY <2>4, <3>1, <3>2
  <2> QED BY <1>4, <2>5, <2>6, <2>7, <2>8, <2>9, <2>10, <2>11 DEF Next, Commit, ReadFails
<1> QED BY <1>1, <1>2, <1>3, <1>4

(* With the sectors to themselves, the two download checkpoint sectors are *)
(* an atomic register in every behaviour, faults included                  *)
(* (DownloadCheckpointStorage_Commit, _Load): the write of the record, its *)
(* CRC word last, is the one step in which a commit takes effect.          *)
THEOREM CheckpointsAreAtomic ==
    ASSUME ExternalAssumption
    PROVE  Spec => AtomicCheckpoint
<1>1. Init => SectorsInv
  BY SectorsInit
<1>2. SectorsInv /\ [Next]_vars => SectorsInv'
  BY SectorsStep
<1>3. Init => Checkpoint!Init
  <2> SUFFICES ASSUME Init PROVE Checkpoint!Init
    OBVIOUS
  <2>1. sector["A"]["C"] = Torn /\ sector["B"]["C"] = Torn /\ call.pc = "idle" /\ status = "NONE"
    BY DEF Init, NoCall, Slots, AllKinds
  <2>2. "C" \in AllKinds /\ SectorOK(sector)
    BY SectorsInit DEF AllKinds, SectorsInv, Types
  <2>3. Load("C") = NoBody
    BY <2>1, <2>2, LoadIs DEF Load
  <2> QED BY <2>1, <2>3 DEF Checkpoint!Init
<1>4. SectorsInv /\ SectorsInv' /\ [Next]_vars => [Checkpoint!Next]_Checkpoint!vars
  BY CheckpointStep
<1> QED BY <1>1, <1>2, <1>3, <1>4, PTL DEF Spec, AtomicCheckpoint, Checkpoint!Spec

=============================================================================
