----------------------------- MODULE ImageVector -----------------------------
(***************************************************************************)
(* The first two words of an image, its initial stack pointer and its      *)
(* reset handler, are checked by two functions written apart:              *)
(* FullImage_ValidateVector (shared/src/full_image_validation.c), which    *)
(* knows how long the image is, and ApplicationJump_Validate               *)
(* (bootloader/src/application_jump.c), which reads the application region *)
(* and does not.  An image goes through both: as candidate, after its      *)
(* installation, at every boot, and once more when its backup is restored. *)
(***************************************************************************)
EXTENDS Integers, TLAPS

CONSTANTS
    INTERNAL_SRAM_BASE, INTERNAL_SRAM_END,
    APPLICATION_START_ADDRESS, APPLICATION_MAX_SIZE, BOOT_METADATA_ADDRESS,
    StackPointers, ResetHandlers, Sizes   \* the words and lengths images may have

(* memory_map.h: the boot record begins where the application region ends. *)
ASSUME MemoryMapAssumption ==
    /\ INTERNAL_SRAM_BASE \in Nat /\ INTERNAL_SRAM_END \in Nat
    /\ APPLICATION_START_ADDRESS \in Nat /\ APPLICATION_MAX_SIZE \in Nat
    /\ APPLICATION_START_ADDRESS % 512 = 0
    /\ APPLICATION_MAX_SIZE >= 8
    /\ BOOT_METADATA_ADDRESS = APPLICATION_START_ADDRESS + APPLICATION_MAX_SIZE

ASSUME ImagesAssumption ==
    StackPointers \subseteq Nat /\ ResetHandlers \subseteq Nat /\ Sizes \subseteq Nat

VARIABLES
    image,  \* the image under consideration: size and first two words
    place   \* where it is, and what has become of it

vars == <<image, place>>

Places == {"offered", "candidate", "installed", "active", "saved",
           "refused", "unusable", "lost"}

ApplicationVector == [size : Sizes, stack : StackPointers, reset : ResetHandlers]

(* The reset handler's address without its Thumb bit.                      *)
CodeAddress(handler) == handler - (handler % 2)

StackPointerInRange(sp) == sp \in INTERNAL_SRAM_BASE..INTERNAL_SRAM_END

(* Mutant: the end of the RAM is not taken for an address of the stack.    *)
VectorBelowRamEnd(size, v) ==
    /\ size \in 8..APPLICATION_MAX_SIZE
    /\ v.stack \in INTERNAL_SRAM_BASE..(INTERNAL_SRAM_END - 1) /\ v.stack % 8 = 0
    /\ v.reset % 2 = 1
    /\ CodeAddress(v.reset) \in APPLICATION_START_ADDRESS..(APPLICATION_START_ADDRESS + size - 1)

FullImage_ValidateVector(size, v) ==
    /\ size \in 8..APPLICATION_MAX_SIZE
    /\ StackPointerInRange(v.stack) /\ v.stack % 8 = 0
    /\ v.reset % 2 = 1
    /\ CodeAddress(v.reset) \in APPLICATION_START_ADDRESS..(APPLICATION_START_ADDRESS + size - 1)

ResetHandlerInRange(handler) ==
    CodeAddress(handler) \in APPLICATION_START_ADDRESS..(BOOT_METADATA_ADDRESS - 1)

(* ApplicationJump_Validate of a vector table at this address.             *)
ApplicationJump_Validate(address, v) ==
    /\ address % 512 = 0
    /\ address \in APPLICATION_START_ADDRESS..(BOOT_METADATA_ADDRESS - 8)
    /\ StackPointerInRange(v.stack) /\ v.stack % 8 = 0
    /\ v.reset % 2 = 1
    /\ ResetHandlerInRange(v.reset)

Bootable(v) == ApplicationJump_Validate(APPLICATION_START_ADDRESS, v)

-----------------------------------------------------------------------------
(* An image arrives, or is there from production.                          *)
Init ==
    /\ image \in ApplicationVector
    /\ place \in {"offered", "installed"}

(* ValidateExternalSource, VerifyReconstructed and the delta patcher's     *)
(* check of its result; the image has been authenticated.                  *)
ValidateCandidate ==
    /\ place = "offered"
    /\ place' = (IF FullImage_ValidateVector(image.size, image) THEN "candidate" ELSE "refused")
    /\ UNCHANGED image

(* VerifyInstalledApplication, after the CRC has matched.                  *)
VerifyInstalledVector ==
    /\ place = "candidate"
    /\ place' = (IF FullImage_ValidateVector(image.size, image) /\ Bootable(image)
                   THEN "installed" ELSE "unusable")
    /\ UNCHANGED image

(* BootManager_RefreshApplication: an image that is not bootable stays     *)
(* behind the fatal pulses, or is rolled back.                             *)
RefreshApplication ==
    /\ place = "installed"
    /\ place' = (IF Bootable(image) THEN "active" ELSE "refused")
    /\ UNCHANGED image

(* The next update saves the whole region, whatever the image's size.      *)
SaveBackup ==
    /\ place = "active"
    /\ place' = "saved"
    /\ UNCHANGED image

(* VerifyRolledBackApplication, after the CRC has matched: the size of the *)
(* image is no longer known, and the region's is used.                     *)
VerifyRolledBackVector ==
    /\ place = "saved"
    /\ place' = (IF FullImage_ValidateVector(APPLICATION_MAX_SIZE, image) /\ Bootable(image)
                   THEN "installed" ELSE "lost")
    /\ UNCHANGED image

(* The end of the story of this image.                                     *)
Rest ==
    /\ place \in {"refused", "unusable", "lost"}
    /\ UNCHANGED vars

Next ==
    \/ ValidateCandidate
    \/ VerifyInstalledVector
    \/ RefreshApplication
    \/ SaveBackup
    \/ VerifyRolledBackVector
    \/ Rest

Spec == Init /\ [][Next]_vars

-----------------------------------------------------------------------------
TypeOK == image \in ApplicationVector /\ place \in Places

(* The two checks agree on every image.  A candidate that passed the one   *)
(* made before the active image is touched is never refused once it is     *)
(* installed: whatever FullImage_ValidateVector accepts of an image,       *)
(* ApplicationJump_Validate accepts of the region that holds it.  And an   *)
(* image that has run can be rolled back to: whatever the latter started,  *)
(* the former accepts of its restored backup, although it is told the size *)
(* of the region instead of the image's.                                   *)
VectorsAgree == place \notin {"unusable", "lost"}

-----------------------------------------------------------------------------
(* The checks agree for every memory map in which the boot record follows  *)
(* the application region, and for all words and sizes.                    *)

(* What FullImage_ValidateVector accepts of an image, at whatever size,    *)
(* ApplicationJump_Validate accepts at the start of the region.            *)
LEMMA AcceptedIsBootable ==
    ASSUME NEW v \in ApplicationVector, NEW size \in Nat,
           FullImage_ValidateVector(size, v)
    PROVE  Bootable(v)
<1>1. v.stack \in Nat /\ v.reset \in Nat
  BY ImagesAssumption DEF ApplicationVector
<1>2. CodeAddress(v.reset) \in Int
  BY <1>1 DEF CodeAddress
<1>3. ResetHandlerInRange(v.reset)
  BY <1>2, MemoryMapAssumption DEF FullImage_ValidateVector, ResetHandlerInRange
<1>4. /\ APPLICATION_START_ADDRESS % 512 = 0
      /\ APPLICATION_START_ADDRESS \in APPLICATION_START_ADDRESS..(BOOT_METADATA_ADDRESS - 8)
  BY MemoryMapAssumption
<1> QED BY <1>3, <1>4 DEF FullImage_ValidateVector, Bootable, ApplicationJump_Validate

(* What ApplicationJump_Validate accepts, FullImage_ValidateVector accepts *)
(* of an image as large as the region.                                     *)
LEMMA BootableIsAccepted ==
    ASSUME NEW v \in ApplicationVector, Bootable(v)
    PROVE  FullImage_ValidateVector(APPLICATION_MAX_SIZE, v)
<1>1. APPLICATION_MAX_SIZE \in 8..APPLICATION_MAX_SIZE
  BY MemoryMapAssumption
<1>2. BOOT_METADATA_ADDRESS = APPLICATION_START_ADDRESS + APPLICATION_MAX_SIZE
  BY MemoryMapAssumption
<1> QED BY <1>1, <1>2 DEF Bootable, ApplicationJump_Validate, ResetHandlerInRange,
                          FullImage_ValidateVector

-----------------------------------------------------------------------------
(* What is known of an image at the places on its way.                     *)
VectorInv ==
    /\ TypeOK
    /\ place = "candidate" => FullImage_ValidateVector(image.size, image)
    /\ place \in {"active", "saved"} => Bootable(image)
    /\ VectorsAgree

(* Init establishes the invariant: nothing is known of a new image yet.    *)
LEMMA VectorInvInit == Init => VectorInv
BY DEF Init, VectorInv, TypeOK, Places, VectorsAgree

(* Every check and copy on the way of an image preserves the invariant.    *)
LEMMA VectorInvNext == VectorInv /\ [Next]_vars => VectorInv'
<1> SUFFICES ASSUME VectorInv, [Next]_vars PROVE VectorInv'
  OBVIOUS
<1> USE DEF VectorInv, TypeOK, Places, VectorsAgree
<1>0. image \in ApplicationVector /\ image.size \in Nat
  BY ImagesAssumption DEF ApplicationVector
<1>1. CASE ValidateCandidate
  BY <1>1 DEF ValidateCandidate
<1>2. CASE VerifyInstalledVector
  <2>1. Bootable(image)
    BY <1>0, <1>2, AcceptedIsBootable DEF VerifyInstalledVector
  <2> QED BY <1>2, <2>1 DEF VerifyInstalledVector
<1>3. CASE RefreshApplication
  BY <1>3 DEF RefreshApplication
<1>4. CASE SaveBackup
  BY <1>4 DEF SaveBackup
<1>5. CASE VerifyRolledBackVector
  <2>1. Bootable(image)
    BY <1>5 DEF VerifyRolledBackVector
  <2>2. FullImage_ValidateVector(APPLICATION_MAX_SIZE, image)
    BY <1>0, <2>1, BootableIsAccepted
  <2> QED BY <1>5, <2>1, <2>2 DEF VerifyRolledBackVector
<1>6. CASE Rest
  BY <1>6 DEF Rest, vars
<1>7. CASE UNCHANGED vars
  BY <1>7 DEF vars
<1> QED BY <1>1, <1>2, <1>3, <1>4, <1>5, <1>6, <1>7 DEF Next

(* Whatever memory map, words and sizes: an accepted candidate passes the  *)
(* check before the jump, and an image that has run is accepted when its   *)
(* backup is restored (FullImage_ValidateVector and                        *)
(* ApplicationJump_Validate).                                              *)
THEOREM VectorsAgreeHolds == Spec => []VectorsAgree
<1>1. VectorInv => VectorsAgree
  BY DEF VectorInv
<1> QED BY <1>1, VectorInvInit, VectorInvNext, PTL DEF Spec

=============================================================================
