-------------------------- MODULE MetadataRegister --------------------------
(***************************************************************************)
(* What MetadataStorage promises its callers: one record that is replaced  *)
(* atomically.  A commit takes effect at most once and not after it has    *)
(* returned.  OK means that it took effect, REJECTED that it did not;      *)
(* after UNKNOWN and after a power loss it may or may not have, so the     *)
(* caller has to load the record to learn which: the old one or the new    *)
(* one, never a third value.                                               *)
(***************************************************************************)
CONSTANTS
    Bodies,       \* records a caller may ask to commit
    ValidBodies,  \* the ones BootMetadata_Validate accepts
    DefaultBody   \* what Load returns when nothing was ever committed

VARIABLES
    value,    \* the record Load returns
    pending,  \* {} or {b}: the commit in progress
    applied,  \* the commit in progress has taken effect
    status    \* what the last commit reported

vars == <<value, pending, applied, status>>

Init ==
    /\ value = DefaultBody
    /\ pending = {}
    /\ applied = FALSE
    /\ status = "NONE"

Request(b) ==
    /\ pending = {}
    /\ b \in ValidBodies
    /\ pending' = {b}
    /\ status' = "BUSY"
    /\ UNCHANGED <<value, applied>>

Refuse(b) ==
    /\ pending = {}
    /\ b \notin ValidBodies
    /\ status' = "INVALID_ARGUMENT"
    /\ UNCHANGED <<value, pending, applied>>

Apply ==
    /\ ~applied
    /\ \E b \in pending : value' = b
    /\ applied' = TRUE
    /\ UNCHANGED <<pending, status>>

Succeed ==
    /\ applied
    /\ pending' = {}
    /\ applied' = FALSE
    /\ status' = "OK"
    /\ UNCHANGED value

Fail ==
    /\ pending # {}
    /\ ~applied
    /\ pending' = {}
    /\ status' = "REJECTED"
    /\ UNCHANGED <<value, applied>>

(* An error that does not tell whether the commit took effect.             *)
Unclear ==
    /\ pending # {}
    /\ pending' = {}
    /\ applied' = FALSE
    /\ status' = "UNKNOWN"
    /\ UNCHANGED value

PowerLoss ==
    /\ pending' = {}
    /\ applied' = FALSE
    /\ status' = "NONE"
    /\ UNCHANGED value

Next ==
    \/ \E b \in Bodies : Request(b) \/ Refuse(b)
    \/ Apply
    \/ Succeed
    \/ Fail
    \/ Unclear
    \/ PowerLoss

Spec == Init /\ [][Next]_vars

=============================================================================
