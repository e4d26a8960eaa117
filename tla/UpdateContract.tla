---------------------------- MODULE UpdateContract ----------------------------
(***************************************************************************)
(* What the node promises of an update, without flash, records, power or   *)
(* faults.  A requested update is dropped, or it replaces the active image *)
(* by a newer one, which then has a fixed number of chances to run and to  *)
(* declare itself healthy.  Only then does it become the active image; an  *)
(* image that uses up its chances is replaced by the one before it.        *)
(* BootManager implements this specification.                              *)
(***************************************************************************)
EXTENDS Integers

CONSTANTS
    Versions,          \* firmware versions
    FactoryVersion,    \* the version programmed at production
    MAX_BOOT_ATTEMPTS  \* chances of an image on trial

VARIABLES
    phase,    \* how far the update is
    active,   \* the version the node falls back to
    pending,  \* the version that is to replace it, 0 if none
    tries,    \* chances the pending version was given
    starts,   \* how often it was started
    running   \* the version that is running, 0 during a reset

vars == <<phase, active, pending, tries, starts, running>>

Init ==
    /\ phase = "settled" /\ active = FactoryVersion /\ pending = 0
    /\ tries = 0 /\ starts = 0 /\ running = 0

Moves(from, to) == phase = from /\ phase' = to

(* The active image is started while there is nothing to decide.           *)
StartActive ==
    /\ phase = "settled" /\ running = 0
    /\ running' = active
    /\ UNCHANGED <<phase, active, pending, tries, starts>>

(* Power, watchdog and the operator may end any run.                       *)
Stop ==
    /\ running # 0 /\ running' = 0
    /\ UNCHANGED <<phase, active, pending, tries, starts>>

(* INSTALL: whatever was transferred, the running application hands over.  *)
(* Where the request is recorded but reported as failed, the application   *)
(* goes on and may request another update instead.                         *)
Request ==
    /\ Moves("settled", "requested") \/ Moves("requested", "requested")
    /\ running = active
    /\ pending' \in Versions /\ running' \in {0, running}
    /\ UNCHANGED <<active, tries, starts>>

(* An update is dropped before anything was replaced.                      *)
Drop ==
    /\ Moves("requested", "settled") /\ pending' = 0
    /\ UNCHANGED <<active, tries, starts, running>>

(* The application region is given up, for a newer image only.             *)
Replace ==
    /\ Moves("requested", "replacing") /\ pending > active
    /\ UNCHANGED <<active, pending, tries, starts, running>>

BeginTrial ==
    /\ Moves("replacing", "trial")
    /\ UNCHANGED <<active, pending, tries, starts, running>>

(* A chance is counted before the image is started.                        *)
Try ==
    /\ phase = "trial" /\ running = 0 /\ tries < MAX_BOOT_ATTEMPTS
    /\ tries' = tries + 1
    /\ UNCHANGED <<phase, active, pending, starts, running>>

StartPending ==
    /\ phase = "trial" /\ running = 0 /\ starts < tries
    /\ running' = pending /\ starts' = starts + 1
    /\ UNCHANGED <<phase, active, pending, tries>>

(* Only the image on trial can confirm itself.  It may go on running when  *)
(* it takes the confirmation for failed.                                   *)
Confirm ==
    /\ Moves("trial", "confirmed") /\ running = pending
    /\ running' \in {0, running} /\ tries' = 0 /\ starts' = 0
    /\ UNCHANGED <<active, pending>>

Adopt ==
    /\ Moves("confirmed", "settled")
    /\ active' = pending /\ pending' = 0
    /\ UNCHANGED <<tries, starts, running>>

(* The installation failed, or every chance was used.                      *)
GiveUp(to) ==
    /\ running = 0
    /\ \/ Moves("replacing", to)
       \/ Moves("trial", to) /\ tries = MAX_BOOT_ATTEMPTS
    /\ tries' = 0 /\ starts' = 0
    /\ UNCHANGED <<active, pending, running>>

Undo ==
    /\ Moves("undoing", "settled") /\ pending' = 0
    /\ UNCHANGED <<active, tries, starts, running>>

(* The node stops for good.                                                *)
Fail ==
    \/ GiveUp("failed")
    \/ /\ Moves("requested", "failed") \/ Moves("undoing", "failed")
       /\ UNCHANGED <<active, pending, tries, starts, running>>

Next ==
    \/ StartActive
    \/ Stop
    \/ Request
    \/ Drop
    \/ Replace
    \/ BeginTrial
    \/ Try
    \/ StartPending
    \/ Confirm
    \/ Adopt
    \/ GiveUp("undoing")
    \/ Undo
    \/ Fail

Spec == Init /\ [][Next]_vars

=============================================================================
