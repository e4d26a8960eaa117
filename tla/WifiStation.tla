---------------------------- MODULE WifiStation ----------------------------
(***************************************************************************)
(* WifiStation_Connect and the event handler that outlives it: the worker  *)
(* waits for the first connection, the event task reconnects from then on. *)
(* The driver and the access point are external; an attempt to connect     *)
(* ends with an address or with a disconnection, and a connection that     *)
(* stands may be lost.                                                     *)
(***************************************************************************)
EXTENDS Naturals

CONSTANT
    WIFI_MAX_RETRIES

(* What the constants have to satisfy.                                     *)
WifiAssumption == WIFI_MAX_RETRIES \in Nat

VARIABLES
    pc,             \* place of the worker in WifiStation_Connect
    result,         \* what it returned
    s_retry_count,
    bits,           \* s_event_group
    radio,          \* "off", "started", "connecting", "associated" or "idle"
    power_save,     \* mode of the modem: "min_modem" or "none"
    failures        \* history: disconnections since the last address

vars == <<pc, result, s_retry_count, bits, radio, power_save, failures>>

CONNECTED_BIT == "connected"
FAILED_BIT == "failed"

Init ==
    /\ pc = "nvs" /\ result = "none"
    /\ s_retry_count = 0 /\ bits = {} /\ radio = "off" /\ power_save = "min_modem"
    /\ failures = 0

Goto(next) == pc' = next /\ UNCHANGED <<result, s_retry_count, bits, radio, power_save, failures>>

Returned(r) ==
    /\ pc' = "returned" /\ result' = r
    /\ UNCHANGED <<s_retry_count, bits, radio, power_save, failures>>

-----------------------------------------------------------------------------
(* InitNvs: a partition of another layout is erased and tried once more.   *)
InitNvs ==
    \/ pc = "nvs" /\ (Goto("start") \/ Goto("nvsErase") \/ Returned("error"))
    \/ pc = "nvsErase" /\ (Goto("nvsAgain") \/ Returned("error"))
    \/ pc = "nvsAgain" /\ (Goto("start") \/ Returned("error"))

(* From esp_netif_init to esp_wifi_start.                                  *)
StartStation ==
    /\ pc = "start"
    /\ \/ /\ pc' = "wait" /\ s_retry_count' = 0 /\ radio' = "started"
          /\ UNCHANGED <<result, bits, power_save, failures>>
       \/ Returned("error")

(* The wait for either bit, and its timeout.                               *)
Wait ==
    /\ pc = "wait"
    /\ \/ CONNECTED_BIT \in bits /\ Goto("setPs")
       \/ CONNECTED_BIT \notin bits /\ FAILED_BIT \in bits /\ Returned("failed")
       \/ bits = {} /\ Returned("timeout")

(* esp_wifi_set_ps may fail, or report success and change nothing.         *)
SetPowerSave ==
    /\ pc = "setPs"
    /\ \/ /\ pc' = "getPs" /\ power_save' \in {"none", power_save}
          /\ UNCHANGED <<result, s_retry_count, bits, radio, failures>>
       \/ Returned("error")

GetPowerSave ==
    /\ pc = "getPs"
    /\ \/ power_save = "none" /\ Returned("ok")
       \/ Returned("error")

-----------------------------------------------------------------------------
(* WifiEventHandler.                                                       *)

StaStart ==
    /\ radio = "started"
    /\ radio' = "connecting"
    /\ UNCHANGED <<pc, result, s_retry_count, bits, power_save, failures>>

(* Mutant: the retry counter is never reset.                               *)
GotIpKeepsCount ==
    /\ radio = "connecting"
    /\ radio' = "associated" /\ failures' = 0
    /\ bits' = bits \cup {CONNECTED_BIT}
    /\ UNCHANGED <<pc, result, s_retry_count, power_save>>

GotIp ==
    /\ radio = "connecting"
    /\ radio' = "associated" /\ failures' = 0
    /\ s_retry_count' = 0
    /\ bits' = bits \cup {CONNECTED_BIT}
    /\ UNCHANGED <<pc, result, power_save>>

StaDisconnected ==
    /\ radio \in {"connecting", "associated"}
    /\ failures' = failures + 1
    /\ IF s_retry_count < WIFI_MAX_RETRIES
         THEN s_retry_count' = s_retry_count + 1 /\ radio' = "connecting" /\ UNCHANGED bits
         ELSE bits' = bits \cup {FAILED_BIT} /\ radio' = "idle" /\ UNCHANGED s_retry_count
    /\ UNCHANGED <<pc, result, power_save>>

Worker == InitNvs \/ StartStation \/ Wait \/ SetPowerSave \/ GetPowerSave

EventTask == StaStart \/ GotIp \/ StaDisconnected

Next == Worker \/ EventTask

Spec == Init /\ [][Next]_vars

(* Tasks are scheduled, and an attempt to connect ends one way or another. *)
FairSpec == Spec /\ WF_vars(EventTask) /\ WF_vars(Worker)

-----------------------------------------------------------------------------
(* Types of the variables of the station.                                  *)
TypeOK ==
    /\ result \in {"none", "ok", "failed", "timeout", "error"}
    /\ (result = "none") = (pc # "returned")
    /\ s_retry_count \in 0..WIFI_MAX_RETRIES
    /\ bits \subseteq {CONNECTED_BIT, FAILED_BIT}

(* The station stops trying only after a whole run of disconnections with  *)
(* no address in between, however many it met in its life before that.     *)
GivesUpLate == radio = "idle" => failures > WIFI_MAX_RETRIES

(* ESP_OK: an address was obtained and the modem really is out of power    *)
(* save, which the driver is not believed about.                           *)
OkIsAwake == result = "ok" => power_save = "none" /\ CONNECTED_BIT \in bits

(* From the moment the radio is started, a station that is never refused   *)
(* more often in a row than it retries gets an address again and again,    *)
(* also long after WifiStation_Connect has returned.                       *)
StaysConnected ==
    [](failures <= WIFI_MAX_RETRIES) => [](radio # "off" => <>(radio = "associated"))

=============================================================================
