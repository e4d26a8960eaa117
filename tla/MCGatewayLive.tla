--------------------------- MODULE MCGatewayLive ---------------------------
(***************************************************************************)
(* What the gateway has to bring to an end, for TLC: a command, a download *)
(* into the cache and a connection to the access point.  The three are     *)
(* looked at one at a time: GatewayManager knows the other two by their    *)
(* results.                                                                *)
(*                                                                         *)
(* Downloads: two updates, files shorter and longer than a sector, one     *)
(* that does not fill its last chunk, one too large for the partition, one *)
(* too large for the node, and an empty one.  GatewayManagerProofs proves  *)
(* OkMeansDone for any.                                                    *)
(***************************************************************************)
EXTENDS MCGateway

CONSTANTS
    Bodies, Requests, SECTOR, DATA_SIZE, Blank, Garbage, BUFFER, DOWNLOAD_LIMIT,  \* of HttpsDownload
    WIFI_MAX_RETRIES                                                              \* of WifiStation

VARIABLES
    task,                                                        \* the one that is looked at
    header, data, writer, dpc, request, body, received, fetched, served,  \* of HttpsDownload
    pc, returned, s_retry_count, bits, radio, power_save, failures        \* of WifiStation

File(n, target) == [length |-> n, target |-> target]

MCBodies == {File(3, 2), File(2, 3), File(5, 3), File(7, 3), File(0, 0)}

MCRequests == {[update_id |-> 1, target_version |-> 2, https |-> TRUE],
               [update_id |-> 2, target_version |-> 3, https |-> TRUE],
               [update_id |-> 2, target_version |-> 3, https |-> FALSE]}

Cache == INSTANCE HttpsDownload WITH MAX_IMAGE <- DOWNLOAD_LIMIT, result <- fetched

Station == INSTANCE WifiStation WITH result <- returned

ASSUME TransportAssumption ==
    Cache!CacheAssumption /\ Cache!DownloadAssumption /\ Station!WifiAssumption

cacheState == <<header, data, writer, dpc, request, body, received, fetched, served>>
wifiState == <<pc, returned, s_retry_count, bits, radio, power_save, failures>>

LiveInit ==
    /\ task \in {"command", "download", "station"}
    /\ Init /\ Cache!Init /\ Station!Init
    /\ task # "command" => config = [valid |-> TRUE, single_shot |-> TRUE]

CommandStep(A) == task = "command" /\ A /\ UNCHANGED <<task, cacheState, wifiState>>
DownloadStep(A) == task = "download" /\ A /\ UNCHANGED <<task, vars, wifiState>>
StationStep(A) == task = "station" /\ A /\ UNCHANGED <<task, vars, cacheState>>

LiveNext == CommandStep(Next) \/ DownloadStep(Cache!Next) \/ StationStep(Station!Next)

liveVars == <<task, vars, cacheState, wifiState>>

(* The fairness of each: its tasks are scheduled, and what waits has a     *)
(* deadline.                                                               *)
LiveSpec ==
    /\ LiveInit /\ [][LiveNext]_liveVars
    /\ WF_liveVars(CommandStep(Worker))
    /\ WF_liveVars(DownloadStep(Cache!Worker))
    /\ WF_liveVars(StationStep(Station!Worker))
    /\ WF_liveVars(StationStep(Station!EventTask))

-----------------------------------------------------------------------------
(* What is reported as done is done.  A readable cache header describes    *)
(* bytes that are all in flash, whatever step of BeginWrite or Commit      *)
(* failed; an artifact that can be opened is one whole file sent for its   *)
(* update; ESP_OK of HttpsDownload_ToCache means that the file of this     *)
(* call is there (artifact_cache.c, https_download.c).  ESP_OK of          *)
(* WifiStation_Connect means an address and no modem sleep, and the        *)
(* station gives up only after a whole run of disconnections.              *)
OkMeansDone ==
    /\ Cache!TypeOK /\ Cache!HeaderLast /\ Cache!PublishedIsWhole /\ Cache!OkIsPublished
    /\ Station!TypeOK /\ Station!OkIsAwake /\ Station!GivesUpLate

(* Nothing waits for ever: a command ends, with the link lost for good too *)
(* (gateway_manager.c, mqtt_orchestrator.c); a download returns, whatever  *)
(* the server does or fails to do (https_download.c); and a station that   *)
(* is not refused too often in a row gets its address back, long after     *)
(* WifiStation_Connect has returned too (wifi_station.c).                  *)
GatewayRecovers == CommandEnds /\ Cache!DownloadEnds /\ Station!StaysConnected

=============================================================================
