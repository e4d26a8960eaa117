--------------------------- MODULE MCUartTransfer ---------------------------
(* Instances of UartTransfer for TLC: DATA packets of 2 bytes, sectors of  *)
(* 4, artifacts of 5, so that an artifact has a checkpoint in the middle   *)
(* and a last packet that is short.                                        *)
EXTENDS UartTransfer

FullV2 == [update_id |-> 1, target_version |-> 2, base_version |-> 0,
           size |-> 5, crc |-> "v2"]
DeltaV3 == [update_id |-> 2, target_version |-> 3, base_version |-> 1,
            size |-> 5, crc |-> "v3"]
(* Published again under the same identifier after a rebuild.              *)
RebuiltV2 == [FullV2 EXCEPT !.crc = "v2b"]

TwoUpdates == {FullV2, DeltaV3}
ReusedId == {FullV2, RebuiltV2}

UniqueIds == {TwoUpdates}
AnyIds == {TwoUpdates, ReusedId}

(* What a step may do in the calm it may do before it, so that the calm    *)
(* adds no state to an invariant.                                          *)
Unsettled == ~stable

=============================================================================
