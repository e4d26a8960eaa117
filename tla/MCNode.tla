------------------------------- MODULE MCNode -------------------------------
(* The node with three versions.  Version 2 fills the application region    *)
(* (three pages, one and a half sectors); 1 and 3 end in the middle of the   *)
(* second page and leave the third to whatever was there.                   *)
EXTENDS BootManager, TLC

MCImageSize == 1 :> 3 @@ 2 :> 6 @@ 3 :> 3

Full(v) == [magic |-> TRUE, genuine |-> TRUE, kind |-> "FULL", target |-> v, base |-> 0,
            base_image |-> 0, patch_ok |-> TRUE, total_size |-> MCImageSize[v] + 2]
Delta(v, b) == [Full(v) EXCEPT !.kind = "DELTA", !.base = b, !.base_image = b,
                               !.total_size = 4]

(* Honest updates in two steps, as full image and as delta, ...             *)
HonestOffers ==
    {[version |-> 2, artifact |-> Full(2)], [version |-> 2, artifact |-> Delta(2, 1)],
     [version |-> 3, artifact |-> Delta(3, 2)]}

(* One of each kind, where more would only repeat them, ...                 *)
LiveOffers == {[version |-> 2, artifact |-> Full(2)], [version |-> 3, artifact |-> Delta(3, 2)]}

(* ... and artifacts that must not get through: an old image announced as a *)
(* new version, a delta against another build of its base, a delta that     *)
(* does not rebuild its target.  A forged container meets the bootloader    *)
(* as one that ArtifactDecays has spoilt, since the application does not    *)
(* authenticate; something else than a container as Junk, when the record   *)
(* of an INSTALL that was reported as failed is in force.                   *)
BadOffers ==
    {[version |-> 2, artifact |-> Full(1)],
     [version |-> 3, artifact |-> [Delta(3, 1) EXCEPT !.base_image = 2]],
     [version |-> 3, artifact |-> [Delta(3, 2) EXCEPT !.patch_ok = FALSE]]}

SignedOffers == LiveOffers \cup BadOffers

(* The unsigned artifacts of a legacy build.                                *)
Bare(v) == [Full(v) EXCEPT !.magic = FALSE, !.total_size = MCImageSize[v]]
Patch(v, b) == [Delta(v, b) EXCEPT !.magic = FALSE, !.kind = "D13P"]

LegacyOffers ==
    {[version |-> 2, artifact |-> Bare(2)], [version |-> 3, artifact |-> Patch(3, 2)]}

(* What is offered to which build in which run; a host that aborts at will  *)
(* needs two full images in a row to lose the backup of the first.          *)
MCOffers == FALSE :> SignedOffers @@ TRUE :> LegacyOffers
MCLiveOffers == FALSE :> LiveOffers
MCHonestOffers == FALSE :> HonestOffers \cup {[version |-> 3, artifact |-> Full(3)]}
=============================================================================
