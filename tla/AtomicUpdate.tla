---------------------------- MODULE AtomicUpdate ----------------------------
(***************************************************************************)
(* What the firmware updater of dashd promises, without slots, chunks,     *)
(* hashes or power failures: the device holds one whole image, an update   *)
(* replaces it by another whole image in a single step, the new image is   *)
(* on trial until it has booted, and a trial that does not complete falls  *)
(* back to the image it replaced.  OtaDevice implements this.              *)
(***************************************************************************)
CONSTANTS
  Images,    \* the firmware images that can be offered to the device
  Boots,     \* those whose setup() reaches ota_mark_running_ok()
  Factory    \* the image the device left the factory with

VARIABLES
  fw,        \* the image the next reset starts
  status,    \* "confirmed", or "trial" until the image has booted once
  fallback   \* the image a failed trial returns to (fw itself if confirmed)

vars == <<fw, status, fallback>>

Init == fw = Factory /\ status = "confirmed" /\ fallback = Factory

\* A confirmed device adopts a complete image, on trial.
Install ==
  /\ status = "confirmed"
  /\ fw' \in Images
  /\ status' = "trial"
  /\ fallback' = fw

\* The image on trial came up: it is kept, and is what later trials return to.
Confirm ==
  /\ status = "trial"
  /\ fw \in Boots
  /\ status' = "confirmed"
  /\ fw' = fw
  /\ fallback' = fw

\* The trial was cut short, by a crash or by a power failure.
Revert ==
  /\ status = "trial"
  /\ fw' = fallback
  /\ status' = "confirmed"
  /\ fallback' = fallback

Next == Install \/ Confirm \/ Revert

Spec == Init /\ [][Next]_vars
=============================================================================
