----------------------------- MODULE OtaDevice ------------------------------
(***************************************************************************)
(* The device side of a firmware update: the OTA writer (ota_link.cpp),    *)
(* the fw_update_* handlers that drive it (usb_link.cpp), the boot of the  *)
(* device (the bootloader's choice of slot, then setup() in main.cpp) and  *)
(* the overlay that the main loop shows meanwhile.                         *)
(*                                                                         *)
(* A block stands for one 2 KB chunk, an image for the sequence of its     *)
(* blocks.  The digest the host announces is the image itself: SHA-256 is  *)
(* taken to be injective on the images and on what flash may hold instead. *)
(* Flash is unreliable: any esp_ota_* call may fail, and a block that was  *)
(* written without an error may read back as Garbage.  Power may fail      *)
(* between any two steps.                                                  *)
(***************************************************************************)
EXTENDS Naturals, Sequences

CONSTANTS
  Blocks,      \* contents a chunk can have
  Garbage,     \* what a block reads back as when its write did not land
  Images,      \* images a host may offer, empty and oversized ones included
  Boots,       \* images whose setup() reaches ota_mark_running_ok()
  Factory,     \* the image first flashed over the cable
  SlotBlocks   \* capacity of an app slot: 0x180000 bytes, in blocks

ASSUME OtaAssumption ==
  /\ Garbage \notin Blocks
  /\ Images \subseteq Seq(Blocks)
  /\ Boots \subseteq Images
  /\ Factory \in Boots
  /\ SlotBlocks \in Nat
  /\ Len(Factory) \in 1 .. SlotBlocks

Slots == {"app0", "app1"}
OtherSlot(s) == IF s = "app0" THEN "app1" ELSE "app0"

VARIABLES
  flash,       \* contents of the two app slots
  otadata,     \* the boot selection: a slot and its esp_ota_img_states value
  power,       \* "off", "setup" (bootloader done, setup() running) or "up"
  running,     \* the slot that was booted last
  s_active,    \* an OTA session is open
  s_failed,    \* an error was recorded since the last accepted begin
  s_partition, \* the slot the session writes
  s_expected,  \* the image announced by begin (s_total and s_expected_sha)
  s_received,  \* blocks accepted so far
  reply,       \* the event the last handled command answered with
  screen       \* what the main loop last drew: "pages" or "ota"

flashVars == <<flash, otadata>>
otaVars   == <<s_active, s_failed, s_partition, s_expected, s_received>>
vars      == <<flashVars, power, running, otaVars, reply, screen>>

NoReply     == [name |-> "none", ok |-> TRUE]
Started(ok) == [name |-> "fw_update_started", ok |-> ok]
Ack(ok)     == [name |-> "fw_update_chunk_ack", ok |-> ok]
DoneFailed  == [name |-> "fw_update_done", ok |-> FALSE]
Replies     == {NoReply, DoneFailed} \cup {Started(ok) : ok \in BOOLEAN}
                                     \cup {Ack(ok) : ok \in BOOLEAN}

Init ==
  /\ flash = [s \in Slots |-> IF s = "app0" THEN Factory ELSE <<>>]
  /\ otadata = [slot |-> "app0", state |-> "valid"]
  /\ power = "off"
  /\ running = "app0"
  /\ s_active = FALSE
  /\ s_failed = FALSE
  /\ s_partition = "app1"
  /\ s_expected = <<>>
  /\ s_received = 0
  /\ reply = NoReply
  /\ screen = "pages"

-----------------------------------------------------------------------------
(* fw_update_begin                                                         *)

SizeOk(img) == Len(img) # 0 /\ Len(img) <= SlotBlocks

Mut_SamePartition == running
\* esp_ota_get_next_update_partition(nullptr): the slot that is not running.
NextUpdatePartition == OtherSlot(running)

\* set_err(): besides the message, it latches s_failed.
SetErr == s_failed' = TRUE

BeginBusy ==
  /\ s_active
  /\ SetErr
  /\ reply' = Started(FALSE)
  /\ UNCHANGED <<flash, s_active, s_partition, s_expected, s_received>>

BeginBadSize(img) ==
  /\ ~s_active
  /\ ~SizeOk(img)
  /\ SetErr
  /\ reply' = Started(FALSE)
  /\ UNCHANGED <<flash, s_active, s_partition, s_expected, s_received>>

\* esp_ota_begin() fails, before or after it has erased the slot.
BeginFlashError(img) ==
  /\ ~s_active
  /\ SizeOk(img)
  /\ s_partition' = NextUpdatePartition
  /\ flash' \in {flash, [flash EXCEPT ![NextUpdatePartition] = <<>>]}
  /\ SetErr
  /\ reply' = Started(FALSE)
  /\ UNCHANGED <<s_active, s_expected, s_received>>

BeginAccepted(img) ==
  /\ ~s_active
  /\ SizeOk(img)
  /\ s_partition' = NextUpdatePartition
  /\ flash' = [flash EXCEPT ![NextUpdatePartition] = <<>>]
  /\ s_active' = TRUE
  /\ s_failed' = FALSE
  /\ s_expected' = img
  /\ s_received' = 0
  /\ reply' = Started(TRUE)

FwUpdateBegin(img) ==
  /\ power = "up"
  /\ \/ BeginBusy
     \/ BeginBadSize(img)
     \/ BeginFlashError(img)
     \/ BeginAccepted(img)
  /\ UNCHANGED <<otadata, power, running, screen>>

-----------------------------------------------------------------------------
(* fw_update_chunk: the sequence number is echoed, never compared          *)

ChunkFits == s_received + 1 <= Len(s_expected)

\* The payload is not base64: refused before the writer sees it.
ChunkUndecodable ==
  /\ reply' = Ack(FALSE)
  /\ UNCHANGED <<flash, s_active, s_failed, s_received>>

\* No session, or an overrun, which leaves the session open.
ChunkRefused ==
  /\ ~s_active \/ ~ChunkFits
  /\ SetErr
  /\ reply' = Ack(FALSE)
  /\ UNCHANGED <<flash, s_active, s_received>>

ChunkFlashError ==
  /\ s_active
  /\ ChunkFits
  /\ s_active' = FALSE
  /\ SetErr
  /\ reply' = Ack(FALSE)
  /\ UNCHANGED <<flash, s_received>>

ChunkWritten(block) ==
  /\ s_active
  /\ ChunkFits
  /\ \E landed \in {block, Garbage} :
       flash' = [flash EXCEPT ![s_partition] = Append(@, landed)]
  /\ s_received' = s_received + 1
  /\ reply' = Ack(TRUE)
  /\ UNCHANGED <<s_active, s_failed>>

FwUpdateChunk(block) ==
  /\ power = "up"
  /\ \/ ChunkUndecodable
     \/ ChunkRefused
     \/ ChunkFlashError
     \/ ChunkWritten(block)
  /\ UNCHANGED <<otadata, power, running, s_partition, s_expected, screen>>

-----------------------------------------------------------------------------
(* fw_update_end and fw_update_abort                                       *)

Mut_LengthOnly == Len(flash[s_partition]) = Len(s_expected)
\* The read-back of the slot hashes to the announced digest.
VerifyImageSha == flash[s_partition] = s_expected

\* RAM does not survive a reset: the statics take their initial values.
ResetRam ==
  /\ s_active' = FALSE
  /\ s_failed' = FALSE
  /\ s_partition' = "app1"
  /\ s_expected' = <<>>
  /\ s_received' = 0
  /\ reply' = NoReply
  /\ screen' = "pages"

\* No session, a short read, a failing esp_ota_end, a digest that does not
\* match, or a failing esp_ota_set_boot_partition: nothing is committed.
EndFailed ==
  /\ s_active' = FALSE
  /\ SetErr
  /\ reply' = DoneFailed
  /\ UNCHANGED <<otadata, power, s_partition, s_expected, s_received, screen>>

\* esp_ota_set_boot_partition(), then esp_restart().  The handler does not
\* return, so this end has no reply.
EndCommitted ==
  /\ s_active
  /\ s_received = Len(s_expected)
  /\ VerifyImageSha
  /\ otadata' = [slot |-> s_partition, state |-> "new"]
  /\ power' = "off"
  /\ ResetRam

FwUpdateEnd ==
  /\ power = "up"
  /\ EndFailed \/ EndCommitted
  /\ UNCHANGED <<flash, running>>

FwUpdateAbort ==
  /\ power = "up"
  /\ s_active' = FALSE
  /\ SetErr
  /\ reply' = DoneFailed
  /\ UNCHANGED <<flashVars, power, running, s_partition, s_expected,
                 s_received, screen>>

-----------------------------------------------------------------------------
(* Power, the bootloader and setup()                                       *)

\* The bootloader's choice: a new image is booted pending verification; one
\* still pending at the next reset is given up for the other slot.
BootSelection(o) ==
  CASE o.state = "new"     -> [o EXCEPT !.state = "pending"]
    [] o.state = "pending" -> [slot |-> OtherSlot(o.slot), state |-> "valid"]
    [] OTHER               -> o

Bootloader ==
  /\ power = "off"
  /\ otadata' = BootSelection(otadata)
  /\ running' = BootSelection(otadata).slot
  /\ power' = "setup"
  /\ UNCHANGED <<flash, otaVars, reply, screen>>

Mut_NeverMarked(o) == o
\* esp_ota_mark_app_valid_cancel_rollback()
MarkValid(o) == [o EXCEPT !.state = "valid"]

\* setup() reaches ota_mark_running_ok(); the loop, and so the links, run
\* only after it.
MarkRunningOk ==
  /\ power = "setup"
  /\ flash[running] \in Boots
  /\ otadata' = MarkValid(otadata)
  /\ power' = "up"
  /\ UNCHANGED <<flash, running, otaVars, reply, screen>>

\* An image that is no good panics before the mark, and the chip resets.
SetupCrash ==
  /\ power = "setup"
  /\ flash[running] \notin Boots
  /\ power' = "off"
  /\ UNCHANGED <<flashVars, running, otaVars, reply, screen>>

PowerLoss ==
  /\ power # "off"
  /\ power' = "off"
  /\ ResetRam
  /\ UNCHANGED <<flashVars, running>>

\* The tail of loop(): the overlay while a session is open or has failed.
LoopDraw ==
  /\ power = "up"
  /\ screen' = IF s_active \/ s_failed THEN "ota" ELSE "pages"
  /\ UNCHANGED <<flashVars, power, running, otaVars, reply>>

-----------------------------------------------------------------------------
Boot == Bootloader \/ MarkRunningOk \/ SetupCrash

Next ==
  \/ \E img \in Images : FwUpdateBegin(img)
  \/ \E block \in Blocks : FwUpdateChunk(block)
  \/ FwUpdateEnd
  \/ FwUpdateAbort
  \/ Boot
  \/ PowerLoss
  \/ LoopDraw

Spec == Init /\ [][Next]_vars

\* A chip that is powered runs its bootloader and its loop.  The strong
\* fairness says that the power does not fail in every one of the 150 ms
\* windows between the reset and the mark.
FairSpec ==
  /\ Spec
  /\ WF_vars(Bootloader)
  /\ WF_vars(SetupCrash)
  /\ SF_vars(MarkRunningOk)
  /\ WF_vars(LoopDraw)

-----------------------------------------------------------------------------
Cells == Blocks \cup {Garbage}

\* Every variable has its type; no command sequence makes a session larger
\* than the slot it writes.
TypeOK ==
  /\ flash \in [Slots -> Seq(Cells)]
  /\ \A s \in Slots : Len(flash[s]) <= SlotBlocks
  /\ otadata \in [slot : Slots, state : {"new", "pending", "valid"}]
  /\ power \in {"off", "setup", "up"}
  /\ running \in Slots
  /\ s_active \in BOOLEAN
  /\ s_failed \in BOOLEAN
  /\ s_partition \in Slots
  /\ s_expected \in Images \cup {<<>>}
  /\ s_received \in 0 .. SlotBlocks
  /\ reply \in Replies
  /\ screen \in {"pages", "ota"}

\* Whatever is cut short, and wherever, a reset has a way to an image that
\* boots: the selected slot holds one, or it holds one on trial and the other
\* slot still holds the image that the trial replaced.
NeverBricked ==
  IF otadata.state = "valid"
    THEN flash[otadata.slot] \in Boots
    ELSE /\ flash[otadata.slot] \in Images
         /\ flash[OtherSlot(otadata.slot)] \in Boots

\* No command, in any order, writes the slot that the firmware executes from.
RunningImageUntouched ==
  [][power = "up" => flash'[running] = flash[running]]_vars

\* The two slots, the hash check and the rollback amount to replacing one
\* whole image by another in one step.
Atomic == INSTANCE AtomicUpdate WITH
  fw       <- flash[otadata.slot],
  status   <- IF otadata.state = "valid" THEN "confirmed" ELSE "trial",
  fallback <- IF otadata.state = "valid" THEN flash[otadata.slot]
                                         ELSE flash[OtherSlot(otadata.slot)]
ImplementsAtomicUpdate == Atomic!Spec

\* A device that goes down comes up again, whatever image it was given.
ComesBackUp == (power = "off") ~> (power = "up")
=============================================================================
