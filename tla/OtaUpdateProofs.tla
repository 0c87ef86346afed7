-------------------------- MODULE OtaUpdateProofs ---------------------------
(***************************************************************************)
(* Proofs about OtaDevice, for any images, any slot capacity and any       *)
(* sequence of commands, flash errors and power failures; and about        *)
(* OtaUpdate, for any attempts, any capacity of the queue and any losses.  *)
(*                                                                         *)
(* The device of a whole update is the device of OtaDevice, so what is     *)
(* proved of the device alone holds of it too.  That agent and device stay *)
(* in step is proved from what is under way and in which order (Under and  *)
(* Prec): nothing is under way that was not sent, and nothing twice; what  *)
(* a task was answered is gone, and what it sends next comes behind the    *)
(* rest.                                                                   *)
(***************************************************************************)
EXTENDS OtaUpdate, SequenceTheorems, TLAPS

\* An open session writes the slot that neither runs nor boots, has the
\* length it counted, and can only have been opened after the mark.
SessionOk ==
  s_active => /\ power = "up"
              /\ s_partition = OtherSlot(running)
              /\ s_expected \in Images
              /\ Len(s_expected) <= SlotBlocks
              /\ s_received = Len(flash[s_partition])

\* What runs is what the boot selection names, and it is confirmed as soon
\* as the loop, and so any command, can run.
RunningSelected ==
  /\ power # "off" => running = otadata.slot
  /\ power = "up" => otadata.state = "valid"
  /\ otadata.state = "new" => power = "off"

\* The inductive invariant: NeverBricked alone is not one, since a commit keeps
\* it only if the session wrote the other slot and what ran was confirmed.
IInv == TypeOK /\ SessionOk /\ RunningSelected /\ NeverBricked

\* There are two slots: each is the other's other.
LEMMA OtherSlotFacts ==
  \A s \in Slots : /\ OtherSlot(s) \in Slots
                   /\ OtherSlot(s) # s
                   /\ OtherSlot(OtherSlot(s)) = s
  BY DEF Slots, OtherSlot

\* The capacity of a slot bounds the received count from above and below.
LEMMA SlotBlocksFacts == SlotBlocks \in Nat /\ 0 \in 0 .. SlotBlocks
  BY OtaAssumption

\* Every answer a handler gives is a reply.
LEMMA ReplyFacts ==
  /\ NoReply \in Replies
  /\ DoneFailed \in Replies
  /\ \A ok \in BOOLEAN : Started(ok) \in Replies /\ Ack(ok) \in Replies
  BY DEF Replies

\* Erasing a slot, or appending one cell to it, keeps flash well typed.
LEMMA FlashFacts ==
  ASSUME flash \in [Slots -> Seq(Cells)], NEW s \in Slots
  PROVE  /\ [flash EXCEPT ![s] = <<>>] \in [Slots -> Seq(Cells)]
         /\ \A c \in Cells :
              /\ [flash EXCEPT ![s] = Append(@, c)] \in [Slots -> Seq(Cells)]
              /\ Len(Append(flash[s], c)) = Len(flash[s]) + 1
<1>1. <<>> \in Seq(Cells)
  OBVIOUS
<1>2. ASSUME NEW c \in Cells
      PROVE  /\ Append(flash[s], c) \in Seq(Cells)
             /\ Len(Append(flash[s], c)) = Len(flash[s]) + 1
  <2>1. flash[s] \in Seq(Cells)
    OBVIOUS
  <2> QED
    BY <2>1
<1> QED
  BY <1>1, <1>2

\* The device leaves the factory with an image that boots.
LEMMA InitInv == Init => IInv
<1> SUFFICES ASSUME Init PROVE IInv
  OBVIOUS
<1>1. Factory \in Seq(Cells) /\ <<>> \in Seq(Cells) /\ Len(Factory) <= SlotBlocks
  BY OtaAssumption DEF Cells
<1>2. TypeOK
  <2>1. flash \in [Slots -> Seq(Cells)] /\ \A s \in Slots : Len(flash[s]) <= SlotBlocks
    BY <1>1, OtaAssumption DEF Init
  <2>2. otadata \in [slot : Slots, state : {"new", "pending", "valid"}]
    BY DEF Init, Slots
  <2> QED
    BY <2>1, <2>2, SlotBlocksFacts, ReplyFacts DEF Init, TypeOK, Slots
<1>3. SessionOk /\ RunningSelected
  BY DEF Init, SessionOk, RunningSelected
<1>4. NeverBricked
  BY OtaAssumption DEF Init, NeverBricked, Slots
<1> QED
  BY <1>2, <1>3, <1>4 DEF IInv

\* fw_update_begin erases a slot that neither runs nor is selected, and opens a
\* session no larger than it, or changes nothing but the error flag.
LEMMA BeginInv ==
  ASSUME IInv, NEW img \in Images, FwUpdateBegin(img)
  PROVE  IInv'
<1> USE DEF IInv
<1>0. NextUpdatePartition = OtherSlot(otadata.slot) /\ otadata.state = "valid"
  BY DEF FwUpdateBegin, NextUpdatePartition, RunningSelected
<1>1. CASE BeginBusy
  <2>1. TypeOK'
    BY <1>1, ReplyFacts DEF FwUpdateBegin, BeginBusy, SetErr, TypeOK
  <2> QED
    BY <1>1, <2>1 DEF FwUpdateBegin, BeginBusy, SessionOk, RunningSelected, NeverBricked
<1>2. CASE BeginBadSize(img)
  <2>1. TypeOK'
    BY <1>2, ReplyFacts DEF FwUpdateBegin, BeginBadSize, SetErr, TypeOK
  <2> QED
    BY <1>2, <2>1 DEF FwUpdateBegin, BeginBadSize, SessionOk, RunningSelected, NeverBricked
<1>3. CASE BeginFlashError(img) \/ BeginAccepted(img)
  <2>1. NextUpdatePartition \in Slots /\ otadata.slot \in Slots
    BY <1>0, OtherSlotFacts DEF TypeOK
  <2>2. flash' \in {flash, [flash EXCEPT ![NextUpdatePartition] = <<>>]}
    BY <1>3 DEF BeginFlashError, BeginAccepted
  <2>3. /\ flash' \in [Slots -> Seq(Cells)]
        /\ \A s \in Slots : Len(flash'[s]) <= SlotBlocks
    <3>1. Len(<<>>) = 0 /\ 0 <= SlotBlocks
      BY SlotBlocksFacts
    <3>2. [flash EXCEPT ![NextUpdatePartition] = <<>>] \in [Slots -> Seq(Cells)]
      BY <2>1, FlashFacts DEF TypeOK
    <3>3. \A s \in Slots :
            Len([flash EXCEPT ![NextUpdatePartition] = <<>>][s]) <= SlotBlocks
      BY <3>1 DEF TypeOK
    <3> QED
      BY <2>2, <3>2, <3>3 DEF TypeOK
  <2>4. flash'[otadata.slot] = flash[otadata.slot]
    BY <1>0, <2>1, <2>2, OtherSlotFacts DEF TypeOK
  <2>5. TypeOK'
    BY <1>3, <2>1, <2>3, ReplyFacts, SlotBlocksFacts
    DEF FwUpdateBegin, BeginFlashError, BeginAccepted, SetErr, TypeOK
  <2>6. SessionOk'
    <3>1. CASE BeginFlashError(img)
      BY <3>1 DEF BeginFlashError, SessionOk
    <3>2. CASE BeginAccepted(img)
      <4>1. flash'[NextUpdatePartition] = <<>>
        BY <3>2, <2>1 DEF BeginAccepted, TypeOK
      <4>2. s_received' = Len(flash'[s_partition'])
        BY <3>2, <4>1 DEF BeginAccepted
      <4> QED
        BY <3>2, <4>2
        DEF BeginAccepted, FwUpdateBegin, SessionOk, NextUpdatePartition, SizeOk
    <3> QED
      BY <1>3, <3>1, <3>2
  <2>7. RunningSelected' /\ NeverBricked'
    <3>1. otadata' = otadata /\ power' = power /\ running' = running
      BY DEF FwUpdateBegin
    <3> QED
      BY <1>0, <2>4, <3>1 DEF RunningSelected, NeverBricked
  <2> QED
    BY <2>5, <2>6, <2>7
<1> QED
  BY <1>1, <1>2, <1>3 DEF FwUpdateBegin

\* fw_update_chunk appends to that slot one cell and counts it, if it fits.
LEMMA ChunkInv ==
  ASSUME IInv, NEW block \in Blocks, FwUpdateChunk(block)
  PROVE  IInv'
<1> USE DEF IInv
<1>0. otadata.state = "valid" /\ running = otadata.slot /\ otadata.slot \in Slots
  BY DEF FwUpdateChunk, RunningSelected, TypeOK
<1>1. CASE ChunkUndecodable \/ ChunkRefused \/ ChunkFlashError
  <2>1. TypeOK'
    BY <1>1, ReplyFacts
    DEF FwUpdateChunk, ChunkUndecodable, ChunkRefused, ChunkFlashError, SetErr, TypeOK
  <2>2. /\ UNCHANGED <<flash, otadata, power, running, s_partition, s_expected, s_received>>
        /\ s_active' = s_active \/ s_active' = FALSE
    BY <1>1 DEF FwUpdateChunk, ChunkUndecodable, ChunkRefused, ChunkFlashError
  <2> QED
    BY <2>1, <2>2 DEF SessionOk, RunningSelected, NeverBricked
<1>2. CASE ChunkWritten(block)
  <2>1. PICK landed \in {block, Garbage} :
          flash' = [flash EXCEPT ![s_partition] = Append(@, landed)]
    BY <1>2 DEF ChunkWritten
  <2>2. /\ s_active /\ s_received + 1 <= Len(s_expected)
        /\ s_partition = OtherSlot(running) /\ Len(s_expected) <= SlotBlocks
        /\ s_received = Len(flash[s_partition])
        /\ s_expected \in Images
    BY <1>2 DEF ChunkWritten, ChunkFits, SessionOk
  <2>3. landed \in Cells /\ s_partition \in Slots
    BY DEF Cells, TypeOK
  <2>4. /\ flash' \in [Slots -> Seq(Cells)]
        /\ Len(flash'[s_partition]) = s_received + 1
    BY <2>1, <2>2, <2>3, FlashFacts DEF TypeOK
  <2>5. \A s \in Slots \ {s_partition} : flash'[s] = flash[s]
    BY <2>1 DEF TypeOK
  <2>6. s_received + 1 \in 0 .. SlotBlocks
    <3>1. s_received \in Nat /\ SlotBlocks \in Nat
      BY OtaAssumption DEF TypeOK
    <3>2. Len(s_expected) \in Nat
      BY <2>2, OtaAssumption
    <3> QED
      BY <2>2, <3>1, <3>2
  <2>7. \A s \in Slots : Len(flash'[s]) <= SlotBlocks
    <3>1. Len(flash'[s_partition]) <= SlotBlocks
      BY <2>4, <2>6, SlotBlocksFacts
    <3> QED
      BY <2>5, <3>1 DEF TypeOK
  <2>8. TypeOK'
    BY <1>2, <2>4, <2>6, <2>7, ReplyFacts DEF FwUpdateChunk, ChunkWritten, TypeOK
  <2>9. SessionOk'
    BY <1>2, <2>2, <2>4 DEF FwUpdateChunk, ChunkWritten, SessionOk
  <2>10. flash'[otadata.slot] = flash[otadata.slot]
    BY <1>0, <2>2, <2>5, OtherSlotFacts
  <2>11. RunningSelected' /\ NeverBricked'
    BY <1>0, <2>10 DEF FwUpdateChunk, RunningSelected, NeverBricked
  <2> QED
    BY <2>8, <2>9, <2>11
<1> QED
  BY <1>1, <1>2 DEF FwUpdateChunk

\* fw_update_end selects the slot only when it holds the announced image; the
\* slot it leaves holds the confirmed one.
LEMMA EndInv ==
  ASSUME IInv, FwUpdateEnd \/ FwUpdateAbort
  PROVE  IInv'
<1> USE DEF IInv
<1>1. CASE FwUpdateAbort \/ (FwUpdateEnd /\ EndFailed)
  <2>1. UNCHANGED <<flash, otadata, power, running, s_partition, s_expected, s_received>>
    BY <1>1 DEF FwUpdateAbort, FwUpdateEnd, EndFailed, flashVars
  <2>2. s_active' = FALSE /\ s_failed' = TRUE /\ reply' = DoneFailed /\ screen' = screen
    BY <1>1 DEF FwUpdateAbort, FwUpdateEnd, EndFailed, SetErr
  <2>3. TypeOK'
    BY <2>1, <2>2, ReplyFacts DEF TypeOK
  <2> QED
    BY <2>1, <2>2, <2>3 DEF SessionOk, RunningSelected, NeverBricked
<1>2. CASE FwUpdateEnd /\ EndCommitted
  <2>1. /\ flash' = flash /\ running' = running
        /\ otadata' = [slot |-> s_partition, state |-> "new"]
        /\ power' = "off" /\ s_active' = FALSE
    BY <1>2 DEF FwUpdateEnd, EndCommitted, ResetRam
  <2>2. /\ flash[s_partition] = s_expected /\ s_expected \in Images
        /\ s_partition = OtherSlot(running) /\ running = otadata.slot
        /\ flash[otadata.slot] \in Boots
    BY <1>2
    DEF FwUpdateEnd, EndCommitted, VerifyImageSha, SessionOk, RunningSelected, NeverBricked
  <2>3. s_partition \in Slots /\ otadata.slot \in Slots
    BY DEF TypeOK
  <2>4. OtherSlot(s_partition) = otadata.slot
    BY <2>2, <2>3, OtherSlotFacts
  <2>5. TypeOK'
    <3>1. otadata' \in [slot : Slots, state : {"new", "pending", "valid"}]
      BY <2>1, <2>3
    <3> QED
      BY <1>2, <2>1, <3>1, ReplyFacts, SlotBlocksFacts
      DEF FwUpdateEnd, EndCommitted, ResetRam, TypeOK, Slots
  <2>6. SessionOk' /\ RunningSelected'
    BY <2>1 DEF SessionOk, RunningSelected
  <2>7. NeverBricked'
    BY <2>1, <2>2, <2>4 DEF NeverBricked
  <2> QED
    BY <2>5, <2>6, <2>7
<1> QED
  BY <1>1, <1>2 DEF FwUpdateEnd

\* A boot, its completion or crash, a power failure, an abort and a redraw keep
\* the invariant: rollback finds the image that the trial replaced.
LEMMA BootInv ==
  ASSUME IInv, Boot \/ PowerLoss \/ LoopDraw
  PROVE  IInv'
<1> USE DEF IInv
<1>0. /\ otadata.slot \in Slots
      /\ otadata.state \in {"new", "pending", "valid"}
      /\ otadata = [slot |-> otadata.slot, state |-> otadata.state]
  BY DEF TypeOK
<1>1. CASE Bootloader
  <2>1. /\ BootSelection(otadata) \in [slot : Slots, state : {"pending", "valid"}]
        /\ BootSelection(otadata).state = "valid" =>
             flash[BootSelection(otadata).slot] \in Boots
        /\ BootSelection(otadata).state = "pending" =>
             /\ flash[BootSelection(otadata).slot] \in Images
             /\ flash[OtherSlot(BootSelection(otadata).slot)] \in Boots
    BY <1>0, OtherSlotFacts DEF BootSelection, NeverBricked
  <2>2. TypeOK'
    BY <1>1, <2>1 DEF Bootloader, otaVars, TypeOK
  <2>3. SessionOk' /\ RunningSelected' /\ NeverBricked'
    BY <1>1, <2>1 DEF Bootloader, otaVars, SessionOk, RunningSelected, NeverBricked
  <2> QED
    BY <2>2, <2>3
<1>2. CASE MarkRunningOk
  <2>1. otadata' = [slot |-> otadata.slot, state |-> "valid"]
    BY <1>0, <1>2 DEF MarkRunningOk, MarkValid
  <2>2. TypeOK'
    BY <1>0, <1>2, <2>1 DEF MarkRunningOk, otaVars, TypeOK
  <2>3. NeverBricked'
    BY <1>2, <2>1 DEF MarkRunningOk, RunningSelected, NeverBricked
  <2> QED
    BY <1>2, <2>1, <2>2, <2>3 DEF MarkRunningOk, otaVars, SessionOk, RunningSelected
<1>3. CASE SetupCrash
  BY <1>3
  DEF SetupCrash, flashVars, otaVars, TypeOK, SessionOk, RunningSelected, NeverBricked
<1>4. CASE PowerLoss
  <2>1. TypeOK'
    BY <1>4, ReplyFacts, SlotBlocksFacts DEF PowerLoss, ResetRam, flashVars, TypeOK, Slots
  <2> QED
    BY <1>4, <2>1
    DEF PowerLoss, ResetRam, flashVars, SessionOk, RunningSelected, NeverBricked
<1>5. CASE LoopDraw
  BY <1>5
  DEF LoopDraw, flashVars, otaVars, TypeOK, SessionOk, RunningSelected, NeverBricked
<1> QED
  BY <1>1, <1>2, <1>3, <1>4, <1>5 DEF Boot

\* Every step of the device keeps the inductive invariant.
LEMMA StepInv == IInv /\ [Next]_vars => IInv'
<1> SUFFICES ASSUME IInv, [Next]_vars PROVE IInv'
  OBVIOUS
<1>1. CASE Next
  BY <1>1, BeginInv, ChunkInv, EndInv, BootInv DEF Next
<1>2. CASE UNCHANGED vars
  BY <1>2
  DEF vars, flashVars, otaVars, IInv, TypeOK, SessionOk, RunningSelected, NeverBricked
<1> QED
  BY <1>1, <1>2

\* The inductive invariant holds throughout, for all images and capacities.
THEOREM Invariance == Spec => []IInv
  BY InitInv, StepInv, PTL DEF Spec

\* Types, and no session outgrows its slot, whatever the host sends.
THEOREM TypeCorrect == Spec => []TypeOK
<1>1. IInv => TypeOK
  BY DEF IInv
<1> QED
  BY <1>1, Invariance, PTL

\* A power failure, a flash error or a bad image at any step leaves a slot
\* that boots (ota_end, ota_mark_running_ok and the bootloader's rollback).
THEOREM Unbrickable == Spec => []NeverBricked
<1>1. IInv => NeverBricked
  BY DEF IInv
<1> QED
  BY <1>1, Invariance, PTL

\* The step form of RunningImageUntouched (ota_begin takes the next update
\* partition, chunks go to the session's partition).
LEMMA NextKeepsRunning == IInv /\ Next /\ power = "up" => flash'[running] = flash[running]
<1> SUFFICES ASSUME IInv, Next, power = "up" PROVE flash'[running] = flash[running]
  OBVIOUS
<1>1. running \in Slots /\ flash \in [Slots -> Seq(Cells)] /\ OtherSlot(running) # running
  BY OtherSlotFacts DEF IInv, TypeOK
<1>2. CASE \E img \in Images : FwUpdateBegin(img)
  BY <1>1, <1>2
  DEF FwUpdateBegin, BeginBusy, BeginBadSize, BeginFlashError, BeginAccepted,
      NextUpdatePartition
<1>3. CASE \E block \in Blocks : FwUpdateChunk(block)
  <2>1. PICK block \in Blocks : FwUpdateChunk(block)
    BY <1>3
  <2>2. CASE ChunkWritten(block)
    <3>1. s_partition = OtherSlot(running)
      BY <2>2 DEF ChunkWritten, IInv, SessionOk
    <3> QED
      BY <1>1, <2>2, <3>1 DEF ChunkWritten
  <2> QED
    BY <2>1, <2>2 DEF FwUpdateChunk, ChunkUndecodable, ChunkRefused, ChunkFlashError
<1>4. CASE FwUpdateEnd \/ FwUpdateAbort \/ Boot \/ PowerLoss \/ LoopDraw
  BY <1>4
  DEF FwUpdateEnd, FwUpdateAbort, Boot, Bootloader, MarkRunningOk, SetupCrash,
      PowerLoss, LoopDraw, flashVars
<1> QED
  BY <1>2, <1>3, <1>4 DEF Next

\* No order of commands writes the slot that the firmware executes from.
THEOREM RunningUntouched == Spec => RunningImageUntouched
<1>1. IInv /\ [Next]_vars => [power = "up" => flash'[running] = flash[running]]_vars
  BY NextKeepsRunning
<1> QED
  BY <1>1, Invariance, PTL DEF Spec, RunningImageUntouched

-----------------------------------------------------------------------------
(* Refinement.  The abstract device changes when the selection or the      *)
(* selected slot does: at a commit, at the mark, and at a rollback.        *)

SelectedUnchanged ==
  /\ otadata' = otadata
  /\ flash'[otadata.slot] = flash[otadata.slot]

\* The factory state is the abstract one: Factory, confirmed.
LEMMA AbstractInit == Init => Atomic!Init
  BY DEF Init, Atomic!Init, Slots

\* A step that leaves the selection and what it selects alone is invisible.
LEMMA AbstractStutter ==
  ASSUME IInv, SelectedUnchanged, otadata.state = "valid"
  PROVE  UNCHANGED Atomic!vars
  BY DEF SelectedUnchanged, Atomic!vars

\* A commit is Install, the mark of a trial Confirm, its rollback Revert, and
\* every other step is invisible.
LEMMA AbstractStep == IInv /\ [Next]_vars => [Atomic!Next]_(Atomic!vars)
<1> SUFFICES ASSUME IInv, [Next]_vars PROVE [Atomic!Next]_(Atomic!vars)
  OBVIOUS
<1>0. /\ otadata.slot \in Slots
      /\ otadata.state \in {"new", "pending", "valid"}
      /\ otadata = [slot |-> otadata.slot, state |-> otadata.state]
      /\ flash \in [Slots -> Seq(Cells)]
  BY DEF IInv, TypeOK
<1>1. CASE \/ \E img \in Images : FwUpdateBegin(img)
           \/ \E block \in Blocks : FwUpdateChunk(block)
           \/ FwUpdateEnd /\ EndFailed
           \/ FwUpdateAbort
  <2>1. power = "up" /\ otadata' = otadata
    BY <1>1 DEF FwUpdateBegin, FwUpdateChunk, FwUpdateEnd, EndFailed, FwUpdateAbort, flashVars
  <2>2. running = otadata.slot /\ otadata.state = "valid"
    BY <2>1 DEF IInv, RunningSelected
  <2>3. flash'[running] = flash[running]
    BY <1>1, <2>1, NextKeepsRunning DEF Next
  <2> QED
    BY <2>1, <2>2, <2>3, AbstractStutter DEF SelectedUnchanged
<1>2. CASE FwUpdateEnd /\ EndCommitted
  <2>1. /\ otadata' = [slot |-> s_partition, state |-> "new"] /\ flash' = flash
        /\ flash[s_partition] \in Images /\ s_partition = OtherSlot(otadata.slot)
        /\ otadata.state = "valid"
    BY <1>2
    DEF FwUpdateEnd, EndCommitted, VerifyImageSha, IInv, SessionOk, RunningSelected
  <2>2. OtherSlot(s_partition) = otadata.slot
    BY <1>0, <2>1, OtherSlotFacts
  <2>3. Atomic!Install
    BY <2>1, <2>2 DEF Atomic!Install
  <2> QED
    BY <2>3 DEF Atomic!Next
<1>3. CASE Bootloader
  <2>1. flash' = flash /\ otadata' = BootSelection(otadata)
    BY <1>3 DEF Bootloader
  <2>2. CASE otadata.state = "pending"
    <3>1. otadata' = [slot |-> OtherSlot(otadata.slot), state |-> "valid"]
      BY <2>1, <2>2 DEF BootSelection
    <3>2. Atomic!Revert
      BY <2>1, <2>2, <3>1 DEF Atomic!Revert
    <3> QED
      BY <3>2 DEF Atomic!Next
  <2>3. CASE otadata.state # "pending"
    <3>1. /\ otadata'.slot = otadata.slot
          /\ otadata.state = "valid" <=> otadata'.state = "valid"
      BY <1>0, <2>1, <2>3 DEF BootSelection
    <3> QED
      BY <2>1, <3>1 DEF Atomic!vars
  <2> QED
    BY <2>2, <2>3
<1>4. CASE MarkRunningOk
  <2>1. /\ flash' = flash /\ otadata' = [slot |-> otadata.slot, state |-> "valid"]
        /\ flash[otadata.slot] \in Boots
    BY <1>0, <1>4 DEF MarkRunningOk, MarkValid, IInv, RunningSelected
  <2>2. CASE otadata.state = "valid"
    BY <2>1, <2>2 DEF Atomic!vars
  <2>3. CASE otadata.state # "valid"
    <3>1. Atomic!Confirm
      BY <2>1, <2>3 DEF Atomic!Confirm
    <3> QED
      BY <3>1 DEF Atomic!Next
  <2> QED
    BY <2>2, <2>3
<1>5. CASE SetupCrash \/ PowerLoss \/ LoopDraw \/ UNCHANGED vars
  <2>1. flash' = flash /\ otadata' = otadata
    BY <1>5 DEF SetupCrash, PowerLoss, LoopDraw, vars, flashVars
  <2> QED
    BY <2>1 DEF Atomic!vars
<1> QED
  BY <1>1, <1>2, <1>3, <1>4, <1>5 DEF Next, Boot, FwUpdateEnd

\* Slots, chunks, hash and rollback implement the one-step replacement of a
\* whole image by another (AtomicUpdate).
THEOREM Refinement == Spec => ImplementsAtomicUpdate
  BY AbstractInit, AbstractStep, Invariance, PTL DEF Spec, ImplementsAtomicUpdate, Atomic!Spec

-----------------------------------------------------------------------------
(* The device of a whole update                                            *)

\* The commands that can be queued.
Commands ==
  {BeginCmd(t) : t \in Tasks} \cup {EndCmd(t) : t \in Tasks}
  \cup {AbortCmd(t) : t \in Tasks} \cup {CancelCmd(n) : n \in Nat}
  \cup {Cmd("fw_update_chunk", t, s, b) : t \in Tasks, s \in Nat, b \in Blocks}

\* The events that can answer them.
Answers ==
  [name : {"fw_update_started", "fw_update_chunk_ack", "fw_update_done"},
   ok : BOOLEAN, seq : Nat, task : Tasks \cup {NoTask}]

\* What is queued or under way is a command, a task that awaits an ACK has a
\* chunk it stands for, and only a task that awaits something has an answer.
HostInv ==
  /\ txq \in Seq(Commands) /\ wire \in Seq(Commands) /\ Len(txq) <= TxMax
  /\ events \in Seq(Answers)
  /\ pc \in [Tasks -> InFlight \cup {"idle", "over", "gone"}]
  /\ seq \in [Tasks -> Nat]
  /\ \A t \in Tasks : /\ seq[t] <= Len(Release[t])
                      /\ pc[t] = "chunk" => seq[t] < Len(Release[t])
  /\ DOMAIN got = Tasks /\ got = [t \in Tasks |-> got[t]]
  /\ \A t \in Tasks : got[t] # NoEvent => pc[t] \in Waits
  /\ verdict \in [Tasks -> {"none", "done", "error"}]
  /\ cancelled \subseteq Tasks
  /\ installer \in Tasks \cup {NoTask}
  /\ aborts \in Nat /\ misled \in BOOLEAN /\ spilled \in BOOLEAN

\* An attempt's image is a sequence of blocks.
LEMMA ReleaseFacts ==
  ASSUME NEW t \in Tasks
  PROVE  /\ Release[t] \in Images /\ Release[t] \in Seq(Blocks) /\ Len(Release[t]) \in Nat
         /\ \A s \in Nat : s < Len(Release[t]) => Release[t][s + 1] \in Blocks
<1>1. Release[t] \in Images /\ Release[t] \in Seq(Blocks)
  BY OtaAssumption, UpdateAssumption
<1>2. Len(Release[t]) \in Nat
  BY <1>1
<1>3. QED  BY <1>1, <1>2, ElementOfSeq

\* What a task queues is a command.
LEMMA QueueFacts ==
  ASSUME NEW t \in Tasks
  PROVE  /\ BeginCmd(t) \in Commands /\ EndCmd(t) \in Commands
         /\ AbortCmd(t) \in Commands /\ \A n \in Nat : CancelCmd(n) \in Commands
         /\ \A s \in Nat : s < Len(Release[t]) => ChunkCmd(t, s) \in Commands
<1>1. /\ BeginCmd(t) \in Commands /\ EndCmd(t) \in Commands /\ AbortCmd(t) \in Commands
      /\ \A n \in Nat : CancelCmd(n) \in Commands
  BY DEF Commands
<1>2. \A s \in Nat : s < Len(Release[t]) => ChunkCmd(t, s) \in Commands
  BY ReleaseFacts DEF Commands, ChunkCmd
<1>3. QED  BY <1>1, <1>2

\* A command carries what the device is to get with it.
LEMMA CommandFacts ==
  ASSUME NEW c \in Commands
  PROVE  /\ c.task \in Tasks \cup {NoTask}
         /\ c.seq \in Nat
         /\ c.name = "fw_update_begin" => c.data \in Images
         /\ c.name = "fw_update_chunk" => c.data \in Blocks
BY ReleaseFacts DEF Commands, BeginCmd, EndCmd, AbortCmd, CancelCmd, Cmd

\* The queue stays within its capacity.
LEMMA TxPutFacts ==
  ASSUME txq \in Seq(Commands), Len(txq) <= TxMax, spilled \in BOOLEAN,
         NEW c \in Commands, TxPut(c)
  PROVE  txq' \in Seq(Commands) /\ Len(txq') <= TxMax /\ spilled' \in BOOLEAN
<1> DEFINE kept == IF Len(txq) >= TxMax THEN Tail(txq) ELSE txq
<1>1. kept \in Seq(Commands) /\ Len(kept) < TxMax
  <2>1. CASE Len(txq) >= TxMax
    <3>1. txq # <<>>
      BY <2>1, UpdateAssumption
    <3>2. QED  BY <2>1, <3>1, HeadTailProperties, UpdateAssumption
  <2>2. CASE ~(Len(txq) >= TxMax)
    BY <2>2, UpdateAssumption
  <2>3. QED  BY <2>1, <2>2
<1>2. txq' = Append(kept, c)
  BY DEF TxPut
<1> HIDE DEF kept
<1>3. txq' \in Seq(Commands) /\ Len(txq') <= TxMax
  BY <1>1, <1>2, AppendProperties, UpdateAssumption
<1>4. spilled' \in BOOLEAN
  BY Zenon DEF TxPut
<1>5. QED  BY <1>3, <1>4

-----------------------------------------------------------------------------
(* HostInv is kept                                                         *)

\* It holds at the start.
LEMMA HostInit == UInit => HostInv
<1> SUFFICES ASSUME UInit PROVE HostInv
  OBVIOUS
<1>1. /\ pc \in [Tasks -> InFlight \cup {"idle", "over", "gone"}]
      /\ verdict \in [Tasks -> {"none", "done", "error"}]
      /\ cancelled \subseteq Tasks /\ installer \in Tasks \cup {NoTask}
  BY DEF UInit
<1>2. txq \in Seq(Commands) /\ wire \in Seq(Commands) /\ Len(txq) <= TxMax
  BY EmptySeq, UpdateAssumption DEF UInit
<1>e. events \in Seq(Answers) /\ aborts \in Nat /\ misled \in BOOLEAN /\ spilled \in BOOLEAN
  BY EmptySeq DEF UInit
<1>3. DOMAIN got = Tasks /\ got = [t \in Tasks |-> got[t]] /\ \A t \in Tasks : got[t] = NoEvent
  BY DEF UInit
<1>4. seq \in [Tasks -> Nat] /\ \A t \in Tasks : seq[t] = 0 /\ pc[t] = "idle"
  BY DEF UInit
<1>5. QED  BY <1>1, <1>2, <1>e, <1>3, <1>4, ReleaseFacts DEF HostInv

\* A task's wait begins: it has no answer yet.
LEMMA AwaitFacts ==
  ASSUME HostInv, NEW t \in Tasks, NEW where \in InFlight, Await(t, where)
  PROVE  /\ pc' \in [Tasks -> InFlight \cup {"idle", "over", "gone"}]
         /\ DOMAIN got' = Tasks /\ got' = [u \in Tasks |-> got'[u]]
         /\ \A u \in Tasks : got'[u] # NoEvent => pc'[u] \in Waits
         /\ pc'[t] = where /\ \A u \in Tasks \ {t} : pc'[u] = pc[u]
BY DEF HostInv, Await

\* So does ending with a verdict.
LEMMA VerdictFacts ==
  ASSUME HostInv, NEW t \in Tasks, NEW v \in {"done", "error"}, Verdict(t, v)
  PROVE  /\ pc' \in [Tasks -> InFlight \cup {"idle", "over", "gone"}]
         /\ verdict' \in [Tasks -> {"none", "done", "error"}]
         /\ DOMAIN got' = Tasks /\ got' = [u \in Tasks |-> got'[u]]
         /\ \A u \in Tasks : got'[u] # NoEvent => pc'[u] \in Waits
         /\ \A u \in Tasks : pc'[u] = "chunk" => pc[u] = "chunk"
BY DEF HostInv, Verdict

\* The next chunk, or the end, is queued.
LEMMA SendNextFacts ==
  ASSUME HostInv, NEW t \in Tasks, NEW s \in Nat, s <= Len(Release[t]), SendNext(t, s),
         UNCHANGED <<wire, events, aborts, cancelled, installer, misled>>
  PROVE  HostInv'
<1>1. seq' \in [Tasks -> Nat] /\ seq'[t] = s /\ \A u \in Tasks \ {t} : seq'[u] = seq[u]
  BY DEF HostInv, SendNext
<1>2. CASE s < Len(Release[t])
  <2>1. Await(t, "chunk") /\ TxPut(ChunkCmd(t, s))
    BY <1>2 DEF SendNext
  <2>2. txq' \in Seq(Commands) /\ Len(txq') <= TxMax /\ spilled' \in BOOLEAN
    BY <1>2, <2>1, QueueFacts, TxPutFacts DEF HostInv
  <2>3. QED
    BY <1>1, <1>2, <2>1, <2>2, AwaitFacts DEF HostInv, SendNext, InFlight
<1>3. CASE ~(s < Len(Release[t]))
  <2>1. Await(t, "end") /\ TxPut(EndCmd(t))
    BY <1>3 DEF SendNext
  <2>2. txq' \in Seq(Commands) /\ Len(txq') <= TxMax /\ spilled' \in BOOLEAN
    BY <2>1, QueueFacts, TxPutFacts DEF HostInv
  <2>3. QED
    BY <1>1, <1>3, <2>1, <2>2, AwaitFacts DEF HostInv, SendNext, InFlight
<1>4. QED  BY <1>2, <1>3

\* A step of a task keeps HostInv.
LEMMA TaskKept == ASSUME HostInv, NEW t \in Tasks, TaskStep(t) PROVE HostInv'
<1>0. UNCHANGED <<wire, events, aborts, cancelled, installer, misled>>
  BY DEF TaskStep, linkVars, histVars
<1>1. CASE Downloaded(t)
  <2>1. txq' \in Seq(Commands) /\ Len(txq') <= TxMax /\ spilled' \in BOOLEAN
    BY <1>1, QueueFacts, TxPutFacts DEF Downloaded, HostInv
  <2>2. QED  BY <1>0, <1>1, <2>1, AwaitFacts DEF Downloaded, HostInv, InFlight
<1>2. CASE DownloadFails(t)
  BY <1>0, <1>2, VerdictFacts DEF queue, DownloadFails, HostInv
<1>3. CASE BeginAnswered(t)
  <2>1. CASE got[t].ok
    BY <1>0, <1>3, <2>1, SendNextFacts, ReleaseFacts DEF BeginAnswered
  <2>2. CASE ~got[t].ok
    BY <1>0, <1>3, <2>2, VerdictFacts DEF queue, BeginAnswered, HostInv
  <2>3. QED  BY <2>1, <2>2
<1>4. CASE ChunkAnswered(t)
  <2>1. CASE got[t].ok
    <3>1. seq[t] + 1 \in Nat /\ seq[t] + 1 <= Len(Release[t])
      BY <1>4, ReleaseFacts DEF ChunkAnswered, HostInv
    <3>2. QED  BY <1>0, <1>4, <2>1, <3>1, SendNextFacts DEF ChunkAnswered
  <2>2. CASE ~got[t].ok
    <3>1. txq' \in Seq(Commands) /\ Len(txq') <= TxMax /\ spilled' \in BOOLEAN
      BY <1>4, <2>2, QueueFacts, TxPutFacts DEF ChunkAnswered, HostInv
    <3>2. QED  BY <1>0, <1>4, <2>2, <3>1, VerdictFacts DEF ChunkAnswered, HostInv
  <2>3. QED  BY <2>1, <2>2
<1>5. CASE EndAnswered(t)
  BY <1>0, <1>5, VerdictFacts DEF queue, EndAnswered, EndVerdict, HostInv
<1>6. CASE TimeOut(t)
  <2>1. txq' \in Seq(Commands) /\ Len(txq') <= TxMax /\ spilled' \in BOOLEAN
    BY <1>6, QueueFacts, TxPutFacts DEF queue, TimeOut, HostInv
  <2>2. QED  BY <1>0, <1>6, <2>1, VerdictFacts DEF TimeOut, TimeoutVerdict, HostInv
<1>7. QED  BY <1>1, <1>2, <1>3, <1>4, <1>5, <1>6 DEF TaskStep

\* The user's buttons.
LEMMA UserKept == ASSUME HostInv, NEW t \in Tasks, UserStart(t) \/ UserAbort(t) PROVE HostInv'
<1>1. CASE UserStart(t)
  BY <1>1 DEF UserStart, Start, HostInv, queue, linkVars, histVars, Waits, InFlight
<1>2. CASE UserAbort(t)
  <2>2. cancelled' \subseteq Tasks /\ aborts' \in Nat
    BY <1>2 DEF UserAbort, HostInv
  <2>c. CancelCmd(aborts') \in Commands /\ TxPut(CancelCmd(aborts'))
    BY <1>2, <2>2, QueueFacts DEF UserAbort
  <2>1. txq' \in Seq(Commands) /\ Len(txq') <= TxMax /\ spilled' \in BOOLEAN
    BY <2>c, TxPutFacts DEF HostInv
  <2>3. QED  BY <1>2, <2>1, <2>2 DEF UserAbort, HostInv, taskVars, linkVars
<1>3. QED  BY <1>1, <1>2

\* The link loop moves commands from the queue to the wire.
LEMMA LinkKept == ASSUME HostInv, LinkSend \/ LinkConnect \/ LinkRead PROVE HostInv'
<1>1. CASE LinkSend
  <2>1. txq' \in Seq(Commands) /\ wire' \in Seq(Commands) /\ Len(txq') <= TxMax
    <3>1. txq \in Seq(Commands) /\ txq # <<>> /\ wire \in Seq(Commands)
      BY <1>1 DEF LinkSend, HostInv
    <3>2. /\ Head(txq) \in Commands /\ Tail(txq) \in Seq(Commands)
          /\ Len(Tail(txq)) = Len(txq) - 1 /\ Len(txq) \in Nat
      BY <3>1, HeadTailProperties
    <3>3. Append(wire, Head(txq)) \in Seq(Commands)
      BY <3>1, <3>2, AppendProperties
    <3>4. <<>> \in Seq(Commands) /\ Len(<<>>) = 0
      BY EmptySeq
    <3>5. CASE link = "up"
      <4>1. txq' = Tail(txq) /\ wire' = Append(wire, Head(txq))
        BY <1>1, <3>5 DEF LinkSend
      <4>2. Len(txq) <= TxMax
        BY DEF HostInv
      <4>3. Len(Tail(txq)) <= TxMax
        BY <3>2, <4>2, UpdateAssumption
      <4>4. QED  BY <3>2, <3>3, <4>1, <4>3
    <3>6. CASE link # "up"
      BY <1>1, <3>1, <3>4, <3>6, UpdateAssumption DEF LinkSend
    <3>7. QED  BY <3>5, <3>6
  <2>2. events' = events /\ spilled' = spilled /\ aborts' = aborts
    BY <1>1 DEF LinkSend
  <2>3. QED  BY <1>1, <2>1, <2>2 DEF LinkSend, HostInv, taskVars, histVars
<1>2. CASE LinkConnect
  BY <1>2, EmptySeq DEF LinkConnect, HostInv, taskVars, queue, histVars
<1>3. CASE LinkRead
  <2>1. DOMAIN got' = Tasks /\ got' = [t \in Tasks |-> got'[t]]
    BY <1>3 DEF LinkRead
  <2>2. \A t \in Tasks : got'[t] # NoEvent => pc'[t] \in Waits
    BY <1>3 DEF LinkRead, HostInv, Matches, Waits
  <2>3. events' \in Seq(Answers)
    BY <1>3, HeadTailProperties DEF LinkRead, HostInv
  <2>4. misled' \in BOOLEAN
    BY <1>3, Zenon DEF LinkRead
  <2>5. UNCHANGED <<pc, seq, verdict, txq, spilled, wire, aborts, cancelled, installer>>
    BY <1>3 DEF LinkRead, queue
  <2>6. QED  BY <2>1, <2>2, <2>3, <2>4, <2>5 DEF HostInv
<1>4. QED  BY <1>1, <1>2, <1>3

\* What the device does with a command, as far as the agent's side can tell.
LEMMA Handled ==
  ASSUME NEW h \in Commands, DeviceHandles(h), power = "up"
  PROVE  \/ /\ h.name = "fw_update_begin" /\ power' = "up"
            /\ \/ reply' = Started(FALSE) /\ UNCHANGED <<s_active, s_received>>
               \/ reply' = Started(TRUE) /\ ~s_active /\ s_active' /\ s_received' = 0
         \/ /\ h.name = "fw_update_chunk" /\ power' = "up"
            /\ \/ reply' = Ack(FALSE) /\ s_received' = s_received /\ (s_active' => s_active)
               \/ reply' = Ack(TRUE) /\ s_active /\ s_received' = s_received + 1
         \/ /\ h.name \in {"fw_update_end", "fw_update_abort"} /\ power' = "up"
            /\ reply' = DoneFailed /\ ~s_active'
         \/ h.name = "fw_update_end" /\ power' = "off" /\ s_active /\ ~s_active'
<1>1. CASE h.name = "fw_update_begin" /\ FwUpdateBegin(h.data)
  BY <1>1 DEF FwUpdateBegin, BeginBusy, BeginBadSize, BeginFlashError, BeginAccepted
<1>2. CASE h.name = "fw_update_chunk" /\ FwUpdateChunk(h.data)
  BY <1>2 DEF FwUpdateChunk, ChunkUndecodable, ChunkRefused, ChunkFlashError, ChunkWritten
<1>3. CASE h.name = "fw_update_end" /\ FwUpdateEnd
  BY <1>3 DEF FwUpdateEnd, EndFailed, EndCommitted, ResetRam
<1>4. CASE h.name = "fw_update_abort" /\ FwUpdateAbort
  BY <1>4 DEF FwUpdateAbort
<1>5. QED  BY <1>1, <1>2, <1>3, <1>4 DEF DeviceHandles

\* A command is answered by the event of its kind.
LEMMA Answered ==
  ASSUME NEW h \in Commands, DeviceHandles(h), power = "up", power' = "up"
  PROVE  /\ Event(reply'.name, reply'.ok, h.seq, h.task) \in Answers
         /\ reply'.name = "fw_update_started" <=> h.name = "fw_update_begin"
         /\ reply'.name = "fw_update_chunk_ack" <=> h.name = "fw_update_chunk"
         /\ reply'.name = "fw_update_done" <=> h.name \in {"fw_update_end", "fw_update_abort"}
         /\ reply'.name = "fw_update_done" => ~reply'.ok
<1>1. reply' \in {Started(TRUE), Started(FALSE)} <=> h.name = "fw_update_begin"
  BY Handled DEF Started, Ack, DoneFailed
<1>2. reply' \in {Ack(TRUE), Ack(FALSE)} <=> h.name = "fw_update_chunk"
  BY Handled DEF Started, Ack, DoneFailed
<1>3. reply' = DoneFailed <=> h.name \in {"fw_update_end", "fw_update_abort"}
  BY Handled DEF Started, Ack, DoneFailed
<1>4. \/ reply' = Started(TRUE) \/ reply' = Started(FALSE)
      \/ reply' = Ack(TRUE) \/ reply' = Ack(FALSE) \/ reply' = DoneFailed
  BY Handled
<1>a. reply'.name \in {"fw_update_started", "fw_update_chunk_ack", "fw_update_done"}
  BY <1>4 DEF Started, Ack, DoneFailed
<1>b. reply'.ok = TRUE \/ reply'.ok = FALSE
  <2>1. /\ Started(TRUE).ok = TRUE /\ Started(FALSE).ok = FALSE
        /\ Ack(TRUE).ok = TRUE /\ Ack(FALSE).ok = FALSE /\ DoneFailed.ok = FALSE
    BY DEF Started, Ack, DoneFailed
  <2>2. QED  BY <1>4, <2>1, Zenon
<1>5. /\ reply'.ok \in BOOLEAN
      /\ reply'.name \in {"fw_update_started", "fw_update_chunk_ack", "fw_update_done"}
  BY <1>a, <1>b
<1>6. Event(reply'.name, reply'.ok, h.seq, h.task) \in Answers
  BY <1>5, CommandFacts DEF Event, Answers
<1>7. QED  BY <1>1, <1>2, <1>3, <1>4, <1>6 DEF Started, Ack, DoneFailed

\* The device takes the first command, and a restart drops the others.
LEMMA DeviceKept == ASSUME HostInv, DeviceStep \/ DeviceBoots PROVE HostInv'
<1>0. <<>> \in Seq(Commands)
  BY EmptySeq
<1>1. CASE DeviceStep
  <2>1. Head(wire) \in Commands /\ Tail(wire) \in Seq(Commands)
    BY <1>1, HeadTailProperties DEF DeviceStep, HostInv
  <2>2. wire' \in Seq(Commands)
    BY <1>0, <1>1, <2>1 DEF DeviceStep
  <2>3. installer' \in Tasks \cup {NoTask}
    BY <1>1, <2>1, CommandFacts DEF DeviceStep, HostInv
  <2>4. UNCHANGED <<txq, spilled, aborts, misled, pc, seq, got, verdict, cancelled>>
    BY <1>1 DEF DeviceStep, hostVars, taskVars, queue
  <2>5. events' \in Seq(Answers)
    <3>1. power' = "up" => Event(reply'.name, reply'.ok, Head(wire).seq, Head(wire).task) \in Answers
      BY <1>1, <2>1, Answered DEF DeviceStep
    <3>2. events \in Seq(Answers)
      BY DEF HostInv
    <3>3. \/ events' = events
          \/ /\ power' = "up"
             /\ events' = Append(events, Event(reply'.name, reply'.ok, Head(wire).seq, Head(wire).task))
      BY <1>1 DEF DeviceStep
    <3>4. QED  BY <3>1, <3>2, <3>3, AppendProperties
  <2>6. QED  BY <2>2, <2>3, <2>4, <2>5 DEF HostInv
<1>2. CASE DeviceBoots
  BY <1>0, <1>2 DEF DeviceBoots, HostInv, hostVars, taskVars, queue, histVars
<1>3. QED  BY <1>1, <1>2

\* Faults lose commands, and with the agent its tasks.
LEMMA FaultKept ==
  ASSUME HostInv, LinkUp \/ LinkDrop \/ LineLost \/ DevicePowerLoss \/ AgentCrash
  PROVE  HostInv'
<1>0. <<>> \in Seq(Commands) /\ Len(<<>>) = 0
  BY EmptySeq
<1>w. wire \in Seq(Commands) /\ Len(wire) \in Nat
  BY DEF HostInv
<1>1. CASE LinkUp
  BY <1>1 DEF LinkUp, HostInv, hostVars, taskVars, queue, histVars
<1>2. CASE LinkDrop
  <2>1. PICK i \in 0 .. Len(wire) : wire' = SubSeq(wire, 1, i)
    BY <1>2 DEF LinkDrop
  <2>2. wire' \in Seq(Commands)
    BY <1>w, <2>1, SubSeqProperties
  <2>3. PICK k \in 0 .. Len(events) : events' = SubSeq(events, 1, k)
    BY <1>2 DEF LinkDrop
  <2>4. events' \in Seq(Answers)
    <3>1. events \in Seq(Answers) /\ Len(events) \in Nat
      BY DEF HostInv
    <3>2. QED  BY <2>3, <3>1, SubSeqProperties
  <2>5. QED  BY <1>2, <2>2, <2>4 DEF LinkDrop, HostInv, hostVars, taskVars, queue, histVars
<1>3. CASE LineLost
  <2>1. PICK i \in 1 .. Len(wire) : wire' = RemoveAt(wire, i)
    BY <1>3 DEF LineLost
  <2>2. SubSeq(wire, 1, i - 1) \in Seq(Commands) /\ SubSeq(wire, i + 1, Len(wire)) \in Seq(Commands)
    BY <1>w, <2>1, SubSeqProperties
  <2>3. wire' \in Seq(Commands)
    BY <2>1, <2>2, ConcatProperties DEF RemoveAt
  <2>4. QED  BY <1>3, <2>3 DEF LineLost, HostInv, hostVars, taskVars, queue, histVars
<1>4. CASE DevicePowerLoss
  BY <1>0, <1>4 DEF DevicePowerLoss, HostInv, hostVars, taskVars, queue, histVars
<1>5. CASE AgentCrash
  <2>1. pc' \in [Tasks -> InFlight \cup {"idle", "over", "gone"}]
    BY <1>5 DEF AgentCrash, HostInv
  <2>2. \A t \in Tasks : got'[t] = NoEvent /\ (pc'[t] = "chunk" => pc[t] = "chunk")
    BY <1>5 DEF AgentCrash, HostInv
  <2>3. DOMAIN got' = Tasks /\ got' = [t \in Tasks |-> got'[t]]
    BY <1>5 DEF AgentCrash
  <2>4. txq' \in Seq(Commands) /\ Len(txq') <= TxMax /\ wire' = wire /\ events' = events
    BY <1>0, <1>5, UpdateAssumption DEF AgentCrash, linkVars
  <2>5. QED  BY <1>5, <2>1, <2>2, <2>3, <2>4 DEF AgentCrash, HostInv, histVars
<1>6. QED  BY <1>1, <1>2, <1>3, <1>4, <1>5

\* HostInv is inductive.
LEMMA HostKept == HostInv /\ [UNext]_uvars => HostInv'
<1> SUFFICES ASSUME HostInv, [UNext]_uvars PROVE HostInv'
  OBVIOUS
<1>1. CASE UNCHANGED uvars
  BY <1>1 DEF uvars, HostInv, hostVars, taskVars, queue, linkVars, histVars
<1>2. CASE UNext
  BY <1>2, TaskKept, UserKept, LinkKept, DeviceKept, FaultKept DEF UNext
<1>3. QED  BY <1>1, <1>2

-----------------------------------------------------------------------------
(* The theorems                                                            *)

\* A step of the whole is a step of the device, or leaves it alone.
LEMMA DeviceStepOrStutter == HostInv /\ [UNext]_uvars => [Next]_vars
<1> SUFFICES ASSUME HostInv, [UNext]_uvars PROVE [Next]_vars
  OBVIOUS
<1>1. UNCHANGED otaAll => UNCHANGED vars
  BY DEF otaAll, vars, flashVars
<1>2. CASE DeviceStep
  <2>1. Head(wire) \in Commands
    BY <1>2, HeadTailProperties DEF DeviceStep, HostInv
  <2>2. DeviceHandles(Head(wire))
    BY <1>2 DEF DeviceStep
  <2>3. QED  BY <2>1, <2>2, CommandFacts DEF DeviceHandles, Next
<1>3. CASE DeviceBoots \/ DevicePowerLoss
  BY <1>3 DEF DeviceBoots, DevicePowerLoss, Next
<1>4. CASE \E t \in Tasks : UserStart(t) \/ UserAbort(t) \/ TaskStep(t)
  BY <1>1, <1>4 DEF UserStart, UserAbort, TaskStep
<1>5. CASE LinkSend \/ LinkConnect \/ LinkRead \/ LinkUp \/ LinkDrop \/ LineLost \/ AgentCrash
           \/ UNCHANGED uvars
  BY <1>1, <1>5 DEF LinkSend, LinkConnect, LinkRead, LinkUp, LinkDrop, LineLost, AgentCrash, uvars
<1>6. QED  BY <1>2, <1>3, <1>4, <1>5 DEF UNext

\* A whole update, with its queue, its lost lines and its crashes, drives the
\* device only in ways OtaDevice allows.
THEOREM UpdateDrivesDevice == USpec => Spec
<1>1. UInit => Init
  BY DEF UInit
<1>2. QED  BY <1>1, HostInit, HostKept, DeviceStepOrStutter, PTL DEF USpec, Spec

\* No attempt, cancelled or cut short anywhere, leaves a device that cannot
\* boot.
THEOREM UpdateUnbrickable == USpec => []NeverBricked
BY UpdateDrivesDevice, Unbrickable, PTL

\* An update replaces one whole image by another in one step, or nothing.
THEOREM UpdateAtomic == USpec => ImplementsAtomicUpdate
BY UpdateDrivesDevice, Refinement, PTL

\* The types of the host: the queue stays within its capacity, no task counts
\* past its image, and only a task that waits has an answer.
THEOREM UpdateTypes == USpec => []UTypeOK
<1>1. HostInv /\ TypeOK => UTypeOK
  BY ReleaseFacts DEF HostInv, UTypeOK
<1>2. USpec => []HostInv
  BY HostInit, HostKept, PTL DEF USpec
<1>3. QED  BY <1>1, <1>2, UpdateDrivesDevice, TypeCorrect, PTL

-----------------------------------------------------------------------------
(* Queues: what they hold, and in which order                              *)

\* What of a queue comes before what.
Pairs(q) == {p \in Range(q) \X Range(q) : \E i, j \in 1 .. Len(q) : i < j /\ p = <<q[i], q[j]>>}

\* What Range and Pairs hold, by position.
LEMMA PairsDef ==
  ASSUME NEW S, NEW q \in Seq(S)
  PROVE  /\ Range(q) = {q[i] : i \in 1 .. Len(q)}
         /\ \A c, d : <<c, d>> \in Pairs(q)
              <=> \E i, j \in 1 .. Len(q) : i < j /\ q[i] = c /\ q[j] = d
         /\ \A p \in Pairs(q) : p = <<p[1], p[2]>>
<1>1. Range(q) = {q[i] : i \in 1 .. Len(q)}
  BY RangeEquality
<1>2. \A p \in Pairs(q) : p = <<p[1], p[2]>>
  BY DEF Pairs
<1>3. ASSUME NEW c, NEW d
      PROVE  <<c, d>> \in Pairs(q) <=> \E i, j \in 1 .. Len(q) : i < j /\ q[i] = c /\ q[j] = d
  BY <1>1 DEF Pairs
<1>4. QED  BY <1>1, <1>2, <1>3

\* A queue with one more member: all the others are before it.
LEMMA PairsAppend ==
  ASSUME NEW S, NEW q \in Seq(S), NEW e \in S
  PROVE  /\ Range(Append(q, e)) = Range(q) \cup {e}
         /\ Pairs(Append(q, e)) = Pairs(q) \cup (Range(q) \X {e})
<1> DEFINE a == Append(q, e)
           n == Len(q)
<1>1. /\ a \in Seq(S) /\ Len(a) = n + 1 /\ n \in Nat
      /\ \A i \in 1 .. n : a[i] = q[i]
      /\ a[n + 1] = e
  BY AppendProperties, LenProperties
<1> HIDE DEF a, n
<1>2. \A i \in 1 .. n + 1 : i \in 1 .. n \/ i = n + 1
  BY <1>1
<1>3. \A i \in 1 .. n : i \in 1 .. n + 1 /\ i < n + 1
  BY <1>1
<1>4. n + 1 \in 1 .. n + 1
  BY <1>1
<1>5. Range(a) = Range(q) \cup {e}
  <2>1. Range(a) = {a[i] : i \in 1 .. n + 1} /\ Range(q) = {q[i] : i \in 1 .. n}
    BY <1>1, PairsDef DEF n
  <2>2. QED  BY <1>1, <1>2, <1>3, <1>4, <2>1
<1>6. \A p \in Pairs(a) : p \in Pairs(q) \cup (Range(q) \X {e})
  <2> SUFFICES ASSUME NEW p \in Pairs(a) PROVE p \in Pairs(q) \cup (Range(q) \X {e})
    OBVIOUS
  <2>1. PICK i, j \in 1 .. n + 1 : i < j /\ p = <<a[i], a[j]>>
    BY <1>1 DEF Pairs
  <2>2. i \in 1 .. n /\ a[i] = q[i] /\ q[i] \in Range(q)
    <3>1. i \in 1 .. n
      BY <1>1, <2>1
    <3>2. QED  BY <1>1, <3>1, PairsDef DEF n
  <2>3. CASE j = n + 1
    BY <1>1, <2>1, <2>2, <2>3
  <2>4. CASE j \in 1 .. n
    <3>1. q[j] \in Range(q) /\ a[j] = q[j]
      BY <1>1, <2>4, PairsDef DEF n
    <3>2. p = <<q[i], q[j]>>
      BY <2>1, <2>2, <3>1
    <3>3. p \in Pairs(q)
      BY <2>1, <2>2, <2>4, <3>1, <3>2 DEF Pairs, n
    <3>4. QED  BY <3>3
  <2>5. QED  BY <1>2, <2>3, <2>4
<1>7. \A p \in Pairs(q) : p \in Pairs(a)
  <2> SUFFICES ASSUME NEW p \in Pairs(q) PROVE p \in Pairs(a)
    OBVIOUS
  <2>1. PICK i, j \in 1 .. n : i < j /\ p = <<q[i], q[j]>>
    BY DEF Pairs, n
  <2>2. i \in 1 .. n + 1 /\ j \in 1 .. n + 1 /\ p = <<a[i], a[j]>>
    BY <1>1, <1>3, <2>1
  <2>3. <<a[i], a[j]>> \in Pairs(a)
    BY <1>1, <2>1, <2>2, PairsDef
  <2>4. QED  BY <2>2, <2>3
<1>8. \A c \in Range(q) : <<c, e>> \in Pairs(a)
  <2> SUFFICES ASSUME NEW c \in Range(q) PROVE <<c, e>> \in Pairs(a)
    OBVIOUS
  <2>1. PICK i \in 1 .. n : c = q[i]
    BY PairsDef DEF n
  <2>2. i \in 1 .. n + 1 /\ i < n + 1 /\ a[i] = c
    BY <1>1, <1>3, <2>1
  <2>3. QED  BY <1>1, <1>4, <2>2, PairsDef
<1>9. QED  BY <1>5, <1>6, <1>7, <1>8 DEF a

\* A queue without its head: the head was before all others.
LEMMA PairsTail ==
  ASSUME NEW S, NEW q \in Seq(S), q # <<>>
  PROVE  /\ Range(q) = {Head(q)} \cup Range(Tail(q))
         /\ Pairs(q) = Pairs(Tail(q)) \cup ({Head(q)} \X Range(Tail(q)))
<1> DEFINE a == Tail(q)
           n == Len(a)
<1>1. /\ a \in Seq(S) /\ Len(q) = n + 1 /\ n \in Nat
      /\ \A i \in 1 .. n : a[i] = q[i + 1]
      /\ Head(q) = q[1]
  BY HeadTailProperties, LenProperties, EmptySeq
<1> HIDE DEF a, n
<1>2. \A i \in 1 .. n + 1 : i = 1 \/ (i - 1 \in 1 .. n /\ (i - 1) + 1 = i)
  BY <1>1
<1>3. \A i \in 1 .. n : i + 1 \in 1 .. n + 1
  BY <1>1
<1>4. 1 \in 1 .. n + 1
  BY <1>1
<1>5. Range(q) = {q[i] : i \in 1 .. n + 1} /\ Range(a) = {a[i] : i \in 1 .. n}
  BY <1>1, PairsDef DEF n
<1>6. Range(q) = {Head(q)} \cup Range(a)
  <2>1. \A i \in 1 .. n + 1 : q[i] = Head(q) \/ q[i] \in Range(a)
    <3> SUFFICES ASSUME NEW i \in 1 .. n + 1, i # 1 PROVE q[i] \in Range(a)
      BY <1>1
    <3>1. i - 1 \in 1 .. n /\ a[i - 1] = q[i]
      BY <1>1, <1>2
    <3>2. QED  BY <1>5, <3>1
  <2>2. QED  BY <1>1, <1>3, <1>4, <1>5, <2>1
<1>7. \A p \in Pairs(q) : p \in Pairs(a) \cup ({Head(q)} \X Range(a))
  <2> SUFFICES ASSUME NEW p \in Pairs(q) PROVE p \in Pairs(a) \cup ({Head(q)} \X Range(a))
    OBVIOUS
  <2>1. PICK i, j \in 1 .. n + 1 : i < j /\ p = <<q[i], q[j]>>
    BY <1>1 DEF Pairs
  <2>2. j - 1 \in 1 .. n /\ a[j - 1] = q[j]
    <3>1. j # 1
      BY <1>1, <2>1
    <3>2. QED  BY <1>1, <1>2, <3>1
  <2>3. CASE i = 1
    BY <1>1, <1>5, <2>1, <2>2, <2>3
  <2>4. CASE i # 1
    <3>1. i - 1 \in 1 .. n /\ a[i - 1] = q[i] /\ i - 1 < j - 1
      BY <1>1, <1>2, <2>1, <2>4
    <3>2. <<q[i], q[j]>> \in Pairs(a)
      BY <1>1, <2>2, <3>1, PairsDef DEF n
    <3>3. QED  BY <2>1, <3>2
  <2>5. QED  BY <2>3, <2>4
<1>8. \A p \in Pairs(a) : p \in Pairs(q)
  <2> SUFFICES ASSUME NEW p \in Pairs(a) PROVE p \in Pairs(q)
    OBVIOUS
  <2>1. PICK i, j \in 1 .. n : i < j /\ p = <<a[i], a[j]>>
    BY DEF Pairs, n
  <2>2. i + 1 \in 1 .. n + 1 /\ j + 1 \in 1 .. n + 1 /\ i + 1 < j + 1
    BY <1>1, <2>1
  <2>3. p = <<q[i + 1], q[j + 1]>>
    BY <1>1, <2>1
  <2>4. QED  BY <1>1, <2>2, <2>3, PairsDef
<1>9. \A c \in Range(a) : <<Head(q), c>> \in Pairs(q)
  <2> SUFFICES ASSUME NEW c \in Range(a) PROVE <<Head(q), c>> \in Pairs(q)
    OBVIOUS
  <2>1. PICK i \in 1 .. n : c = a[i]
    BY <1>5
  <2>2. i + 1 \in 1 .. n + 1 /\ 1 < i + 1 /\ q[i + 1] = c
    BY <1>1, <2>1
  <2>3. QED  BY <1>1, <1>4, <2>2, PairsDef
<1>10. QED  BY <1>6, <1>7, <1>8, <1>9 DEF a

\* A queue that lost some of its members.
LEMMA PairsLess ==
  ASSUME NEW S, NEW q \in Seq(S)
  PROVE  /\ \A i \in 0 .. Len(q) : /\ Range(SubSeq(q, 1, i)) \subseteq Range(q)
                                   /\ Pairs(SubSeq(q, 1, i)) \subseteq Pairs(q)
         /\ \A i \in 1 .. Len(q) : /\ Range(RemoveAt(q, i)) \subseteq Range(q)
                                   /\ Pairs(RemoveAt(q, i)) \subseteq Pairs(q)
<1> DEFINE n == Len(q)
<1>0. n \in Nat /\ \A i \in 1 .. n : q[i] \in S
  BY LenProperties, ElementOfSeq
<1>1. ASSUME NEW a \in Seq(S), NEW f, NEW m \in Nat, Len(a) = m,
             \A i \in 1 .. m : f[i] \in 1 .. n /\ a[i] = q[f[i]],
             \A i, j \in 1 .. m : i < j => f[i] < f[j]
      PROVE  Range(a) \subseteq Range(q) /\ Pairs(a) \subseteq Pairs(q)
  <2>1. Range(a) \subseteq Range(q)
    BY <1>1, PairsDef
  <2>2. ASSUME NEW p \in Pairs(a) PROVE p \in Pairs(q)
    <3>1. PICK i, j \in 1 .. m : i < j /\ p = <<a[i], a[j]>>
      BY <1>1 DEF Pairs
    <3>2. f[i] \in 1 .. n /\ f[j] \in 1 .. n /\ f[i] < f[j] /\ p = <<q[f[i]], q[f[j]]>>
      BY <1>1, <3>1
    <3>3. QED  BY <3>2, PairsDef
  <2>3. QED  BY <2>1, <2>2
<1>2. ASSUME NEW k \in 0 .. n
      PROVE  Range(SubSeq(q, 1, k)) \subseteq Range(q) /\ Pairs(SubSeq(q, 1, k)) \subseteq Pairs(q)
  <2> DEFINE a == SubSeq(q, 1, k)
             f == [i \in 1 .. k |-> i]
  <2>1. a \in Seq(S) /\ Len(a) = k /\ \A i \in 1 .. k : a[i] = q[i]
    BY <1>0, SubSeqProperties
  <2>2. k \in Nat /\ \A i \in 1 .. k : f[i] = i /\ i \in 1 .. n
    BY <1>0
  <2> HIDE DEF a, f, n
  <2>3. \A i \in 1 .. k : f[i] \in 1 .. n /\ a[i] = q[f[i]]
    BY <2>1, <2>2
  <2>4. \A i, j \in 1 .. k : i < j => f[i] < f[j]
    BY <2>2
  <2>5. QED  BY <1>1, <2>1, <2>2, <2>3, <2>4 DEF a
<1>3. ASSUME NEW k \in 1 .. n
      PROVE  Range(RemoveAt(q, k)) \subseteq Range(q) /\ Pairs(RemoveAt(q, k)) \subseteq Pairs(q)
  <2> DEFINE b == SubSeq(q, 1, k - 1)
             c == SubSeq(q, k + 1, n)
             a == RemoveAt(q, k)
             f == [i \in 1 .. n - 1 |-> IF i < k THEN i ELSE i + 1]
  <2>1. b \in Seq(S) /\ Len(b) = k - 1 /\ \A i \in 1 .. k - 1 : b[i] = q[i]
    BY <1>0, SubSeqProperties
  <2>2. c \in Seq(S) /\ Len(c) = n - k /\ \A i \in 1 .. n - k : c[i] = q[k + i]
    BY <1>0, SubSeqProperties
  <2>3. a = b \o c
    BY DEF RemoveAt
  <2>4. \A i \in 1 .. n - 1 : f[i] = IF i < k THEN i ELSE i + 1
    OBVIOUS
  <2> HIDE DEF a, b, c, f, n
  <2>5. /\ a \in Seq(S) /\ Len(a) = n - 1 /\ n - 1 \in Nat
        /\ \A i \in 1 .. n - 1 : a[i] = IF i <= k - 1 THEN b[i] ELSE c[i - (k - 1)]
    <3>1. /\ b \o c \in Seq(S) /\ Len(b \o c) = Len(b) + Len(c)
          /\ \A i \in 1 .. Len(b) + Len(c) :
               (b \o c)[i] = IF i <= Len(b) THEN b[i] ELSE c[i - Len(b)]
      BY <2>1, <2>2, ConcatProperties
    <3>2. Len(b) + Len(c) = n - 1 /\ n - 1 \in Nat
      BY <1>0, <2>1, <2>2
    <3>3. QED  BY <2>1, <2>3, <3>1, <3>2
  <2>6. \A i \in 1 .. n - 1 : f[i] \in 1 .. n /\ a[i] = q[f[i]]
    <3> SUFFICES ASSUME NEW i \in 1 .. n - 1 PROVE f[i] \in 1 .. n /\ a[i] = q[f[i]]
      OBVIOUS
    <3>1. CASE i < k
      BY <1>0, <2>1, <2>4, <2>5, <3>1
    <3>2. CASE ~(i < k)
      <4>1. i - (k - 1) \in 1 .. n - k /\ k + (i - (k - 1)) = i + 1
        BY <1>0, <3>2
      <4>2. QED  BY <1>0, <2>2, <2>4, <2>5, <3>2, <4>1
    <3>3. QED  BY <3>1, <3>2
  <2>7. \A i, j \in 1 .. n - 1 : i < j => f[i] < f[j]
    BY <1>0, <2>4
  <2>8. QED  BY <1>1, <2>5, <2>6, <2>7 DEF a
<1>4. QED  BY <1>2, <1>3

\* An empty queue holds nothing.
LEMMA PairsEmpty == Range(<<>>) = {} /\ Pairs(<<>>) = {}
<1>1. DOMAIN <<>> = {}
  OBVIOUS
<1>2. Range(<<>>) = {}
  BY <1>1 DEF Range
<1>3. QED  BY <1>2 DEF Pairs

-----------------------------------------------------------------------------
(* What is on its way to the device, and in which order                    *)

Under == Range(wire) \cup Range(txq)
Prec  == Pairs(wire) \cup Pairs(txq) \cup (Range(wire) \X Range(txq))

\* The order of what is under way, taken apart.
LEMMA PrecDef ==
  ASSUME HostInv
  PROVE  /\ \A a, b : <<a, b>> \in Prec <=> \/ <<a, b>> \in Pairs(wire) \/ <<a, b>> \in Pairs(txq)
                                            \/ a \in Range(wire) /\ b \in Range(txq)
         /\ \A a, b : <<a, b>> \in Prec => a \in Under /\ b \in Under
         /\ Under \subseteq Commands
<1>1. \A a, b : <<a, b>> \in Prec <=> \/ <<a, b>> \in Pairs(wire) \/ <<a, b>> \in Pairs(txq)
                                      \/ a \in Range(wire) /\ b \in Range(txq)
  BY DEF Prec
<1>2. \A a, b : /\ <<a, b>> \in Pairs(wire) => a \in Range(wire) /\ b \in Range(wire)
                /\ <<a, b>> \in Pairs(txq) => a \in Range(txq) /\ b \in Range(txq)
  BY DEF Pairs
<1>3. Under \subseteq Commands
  <2>1. txq \in Seq(Commands) /\ wire \in Seq(Commands)
    BY DEF HostInv
  <2>2. \A q \in Seq(Commands) : Range(q) \subseteq Commands
    BY PairsDef, ElementOfSeq
  <2>3. QED  BY <2>1, <2>2 DEF Under
<1>4. QED  BY <1>1, <1>2, <1>3 DEF Under

\* A command is queued: all the others are before it.
LEMMA PutFacts ==
  ASSUME HostInv, NEW c \in Commands, TxPut(c), wire' = wire, HostInv'
  PROVE  /\ c \in Under'
         /\ Under' \subseteq Under \cup {c}
         /\ \A a, b : <<a, b>> \in Prec' => <<a, b>> \in Prec \/ (a \in Under /\ b = c)
         /\ spilled => spilled'
         /\ ~spilled' => /\ Under \subseteq Under'
                         /\ \A a, b : <<a, b>> \in Prec => <<a, b>> \in Prec'
                         /\ \A a \in Under : <<a, c>> \in Prec'
<1> DEFINE kept == IF Len(txq) >= TxMax THEN Tail(txq) ELSE txq
<1>1. /\ kept \in Seq(Commands) /\ Range(kept) \subseteq Range(txq)
      /\ Pairs(kept) \subseteq Pairs(txq)
      /\ ~spilled' => kept = txq
  <2>1. CASE Len(txq) >= TxMax
    <3>1. txq # <<>> /\ txq \in Seq(Commands)
      BY <2>1, UpdateAssumption DEF HostInv
    <3>2. Tail(txq) \in Seq(Commands)
      BY <3>1, HeadTailProperties
    <3>3. Range(Tail(txq)) \subseteq Range(txq) /\ Pairs(Tail(txq)) \subseteq Pairs(txq)
      BY <3>1, PairsTail
    <3>4. spilled'
      BY <2>1 DEF TxPut
    <3>5. QED  BY <2>1, <3>2, <3>3, <3>4
  <2>2. CASE ~(Len(txq) >= TxMax)
    BY <2>2 DEF HostInv
  <2>3. QED  BY <2>1, <2>2
<1>2. txq' = Append(kept, c) /\ (spilled => spilled')
  BY DEF TxPut
<1> HIDE DEF kept
<1>3. /\ Range(txq') = Range(kept) \cup {c}
      /\ Pairs(txq') = Pairs(kept) \cup (Range(kept) \X {c})
  BY <1>1, <1>2, PairsAppend
<1>4. \A a, b : <<a, b>> \in Pairs(txq') <=> <<a, b>> \in Pairs(kept) \/ (a \in Range(kept) /\ b = c)
  BY <1>3
<1>5. Under' = Range(wire) \cup Range(txq') /\ Under = Range(wire) \cup Range(txq)
  BY DEF Under
<1>6. \A a, b : <<a, b>> \in Prec' <=> \/ <<a, b>> \in Pairs(wire) \/ <<a, b>> \in Pairs(txq')
                                       \/ a \in Range(wire) /\ b \in Range(txq')
  BY DEF Prec
<1>7. QED  BY <1>1, <1>2, <1>3, <1>4, <1>5, <1>6, PrecDef

\* The link loop takes a command from the queue and puts it on the wire.
LEMMA SendFacts ==
  ASSUME HostInv, LinkSend, link = "up"
  PROVE  Under' = Under /\ \A a, b : <<a, b>> \in Prec' <=> <<a, b>> \in Prec
<1> DEFINE h == Head(txq)
           r == Tail(txq)
<1>1. txq \in Seq(Commands) /\ txq # <<>> /\ wire \in Seq(Commands)
  BY DEF LinkSend, HostInv
<1>2. txq' = r /\ wire' = Append(wire, h) /\ h \in Commands
  BY <1>1, HeadTailProperties DEF LinkSend
<1>3. Range(txq) = {h} \cup Range(r) /\ Pairs(txq) = Pairs(r) \cup ({h} \X Range(r))
  BY <1>1, PairsTail
<1> HIDE DEF h, r
<1>4. Range(wire') = Range(wire) \cup {h} /\ Pairs(wire') = Pairs(wire) \cup (Range(wire) \X {h})
  BY <1>1, <1>2, PairsAppend
<1>5. \A a, b : /\ <<a, b>> \in Pairs(wire') <=> <<a, b>> \in Pairs(wire) \/ (a \in Range(wire) /\ b = h)
                /\ <<a, b>> \in Pairs(txq) <=> <<a, b>> \in Pairs(r) \/ (a = h /\ b \in Range(r))
  BY <1>3, <1>4
<1>6. \A a, b : <<a, b>> \in Prec' <=> \/ <<a, b>> \in Pairs(wire') \/ <<a, b>> \in Pairs(r)
                                       \/ a \in Range(wire') /\ b \in Range(r)
  BY <1>2 DEF Prec
<1>7. Under' = Under
  BY <1>2, <1>3, <1>4 DEF Under
<1>8. QED  BY <1>3, <1>4, <1>5, <1>6, <1>7, PrecDef

\* Lines and queued commands are lost.
LEMMA LoseFacts ==
  ASSUME HostInv,
         Range(wire') \subseteq Range(wire), Pairs(wire') \subseteq Pairs(wire),
         Range(txq') \subseteq Range(txq), Pairs(txq') \subseteq Pairs(txq)
  PROVE  Under' \subseteq Under /\ \A a, b : <<a, b>> \in Prec' => <<a, b>> \in Prec
<1>1. \A a, b : <<a, b>> \in Prec' => \/ <<a, b>> \in Pairs(wire') \/ <<a, b>> \in Pairs(txq')
                                      \/ a \in Range(wire') /\ b \in Range(txq')
  BY DEF Prec
<1>2. QED  BY <1>1, PrecDef DEF Under

\* The command at the head of the wire is before all others.
LEMMA HeadFacts ==
  ASSUME HostInv, wire # <<>>
  PROVE  /\ Head(wire) \in Under
         /\ \A c \in Under : c = Head(wire) \/ <<Head(wire), c>> \in Prec
         /\ \A c \in Range(txq) : <<Head(wire), c>> \in Prec
         /\ \A c : <<c, Head(wire)>> \in Prec => <<Head(wire), Head(wire)>> \in Prec
<1> DEFINE h == Head(wire)
           r == Tail(wire)
<1>1. wire \in Seq(Commands)
  BY DEF HostInv
<1>2. Range(wire) = {h} \cup Range(r) /\ Pairs(wire) = Pairs(r) \cup ({h} \X Range(r))
  BY <1>1, PairsTail
<1> HIDE DEF h, r
<1>3. \A a, b : <<a, b>> \in Pairs(wire) <=> <<a, b>> \in Pairs(r) \/ (a = h /\ b \in Range(r))
  BY <1>2
<1>4. \A a, b : <<a, b>> \in Pairs(r) => b \in Range(r)
  BY DEF Pairs
<1>5. /\ h \in Under
      /\ \A c \in Under : c = h \/ <<h, c>> \in Prec
      /\ \A c \in Range(txq) : <<h, c>> \in Prec
  BY <1>2, <1>3, PrecDef DEF Under
<1>6. ASSUME NEW c, <<c, h>> \in Prec PROVE <<h, h>> \in Prec
  <2>1. \/ <<c, h>> \in Pairs(wire) \/ <<c, h>> \in Pairs(txq)
        \/ c \in Range(wire) /\ h \in Range(txq)
    BY <1>6, PrecDef
  <2>2. CASE h \in Range(txq)
    BY <1>5, <2>2
  <2>3. CASE <<c, h>> \in Pairs(txq)
    <3>1. h \in Range(txq)
      BY <2>3 DEF Pairs
    <3>2. QED  BY <1>5, <3>1
  <2>4. CASE <<c, h>> \in Pairs(wire)
    <3>1. h \in Range(r)
      BY <1>3, <1>4, <2>4
    <3>2. <<h, h>> \in Pairs(wire)
      BY <1>3, <3>1
    <3>3. QED  BY <3>2, PrecDef
  <2>5. QED  BY <2>1, <2>2, <2>3, <2>4
<1>7. QED  BY <1>5, <1>6 DEF h

\* The device takes it.
LEMMA TakeFacts ==
  ASSUME HostInv, wire # <<>>, wire' = Tail(wire), txq' = txq
  PROVE  /\ Under = {Head(wire)} \cup Under'
         /\ \A a, b : <<a, b>> \in Prec <=> <<a, b>> \in Prec' \/ (a = Head(wire) /\ b \in Under')
<1> DEFINE h == Head(wire)
           r == Tail(wire)
<1>1. wire \in Seq(Commands) /\ wire' = r
  BY DEF HostInv
<1>2. Range(wire) = {h} \cup Range(r) /\ Pairs(wire) = Pairs(r) \cup ({h} \X Range(r))
  BY <1>1, PairsTail
<1> HIDE DEF h, r
<1>3. \A a, b : <<a, b>> \in Pairs(wire) <=> <<a, b>> \in Pairs(r) \/ (a = h /\ b \in Range(r))
  BY <1>2
<1>4. \A a, b : <<a, b>> \in Prec' <=> \/ <<a, b>> \in Pairs(r) \/ <<a, b>> \in Pairs(txq)
                                       \/ a \in Range(r) /\ b \in Range(txq)
  BY <1>1 DEF Prec
<1>5. Under' = Range(r) \cup Range(txq) /\ Under = {h} \cup Under'
  BY <1>1, <1>2 DEF Under
<1>6. QED  BY <1>2, <1>3, <1>4, <1>5, PrecDef DEF h

\* A restart of the device loses what is on the wire: that was before the rest.
LEMMA ClearFacts ==
  ASSUME HostInv, wire' = <<>>, txq' = txq
  PROVE  /\ Under' = Range(txq)
         /\ \A a \in Under \ Under', b \in Under' : <<a, b>> \in Prec
         /\ (\A c \in Under : <<c, c>> \notin Prec)
              => \A a, b \in Under' : <<a, b>> \in Prec => <<a, b>> \in Prec'
<1>1. Under' = Range(txq)
  BY PairsEmpty DEF Under
<1>2. \A a \in Under \ Under', b \in Under' : <<a, b>> \in Prec
  BY <1>1, PrecDef DEF Under
<1>3. ASSUME \A c \in Under : <<c, c>> \notin Prec,
             NEW a \in Under', NEW b \in Under', <<a, b>> \in Prec
      PROVE  <<a, b>> \in Prec'
  <2>1. a \in Range(txq) /\ b \in Range(txq) /\ a \in Under /\ b \in Under
    BY <1>1 DEF Under
  <2>2. a \notin Range(wire) /\ b \notin Range(wire)
    BY <1>3, <2>1, PrecDef
  <2>3. <<a, b>> \notin Pairs(wire)
    BY <2>2 DEF Pairs
  <2>4. <<a, b>> \in Pairs(txq)
    BY <1>3, <2>2, <2>3, PrecDef
  <2>5. QED  BY <2>4 DEF Prec
<1>4. QED  BY <1>1, <1>2, <1>3

-----------------------------------------------------------------------------
(* What a task's step does                                                 *)

\* What tells the commands apart.
LEMMA Fields ==
  /\ \A t : /\ BeginCmd(t).name = "fw_update_begin" /\ BeginCmd(t).task = t
            /\ EndCmd(t).name = "fw_update_end" /\ EndCmd(t).task = t
            /\ AbortCmd(t).name = "fw_update_abort" /\ AbortCmd(t).task = t
  /\ \A t, s : /\ ChunkCmd(t, s).name = "fw_update_chunk"
               /\ ChunkCmd(t, s).task = t /\ ChunkCmd(t, s).seq = s
  /\ \A n : /\ CancelCmd(n).name = "fw_update_abort"
            /\ CancelCmd(n).task = NoTask /\ CancelCmd(n).seq = n
BY DEF BeginCmd, EndCmd, AbortCmd, ChunkCmd, CancelCmd, Cmd

Moves(t, from, to) == pc[t] \in from /\ pc'[t] \in to

\* The five things a task can do next.
Announces(t) == /\ Moves(t, {"download"}, {"begin"}) /\ TxPut(BeginCmd(t))
                /\ seq'[t] = seq[t] /\ verdict'[t] = verdict[t]
Proceeds(t)  == /\ \/ pc[t] = "begin" /\ seq'[t] = 0
                   \/ pc[t] = "chunk" /\ seq'[t] = seq[t] + 1
                /\ got[t] # NoEvent /\ got[t].ok /\ verdict'[t] = verdict[t]
                /\ \/ pc'[t] = "chunk" /\ seq'[t] < Len(Release[t]) /\ TxPut(ChunkCmd(t, seq'[t]))
                   \/ pc'[t] = "end" /\ TxPut(EndCmd(t))
GivesUp(t)   == /\ Moves(t, {"download", "begin"}, {"over"}) /\ UNCHANGED queue
                /\ seq'[t] = seq[t] /\ verdict'[t] = "error"
Aborts(t)    == /\ Moves(t, {"chunk"}, {"over"}) /\ TxPut(AbortCmd(t))
                /\ seq'[t] = seq[t] /\ verdict'[t] = "error"
Finishes(t)  == /\ Moves(t, {"end"}, {"over"}) /\ UNCHANGED queue /\ seq'[t] = seq[t]
                /\ verdict'[t] # "error" \/ got[t] # NoEvent

Others(t) == \A u \in Tasks \ {t} : /\ pc'[u] = pc[u] /\ seq'[u] = seq[u]
                                    /\ got'[u] = got[u] /\ verdict'[u] = verdict[u]

\* A task that waits for the next answer leaves the others alone.
LEMMA AwaitOthers ==
  ASSUME HostInv, NEW t \in Tasks, NEW where, Await(t, where),
         seq' = seq \/ \E s : seq' = [seq EXCEPT ![t] = s], verdict' = verdict
  PROVE  /\ Others(t) /\ got'[t] = NoEvent /\ verdict'[t] = verdict[t] /\ pc'[t] = where
         /\ \A s : seq' = [seq EXCEPT ![t] = s] => seq'[t] = s
BY DEF HostInv, Await, Others

\* So does one that ends with a verdict.
LEMMA VerdictOthers ==
  ASSUME HostInv, NEW t \in Tasks, NEW v, Verdict(t, v), seq' = seq
  PROVE  Others(t) /\ got'[t] = NoEvent /\ verdict'[t] = v /\ pc'[t] = "over"
BY DEF HostInv, Verdict, Others

\* An answered task sends its next chunk, or the end.
LEMMA NextFacts ==
  ASSUME HostInv, NEW t \in Tasks, NEW s \in Nat, SendNext(t, s), got[t] # NoEvent, got[t].ok,
         \/ pc[t] = "begin" /\ s = 0
         \/ pc[t] = "chunk" /\ s = seq[t] + 1
  PROVE  Others(t) /\ got'[t] = NoEvent /\ Proceeds(t)
<1>1. seq' = [seq EXCEPT ![t] = s] /\ verdict' = verdict
  BY DEF SendNext
<1>2. CASE s < Len(Release[t])
  <2>1. Await(t, "chunk") /\ TxPut(ChunkCmd(t, s))
    BY <1>2 DEF SendNext
  <2>2. QED  BY <1>1, <1>2, <2>1, AwaitOthers DEF Proceeds
<1>3. CASE ~(s < Len(Release[t]))
  <2>1. Await(t, "end") /\ TxPut(EndCmd(t))
    BY <1>3 DEF SendNext
  <2>2. QED  BY <1>1, <2>1, AwaitOthers DEF Proceeds
<1>4. QED  BY <1>2, <1>3

\* Every step of a task is one of the five.
LEMMA TaskFacts ==
  ASSUME HostInv, NEW t \in Tasks, TaskStep(t)
  PROVE  /\ Announces(t) \/ Proceeds(t) \/ GivesUp(t) \/ Aborts(t) \/ Finishes(t)
         /\ Others(t) /\ got'[t] = NoEvent
         /\ UNCHANGED <<otaAll, wire, events, link, faults, aborts, cancelled, lateAbort,
                        installer, misled>>
<1>0. UNCHANGED <<otaAll, wire, events, link, faults, aborts, cancelled, lateAbort,
                  installer, misled>>
  BY DEF TaskStep, linkVars, histVars
<1>1. CASE Downloaded(t)
  <2>1. Await(t, "begin") /\ seq' = seq /\ verdict' = verdict /\ TxPut(BeginCmd(t)) /\ pc[t] = "download"
    BY <1>1 DEF Downloaded
  <2>2. QED  BY <1>0, <2>1, AwaitOthers DEF Announces, Moves
<1>2. CASE DownloadFails(t)
  <2>1. Verdict(t, "error") /\ seq' = seq /\ UNCHANGED queue /\ pc[t] = "download"
    BY <1>2 DEF DownloadFails
  <2>2. QED  BY <1>0, <2>1, VerdictOthers DEF GivesUp, Moves
<1>3. CASE BeginAnswered(t)
  <2>1. CASE got[t].ok
    <3>1. pc[t] = "begin" /\ got[t] # NoEvent /\ SendNext(t, 0)
      BY <1>3, <2>1 DEF BeginAnswered
    <3>2. QED  BY <1>0, <2>1, <3>1, NextFacts
  <2>2. CASE ~got[t].ok
    <3>1. Verdict(t, "error") /\ seq' = seq /\ UNCHANGED queue /\ pc[t] = "begin"
      BY <1>3, <2>2 DEF BeginAnswered
    <3>2. QED  BY <1>0, <3>1, VerdictOthers DEF GivesUp, Moves
  <2>3. QED  BY <2>1, <2>2
<1>4. CASE ChunkAnswered(t)
  <2>1. CASE got[t].ok
    <3>1. pc[t] = "chunk" /\ got[t] # NoEvent /\ SendNext(t, seq[t] + 1) /\ seq[t] + 1 \in Nat
      BY <1>4, <2>1 DEF ChunkAnswered, HostInv
    <3>2. QED  BY <1>0, <2>1, <3>1, NextFacts
  <2>2. CASE ~got[t].ok
    <3>1. Verdict(t, "error") /\ seq' = seq /\ TxPut(AbortCmd(t)) /\ pc[t] = "chunk"
      BY <1>4, <2>2 DEF ChunkAnswered
    <3>2. QED  BY <1>0, <3>1, VerdictOthers DEF Aborts, Moves
  <2>3. QED  BY <2>1, <2>2
<1>5. CASE EndAnswered(t)
  <2>1. /\ Verdict(t, EndVerdict(got[t])) /\ seq' = seq /\ UNCHANGED queue /\ pc[t] = "end"
        /\ got[t] # NoEvent
    BY <1>5 DEF EndAnswered
  <2>2. QED  BY <1>0, <2>1, VerdictOthers DEF Finishes, Moves
<1>6. CASE TimeOut(t)
  <2>1. Verdict(t, TimeoutVerdict(pc[t])) /\ seq' = seq /\ pc[t] \in Waits
    BY <1>6 DEF TimeOut, MayTimeOut, TimedWaits, Waits
  <2>2. CASE pc[t] = "begin"
    <3>1. UNCHANGED queue /\ TimeoutVerdict(pc[t]) = "error"
      BY <1>6, <2>2 DEF TimeOut, TimeoutVerdict
    <3>2. QED  BY <1>0, <2>1, <2>2, <3>1, VerdictOthers DEF GivesUp, Moves
  <2>3. CASE pc[t] = "chunk"
    <3>1. TxPut(AbortCmd(t)) /\ TimeoutVerdict(pc[t]) = "error"
      BY <1>6, <2>3 DEF TimeOut, TimeoutVerdict
    <3>2. QED  BY <1>0, <2>1, <2>3, <3>1, VerdictOthers DEF Aborts, Moves
  <2>4. CASE pc[t] = "end"
    <3>1. UNCHANGED queue /\ TimeoutVerdict(pc[t]) = "done"
      BY <1>6, <2>4 DEF TimeOut, TimeoutVerdict
    <3>2. QED  BY <1>0, <2>1, <2>4, <3>1, VerdictOthers DEF Finishes, Moves
  <2>5. QED  BY <2>1, <2>2, <2>3, <2>4 DEF Waits
<1>7. QED  BY <1>1, <1>2, <1>3, <1>4, <1>5, <1>6 DEF TaskStep

-----------------------------------------------------------------------------
(* Order: nothing is under way that was not sent, and nothing twice        *)

Ended == {"over", "gone"}

\* No two attempts at a time.
Solo == \A t, u \in Tasks : pc[t] \in InFlight /\ pc[u] \in InFlight => t = u

\* A command on its way was sent by a task that has come so far.
Sent(c) ==
  \/ \E n \in 1 .. aborts : c = CancelCmd(n)
  \/ \E t \in Tasks :
       \/ c = BeginCmd(t) /\ pc[t] \in Waits \cup Ended
       \/ /\ pc[t] \in {"chunk", "end"} \cup Ended
          /\ \E s \in 0 .. seq[t] : s < Len(Release[t]) /\ c = ChunkCmd(t, s)
       \/ c = EndCmd(t) /\ pc[t] \in {"end"} \cup Ended
       \/ c = AbortCmd(t) /\ pc[t] = "over"

\* So was an event caused.
Heard(e) ==
  \/ e.name = "fw_update_started" /\ e.task \in Tasks /\ pc[e.task] \in Waits \cup Ended
  \/ /\ e.name = "fw_update_chunk_ack" /\ e.task \in Tasks
     /\ pc[e.task] \in {"chunk", "end"} \cup Ended /\ e.seq <= seq[e.task]
  \/ e.name = "fw_update_done" /\ ~e.ok

\* What a waiter took.
Answer(t, e) ==
  /\ Matches(t, e)
  /\ pc[t] \in {"begin", "chunk"} => e.task \in Tasks
  /\ pc[t] = "end" => ~e.ok
  /\ ~misled => e.task \in {t, NoTask}

SentOnce == \A c \in Under : Sent(c) /\ <<c, c>> \notin Prec
Caused   == \A e \in Range(events) : Heard(e)
Taken    == \A t \in Tasks : got[t] # NoEvent => Answer(t, got[t])

Order ==
  /\ SentOnce /\ Caused /\ Taken
  /\ \A t \in Tasks : installer = t => pc[t] \in {"end"} \cup Ended /\ EndCmd(t) \notin Under
  /\ \A t \in Tasks : verdict[t] # "none" => pc[t] = "over"

\* No task goes back.
Advance ==
  /\ aborts <= aborts'
  /\ \A t \in Tasks :
       /\ pc[t] \in Waits \cup Ended => pc'[t] \in Waits \cup Ended
       /\ pc[t] \in {"chunk", "end"} \cup Ended
            => pc'[t] \in {"chunk", "end"} \cup Ended /\ seq[t] <= seq'[t]
       /\ pc[t] \in {"end"} \cup Ended => pc'[t] \in {"end"} \cup Ended
       /\ pc[t] = "over" => pc'[t] = "over"

\* A task only moves forward.
LEMMA Advances == ASSUME HostInv, UNext PROVE Advance
<1>0. aborts \in Nat /\ \A t \in Tasks : seq[t] \in Nat
  BY DEF HostInv
<1>1. CASE UNCHANGED <<pc, seq>> /\ aborts' \in {aborts, aborts + 1}
  BY <1>0, <1>1 DEF Advance
<1>2. CASE \E t \in Tasks : TaskStep(t)
  <2>1. PICK t \in Tasks : TaskStep(t)
    BY <1>2
  <2>2. /\ \A u \in Tasks \ {t} : pc'[u] = pc[u] /\ seq'[u] = seq[u]
        /\ aborts' = aborts
    BY <2>1, TaskFacts DEF Others
  <2>3. \/ pc[t] = "download" /\ pc'[t] = "begin"
        \/ pc[t] = "begin" /\ pc'[t] \in {"chunk", "end"}
        \/ pc[t] = "chunk" /\ pc'[t] \in {"chunk", "end"} /\ seq'[t] = seq[t] + 1
        \/ pc[t] \in InFlight /\ pc'[t] = "over" /\ seq'[t] = seq[t]
    BY <2>1, TaskFacts DEF Announces, Proceeds, GivesUp, Aborts, Finishes, Moves, InFlight
  <2>4. QED  BY <1>0, <2>2, <2>3 DEF Advance, Waits, Ended, InFlight
<1>3. CASE \E t \in Tasks : UserStart(t)
  <2>1. PICK t \in Tasks : UserStart(t)
    BY <1>3
  <2>2. /\ pc[t] = "idle" /\ pc' = [pc EXCEPT ![t] = "download"] /\ seq' = seq /\ aborts' = aborts
    BY <2>1 DEF UserStart, Start
  <2>3. \A u \in Tasks : pc'[u] = pc[u] \/ pc[u] = "idle"
    BY <2>2 DEF HostInv
  <2>4. QED  BY <1>0, <2>2, <2>3 DEF Advance, Waits, Ended
<1>4. CASE AgentCrash
  BY <1>0, <1>4 DEF AgentCrash, HostInv, Advance, InFlight, Waits, Ended
<1>5. CASE \E t \in Tasks : UserAbort(t)
  BY <1>1, <1>5 DEF UserAbort, taskVars
<1>6. CASE LinkSend \/ LinkConnect \/ LinkRead \/ DeviceStep \/ DeviceBoots
           \/ LinkUp \/ LinkDrop \/ LineLost \/ DevicePowerLoss
  BY <1>1, <1>6 DEF LinkSend, LinkConnect, LinkRead, DeviceStep, DeviceBoots, LinkUp, LinkDrop,
     LineLost, DevicePowerLoss, taskVars, hostVars
<1>7. QED  BY <1>2, <1>3, <1>4, <1>5, <1>6 DEF UNext

\* What was sent stays sent.
LEMMA SentKept ==
  ASSUME HostInv, HostInv', Advance
  PROVE  /\ \A c : Sent(c) => Sent(c)'
         /\ \A e \in Answers : Heard(e) => Heard(e)'
<1>0. aborts \in Nat /\ aborts' \in Nat /\ \A t \in Tasks : seq[t] \in Nat /\ seq'[t] \in Nat
  BY DEF HostInv
<1>1. ASSUME NEW c, Sent(c) PROVE Sent(c)'
  <2>1. CASE \E n \in 1 .. aborts : c = CancelCmd(n)
    <3>1. \E n \in 1 .. aborts' : c = CancelCmd(n)
      BY <1>0, <2>1 DEF Advance
    <3>2. QED  BY <3>1 DEF Sent
  <2>2. CASE \E t \in Tasks : /\ pc[t] \in {"chunk", "end"} \cup Ended
                              /\ \E s \in 0 .. seq[t] : s < Len(Release[t]) /\ c = ChunkCmd(t, s)
    <3>0. PICK t \in Tasks : /\ pc[t] \in {"chunk", "end"} \cup Ended
                             /\ \E s \in 0 .. seq[t] : s < Len(Release[t]) /\ c = ChunkCmd(t, s)
      BY <2>2
    <3>1. PICK s \in 0 .. seq[t] : s < Len(Release[t]) /\ c = ChunkCmd(t, s)
      BY <3>0
    <3>2. s \in 0 .. seq'[t] /\ pc'[t] \in {"chunk", "end"} \cup Ended
      BY <1>0, <3>0, <3>1 DEF Advance
    <3>3. QED  BY <3>1, <3>2 DEF Sent
  <2>3. CASE \E t \in Tasks : \/ c = BeginCmd(t) /\ pc[t] \in Waits \cup Ended
                              \/ c = EndCmd(t) /\ pc[t] \in {"end"} \cup Ended
                              \/ c = AbortCmd(t) /\ pc[t] = "over"
    BY <2>3 DEF Sent, Advance
  <2>4. QED  BY <1>1, <2>1, <2>2, <2>3 DEF Sent
<1>2. ASSUME NEW e \in Answers, Heard(e) PROVE Heard(e)'
  <2>1. e.seq \in Nat
    BY DEF Answers
  <2>2. QED  BY <1>0, <1>2, <2>1 DEF Heard, Advance
<1>3. QED  BY <1>1, <1>2

\* What is known of a command that was sent, by its name.
LEMMA SentFacts ==
  ASSUME NEW c, Sent(c)
  PROVE  /\ c.name \in {"fw_update_begin", "fw_update_chunk", "fw_update_end", "fw_update_abort"}
         /\ c.name = "fw_update_begin" =>
              c.task \in Tasks /\ c = BeginCmd(c.task) /\ pc[c.task] \in Waits \cup Ended
         /\ c.name = "fw_update_chunk" =>
              /\ c.task \in Tasks /\ c = ChunkCmd(c.task, c.seq)
              /\ pc[c.task] \in {"chunk", "end"} \cup Ended /\ c.seq \in 0 .. seq[c.task]
         /\ c.name = "fw_update_end" =>
              c.task \in Tasks /\ c = EndCmd(c.task) /\ pc[c.task] \in {"end"} \cup Ended
         /\ c.name = "fw_update_abort" =>
              \/ c.task \in Tasks /\ c = AbortCmd(c.task) /\ pc[c.task] = "over"
              \/ c.task = NoTask /\ c = CancelCmd(c.seq) /\ c.seq \in 1 .. aborts
<1>1. CASE \E n \in 1 .. aborts : c = CancelCmd(n)
  BY <1>1, Fields
<1>2. CASE \E t \in Tasks : c = BeginCmd(t) /\ pc[t] \in Waits \cup Ended
  BY <1>2, Fields
<1>3. CASE \E t \in Tasks : /\ pc[t] \in {"chunk", "end"} \cup Ended
                            /\ \E s \in 0 .. seq[t] : s < Len(Release[t]) /\ c = ChunkCmd(t, s)
  BY <1>3, Fields
<1>4. CASE \E t \in Tasks : c = EndCmd(t) /\ pc[t] \in {"end"} \cup Ended
  BY <1>4, Fields
<1>5. CASE \E t \in Tasks : c = AbortCmd(t) /\ pc[t] = "over"
  BY <1>5, Fields
<1>6. QED  BY <1>1, <1>2, <1>3, <1>4, <1>5 DEF Sent

\* What a task has not come to yet is not on its way.
LEMMA UnsentFacts ==
  ASSUME SentOnce, NEW t \in Tasks
  PROVE  /\ BeginCmd(t) \in Under => pc[t] \in Waits \cup Ended
         /\ \A s : ChunkCmd(t, s) \in Under => pc[t] \in {"chunk", "end"} \cup Ended /\ s \in 0 .. seq[t]
         /\ EndCmd(t) \in Under => pc[t] \in {"end"} \cup Ended
         /\ AbortCmd(t) \in Under => pc[t] = "over"
         /\ \A n : CancelCmd(n) \in Under => n \in 1 .. aborts
<1>0. \A c \in Under : Sent(c)
  BY DEF SentOnce
<1>1. BeginCmd(t) \in Under => pc[t] \in Waits \cup Ended
  <2>1. BeginCmd(t).name = "fw_update_begin" /\ BeginCmd(t).task = t
    BY Fields
  <2> HIDE DEF BeginCmd
  <2>2. QED  BY <1>0, <2>1, SentFacts
<1>2. ASSUME NEW s, ChunkCmd(t, s) \in Under
      PROVE  pc[t] \in {"chunk", "end"} \cup Ended /\ s \in 0 .. seq[t]
  <2>1. Sent(ChunkCmd(t, s))
    BY <1>0, <1>2
  <2>2. ChunkCmd(t, s).name = "fw_update_chunk" /\ ChunkCmd(t, s).task = t /\ ChunkCmd(t, s).seq = s
    BY Fields
  <2>3. QED  BY <2>1, <2>2, SentFacts
<1>3. EndCmd(t) \in Under => pc[t] \in {"end"} \cup Ended
  <2>1. EndCmd(t).name = "fw_update_end" /\ EndCmd(t).task = t
    BY Fields
  <2>2. QED  BY <1>0, <2>1, SentFacts
<1>4. AbortCmd(t) \in Under => pc[t] = "over"
  <2>1. AbortCmd(t).name = "fw_update_abort" /\ AbortCmd(t).task = t /\ t # NoTask
    BY Fields, UpdateAssumption
  <2>2. QED  BY <1>0, <2>1, SentFacts
<1>5. ASSUME NEW n, CancelCmd(n) \in Under PROVE n \in 1 .. aborts
  <2>1. Sent(CancelCmd(n))
    BY <1>0, <1>5
  <2>2. /\ CancelCmd(n).name = "fw_update_abort" /\ CancelCmd(n).task = NoTask
        /\ CancelCmd(n).seq = n /\ NoTask \notin Tasks
    BY Fields, UpdateAssumption
  <2>3. QED  BY <2>1, <2>2, SentFacts
<1>6. QED  BY <1>1, <1>2, <1>3, <1>4, <1>5

\* A queued command keeps the order: it is a new one, and the last.
LEMMA PutOrder ==
  ASSUME HostInv, HostInv', SentOnce, Advance, wire' = wire,
         NEW c \in Commands, TxPut(c), c \notin Under, Sent(c)'
  PROVE  SentOnce'
BY PutFacts, SentKept, PrecDef DEF SentOnce

\* A loss keeps it.
LEMMA LessOrder ==
  ASSUME HostInv, HostInv', SentOnce, Advance, Under' \subseteq Under,
         \A a, b : <<a, b>> \in Prec' => <<a, b>> \in Prec
  PROVE  SentOnce'
BY SentKept DEF SentOnce

\* With less under way, what is heard still has its cause.
LEMMA LessCaused ==
  ASSUME HostInv, HostInv', Caused, Advance, Range(events') \subseteq Range(events)
  PROVE  Caused'
<1>1. events \in Seq(Answers)
  BY DEF HostInv
<1>2. Range(events) \subseteq Answers
  BY <1>1, PairsDef, ElementOfSeq
<1>3. QED  BY <1>2, SentKept DEF Caused

\* With less under way, what was answered is still gone.
LEMMA LessTaken ==
  ASSUME Taken, misled' = misled,
         \A t \in Tasks : got'[t] # NoEvent =>
            got'[t] = got[t] /\ pc'[t] = pc[t] /\ seq'[t] = seq[t]
  PROVE  Taken'
BY DEF Taken, Answer, Matches

\* The links and queues on their own, and the losses, only lose commands.
Losing ==
  /\ Under' \subseteq Under
  /\ \A a, b : <<a, b>> \in Prec' => <<a, b>> \in Prec
  /\ Range(events') \subseteq Range(events) /\ Pairs(events') \subseteq Pairs(events)
  /\ s_active' => s_active /\ s_received' = s_received
  /\ UNCHANGED <<aborts, cancelled, lateAbort, installer, misled>>

\* The steps that only lose something.
LEMMA Loses ==
  ASSUME HostInv, LinkSend \/ LinkConnect \/ DeviceBoots \/ LinkUp \/ LinkDrop \/ LineLost
                  \/ DevicePowerLoss \/ AgentCrash
  PROVE  Losing /\ (~AgentCrash => UNCHANGED taskVars)
<1> USE DEF histVars, queue, linkVars, hostVars
<1>1. UNCHANGED <<wire, txq>> => Under' = Under /\ Prec' = Prec
  BY DEF Under, Prec
<1>2. /\ wire \in Seq(Commands) /\ txq \in Seq(Commands) /\ events \in Seq(Answers)
      /\ Range(<<>>) \subseteq Range(wire) /\ Pairs(<<>>) \subseteq Pairs(wire)
      /\ Range(<<>>) \subseteq Range(txq) /\ Pairs(<<>>) \subseteq Pairs(txq)
      /\ Range(<<>>) \subseteq Range(events) /\ Pairs(<<>>) \subseteq Pairs(events)
  BY PairsEmpty DEF HostInv
<1>3. UNCHANGED otaAll => UNCHANGED <<s_active, s_received>>
  BY DEF otaAll, otaVars
<1>4. CASE LinkSend
  <2>1. CASE link = "up"
    BY <1>3, <1>4, <2>1, SendFacts DEF LinkSend, Losing
  <2>2. CASE link # "up"
    <3>1. txq' = <<>> /\ wire' = wire
      BY <1>4, <2>2 DEF LinkSend
    <3>2. Under' \subseteq Under /\ \A a, b : <<a, b>> \in Prec' => <<a, b>> \in Prec
      BY <1>2, <3>1, LoseFacts
    <3>3. QED  BY <1>3, <1>4, <3>2 DEF LinkSend, Losing
  <2>3. QED  BY <1>4, <2>1, <2>2 DEF LinkSend, AgentCrash
<1>5. CASE LinkConnect
  BY <1>1, <1>2, <1>3, <1>5 DEF LinkConnect, Losing
<1>6. CASE DeviceBoots
  <2>1. Under' \subseteq Under /\ \A a, b : <<a, b>> \in Prec' => <<a, b>> \in Prec
    <3>1. txq' = txq /\ wire' \in {wire, <<>>}
      BY <1>6 DEF DeviceBoots
    <3>2. QED  BY <1>1, <1>2, <3>1, LoseFacts
  <2>2. UNCHANGED <<s_active, s_received>>
    BY <1>6 DEF DeviceBoots, Boot, Bootloader, MarkRunningOk, SetupCrash, otaVars
  <2>3. QED  BY <1>6, <2>1, <2>2 DEF DeviceBoots, Losing
<1>7. CASE LinkUp
  BY <1>1, <1>3, <1>7 DEF LinkUp, Losing
<1>8. CASE LinkDrop
  <2>1. PICK i \in 0 .. Len(wire) : wire' = SubSeq(wire, 1, i)
    BY <1>8 DEF LinkDrop
  <2>2. PICK k \in 0 .. Len(events) : events' = SubSeq(events, 1, k)
    BY <1>8 DEF LinkDrop
  <2>3. /\ Range(wire') \subseteq Range(wire) /\ Pairs(wire') \subseteq Pairs(wire)
        /\ Range(events') \subseteq Range(events) /\ Pairs(events') \subseteq Pairs(events)
    BY <1>2, <2>1, <2>2, PairsLess
  <2>4. txq' = txq
    BY <1>8 DEF LinkDrop
  <2>5. Under' \subseteq Under /\ \A a, b : <<a, b>> \in Prec' => <<a, b>> \in Prec
    BY <2>3, <2>4, LoseFacts
  <2>6. QED  BY <1>3, <1>8, <2>3, <2>5 DEF LinkDrop, Losing
<1>9. CASE LineLost
  <2>1. PICK i \in 1 .. Len(wire) : wire' = RemoveAt(wire, i)
    BY <1>9 DEF LineLost
  <2>2. Range(wire') \subseteq Range(wire) /\ Pairs(wire') \subseteq Pairs(wire) /\ txq' = txq
    BY <1>2, <1>9, <2>1, PairsLess DEF LineLost
  <2>3. Under' \subseteq Under /\ \A a, b : <<a, b>> \in Prec' => <<a, b>> \in Prec
    BY <2>2, LoseFacts
  <2>4. QED  BY <1>3, <1>9, <2>3 DEF LineLost, Losing
<1>10. CASE DevicePowerLoss
  <2>1. Under' \subseteq Under /\ \A a, b : <<a, b>> \in Prec' => <<a, b>> \in Prec
    BY <1>2, <1>10, LoseFacts DEF DevicePowerLoss
  <2>2. ~s_active'
    BY <1>10 DEF DevicePowerLoss, PowerLoss, ResetRam
  <2>3. QED  BY <1>10, <2>1, <2>2 DEF DevicePowerLoss, Losing
<1>11. CASE AgentCrash
  <2>1. Under' \subseteq Under /\ \A a, b : <<a, b>> \in Prec' => <<a, b>> \in Prec
    BY <1>2, <1>11, LoseFacts DEF AgentCrash
  <2>2. QED  BY <1>3, <1>11, <2>1 DEF AgentCrash, Losing
<1>12. QED  BY <1>4, <1>5, <1>6, <1>7, <1>8, <1>9, <1>10, <1>11

\* The device takes the first command: it answers it, or it restarts into
\* the image the command completed.
ReplyTo(h) ==
  /\ power' = "up" /\ wire' = Tail(wire) /\ UNCHANGED <<link, installer>>
  /\ \/ events' = events
     \/ events' = Append(events, Event(reply'.name, reply'.ok, h.seq, h.task))
Restarts(h) ==
  /\ power' = "off" /\ wire' = <<>> /\ installer' = h.task /\ events' = events
  /\ h.name = "fw_update_end" /\ s_active /\ ~s_active' /\ link' \in {link, "down"}

\* A command the device takes is gone, and may be answered.
LEMMA DeviceFacts ==
  ASSUME HostInv, Order, DeviceStep
  PROVE  /\ wire # <<>> /\ Head(wire) \in Commands /\ Head(wire) \in Under
         /\ Sent(Head(wire)) /\ <<Head(wire), Head(wire)>> \notin Prec
         /\ power = "up" /\ DeviceHandles(Head(wire))
         /\ ReplyTo(Head(wire)) \/ Restarts(Head(wire))
         /\ UNCHANGED <<pc, seq, got, verdict, txq, spilled, faults, aborts, cancelled,
                        lateAbort, misled>>
<1>1. /\ power = "up" /\ wire # <<>> /\ DeviceHandles(Head(wire))
      /\ UNCHANGED <<pc, seq, got, verdict, txq, spilled, faults, aborts, cancelled,
                     lateAbort, misled>>
  BY DEF DeviceStep, hostVars, taskVars, queue
<1>2. Head(wire) \in Under
  BY <1>1, HeadFacts
<1>3. Head(wire) \in Commands /\ Sent(Head(wire)) /\ <<Head(wire), Head(wire)>> \notin Prec
  BY <1>2, PrecDef DEF Order, SentOnce
<1>4. CASE power' = "up"
  BY <1>1, <1>2, <1>3, <1>4 DEF DeviceStep, ReplyTo
<1>5. CASE power' # "up"
  <2>1. /\ wire' = <<>> /\ installer' = Head(wire).task /\ events' = events
        /\ link' \in {link, "down"}
    BY <1>5 DEF DeviceStep
  <2>2. /\ Head(wire).name = "fw_update_end" /\ power' = "off" /\ s_active /\ ~s_active'
    BY <1>1, <1>3, <1>5, Handled
  <2>3. QED  BY <1>1, <1>2, <1>3, <2>1, <2>2 DEF Restarts
<1>6. QED  BY <1>4, <1>5

\* What it takes was before all that is left.
LEMMA HandledFacts ==
  ASSUME HostInv, Order, DeviceStep
  PROVE  /\ Under' \subseteq Under \ {Head(wire)}
         /\ \A a, b : <<a, b>> \in Prec' => <<a, b>> \in Prec
         /\ \A c \in Under' : <<Head(wire), c>> \in Prec
<1>1. CASE ReplyTo(Head(wire))
  BY <1>1, DeviceFacts, TakeFacts DEF ReplyTo
<1>2. CASE Restarts(Head(wire))
  <2>1. wire' = <<>> /\ txq' = txq /\ wire # <<>>
    BY <1>2, DeviceFacts DEF Restarts
  <2>2. Under' = Range(txq)
    BY <2>1, ClearFacts
  <2>3. Under' \subseteq Under /\ \A a, b : <<a, b>> \in Prec' => <<a, b>> \in Prec
    BY <2>1, PairsEmpty, LoseFacts
  <2>4. \A c \in Under' : <<Head(wire), c>> \in Prec
    BY <2>1, <2>2, HeadFacts
  <2>5. QED  BY <2>3, <2>4, DeviceFacts
<1>3. QED  BY <1>1, <1>2, DeviceFacts

-----------------------------------------------------------------------------
\* Update now is refused while an update is in flight.
LEMMA SoloKept == ASSUME HostInv, Solo, UNext PROVE Solo'
<1>1. CASE UNCHANGED pc
  BY <1>1 DEF Solo
<1>2. CASE \E t \in Tasks : UserStart(t)
  BY <1>2 DEF UserStart, Start, MayStart, Solo, HostInv, InFlight
<1>3. CASE \E t \in Tasks : TaskStep(t)
  <2>1. PICK t \in Tasks : TaskStep(t)
    BY <1>3
  <2>2. pc[t] \in InFlight
    BY <2>1, TaskFacts DEF Announces, Proceeds, GivesUp, Aborts, Finishes, Moves, InFlight
  <2>3. \A u \in Tasks \ {t} : pc'[u] = pc[u]
    BY <2>1, TaskFacts DEF Others
  <2>4. QED  BY <2>2, <2>3 DEF Solo
<1>4. CASE AgentCrash
  BY <1>4 DEF AgentCrash, Solo, HostInv, InFlight
<1>5. QED
  BY <1>1, <1>2, <1>3, <1>4 DEF UNext, UserAbort, LinkSend, LinkConnect, LinkRead, DeviceStep,
     DeviceBoots, LinkUp, LinkDrop, LineLost, DevicePowerLoss, hostVars, taskVars

\* A step of a task keeps the order.
LEMMA TaskOrder ==
  ASSUME HostInv, HostInv', Order, Advance, NEW t \in Tasks, TaskStep(t)
  PROVE  Order'
<1>1. Others(t) /\ got'[t] = NoEvent /\ UNCHANGED <<wire, events, aborts, installer, misled>>
  BY TaskFacts
<1>2. Caused' /\ Taken'
  BY <1>1, LessCaused, LessTaken DEF Order, Others
<1>3. aborts \in Nat /\ \A u \in Tasks : seq[u] \in Nat /\ seq'[u] \in Nat
  BY DEF HostInv
<1>4. pc[t] \in InFlight /\ verdict[t] = "none"
  <2>1. pc[t] \in InFlight
    BY TaskFacts DEF Announces, Proceeds, GivesUp, Aborts, Finishes, Moves, InFlight
  <2>2. QED  BY <2>1 DEF Order, InFlight
<1>5. SentOnce' /\ (EndCmd(t) \in Under' => EndCmd(t) \in Under \/ pc'[t] = "end")
                /\ \A u \in Tasks \ {t} : EndCmd(u) \in Under' => EndCmd(u) \in Under
  <2>1. CASE Announces(t)
    <3>1. TxPut(BeginCmd(t)) /\ pc[t] = "download" /\ pc'[t] = "begin"
      BY <2>1 DEF Announces, Moves
    <3>2. BeginCmd(t) \notin Under
      BY <3>1, UnsentFacts DEF Order, Waits, Ended
    <3>3. Sent(BeginCmd(t))'
      BY <3>1 DEF Sent, Waits
    <3>4. QED  BY <1>1, <3>1, <3>2, <3>3, PutOrder, PutFacts, QueueFacts, Fields DEF Order
  <2>2. CASE Proceeds(t) /\ pc'[t] = "chunk"
    <3>0. PICK s \in Nat : s = seq'[t]
      BY <1>3
    <3>1. TxPut(ChunkCmd(t, s)) /\ s < Len(Release[t])
      BY <2>2, <3>0 DEF Proceeds
    <3>2. ChunkCmd(t, s) \notin Under
      <4>1. pc[t] = "begin" \/ s \notin 0 .. seq[t]
        BY <1>3, <2>2, <3>0 DEF Proceeds
      <4>2. QED  BY <2>2, <4>1, UnsentFacts DEF Order, Proceeds, Ended
    <3>3. Sent(ChunkCmd(t, s))'
      <4>1. s \in 0 .. seq'[t]
        BY <1>3, <3>0
      <4>2. QED  BY <2>2, <3>1, <4>1 DEF Sent
    <3>4. ChunkCmd(t, s) \in Commands
      BY <3>1, QueueFacts
    <3>5. QED  BY <1>1, <3>1, <3>2, <3>3, <3>4, PutOrder, PutFacts, Fields DEF Order
  <2>3. CASE Proceeds(t) /\ pc'[t] = "end"
    <3>1. TxPut(EndCmd(t)) /\ pc[t] \in {"begin", "chunk"}
      BY <2>3 DEF Proceeds
    <3>2. EndCmd(t) \notin Under
      BY <3>1, UnsentFacts DEF Order, Ended
    <3>3. Sent(EndCmd(t))'
      BY <2>3 DEF Sent
    <3>4. QED  BY <1>1, <2>3, <3>1, <3>2, <3>3, PutOrder, PutFacts, QueueFacts, Fields DEF Order
  <2>4. CASE Aborts(t)
    <3>1. TxPut(AbortCmd(t)) /\ pc[t] = "chunk" /\ pc'[t] = "over"
      BY <2>4 DEF Aborts, Moves
    <3>2. AbortCmd(t) \notin Under
      BY <3>1, UnsentFacts DEF Order
    <3>3. Sent(AbortCmd(t))'
      BY <3>1 DEF Sent
    <3>4. QED  BY <1>1, <3>1, <3>2, <3>3, PutOrder, PutFacts, QueueFacts, Fields DEF Order
  <2>5. CASE GivesUp(t) \/ Finishes(t)
    <3>1. UNCHANGED <<wire, txq>>
      BY <1>1, <2>5 DEF GivesUp, Finishes, queue
    <3>2. Under' = Under /\ Prec' = Prec
      BY <3>1 DEF Under, Prec
    <3>3. QED  BY <3>2, LessOrder DEF Order
  <2>6. QED  BY <2>1, <2>2, <2>3, <2>4, <2>5, TaskFacts DEF Proceeds
<1>6. ASSUME NEW u \in Tasks, installer' = u
      PROVE  pc'[u] \in {"end"} \cup Ended /\ EndCmd(u) \notin Under'
  <2>1. pc[u] \in {"end"} \cup Ended /\ EndCmd(u) \notin Under
    BY <1>1, <1>6 DEF Order
  <2>2. pc'[u] \in {"end"} \cup Ended
    BY <2>1 DEF Advance
  <2>3. CASE u # t
    BY <1>5, <2>1, <2>2, <2>3
  <2>4. CASE u = t
    <3>1. pc'[t] # "end"
      BY <1>4, <2>1, <2>4, TaskFacts
      DEF Announces, Proceeds, GivesUp, Aborts, Finishes, Moves, InFlight, Ended
    <3>2. QED  BY <1>5, <2>1, <2>2, <2>4, <3>1
  <2>5. QED  BY <2>3, <2>4
<1>7. ASSUME NEW u \in Tasks, verdict'[u] # "none"
      PROVE  pc'[u] = "over"
  <2>1. CASE u # t
    BY <1>1, <1>7, <2>1 DEF Others, Order
  <2>2. CASE u = t
    BY <1>4, <1>7, <2>2, TaskFacts DEF Announces, Proceeds, GivesUp, Aborts, Finishes, Moves
  <2>3. QED  BY <2>1, <2>2
<1>8. QED  BY <1>2, <1>5, <1>6, <1>7 DEF Order

\* So does one of the user.
LEMMA UserOrder ==
  ASSUME HostInv, HostInv', Order, Advance, NEW t \in Tasks, UserStart(t) \/ UserAbort(t)
  PROVE  Order'
<1>1. UNCHANGED <<wire, events, installer, misled, seq, got, verdict>>
  BY DEF UserStart, UserAbort, Start, taskVars, linkVars, histVars
<1>2. \A u \in Tasks : pc'[u] = pc[u] \/ pc[u] = "idle"
  BY DEF UserStart, UserAbort, Start, taskVars, HostInv
<1>3. Caused' /\ Taken'
  <2>1. \A u \in Tasks : got'[u] # NoEvent => pc'[u] = pc[u]
    BY <1>1, <1>2 DEF HostInv, Waits
  <2>2. QED  BY <1>1, <2>1, LessCaused, LessTaken DEF Order
<1>4. SentOnce' /\ \A u \in Tasks : EndCmd(u) \in Under' => EndCmd(u) \in Under
  <2>1. CASE UserStart(t)
    <3>1. Under' = Under /\ Prec' = Prec
      BY <2>1 DEF UserStart, Start, queue, linkVars, Under, Prec
    <3>2. QED  BY <3>1, LessOrder DEF Order
  <2>2. CASE UserAbort(t)
    <3>0. PICK n \in Nat : n = aborts + 1
      BY DEF HostInv
    <3> DEFINE c == CancelCmd(n)
    <3>1. TxPut(c) /\ aborts' = n /\ aborts \in Nat
      BY <2>2, <3>0 DEF UserAbort, HostInv
    <3>2. c \notin Under
      <4>1. n \notin 1 .. aborts
        BY <3>0, <3>1
      <4>2. QED  BY <4>1, UnsentFacts DEF Order
    <3>3. Sent(c)'
      <4>1. n \in 1 .. aborts'
        BY <3>0, <3>1
      <4>2. QED  BY <4>1 DEF Sent
    <3>4. c \in Commands /\ \A u \in Tasks : c # EndCmd(u)
      BY <3>0, QueueFacts, Fields
    <3> HIDE DEF c
    <3>5. QED  BY <1>1, <3>1, <3>2, <3>3, <3>4, PutOrder, PutFacts DEF Order
  <2>3. QED  BY <2>1, <2>2
<1>5. \A u \in Tasks : installer' = u => pc'[u] \in {"end"} \cup Ended /\ EndCmd(u) \notin Under'
  BY <1>1, <1>4 DEF Order, Advance
<1>6. \A u \in Tasks : verdict'[u] # "none" => pc'[u] = "over"
  BY <1>1 DEF Order, Advance
<1>7. QED  BY <1>3, <1>4, <1>5, <1>6 DEF Order

\* So does reading an event.
LEMMA ReadOrder ==
  ASSUME HostInv, HostInv', Order, Advance, LinkRead
  PROVE  Order'
<1>1. /\ events # <<>> /\ events' = Tail(events) /\ events \in Seq(Answers)
      /\ UNCHANGED <<pc, seq, verdict, wire, txq, installer, aborts>>
  BY DEF LinkRead, queue, HostInv
<1>2. Range(events) = {Head(events)} \cup Range(Tail(events))
  BY <1>1, PairsTail
<1>3. SentOnce' /\ Caused' /\ Under' = Under
  <2>1. Under' = Under /\ Prec' = Prec
    BY <1>1 DEF Under, Prec
  <2>2. QED  BY <1>1, <1>2, <2>1, LessOrder, LessCaused DEF Order
<1>4. Taken'
  <2>1. SUFFICES ASSUME NEW t \in Tasks, got'[t] # NoEvent PROVE Answer(t, got[t])'
    BY DEF Taken
  <2>2. misled => misled'
    BY DEF LinkRead
  <2>3. CASE got'[t] = got[t]
    BY <1>1, <2>1, <2>2, <2>3 DEF Order, Taken, Answer, Matches
  <2>4. CASE got'[t] # got[t]
    <3>1. got'[t] = Head(events) /\ Matches(t, Head(events))
      BY <2>4 DEF LinkRead
    <3>2. Heard(Head(events))
      BY <1>2 DEF Order, Caused
    <3>3. ~misled' => got'[t].task \in {t, NoTask}
      BY <2>4 DEF LinkRead
    <3>4. Matches(t, got[t])'
      BY <1>1, <3>1 DEF Matches
    <3>5. pc[t] \in {"begin", "chunk"} => Head(events).task \in Tasks
      BY <3>1, <3>2 DEF Matches, Heard
    <3>6. pc[t] = "end" => ~Head(events).ok
      BY <3>1, <3>2 DEF Matches, Heard
    <3>7. QED  BY <1>1, <3>1, <3>3, <3>4, <3>5, <3>6 DEF Answer
  <2>5. QED  BY <2>3, <2>4
<1>5. QED  BY <1>1, <1>3, <1>4 DEF Order

\* So does a step of the device.
LEMMA DeviceOrder ==
  ASSUME HostInv, HostInv', Order, Advance, DeviceStep
  PROVE  Order'
<1> DEFINE h == Head(wire)
<1>1. /\ h \in Commands /\ Sent(h) /\ power = "up" /\ DeviceHandles(h)
      /\ h \in Under
      /\ UNCHANGED <<pc, seq, got, verdict, aborts, misled>>
  BY DeviceFacts
<1>2. /\ Under' \subseteq Under \ {h}
      /\ \A a, b : <<a, b>> \in Prec' => <<a, b>> \in Prec
  BY HandledFacts
<1>3. SentOnce' /\ Taken'
  BY <1>1, <1>2, LessOrder, LessTaken DEF Order
<1>4. CASE ReplyTo(h)
  <2> DEFINE e == Event(reply'.name, reply'.ok, h.seq, h.task)
  <2>1. installer' = installer /\ power' = "up" /\ (events' = events \/ events' = Append(events, e))
    BY <1>4 DEF ReplyTo
  <2>2. e \in Answers /\ events \in Seq(Answers)
    BY <1>1, <2>1, Answered DEF HostInv
  <2>3. Heard(e)
    <3>1. e.name = reply'.name /\ e.ok = reply'.ok /\ e.seq = h.seq /\ e.task = h.task
      BY DEF Event
    <3>2. CASE h.name = "fw_update_begin"
      <4>1. PICK t \in Tasks : h = BeginCmd(t) /\ pc[t] \in Waits \cup Ended
        BY <1>1, <3>2, SentFacts
      <4>2. e.name = "fw_update_started" /\ e.task = t
        BY <1>1, <2>1, <3>1, <3>2, <4>1, Answered, Fields
      <4>3. QED  BY <4>1, <4>2 DEF Heard
    <3>3. CASE h.name = "fw_update_chunk"
      <4>1. PICK t \in Tasks : t = h.task /\ pc[t] \in {"chunk", "end"} \cup Ended /\ h.seq \in 0 .. seq[t]
        BY <1>1, <3>3, SentFacts
      <4>2. h.task = t /\ h.seq <= seq[t]
        BY <4>1
      <4>3. e.name = "fw_update_chunk_ack"
        BY <1>1, <2>1, <3>1, <3>3, Answered
      <4>4. QED  BY <3>1, <4>1, <4>2, <4>3 DEF Heard
    <3>4. CASE h.name \in {"fw_update_end", "fw_update_abort"}
      <4>1. e.name = "fw_update_done" /\ ~e.ok
        BY <1>1, <2>1, <3>1, <3>4, Answered
      <4>2. QED  BY <4>1 DEF Heard
    <3>5. QED  BY <1>1, <3>2, <3>3, <3>4 DEF DeviceHandles
  <2> HIDE DEF e
  <2>4. Caused'
    <3>1. Range(events') \subseteq Range(events) \cup {e}
      <4>1. events' = events => Range(events') \subseteq Range(events) \cup {e}
        OBVIOUS
      <4>2. Range(Append(events, e)) = Range(events) \cup {e}
        BY <2>2, PairsAppend
      <4>3. QED  BY <2>1, <4>1, <4>2
    <3>2. Range(events) \subseteq Answers
      BY <2>2, PairsDef, ElementOfSeq
    <3>3. QED  BY <2>2, <2>3, <3>1, <3>2, SentKept DEF Order, Caused
  <2>5. QED  BY <1>1, <1>2, <1>3, <2>1, <2>4 DEF Order
<1>5. CASE Restarts(h)
  <2>1. installer' = h.task /\ h.name = "fw_update_end" /\ events' = events
    BY <1>5 DEF Restarts
  <2>2. Caused'
    BY <2>1, LessCaused DEF Order
  <2>3. PICK t \in Tasks : h = EndCmd(t) /\ pc[t] \in {"end"} \cup Ended
    BY <1>1, <2>1, SentFacts
  <2>4. installer' = t /\ EndCmd(t) \notin Under'
    BY <1>2, <2>1, <2>3, Fields
  <2>5. QED  BY <1>1, <1>3, <2>2, <2>3, <2>4 DEF Order
<1>6. QED  BY <1>4, <1>5, DeviceFacts

\* So does a loss.
LEMMA LossOrder ==
  ASSUME HostInv, HostInv', Order, Advance,
         LinkSend \/ LinkConnect \/ DeviceBoots \/ LinkUp \/ LinkDrop \/ LineLost
           \/ DevicePowerLoss \/ AgentCrash
  PROVE  Order'
<1>1. Losing /\ (~AgentCrash => UNCHANGED taskVars)
  BY Loses
<1>2. SentOnce' /\ Caused'
  BY <1>1, LessOrder, LessCaused DEF Losing, Order
<1>3. Taken' /\ verdict' = verdict
  <2>1. CASE AgentCrash
    <3>1. verdict' = verdict /\ \A t \in Tasks : got'[t] = NoEvent
      BY <2>1 DEF AgentCrash
    <3>2. QED  BY <1>1, <3>1, LessTaken DEF Losing, Order
  <2>2. CASE ~AgentCrash
    BY <1>1, <2>2, LessTaken DEF Losing, Order, taskVars
  <2>3. QED  BY <2>1, <2>2
<1>4. QED  BY <1>1, <1>2, <1>3 DEF Losing, Order, Advance

\* Every step keeps the order.
LEMMA OrderKept == ASSUME HostInv, HostInv', Order, UNext PROVE Order'
BY Advances, TaskOrder, UserOrder, ReadOrder, DeviceOrder, LossOrder DEF UNext

-----------------------------------------------------------------------------
(* Stream: where a task stands, the device stands too                      *)

Opening == {BeginCmd(u) : u \in Tasks}

StartedOk(t, e) == e.name = "fw_update_started" /\ e.ok /\ e.task = t
AckOk(t, e) == e.name = "fw_update_chunk_ack" /\ e.ok /\ e.task = t /\ e.seq = seq[t]
DoneHeard == \E e \in Range(events) : e.name = "fw_update_done"
Events(t) == Range(events) \cup {got[t]}

Opened == (\A c \in Under : c.task = NoTask) /\ (s_active => s_received = 0)

\* The begin of t is on its way, or the session it opened is as it left it.
Begun(t) == pc[t] = "begin" =>
  /\ BeginCmd(t) \in Under =>
       /\ \A c \in Under : <<BeginCmd(t), c>> \in Prec => c.task = NoTask
       /\ got[t] = NoEvent
       /\ \A e \in Range(events) : ~(e.name = "fw_update_started" /\ e.task = t)
  /\ \A e \in Events(t) : StartedOk(t, e) => Opened
  /\ \A e, d \in Range(events) :
       StartedOk(t, e) /\ d.name = "fw_update_done" /\ <<e, d>> \in Pairs(events) => ~s_active
  /\ StartedOk(t, got[t]) /\ DoneHeard => ~s_active

\* The chunk t waits for is on its way, and the device lacks it; or its ACK is,
\* and the device has it.
Streaming(t) == pc[t] = "chunk" =>
  /\ \A c \in Under : c.task = NoTask \/ c = ChunkCmd(t, seq[t])
  /\ ChunkCmd(t, seq[t]) \in Under =>
       /\ got[t] = NoEvent
       /\ \A e \in Range(events) : ~(e.name = "fw_update_chunk_ack" /\ e.task = t /\ e.seq = seq[t])
       /\ s_active => s_received = seq[t]
  /\ s_active => s_received \in {seq[t], seq[t] + 1}
  /\ \A e \in Events(t) : AckOk(t, e) /\ s_active => s_received = seq[t] + 1
  /\ DoneHeard => ~s_active

\* The end of t is the last command but for a late abort, and what refuses it
\* closes the session.
Ending(t) == pc[t] = "end" =>
  /\ \A c \in Under : c.task = NoTask \/ c = EndCmd(t)
  /\ ~lateAbort =>
       /\ EndCmd(t) \in Under => \A c \in Under : <<EndCmd(t), c>> \notin Prec
       /\ got[t] # NoEvent \/ DoneHeard => ~s_active /\ installer # t
       /\ installer = t => Under = {}

\* The end of t, should it still come, will find no session.
Doomed(t) == EndCmd(t) \in Under =>
  ~s_active /\ \A b \in Opening : <<b, EndCmd(t)>> \notin Prec

Failed(t) == verdict[t] = "error" /\ ~lateAbort => installer # t /\ Doomed(t)

Stream == ~misled => \A t \in Tasks : Begun(t) /\ Streaming(t) /\ Ending(t) /\ Failed(t)

\* A task that awaits nothing asks for nothing.
LEMMA Idle ==
  ASSUME NEW t \in Tasks, pc'[t] \notin Waits
  PROVE  Begun(t)' /\ Streaming(t)' /\ Ending(t)'
BY DEF Begun, Streaming, Ending, Waits

\* What is queued, if it is not the task's own end, spoils no failed attempt.
LEMMA FailedKept ==
  ASSUME NEW t \in Tasks, Failed(t), verdict'[t] = verdict[t], installer' = installer,
         lateAbort => lateAbort', s_active' => s_active,
         NEW c, c # EndCmd(t), Under' \subseteq Under \cup {c},
         \A a, b : <<a, b>> \in Prec' => <<a, b>> \in Prec \/ b = c
  PROVE  Failed(t)'
<1>1. SUFFICES ASSUME verdict'[t] = "error", ~lateAbort' PROVE installer' # t /\ Doomed(t)'
  BY DEF Failed
<1>2. installer # t /\ Doomed(t)
  BY <1>1 DEF Failed
<1>3. EndCmd(t) \in Under' => EndCmd(t) \in Under
  OBVIOUS
<1>4. \A b : <<b, EndCmd(t)>> \in Prec' => <<b, EndCmd(t)>> \in Prec
  OBVIOUS
<1>5. Doomed(t)'
  BY <1>2, <1>3, <1>4 DEF Doomed
<1>6. QED  BY <1>2, <1>5

\* A task that fails before its end leaves none behind.
LEMMA FailsEarly ==
  ASSUME NEW t \in Tasks, installer' # t, EndCmd(t) \notin Under'
  PROVE  Failed(t)'
BY DEF Failed, Doomed

\* At the start nothing is under way.
LEMMA InitStream == UInit => Order /\ Solo /\ Stream
<1> SUFFICES ASSUME UInit PROVE Order /\ Solo /\ Stream
  OBVIOUS
<1>1. Under = {} /\ Range(events) = {}
  BY PairsEmpty DEF UInit, Under
<1>2. \A t \in Tasks : pc[t] = "idle" /\ got[t] = NoEvent /\ verdict[t] = "none" /\ installer # t
  BY UpdateAssumption DEF UInit
<1>3. Order
  BY <1>1, <1>2 DEF Order, SentOnce, Caused, Taken
<1>4. Solo
  BY <1>2 DEF Solo, InFlight
<1>5. Stream
  BY <1>2 DEF Stream, Begun, Streaming, Ending, Failed
<1>6. QED  BY <1>3, <1>4, <1>5

\* What loses something keeps Stream.
LEMMA LossStream ==
  ASSUME HostInv, HostInv', Stream,
         LinkSend \/ LinkConnect \/ DeviceBoots \/ LinkUp \/ LinkDrop \/ LineLost
           \/ DevicePowerLoss \/ AgentCrash
  PROVE  Stream'
<1>1. Losing /\ (~AgentCrash => UNCHANGED taskVars)
  BY Loses
<1>2. SUFFICES ASSUME ~misled', NEW t \in Tasks
               PROVE  Begun(t)' /\ Streaming(t)' /\ Ending(t)' /\ Failed(t)'
  BY DEF Stream
<1>3. Begun(t) /\ Streaming(t) /\ Ending(t) /\ Failed(t)
  BY <1>1, <1>2 DEF Stream, Losing
<1>4. verdict' = verdict
  BY <1>1 DEF taskVars, AgentCrash
<1>5. Failed(t)'
  <2>1. BeginCmd(t) # EndCmd(t)
    <3>1. BeginCmd(t).name # EndCmd(t).name
      BY Fields
    <3>2. QED  BY <3>1
  <2>2. QED  BY <1>1, <1>3, <1>4, <2>1, FailedKept DEF Losing
<1>6. CASE AgentCrash
  <2>1. pc'[t] \notin Waits
    BY <1>6 DEF AgentCrash, HostInv, InFlight, Waits
  <2>2. QED  BY <1>5, <2>1, Idle
<1>7. CASE ~AgentCrash
  <2>1. UNCHANGED <<pc, seq, got, lateAbort, installer>>
    BY <1>1, <1>7 DEF taskVars, Losing
  <2>2. /\ Under' \subseteq Under
        /\ \A a, b : <<a, b>> \in Prec' => <<a, b>> \in Prec
        /\ Range(events') \subseteq Range(events)
        /\ \A a, b : <<a, b>> \in Pairs(events') => <<a, b>> \in Pairs(events)
        /\ s_active' => s_active /\ s_received' = s_received
    BY <1>1 DEF Losing
  <2>3. Opened => Opened'
    BY <2>2 DEF Opened
  <2>4. DoneHeard' => DoneHeard
    BY <2>2 DEF DoneHeard
  <2>5. \A e : e \in Events(t)' => e \in Events(t)
    BY <2>1, <2>2 DEF Events
  <2>6. Begun(t)'
    BY <1>3, <2>1, <2>2, <2>3, <2>4, <2>5 DEF Begun, StartedOk
  <2>7. Streaming(t)'
    BY <1>3, <2>1, <2>2, <2>4, <2>5 DEF Streaming, AckOk
  <2>8. Ending(t)'
    BY <1>3, <2>1, <2>2, <2>4 DEF Ending
  <2>9. QED  BY <1>5, <2>6, <2>7, <2>8
<1>8. QED  BY <1>6, <1>7

\* A waiter that takes an event.
LEMMA ReadStream ==
  ASSUME HostInv, HostInv', Order, Stream, LinkRead
  PROVE  Stream'
<1>1. /\ events # <<>> /\ events' = Tail(events) /\ events \in Seq(Answers)
      /\ UNCHANGED <<pc, seq, verdict, wire, txq, installer, aborts, lateAbort>>
      /\ UNCHANGED <<s_active, s_received>> /\ (misled => misled')
  BY DEF LinkRead, queue, HostInv, otaAll, otaVars
<1>2. /\ Range(events) = {Head(events)} \cup Range(Tail(events))
      /\ \A a, b : <<a, b>> \in Pairs(events') => <<a, b>> \in Pairs(events)
      /\ \A b \in Range(Tail(events)) : <<Head(events), b>> \in Pairs(events)
  <2>1. /\ Range(events) = {Head(events)} \cup Range(Tail(events))
        /\ Pairs(events) = Pairs(Tail(events)) \cup ({Head(events)} \X Range(Tail(events)))
    BY <1>1, PairsTail
  <2>2. QED  BY <1>1, <2>1
<1>3. Under' = Under /\ Prec' = Prec
  BY <1>1 DEF Under, Prec
<1>4. SUFFICES ASSUME ~misled', NEW t \in Tasks
               PROVE  Begun(t)' /\ Streaming(t)' /\ Ending(t)' /\ Failed(t)'
  BY DEF Stream
<1>5. Begun(t) /\ Streaming(t) /\ Ending(t) /\ Failed(t)
  BY <1>1, <1>4 DEF Stream
<1>6. Failed(t)'
  BY <1>1, <1>3, <1>5 DEF Failed, Doomed
<1>7. \/ got'[t] = got[t]
      \/ /\ got'[t] = Head(events) /\ Matches(t, Head(events)) /\ got[t] = NoEvent
         /\ Heard(Head(events)) /\ Head(events).task \in {t, NoTask}
  <2>1. got'[t] # got[t] => /\ got'[t] = Head(events) /\ Matches(t, Head(events)) /\ got[t] = NoEvent
                            /\ got'[t].task \in {t, NoTask}
    BY <1>4 DEF LinkRead
  <2>2. Heard(Head(events))
    BY <1>2 DEF Order, Caused
  <2>3. QED  BY <2>1, <2>2
<1>8. /\ Opened' = Opened /\ (DoneHeard' => DoneHeard)
      /\ \A e : e \in Events(t)' => e \in Events(t)
      /\ Range(events') \subseteq Range(events)
  BY <1>1, <1>2, <1>3, <1>7 DEF Opened, DoneHeard, Events
<1>9. Begun(t)'
  <2>1. SUFFICES ASSUME pc[t] = "begin" PROVE Begun(t)'
    BY <1>1 DEF Begun
  <2>2. got'[t] = got[t] \/ /\ got'[t] = Head(events) /\ Head(events).name = "fw_update_started"
                            /\ Head(events).task = t
    BY <1>7, <2>1, UpdateAssumption DEF Matches, Heard
  <2>3. BeginCmd(t) \in Under => got'[t] = NoEvent
    BY <1>2, <1>5, <2>1, <2>2 DEF Begun
  <2>4. StartedOk(t, got'[t]) /\ DoneHeard' => ~s_active
    <3>1. CASE got'[t] = got[t]
      BY <1>5, <1>8, <2>1, <3>1 DEF Begun
    <3>2. CASE got'[t] = Head(events)
      <4>1. SUFFICES ASSUME StartedOk(t, Head(events)), DoneHeard' PROVE ~s_active
        BY <3>2
      <4>2. PICK d \in Range(Tail(events)) : d.name = "fw_update_done"
        BY <1>1, <4>1 DEF DoneHeard
      <4>3. QED  BY <1>2, <1>5, <2>1, <4>1, <4>2 DEF Begun
    <3>3. QED  BY <2>2, <3>1, <3>2
  <2>5. QED  BY <1>1, <1>2, <1>3, <1>5, <1>8, <2>1, <2>3, <2>4 DEF Begun, StartedOk
<1>10. Streaming(t)'
  <2>1. SUFFICES ASSUME pc[t] = "chunk" PROVE Streaming(t)'
    BY <1>1 DEF Streaming
  <2>2. ChunkCmd(t, seq[t]) \in Under => got'[t] = NoEvent
    <3>1. got'[t] = got[t] \/ /\ Head(events).name = "fw_update_chunk_ack"
                              /\ Head(events).task = t /\ Head(events).seq = seq[t]
      BY <1>7, <2>1, UpdateAssumption DEF Matches, Heard
    <3>2. QED  BY <1>2, <1>5, <2>1, <3>1 DEF Streaming
  <2>3. QED  BY <1>1, <1>2, <1>3, <1>5, <1>8, <2>1, <2>2 DEF Streaming, AckOk
<1>11. Ending(t)'
  <2>1. SUFFICES ASSUME pc[t] = "end" PROVE Ending(t)'
    BY <1>1 DEF Ending
  <2>2. got'[t] = got[t] \/ DoneHeard
    BY <1>2, <1>7, <2>1 DEF Matches, DoneHeard
  <2>3. QED  BY <1>1, <1>3, <1>5, <1>8, <2>1, <2>2 DEF Ending
<1>12. QED  BY <1>6, <1>9, <1>10, <1>11

\* A step of a task.
LEMMA TaskStream ==
  ASSUME HostInv, HostInv', Order, Solo, Stream, NEW t \in Tasks, TaskStep(t)
  PROVE  Stream'
<1>1. /\ Announces(t) \/ Proceeds(t) \/ GivesUp(t) \/ Aborts(t) \/ Finishes(t)
      /\ Others(t) /\ got'[t] = NoEvent
      /\ UNCHANGED <<s_active, s_received, wire, events, aborts, lateAbort, installer, misled>>
  BY TaskFacts DEF otaAll, otaVars
<1>2. SUFFICES ASSUME ~misled', NEW u \in Tasks
               PROVE  Begun(u)' /\ Streaming(u)' /\ Ending(u)' /\ Failed(u)'
  BY DEF Stream
<1>3. /\ \A v \in Tasks : Begun(v) /\ Streaming(v) /\ Ending(v) /\ Failed(v)
      /\ ~misled
  BY <1>1, <1>2 DEF Stream
<1>4. /\ pc[t] \in InFlight /\ SentOnce /\ Caused /\ Taken
      /\ pc[t] # "end" => installer # t
      /\ verdict[t] = "none"
  <2>1. pc[t] \in InFlight
    BY <1>1 DEF Announces, Proceeds, GivesUp, Aborts, Finishes, Moves, InFlight
  <2>2. QED  BY <2>1 DEF Order, InFlight, Ended
<1>5. PICK c \in Commands :
        /\ \/ c.task = t \/ c.task = NoTask
        /\ c.name = "fw_update_end" => pc'[t] = "end"
        /\ Under' \subseteq Under \cup {c}
        /\ \A a, b : <<a, b>> \in Prec' => <<a, b>> \in Prec \/ (a \in Under /\ b = c)
        /\ pc'[t] = "begin" => c = BeginCmd(t)
        /\ pc'[t] = "chunk" => c = ChunkCmd(t, seq'[t])
        /\ pc'[t] = "end" => c = EndCmd(t)
  <2>1. CASE Announces(t)
    BY <1>1, <2>1, PutFacts, QueueFacts, Fields DEF Announces, Moves
  <2>2. CASE Proceeds(t) /\ pc'[t] = "chunk"
    <3>1. seq'[t] \in Nat
      BY DEF HostInv
    <3>2. TxPut(ChunkCmd(t, seq'[t])) /\ seq'[t] < Len(Release[t])
      BY <2>2 DEF Proceeds
    <3>3. PICK s \in Nat : s = seq'[t]
      BY <3>1
    <3>4. ChunkCmd(t, s) \in Commands
      BY <3>2, <3>3, QueueFacts
    <3>5. /\ Under' \subseteq Under \cup {ChunkCmd(t, s)}
          /\ \A a, b : <<a, b>> \in Prec' => <<a, b>> \in Prec \/ (a \in Under /\ b = ChunkCmd(t, s))
      BY <1>1, <3>2, <3>3, <3>4, PutFacts
    <3>6. QED  BY <2>2, <3>3, <3>4, <3>5, Fields
  <2>3. CASE Proceeds(t) /\ pc'[t] = "end"
    BY <1>1, <2>3, PutFacts, QueueFacts, Fields DEF Proceeds
  <2>4. CASE Aborts(t)
    BY <1>1, <2>4, PutFacts, QueueFacts, Fields DEF Aborts, Moves
  <2>5. CASE GivesUp(t) \/ Finishes(t)
    <3>1. Under' = Under /\ Prec' = Prec /\ pc'[t] = "over"
      BY <1>1, <2>5 DEF GivesUp, Finishes, Moves, queue, Under, Prec
    <3>2. QED  BY <3>1, QueueFacts, Fields
  <2>6. QED  BY <1>1, <2>1, <2>2, <2>3, <2>4, <2>5 DEF Proceeds
<1>6. CASE u # t
  <2>1. pc'[u] \notin Waits
    BY <1>1, <1>4, <1>6 DEF Others, Solo, InFlight, Waits
  <2>2. c # EndCmd(u) /\ verdict'[u] = verdict[u]
    BY <1>1, <1>5, <1>6, Fields, UpdateAssumption DEF Others
  <2>3. Failed(u)'
    BY <1>1, <1>3, <1>5, <2>2, FailedKept
  <2>4. QED  BY <2>1, <2>3, Idle
<1>7. CASE u = t /\ Announces(t)
  <2>1. pc[t] = "download" /\ pc'[t] = "begin" /\ verdict'[t] = "none" /\ c = BeginCmd(t)
    BY <1>4, <1>5, <1>7 DEF Announces, Moves
  <2>2. BeginCmd(t) \notin Under
    BY <1>4, <2>1, UnsentFacts DEF Waits, Ended
  <2>3. \A e \in Range(events) : ~(e.name = "fw_update_started" /\ e.task = t)
    BY <1>4, <2>1 DEF Caused, Heard, Waits, Ended
  <2>4. \A d : <<BeginCmd(t), d>> \notin Prec'
    BY <1>5, <2>2, PrecDef
  <2>5. \A e \in Events(t)' : ~StartedOk(t, e)
    BY <1>1, <2>3 DEF Events, StartedOk, NoEvent, Event
  <2>6. ~StartedOk(t, got'[t]) /\ \A e \in Range(events') : ~StartedOk(t, e)
    BY <2>5 DEF Events
  <2>7. Begun(t)'
    BY <1>1, <2>3, <2>4, <2>5, <2>6 DEF Begun, StartedOk
  <2>8. QED  BY <1>7, <2>1, <2>7 DEF Streaming, Ending, Failed
<1>8. CASE u = t /\ Proceeds(t)
  <2>1. /\ got[t] # NoEvent /\ got[t].ok /\ Answer(t, got[t]) /\ verdict'[t] = "none"
        /\ pc[t] \in {"begin", "chunk"} /\ pc'[t] \in {"chunk", "end"}
        /\ \A v \in Tasks : seq[v] \in Nat
    BY <1>4, <1>8 DEF Proceeds, Taken, HostInv
  <2>2. got[t].task = t
    BY <1>3, <2>1, UpdateAssumption DEF Answer
  <2>3. /\ \A d \in Under : d.task = NoTask
        /\ s_active => s_received = seq'[t]
        /\ DoneHeard => ~s_active
        /\ \A e \in Range(events) : ~(e.name = "fw_update_chunk_ack" /\ e.task = t /\ e.seq = seq'[t])
        /\ ChunkCmd(t, seq'[t]) \notin Under
    <3>1. CASE pc[t] = "begin"
      <4>1. StartedOk(t, got[t]) /\ got[t] \in Events(t) /\ seq'[t] = 0
        BY <1>8, <2>1, <2>2, <3>1 DEF Answer, Matches, StartedOk, Events, Proceeds
      <4>2. Opened /\ (DoneHeard => ~s_active)
        BY <1>3, <3>1, <4>1 DEF Begun
      <4>3. \A e \in Range(events) : ~(e.name = "fw_update_chunk_ack" /\ e.task = t)
        BY <1>4, <3>1 DEF Caused, Heard, Ended
      <4>4. \A s : ChunkCmd(t, s) \notin Under
        BY <1>4, <3>1, UnsentFacts DEF Ended
      <4>5. QED  BY <4>1, <4>2, <4>3, <4>4 DEF Opened
    <3>2. CASE pc[t] = "chunk"
      <4>1. AckOk(t, got[t]) /\ got[t] \in Events(t) /\ seq'[t] = seq[t] + 1
        BY <1>8, <2>1, <2>2, <3>2 DEF Answer, Matches, AckOk, Events, Proceeds
      <4>2. /\ \A d \in Under : d.task = NoTask
            /\ s_active => s_received = seq[t] + 1
            /\ DoneHeard => ~s_active
        BY <1>3, <2>1, <3>2, <4>1 DEF Streaming
      <4>3. seq'[t] \notin 0 .. seq[t] /\ \A n \in Nat : n <= seq[t] => n # seq'[t]
        BY <2>1, <4>1
      <4>4. ChunkCmd(t, seq'[t]) \notin Under
        <5>1. PICK s \in Nat : s = seq'[t]
          BY <2>1, <4>1
        <5>2. ChunkCmd(t, s) \notin Under
          BY <1>4, <4>3, <5>1, UnsentFacts
        <5>3. QED  BY <5>1, <5>2
      <4>5. \A e \in Range(events) : ~(e.name = "fw_update_chunk_ack" /\ e.task = t /\ e.seq = seq'[t])
        <5>1. \A e \in Range(events) : e.seq \in Nat
          <6>1. events \in Seq(Answers)
            BY DEF HostInv
          <6>2. Range(events) \subseteq Answers
            BY <6>1, PairsDef, ElementOfSeq
          <6>3. QED  BY <6>2 DEF Answers
        <5>2. QED  BY <1>4, <4>3, <5>1 DEF Caused, Heard
      <4>6. QED  BY <4>1, <4>2, <4>4, <4>5
    <3>3. QED  BY <2>1, <3>1, <3>2
  <2>4. DoneHeard' <=> DoneHeard
    BY <1>1 DEF DoneHeard
  <2>5. CASE pc'[t] = "chunk"
    <3>1. c = ChunkCmd(t, seq'[t])
      BY <1>5, <2>5
    <3>2. \A d \in Under' : d.task = NoTask \/ d = ChunkCmd(t, seq'[t])
      BY <1>5, <2>3, <3>1
    <3>3. \A e \in Range(events) : ~(e.ok /\ e.name = "fw_update_chunk_ack" /\ e.task = t /\ e.seq = seq'[t])
      BY <2>3
    <3>4. \A e \in Events(t)' : ~AckOk(t, e)'
      BY <1>1, <3>3 DEF Events, AckOk, NoEvent, Event
    <3>5. ChunkCmd(t, seq[t])' = ChunkCmd(t, seq'[t])
      OBVIOUS
    <3>6. Streaming(t)'
      BY <1>1, <2>3, <2>4, <3>2, <3>4 DEF Streaming
    <3>7. QED  BY <1>8, <2>1, <2>5, <3>6 DEF Begun, Ending, Failed
  <2>6. CASE pc'[t] = "end"
    <3>1. c = EndCmd(t) /\ EndCmd(t) \notin Under
      BY <1>4, <1>5, <2>1, <2>6, UnsentFacts DEF Ended
    <3>2. \A d : <<EndCmd(t), d>> \notin Prec'
      BY <1>5, <3>1, PrecDef
    <3>3. Ending(t)'
      BY <1>1, <1>4, <1>5, <2>1, <2>3, <2>4, <3>1, <3>2 DEF Ending
    <3>4. QED  BY <1>8, <2>1, <2>6, <3>3 DEF Begun, Streaming, Failed
  <2>7. QED  BY <2>1, <2>5, <2>6
<1>9. CASE u = t /\ (GivesUp(t) \/ Aborts(t))
  <2>1. pc[t] \in {"download", "begin", "chunk"} /\ pc'[t] = "over"
    BY <1>9 DEF GivesUp, Aborts, Moves
  <2>2. EndCmd(t) \notin Under'
    <3>1. EndCmd(t) \notin Under
      BY <1>4, <2>1, UnsentFacts DEF Ended
    <3>2. c # EndCmd(t)
      BY <1>5, <2>1, Fields
    <3>3. QED  BY <1>5, <3>1, <3>2
  <2>3. installer' # t
    BY <1>1, <1>4, <2>1
  <2>4. QED  BY <1>9, <2>1, <2>2, <2>3, Idle, FailsEarly DEF Waits
<1>10. CASE u = t /\ Finishes(t)
  <2>1. pc[t] = "end" /\ pc'[t] = "over" /\ UNCHANGED <<wire, txq>>
    BY <1>1, <1>10 DEF Finishes, Moves, queue
  <2>2. Under' = Under /\ Prec' = Prec
    BY <2>1 DEF Under, Prec
  <2>3. Failed(t)'
    <3>1. SUFFICES ASSUME verdict'[t] = "error", ~lateAbort' PROVE installer' # t /\ Doomed(t)'
      BY DEF Failed
    <3>2. got[t] # NoEvent /\ ~lateAbort
      BY <1>1, <1>10, <3>1 DEF Finishes
    <3>3. ~s_active /\ installer # t /\ \A d \in Under : d.task = NoTask \/ d = EndCmd(t)
      BY <1>3, <2>1, <3>2 DEF Ending
    <3>4. \A b \in Opening : b \notin Under
      BY <3>3, Fields, UpdateAssumption DEF Opening
    <3>5. QED  BY <1>1, <2>2, <3>3, <3>4, PrecDef DEF Doomed
  <2>4. QED  BY <1>10, <2>1, <2>3, Idle DEF Waits
<1>11. QED  BY <1>1, <1>6, <1>7, <1>8, <1>9, <1>10

\* The user's buttons: only a Cancel after the end can harm, and it is told.
LEMMA UserStream ==
  ASSUME HostInv, HostInv', Order, Solo, Stream, NEW t \in Tasks, UserStart(t) \/ UserAbort(t)
  PROVE  Stream'
<1>1. /\ UNCHANGED <<s_active, s_received, wire, events, installer, misled, seq, got, verdict>>
      /\ lateAbort => lateAbort'
  <2>1. CASE UserStart(t)
    BY <2>1 DEF UserStart, Start, linkVars, histVars, otaAll, otaVars
  <2>2. CASE UserAbort(t)
    <3>1. lateAbort => lateAbort'
      BY <2>2, Zenon DEF UserAbort
    <3>2. QED  BY <2>2, <3>1 DEF UserAbort, taskVars, linkVars, otaAll, otaVars
  <2>3. QED  BY <2>1, <2>2
<1>2. SUFFICES ASSUME ~misled', NEW u \in Tasks
               PROVE  Begun(u)' /\ Streaming(u)' /\ Ending(u)' /\ Failed(u)'
  BY DEF Stream
<1>3. Begun(u) /\ Streaming(u) /\ Ending(u) /\ Failed(u)
  BY <1>1, <1>2 DEF Stream
<1>4. CASE UserStart(t)
  <2>1. pc'[u] = pc[u] \/ (u = t /\ pc'[u] = "download")
    BY <1>4 DEF UserStart, Start, HostInv
  <2>2. pc'[u] \notin Waits
    BY <1>4, <2>1 DEF UserStart, Start, MayStart, InFlight, Waits
  <2>3. Under' = Under /\ Prec' = Prec
    BY <1>4 DEF UserStart, Start, queue, linkVars, Under, Prec
  <2>4. Failed(u)'
    BY <1>1, <1>3, <2>3 DEF Failed, Doomed
  <2>5. QED  BY <2>2, <2>4, Idle
<1>5. CASE UserAbort(t)
  <2>1. PICK n \in Nat : n = aborts + 1
    BY DEF HostInv
  <2>2. /\ TxPut(CancelCmd(n)) /\ pc' = pc /\ pc[t] \in InFlight
        /\ lateAbort' = (lateAbort \/ pc[t] = "end")
    BY <1>5, <2>1 DEF UserAbort, taskVars
  <2>3. PICK c \in Commands : /\ c.task = NoTask /\ c # EndCmd(u) /\ c # BeginCmd(u)
                              /\ \A s : c # ChunkCmd(u, s)
                              /\ TxPut(c)
    <3>1. CancelCmd(n).task = NoTask /\ CancelCmd(n) \in Commands
      BY Fields, QueueFacts
    <3>2. /\ EndCmd(u).task # NoTask /\ BeginCmd(u).task # NoTask
          /\ \A s : ChunkCmd(u, s).task # NoTask
      BY Fields, UpdateAssumption
    <3>3. QED  BY <2>2, <3>1, <3>2
  <2>4. /\ Under' \subseteq Under \cup {c}
        /\ \A a, b : <<a, b>> \in Prec' => <<a, b>> \in Prec \/ (a \in Under /\ b = c)
    BY <1>1, <2>3, PutFacts
  <2>5. Failed(u)'
    BY <1>1, <1>3, <2>3, <2>4, FailedKept
  <2>6. /\ Opened => Opened'
        /\ DoneHeard' <=> DoneHeard
        /\ \A e : e \in Events(u)' => e \in Events(u)
        /\ Pairs(events') = Pairs(events)
    BY <1>1, <2>3, <2>4 DEF Opened, DoneHeard, Events
  <2>7. Begun(u)'
    BY <1>1, <1>3, <2>2, <2>3, <2>4, <2>6 DEF Begun, StartedOk
  <2>8. Streaming(u)'
    BY <1>1, <1>3, <2>2, <2>3, <2>4, <2>6 DEF Streaming, AckOk
  <2>9. Ending(u)'
    <3>1. pc'[u] = "end" => lateAbort'
      BY <2>2 DEF Solo, InFlight
    <3>2. QED  BY <1>3, <2>2, <2>3, <2>4, <3>1 DEF Ending
  <2>10. QED  BY <2>5, <2>7, <2>8, <2>9
<1>6. QED  BY <1>4, <1>5

\* The device answers a command, or restarts into what it completed.
LEMMA DeviceStream ==
  ASSUME HostInv, HostInv', Order, Stream, DeviceStep
  PROVE  Stream'
<1> DEFINE h == Head(wire)
<1>1. /\ h \in Commands /\ h \in Under /\ Sent(h) /\ power = "up" /\ DeviceHandles(h)
      /\ UNCHANGED <<pc, seq, got, verdict, aborts, lateAbort, misled>>
      /\ ReplyTo(h) \/ Restarts(h)
  BY DeviceFacts
<1>2. /\ Under' \subseteq Under /\ h \notin Under'
      /\ \A a, b : <<a, b>> \in Prec' => <<a, b>> \in Prec
      /\ \A c \in Under' : <<h, c>> \in Prec
  BY HandledFacts
<1>3. SUFFICES ASSUME ~misled', NEW t \in Tasks
               PROVE  Begun(t)' /\ Streaming(t)' /\ Ending(t)' /\ Failed(t)'
  BY DEF Stream
<1>4. Begun(t) /\ Streaming(t) /\ Ending(t) /\ Failed(t)
  BY <1>1, <1>3 DEF Stream
<1>5. h.task = NoTask => h.name = "fw_update_abort"
  BY <1>1, SentFacts, UpdateAssumption
<1>6. Failed(t)'
  <2>1. SUFFICES ASSUME verdict[t] = "error", ~lateAbort PROVE installer' # t /\ Doomed(t)'
    BY <1>1 DEF Failed
  <2>2. installer # t /\ Doomed(t)
    BY <1>1, <1>4, <2>1 DEF Failed
  <2>3. installer' # t
    <3>1. CASE Restarts(h) /\ h.task = t
      <4>1. h = EndCmd(t) /\ s_active
        BY <1>1, <3>1, SentFacts DEF Restarts
      <4>2. QED  BY <1>1, <2>2, <4>1 DEF Doomed
    <3>2. QED  BY <1>1, <2>2, <3>1 DEF ReplyTo, Restarts
  <2>4. ASSUME EndCmd(t) \in Under' PROVE ~s_active'
    <3>1. ~s_active /\ \A b \in Opening : <<b, EndCmd(t)>> \notin Prec
      BY <1>2, <2>2, <2>4 DEF Doomed
    <3>2. h.name # "fw_update_begin"
      BY <1>1, <1>2, <2>4, <3>1, SentFacts DEF Opening
    <3>3. QED  BY <1>1, <3>1, <3>2, Handled
  <2>5. QED  BY <1>2, <2>2, <2>3, <2>4 DEF Doomed
<1>7. CASE ReplyTo(h)
  <2> DEFINE e == Event(reply'.name, reply'.ok, h.seq, h.task)
  <2>1. installer' = installer /\ power' = "up" /\ (events' = events \/ events' = Append(events, e))
    BY <1>7 DEF ReplyTo
  <2>2. /\ e \in Answers /\ events \in Seq(Answers)
        /\ e.name = reply'.name /\ e.ok = reply'.ok /\ e.seq = h.seq /\ e.task = h.task
    BY <1>1, <2>1, Answered DEF HostInv, Event
  <2>3. /\ e.name = "fw_update_started" <=> h.name = "fw_update_begin"
        /\ e.name = "fw_update_chunk_ack" <=> h.name = "fw_update_chunk"
        /\ e.name = "fw_update_done" <=> h.name \in {"fw_update_end", "fw_update_abort"}
    BY <1>1, <2>1, <2>2, Answered
  <2>4. /\ h.name \in {"fw_update_end", "fw_update_abort"} => ~s_active'
        /\ h.name = "fw_update_begin" => \/ ~e.ok /\ UNCHANGED <<s_active, s_received>>
                                         \/ ~s_active /\ s_active' /\ s_received' = 0
        /\ h.name = "fw_update_chunk" => \/ ~e.ok /\ s_received' = s_received /\ (s_active' => s_active)
                                         \/ s_active /\ s_received' = s_received + 1
    <3>1. /\ ~Started(FALSE).ok /\ ~Ack(FALSE).ok
      BY DEF Started, Ack
    <3>2. QED  BY <1>1, <2>1, <2>2, <3>1, Handled
  <2> HIDE DEF e
  <2>5. /\ Range(events') \subseteq Range(events) \cup {e}
        /\ \A a, d : <<a, d>> \in Pairs(events') => \/ <<a, d>> \in Pairs(events)
                                                    \/ a \in Range(events) /\ d = e
    <3>1. /\ Range(Append(events, e)) = Range(events) \cup {e}
          /\ Pairs(Append(events, e)) = Pairs(events) \cup (Range(events) \X {e})
      BY <2>2, PairsAppend
    <3>2. CASE events' = events
      BY <3>2
    <3>3. CASE events' = Append(events, e)
      BY <3>1, <3>3
    <3>4. QED  BY <2>1, <3>2, <3>3
  <2>6. \A a, d : <<a, d>> \in Pairs(events) => a \in Range(events) /\ d \in Range(events)
    BY DEF Pairs
  <2>7. \A x : x \in Events(t)' => x \in Events(t) \/ x = e
    BY <1>1, <2>5 DEF Events
  <2>8. DoneHeard' => DoneHeard \/ e.name = "fw_update_done"
    BY <2>5 DEF DoneHeard
  <2>9. Begun(t)'
    <3>1. SUFFICES ASSUME pc[t] = "begin" PROVE Begun(t)'
      BY <1>1 DEF Begun
    <3>2. ASSUME Opened PROVE Opened' /\ ~s_active'
      <4>1. h.name = "fw_update_abort"
        BY <1>1, <1>5, <3>2 DEF Opened
      <4>2. QED  BY <1>2, <2>4, <3>2, <4>1 DEF Opened
    <3>3. ASSUME BeginCmd(t) \in Under'
          PROVE  /\ \A c \in Under' : <<BeginCmd(t), c>> \in Prec' => c.task = NoTask
                 /\ got[t] = NoEvent
                 /\ \A x \in Range(events') : ~(x.name = "fw_update_started" /\ x.task = t)
      <4>1. h # BeginCmd(t)
        BY <1>2, <3>3
      <4>2. ~(e.name = "fw_update_started" /\ e.task = t)
        BY <1>1, <2>2, <2>3, <4>1, SentFacts
      <4>3. QED  BY <1>2, <1>4, <2>5, <3>1, <3>3, <4>2 DEF Begun
    <3>4. ASSUME StartedOk(t, e) PROVE Opened'
      <4>1. h = BeginCmd(t) /\ s_received' = 0
        BY <1>1, <2>2, <2>3, <2>4, <3>4, SentFacts DEF StartedOk
      <4>2. \A c \in Under' : c.task = NoTask
        BY <1>1, <1>2, <1>4, <3>1, <4>1 DEF Begun
      <4>3. QED  BY <4>1, <4>2 DEF Opened
    <3>5. \A x \in Events(t) : StartedOk(t, x) => Opened
      BY <1>4, <3>1 DEF Begun
    <3>6. \A x \in Events(t)' : StartedOk(t, x) => Opened'
      BY <2>7, <3>2, <3>4, <3>5
    <3>7. ASSUME NEW x \in Range(events'), NEW d \in Range(events'), StartedOk(t, x),
                 d.name = "fw_update_done", <<x, d>> \in Pairs(events')
          PROVE  ~s_active'
      <4>1. x \in Range(events)
        BY <2>5, <2>6, <3>7
      <4>2. QED  BY <3>2, <3>5, <3>7, <4>1 DEF Events
    <3>8. StartedOk(t, got[t]) /\ DoneHeard' => ~s_active'
      BY <3>2, <3>5 DEF Events
    <3>9. QED  BY <1>1, <3>1, <3>3, <3>6, <3>7, <3>8 DEF Begun, StartedOk
  <2>10. Streaming(t)'
    <3>1. SUFFICES ASSUME pc[t] = "chunk" PROVE Streaming(t)'
      BY <1>1 DEF Streaming
    <3>2. seq[t] \in Nat
      BY DEF HostInv
    <3>3. \A c \in Under' : c.task = NoTask \/ c = ChunkCmd(t, seq[t])
      BY <1>2, <1>4, <3>1 DEF Streaming
    <3>4. CASE h.task = NoTask
      <4>1. ~s_active' /\ e.name = "fw_update_done"
        BY <1>5, <2>3, <2>4, <3>4
      <4>2. ChunkCmd(t, seq[t]) \in Under' =>
              /\ got[t] = NoEvent
              /\ \A x \in Range(events') :
                   ~(x.name = "fw_update_chunk_ack" /\ x.task = t /\ x.seq = seq[t])
        BY <1>2, <1>4, <2>5, <3>1, <4>1 DEF Streaming
      <4>3. QED  BY <1>1, <3>1, <3>3, <4>1, <4>2 DEF Streaming, AckOk
    <3>5. CASE h = ChunkCmd(t, seq[t])
      <4>1. /\ ChunkCmd(t, seq[t]) \notin Under' /\ h.name = "fw_update_chunk"
            /\ e.name = "fw_update_chunk_ack"
        BY <1>2, <2>3, <3>5, Fields
      <4>2. /\ got[t] = NoEvent
            /\ s_active => s_received = seq[t]
            /\ \A x \in Range(events) : ~(x.name = "fw_update_chunk_ack" /\ x.task = t /\ x.seq = seq[t])
        BY <1>1, <1>4, <3>1, <3>5 DEF Streaming
      <4>3. s_active' => \/ ~e.ok /\ s_received' = seq[t]
                         \/ s_received' = seq[t] + 1
        BY <1>1, <1>4, <2>4, <3>1, <3>5, <4>1 DEF Streaming
      <4>4. \A x \in Events(t)' : AckOk(t, x) => x = e
        BY <1>1, <1>4, <2>7, <3>1, <3>5, <4>2 DEF AckOk, Events, Streaming, NoEvent, Event
      <4>5. \A x \in Events(t)' : AckOk(t, x) /\ s_active' => s_received' = seq[t] + 1
        BY <4>3, <4>4 DEF AckOk
      <4>6. DoneHeard' => ~s_active'
        BY <1>4, <2>4, <2>8, <3>1, <4>1 DEF Streaming
      <4>7. QED  BY <1>1, <3>1, <3>3, <4>1, <4>3, <4>5, <4>6 DEF Streaming, AckOk
    <3>6. QED  BY <1>1, <1>4, <3>1, <3>4, <3>5 DEF Streaming
  <2>11. Ending(t)'
    <3>1. SUFFICES ASSUME pc[t] = "end" PROVE Ending(t)'
      BY <1>1 DEF Ending
    <3>2. h.task = NoTask \/ h = EndCmd(t)
      BY <1>1, <1>4, <3>1 DEF Ending
    <3>3. ~s_active'
      BY <1>5, <2>4, <3>2, Fields
    <3>4. ~lateAbort => installer # t
      BY <1>1, <1>4, <3>1 DEF Ending
    <3>5. QED  BY <1>1, <1>2, <1>4, <2>1, <3>1, <3>3, <3>4 DEF Ending
  <2>12. QED  BY <1>6, <2>9, <2>10, <2>11
<1>8. CASE Restarts(h)
  <2>1. /\ installer' = h.task /\ h.name = "fw_update_end" /\ events' = events
        /\ s_active /\ ~s_active'
    BY <1>8 DEF Restarts
  <2>2. h \in {EndCmd(u) : u \in Tasks} /\ h = EndCmd(h.task)
    BY <1>1, <2>1, SentFacts
  <2>3. /\ DoneHeard' <=> DoneHeard
        /\ Opened => Opened'
        /\ \A x : x \in Events(t)' => x \in Events(t)
    BY <1>1, <1>2, <2>1 DEF DoneHeard, Opened, Events
  <2>4. Begun(t)'
    BY <1>1, <1>2, <1>4, <2>1, <2>3 DEF Begun, StartedOk
  <2>5. Streaming(t)'
    BY <1>1, <1>2, <1>4, <2>1, <2>3 DEF Streaming, AckOk
  <2>6. Ending(t)'
    <3>1. SUFFICES ASSUME pc[t] = "end" PROVE Ending(t)'
      BY <1>1 DEF Ending
    <3>2. h = EndCmd(t)
      BY <1>1, <1>4, <2>1, <2>2, <3>1, Fields, UpdateAssumption DEF Ending
    <3>3. ~lateAbort => Under' = {}
      BY <1>1, <1>2, <1>4, <3>1, <3>2 DEF Ending
    <3>4. ~lateAbort => ~(got[t] # NoEvent \/ DoneHeard)
      BY <1>4, <2>1, <3>1 DEF Ending
    <3>5. QED  BY <1>1, <1>2, <1>4, <2>1, <2>3, <3>1, <3>3, <3>4 DEF Ending
  <2>7. QED  BY <1>6, <2>4, <2>5, <2>6
<1>9. QED  BY <1>1, <1>7, <1>8

\* Every step keeps Stream.
LEMMA StreamKept == ASSUME HostInv, HostInv', Order, Solo, Stream, UNext PROVE Stream'
BY TaskStream, UserStream, ReadStream, DeviceStream, LossStream DEF UNext

-----------------------------------------------------------------------------
HostStream == HostInv /\ Order /\ Solo /\ Stream

\* The invariant of the stream is inductive.
LEMMA HostStreamKept == HostStream /\ [UNext]_uvars => HostStream'
<1> SUFFICES ASSUME HostStream, [UNext]_uvars PROVE HostStream'
  OBVIOUS
<1>1. CASE UNCHANGED uvars
  <2>1. UNCHANGED <<s_active, s_received, pc, seq, got, verdict, txq, wire, events, aborts,
                    lateAbort, installer, misled>>
    BY <1>1 DEF uvars, otaAll, otaVars, hostVars, taskVars, queue, linkVars, histVars
  <2>2. Under' = Under /\ Prec' = Prec
    BY <2>1 DEF Under, Prec
  <2>3. HostInv'
    BY <1>1, HostKept DEF HostStream
  <2>4. Order'
    BY <2>1, <2>2 DEF HostStream, Order, SentOnce, Sent, Caused, Heard, Taken, Answer, Matches
  <2>5. Solo'
    BY <2>1 DEF HostStream, Solo
  <2>6. Stream'
    <3>1. SUFFICES ASSUME ~misled', NEW t \in Tasks
                   PROVE  Begun(t)' /\ Streaming(t)' /\ Ending(t)' /\ Failed(t)'
      BY DEF Stream
    <3>2. Begun(t) /\ Streaming(t) /\ Ending(t) /\ Failed(t)
      BY <2>1, <3>1 DEF HostStream, Stream
    <3>3. Opened' = Opened /\ DoneHeard' = DoneHeard /\ Events(t)' = Events(t)
      BY <2>1, <2>2 DEF Opened, DoneHeard, Events
    <3>4. Begun(t)' /\ Streaming(t)'
      BY <2>1, <2>2, <3>2, <3>3 DEF Begun, Streaming, StartedOk, AckOk
    <3>5. Ending(t)' /\ Failed(t)'
      BY <2>1, <2>2, <3>2, <3>3 DEF Ending, Failed, Doomed
    <3>6. QED  BY <3>4, <3>5
  <2>7. QED  BY <2>3, <2>4, <2>5, <2>6 DEF HostStream
<1>2. CASE UNext
  BY <1>2, HostKept, OrderKept, SoloKept, StreamKept DEF HostStream
<1>3. QED  BY <1>1, <1>2

\* It holds throughout an update.
LEMMA HostStreams == USpec => []HostStream
<1>1. UInit => HostStream
  BY HostInit, InitStream DEF HostStream
<1>2. QED  BY <1>1, HostStreamKept, PTL DEF USpec

\* While a task streams, the device holds the chunks it was seen to have.
THEOREM StreamsInStep == USpec => []StreamInStep
<1>1. HostStream => StreamInStep
  BY DEF HostStream, Stream, Streaming, StreamInStep
<1>2. QED  BY <1>1, HostStreams, PTL

\* An attempt that ended in an error installed nothing.
THEOREM ErrorsInstallNothing == USpec => []ErrorMeansNotInstalled
<1>1. HostStream => ErrorMeansNotInstalled
  BY DEF HostStream, Stream, Failed, ErrorMeansNotInstalled
<1>2. QED  BY <1>1, HostStreams, PTL

-----------------------------------------------------------------------------
(* Cancels: what Cancel promises while no command is lost                  *)

Lossless == faults = 0 /\ ~spilled

\* The end of t may still come.
Live(t) == pc[t] \in {"begin", "chunk"} \/ EndCmd(t) \in Under

\* If it does, it finds no session.
Closed(t) ==
  /\ ~s_active
  /\ pc[t] \in Waits => Opening \cap Under = {}
  /\ EndCmd(t) \in Under => \A b \in Opening : <<b, EndCmd(t)>> \notin Prec

\* Or a Cancel is on its way, behind the begin and before the end.
Stops(n, t) ==
  /\ CancelCmd(n) \in Under
  /\ pc[t] \in Waits => \A b \in Opening : <<CancelCmd(n), b>> \notin Prec
  /\ EndCmd(t) \in Under =>
       /\ <<CancelCmd(n), EndCmd(t)>> \in Prec
       /\ \A b \in Opening : <<CancelCmd(n), b>> \in Prec => <<b, EndCmd(t)>> \notin Prec

Halted(t) == Closed(t) \/ \E n \in 1 .. aborts : Stops(n, t)

Stopped(t) ==
  /\ installer # t
  /\ pc[t] \in Waits \cup Ended
  /\ Live(t) => Halted(t)

Cancels ==
  /\ faults \in Nat
  /\ Lossless => /\ link # "up" => wire = <<>> /\ ~s_active
                 /\ \A t \in cancelled : Stopped(t)

\* A command behind the others does not come between a Cancel and the end.
LEMMA PutStops ==
  ASSUME HostInv, HostInv', NEW c \in Commands, TxPut(c), wire' = wire, ~spilled',
         s_active' = s_active, aborts <= aborts', NEW t \in Tasks, Stopped(t),
         installer' = installer, pc'[t] \in Waits \cup Ended, Live(t)' => Live(t),
         pc'[t] \in Waits => pc[t] \in Waits,
         c \in Opening => c \notin Under /\ pc'[t] \notin Waits,
         c = EndCmd(t) => pc[t] \in Waits /\ c \notin Opening
  PROVE  Stopped(t)'
<1>1. /\ c \in Under' /\ Under' \subseteq Under \cup {c} /\ Under \subseteq Under'
      /\ \A a, b : <<a, b>> \in Prec' => <<a, b>> \in Prec \/ (a \in Under /\ b = c)
      /\ \A a, b : <<a, b>> \in Prec => <<a, b>> \in Prec'
      /\ \A a \in Under : <<a, c>> \in Prec'
      /\ \A a, b : <<a, b>> \in Prec => a \in Under /\ b \in Under
      /\ aborts \in Nat /\ aborts' \in Nat
  BY PutFacts, PrecDef DEF HostInv
<1>2. SUFFICES ASSUME Live(t)' PROVE Halted(t)'
  BY DEF Stopped
<1>3. Halted(t)
  BY <1>2 DEF Stopped
<1>4. CASE Closed(t)
  <2>1. pc'[t] \in Waits => Opening \cap Under' = {}
    BY <1>1, <1>4 DEF Closed
  <2>2. ASSUME EndCmd(t) \in Under', NEW b \in Opening, <<b, EndCmd(t)>> \in Prec'
        PROVE  FALSE
    BY <1>1, <1>4, <2>2 DEF Closed
  <2>3. Closed(t)'
    BY <1>4, <2>1, <2>2 DEF Closed
  <2>4. QED  BY <2>3 DEF Halted
<1>5. CASE \E n \in 1 .. aborts : Stops(n, t)
  <2>1. PICK n \in 1 .. aborts : Stops(n, t)
    BY <1>5
  <2> DEFINE k == CancelCmd(n)
             e == EndCmd(t)
  <2>2. /\ k \in Under
        /\ pc[t] \in Waits => \A b \in Opening : <<k, b>> \notin Prec
        /\ e \in Under => /\ <<k, e>> \in Prec
                          /\ \A b \in Opening : <<k, b>> \in Prec => <<b, e>> \notin Prec
    BY <2>1 DEF Stops
  <2> HIDE DEF k, e
  <2>3. k \in Under' /\ n \in 1 .. aborts'
    BY <1>1, <2>2
  <2>4. pc'[t] \in Waits => \A b \in Opening : <<k, b>> \notin Prec'
    BY <1>1, <2>2
  <2>5. e \in Under' => <<k, e>> \in Prec'
    BY <1>1, <2>2
  <2>6. ASSUME NEW b \in Opening, <<k, b>> \in Prec', <<b, e>> \in Prec'
        PROVE  FALSE
    <3>1. b \in Under /\ b # c
      BY <1>1, <2>6 DEF e
    <3>2. <<k, b>> \in Prec
      BY <1>1, <2>6, <3>1
    <3>3. CASE e = c
      BY <2>2, <3>2, <3>3 DEF e
    <3>4. CASE e # c
      BY <1>1, <2>2, <2>6, <3>2, <3>4
    <3>5. QED  BY <3>3, <3>4
  <2>7. Stops(n, t)'
    BY <2>3, <2>4, <2>5, <2>6 DEF Stops, k, e
  <2>8. QED  BY <2>3, <2>7 DEF Halted
<1>6. QED  BY <1>3, <1>4, <1>5 DEF Halted

\* With the same under way, a cancel still stops what it stopped.
LEMMA SameStops ==
  ASSUME HostInv, HostInv', Under' = Under, \A a, b : <<a, b>> \in Prec' <=> <<a, b>> \in Prec,
         s_active' => s_active, aborts <= aborts', NEW t \in Tasks, Stopped(t),
         installer' = installer, pc'[t] \in Waits \cup Ended,
         pc'[t] \in {"begin", "chunk"} => pc[t] \in {"begin", "chunk"},
         pc'[t] \in Waits => pc[t] \in Waits
  PROVE  Stopped(t)'
<1>1. aborts \in Nat /\ aborts' \in Nat
  BY DEF HostInv
<1>2. SUFFICES ASSUME Live(t)' PROVE Halted(t)'
  BY DEF Stopped
<1>3. Halted(t)
  BY <1>2 DEF Stopped, Live
<1>4. Closed(t) => Closed(t)'
  BY DEF Closed
<1>5. ASSUME NEW n \in 1 .. aborts, Stops(n, t) PROVE n \in 1 .. aborts' /\ Stops(n, t)'
  BY <1>1, <1>5 DEF Stops
<1>6. QED  BY <1>3, <1>4, <1>5 DEF Halted

\* What is ordered is under way.
LEMMA PrecMembers == \A a, b : <<a, b>> \in Prec' => a \in Under' /\ b \in Under'
<1>1. \A a, b : <<a, b>> \in Prec' => \/ <<a, b>> \in Pairs(wire') \/ <<a, b>> \in Pairs(txq')
                                      \/ a \in Range(wire') /\ b \in Range(txq')
  BY DEF Prec
<1>2. \A a, b : /\ <<a, b>> \in Pairs(wire') => a \in Range(wire') /\ b \in Range(wire')
                /\ <<a, b>> \in Pairs(txq') => a \in Range(txq') /\ b \in Range(txq')
  BY DEF Pairs
<1>3. QED  BY <1>1, <1>2 DEF Under

\* A restart of the device closes the session, and loses a Cancel only with
\* all that was before it.
LEMMA ClearStops ==
  ASSUME HostInv, HostInv', SentOnce, wire' = <<>>, txq' = txq, ~s_active', UNCHANGED <<pc, aborts>>,
         NEW t \in Tasks, Halted(t)
  PROVE  Halted(t)'
<1>1. /\ Under' \subseteq Under
      /\ \A a \in Under \ Under', b \in Under' : <<a, b>> \in Prec
      /\ \A a, b \in Under' : <<a, b>> \in Prec => <<a, b>> \in Prec'
      /\ \A a, b : <<a, b>> \in Prec' => <<a, b>> \in Prec /\ a \in Under' /\ b \in Under'
  <2>1. Range(<<>>) = {} /\ Pairs(<<>>) = {}
    BY PairsEmpty
  <2>2. Under' \subseteq Under /\ \A a, b : <<a, b>> \in Prec' => <<a, b>> \in Prec
    BY <2>1, LoseFacts
  <2>4. QED  BY <2>2, PrecMembers, ClearFacts DEF SentOnce
<1>2. Closed(t) => Closed(t)'
  BY <1>1 DEF Closed
<1>3. ASSUME NEW n \in 1 .. aborts, Stops(n, t), CancelCmd(n) \in Under' PROVE Stops(n, t)'
  BY <1>1, <1>3 DEF Stops
<1>4. ASSUME NEW n \in 1 .. aborts, Stops(n, t), CancelCmd(n) \notin Under' PROVE Closed(t)'
  <2> DEFINE k == CancelCmd(n)
             e == EndCmd(t)
  <2>1. /\ k \in Under \ Under'
        /\ pc[t] \in Waits => \A b \in Opening : <<k, b>> \notin Prec
        /\ e \in Under => \A b \in Opening : <<k, b>> \in Prec => <<b, e>> \notin Prec
    BY <1>4 DEF Stops
  <2> HIDE DEF k, e
  <2>2. pc'[t] \in Waits => Opening \cap Under' = {}
    BY <1>1, <2>1
  <2>3. e \in Under' => \A b \in Opening : <<b, e>> \notin Prec'
    BY <1>1, <2>1
  <2>4. QED  BY <2>2, <2>3 DEF Closed, e
<1>5. QED  BY <1>2, <1>3, <1>4 DEF Halted

\* The device comes to the Cancel before the end.
LEMMA DeviceStops ==
  ASSUME HostInv, HostInv', Order, DeviceStep, NEW t \in Tasks, Stopped(t)
  PROVE  Stopped(t)'
<1> DEFINE h == Head(wire)
           e == EndCmd(t)
<1>1. /\ h \in Commands /\ h \in Under /\ Sent(h) /\ <<h, h>> \notin Prec /\ wire # <<>>
      /\ power = "up" /\ DeviceHandles(h)
      /\ UNCHANGED <<pc, aborts, txq>>
      /\ ReplyTo(h) \/ Restarts(h)
  BY DeviceFacts
<1>2. /\ Under' \subseteq Under /\ h \notin Under'
      /\ \A a, b : <<a, b>> \in Prec' => <<a, b>> \in Prec
      /\ \A c \in Under' : <<h, c>> \in Prec
      /\ \A a, b : <<a, b>> \in Prec' => a \in Under' /\ b \in Under'
  BY HandledFacts, PrecMembers
<1>3. h \in Opening <=> h.name = "fw_update_begin"
  BY <1>1, SentFacts, Fields DEF Opening
<1>4. installer' # t
  <2>1. CASE Restarts(h) /\ h.task = t
    <3>1. h = e /\ s_active
      BY <1>1, <2>1, SentFacts DEF Restarts
    <3>2. Halted(t) /\ ~Closed(t)
      BY <1>1, <3>1 DEF Stopped, Live, Closed
    <3>3. PICK n \in 1 .. aborts : Stops(n, t)
      BY <3>2 DEF Halted
    <3>4. <<CancelCmd(n), h>> \in Prec
      BY <1>1, <3>1, <3>3 DEF Stops
    <3>5. QED  BY <1>1, <3>4, HeadFacts
  <2>2. QED  BY <1>1, <2>1 DEF Stopped, ReplyTo, Restarts
<1>5. SUFFICES ASSUME Live(t)' PROVE Halted(t)'
  BY <1>1, <1>4 DEF Stopped
<1>6. Halted(t) /\ (pc[t] \in Waits \/ e \in Under')
  BY <1>1, <1>2, <1>5 DEF Stopped, Live, Waits
<1>7. CASE Restarts(h)
  <2>1. wire' = <<>> /\ ~s_active'
    BY <1>7 DEF Restarts
  <2>2. QED  BY <1>1, <1>6, <2>1, ClearStops DEF Order
<1>8. CASE ReplyTo(h)
  <2>1. /\ Under = {h} \cup Under'
        /\ \A a, b : <<a, b>> \in Prec <=> <<a, b>> \in Prec' \/ (a = h /\ b \in Under')
        /\ power' = "up"
    BY <1>1, <1>8, TakeFacts DEF ReplyTo
  <2>2. CASE Closed(t)
    <3>1. h \notin Opening
      <4>1. CASE pc[t] \in Waits
        BY <1>1, <2>2, <4>1 DEF Closed
      <4>2. CASE e \in Under'
        BY <1>2, <2>2, <4>2 DEF Closed
      <4>3. QED  BY <1>6, <4>1, <4>2
    <3>2. ~s_active'
      <4>1. ~s_active
        BY <2>2 DEF Closed
      <4>2. QED  BY <1>1, <1>3, <3>1, <4>1, Handled
    <3>3. Closed(t)'
      BY <1>1, <1>2, <2>2, <3>2 DEF Closed
    <3>4. QED  BY <3>3 DEF Halted
  <2>3. CASE \E n \in 1 .. aborts : Stops(n, t)
    <3>1. PICK n \in 1 .. aborts : Stops(n, t)
      BY <2>3
    <3>2. CASE h = CancelCmd(n)
      <4>1. ~s_active'
        BY <1>1, <3>2, Fields, Handled
      <4>2. pc[t] \in Waits => Opening \cap Under' = {}
        BY <1>2, <3>1, <3>2 DEF Stops
      <4>3. e \in Under' => \A b \in Opening : <<b, e>> \notin Prec'
        BY <1>2, <3>1, <3>2 DEF Stops
      <4>4. Closed(t)'
        BY <1>1, <4>1, <4>2, <4>3 DEF Closed
      <4>5. QED  BY <4>4 DEF Halted
    <3>3. CASE h # CancelCmd(n)
      <4>1. Stops(n, t)'
        BY <1>1, <1>2, <2>1, <3>1, <3>3 DEF Stops
      <4>2. QED  BY <1>1, <4>1 DEF Halted
    <3>4. QED  BY <3>2, <3>3
  <2>4. QED  BY <1>6, <2>2, <2>3 DEF Halted
<1>9. QED  BY <1>1, <1>7, <1>8

\* Cancel puts itself behind the begin.
LEMMA CancelStopped ==
  ASSUME HostInv, HostInv', Order, NEW t \in Tasks, UserAbort(t), pc[t] \in {"begin", "chunk"},
         ~spilled'
  PROVE  Stopped(t)'
<1>1. PICK n \in Nat : n = aborts + 1
  BY DEF HostInv
<1>2. /\ TxPut(CancelCmd(n)) /\ pc' = pc /\ installer' = installer /\ wire' = wire /\ aborts' = n
      /\ n \in 1 .. aborts'
  BY <1>1 DEF UserAbort, taskVars, linkVars, HostInv
<1>3. CancelCmd(n) \notin Under
  <2>1. n \notin 1 .. aborts
    BY <1>1 DEF HostInv
  <2>2. QED  BY <2>1, UnsentFacts DEF Order
<1>4. CancelCmd(n) \in Commands /\ \A b \in Opening \cup {EndCmd(t)} : b # CancelCmd(n)
  BY <1>1, QueueFacts, Fields, UpdateAssumption DEF Opening
<1>5. /\ CancelCmd(n) \in Under' /\ Under' \subseteq Under \cup {CancelCmd(n)}
      /\ \A a, b : <<a, b>> \in Prec' => <<a, b>> \in Prec \/ (a \in Under /\ b = CancelCmd(n))
  BY <1>2, <1>4, PutFacts
<1>6. EndCmd(t) \notin Under' /\ installer # t
  <2>1. EndCmd(t) \notin Under
    BY UnsentFacts DEF Order, Ended
  <2>2. QED  BY <1>4, <1>5, <2>1 DEF Order, Ended
<1>7. Stops(n, t)'
  <2>1. \A b \in Opening : <<CancelCmd(n), b>> \notin Prec'
    BY <1>3, <1>4, <1>5, PrecDef
  <2>2. QED  BY <1>5, <1>6, <2>1 DEF Stops
<1>8. QED  BY <1>2, <1>6, <1>7 DEF Stopped, Halted, Waits

\* A command lost is counted, and stays so.
LEMMA StillLossless ==
  ASSUME Cancels, UNext
  PROVE  faults' \in Nat /\ (Lossless' => Lossless /\ ~Fault)
<1>0. faults \in Nat
  BY DEF Cancels
<1>1. ASSUME Fault PROVE faults' \in Nat /\ ~Lossless'
  BY <1>0, <1>1 DEF Fault, Lossless
<1>2. ASSUME ~Fault PROVE faults' = faults
  BY <1>2 DEF UNext, UserStart, UserAbort, TaskStep, LinkSend, LinkConnect, LinkRead, DeviceStep,
     DeviceBoots, LinkUp, LinkDrop, LineLost, DevicePowerLoss, AgentCrash
<1>3. \A c : TxPut(c) => (spilled => spilled')
  BY Zenon DEF TxPut
<1>4. spilled => spilled'
  <2>1. CASE \E t \in Tasks : TaskStep(t)
    <3>1. PICK t \in Tasks : TaskStep(t)
      BY <2>1
    <3>2. UNCHANGED queue \/ \E c : TxPut(c)
      BY <3>1 DEF TaskStep, Downloaded, DownloadFails, BeginAnswered, ChunkAnswered, EndAnswered,
         TimeOut, SendNext
    <3>3. QED  BY <1>3, <3>2 DEF queue
  <2>2. CASE \E t \in Tasks : UserStart(t) \/ UserAbort(t)
    BY <1>3, <2>2 DEF UserStart, Start, UserAbort, queue
  <2>3. CASE ~(\E t \in Tasks : UserStart(t) \/ UserAbort(t) \/ TaskStep(t))
    BY <2>3 DEF UNext, LinkSend, LinkConnect, LinkRead, DeviceStep,
       DeviceBoots, LinkUp, LinkDrop, LineLost, DevicePowerLoss, AgentCrash, hostVars, queue
  <2>4. QED  BY <2>1, <2>2, <2>3
<1>5. QED  BY <1>0, <1>1, <1>2, <1>4 DEF Lossless

\* A step of a task keeps Cancels.
LEMMA TaskCancels ==
  ASSUME HostInv, HostInv', Order, Solo, NEW u \in Tasks, TaskStep(u), ~spilled',
         NEW t \in Tasks, Stopped(t)
  PROVE  Stopped(t)'
<1>1. /\ Announces(u) \/ Proceeds(u) \/ GivesUp(u) \/ Aborts(u) \/ Finishes(u)
      /\ Others(u)
      /\ UNCHANGED <<s_active, s_received, wire, aborts, installer>>
  BY TaskFacts DEF otaAll, otaVars
<1>2. pc[u] \in InFlight /\ aborts <= aborts' /\ pc[t] \in Waits \cup Ended
  BY <1>1 DEF Announces, Proceeds, GivesUp, Aborts, Finishes, Moves, InFlight, HostInv, Stopped
<1>3. t # u => pc'[t] = pc[t] /\ pc[t] \in Ended
  BY <1>1, <1>2 DEF Others, Solo, InFlight, Waits
<1>4. CASE Announces(u)
  <2>1. t # u /\ TxPut(BeginCmd(u)) /\ BeginCmd(u) \notin Under
    <3>1. pc[u] = "download" /\ TxPut(BeginCmd(u))
      BY <1>4 DEF Announces, Moves
    <3>2. QED  BY <1>2, <3>1, UnsentFacts DEF Order, Waits, Ended
  <2>2. /\ BeginCmd(u) # EndCmd(t) /\ BeginCmd(u) \in Commands /\ pc'[t] \notin Waits
        /\ pc'[t] \in Ended
    BY <1>3, <2>1, QueueFacts, Fields DEF Waits, Ended
  <2>3. EndCmd(t) \in Under' => EndCmd(t) \in Under
    BY <1>1, <2>1, <2>2, PutFacts
  <2>4. QED  BY <1>1, <1>2, <1>3, <2>1, <2>2, <2>3, PutStops DEF Live
<1>5. CASE Proceeds(u)
  <2>1. PICK c \in Commands :
          /\ TxPut(c) /\ c \notin Opening /\ (c = EndCmd(t) => t = u)
          /\ c = EndCmd(u) => pc'[u] = "end"
    <3>1. CASE pc'[u] = "chunk"
      <4>1. TxPut(ChunkCmd(u, seq'[u])) /\ seq'[u] < Len(Release[u])
        BY <1>5, <3>1 DEF Proceeds
      <4>2. PICK s \in Nat : s = seq'[u]
        BY DEF HostInv
      <4>3. ChunkCmd(u, s) \in Commands
        BY <4>1, <4>2, QueueFacts
      <4>4. ChunkCmd(u, s).name # "fw_update_begin" /\ ChunkCmd(u, s).name # "fw_update_end"
        BY Fields
      <4>5. QED  BY <4>1, <4>2, <4>3, <4>4, Fields DEF Opening
    <3>2. CASE pc'[u] = "end"
      <4>1. TxPut(EndCmd(u)) /\ EndCmd(u) \in Commands /\ EndCmd(u) \notin Opening
            /\ (EndCmd(u) = EndCmd(t) => t = u)
        BY <1>5, <3>2, QueueFacts, Fields DEF Proceeds, Opening
      <4>2. QED  BY <3>2, <4>1
    <3>3. QED  BY <1>5, <3>1, <3>2 DEF Proceeds
  <2>2. pc[u] \in {"begin", "chunk"} /\ pc'[u] \in {"chunk", "end"}
    BY <1>5 DEF Proceeds
  <2>3. Live(t)' => Live(t)
    <3>1. CASE t = u
      BY <2>2, <3>1 DEF Live
    <3>2. CASE t # u
      BY <1>1, <1>3, <2>1, <3>2, PutFacts DEF Live
    <3>3. QED  BY <3>1, <3>2
  <2>4. pc'[t] \in Waits \cup Ended /\ (pc'[t] \in Waits => pc[t] \in Waits)
        /\ (c = EndCmd(t) => pc[t] \in Waits)
    BY <1>3, <2>1, <2>2 DEF Waits, Ended
  <2>5. QED  BY <1>1, <1>2, <2>1, <2>3, <2>4, PutStops
<1>6. CASE Aborts(u)
  <2>1. pc[u] = "chunk" /\ pc'[u] = "over" /\ TxPut(AbortCmd(u))
    BY <1>6 DEF Aborts, Moves
  <2>2. AbortCmd(u) \in Commands /\ AbortCmd(u) \notin Opening /\ AbortCmd(u) # EndCmd(t)
    BY QueueFacts, Fields DEF Opening
  <2>3. EndCmd(t) \in Under' => EndCmd(t) \in Under
    BY <1>1, <2>1, <2>2, PutFacts
  <2>4. /\ pc'[t] \in Ended /\ pc'[t] \notin Waits /\ pc'[t] \notin {"begin", "chunk"}
    BY <1>3, <2>1 DEF Waits, Ended
  <2>5. Live(t)' => Live(t)
    BY <2>3, <2>4 DEF Live
  <2>6. QED  BY <1>1, <1>2, <2>1, <2>2, <2>4, <2>5, PutStops
<1>7. CASE GivesUp(u) \/ Finishes(u)
  <2>1. pc'[u] = "over" /\ UNCHANGED <<wire, txq>>
    BY <1>1, <1>7 DEF GivesUp, Finishes, Moves, queue
  <2>2. Under' = Under /\ Prec' = Prec
    BY <2>1 DEF Under, Prec
  <2>3. /\ pc'[t] \in Ended /\ pc'[t] \notin Waits /\ pc'[t] \notin {"begin", "chunk"}
    BY <1>3, <2>1 DEF Waits, Ended
  <2>4. QED  BY <1>1, <1>2, <2>2, <2>3, SameStops
<1>8. QED  BY <1>1, <1>4, <1>5, <1>6, <1>7

\* So does one of the user.
LEMMA UserCancels ==
  ASSUME HostInv, HostInv', Order, Solo, NEW u \in Tasks, UserStart(u) \/ UserAbort(u), ~spilled',
         NEW t \in Tasks, Stopped(t)
  PROVE  Stopped(t)'
<1>1. CASE UserStart(u)
  <2>1. Under' = Under /\ Prec' = Prec /\ UNCHANGED <<s_active, installer, aborts>>
    BY <1>1 DEF UserStart, Start, queue, linkVars, histVars, otaAll, otaVars, Under, Prec
  <2>2. pc'[t] = pc[t] /\ pc[t] \in Waits \cup Ended
    BY <1>1 DEF UserStart, Start, HostInv, Stopped, Waits, Ended
  <2>3. aborts <= aborts'
    BY <2>1 DEF HostInv
  <2>4. QED  BY <2>1, <2>2, <2>3, SameStops
<1>2. CASE UserAbort(u)
  <2>1. PICK n \in Nat : n = aborts + 1
    BY DEF HostInv
  <2>2. /\ TxPut(CancelCmd(n)) /\ pc' = pc /\ aborts' = n /\ aborts <= aborts'
        /\ UNCHANGED <<s_active, wire, installer>>
    BY <1>2, <2>1 DEF UserAbort, taskVars, linkVars, otaAll, otaVars, HostInv
  <2>3. /\ CancelCmd(n) \in Commands /\ CancelCmd(n) \notin Opening
        /\ CancelCmd(n) # EndCmd(t)
    BY QueueFacts, Fields, UpdateAssumption DEF Opening
  <2>4. Live(t)' => Live(t)
    BY <2>2, <2>3, PutFacts DEF Live
  <2>5. pc'[t] \in Waits \cup Ended /\ (pc'[t] \in Waits => pc[t] \in Waits)
    BY <2>2 DEF Stopped
  <2>6. QED  BY <2>2, <2>3, <2>4, <2>5, PutStops
<1>3. QED  BY <1>1, <1>2

\* So does one of the link loop.
LEMMA LinkCancels ==
  ASSUME HostInv, HostInv', link # "up" => wire = <<>> /\ ~s_active,
         LinkSend \/ LinkConnect \/ LinkRead \/ LinkUp, NEW t \in Tasks, Stopped(t)
  PROVE  Stopped(t)'
<1>1. /\ UNCHANGED <<s_active, pc, aborts, installer>> /\ aborts <= aborts'
      /\ pc[t] \in Waits \cup Ended
  BY DEF LinkSend, LinkConnect, LinkRead, LinkUp, hostVars, taskVars, histVars, otaAll, otaVars,
     HostInv, Stopped
<1>2. CASE LinkSend /\ link # "up"
  <2>1. wire' = <<>> /\ txq' = <<>> /\ ~s_active'
    BY <1>1, <1>2 DEF LinkSend
  <2>2. Under' = {}
    BY <2>1, PairsEmpty DEF Under
  <2>3. Closed(t)'
    BY <2>1, <2>2 DEF Closed
  <2>4. QED  BY <1>1, <2>3 DEF Stopped, Halted
<1>3. CASE LinkSend /\ link = "up"
  BY <1>1, <1>3, SendFacts, SameStops
<1>4. CASE LinkConnect \/ LinkRead \/ LinkUp
  <2>1. UNCHANGED <<wire, txq>>
    BY <1>4 DEF LinkConnect, LinkRead, LinkUp, hostVars, queue
  <2>2. Under' = Under /\ Prec' = Prec
    BY <2>1 DEF Under, Prec
  <2>3. QED  BY <1>1, <2>2, SameStops
<1>5. QED  BY <1>2, <1>3, <1>4

\* So does the first boot of the new image.
LEMMA BootCancels ==
  ASSUME HostInv, HostInv', SentOnce, SessionOk, DeviceBoots, NEW t \in Tasks, Stopped(t)
  PROVE  Stopped(t)'
<1>1. /\ UNCHANGED <<pc, aborts, installer, txq>> /\ wire' \in {wire, <<>>} /\ aborts <= aborts'
      /\ pc[t] \in Waits \cup Ended
  BY DEF DeviceBoots, hostVars, taskVars, queue, histVars, HostInv, Stopped
<1>2. ~s_active /\ ~s_active'
  BY DEF DeviceBoots, Boot, Bootloader, MarkRunningOk, SetupCrash, otaVars, SessionOk
<1>3. CASE wire' = wire
  <2>1. Under' = Under /\ Prec' = Prec
    BY <1>1, <1>3 DEF Under, Prec
  <2>2. QED  BY <1>1, <1>2, <2>1, SameStops
<1>4. CASE wire' = <<>>
  <2>1. Under' \subseteq Under
    BY <1>1, <1>4, PairsEmpty DEF Under
  <2>2. Live(t)' => Live(t)
    BY <1>1, <2>1 DEF Live
  <2>3. Halted(t) => Halted(t)'
    BY <1>1, <1>2, <1>4, ClearStops
  <2>4. QED  BY <1>1, <2>2, <2>3 DEF Stopped
<1>5. QED  BY <1>1, <1>3, <1>4

\* Every step keeps Cancels.
LEMMA CancelsKept ==
  ASSUME HostInv, HostInv', Order, Solo, SessionOk, Cancels, UNext
  PROVE  Cancels'
<1>1. faults' \in Nat /\ (Lossless' => Lossless /\ ~Fault)
  BY StillLossless
<1>2. SUFFICES ASSUME Lossless'
               PROVE  /\ link' # "up" => wire' = <<>> /\ ~s_active'
                      /\ \A t \in cancelled' : Stopped(t)'
  BY <1>1 DEF Cancels
<1>3. /\ ~spilled' /\ ~Fault
      /\ link # "up" => wire = <<>> /\ ~s_active
      /\ \A t \in cancelled : t \in Tasks /\ Stopped(t)
  BY <1>1, <1>2 DEF Cancels, Lossless, HostInv
<1>4. CASE \E u \in Tasks : UserStart(u) \/ TaskStep(u)
  <2>1. PICK u \in Tasks : UserStart(u) \/ TaskStep(u)
    BY <1>4
  <2>2. UNCHANGED <<link, wire, s_active, cancelled>>
    BY <2>1 DEF UserStart, TaskStep, linkVars, histVars, otaAll, otaVars
  <2>3. QED  BY <1>3, <2>1, <2>2, TaskCancels, UserCancels
<1>5. CASE \E u \in Tasks : UserAbort(u)
  <2>1. PICK u \in Tasks : UserAbort(u)
    BY <1>5
  <2>2. /\ UNCHANGED <<link, wire, s_active>>
        /\ cancelled' = IF pc[u] \in {"begin", "chunk"} THEN cancelled \cup {u} ELSE cancelled
    BY <2>1 DEF UserAbort, linkVars, otaAll, otaVars
  <2>3. QED  BY <1>3, <2>1, <2>2, UserCancels, CancelStopped
<1>6. CASE LinkSend \/ LinkConnect \/ LinkRead \/ LinkUp
  <2>1. /\ s_active' = s_active /\ cancelled' = cancelled
        /\ link' # "up" => link # "up" /\ wire' = wire
    BY <1>6 DEF LinkSend, LinkConnect, LinkRead, LinkUp, hostVars, histVars, otaAll, otaVars
  <2>2. QED  BY <1>3, <1>6, <2>1, LinkCancels
<1>7. CASE DeviceStep
  <2>1. cancelled' = cancelled /\ wire # <<>>
    BY <1>7, DeviceFacts
  <2>2. link' # "up" => wire' = <<>> /\ ~s_active'
    BY <1>3, <1>7, <2>1, DeviceFacts DEF ReplyTo, Restarts
  <2>3. QED  BY <1>3, <1>7, <2>1, <2>2, DeviceStops
<1>8. CASE DeviceBoots
  <2>1. UNCHANGED <<cancelled, link, s_active>> /\ wire' \in {wire, <<>>}
    BY <1>8 DEF DeviceBoots, Boot, Bootloader, MarkRunningOk, SetupCrash, otaVars, histVars
  <2>2. QED  BY <1>3, <1>8, <2>1, BootCancels DEF Order
<1>9. CASE LinkDrop \/ LineLost \/ DevicePowerLoss \/ AgentCrash
  BY <1>3, <1>9 DEF LinkDrop, LineLost, DevicePowerLoss, AgentCrash
<1>10. QED  BY <1>4, <1>5, <1>6, <1>7, <1>8, <1>9 DEF UNext

\* Cancel, pressed while the update is under way, keeps its image from being
\* installed: unless a command is lost.
THEOREM CancelStops == USpec => []CancelStopsStream
<1>1. UInit => Cancels
  BY DEF UInit, Init, Cancels
<1>2. HostStream /\ IInv /\ Cancels /\ [UNext]_uvars => Cancels'
  <2> SUFFICES ASSUME HostStream, IInv, Cancels, [UNext]_uvars PROVE Cancels'
    OBVIOUS
  <2>1. HostInv' /\ HostInv /\ Order /\ Solo /\ SessionOk
    BY HostStreamKept DEF HostStream, IInv
  <2>2. CASE UNCHANGED uvars
    <3>1. UNCHANGED <<faults, spilled, link, wire, txq, s_active, cancelled, installer, pc, aborts>>
      BY <2>2 DEF uvars, otaAll, otaVars, hostVars, taskVars, queue, linkVars, histVars
    <3>2. Under' = Under /\ Prec' = Prec
      BY <3>1 DEF Under, Prec
    <3>3. QED
      BY <3>1, <3>2 DEF Cancels, Lossless, Stopped, Live, Halted, Closed, Stops
  <2>3. CASE UNext
    BY <2>1, <2>3, CancelsKept
  <2>4. QED  BY <2>2, <2>3
<1>3. Cancels /\ HostStream => CancelStopsStream
  BY DEF Cancels, Lossless, Stopped, CancelStopsStream, HostStream, HostInv
<1>4. USpec => [](HostStream /\ IInv)
  BY HostStreams, UpdateDrivesDevice, Invariance, PTL
<1>5. QED  BY <1>1, <1>2, <1>3, <1>4, PTL DEF USpec
=============================================================================
