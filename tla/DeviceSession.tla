---------------------------- MODULE DeviceSession ----------------------------
(***************************************************************************)
(* Which transport drives the device: the BLE callbacks (ble_transport.cpp)*)
(* on the NimBLE host task, and on the main loop the two line readers and  *)
(* the session-ownership gate of apply_line (usb_link.cpp).                *)
(*                                                                         *)
(* The host task has the higher priority on the one core: a callback runs  *)
(* between any two accesses of the main loop to what they share, and the   *)
(* loop never runs inside a callback.  The loop is therefore cut at every  *)
(* such access, a callback is one step.  A BLE line is two writes, its     *)
(* head and its tail with the newline; a USB line arrives whole.           *)
(***************************************************************************)
EXTENDS Naturals, Sequences

CONSTANTS
  Kinds,        \* what a line can say: "hello", "cmd" (answered), "state"
  StreamMax,    \* RX_STREAM_BYTES, in writes
  LineMax,      \* USB_RX_LINE_MAX, in writes
  MaxLines,     \* bound: lines written over each transport
  MaxSessions   \* bound: BLE connections

ASSUME SessionAssumption ==
  /\ Kinds \subseteq {"hello", "cmd", "state"}
  /\ StreamMax \in Nat \ {0}
  /\ LineMax \in Nat \ {0, 1}
  /\ MaxLines \in Nat
  /\ MaxSessions \in Nat

VARIABLES
  connected,    \* s_connected
  authorized,   \* s_authorized
  resetPending, \* s_reset_pending
  stream,       \* s_rx_stream: writes not yet drained
  owner,        \* s_owner
  pc,           \* where the main loop is
  chunk,        \* writes drained and not yet looked at
  line,         \* s_line of the BLE reader
  cur,          \* the frame in apply_line
  usb,          \* lines waiting in the USB receive buffer
  central,      \* the line the BLE host is in the middle of, or None
  written,      \* lines begun so far, by transport
  sessions,     \* BLE connections so far
  applied,      \* history: the last frame applied
  order,        \* history: numbers of the BLE lines applied
  freed,        \* history: the session was unowned since then
  stray         \* history: a USB frame was answered over BLE

shared  == <<connected, authorized, resetPending, stream, owner>>
loopVars == <<pc, chunk, line, cur>>
hosts   == <<usb, central, written, sessions>>
history == <<applied, order, freed, stray>>
vars    == <<shared, loopVars, hosts, history>>

None == [from |-> "none", n |-> 0, kind |-> "none"]
Frames(t) == [from : {t}, n : 1 .. MaxLines, kind : Kinds]
Writes == [of : Frames("ble"), part : {"head", "tail"}]

Init ==
  /\ connected = FALSE /\ authorized = FALSE /\ resetPending = FALSE
  /\ stream = <<>> /\ owner = "none"
  /\ pc = "usb" /\ chunk = <<>> /\ line = <<>> /\ cur = None
  /\ usb = <<>> /\ central = None /\ sessions = 0
  /\ written = [t \in {"usb", "ble"} |-> 0]
  /\ applied = None /\ order = <<>> /\ freed = TRUE /\ stray = FALSE

-----------------------------------------------------------------------------
(* Callbacks of the NimBLE host task                                       *)

OnConnect ==
  /\ ~connected
  /\ sessions < MaxSessions
  /\ connected' = TRUE
  /\ sessions' = sessions + 1
  /\ UNCHANGED <<authorized, resetPending, stream, owner, loopVars, usb,
                 central, written, history>>

\* transport_release(BLE): a compare-and-exchange.
Released == IF owner = "ble" THEN "none" ELSE owner

\* The clean-up of the reader is left to the main loop.
OnDisconnect ==
  /\ connected
  /\ connected' = FALSE
  /\ authorized' = FALSE
  /\ resetPending' = TRUE
  /\ owner' = Released
  /\ freed' = (freed \/ owner' = "none")
  /\ central' = None
  /\ UNCHANGED <<stream, loopVars, usb, written, sessions, applied, order, stray>>

\* The code shown on the screen, or a token minted for an earlier one.
OnAuthWrite ==
  /\ connected
  /\ authorized' = TRUE
  /\ UNCHANGED <<connected, resetPending, stream, owner, loopVars, hosts, history>>

\* xStreamBufferSend(): what does not fit is dropped.
Received(w) == IF Len(stream) < StreamMax THEN Append(stream, w) ELSE stream

OnRxWrite ==
  /\ connected
  /\ IF central = None
       THEN /\ written["ble"] < MaxLines
            /\ written' = [written EXCEPT !["ble"] = @ + 1]
            /\ \E k \in Kinds :
                 central' = [from |-> "ble", n |-> written'["ble"], kind |-> k]
            /\ stream' = Received([of |-> central', part |-> "head"])
       ELSE /\ stream' = Received([of |-> central, part |-> "tail"])
            /\ central' = None
            /\ UNCHANGED written
  /\ UNCHANGED <<connected, authorized, resetPending, owner, loopVars, usb,
                 sessions, history>>

\* A host writes a line to the USB port.
UsbLine ==
  /\ written["usb"] < MaxLines
  /\ written' = [written EXCEPT !["usb"] = @ + 1]
  /\ \E k \in Kinds :
       usb' = Append(usb, [from |-> "usb", n |-> written'["usb"], kind |-> k])
  /\ UNCHANGED <<shared, loopVars, central, sessions, history>>

-----------------------------------------------------------------------------
(* The main loop: the readers                                              *)

\* usb_link_poll(): the next line, or on to the BLE reader.
UsbPoll ==
  /\ pc = "usb"
  /\ IF usb # <<>>
       THEN pc' = "parsed" /\ cur' = Head(usb) /\ usb' = Tail(usb)
       ELSE pc' = "reset" /\ UNCHANGED <<cur, usb>>
  /\ UNCHANGED <<shared, chunk, line, central, written, sessions, history>>

\* The clean-up that onDisconnect asked for: exchange() of the flag, then the
\* reset, which takes with it what has been written meanwhile.
TakeReset ==
  /\ pc = "reset"
  /\ pc' = IF resetPending THEN "wipe" ELSE "drain"
  /\ resetPending' = FALSE
  /\ UNCHANGED <<connected, authorized, stream, owner, chunk, line, cur, hosts, history>>

DeferredReset ==
  /\ pc = "wipe"
  /\ pc' = "drain"
  /\ line' = <<>>
  /\ stream' = <<>>
  /\ UNCHANGED <<connected, authorized, resetPending, owner, chunk, cur, hosts, history>>

Mut_Peeked(k) == stream
\* What a read of k writes leaves in the stream.
Left(k) == SubSeq(stream, k + 1, Len(stream))

\* xStreamBufferReceive(): some of what is there; nothing ends the drain.
Receive ==
  /\ pc = "drain"
  /\ chunk = <<>>
  /\ IF stream = <<>>
       THEN pc' = "usb" /\ UNCHANGED <<chunk, stream>>
       ELSE /\ \E k \in 1 .. Len(stream) :
                 chunk' = SubSeq(stream, 1, k) /\ stream' = Left(k)
            /\ UNCHANGED pc
  /\ UNCHANGED <<connected, authorized, resetPending, owner, line, cur, hosts, history>>

\* A line that gets too long starts again from nothing.
Longer(w) == IF Len(line) < LineMax THEN Append(line, w) ELSE <<>>

\* deserializeJson(): a whole line is its frame, a headless one is refused, and
\* a head that another line's writes follow is that head's frame or refused
\* (what a splice of two lines says, if it parses, is not told apart).
Parses(l) ==
  LET h == Head(l)
  IN  IF h.part = "tail" THEN {None}
      ELSE IF Len(l) >= 2 /\ l[2] = [h EXCEPT !.part = "tail"] THEN {h.of}
      ELSE {None, h.of}

\* The bytes of one write.  At a newline s_authorized decides, and the line
\* starts again whether it was applied or not.
ReadWrite ==
  /\ pc = "drain"
  /\ chunk # <<>>
  /\ chunk' = Tail(chunk)
  /\ LET w == Head(chunk)
         l == Longer(w)
     IN  IF w.part = "tail" /\ l # <<>> /\ authorized
           THEN /\ \E f \in Parses(l) :
                     cur' = f /\ pc' = IF f = None THEN "drain" ELSE "parsed"
                /\ line' = <<>>
           ELSE /\ line' = IF w.part = "tail" THEN <<>> ELSE l
                /\ UNCHANGED <<pc, cur>>
  /\ UNCHANGED <<shared, hosts, history>>

-----------------------------------------------------------------------------
(* The main loop: apply_line                                               *)

\* Back to the reader the frame came from.
Done == pc' = (IF cur.from = "usb" THEN "usb" ELSE "drain") /\ cur' = None

Mut_HelloPasses(o) == IF cur.kind = "hello" THEN "apply" ELSE IF o = "none" THEN "claim" ELSE "compare"
\* A hello claims the session, any frame an unowned one.
Gate(o) == IF cur.kind = "hello" \/ o = "none" THEN "claim" ELSE "compare"

OwnerGate ==
  /\ pc = "parsed"
  /\ pc' = Gate(owner)
  /\ UNCHANGED <<shared, chunk, line, cur, hosts, history>>

Claim ==
  /\ pc = "claim"
  /\ owner' = cur.from
  /\ pc' = "apply"
  /\ UNCHANGED <<connected, authorized, resetPending, stream, chunk, line, cur,
                 hosts, history>>

Mut_AnyOwner(o) == TRUE
Owns(o) == o = cur.from

\* s_owner is read a second time: a frame of another transport is ignored.
Compare ==
  /\ pc = "compare"
  /\ IF Owns(owner) THEN pc' = "apply" /\ UNCHANGED cur ELSE Done
  /\ UNCHANGED <<shared, chunk, line, hosts, history>>

\* transport_emit(): BLE if it owns the session, else the USB port.
ReplyTo == IF owner = "ble" THEN "ble" ELSE "usb"

Apply ==
  /\ pc = "apply"
  /\ applied' = cur
  /\ order' = IF cur.from = "ble" THEN Append(order, cur.n) ELSE order
  /\ freed' = (owner = "none")
  /\ stray' = (stray \/ (cur.from = "usb" /\ cur.kind # "state" /\ ReplyTo = "ble"))
  /\ Done
  /\ UNCHANGED <<shared, chunk, line, hosts>>

-----------------------------------------------------------------------------
Callback == OnConnect \/ OnDisconnect \/ OnAuthWrite \/ OnRxWrite
Loop ==
  \/ UsbPoll \/ TakeReset \/ DeferredReset \/ Receive \/ ReadWrite
  \/ OwnerGate \/ Claim \/ Compare \/ Apply

Next == Callback \/ UsbLine \/ Loop

Spec == Init /\ [][Next]_vars /\ WF_vars(Loop)

-----------------------------------------------------------------------------
\* Every variable has its type; neither buffer outgrows its size.
TypeOK ==
  /\ {connected, authorized, resetPending, freed, stray} \subseteq BOOLEAN
  /\ stream \in Seq(Writes) /\ Len(stream) <= StreamMax
  /\ chunk \in Seq(Writes) /\ Len(chunk) <= StreamMax
  /\ line \in Seq(Writes) /\ Len(line) <= LineMax
  /\ owner \in {"none", "usb", "ble"}
  /\ pc \in {"usb", "reset", "wipe", "drain", "parsed", "claim", "compare", "apply"}
  /\ cur \in {None} \cup Frames("usb") \cup Frames("ble")
  /\ usb \in Seq(Frames("usb"))
  /\ central \in {None} \cup Frames("ble")
  /\ written \in [{"usb", "ble"} -> 0 .. MaxLines]
  /\ sessions \in 0 .. MaxSessions
  /\ order \in Seq(0 .. MaxLines)
  /\ applied \in {None} \cup Frames("usb") \cup Frames("ble")

\* usb_link.cpp: the gate "stops USB and BLE from interleaving": the transport
\* whose frames are applied changes by a hello, or after a release.
OneAtATime ==
  [][applied' # applied /\ applied'.from # applied.from
       => applied'.kind = "hello" \/ freed]_vars

\* transport.h: replies go "back to it": however BLE comes and goes meanwhile, no
\* answer to a USB host leaves over the air.
RepliesGoHome == ~stray

\* Through drops, half lines and resets, BLE lines are applied in the order in
\* which they were sent, none of them twice.
AppliedOnceInOrder ==
  \A i, j \in 1 .. Len(order) : i < j => order[i] < order[j]
=============================================================================
