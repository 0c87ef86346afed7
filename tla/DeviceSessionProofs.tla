------------------------ MODULE DeviceSessionProofs -------------------------
(***************************************************************************)
(* Proofs about DeviceSession, for any buffer sizes, any number of lines   *)
(* and sessions, and any interleaving of the callbacks with the loop.      *)
(***************************************************************************)
EXTENDS DeviceSession, SequenceTheorems, TLAPS

\* apply_line works on a frame of one of the two transports.
FrameInHand ==
  pc \in {"parsed", "claim", "compare", "apply"} =>
    cur \in Frames("usb") \cup Frames("ble")

\* What the gate has established by the time it lets a frame through.  Only the
\* loop takes a session for USB, so a USB frame still owns it; BLE may have been
\* released meanwhile.
GatePassed ==
  /\ pc = "claim" => cur.kind = "hello" \/ freed
  /\ pc = "apply" =>
       /\ owner = cur.from \/ (owner = "none" /\ cur.from = "ble")
       /\ cur.kind = "hello" \/ freed \/ cur.from = applied.from

\* An unowned session has been released since the last frame; as long as it has
\* not, the owner is the transport of the last frame applied.
OwnerApplied ==
  /\ owner = "none" => freed
  /\ ~freed /\ pc # "apply" => owner = applied.from

\* The inductive invariant: neither property says where the loop is in the gate.
IInv == TypeOK /\ FrameInHand /\ GatePassed /\ OwnerApplied /\ RepliesGoHome

-----------------------------------------------------------------------------
\* A write that is taken in leaves a stream of at most StreamMax writes.
LEMMA ReceivedFacts ==
  ASSUME stream \in Seq(Writes), Len(stream) <= StreamMax, NEW w \in Writes
  PROVE  Received(w) \in Seq(Writes) /\ Len(Received(w)) <= StreamMax
<1>1. CASE Len(stream) < StreamMax
  <2>1. Append(stream, w) \in Seq(Writes) /\ Len(Append(stream, w)) = Len(stream) + 1
    BY AppendProperties
  <2> QED
    BY <1>1, <2>1, SessionAssumption DEF Received
<1>2. CASE ~(Len(stream) < StreamMax)
  BY <1>2 DEF Received
<1> QED
  BY <1>1, <1>2

\* So does a write that the line reader takes in.
LEMMA LongerFacts ==
  ASSUME line \in Seq(Writes), Len(line) <= LineMax, NEW w \in Writes
  PROVE  Longer(w) \in Seq(Writes) /\ Len(Longer(w)) <= LineMax
<1>1. CASE Len(line) < LineMax
  <2>1. Append(line, w) \in Seq(Writes) /\ Len(Append(line, w)) = Len(line) + 1
    BY AppendProperties
  <2> QED
    BY <1>1, <2>1, SessionAssumption DEF Longer
<1>2. CASE ~(Len(line) < LineMax)
  BY <1>2, SessionAssumption, EmptySeq DEF Longer
<1> QED
  BY <1>1, <1>2

\* A line that parses is a BLE frame.
LEMMA ParsesFacts ==
  ASSUME NEW l \in Seq(Writes), l # <<>>, NEW f \in Parses(l), f # None
  PROVE  f \in Frames("ble")
<1>1. Head(l) \in Writes
  BY HeadTailProperties
<1>2. Head(l).of \in Frames("ble")
  BY <1>1 DEF Writes
<1> QED
  BY <1>2 DEF Parses

\* No frame is taken for the absence of one.
LEMMA NoneIsNoFrame == None \notin Frames("usb") \cup Frames("ble")
  BY DEF None, Frames

-----------------------------------------------------------------------------
(* Type correctness, one lemma per group of actions                        *)

LEMMA InitType == Init => TypeOK
<1> SUFFICES ASSUME Init PROVE TypeOK
  OBVIOUS
<1>1. <<>> \in Seq(Writes) /\ Len(<<>>) = 0
  OBVIOUS
<1>2. <<>> \in Seq(Frames("usb")) /\ <<>> \in Seq(0 .. MaxLines)
  OBVIOUS
<1>3. 0 \in 0 .. MaxSessions /\ 0 \in 0 .. MaxLines
  BY SessionAssumption
<1>4. written \in [{"usb", "ble"} -> 0 .. MaxLines]
  BY <1>3 DEF Init
<1>5. /\ stream \in Seq(Writes) /\ Len(stream) <= StreamMax
      /\ chunk \in Seq(Writes) /\ Len(chunk) <= StreamMax
      /\ line \in Seq(Writes) /\ Len(line) <= LineMax
  BY <1>1, SessionAssumption DEF Init
<1> QED
  BY <1>2, <1>3, <1>4, <1>5 DEF Init, TypeOK

LEMMA CallbackType == TypeOK /\ (Callback \/ UsbLine) => TypeOK'
<1> SUFFICES ASSUME TypeOK, Callback \/ UsbLine PROVE TypeOK'
  OBVIOUS
<1> USE SessionAssumption DEF shared, loopVars, hosts, history
<1>1. CASE OnConnect
  BY <1>1 DEF TypeOK, OnConnect
<1>2. CASE OnDisconnect
  BY <1>2 DEF TypeOK, OnDisconnect, Released
<1>3. CASE OnAuthWrite
  BY <1>3 DEF TypeOK, OnAuthWrite
<1>4. CASE OnRxWrite
  <2>1. CASE central = None
    <3>1. written' = [written EXCEPT !["ble"] = @ + 1] /\ written["ble"] < MaxLines
      BY <1>4, <2>1 DEF OnRxWrite
    <3>2. written' \in [{"usb", "ble"} -> 0 .. MaxLines] /\ written'["ble"] \in 1 .. MaxLines
      BY <3>1 DEF TypeOK
    <3>3. central' \in Frames("ble")
      BY <1>4, <2>1, <3>2 DEF OnRxWrite, Frames
    <3>4. [of |-> central', part |-> "head"] \in Writes
      BY <3>3 DEF Writes
    <3>5. stream' \in Seq(Writes) /\ Len(stream') <= StreamMax
      BY <1>4, <2>1, <3>4, ReceivedFacts DEF OnRxWrite, TypeOK
    <3> QED
      BY <1>4, <3>2, <3>3, <3>5 DEF TypeOK, OnRxWrite
  <2>2. CASE central # None
    <3>1. [of |-> central, part |-> "tail"] \in Writes
      BY <2>2 DEF Writes, TypeOK
    <3>2. stream' \in Seq(Writes) /\ Len(stream') <= StreamMax
      BY <1>4, <2>2, <3>1, ReceivedFacts DEF OnRxWrite, TypeOK
    <3> QED
      BY <1>4, <2>2, <3>2 DEF TypeOK, OnRxWrite
  <2> QED
    BY <2>1, <2>2
<1>5. CASE UsbLine
  <2>1. written' \in [{"usb", "ble"} -> 0 .. MaxLines] /\ written'["usb"] \in 1 .. MaxLines
    BY <1>5 DEF UsbLine, TypeOK
  <2>2. PICK k \in Kinds :
          usb' = Append(usb, [from |-> "usb", n |-> written'["usb"], kind |-> k])
    BY <1>5 DEF UsbLine
  <2>3. [from |-> "usb", n |-> written'["usb"], kind |-> k] \in Frames("usb")
    BY <2>1 DEF Frames
  <2>4. usb' \in Seq(Frames("usb"))
    BY <2>2, <2>3, AppendProperties DEF TypeOK
  <2> QED
    BY <1>5, <2>1, <2>4 DEF TypeOK, UsbLine
<1> QED
  BY <1>1, <1>2, <1>3, <1>4, <1>5 DEF Callback

LEMMA LoopType == TypeOK /\ FrameInHand /\ Loop => TypeOK'
<1> SUFFICES ASSUME TypeOK, FrameInHand, Loop PROVE TypeOK'
  OBVIOUS
<1> USE SessionAssumption DEF shared, loopVars, hosts, history
<1>1. CASE UsbPoll
  <2>1. CASE usb # <<>>
    <3>1. Head(usb) \in Frames("usb") /\ Tail(usb) \in Seq(Frames("usb"))
      BY <2>1, HeadTailProperties DEF TypeOK
    <3> QED
      BY <1>1, <2>1, <3>1 DEF TypeOK, UsbPoll
  <2>2. CASE usb = <<>>
    BY <1>1, <2>2 DEF TypeOK, UsbPoll
  <2> QED
    BY <2>1, <2>2
<1>2. CASE TakeReset
  BY <1>2 DEF TypeOK, TakeReset
<1>3. CASE DeferredReset
  BY <1>3, EmptySeq DEF TypeOK, DeferredReset
<1>4. CASE Receive
  <2>1. CASE stream = <<>>
    BY <1>4, <2>1 DEF TypeOK, Receive
  <2>2. CASE stream # <<>>
    <3>1. PICK k \in 1 .. Len(stream) :
            chunk' = SubSeq(stream, 1, k) /\ stream' = SubSeq(stream, k + 1, Len(stream))
      BY <1>4, <2>2 DEF Receive, Left
    <3>2. Len(stream) \in Nat /\ \A i \in 1 .. Len(stream) : stream[i] \in Writes
      BY ElementOfSeq, LenProperties DEF TypeOK
    <3>3. chunk' \in Seq(Writes) /\ Len(chunk') = k
      BY <3>1, <3>2, SubSeqProperties DEF TypeOK
    <3>4. stream' \in Seq(Writes) /\ Len(stream') <= Len(stream)
      BY <3>1, <3>2, SubSeqProperties DEF TypeOK
    <3> QED
      BY <1>4, <2>2, <3>2, <3>3, <3>4 DEF TypeOK, Receive
  <2> QED
    BY <2>1, <2>2
<1>5. CASE ReadWrite
  <2> DEFINE w == Head(chunk)
             l == Longer(w)
  <2>1. w \in Writes /\ Tail(chunk) \in Seq(Writes) /\ Len(Tail(chunk)) = Len(chunk) - 1
    BY <1>5, HeadTailProperties DEF ReadWrite, TypeOK
  <2>2. l \in Seq(Writes) /\ Len(l) <= LineMax
    BY <2>1, LongerFacts DEF TypeOK
  <2>3. chunk' \in Seq(Writes) /\ Len(chunk') <= StreamMax
    BY <1>5, <2>1, LenProperties DEF ReadWrite, TypeOK
  <2>4. line' \in Seq(Writes) /\ Len(line') <= LineMax
    <3>1. <<>> \in Seq(Writes) /\ Len(<<>>) <= LineMax
      BY EmptySeq
    <3>2. line' = <<>> \/ line' = l
      BY <1>5 DEF ReadWrite
    <3> QED
      BY <2>2, <3>1, <3>2
  <2>5. /\ cur' \in {None} \cup Frames("usb") \cup Frames("ble")
        /\ pc' \in {"drain", "parsed"}
    BY <1>5, <2>2, ParsesFacts DEF ReadWrite, TypeOK
  <2> HIDE DEF w, l
  <2> QED
    BY <1>5, <2>3, <2>4, <2>5 DEF TypeOK, ReadWrite
<1>6. CASE OwnerGate
  BY <1>6 DEF TypeOK, OwnerGate, Gate
<1>7. CASE Claim
  BY <1>7 DEF TypeOK, Claim, FrameInHand, Frames
<1>8. CASE Compare
  BY <1>8 DEF TypeOK, Compare, Owns, Done
<1>9. CASE Apply
  <2>1. cur.n \in 0 .. MaxLines
    BY <1>9 DEF Apply, FrameInHand, Frames
  <2>2. order' \in Seq(0 .. MaxLines)
    BY <1>9, <2>1, AppendProperties DEF Apply, TypeOK
  <2> QED
    BY <1>9, <2>2 DEF TypeOK, Apply, Done
<1> QED
  BY <1>1, <1>2, <1>3, <1>4, <1>5, <1>6, <1>7, <1>8, <1>9 DEF Loop

-----------------------------------------------------------------------------
(* The rest of the invariant                                               *)

LEMMA FrameStep == TypeOK /\ FrameInHand /\ Next => FrameInHand'
<1> SUFFICES ASSUME TypeOK, FrameInHand, Next PROVE FrameInHand'
  OBVIOUS
<1> USE DEF shared, loopVars, hosts, history
<1>1. CASE Callback \/ UsbLine
  BY <1>1 DEF Callback, OnConnect, OnDisconnect, OnAuthWrite, OnRxWrite, UsbLine, FrameInHand
<1>2. CASE UsbPoll
  BY <1>2, HeadTailProperties DEF TypeOK, UsbPoll, FrameInHand
<1>3. CASE ReadWrite
  <2> DEFINE w == Head(chunk)
             l == Longer(w)
  <2>1. w \in Writes
    BY <1>3, HeadTailProperties DEF ReadWrite, TypeOK
  <2>2. l \in Seq(Writes)
    BY <2>1, LongerFacts DEF TypeOK
  <2>3. CASE w.part = "tail" /\ l # <<>> /\ authorized
    <3>1. PICK f \in Parses(l) : cur' = f /\ pc' = IF f = None THEN "drain" ELSE "parsed"
      BY <1>3, <2>3 DEF ReadWrite
    <3>2. f # None => f \in Frames("ble")
      BY <2>2, <2>3, ParsesFacts
    <3> QED
      BY <3>1, <3>2 DEF FrameInHand
  <2>4. CASE ~(w.part = "tail" /\ l # <<>> /\ authorized)
    BY <1>3, <2>4 DEF ReadWrite, FrameInHand
  <2> QED
    BY <2>3, <2>4
<1>4. CASE Loop /\ ~UsbPoll /\ ~ReadWrite
  BY <1>4 DEF Loop, TakeReset, DeferredReset, Receive, OwnerGate, Gate, Claim, Compare,
              Apply, Done, FrameInHand
<1> QED
  BY <1>1, <1>2, <1>3, <1>4 DEF Next, Loop

LEMMA GateStep ==
  TypeOK /\ FrameInHand /\ GatePassed /\ OwnerApplied /\ RepliesGoHome /\ Next
    => GatePassed' /\ OwnerApplied' /\ RepliesGoHome'
<1> SUFFICES ASSUME TypeOK, FrameInHand, GatePassed, OwnerApplied, RepliesGoHome, Next
             PROVE  GatePassed' /\ OwnerApplied' /\ RepliesGoHome'
  OBVIOUS
<1> USE DEF GatePassed, OwnerApplied, RepliesGoHome, shared, loopVars, hosts, history
<1>1. CASE OnDisconnect
  BY <1>1 DEF OnDisconnect, Released, TypeOK
<1>2. CASE OnConnect \/ OnAuthWrite \/ OnRxWrite \/ UsbLine
  BY <1>2 DEF OnConnect, OnAuthWrite, OnRxWrite, UsbLine
<1>3. CASE UsbPoll \/ TakeReset \/ DeferredReset \/ Receive
  BY <1>3 DEF UsbPoll, TakeReset, DeferredReset, Receive
<1>4. CASE ReadWrite
  <2>1. pc = "drain" /\ pc' \in {"drain", "parsed"}
    BY <1>4 DEF ReadWrite
  <2> QED
    BY <1>4, <2>1 DEF ReadWrite
<1>5. CASE OwnerGate
  BY <1>5 DEF OwnerGate, Gate
<1>6. CASE Claim
  BY <1>6 DEF Claim, FrameInHand, Frames
<1>7. CASE Compare
  BY <1>7 DEF Compare, Owns, Done, FrameInHand, Frames
<1>8. CASE Apply
  BY <1>8 DEF Apply, Done, ReplyTo, FrameInHand, Frames, TypeOK
<1> QED
  BY <1>1, <1>2, <1>3, <1>4, <1>5, <1>6, <1>7, <1>8 DEF Next, Callback, Loop

\* The invariant holds in every reachable state.
THEOREM Invariance == Spec => []IInv
<1>1. Init => IInv
  <2>1. Init => FrameInHand /\ GatePassed /\ OwnerApplied /\ RepliesGoHome
    BY DEF Init, FrameInHand, GatePassed, OwnerApplied, RepliesGoHome
  <2> QED
    BY <2>1, InitType DEF IInv
<1>2. IInv /\ [Next]_vars => IInv'
  <2>1. CASE Next
    BY <2>1, CallbackType, LoopType, FrameStep, GateStep DEF IInv, Next
  <2>2. CASE UNCHANGED vars
    BY <2>2 DEF IInv, TypeOK, FrameInHand, GatePassed, OwnerApplied, RepliesGoHome,
                vars, shared, loopVars, hosts, history
  <2> QED
    BY <2>1, <2>2
<1> QED
  BY <1>1, <1>2, PTL DEF Spec

\* Every variable keeps its type and no buffer outgrows its size, whatever the
\* callbacks do between two steps of the loop.
THEOREM TypeCorrect == Spec => []TypeOK
<1>1. IInv => TypeOK
  BY DEF IInv
<1> QED
  BY <1>1, Invariance, PTL

\* No answer to a USB host leaves over BLE: transport_emit() reads the owner
\* again after the gate, and finds what the gate found.
THEOREM AnswersGoHome == Spec => []RepliesGoHome
<1>1. IInv => RepliesGoHome
  BY DEF IInv
<1> QED
  BY <1>1, Invariance, PTL

\* The transport whose frames are applied changes only by a hello, or after the
\* session was released.
THEOREM NoInterleaving == Spec => OneAtATime
<1> DEFINE Turn == applied' # applied /\ applied'.from # applied.from
                     => applied'.kind = "hello" \/ freed
<1>1. IInv /\ [Next]_vars => [Turn]_vars
  <2> SUFFICES ASSUME IInv, Next PROVE Turn
    OBVIOUS
  <2> USE DEF shared, loopVars, hosts, history
  <2>1. CASE Apply
    BY <2>1 DEF Apply, IInv, GatePassed
  <2>2. CASE Callback \/ UsbLine
    BY <2>2 DEF Callback, OnConnect, OnDisconnect, OnAuthWrite, OnRxWrite, UsbLine
  <2>3. CASE Loop /\ ~Apply
    BY <2>3 DEF Loop, UsbPoll, TakeReset, DeferredReset, Receive, ReadWrite, OwnerGate, Claim,
                Compare
  <2> QED
    BY <2>1, <2>2, <2>3 DEF Next
<1> QED
  BY <1>1, Invariance, PTL DEF Spec, OneAtATime

-----------------------------------------------------------------------------
(* BLE lines are applied once and in order                                 *)

\* The place of a write in what the BLE hosts have sent.
Rank(w) == 2 * w.of.n + (IF w.part = "tail" THEN 1 ELSE 0)

\* The rank of the last write there was.  A host that leaves in the middle of
\* a line will not end it.
Front == 2 * written["ble"] + (IF central = None THEN 1 ELSE 0)

Rising(s)    == \A i, j \in 1 .. Len(s) : i < j => Rank(s[i]) < Rank(s[j])
Before(s, t) == \A i \in 1 .. Len(s), j \in 1 .. Len(t) : Rank(s[i]) < Rank(t[j])
UpTo(s, m)   == \A i \in 1 .. Len(s) : Rank(s[i]) <= m

\* The frames of a list and the one in hand have ended before rank m.
Ended(o, f, m) ==
  /\ \A i \in 1 .. Len(o) : 2 * o[i] + 1 < m
  /\ f.from = "ble" => 2 * f.n + 1 < m

\* From the line over the chunk to the stream the writes rise, up to m.
Pipeline(l, c, s, m) ==
  /\ Rising(l) /\ Rising(c) /\ Rising(s)
  /\ Before(l, c) /\ Before(l, s) /\ Before(c, s)
  /\ UpTo(l, m) /\ UpTo(c, m) /\ UpTo(s, m)

Behind(s, o, f) == \A i \in 1 .. Len(s) : Ended(o, f, Rank(s[i]))

InTurn ==
  /\ AppliedOnceInOrder
  /\ cur.from = "ble" => \A i \in 1 .. Len(order) : order[i] < cur.n
  /\ central # None => central.n = written["ble"]

\* What has been applied, then the frame in hand, is below all that is to come.
OInv ==
  /\ Pipeline(line, chunk, stream, Front)
  /\ Behind(line, order, cur) /\ Behind(chunk, order, cur) /\ Behind(stream, order, cur)
  /\ Ended(order, cur, Front + 1)
  /\ InTurn

LEMMA RankFacts ==
  ASSUME NEW w \in Writes
  PROVE  /\ Rank(w) \in Nat /\ w.of.n \in Nat /\ w.of \in Frames("ble")
         /\ w.part = "head" => Rank(w) = 2 * w.of.n
         /\ w.part = "tail" => Rank(w) = 2 * w.of.n + 1
         /\ w.part \in {"head", "tail"}
<1>1. w.of \in Frames("ble") /\ w.part \in {"head", "tail"}
  BY DEF Writes
<1>2. w.of.n \in Nat
  BY <1>1, SessionAssumption DEF Frames
<1> QED
  BY <1>1, <1>2 DEF Rank

LEMMA WrittenFacts == ASSUME TypeOK PROVE written["ble"] \in Nat /\ Front \in Nat
BY SessionAssumption DEF TypeOK, Front

\* One more write at the end of a sequence.
LEMMA Grows ==
  ASSUME NEW s \in Seq(Writes), NEW w \in Writes, Rising(s), NEW a, a = Append(s, w),
         \A i \in 1 .. Len(s) : Rank(s[i]) < Rank(w)
  PROVE  /\ Rising(a) /\ a \in Seq(Writes) /\ Len(a) \in Nat \ {0} /\ a[Len(a)] = w
         /\ \A i \in 1 .. Len(a) : a[i] = w \/ \E j \in 1 .. Len(s) : a[i] = s[j]
<1>1. /\ a \in Seq(Writes) /\ Len(a) = Len(s) + 1 /\ Len(s) \in Nat
      /\ \A i \in 1 .. Len(s) : a[i] = s[i]
      /\ a[Len(s) + 1] = w
  BY AppendProperties, LenProperties
<1>2. \A i \in 1 .. Len(a) : i \in 1 .. Len(s) \/ i = Len(s) + 1
  BY <1>1
<1>3. Rising(a)
  BY <1>1, <1>2 DEF Rising
<1>4. \A i \in 1 .. Len(a) : a[i] = w \/ \E j \in 1 .. Len(s) : a[i] = s[j]
  BY <1>1, <1>2
<1> QED
  BY <1>1, <1>3, <1>4

LEMMA EndedLater ==
  ASSUME NEW o \in Seq(0 .. MaxLines), NEW f \in {None} \cup Frames("usb") \cup Frames("ble"),
         NEW m \in Nat, NEW n \in Nat, m <= n, Ended(o, f, m)
  PROVE  Ended(o, f, n)
<1>1. \A i \in 1 .. Len(o) : o[i] \in Nat
  BY SessionAssumption
<1>2. f.n \in Nat
  BY SessionAssumption DEF None, Frames
<1> QED
  BY <1>1, <1>2 DEF Ended

\* A new write, of a higher rank than all before it, at the end of the stream.
LEMMA WriteKeeps ==
  ASSUME TypeOK, OInv, NEW w \in Writes, NEW n \in Nat, Front < Rank(w), Rank(w) <= n
  PROVE  /\ Pipeline(line, chunk, Append(stream, w), n)
         /\ Behind(Append(stream, w), order, cur)
         /\ Ended(order, cur, n + 1)
<1>a. PICK a : a = Append(stream, w)
  OBVIOUS
<1>0. /\ line \in Seq(Writes) /\ chunk \in Seq(Writes) /\ stream \in Seq(Writes)
      /\ order \in Seq(0 .. MaxLines) /\ cur \in {None} \cup Frames("usb") \cup Frames("ble")
      /\ Front \in Nat /\ Rank(w) \in Nat
  BY WrittenFacts, RankFacts DEF TypeOK
<1>1. /\ \A i \in 1 .. Len(line) : line[i] \in Writes /\ Rank(line[i]) \in Nat
      /\ \A i \in 1 .. Len(chunk) : chunk[i] \in Writes /\ Rank(chunk[i]) \in Nat
      /\ \A i \in 1 .. Len(stream) : stream[i] \in Writes /\ Rank(stream[i]) \in Nat
  BY <1>0, ElementOfSeq, RankFacts
<1>2. /\ \A i \in 1 .. Len(line) : Rank(line[i]) < Rank(w) /\ Rank(line[i]) <= n
      /\ \A i \in 1 .. Len(chunk) : Rank(chunk[i]) < Rank(w) /\ Rank(chunk[i]) <= n
      /\ \A i \in 1 .. Len(stream) : Rank(stream[i]) < Rank(w) /\ Rank(stream[i]) <= n
  BY <1>0, <1>1 DEF OInv, Pipeline, UpTo
<1>3. /\ Rising(a) /\ a \in Seq(Writes)
      /\ \A i \in 1 .. Len(a) : a[i] = w \/ \E j \in 1 .. Len(stream) : a[i] = stream[j]
  <2>0. stream \in Seq(Writes)
    BY <1>0
  <2>1. Rising(stream) /\ \A i \in 1 .. Len(stream) : Rank(stream[i]) < Rank(w)
    BY <1>2 DEF OInv, Pipeline
  <2> QED
    <3>1. w \in Writes
      OBVIOUS
    <3>2. \A i \in 1 .. Len(stream) : Rank(stream[i]) < Rank(w)
      BY <2>1
    <3>3. Rising(stream)
      BY <2>1
    <3>4. Rising(a)
      BY <1>a, <2>0, <3>1, <3>2, <3>3, Grows
    <3>5. a \in Seq(Writes)
      BY <1>a, <2>0, <3>1, <3>2, <3>3, Grows
    <3>6. \A i \in 1 .. Len(a) : a[i] = w \/ \E j \in 1 .. Len(stream) : a[i] = stream[j]
      BY <1>a, <2>0, <3>1, <3>2, <3>3, Grows
    <3> QED
      BY <3>4, <3>5, <3>6
<1>4. UpTo(a, n) /\ UpTo(line, n) /\ UpTo(chunk, n)
  BY <1>2, <1>3 DEF UpTo
<1>5. Before(line, a) /\ Before(chunk, a)
  BY <1>2, <1>3 DEF Before, OInv, Pipeline
<1>6. Ended(order, cur, Rank(w)) /\ Ended(order, cur, n + 1)
  <2>1. Ended(order, cur, Front + 1) /\ Front + 1 \in Nat /\ n + 1 \in Nat
        /\ Front + 1 <= Rank(w) /\ Front + 1 <= n + 1
    BY <1>0 DEF OInv
  <2> QED
    BY <1>0, <2>1, EndedLater
<1>7. Behind(a, order, cur)
  BY <1>3, <1>6 DEF Behind, OInv
<1> QED
  BY <1>a, <1>3, <1>4, <1>5, <1>6, <1>7 DEF OInv, Pipeline

\* The same when nothing is written, or the stream is full.
LEMMA SkipKeeps ==
  ASSUME TypeOK, OInv, NEW n \in Nat, Front <= n
  PROVE  Pipeline(line, chunk, stream, n) /\ Ended(order, cur, n + 1)
<1>0. /\ line \in Seq(Writes) /\ chunk \in Seq(Writes) /\ stream \in Seq(Writes)
      /\ order \in Seq(0 .. MaxLines) /\ cur \in {None} \cup Frames("usb") \cup Frames("ble")
      /\ Front \in Nat
  BY WrittenFacts DEF TypeOK
<1>1. /\ \A i \in 1 .. Len(line) : Rank(line[i]) \in Nat
      /\ \A i \in 1 .. Len(chunk) : Rank(chunk[i]) \in Nat
      /\ \A i \in 1 .. Len(stream) : Rank(stream[i]) \in Nat
  BY <1>0, ElementOfSeq, RankFacts
<1>2. UpTo(line, n) /\ UpTo(chunk, n) /\ UpTo(stream, n)
  BY <1>0, <1>1 DEF OInv, Pipeline, UpTo
<1>3. Ended(order, cur, n + 1)
  <2>1. Ended(order, cur, Front + 1) /\ Front + 1 \in Nat /\ n + 1 \in Nat
        /\ Front + 1 <= n + 1
    BY <1>0 DEF OInv
  <2> QED
    BY <1>0, <2>1, EndedLater
<1> QED
  BY <1>2, <1>3 DEF OInv, Pipeline

LEMMA OrderWrite == ASSUME TypeOK, OInv, OnRxWrite PROVE OInv'
<1>0. written["ble"] \in Nat /\ Front \in Nat /\ DOMAIN written = {"usb", "ble"}
  BY WrittenFacts DEF TypeOK
<1>1. UNCHANGED <<line, chunk, order, cur>>
  BY DEF OnRxWrite, loopVars, history
<1>2. PICK w \in Writes :
        /\ stream' = Received(w) /\ Front < Rank(w) /\ Rank(w) <= Front' /\ Front' \in Nat
        /\ central' # None => central'.n = written'["ble"]
  <2>1. CASE central = None
    <3>1. written' = [written EXCEPT !["ble"] = @ + 1] /\ written["ble"] < MaxLines
      BY <2>1 DEF OnRxWrite
    <3>2. written'["ble"] = written["ble"] + 1 /\ written'["ble"] \in 1 .. MaxLines
      BY <1>0, <3>1, SessionAssumption
    <3>3. PICK k \in Kinds : central' = [from |-> "ble", n |-> written'["ble"], kind |-> k]
      BY <2>1 DEF OnRxWrite
    <3>4. stream' = Received([of |-> central', part |-> "head"])
      BY <2>1 DEF OnRxWrite
    <3>5. central' \in Frames("ble") /\ central'.n = written["ble"] + 1
      BY <3>2, <3>3 DEF Frames
    <3>6. central' # None
      BY <3>5, NoneIsNoFrame
    <3> DEFINE w == [of |-> central', part |-> "head"]
    <3>7. w \in Writes /\ w.of.n = written["ble"] + 1 /\ w.part = "head"
      BY <3>5 DEF Writes
    <3> HIDE DEF w
    <3>8. Rank(w) = 2 * (written["ble"] + 1)
      BY <3>7, RankFacts
    <3>9. Front = 2 * written["ble"] + 1 /\ Front' = 2 * (written["ble"] + 1)
      BY <1>0, <2>1, <3>2, <3>6 DEF Front
    <3>10. stream' = Received(w)
      BY <3>4 DEF w
    <3> QED
      BY <1>0, <3>2, <3>5, <3>7, <3>8, <3>9, <3>10
  <2>2. CASE central # None
    <3>1. /\ stream' = Received([of |-> central, part |-> "tail"])
          /\ central' = None /\ written' = written
      BY <2>2 DEF OnRxWrite
    <3>2. central \in Frames("ble") /\ central.n = written["ble"]
      BY <2>2 DEF TypeOK, OInv, InTurn
    <3>3. [of |-> central, part |-> "tail"] \in Writes
      BY <3>2 DEF Writes
    <3>4. Rank([of |-> central, part |-> "tail"]) = 2 * written["ble"] + 1
      BY <3>2 DEF Rank
    <3>5. Front = 2 * written["ble"] /\ Front' = 2 * written["ble"] + 1
      BY <1>0, <2>2, <3>1 DEF Front
    <3> QED
      BY <1>0, <3>1, <3>3, <3>4, <3>5
  <2> QED
    BY <2>1, <2>2
<1>3. /\ Pipeline(line, chunk, stream', Front') /\ Behind(stream', order, cur)
      /\ Ended(order, cur, Front' + 1)
  <2>1. CASE stream' = Append(stream, w)
    BY <1>2, <2>1, WriteKeeps
  <2>2. CASE stream' = stream
    <3>1. Rank(w) \in Nat /\ Front <= Front'
      BY <1>0, <1>2, RankFacts
    <3>2. Pipeline(line, chunk, stream, Front') /\ Ended(order, cur, Front' + 1)
      BY <1>2, <3>1, SkipKeeps
    <3> QED
      BY <2>2, <3>2 DEF OInv
  <2> QED
    BY <1>2, <2>1, <2>2 DEF Received
<1>4. InTurn'
  BY <1>1, <1>2 DEF OInv, InTurn, AppliedOnceInOrder
<1> QED
  BY <1>1, <1>3, <1>4 DEF OInv

\* Callbacks and steps that leave the writes where they are.
LEMMA OrderQuiet ==
  ASSUME TypeOK, OInv, UNCHANGED <<line, chunk, stream, order>>, Front' \in Nat, Front <= Front',
         cur' = cur \/ cur'.from # "ble", central' # None => central'.n = written'["ble"]
  PROVE  OInv'
<1>1. /\ Pipeline(line, chunk, stream, Front') /\ Ended(order, cur, Front' + 1)
  BY SkipKeeps
<1>2. \A m : Ended(order, cur, m) => Ended(order, cur', m)
  BY DEF Ended
<1>3. Pipeline(line', chunk', stream', Front') /\ Ended(order', cur', Front' + 1)
  BY <1>1, <1>2
<1>4. Behind(line', order', cur') /\ Behind(chunk', order', cur') /\ Behind(stream', order', cur')
  BY <1>2 DEF OInv, Behind
<1>5. InTurn'
  BY DEF OInv, InTurn, AppliedOnceInOrder
<1> QED
  BY <1>3, <1>4, <1>5 DEF OInv

LEMMA OrderElse ==
  ASSUME TypeOK, FrameInHand, OInv,
         OnConnect \/ OnDisconnect \/ OnAuthWrite \/ UsbLine \/ UsbPoll \/ TakeReset
         \/ OwnerGate \/ Claim \/ Compare \/ UNCHANGED vars
  PROVE  OInv'
<1> USE DEF shared, loopVars, hosts, history, vars
<1>0. written["ble"] \in Nat /\ Front \in Nat /\ DOMAIN written = {"usb", "ble"}
  BY WrittenFacts DEF TypeOK
<1>1. UNCHANGED <<line, chunk, stream, order>>
  BY DEF OnConnect, OnDisconnect, OnAuthWrite, UsbLine, UsbPoll, TakeReset, OwnerGate, Claim,
         Compare, Done
<1>2. written'["ble"] = written["ble"] /\ (central' = central \/ central' = None)
  BY <1>0 DEF OnConnect, OnDisconnect, OnAuthWrite, UsbLine, UsbPoll, TakeReset, OwnerGate, Claim,
         Compare, Done
<1>3. Front' \in Nat /\ Front <= Front'
  BY <1>0, <1>2 DEF Front
<1>4. central' # None => central'.n = written'["ble"]
  BY <1>2 DEF OInv, InTurn
<1>5. cur' = cur \/ cur'.from # "ble"
  <2>1. CASE UsbPoll
    <3>1. usb # <<>> => Head(usb) \in Frames("usb")
      BY HeadTailProperties DEF TypeOK
    <3>2. cur' = cur \/ (usb # <<>> /\ cur' = Head(usb))
      BY <2>1 DEF UsbPoll
    <3> QED
      BY <3>1, <3>2 DEF Frames
  <2>2. CASE Compare
    BY <2>2 DEF Compare, Done, None
  <2>3. CASE UNCHANGED vars \/ OnConnect \/ OnDisconnect \/ OnAuthWrite \/ UsbLine
    BY <2>3 DEF OnConnect, OnDisconnect, OnAuthWrite, UsbLine
  <2>4. CASE TakeReset \/ OwnerGate \/ Claim
    BY <2>4 DEF TakeReset, OwnerGate, Claim
  <2> QED
    BY <2>1, <2>2, <2>3, <2>4
<1> QED
  BY <1>1, <1>3, <1>4, <1>5, OrderQuiet

LEMMA SeqTypes ==
  ASSUME TypeOK
  PROVE  /\ line \in Seq(Writes) /\ chunk \in Seq(Writes) /\ stream \in Seq(Writes)
         /\ order \in Seq(0 .. MaxLines) /\ cur \in {None} \cup Frames("usb") \cup Frames("ble")
         /\ Len(line) \in Nat /\ Len(chunk) \in Nat /\ Len(stream) \in Nat /\ Len(order) \in Nat
         /\ \A i \in 1 .. Len(line) : line[i] \in Writes /\ Rank(line[i]) \in Nat
         /\ \A i \in 1 .. Len(chunk) : chunk[i] \in Writes /\ Rank(chunk[i]) \in Nat
         /\ \A i \in 1 .. Len(stream) : stream[i] \in Writes /\ Rank(stream[i]) \in Nat
         /\ \A i \in 1 .. Len(order) : order[i] \in Nat
<1>1. /\ line \in Seq(Writes) /\ chunk \in Seq(Writes) /\ stream \in Seq(Writes)
      /\ order \in Seq(0 .. MaxLines) /\ cur \in {None} \cup Frames("usb") \cup Frames("ble")
  BY DEF TypeOK
<1>2. \A i \in 1 .. Len(order) : order[i] \in Nat
  BY <1>1, SessionAssumption
<1> QED
  BY <1>1, <1>2, ElementOfSeq, LenProperties, RankFacts

LEMMA NothingIn ==
  ASSUME NEW s, s = <<>>
  PROVE  /\ Rising(s) /\ \A t : Before(s, t) /\ Before(t, s)
         /\ \A m : UpTo(s, m)
         /\ \A o, f : Behind(s, o, f)
<1>1. Len(s) = 0 /\ 1 .. Len(s) = {}
  OBVIOUS
<1> QED
  BY <1>1 DEF Rising, Before, UpTo, Behind

\* The reset takes away the line and what the stream has, the drain has ended.
LEMMA OrderReset == ASSUME TypeOK, OInv, DeferredReset PROVE OInv'
<1>1. /\ UNCHANGED <<chunk, order, cur, central, written>>
      /\ line' = <<>> /\ stream' = <<>>
  BY DEF DeferredReset, hosts, history
<1>2. Front' = Front
  BY <1>1 DEF Front
<1>3. Pipeline(line', chunk', stream', Front')
  BY <1>1, <1>2, NothingIn DEF Pipeline, OInv
<1>4. Behind(line', order', cur') /\ Behind(stream', order', cur') /\ Behind(chunk', order', cur')
  BY <1>1, NothingIn DEF OInv
<1>5. InTurn'
  BY <1>1 DEF InTurn, AppliedOnceInOrder, OInv
<1> QED
  BY <1>1, <1>2, <1>3, <1>4, <1>5 DEF OInv

\* A read takes the first writes of the stream.
LEMMA OrderReceive == ASSUME TypeOK, OInv, Receive PROVE OInv'
<1>1. /\ UNCHANGED <<line, order, cur, central, written>> /\ chunk = <<>>
  BY DEF Receive, hosts, history
<1>2. Front' = Front /\ InTurn'
  BY <1>1 DEF Front, InTurn, AppliedOnceInOrder, OInv
<1>3. CASE UNCHANGED <<chunk, stream>>
  BY <1>1, <1>2, <1>3 DEF OInv
<1>4. CASE ~UNCHANGED <<chunk, stream>>
  <2>1. PICK k \in 1 .. Len(stream) :
          chunk' = SubSeq(stream, 1, k) /\ stream' = SubSeq(stream, k + 1, Len(stream))
    BY <1>4 DEF Receive, Left
  <2>2. k \in Nat /\ k <= Len(stream) /\ Len(stream) \in Nat
    BY SeqTypes
  <2>3. Len(chunk') = k /\ \A i \in 1 .. Len(chunk') : i \in 1 .. Len(stream) /\ chunk'[i] = stream[i]
    BY <2>1, <2>2, SeqTypes, SubSeqProperties
  <2>4. /\ Len(stream') \in Nat
        /\ \A i \in 1 .. Len(stream') : k + i \in 1 .. Len(stream) /\ stream'[i] = stream[k + i]
    BY <2>1, <2>2, SeqTypes, SubSeqProperties
  <2>5. Rising(chunk') /\ Rising(stream') /\ Before(chunk', stream')
    <3>1. \A i, j \in 1 .. Len(stream) : i < j => Rank(stream[i]) < Rank(stream[j])
      BY DEF OInv, Pipeline, Rising
    <3>2. Rising(chunk')
      BY <2>3, <3>1 DEF Rising
    <3>3. Rising(stream')
      <4>1. \A i, j \in 1 .. Len(stream') : i < j => k + i < k + j
        BY <2>2, <2>4
      <4> QED
        BY <2>4, <3>1, <4>1 DEF Rising
    <3>4. Before(chunk', stream')
      <4>1. \A i \in 1 .. Len(chunk'), j \in 1 .. Len(stream') : i < k + j
        BY <2>2, <2>3, <2>4
      <4> QED
        BY <2>3, <2>4, <3>1, <4>1 DEF Before
    <3> QED
      BY <3>2, <3>3, <3>4
  <2>6. Before(line, chunk') /\ Before(line, stream') /\ UpTo(chunk', Front) /\ UpTo(stream', Front)
    <3>1. Before(line, stream) /\ UpTo(stream, Front)
      BY DEF OInv, Pipeline
    <3> QED
      BY <2>3, <2>4, <3>1 DEF Before, UpTo
  <2>7. Behind(chunk', order, cur) /\ Behind(stream', order, cur)
    <3>1. Behind(stream, order, cur)
      BY DEF OInv
    <3> QED
      BY <2>3, <2>4, <3>1 DEF Behind
  <2> QED
    BY <1>1, <1>2, <2>5, <2>6, <2>7 DEF OInv, Pipeline
<1> QED
  BY <1>3, <1>4

\* The frame in hand is next in order.
LEMMA OrderApply == ASSUME TypeOK, FrameInHand, OInv, Apply PROVE OInv'
<1>1. /\ UNCHANGED <<line, chunk, stream, central, written>>
      /\ cur' = None
      /\ order' = IF cur.from = "ble" THEN Append(order, cur.n) ELSE order
  BY DEF Apply, Done, shared, hosts
<1>2. Front' = Front
  BY <1>1 DEF Front
<1>3. cur \in Frames("usb") \cup Frames("ble") /\ cur.n \in Nat /\ cur.n \in 0 .. MaxLines
  BY SessionAssumption DEF Apply, FrameInHand, Frames
<1>4. /\ AppliedOnceInOrder'
      /\ \A m : Ended(order, cur, m) => Ended(order', cur', m)
  <2>1. CASE cur.from # "ble"
    BY <1>1, <2>1 DEF Ended, AppliedOnceInOrder, OInv, InTurn, None
  <2>2. CASE cur.from = "ble"
    <3> DEFINE a == Append(order, cur.n)
    <3>1. Len(a) = Len(order) + 1 /\ a[Len(order) + 1] = cur.n
          /\ \A i \in 1 .. Len(order) : a[i] = order[i]
      BY <1>3, SeqTypes, AppendProperties
    <3> HIDE DEF a
    <3>2. \A i \in 1 .. Len(a) : i \in 1 .. Len(order) \/ i = Len(order) + 1
      BY <3>1, SeqTypes
    <3>3. order' = a /\ \A i \in 1 .. Len(order) : order[i] < cur.n
      BY <1>1, <2>2 DEF a, OInv, InTurn
    <3>4. \A i, j \in 1 .. Len(order) : i < j => order[i] < order[j]
      BY DEF OInv, InTurn, AppliedOnceInOrder
    <3>5. \A i, j \in 1 .. Len(a) : i < j => a[i] < a[j]
      BY <3>1, <3>2, <3>3, <3>4, SeqTypes
    <3>6. \A m : Ended(order, cur, m) => Ended(a, cur', m)
      BY <1>1, <2>2, <3>1, <3>2 DEF Ended, None
    <3> QED
      BY <3>3, <3>5, <3>6 DEF AppliedOnceInOrder
  <2> QED
    BY <2>1, <2>2
<1>5. Behind(line', order', cur') /\ Behind(chunk', order', cur') /\ Behind(stream', order', cur')
  BY <1>1, <1>4 DEF OInv, Behind
<1>6. Ended(order', cur', Front' + 1)
  BY <1>2, <1>4 DEF OInv
<1>7. InTurn'
  BY <1>1, <1>4 DEF OInv, InTurn, None
<1> QED
  BY <1>1, <1>2, <1>5, <1>6, <1>7 DEF OInv

LEMMA OrderInit == ASSUME Init PROVE OInv
<1>1. line = <<>> /\ chunk = <<>> /\ stream = <<>> /\ order = <<>> /\ cur = None
      /\ central = None /\ written["ble"] = 0
  BY DEF Init
<1>2. Len(order) = 0 /\ 1 .. Len(order) = {}
  BY <1>1
<1>3. Pipeline(line, chunk, stream, Front)
  BY <1>1, NothingIn DEF Pipeline
<1>4. Behind(line, order, cur) /\ Behind(chunk, order, cur) /\ Behind(stream, order, cur)
  BY <1>1, NothingIn
<1>5. Ended(order, cur, Front + 1)
  BY <1>1, <1>2 DEF Ended, None
<1>6. InTurn
  BY <1>1, <1>2 DEF InTurn, AppliedOnceInOrder, None
<1> QED
  BY <1>3, <1>4, <1>5, <1>6 DEF OInv

\* The reader takes the first write of the chunk to the line, or applies the
\* line it ends, or drops it.
LEMMA ChunkFacts ==
  ASSUME TypeOK, OInv, chunk # <<>>
  PROVE  /\ Head(chunk) \in Writes /\ Rank(Head(chunk)) \in Nat /\ Head(chunk) = chunk[1]
         /\ Rising(Tail(chunk)) /\ Before(Tail(chunk), stream) /\ UpTo(Tail(chunk), Front)
         /\ Behind(Tail(chunk), order, cur)
         /\ \A i \in 1 .. Len(line) : Rank(line[i]) < Rank(Head(chunk))
         /\ \A i \in 1 .. Len(Tail(chunk)) :
              /\ Tail(chunk)[i] \in Writes /\ Rank(Tail(chunk)[i]) \in Nat
              /\ Rank(Head(chunk)) < Rank(Tail(chunk)[i])
         /\ \A i \in 1 .. Len(stream) : Rank(Head(chunk)) < Rank(stream[i])
         /\ Rank(Head(chunk)) <= Front
         /\ Ended(order, cur, Rank(Head(chunk)))
<1> DEFINE t == Tail(chunk)
<1>1. /\ Head(chunk) = chunk[1] /\ Len(chunk) \in Nat /\ 1 \in 1 .. Len(chunk)
      /\ Len(t) = Len(chunk) - 1
      /\ \A i \in 1 .. Len(t) : t[i] = chunk[i + 1]
  BY SeqTypes, HeadTailProperties
<1> HIDE DEF t
<1>2. \A i \in 1 .. Len(t) : i + 1 \in 1 .. Len(chunk) /\ 1 < i + 1
  BY <1>1
<1>3. Rising(chunk) /\ Before(chunk, stream) /\ Before(line, chunk) /\ UpTo(chunk, Front)
      /\ Behind(chunk, order, cur)
  BY DEF OInv, Pipeline
<1>4. Rising(t)
  <2>1. \A i, j \in 1 .. Len(t) : i < j => i + 1 < j + 1
    BY <1>1
  <2> QED
    BY <1>1, <1>2, <1>3, <2>1 DEF Rising
<1>5. Before(t, stream) /\ UpTo(t, Front)
  BY <1>1, <1>2, <1>3 DEF Before, UpTo
<1>6. Behind(t, order, cur) /\ Ended(order, cur, Rank(Head(chunk)))
  BY <1>1, <1>2, <1>3 DEF Behind
<1>7. /\ \A i \in 1 .. Len(line) : Rank(line[i]) < Rank(Head(chunk))
      /\ \A i \in 1 .. Len(stream) : Rank(Head(chunk)) < Rank(stream[i])
      /\ Rank(Head(chunk)) <= Front
  BY <1>1, <1>3 DEF Before, UpTo
<1>8. \A i \in 1 .. Len(t) : Rank(Head(chunk)) < Rank(t[i])
  BY <1>1, <1>2, <1>3 DEF Rising
<1>9. /\ Head(chunk) \in Writes /\ Rank(Head(chunk)) \in Nat
      /\ \A i \in 1 .. Len(t) : t[i] \in Writes /\ Rank(t[i]) \in Nat
  BY <1>1, <1>2, SeqTypes
<1> QED
  BY <1>1, <1>4, <1>5, <1>6, <1>7, <1>8, <1>9 DEF t

LEMMA LineGrows ==
  ASSUME TypeOK, OInv, chunk # <<>>, NEW l, l = Longer(Head(chunk)), l # <<>>
  PROVE  /\ l = Append(line, Head(chunk)) /\ Rising(l) /\ l \in Seq(Writes)
         /\ Len(l) \in Nat \ {0} /\ l[Len(l)] = Head(chunk)
         /\ \A i \in 1 .. Len(l) :
              l[i] \in Writes /\ Rank(l[i]) \in Nat /\ Rank(l[i]) <= Rank(Head(chunk))
         /\ Behind(l, order, cur)
<1> DEFINE w == Head(chunk)
<1>1. w \in Writes /\ Rank(w) \in Nat /\ Ended(order, cur, Rank(w))
      /\ \A i \in 1 .. Len(line) : Rank(line[i]) < Rank(w)
  BY ChunkFacts
<1>2. l = Append(line, w)
  BY DEF Longer
<1> HIDE DEF w
<1>3. Rising(line) /\ Behind(line, order, cur)
  BY DEF OInv, Pipeline
<1>4. /\ Rising(l) /\ l \in Seq(Writes) /\ l[Len(l)] = w /\ Len(l) \in Nat \ {0}
      /\ \A i \in 1 .. Len(l) : l[i] = w \/ \E j \in 1 .. Len(line) : l[i] = line[j]
  <2>1. line \in Seq(Writes)
    BY SeqTypes
  <2> QED
    BY <1>1, <1>2, <1>3, <2>1, Grows
<1>5. \A i \in 1 .. Len(l) : l[i] \in Writes /\ Rank(l[i]) \in Nat /\ Rank(l[i]) <= Rank(w)
  <2> SUFFICES ASSUME NEW i \in 1 .. Len(l)
               PROVE  l[i] \in Writes /\ Rank(l[i]) \in Nat /\ Rank(l[i]) <= Rank(w)
    OBVIOUS
  <2>1. CASE l[i] = w
    BY <1>1, <2>1
  <2>2. CASE \E j \in 1 .. Len(line) : l[i] = line[j]
    <3>1. PICK j \in 1 .. Len(line) : l[i] = line[j]
      BY <2>2
    <3>2. line[j] \in Writes /\ Rank(line[j]) \in Nat /\ Rank(line[j]) < Rank(w)
      BY <1>1, SeqTypes
    <3> QED
      BY <1>1, <3>1, <3>2
  <2> QED
    BY <1>4, <2>1, <2>2
<1>6. Behind(l, order, cur)
  BY <1>1, <1>3, <1>4 DEF Behind
<1> QED
  BY <1>2, <1>4, <1>5, <1>6 DEF w

\* What a line says began before the write that ends it.
LEMMA ParsedRank ==
  ASSUME NEW l \in Seq(Writes), Len(l) \in Nat \ {0}, Rising(l),
         \A i \in 1 .. Len(l) : l[i] \in Writes /\ Rank(l[i]) \in Nat /\ Rank(l[i]) <= Rank(l[Len(l)]),
         l[Len(l)].part = "tail", NEW f \in Parses(l), f # None
  PROVE  /\ f = l[1].of /\ Rank(l[1]) = 2 * f.n /\ f.n \in Nat /\ f \in Frames("ble")
         /\ 2 * f.n + 1 <= Rank(l[Len(l)])
<1>1. Head(l) = l[1] /\ 1 \in 1 .. Len(l) /\ Len(l) \in 1 .. Len(l)
  OBVIOUS
<1>2. l[1].part = "head" /\ f = l[1].of
  <2> DEFINE h == l[1]
  <2>1. h \in Writes /\ h.part \in {"head", "tail"}
    BY <1>1, RankFacts
  <2>2. Head(l) = h
    BY <1>1
  <2> HIDE DEF h
  <2>3. h.part = "tail" => Parses(l) = {None}
    BY <2>2 DEF Parses
  <2>4. h.part # "tail" => f \in {None, h.of}
    BY <2>2 DEF Parses
  <2> QED
    BY <2>1, <2>3, <2>4 DEF h
<1>3. Rank(l[1]) = 2 * f.n /\ f.n \in Nat /\ f \in Frames("ble")
  BY <1>1, <1>2, RankFacts
<1> DEFINE w == l[Len(l)]
<1>4. w \in Writes /\ Rank(l[1]) <= Rank(w) /\ w.part = "tail"
  BY <1>1
<1> HIDE DEF w
<1>5. Rank(w) = 2 * w.of.n + 1 /\ w.of.n \in Nat
  BY <1>4, RankFacts
<1>6. 2 * f.n + 1 <= Rank(w)
  BY <1>3, <1>4, <1>5
<1> QED
  BY <1>2, <1>3, <1>6 DEF w

LEMMA OrderRead == ASSUME TypeOK, OInv, ReadWrite PROVE OInv'
<1> DEFINE w == Head(chunk)
           l == Longer(w)
<1>0. \A i \in 1 .. Len(stream) : Rank(stream[i]) \in Nat
  BY SeqTypes
<1>1. /\ UNCHANGED <<stream, order, central, written>> /\ chunk # <<>> /\ chunk' = Tail(chunk)
      /\ Front' = Front
  BY DEF ReadWrite, shared, hosts, history, Front
<1>2. /\ Rising(chunk') /\ Before(chunk', stream') /\ UpTo(chunk', Front') /\ Behind(chunk', order, cur)
      /\ Rising(stream') /\ UpTo(stream', Front') /\ Behind(stream', order, cur)
      /\ Ended(order, cur, Front' + 1)
  BY <1>1, ChunkFacts DEF OInv, Pipeline
<1>3. /\ w \in Writes /\ Rank(w) \in Nat /\ Rank(w) <= Front
      /\ \A i \in 1 .. Len(chunk') : chunk'[i] \in Writes /\ Rank(chunk'[i]) \in Nat /\ Rank(w) < Rank(chunk'[i])
      /\ \A i \in 1 .. Len(stream) : Rank(w) < Rank(stream[i])
  BY <1>1, ChunkFacts
<1>4. CASE w.part = "tail" /\ l # <<>> /\ authorized
  <2>1. PICK f \in Parses(l) : cur' = f
    BY <1>4 DEF ReadWrite
  <2>2. line' = <<>>
    BY <1>4 DEF ReadWrite
  <2>3. Pipeline(line', chunk', stream', Front') /\ Behind(line', order', cur')
    BY <1>2, <2>2, NothingIn DEF Pipeline
  <2>4. CASE f = None
    <3>1. cur'.from # "ble"
      BY <2>1, <2>4 DEF None
    <3>2. \A m : Ended(order, cur, m) => Ended(order', cur', m)
      BY <1>1, <3>1 DEF Ended
    <3>3. Behind(chunk', order', cur') /\ Behind(stream', order', cur') /\ Ended(order', cur', Front' + 1)
      BY <1>2, <3>2 DEF Behind
    <3>4. InTurn'
      BY <1>1, <3>1 DEF OInv, InTurn, AppliedOnceInOrder
    <3> QED
      BY <2>3, <3>3, <3>4 DEF OInv
  <2>5. CASE f # None
    <3>1. /\ l \in Seq(Writes) /\ Len(l) \in Nat \ {0} /\ Rising(l) /\ l[Len(l)] = w
          /\ \A i \in 1 .. Len(l) : l[i] \in Writes /\ Rank(l[i]) \in Nat /\ Rank(l[i]) <= Rank(w)
          /\ Behind(l, order, cur)
      BY <1>1, <1>4, LineGrows
    <3> HIDE DEF l, w
    <3>2. /\ Rank(l[1]) = 2 * f.n /\ f.n \in Nat /\ f \in Frames("ble")
          /\ 2 * f.n + 1 <= Rank(w)
      BY <1>4, <2>5, <3>1, ParsedRank
    <3>3. Ended(order, cur, 2 * f.n) /\ 1 \in 1 .. Len(l)
      BY <3>1, <3>2 DEF Behind
    <3>4. \A i \in 1 .. Len(order) : order[i] < f.n
      BY <3>2, <3>3, SeqTypes DEF Ended
    <3>5. \A m \in Nat : Rank(w) < m => Ended(order', cur', m)
      <4> SUFFICES ASSUME NEW m \in Nat, Rank(w) < m PROVE Ended(order, f, m)
        BY <1>1, <2>1
      <4>1. \A i \in 1 .. Len(order) : 2 * order[i] + 1 < m
        <5>1. \A i \in 1 .. Len(order) : order[i] \in Nat
          BY SeqTypes
        <5>2. \A x \in Nat : x < f.n => 2 * x + 1 < m
          BY <1>3, <3>2
        <5> QED
          BY <3>4, <5>1, <5>2
      <4>2. 2 * f.n + 1 < m
        BY <1>3, <3>2
      <4> QED
        BY <4>1, <4>2 DEF Ended
    <3>6. Behind(chunk', order', cur') /\ Behind(stream', order', cur')
      <4>1. \A i \in 1 .. Len(chunk') : Ended(order', cur', Rank(chunk'[i]))
        BY <1>3, <3>5
      <4>2. \A i \in 1 .. Len(stream) : Ended(order', cur', Rank(stream[i]))
        BY <1>0, <1>3, <3>5
      <4> QED
        BY <1>1, <4>1, <4>2 DEF Behind
    <3>7. Ended(order', cur', Front' + 1)
      BY <1>1, <1>3, <3>5, WrittenFacts
    <3>8. InTurn'
      BY <1>1, <2>1, <3>4 DEF OInv, InTurn, AppliedOnceInOrder
    <3> QED
      BY <2>3, <3>6, <3>7, <3>8 DEF OInv
  <2> QED
    BY <2>4, <2>5
<1>5. CASE ~(w.part = "tail" /\ l # <<>> /\ authorized)
  <2>1. cur' = cur /\ (line' = <<>> \/ (line' = l /\ l # <<>>))
    BY <1>5 DEF ReadWrite
  <2>2. CASE line' = <<>>
    <3>1. Pipeline(line', chunk', stream', Front') /\ Behind(line', order', cur')
      BY <1>2, <2>2, NothingIn DEF Pipeline
    <3> QED
      BY <1>1, <1>2, <2>1, <3>1 DEF OInv, InTurn, AppliedOnceInOrder
  <2>3. CASE line' = l /\ l # <<>>
    <3>1. /\ Rising(l) /\ Behind(l, order, cur)
          /\ \A i \in 1 .. Len(l) : Rank(l[i]) \in Nat /\ Rank(l[i]) <= Rank(w)
      BY <1>1, <2>3, LineGrows
    <3> HIDE DEF l, w
    <3>2. Before(l, chunk') /\ Before(l, stream')
      <4>1. \A i \in 1 .. Len(l), j \in 1 .. Len(chunk') : Rank(l[i]) < Rank(chunk'[j])
        BY <1>3, <3>1
      <4>2. \A j \in 1 .. Len(stream) : Rank(stream[j]) \in Nat /\ Rank(w) < Rank(stream[j])
        BY <1>0, <1>3
      <4>3. \A i \in 1 .. Len(l), j \in 1 .. Len(stream) : Rank(l[i]) < Rank(stream[j])
        BY <1>3, <3>1, <4>2
      <4> QED
        BY <1>1, <4>1, <4>3 DEF Before
    <3>3. UpTo(l, Front')
      BY <1>1, <1>3, <3>1, WrittenFacts DEF UpTo
    <3>4. Pipeline(line', chunk', stream', Front')
      BY <1>2, <2>3, <3>1, <3>2, <3>3 DEF Pipeline
    <3> QED
      BY <1>1, <1>2, <2>1, <2>3, <3>1, <3>4 DEF OInv, InTurn, AppliedOnceInOrder
  <2> QED
    BY <2>1, <2>2, <2>3
<1> QED
  BY <1>4, <1>5

\* The invariant IInv with the order of what is on its way.
LEMMA OrderHolds == Spec => []OInv
<1>1. Init => OInv
  BY OrderInit
<1>2. ASSUME IInv, OInv, [Next]_vars PROVE OInv'
  <2>1. TypeOK /\ FrameInHand
    BY <1>2 DEF IInv
  <2>2. CASE OnRxWrite
    BY <1>2, <2>1, <2>2, OrderWrite
  <2>3. CASE DeferredReset
    BY <1>2, <2>1, <2>3, OrderReset
  <2>4. CASE Receive
    BY <1>2, <2>1, <2>4, OrderReceive
  <2>5. CASE ReadWrite
    BY <1>2, <2>1, <2>5, OrderRead
  <2>6. CASE Apply
    BY <1>2, <2>1, <2>6, OrderApply
  <2>7. CASE OnConnect \/ OnDisconnect \/ OnAuthWrite \/ UsbLine \/ UsbPoll \/ TakeReset
             \/ OwnerGate \/ Claim \/ Compare \/ UNCHANGED vars
    BY <1>2, <2>1, <2>7, OrderElse
  <2> QED
    BY <1>2, <2>2, <2>3, <2>4, <2>5, <2>6, <2>7 DEF Next, Callback, Loop
<1> QED
  BY <1>1, <1>2, Invariance, PTL DEF Spec

\* For any buffer sizes, however lines are cut, spliced and lost between two
\* connections, no BLE line is applied twice or before an earlier one.
THEOREM InOrder == Spec => []AppliedOnceInOrder
<1>1. OInv => AppliedOnceInOrder
  BY DEF OInv, InTurn
<1> QED
  BY <1>1, OrderHolds, PTL

=============================================================================
