--------------------------- MODULE AgentBusProofs ----------------------------
(***************************************************************************)
(* For any number of clients, queues of any size and any losses: what a    *)
(* client is told of the link, what the link is given to send, when the    *)
(* push loop is woken and who counts as a watcher.  The invariant adds who *)
(* is subscribed, and that the commands in the queue are new except on a   *)
(* dead link nobody has noticed.                                           *)
(***************************************************************************)
EXTENDS AgentBus, SequenceTheorems, TLAPS

\* A connection is subscribed while it is authenticated, and starts afresh.
Connections ==
  \A c \in Clients :
    /\ conn[c] = "in" <=> c \in subscribed
    /\ conn[c] # "in" => view[c] = "none" /\ ~behind[c]

\* Nothing in the queue is older than the link, a dead one apart.
FreshQueue ==
  /\ alive => phase = "up"
  /\ phase # "up" \/ alive => \A i \in 1 .. Len(txq) : txq[i] = lost

Inv == TypeOK /\ Connections /\ StatusKnown /\ FreshQueue /\ NoMissedWakeup /\ WatchersConnected

-----------------------------------------------------------------------------
(* What a queue tells its reader                                           *)

\* Told(c, m) of the module, for any queue q and what was sent before it, v.
ToldBy(q, v, m) ==
  /\ (\A i \in 1 .. Len(q) : q[i] \notin Status) => v = m
  /\ \A i \in 1 .. Len(q) :
       q[i] \in Status /\ (\A j \in i + 1 .. Len(q) : q[j] \notin Status) => q[i] = m

\* A message of another kind does not change what is told.
LEMMA ToldAppendOther ==
  ASSUME NEW q \in Seq(Messages), NEW v, NEW st, NEW m \in Messages \ Status, ToldBy(q, v, st)
  PROVE  ToldBy(Append(q, m), v, st)
<1> DEFINE r == Append(q, m)
<1>1. /\ Len(q) \in Nat /\ Len(r) = Len(q) + 1 /\ r[Len(q) + 1] = m
      /\ \A i \in 1 .. Len(q) : r[i] = q[i]
  OBVIOUS
<1> HIDE DEF r
<1>2. ASSUME \A i \in 1 .. Len(r) : r[i] \notin Status PROVE v = st
  BY <1>1, <1>2 DEF ToldBy
<1>3. ASSUME NEW i \in 1 .. Len(r), r[i] \in Status, \A j \in i + 1 .. Len(r) : r[j] \notin Status
      PROVE  r[i] = st
  <2>1. i \in 1 .. Len(q)
    BY <1>1, <1>3
  <2>2. \A j \in i + 1 .. Len(q) : q[j] \notin Status
    BY <1>1, <1>3, <2>1
  <2> QED  BY <1>1, <1>3, <2>1, <2>2 DEF ToldBy
<1> QED  BY <1>2, <1>3 DEF ToldBy, r

\* A status at the end is the one that is told.
LEMMA ToldAppendStatus ==
  ASSUME NEW q \in Seq(Messages), NEW v, NEW m \in Status
  PROVE  ToldBy(Append(q, m), v, m)
<1> DEFINE r == Append(q, m)
<1>1. Len(q) \in Nat /\ Len(r) = Len(q) + 1 /\ r[Len(q) + 1] = m
  BY DEF Messages
<1> HIDE DEF r
<1>2. ASSUME NEW i \in 1 .. Len(r), \A j \in i + 1 .. Len(r) : r[j] \notin Status
      PROVE  i = Len(r)
  <2>1. CASE i < Len(r)
    <3>1. Len(r) \in i + 1 .. Len(r)
      BY <1>1, <2>1
    <3> QED  BY <1>1, <1>2, <3>1
  <2> QED  BY <1>1, <2>1
<1>3. Len(r) \in 1 .. Len(r) /\ r[Len(r)] = m
  BY <1>1
<1> QED  BY <1>2, <1>3 DEF ToldBy, r

\* Reading the first message moves it from the queue to what was sent.
LEMMA ToldTail ==
  ASSUME NEW q \in Seq(Messages), q # <<>>, NEW v, NEW st, ToldBy(q, v, st)
  PROVE  ToldBy(Tail(q), IF Head(q) \in Status THEN Head(q) ELSE v, st)
<1> DEFINE r == Tail(q)
<1>1. /\ Len(q) \in Nat /\ Len(r) = Len(q) - 1 /\ Len(q) >= 1 /\ Head(q) = q[1]
      /\ \A i \in 1 .. Len(r) : r[i] = q[i + 1]
  BY HeadTailProperties, EmptySeq
<1> HIDE DEF r
<1>2. ASSUME \A i \in 1 .. Len(r) : r[i] \notin Status
      PROVE  (IF Head(q) \in Status THEN Head(q) ELSE v) = st
  <2>1. \A j \in 2 .. Len(q) : q[j] \notin Status
    <3>1. ASSUME NEW j \in 2 .. Len(q) PROVE q[j] \notin Status
      <4>1. j - 1 \in 1 .. Len(r) /\ r[j - 1] = q[j]
        BY <1>1, <3>1
      <4> QED  BY <1>2, <4>1
    <3> QED  BY <3>1
  <2>2. CASE q[1] \in Status
    BY <1>1, <2>1, <2>2 DEF ToldBy
  <2>3. CASE q[1] \notin Status
    <3>1. \A j \in 1 .. Len(q) : q[j] \notin Status
      BY <1>1, <2>1, <2>3
    <3> QED  BY <1>1, <2>3, <3>1 DEF ToldBy
  <2> QED  BY <2>2, <2>3
<1>3. ASSUME NEW i \in 1 .. Len(r), r[i] \in Status, \A j \in i + 1 .. Len(r) : r[j] \notin Status
      PROVE  r[i] = st
  <2>1. i + 1 \in 1 .. Len(q) /\ r[i] = q[i + 1]
    BY <1>1
  <2>2. ASSUME NEW j \in i + 1 + 1 .. Len(q) PROVE q[j] \notin Status
    <3>1. j - 1 \in i + 1 .. Len(r) /\ r[j - 1] = q[j]
      BY <1>1, <2>2
    <3> QED  BY <1>3, <3>1
  <2> QED  BY <1>3, <2>1, <2>2 DEF ToldBy
<1> QED  BY <1>2, <1>3 DEF ToldBy, r

\* Queues of the right type and size.
Queues(Q) == Q \in [Subscribers -> Seq(Messages)] /\ \A s \in Subscribers : Len(Q[s]) <= QueueSize

\* A message offered to a queue leaves it typed and no longer than it may be.
LEMMA OfferType ==
  ASSUME NEW q \in Seq(Messages), Len(q) <= QueueSize, NEW m \in Messages, NEW raced \in BOOLEAN
  PROVE  Offer(q, m, raced) \in Seq(Messages) /\ Len(Offer(q, m, raced)) <= QueueSize
<1>1. CASE ~Full(q)
  <2>1. Offer(q, m, raced) = Append(q, m)
    BY <1>1 DEF Offer
  <2>2. Append(q, m) \in Seq(Messages) /\ Len(Append(q, m)) = Len(q) + 1 /\ Len(q) \in Nat
    OBVIOUS
  <2> QED  BY <1>1, <2>1, <2>2, BusAssumption DEF Full
<1>2. CASE Full(q)
  <2>1. PICK x \in Messages : Offer(q, m, raced) = Append(Tail(q), x)
    BY <1>2 DEF Offer, Messages
  <2>2. q # <<>> /\ Len(q) \in Nat
    BY <1>2, BusAssumption, EmptySeq DEF Full
  <2>3. Tail(q) \in Seq(Messages) /\ Len(Tail(q)) = Len(q) - 1
    BY <2>2, HeadTailProperties
  <2>4. Append(Tail(q), x) \in Seq(Messages) /\ Len(Append(Tail(q), x)) = Len(Tail(q)) + 1
    BY <2>3
  <2> QED  BY <1>2, <2>1, <2>2, <2>3, <2>4 DEF Full
<1> QED  BY <1>1, <1>2

\* A publication keeps the types, and tells every subscribed client whose queue
\* does not overflow what it told before, or the new status.
LEMMA PublishStep ==
  ASSUME TypeOK, NEW Q, Queues(Q), NEW m \in Messages, Publish(Q, m)
  PROVE  /\ Queues(queue') /\ others' \in 0 .. MaxOthers
         /\ behind' \in [Clients -> BOOLEAN]
         /\ \A c \in Clients : c \notin subscribed => behind'[c] = behind[c]
         /\ \A c \in Clients : \A v, st :
              c \in subscribed /\ ~behind'[c]
                => /\ m \in Status => ToldBy(queue'[c], v, m)
                   /\ m \notin Status /\ (~behind[c] => ToldBy(Q[c], v, st))
                        => ToldBy(queue'[c], v, st)
<1>1. PICK Raced \in {{}} \cup {{s} : s \in {t \in subscribed : Full(Q[t])}} :
        /\ others' = others + (IF m = "other" THEN 1 ELSE 0) + (IF Raced # {} THEN 1 ELSE 0)
        /\ others' <= MaxOthers
        /\ queue' = [s \in Subscribers |->
                       IF s \in subscribed THEN Offer(Q[s], m, s \in Raced) ELSE Q[s]]
        /\ behind' = [c \in Clients |->
                        IF c \in subscribed
                          THEN (behind[c] \/ Full(Q[c])) /\ ~(m \in Status /\ c \notin Raced)
                          ELSE behind[c]]
  BY DEF Publish
<1>2. others' \in 0 .. MaxOthers
  BY <1>1, BusAssumption DEF TypeOK
<1>3. Queues(queue')
  <2>1. \A s \in Subscribers :
          /\ Offer(Q[s], m, s \in Raced) \in Seq(Messages)
          /\ Len(Offer(Q[s], m, s \in Raced)) <= QueueSize
    <3>1. SUFFICES ASSUME NEW s \in Subscribers
                   PROVE  /\ Offer(Q[s], m, s \in Raced) \in Seq(Messages)
                          /\ Len(Offer(Q[s], m, s \in Raced)) <= QueueSize
      OBVIOUS
    <3>2. Q[s] \in Seq(Messages) /\ Len(Q[s]) <= QueueSize /\ (s \in Raced) \in BOOLEAN
      BY DEF Queues
    <3> QED  BY <3>2, OfferType
  <2> QED  BY <1>1, <2>1 DEF Queues
<1>4. behind' \in [Clients -> BOOLEAN]
  BY <1>1 DEF TypeOK
<1>5. \A c \in Clients : c \notin subscribed => behind'[c] = behind[c]
  BY <1>1
<1>6. ASSUME NEW c \in Clients, NEW v, NEW st, c \in subscribed, ~behind'[c]
      PROVE  /\ m \in Status => ToldBy(queue'[c], v, m)
             /\ m \notin Status /\ (~behind[c] => ToldBy(Q[c], v, st)) => ToldBy(queue'[c], v, st)
  <2> DEFINE q == Q[c]
  <2>1. c \in Subscribers /\ q \in Seq(Messages) /\ Len(q) <= QueueSize
    BY DEF Queues, Subscribers
  <2>2. ~((behind[c] \/ Full(q)) /\ ~(m \in Status /\ c \notin Raced))
    BY <1>1, <1>6
  <2>3. queue'[c] = Offer(q, m, c \in Raced)
    BY <1>1, <1>6, <2>1
  <2>4. CASE ~Full(q)
    <3>1. queue'[c] = Append(q, m)
      BY <2>3, <2>4 DEF Offer
    <3>2. m \notin Status => ~behind[c]
      BY <2>2
    <3> HIDE DEF q
    <3>3. m \in Status => ToldBy(Append(q, m), v, m)
      BY <2>1, ToldAppendStatus
    <3>4. m \notin Status /\ ToldBy(q, v, st) => ToldBy(Append(q, m), v, st)
      BY <2>1, ToldAppendOther
    <3> QED  BY <3>1, <3>2, <3>3, <3>4, Zenon DEF q
  <2>5. CASE Full(q)
    <3>1. m \in Status /\ c \notin Raced
      BY <2>2, <2>5
    <3>2. queue'[c] = Append(Tail(q), m)
      BY <2>3, <2>5, <3>1 DEF Offer
    <3>3. q # <<>>
      BY <2>5, BusAssumption, EmptySeq DEF Full
    <3>4. Tail(q) \in Seq(Messages)
      BY <2>1, <3>3, HeadTailProperties
    <3>5. ToldBy(Append(Tail(q), m), v, m)
      BY <3>1, <3>4, ToldAppendStatus
    <3> QED  BY <3>1, <3>2, <3>5, Zenon
  <2> QED  BY <2>4, <2>5
<1> QED  BY <1>2, <1>3, <1>4, <1>5, <1>6

-----------------------------------------------------------------------------
(* The parts of the invariant                                              *)

\* A flip of the activity wakes the push loop, whoever caused it.
LEMMA ActivityStep ==
  ASSUME TypeOK, NoMissedWakeup, NEW d \in BOOLEAN, NEW A \in SUBSET Clients, SetActivity(d, A)
  PROVE  /\ device' \in BOOLEAN /\ active' \in SUBSET Clients /\ changed' \in BOOLEAN
         /\ push' = push => NoMissedWakeup'
<1>1. device' = d /\ active' = A /\ changed' = (changed \/ (d \/ A # {}) # Watched)
  BY DEF SetActivity
<1>2. changed' \in BOOLEAN
  BY <1>1
<1>3. Watched' <=> (d \/ A # {})
  BY <1>1 DEF Watched
<1>4. changed => changed'
  BY <1>1, Zenon
<1>5. Watched \in BOOLEAN /\ (d \/ A # {}) \in BOOLEAN
  BY DEF Watched
<1>6. Watched' /\ ~Watched => changed'
  BY <1>1, <1>3, <1>5, Zenon
<1>7. push' = push => NoMissedWakeup'
  <2>1. SUFFICES ASSUME push' = push, push' = "idle", Watched' PROVE changed'
    BY DEF NoMissedWakeup
  <2>2. Watched => changed
    BY <2>1 DEF NoMissedWakeup
  <2> QED  BY <1>4, <1>6, <2>1, <2>2
<1> QED  BY <1>1, <1>2, <1>7

\* A command is queued with the losses so far, at the cost of the oldest one.
LEMMA TxPutStep ==
  ASSUME TypeOK, FreshQueue, TxPut, UNCHANGED <<phase, alive, lost>>
  PROVE  txq' \in Seq(0 .. MaxLost) /\ Len(txq') <= TxSize /\ FreshQueue'
<1> DEFINE r == IF Len(txq) = TxSize THEN Tail(txq) ELSE txq
<1>1. txq \in Seq(0 .. MaxLost) /\ Len(txq) \in Nat /\ Len(txq) <= TxSize /\ lost \in 0 .. MaxLost
  BY DEF TypeOK
<1>2. /\ r \in Seq(0 .. MaxLost) /\ Len(r) \in Nat /\ Len(r) < TxSize
      /\ \A i \in 1 .. Len(r) : r[i] = txq[i] \/ (i + 1 \in 1 .. Len(txq) /\ r[i] = txq[i + 1])
  <2>1. CASE Len(txq) # TxSize
    BY <1>1, <2>1, BusAssumption
  <2>2. CASE Len(txq) = TxSize
    <3>1. txq # <<>>
      BY <1>1, <2>2, BusAssumption, EmptySeq
    <3>2. /\ Tail(txq) \in Seq(0 .. MaxLost) /\ Len(Tail(txq)) = Len(txq) - 1
          /\ \A i \in 1 .. Len(Tail(txq)) : Tail(txq)[i] = txq[i + 1]
      BY <1>1, <3>1, HeadTailProperties
    <3> QED  BY <1>1, <2>2, <3>2, BusAssumption
  <2> QED  BY <2>1, <2>2
<1>3. Len(r) <= Len(txq)
  <2>1. CASE Len(txq) # TxSize
    BY <2>1, <1>1
  <2>2. CASE Len(txq) = TxSize
    BY <1>1, <1>2, <2>2
  <2> QED  BY <2>1, <2>2
<1>4. txq' = Append(r, lost)
  BY DEF TxPut
<1> HIDE DEF r
<1>5. /\ txq' \in Seq(0 .. MaxLost) /\ Len(txq') = Len(r) + 1 /\ txq'[Len(r) + 1] = lost
      /\ \A i \in 1 .. Len(r) : txq'[i] = r[i]
  BY <1>1, <1>2, <1>4
<1>6. FreshQueue'
  <2>1. alive' => phase' = "up"
    BY DEF FreshQueue
  <2>2. ASSUME phase # "up" \/ alive, NEW i \in 1 .. Len(txq') PROVE txq'[i] = lost
    <3>1. \A j \in 1 .. Len(txq) : txq[j] = lost
      BY <2>2 DEF FreshQueue
    <3>2. CASE i = Len(r) + 1
      BY <1>5, <3>2
    <3>3. CASE i \in 1 .. Len(r)
      BY <1>1, <1>2, <1>3, <1>5, <3>1, <3>3
    <3> QED  BY <1>2, <1>5, <2>2, <3>2, <3>3
  <2> QED  BY <2>1, <2>2 DEF FreshQueue
<1> QED  BY <1>2, <1>5, <1>6, BusAssumption

\* What every step of the bus and its neighbours must show, part by part.
LEMMA Parts ==
  ASSUME Inv, Queues(queue'), Connections', StatusKnown', FreshQueue', NoMissedWakeup',
         WatchersConnected',
         sticky' \in Status \cup {"none"}, subscribed' \in SUBSET Subscribers,
         conn' \in [Clients -> {"out", "in", "closing"}],
         view' \in [Clients -> Status \cup {"none"}], behind' \in [Clients -> BOOLEAN],
         active' \in SUBSET Clients, device' \in BOOLEAN, changed' \in BOOLEAN,
         alive' \in BOOLEAN, plugged' \in BOOLEAN, stopping' \in BOOLEAN,
         push' \in {"gather", "fast", "idle", "done"},
         phase' \in {"connect", "up", "reconnect", "closed"},
         txq' \in Seq(0 .. MaxLost), Len(txq') <= TxSize,
         lost' \in 0 .. MaxLost, others' \in 0 .. MaxOthers,
         ipc' \in {"serving", "waiting", "closing", "stopped"}
  PROVE  Inv'
  BY DEF Inv, TypeOK, Queues

\* StatusKnown as a fact about queues.
LEMMA Known ==
  /\ StatusKnown <=> \A c \in subscribed \ {Link} : ~behind[c] => ToldBy(queue[c], view[c], sticky)
  /\ StatusKnown' <=> \A c \in subscribed' \ {Link} :
                        ~behind'[c] => ToldBy(queue'[c], view'[c], sticky')
  BY DEF StatusKnown, Told, ToldBy

\* A publication that is no status, with the clients' queues as they were.
LEMMA OtherKnown ==
  ASSUME TypeOK, StatusKnown, NEW Q, Queues(Q), NEW m \in Messages \ Status, Publish(Q, m),
         \A c \in Clients : Q[c] = queue[c], UNCHANGED <<sticky, subscribed, view>>
  PROVE  StatusKnown'
<1>1. SUFFICES ASSUME NEW c \in subscribed \ {Link}, ~behind'[c]
               PROVE  ToldBy(queue'[c], view[c], sticky)
  BY Known
<1>2. c \in Clients /\ m \in Messages /\ m \notin Status
  BY DEF TypeOK, Subscribers
<1>3. ~behind[c] => ToldBy(Q[c], view[c], sticky)
  BY <1>1, <1>2, Known
<1>4. \A v, st : (~behind[c] => ToldBy(Q[c], v, st)) => ToldBy(queue'[c], v, st)
  BY <1>1, <1>2, PublishStep, Zenon
<1> QED  BY <1>3, <1>4, Zenon

\* The publication of a new status.
LEMMA NewKnown ==
  ASSUME TypeOK, NEW Q, Queues(Q), NEW m \in Status, PublishStatus(Q, m),
         UNCHANGED <<subscribed, view>>
  PROVE  StatusKnown'
<1>1. SUFFICES ASSUME NEW c \in subscribed \ {Link}, ~behind'[c]
               PROVE  ToldBy(queue'[c], view[c], m)
  BY Known DEF PublishStatus
<1>2. c \in Clients /\ m \in Messages /\ Publish(Q, m)
  BY DEF TypeOK, Subscribers, Messages, PublishStatus
<1> QED  BY <1>1, <1>2, PublishStep, Zenon

\* The connections when only publications happen.
LEMMA ConnectionsStay ==
  ASSUME TypeOK, Connections, NEW Q, Queues(Q), NEW m \in Messages, Publish(Q, m),
         UNCHANGED <<conn, subscribed, view>>
  PROVE  Connections'
<1>1. \A c \in Clients : c \notin subscribed => behind'[c] = behind[c]
  BY PublishStep
<1> QED  BY <1>1 DEF Connections

-----------------------------------------------------------------------------
(* The steps                                                               *)

\* The agent at its start.
LEMMA InitInv == Init => Inv
<1> SUFFICES ASSUME Init PROVE Inv
  OBVIOUS
<1>1. queue \in [Subscribers -> Seq(Messages)] /\ \A s \in Subscribers : Len(queue[s]) = 0
  BY EmptySeq DEF Init
<1>2. txq \in Seq(0 .. MaxLost) /\ Len(txq) = 0
  BY EmptySeq DEF Init
<1>3. Connections /\ StatusKnown /\ WatchersConnected
  BY BusAssumption DEF Init, Connections, StatusKnown, WatchersConnected
<1>4. FreshQueue /\ NoMissedWakeup
  BY <1>2 DEF Init, FreshQueue, NoMissedWakeup
<1>n. /\ lost \in 0 .. MaxLost /\ others \in 0 .. MaxOthers /\ Len(txq) <= TxSize
      /\ \A s \in Subscribers : Len(queue[s]) <= QueueSize
  BY <1>1, <1>2, BusAssumption DEF Init
<1>a. /\ sticky \in Status \cup {"none"} /\ subscribed \subseteq Subscribers
      /\ conn \in [Clients -> {"out", "in", "closing"}]
      /\ view \in [Clients -> Status \cup {"none"}] /\ behind \in [Clients -> BOOLEAN]
      /\ active \subseteq Clients
  BY DEF Init, Subscribers
<1>b. /\ device \in BOOLEAN /\ changed \in BOOLEAN /\ alive \in BOOLEAN
      /\ plugged \in BOOLEAN /\ stopping \in BOOLEAN
      /\ push \in {"gather", "fast", "idle", "done"}
      /\ phase \in {"connect", "up", "reconnect", "closed"}
      /\ ipc \in {"serving", "waiting", "closing", "stopped"}
  BY DEF Init
<1>5. TypeOK
  BY <1>1, <1>2, <1>n, <1>a, <1>b DEF TypeOK
<1> QED  BY <1>3, <1>4, <1>5 DEF Inv

\* A log record, or an event of the device.
LEMMA LogInv == ASSUME Inv, Log PROVE Inv'
<1>1. Publish(queue, "other") /\ UNCHANGED <<sticky, subscribed, view, conn, activity, push, link, shutdown>>
  BY DEF Log
<1>2. Queues(queue) /\ "other" \in Messages \ Status /\ "other" \in Messages
  BY DEF Inv, TypeOK, Queues, Messages, Status
<1>3. Queues(queue') /\ others' \in 0 .. MaxOthers /\ behind' \in [Clients -> BOOLEAN]
  BY <1>1, <1>2, PublishStep DEF Inv
<1>4. StatusKnown'
  BY <1>1, <1>2, OtherKnown DEF Inv
<1>5. Connections'
  BY <1>1, <1>2, ConnectionsStay DEF Inv
<1>6. FreshQueue' /\ NoMissedWakeup' /\ WatchersConnected'
  BY <1>1 DEF Inv, FreshQueue, NoMissedWakeup, WatchersConnected, Watched, activity, link
<1>7. TypeOK'
  BY <1>1, <1>3 DEF Inv, TypeOK, Queues, activity, link, shutdown
<1> QED  BY <1>4, <1>5, <1>6, <1>7 DEF Inv

\* A client authenticates and is told what is kept.
LEMMA HelloInv == ASSUME Inv, NEW c \in Clients, Hello(c) PROVE Inv'
<1>1. /\ conn[c] = "out" /\ conn' = [conn EXCEPT ![c] = "in"] /\ subscribed' = subscribed \cup {c}
      /\ queue' = [queue EXCEPT ![c] = IF sticky = "none" THEN <<>> ELSE <<sticky>>]
      /\ UNCHANGED <<sticky, view, behind, others, activity, push, link, shutdown>>
  BY DEF Hello
<1> DEFINE q == IF sticky = "none" THEN <<>> ELSE <<sticky>>
<1>2. q \in Seq(Messages) /\ Len(q) <= QueueSize /\ c \in Subscribers
  <2>1. CASE sticky = "none"
    <3>1. q = <<>> /\ Len(<<>>) = 0 /\ <<>> \in Seq(Messages)
      BY <2>1, EmptySeq
    <3> QED  BY <3>1, BusAssumption DEF Subscribers
  <2>2. CASE sticky # "none"
    <3>1. q = <<sticky>> /\ sticky \in Messages
      BY <2>2 DEF Inv, TypeOK, Messages
    <3>2. <<sticky>> \in Seq(Messages) /\ Len(<<sticky>>) = 1
      BY <3>1
    <3> QED  BY <3>1, <3>2, BusAssumption DEF Subscribers
  <2> QED  BY <2>1, <2>2
<1>3. view[c] = "none" /\ ~behind[c]
  BY <1>1 DEF Inv, Connections
<1>4. ToldBy(q, "none", sticky)
  <2>1. CASE sticky = "none"
    <3>1. q = <<>> /\ Len(q) = 0
      BY <2>1
    <3> QED  BY <2>1, <3>1 DEF ToldBy
  <2>2. CASE sticky # "none"
    <3>1. Len(q) = 1 /\ q[1] = sticky /\ sticky \in Status
      BY <2>2 DEF Inv, TypeOK
    <3> QED  BY <3>1 DEF ToldBy
  <2> QED  BY <2>1, <2>2
<1> HIDE DEF q
<1>5. queue' = [queue EXCEPT ![c] = q]
  BY <1>1 DEF q
<1>6. Queues(queue')
  BY <1>2, <1>5 DEF Inv, TypeOK, Queues
<1>7. queue'[c] = q /\ \A d \in Clients \ {c} : queue'[d] = queue[d]
  BY <1>2, <1>5 DEF Inv, TypeOK, Subscribers
<1>8. StatusKnown'
  <2>1. SUFFICES ASSUME NEW d \in subscribed' \ {Link}, ~behind'[d]
                 PROVE  ToldBy(queue'[d], view'[d], sticky')
    BY Known
  <2>2. CASE d = c
    BY <1>1, <1>3, <1>4, <1>7, <2>2
  <2>3. CASE d # c
    <3>1. d \in subscribed \ {Link} /\ d \in Clients /\ ~behind[d]
      BY <1>1, <2>1, <2>3 DEF Inv, TypeOK, Subscribers
    <3> QED  BY <1>1, <1>7, <2>3, <3>1, Known DEF Inv
  <2> QED  BY <2>2, <2>3
<1>9. Connections' /\ WatchersConnected' /\ conn' \in [Clients -> {"out", "in", "closing"}]
  BY <1>1 DEF Inv, TypeOK, Connections, WatchersConnected, activity
<1>10. FreshQueue' /\ NoMissedWakeup'
  BY <1>1 DEF Inv, FreshQueue, NoMissedWakeup, Watched, activity, link
<1>11. subscribed' \subseteq Subscribers
  BY <1>1, <1>2 DEF Inv, TypeOK
<1>12. TypeOK'
  BY <1>1, <1>6, <1>9, <1>11 DEF Inv, TypeOK, Queues, activity, link, shutdown
<1> QED  BY <1>8, <1>9, <1>10, <1>12 DEF Inv

\* A client is sent a message.
LEMMA PumpInv == ASSUME Inv, NEW c \in Clients, Pump(c) PROVE Inv'
<1>1. /\ c \in subscribed /\ queue[c] # <<>>
      /\ queue' = [queue EXCEPT ![c] = Tail(@)]
      /\ view' = [view EXCEPT ![c] = IF Head(queue[c]) \in Status THEN Head(queue[c]) ELSE @]
      /\ UNCHANGED <<sticky, subscribed, behind, others, conn, activity, push, link, shutdown>>
  BY DEF Pump
<1> DEFINE q == queue[c]
           v == IF Head(q) \in Status THEN Head(q) ELSE view[c]
<1>2. q \in Seq(Messages) /\ Len(q) <= QueueSize /\ c \in Subscribers /\ q # <<>>
  BY <1>1 DEF Inv, TypeOK, Subscribers
<1>3. Tail(q) \in Seq(Messages) /\ Len(Tail(q)) = Len(q) - 1 /\ Len(q) \in Nat
  BY <1>2, HeadTailProperties
<1>4. v \in Status \cup {"none"}
  BY DEF Inv, TypeOK
<1>5. /\ queue'[c] = Tail(q) /\ \A d \in Clients \ {c} : queue'[d] = queue[d]
      /\ view'[c] = v /\ \A d \in Clients \ {c} : view'[d] = view[d]
  BY <1>1, <1>2 DEF Inv, TypeOK, Subscribers
<1>6. Queues(queue')
  BY <1>1, <1>3, BusAssumption DEF Inv, TypeOK, Queues
<1>7. view' \in [Clients -> Status \cup {"none"}]
  BY <1>1, <1>4 DEF Inv, TypeOK
<1> HIDE DEF q, v
<1>8. StatusKnown'
  <2>1. SUFFICES ASSUME NEW d \in subscribed \ {Link}, ~behind[d]
                 PROVE  ToldBy(queue'[d], view'[d], sticky)
    BY <1>1, Known
  <2>2. ToldBy(queue[d], view[d], sticky) /\ d \in Clients
    BY <2>1, Known DEF Inv, TypeOK, Subscribers
  <2>3. CASE d = c
    <3>1. ToldBy(q, view[c], sticky)
      BY <2>2, <2>3 DEF q
    <3>2. ToldBy(Tail(q), IF Head(q) \in Status THEN Head(q) ELSE view[c], sticky)
      BY <1>2, <3>1, ToldTail
    <3> QED  BY <1>5, <2>3, <3>2 DEF v
  <2>4. CASE d # c
    BY <1>5, <2>2, <2>4
  <2> QED  BY <2>3, <2>4
<1>9. Connections'
  BY <1>1, <1>5 DEF Inv, Connections
<1>10. FreshQueue' /\ NoMissedWakeup' /\ WatchersConnected'
  BY <1>1 DEF Inv, FreshQueue, NoMissedWakeup, WatchersConnected, Watched, activity, link
<1>11. TypeOK'
  BY <1>1, <1>6, <1>7 DEF Inv, TypeOK, Queues, activity, link, shutdown
<1> QED  BY <1>8, <1>9, <1>10, <1>11 DEF Inv

\* A client's window is shown or hidden.
LEMMA ClientSetActiveInv ==
  ASSUME Inv, NEW c \in Clients, NEW on \in BOOLEAN, ClientSetActive(c, on)
  PROVE  Inv'
<1> DEFINE A == IF on THEN active \cup {c} ELSE active \ {c}
<1>1. conn[c] = "in" /\ SetActivity(device, A) /\ UNCHANGED <<bus, conn, push, link, shutdown>>
  BY DEF ClientSetActive
<1>2. A \in SUBSET Clients /\ A \subseteq active \cup {c} /\ device \in BOOLEAN
  BY DEF Inv, TypeOK
<1> HIDE DEF A
<1>3. device' \in BOOLEAN /\ active' \in SUBSET Clients /\ changed' \in BOOLEAN /\ NoMissedWakeup'
  BY <1>1, <1>2, ActivityStep, Zenon DEF Inv
<1>4. active' = A
  BY <1>1 DEF SetActivity
<1>5. WatchersConnected'
  BY <1>1, <1>2, <1>4 DEF Inv, WatchersConnected
<1>6. Connections' /\ StatusKnown' /\ FreshQueue'
  BY <1>1 DEF Inv, Connections, StatusKnown, Told, FreshQueue, bus, link
<1>7. TypeOK'
  BY <1>1, <1>3 DEF Inv, TypeOK, bus, link, shutdown
<1> QED  BY <1>3, <1>5, <1>6, <1>7 DEF Inv

\* A client gives a command.
LEMMA CommandInv == ASSUME Inv, NEW c \in Clients, Command(c) PROVE Inv'
<1>1. TxPut /\ UNCHANGED <<bus, conn, activity, push, phase, alive, plugged, lost, shutdown>>
  BY DEF Command
<1>2. txq' \in Seq(0 .. MaxLost) /\ Len(txq') <= TxSize /\ FreshQueue'
  BY <1>1, TxPutStep DEF Inv
<1>3. Connections' /\ StatusKnown' /\ NoMissedWakeup' /\ WatchersConnected'
  BY <1>1 DEF Inv, Connections, StatusKnown, Told, NoMissedWakeup, Watched, WatchersConnected,
              bus, activity
<1>4. TypeOK'
  BY <1>1, <1>2 DEF Inv, TypeOK, bus, activity, shutdown
<1> QED  BY <1>2, <1>3, <1>4 DEF Inv

\* A client's connection ends.
LEMMA LeaveInv == ASSUME Inv, NEW c \in Clients, Leave(c) PROVE Inv'
<1>1. /\ conn[c] = "in" /\ conn' = [conn EXCEPT ![c] = "closing"] /\ subscribed' = subscribed \ {c}
      /\ queue' = [queue EXCEPT ![c] = <<>>]
      /\ view' = [view EXCEPT ![c] = "none"] /\ behind' = [behind EXCEPT ![c] = FALSE]
      /\ UNCHANGED <<sticky, others, activity, push, link, shutdown>>
  BY DEF Leave
<1>e. <<>> \in Seq(Messages) /\ Len(<<>>) = 0 /\ 0 <= QueueSize
  BY EmptySeq, BusAssumption
<1>2. Queues(queue')
  <2> DEFINE e == <<>>
  <2>1. e \in Seq(Messages) /\ Len(e) <= QueueSize /\ queue' = [queue EXCEPT ![c] = e]
    BY <1>1, <1>e
  <2> HIDE DEF e
  <2> QED  BY <2>1 DEF Inv, TypeOK, Queues
<1>3. \A d \in Clients \ {c} : queue'[d] = queue[d] /\ view'[d] = view[d] /\ behind'[d] = behind[d]
  BY <1>1 DEF Inv, TypeOK, Subscribers
<1>4. StatusKnown'
  <2>1. SUFFICES ASSUME NEW d \in subscribed' \ {Link}, ~behind'[d]
                 PROVE  ToldBy(queue'[d], view'[d], sticky')
    BY Known
  <2>2. d \in Clients \ {c} /\ d \in subscribed \ {Link} /\ sticky' = sticky
    BY <1>1, <2>1 DEF Inv, TypeOK, Subscribers
  <2>3. ~behind[d]
    BY <1>3, <2>1, <2>2
  <2> QED  BY <1>3, <2>2, <2>3, Known DEF Inv
<1>5. Connections' /\ WatchersConnected'
  BY <1>1 DEF Inv, TypeOK, Connections, WatchersConnected, activity
<1>6. FreshQueue' /\ NoMissedWakeup'
  BY <1>1 DEF Inv, FreshQueue, NoMissedWakeup, Watched, activity, link
<1>7. /\ conn' \in [Clients -> {"out", "in", "closing"}] /\ view' \in [Clients -> Status \cup {"none"}]
      /\ behind' \in [Clients -> BOOLEAN] /\ subscribed' \subseteq Subscribers
  BY <1>1 DEF Inv, TypeOK
<1>8. TypeOK'
  BY <1>1, <1>2, <1>7 DEF Inv, TypeOK, Queues, activity, link, shutdown
<1> QED  BY <1>4, <1>5, <1>6, <1>8 DEF Inv

\* The tracker is told.
LEMMA GoneInv == ASSUME Inv, NEW c \in Clients, Gone(c) PROVE Inv'
<1> DEFINE A == active \ {c}
<1>1. /\ conn[c] = "closing" /\ conn' = [conn EXCEPT ![c] = "out"]
      /\ SetActivity(device, A) /\ UNCHANGED <<bus, push, link, shutdown>>
  BY DEF Gone
<1>2. A \in SUBSET Clients /\ device \in BOOLEAN
  BY DEF Inv, TypeOK
<1>4. active' = active \ {c}
  BY <1>1 DEF SetActivity
<1> HIDE DEF A
<1>3. device' \in BOOLEAN /\ active' \in SUBSET Clients /\ changed' \in BOOLEAN /\ NoMissedWakeup'
  BY <1>1, <1>2, ActivityStep, Zenon DEF Inv
<1>5. WatchersConnected' /\ Connections' /\ conn' \in [Clients -> {"out", "in", "closing"}]
  BY <1>1, <1>4 DEF Inv, TypeOK, WatchersConnected, Connections, bus
<1>6. StatusKnown' /\ FreshQueue'
  BY <1>1 DEF Inv, StatusKnown, Told, FreshQueue, bus, link
<1>7. TypeOK'
  BY <1>1, <1>3, <1>5 DEF Inv, TypeOK, bus, link, shutdown
<1> QED  BY <1>3, <1>5, <1>6, <1>7 DEF Inv

\* The push loop publishes a state.
LEMMA PushStateInv == ASSUME Inv, PushState PROVE Inv'
<1>1. /\ push = "gather" /\ (TxPut \/ UNCHANGED txq) /\ Publish(queue, "state")
      /\ push' = (IF Watched THEN "fast" ELSE "idle") /\ changed' = FALSE
      /\ UNCHANGED <<sticky, subscribed, view, conn, active, device, phase, alive, plugged,
                     lost, shutdown>>
  BY DEF PushState
<1>2. Queues(queue) /\ "state" \in Messages \ Status /\ "state" \in Messages
  BY DEF Inv, TypeOK, Queues, Messages, Status
<1>3. Queues(queue') /\ others' \in 0 .. MaxOthers /\ behind' \in [Clients -> BOOLEAN]
  BY <1>1, <1>2, PublishStep DEF Inv
<1>4. StatusKnown'
  BY <1>1, <1>2, OtherKnown DEF Inv
<1>5. Connections'
  BY <1>1, <1>2, ConnectionsStay DEF Inv
<1>6. txq' \in Seq(0 .. MaxLost) /\ Len(txq') <= TxSize /\ FreshQueue'
  <2>1. CASE TxPut
    BY <1>1, <2>1, TxPutStep DEF Inv
  <2>2. CASE UNCHANGED txq
    BY <1>1, <2>2 DEF Inv, TypeOK, FreshQueue
  <2> QED  BY <1>1, <2>1, <2>2
<1>7. Watched' <=> Watched
  BY <1>1 DEF Watched
<1>8. NoMissedWakeup' /\ push' \in {"gather", "fast", "idle", "done"}
  BY <1>1, <1>7 DEF NoMissedWakeup
<1>9. WatchersConnected'
  BY <1>1 DEF Inv, WatchersConnected
<1>10. TypeOK'
  BY <1>1, <1>3, <1>6, <1>8 DEF Inv, TypeOK, Queues, shutdown
<1> QED  BY <1>4, <1>5, <1>6, <1>8, <1>9, <1>10 DEF Inv

\* It wakes.
LEMMA PushWakesInv == ASSUME Inv, PushWakes PROVE Inv'
<1>1. push' \in {"gather", "done"} /\ UNCHANGED <<bus, conn, activity, link, shutdown>>
  BY DEF PushWakes
<1>2. Connections' /\ StatusKnown' /\ FreshQueue' /\ WatchersConnected' /\ NoMissedWakeup'
  BY <1>1 DEF Inv, Connections, StatusKnown, Told, FreshQueue, WatchersConnected, NoMissedWakeup,
              bus, activity, link
<1>3. TypeOK'
  BY <1>1 DEF Inv, TypeOK, bus, activity, link, shutdown
<1> QED  BY <1>2, <1>3 DEF Inv

\* What a turn of the link leaves in the queues.
LEMMA RestType ==
  ASSUME TypeOK, NEW m \in Pulled
  PROVE  Queues(Rest(m)) /\ \A c \in Clients : Rest(m)[c] = queue[c]
<1>1. CASE m = "none"
  BY <1>1 DEF Rest, TypeOK, Queues
<1>2. CASE m # "none"
  <2>1. queue[Link] # <<>> /\ queue[Link] \in Seq(Messages) /\ Link \in Subscribers
    BY <1>2 DEF Pulled, TypeOK, Subscribers
  <2> DEFINE t == Tail(queue[Link])
  <2>2. t \in Seq(Messages) /\ Len(t) = Len(queue[Link]) - 1 /\ Len(queue[Link]) \in Nat
    BY <2>1, HeadTailProperties
  <2>3. Rest(m) = [queue EXCEPT ![Link] = t]
    BY <1>2 DEF Rest
  <2>4. t \in Seq(Messages) /\ Len(t) <= QueueSize
    BY <2>1, <2>2, BusAssumption DEF TypeOK
  <2> HIDE DEF t
  <2>5. Queues(Rest(m))
    BY <2>3, <2>4 DEF TypeOK, Queues
  <2>6. \A c \in Clients : Rest(m)[c] = queue[c]
    BY <2>3, BusAssumption DEF TypeOK, Subscribers
  <2> QED  BY <2>5, <2>6
<1> QED  BY <1>1, <1>2

\* The link comes up.
LEMMA LinkUpInv == ASSUME Inv, LinkUp PROVE Inv'
<1>1. /\ phase \in {"connect", "reconnect"} /\ phase' = "up" /\ alive' = TRUE
      /\ SetActivity(TRUE, active) /\ PublishStatus(queue, "up")
      /\ UNCHANGED <<subscribed, view, conn, push, plugged, txq, lost, shutdown>>
  BY DEF LinkUp, Connecting
<1>2. Queues(queue) /\ "up" \in Status /\ "up" \in Messages
  BY DEF Inv, TypeOK, Queues, Messages, Status
<1>3. Publish(queue, "up") /\ sticky' = "up"
  BY <1>1 DEF PublishStatus
<1>4. Queues(queue') /\ others' \in 0 .. MaxOthers /\ behind' \in [Clients -> BOOLEAN]
  BY <1>2, <1>3, PublishStep DEF Inv
<1>5. StatusKnown'
  BY <1>1, <1>2, NewKnown DEF Inv
<1>6. Connections'
  BY <1>1, <1>2, <1>3, ConnectionsStay DEF Inv
<1>7. device' \in BOOLEAN /\ active' \in SUBSET Clients /\ changed' \in BOOLEAN /\ NoMissedWakeup'
  <2>1. TRUE \in BOOLEAN /\ active \in SUBSET Clients
    BY DEF Inv, TypeOK
  <2> QED  BY <1>1, <2>1, ActivityStep, Zenon DEF Inv
<1>8. WatchersConnected'
  BY <1>1 DEF Inv, WatchersConnected, SetActivity
<1>9. FreshQueue'
  BY <1>1 DEF Inv, FreshQueue
<1>10. TypeOK'
  BY <1>1, <1>2, <1>3, <1>4, <1>7 DEF Inv, TypeOK, Queues, shutdown
<1> QED  BY <1>5, <1>6, <1>7, <1>8, <1>9, <1>10 DEF Inv

\* A turn on a link that works.
LEMMA LinkTurnInv == ASSUME Inv, LinkTurn PROVE Inv'
<1>1. /\ txq' = <<>>
      /\ UNCHANGED <<sticky, subscribed, view, conn, activity, push, phase, alive, plugged,
                     lost, shutdown>>
  BY DEF LinkTurn
<1>2. PICK m \in Pulled :
        \/ Publish(Rest(m), "other")
        \/ queue' = Rest(m) /\ UNCHANGED <<behind, others>>
  BY DEF LinkTurn
<1>3. Queues(Rest(m)) /\ \A c \in Clients : Rest(m)[c] = queue[c]
  BY RestType DEF Inv
<1>4. "other" \in Messages \ Status /\ "other" \in Messages
  BY DEF Messages, Status
<1>5. /\ Queues(queue') /\ others' \in 0 .. MaxOthers /\ behind' \in [Clients -> BOOLEAN]
      /\ StatusKnown' /\ Connections'
  <2>1. CASE Publish(Rest(m), "other")
    <3>1. Queues(queue') /\ others' \in 0 .. MaxOthers /\ behind' \in [Clients -> BOOLEAN]
      BY <1>3, <1>4, <2>1, PublishStep DEF Inv
    <3>2. StatusKnown'
      BY <1>1, <1>3, <1>4, <2>1, OtherKnown DEF Inv
    <3>3. Connections'
      BY <1>1, <1>3, <1>4, <2>1, ConnectionsStay DEF Inv
    <3> QED  BY <3>1, <3>2, <3>3
  <2>2. CASE queue' = Rest(m) /\ UNCHANGED <<behind, others>>
    <3>1. StatusKnown'
      BY <1>1, <1>3, <2>2, Known DEF Inv, TypeOK, Subscribers
    <3> QED  BY <1>1, <1>3, <2>2, <3>1 DEF Inv, TypeOK, Connections
  <2> QED  BY <1>2, <2>1, <2>2
<1>6. txq' \in Seq(0 .. MaxLost) /\ Len(txq') = 0 /\ 0 <= TxSize
  BY <1>1, EmptySeq, BusAssumption
<1>7. FreshQueue'
  BY <1>1, <1>6 DEF Inv, FreshQueue
<1>8. NoMissedWakeup' /\ WatchersConnected'
  BY <1>1 DEF Inv, NoMissedWakeup, Watched, WatchersConnected, activity
<1>9. TypeOK'
  BY <1>1, <1>5, <1>6 DEF Inv, TypeOK, Queues, activity, shutdown
<1> QED  BY <1>5, <1>7, <1>8, <1>9 DEF Inv

\* A turn on a dead link nobody notices.
LEMMA LinkIdleTurnInv == ASSUME Inv, LinkIdleTurn PROVE Inv'
<1>1. /\ queue[Link] # <<>> /\ queue' = [queue EXCEPT ![Link] = Tail(@)]
      /\ UNCHANGED <<sticky, subscribed, view, behind, others, conn, activity, push, link, shutdown>>
  BY DEF LinkIdleTurn
<1>2. Head(queue[Link]) \in Messages
  BY <1>1, HeadTailProperties DEF Inv, TypeOK, Subscribers
<1>3. Head(queue[Link]) \in Pulled /\ queue' = Rest(Head(queue[Link]))
  BY <1>1, <1>2 DEF Pulled, Rest, Messages, Status
<1>4. Queues(queue') /\ \A c \in Clients : queue'[c] = queue[c]
  BY <1>3, RestType DEF Inv
<1>5. StatusKnown'
  BY <1>1, <1>4, Known DEF Inv, TypeOK, Subscribers
<1>6. Connections' /\ FreshQueue' /\ NoMissedWakeup' /\ WatchersConnected'
  BY <1>1 DEF Inv, Connections, FreshQueue, NoMissedWakeup, Watched, WatchersConnected, activity, link
<1>7. TypeOK'
  BY <1>1, <1>4 DEF Inv, TypeOK, Queues, activity, link, shutdown
<1> QED  BY <1>5, <1>6, <1>7 DEF Inv

\* A dead link is noticed.
LEMMA LinkFailsInv == ASSUME Inv, LinkFails PROVE Inv'
<1>1. /\ phase = "up" /\ ~alive /\ phase' = "reconnect" /\ txq' = <<>> /\ SetActivity(FALSE, active)
      /\ UNCHANGED <<subscribed, view, conn, push, alive, plugged, lost, shutdown>>
  BY DEF LinkFails
<1>2. PICK m \in Pulled : PublishStatus(Rest(m), "down")
  BY DEF LinkFails
<1>3. Queues(Rest(m)) /\ "down" \in Status /\ "down" \in Messages
  BY RestType DEF Inv, Messages, Status
<1>4. Publish(Rest(m), "down") /\ sticky' = "down"
  BY <1>2 DEF PublishStatus
<1>5. Queues(queue') /\ others' \in 0 .. MaxOthers /\ behind' \in [Clients -> BOOLEAN]
  BY <1>3, <1>4, PublishStep DEF Inv
<1>6. StatusKnown'
  BY <1>1, <1>2, <1>3, NewKnown DEF Inv
<1>7. Connections'
  BY <1>1, <1>3, <1>4, ConnectionsStay DEF Inv
<1>8. device' \in BOOLEAN /\ active' \in SUBSET Clients /\ changed' \in BOOLEAN /\ NoMissedWakeup'
  <2>1. FALSE \in BOOLEAN /\ active \in SUBSET Clients
    BY DEF Inv, TypeOK
  <2> QED  BY <1>1, <2>1, ActivityStep, Zenon DEF Inv
<1>9. WatchersConnected'
  BY <1>1 DEF Inv, WatchersConnected, SetActivity
<1>10. txq' \in Seq(0 .. MaxLost) /\ Len(txq') = 0 /\ 0 <= TxSize
  BY <1>1, EmptySeq, BusAssumption
<1>11. FreshQueue'
  BY <1>1, <1>10 DEF FreshQueue
<1>12. TypeOK'
  BY <1>1, <1>3, <1>4, <1>5, <1>8, <1>10 DEF Inv, TypeOK, Queues, shutdown
<1> QED  BY <1>6, <1>7, <1>8, <1>9, <1>11, <1>12 DEF Inv

\* The link loop ends.
LEMMA LinkClosesInv == ASSUME Inv, LinkCloses PROVE Inv'
<1>1. /\ phase' = "closed" /\ alive' = FALSE /\ txq' = <<>>
      /\ subscribed' = subscribed \ {Link} /\ queue' = [queue EXCEPT ![Link] = <<>>]
      /\ UNCHANGED <<sticky, view, behind, others, conn, activity, push, plugged, lost, shutdown>>
  BY DEF LinkCloses
<1>2. txq' \in Seq(0 .. MaxLost) /\ Len(txq') = 0 /\ 0 <= TxSize
  BY <1>1, EmptySeq, BusAssumption
<1>3. Queues(queue')
  <2> DEFINE e == <<>>
  <2>1. e \in Seq(Messages) /\ Len(e) <= QueueSize /\ queue' = [queue EXCEPT ![Link] = e]
    <3>1. Len(e) = 0 /\ e \in Seq(Messages)
      BY EmptySeq
    <3> QED  BY <1>1, <3>1, BusAssumption
  <2> HIDE DEF e
  <2> QED  BY <2>1 DEF Inv, TypeOK, Queues
<1>4. \A c \in Clients : queue'[c] = queue[c] /\ (c \in subscribed' <=> c \in subscribed)
  BY <1>1, BusAssumption DEF Inv, TypeOK, Subscribers
<1>5. StatusKnown'
  BY <1>1, <1>4, Known DEF Inv, TypeOK, Subscribers
<1>6. Connections' /\ WatchersConnected'
  BY <1>1, <1>4 DEF Inv, Connections, WatchersConnected, activity
<1>7. FreshQueue' /\ NoMissedWakeup'
  BY <1>1, <1>2 DEF Inv, FreshQueue, NoMissedWakeup, Watched, activity
<1>8. TypeOK'
  BY <1>1, <1>2, <1>3 DEF Inv, TypeOK, Queues, activity, shutdown
<1> QED  BY <1>5, <1>6, <1>7, <1>8 DEF Inv

\* The device comes and goes, and the agent is asked to stop.
LEMMA OutsideInv == ASSUME Inv, Plug \/ Unplug \/ Stop \/ ServerCloses PROVE Inv'
<1>1. UNCHANGED <<bus, conn, activity, push, phase, txq>>
  BY DEF Plug, Unplug, Stop, ServerCloses, link
<1>2. /\ plugged' \in BOOLEAN /\ alive' \in BOOLEAN /\ lost' \in 0 .. MaxLost
      /\ stopping' \in BOOLEAN /\ ipc' \in {"serving", "waiting", "closing", "stopped"}
      /\ FreshQueue'
  <2>1. CASE Plug
    <3>1. plugged' = TRUE /\ UNCHANGED <<alive, lost, stopping, ipc, phase, txq>>
      BY <2>1 DEF Plug, shutdown
    <3> QED  BY <3>1 DEF Inv, TypeOK, FreshQueue
  <2>2. CASE Unplug
    <3>1. /\ plugged' = FALSE /\ alive' = FALSE /\ lost' <= MaxLost
          /\ lost' = (IF alive THEN lost + 1 ELSE lost) /\ UNCHANGED <<stopping, ipc, phase, txq>>
      BY <2>2 DEF Unplug, shutdown
    <3>2. lost' \in 0 .. MaxLost
      BY <3>1, BusAssumption DEF Inv, TypeOK
    <3>3. phase # "up" => lost' = lost
      BY <3>1 DEF Inv, FreshQueue
    <3> QED  BY <3>1, <3>2, <3>3 DEF Inv, TypeOK, FreshQueue
  <2>3. CASE Stop
    <3>1. stopping' = TRUE /\ UNCHANGED <<plugged, alive, lost, ipc, phase, txq>>
      BY <2>3 DEF Stop, link
    <3> QED  BY <3>1 DEF Inv, TypeOK, FreshQueue
  <2>4. CASE ServerCloses
    <3>1. ipc' \in {"waiting", "closing"} /\ UNCHANGED <<plugged, alive, lost, stopping, phase, txq>>
      BY <2>4 DEF ServerCloses, link
    <3> QED  BY <3>1 DEF Inv, TypeOK, FreshQueue
  <2> QED  BY <2>1, <2>2, <2>3, <2>4
<1>3. Connections' /\ StatusKnown' /\ NoMissedWakeup' /\ WatchersConnected'
  BY <1>1 DEF Inv, Connections, StatusKnown, Told, NoMissedWakeup, Watched, WatchersConnected,
              bus, activity
<1>4. TypeOK'
  BY <1>1, <1>2 DEF Inv, TypeOK, bus, activity
<1> QED  BY <1>2, <1>3, <1>4 DEF Inv

\* The server cancels its clients.
LEMMA StoppedInv == ASSUME Inv, Stopped PROVE Inv'
<1>1. /\ ipc' = "stopped" /\ conn' = [c \in Clients |-> "out"] /\ subscribed' = {}
      /\ queue' = [s \in Subscribers |-> <<>>] /\ view' = [c \in Clients |-> "none"]
      /\ behind' = [c \in Clients |-> FALSE] /\ SetActivity(device, {})
      /\ UNCHANGED <<sticky, others, push, link, stopping>>
  BY DEF Stopped
<1>2. Queues(queue')
  <2>1. <<>> \in Seq(Messages) /\ Len(<<>>) = 0 /\ 0 <= QueueSize
    BY EmptySeq, BusAssumption
  <2> QED  BY <1>1, <2>1 DEF Queues
<1>3. device' \in BOOLEAN /\ active' \in SUBSET Clients /\ changed' \in BOOLEAN /\ NoMissedWakeup'
  <2>1. {} \in SUBSET Clients /\ device \in BOOLEAN
    BY DEF Inv, TypeOK
  <2> QED  BY <1>1, <2>1, ActivityStep, Zenon DEF Inv
<1>4. active' = {}
  BY <1>1 DEF SetActivity
<1>5. WatchersConnected' /\ StatusKnown' /\ FreshQueue'
  BY <1>1, <1>4 DEF Inv, WatchersConnected, StatusKnown, FreshQueue, link
<1>6. Connections' /\ behind' \in [Clients -> BOOLEAN]
  BY <1>1 DEF Connections
<1>7. /\ conn' \in [Clients -> {"out", "in", "closing"}] /\ view' \in [Clients -> Status \cup {"none"}]
      /\ subscribed' \subseteq Subscribers
  BY <1>1
<1>8. TypeOK'
  BY <1>1, <1>2, <1>3, <1>6, <1>7 DEF Inv, TypeOK, Queues, link
<1> QED  BY <1>3, <1>5, <1>6, <1>8 DEF Inv

\* Every step keeps the invariant.
LEMMA NextInv == Inv /\ [Next]_vars => Inv'
<1> SUFFICES ASSUME Inv, [Next]_vars PROVE Inv'
  OBVIOUS
<1>1. ASSUME NEW c \in Clients, Hello(c) \/ Pump(c) \/ Command(c) \/ Leave(c) \/ Gone(c)
      PROVE  Inv'
  BY <1>1, HelloInv, PumpInv, CommandInv, LeaveInv, GoneInv
<1>2. ASSUME NEW c \in Clients, NEW on \in BOOLEAN, ClientSetActive(c, on) PROVE Inv'
  BY <1>2, ClientSetActiveInv, Zenon
<1>3. CASE Log
  BY <1>3, LogInv
<1>4. CASE LinkStep
  BY <1>4, LinkUpInv, LinkTurnInv, LinkIdleTurnInv, LinkFailsInv, LinkClosesInv DEF LinkStep
<1>5. CASE PushStep
  BY <1>5, PushStateInv, PushWakesInv DEF PushStep
<1>6. CASE Plug \/ Unplug \/ Stop \/ ServerCloses
  BY <1>6, OutsideInv
<1>7. CASE Stopped
  BY <1>7, StoppedInv
<1>8. CASE UNCHANGED vars
  BY <1>8 DEF vars, bus, activity, link, shutdown, Inv, TypeOK, Connections, StatusKnown, Told,
              FreshQueue, NoMissedWakeup, Watched, WatchersConnected
<1> QED  BY <1>1, <1>2, <1>3, <1>4, <1>5, <1>6, <1>7, <1>8, Zenon DEF Next, StopStep

\* The invariant holds in every behaviour of the agent.
THEOREM Invariance == Spec => []Inv
<1> QED  BY InitInv, NextInv, PTL DEF Spec

-----------------------------------------------------------------------------
\* No queue outgrows its size, however many clients there are.
THEOREM TypeCorrect == Spec => []TypeOK
<1>1. Inv => TypeOK
  BY DEF Inv
<1> QED  BY Invariance, <1>1, PTL

\* An authenticated client learns the link's state unless it fell behind.
THEOREM ClientsKnow == Spec => []StatusKnown
<1>1. Inv => StatusKnown
  BY DEF Inv
<1> QED  BY Invariance, <1>1, PTL

\* A command from before a disconnect never reaches the link that comes after.
THEOREM NothingReplayed == Spec => []NoReplay
<1>1. Inv => NoReplay
  BY DEF Inv, FreshQueue, NoReplay
<1> QED  BY Invariance, <1>1, PTL

\* Whoever starts to watch ends the long sleep of the push loop.
THEOREM WakeupKept == Spec => []NoMissedWakeup
<1>1. Inv => NoMissedWakeup
  BY DEF Inv
<1> QED  BY Invariance, <1>1, PTL

\* A client that has gone is no watcher.
THEOREM NoStaleWatcher == Spec => []WatchersConnected
<1>1. Inv => WatchersConnected
  BY DEF Inv
<1> QED  BY Invariance, <1>1, PTL
=============================================================================
