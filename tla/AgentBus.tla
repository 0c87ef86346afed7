------------------------------ MODULE AgentBus ------------------------------
(***************************************************************************)
(* The pipeline inside an agent: the bus with a bounded queue per          *)
(* subscriber (bus.py), the IPC server with its clients (ipc_server.py),   *)
(* the activity tracker (activity.py), and the push loop and the link loop *)
(* of main.py, up to the shutdown in _main.                                *)
(*                                                                         *)
(* All of it runs on one event loop: a step goes from one await to the     *)
(* next.  Worker threads only log, and a record they publish may slip in   *)
(* between the two queue operations of a publication.  A message is a      *)
(* state, an agent_status or any other one; a command is the number of     *)
(* links lost when it was given.                                           *)
(***************************************************************************)
EXTENDS Naturals, Sequences

CONSTANTS
  Clients,    \* connections to the IPC server
  Link,       \* link_loop's own subscription
  QueueSize,  \* of a subscriber
  TxSize,     \* of _tx_queue
  MaxLost,    \* bound: links lost
  MaxOthers   \* bound: log records and device events

ASSUME BusAssumption ==
  /\ Link \notin Clients
  /\ QueueSize \in Nat \ {0} /\ TxSize \in Nat \ {0}
  /\ MaxLost \in Nat /\ MaxOthers \in Nat

Subscribers == Clients \cup {Link}
Status   == {"up", "down"}
Messages == Status \cup {"state", "other"}

VARIABLES
  sticky,      \* _sticky["agent_status"]
  subscribed,  \* _subs
  queue,       \* the queue of each subscriber
  conn,        \* per client: "out", "in" (authenticated), "closing"
  view,        \* the agent_status a client was sent last
  behind,      \* history: its queue overflowed, and no status came since
  active,      \* _active_clients
  device,      \* _device_connected
  changed,     \* _activity_changed
  push,        \* push_loop: "gather", asleep for the "fast" or "idle" time, "done"
  phase,       \* link_loop: "connect", "up", "reconnect", "closed"
  alive,       \* the link works
  plugged,     \* the device can be reached
  txq,         \* _tx_queue
  lost,        \* links lost
  others,      \* messages of the other kind published
  stopping,    \* stop_evt
  ipc          \* IPCServer: "serving", "waiting", "closing", "stopped"

bus      == <<sticky, subscribed, queue, view, behind, others>>
activity == <<active, device, changed>>
link     == <<phase, alive, plugged, txq, lost>>
shutdown == <<stopping, ipc>>
vars == <<bus, conn, activity, push, link, shutdown>>

Init ==
  /\ sticky = "none" /\ subscribed = {Link} /\ queue = [s \in Subscribers |-> <<>>]
  /\ conn = [c \in Clients |-> "out"] /\ view = [c \in Clients |-> "none"]
  /\ behind = [c \in Clients |-> FALSE]
  /\ active = {} /\ device = FALSE /\ changed = FALSE
  /\ push = "gather" /\ phase = "connect" /\ alive = FALSE /\ plugged = FALSE
  /\ txq = <<>> /\ lost = 0 /\ others = 0
  /\ stopping = FALSE /\ ipc = "serving"

-----------------------------------------------------------------------------
(* The bus                                                                 *)

Full(q) == Len(q) = QueueSize

\* A full queue loses its oldest message; the place is taken by the record of a
\* worker thread when one slips in.
Offer(q, m, raced) ==
  IF ~Full(q) THEN Append(q, m) ELSE Append(Tail(q), IF raced THEN "other" ELSE m)

\* publish(m): Q are the queues before it, Raced those a thread slips in at.
Publish(Q, m) ==
  \E Raced \in {{}} \cup {{s} : s \in {t \in subscribed : Full(Q[t])}} :
    /\ others' = others + (IF m = "other" THEN 1 ELSE 0) + (IF Raced # {} THEN 1 ELSE 0)
    /\ others' <= MaxOthers
    /\ queue' = [s \in Subscribers |->
                   IF s \in subscribed THEN Offer(Q[s], m, s \in Raced) ELSE Q[s]]
    /\ behind' = [c \in Clients |->
                    IF c \in subscribed
                      THEN (behind[c] \/ Full(Q[c])) /\ ~(m \in Status /\ c \notin Raced)
                      ELSE behind[c]]

\* With a sticky key the message is kept as well.
PublishStatus(Q, m) == Publish(Q, m) /\ sticky' = m

Log ==
  /\ Publish(queue, "other")
  /\ UNCHANGED <<sticky, subscribed, view, conn, activity, push, link, shutdown>>

-----------------------------------------------------------------------------
(* The activity tracker tells the push loop of a flip.                     *)

Watched == device \/ active # {}

Mut_OnlyDevice(d, A) ==
  /\ device' = d /\ active' = A
  /\ changed' = (changed \/ (d # device))
SetActivity(d, A) ==
  /\ device' = d /\ active' = A
  /\ changed' = (changed \/ (d \/ A # {}) # Watched)

-----------------------------------------------------------------------------
(* The IPC server                                                          *)

\* A connection and its right hello, before which it gets nothing and changes
\* nothing: subscribe() replays what is kept.
Mut_NoReplay(c) ==
  /\ conn[c] = "out" /\ ipc = "serving"
  /\ conn' = [conn EXCEPT ![c] = "in"]
  /\ subscribed' = subscribed \cup {c}
  /\ UNCHANGED <<queue, sticky, view, behind, others, activity, push, link, shutdown>>
Hello(c) ==
  /\ conn[c] = "out" /\ ipc = "serving"
  /\ conn' = [conn EXCEPT ![c] = "in"]
  /\ subscribed' = subscribed \cup {c}
  /\ queue' = [queue EXCEPT ![c] = IF sticky = "none" THEN <<>> ELSE <<sticky>>]
  /\ UNCHANGED <<sticky, view, behind, others, activity, push, link, shutdown>>

\* _pump_to_client.
Pump(c) ==
  /\ c \in subscribed /\ queue[c] # <<>>
  /\ queue' = [queue EXCEPT ![c] = Tail(@)]
  /\ view' = [view EXCEPT ![c] = IF Head(queue[c]) \in Status THEN Head(queue[c]) ELSE @]
  /\ UNCHANGED <<sticky, subscribed, behind, others, conn, activity, push, link, shutdown>>

\* set_active.
ClientSetActive(c, on) ==
  /\ conn[c] = "in"
  /\ SetActivity(device, IF on THEN active \cup {c} ELSE active \ {c})
  /\ UNCHANGED <<bus, conn, push, link, shutdown>>

\* _tx_put: the oldest command goes when the queue is full.
TxPut == txq' = Append(IF Len(txq) = TxSize THEN Tail(txq) ELSE txq, lost)

\* Any other command, as far as it ends up in the queue.
Command(c) ==
  /\ conn[c] = "in"
  /\ TxPut
  /\ UNCHANGED <<bus, conn, activity, push, phase, alive, plugged, lost, shutdown>>

\* The end of a connection, its own or after a wrong hello; the finally clause
\* awaits the pump before it tells the tracker.
Leave(c) ==
  /\ conn[c] = "in"
  /\ conn' = [conn EXCEPT ![c] = "closing"]
  /\ subscribed' = subscribed \ {c}
  /\ queue' = [queue EXCEPT ![c] = <<>>]
  /\ view' = [view EXCEPT ![c] = "none"] /\ behind' = [behind EXCEPT ![c] = FALSE]
  /\ UNCHANGED <<sticky, others, activity, push, link, shutdown>>

Gone(c) ==
  /\ conn[c] = "closing"
  /\ conn' = [conn EXCEPT ![c] = "out"]
  /\ SetActivity(device, active \ {c})
  /\ UNCHANGED <<bus, push, link, shutdown>>

-----------------------------------------------------------------------------
(* push_loop                                                               *)

\* From the end of gather() to the wait; the pet reactor may queue a command.
PushState ==
  /\ push = "gather"
  /\ TxPut \/ UNCHANGED txq
  /\ Publish(queue, "state")
  /\ push' = IF Watched THEN "fast" ELSE "idle"
  /\ changed' = FALSE
  /\ UNCHANGED <<sticky, subscribed, view, conn, active, device, phase, alive, plugged, lost, shutdown>>

\* The time is over, the activity changed or the agent stops.
Mut_NoTimeout ==
  /\ push \in {"fast", "idle"} /\ (changed \/ stopping)
  /\ push' = IF stopping THEN "done" ELSE "gather"
  /\ UNCHANGED <<bus, conn, activity, link, shutdown>>
PushWakes ==
  /\ push \in {"fast", "idle"}
  /\ push' = IF stopping THEN "done" ELSE "gather"
  /\ UNCHANGED <<bus, conn, activity, link, shutdown>>

-----------------------------------------------------------------------------
(* link_loop                                                               *)

Connecting == phase \in {"connect", "reconnect"}

\* link.connect returned and the agent goes on.
LinkUp ==
  /\ Connecting /\ plugged /\ ~stopping
  /\ phase' = "up" /\ alive' = TRUE
  /\ SetActivity(TRUE, active)
  /\ PublishStatus(queue, "up")
  /\ UNCHANGED <<subscribed, view, conn, push, plugged, txq, lost, shutdown>>

\* The message of a turn, if the wait for one is not over first.
Rest(m) == IF m = "none" THEN queue ELSE [queue EXCEPT ![Link] = Tail(@)]
Pulled  == IF queue[Link] = <<>> THEN {"none"} ELSE {Head(queue[Link])}

\* A turn on a link that works: a state is sent, then every command, and an
\* event of the device may be published.
LinkTurn ==
  /\ phase = "up" /\ alive /\ ~stopping
  /\ txq' = <<>>
  /\ \E m \in Pulled :
       \/ Publish(Rest(m), "other")
       \/ queue' = Rest(m) /\ UNCHANGED <<behind, others>>
  /\ UNCHANGED <<sticky, subscribed, view, conn, activity, push, phase, alive, plugged, lost, shutdown>>

\* With nothing to send nobody notices that the link is dead.
LinkIdleTurn ==
  /\ phase = "up" /\ ~alive /\ ~stopping
  /\ queue[Link] # <<>> /\ Head(queue[Link]) # "state" /\ txq = <<>>
  /\ queue' = [queue EXCEPT ![Link] = Tail(@)]
  /\ UNCHANGED <<sticky, subscribed, view, behind, others, conn, activity, push, link, shutdown>>

\* A send failed, be it the first of the turn or a later one; _reconnect as far
\* as the thread that connects.
Mut_KeepsQueue ==
  /\ phase = "up" /\ ~alive /\ ~stopping
  /\ \E m \in Pulled :
       /\ m = "state" \/ txq # <<>>
       /\ PublishStatus(Rest(m), "down")
  /\ phase' = "reconnect" /\ UNCHANGED txq
  /\ SetActivity(FALSE, active)
  /\ UNCHANGED <<subscribed, view, conn, push, alive, plugged, lost, shutdown>>
LinkFails ==
  /\ phase = "up" /\ ~alive /\ ~stopping
  /\ \E m \in Pulled :
       /\ m = "state" \/ txq # <<>>
       /\ PublishStatus(Rest(m), "down")
  /\ phase' = "reconnect" /\ txq' = <<>>
  /\ SetActivity(FALSE, active)
  /\ UNCHANGED <<subscribed, view, conn, push, alive, plugged, lost, shutdown>>

\* The loop, or the thread that connects, sees stop_evt; the finally clause.
Mut_ConnectsForEver ==
  /\ stopping /\ phase # "closed" /\ (Connecting => plugged)
  /\ phase' = "closed" /\ alive' = FALSE /\ txq' = <<>>
  /\ subscribed' = subscribed \ {Link} /\ queue' = [queue EXCEPT ![Link] = <<>>]
  /\ UNCHANGED <<sticky, view, behind, others, conn, activity, push, plugged, lost, shutdown>>
LinkCloses ==
  /\ stopping /\ phase # "closed"
  /\ phase' = "closed" /\ alive' = FALSE /\ txq' = <<>>
  /\ subscribed' = subscribed \ {Link} /\ queue' = [queue EXCEPT ![Link] = <<>>]
  /\ UNCHANGED <<sticky, view, behind, others, conn, activity, push, plugged, lost, shutdown>>

\* The device comes and goes.
Plug ==
  /\ ~plugged /\ plugged' = TRUE
  /\ UNCHANGED <<bus, conn, activity, push, phase, alive, txq, lost, shutdown>>

Unplug ==
  /\ plugged /\ plugged' = FALSE
  /\ alive' = FALSE
  /\ lost' = IF alive THEN lost + 1 ELSE lost
  /\ lost' <= MaxLost
  /\ UNCHANGED <<bus, conn, activity, push, phase, txq, shutdown>>

-----------------------------------------------------------------------------
(* Shutdown                                                                *)

\* SIGTERM.
Stop ==
  /\ ~stopping /\ stopping' = TRUE
  /\ UNCHANGED <<bus, conn, activity, push, link, ipc>>

\* Both loops are over: server.close().  Its wait_closed waits for the connections
\* from Python 3.12.1 on, and for nothing before.
ServerCloses ==
  /\ ipc = "serving" /\ push = "done" /\ phase = "closed"
  /\ ipc' \in {"waiting", "closing"}
  /\ UNCHANGED <<bus, conn, activity, push, link, stopping>>

\* wait_closed(), then every task is cancelled.
Stopped ==
  /\ ipc = "closing" \/ (ipc = "waiting" /\ \A c \in Clients : conn[c] = "out")
  /\ ipc' = "stopped"
  /\ conn' = [c \in Clients |-> "out"] /\ subscribed' = {}
  /\ queue' = [s \in Subscribers |-> <<>>] /\ view' = [c \in Clients |-> "none"]
  /\ behind' = [c \in Clients |-> FALSE]
  /\ SetActivity(device, {})
  /\ UNCHANGED <<sticky, others, push, link, stopping>>

LinkStep == LinkUp \/ LinkTurn \/ LinkIdleTurn \/ LinkFails \/ LinkCloses
PushStep == PushState \/ PushWakes
StopStep == ServerCloses \/ Stopped

Next ==
  \/ \E c \in Clients :
       \/ Hello(c) \/ Pump(c) \/ Command(c) \/ Leave(c) \/ Gone(c)
       \/ \E on \in BOOLEAN : ClientSetActive(c, on)
  \/ Log \/ LinkStep \/ PushStep \/ Plug \/ Unplug \/ Stop \/ StopStep

\* The tasks of the event loop go on, and so does a client that reads.
Spec ==
  /\ Init
  /\ [][Next]_vars
  /\ WF_vars(LinkStep) /\ WF_vars(PushStep) /\ WF_vars(StopStep)
  /\ \A c \in Clients : WF_vars(Pump(c)) /\ WF_vars(Gone(c))

-----------------------------------------------------------------------------
\* Every variable has its type; no queue is longer than it may be.
TypeOK ==
  /\ sticky \in Status \cup {"none"} /\ subscribed \subseteq Subscribers
  /\ queue \in [Subscribers -> Seq(Messages)]
  /\ \A s \in Subscribers : Len(queue[s]) <= QueueSize
  /\ conn \in [Clients -> {"out", "in", "closing"}]
  /\ view \in [Clients -> Status \cup {"none"}] /\ behind \in [Clients -> BOOLEAN]
  /\ active \subseteq Clients
  /\ device \in BOOLEAN /\ changed \in BOOLEAN /\ alive \in BOOLEAN
  /\ plugged \in BOOLEAN /\ stopping \in BOOLEAN
  /\ push \in {"gather", "fast", "idle", "done"}
  /\ phase \in {"connect", "up", "reconnect", "closed"}
  /\ txq \in Seq(0 .. MaxLost) /\ Len(txq) <= TxSize
  /\ lost \in 0 .. MaxLost /\ others \in 0 .. MaxOthers
  /\ ipc \in {"serving", "waiting", "closing", "stopped"}

\* The status a client has been sent last, or else the last one in its queue, is m.
Told(c, m) ==
  LET q == queue[c]
  IN  /\ (\A i \in 1 .. Len(q) : q[i] \notin Status) => view[c] = m
      /\ \A i \in 1 .. Len(q) :
           q[i] \in Status /\ (\A j \in i + 1 .. Len(q) : q[j] \notin Status) => q[i] = m

\* ipc.md: "New clients now learn the current link state": an authenticated
\* client has, or will read, the status the agent has now, unless its queue
\* overflowed after the last flip.
StatusKnown == \A c \in subscribed \ {Link} : ~behind[c] => Told(c, sticky)

\* "a show_page or install chunk from before the disconnect must NOT replay": no
\* command in the queue of a link that works was given before the link was lost.
NoReplay == phase = "up" /\ alive => \A i \in 1 .. Len(txq) : txq[i] = lost

\* activity.py: the long sleep ends "the moment something becomes active": while
\* somebody watches, the push loop is never in it without being woken.
NoMissedWakeup == push = "idle" /\ Watched => changed

\* activity.py: "this set can't leak across reconnects": whoever counts as a
\* watcher has a connection that is not over.
WatchersConnected == \A c \in active : conn[c] \in {"in", "closing"}

\* A device whose link stays up gets states for ever, whatever else was
\* published and whoever reads too slowly.
DeviceFed ==
  <>[](phase = "up" /\ alive /\ ~stopping)
    => []<><<LinkTurn /\ Pulled = {"state"}>>_vars

\* "a SIGTERM during the (potentially forever) connect retry loop interrupts it":
\* SIGTERM ends the agent, unless wait_closed waits for a client that stays.
StopCompletes ==
  stopping ~> (ipc = "stopped" \/ (ipc = "waiting" /\ \E c \in Clients : conn[c] # "out"))
=============================================================================
