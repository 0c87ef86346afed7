----------------------------- MODULE OtaUpdate ------------------------------
(***************************************************************************)
(* A firmware update end to end: the agent's update tasks (stream_update), *)
(* the outbound command queue and link loop they share (main.py), the link *)
(* in between and the device of OtaDevice.  Tasks are the attempts the     *)
(* user makes, one `fw_update_start` each.                                 *)
(*                                                                         *)
(* A wait with a timeout may expire at any moment at which its future has  *)
(* no result, however early or late: OtaDevice says nothing of how long a  *)
(* flash write, a reboot or a reconnection takes.  With Timely = TRUE it   *)
(* expires only when no answer is on its way.                              *)
(***************************************************************************)
EXTENDS OtaDevice, SequencesExt

CONSTANTS
  Tasks,       \* update attempts
  NoTask,
  Release,     \* [Tasks -> Images]: what each attempt downloads
  TxMax,       \* capacity of the outbound command queue
  Timely,      \* BOOLEAN, see above
  MaxFaults,   \* bound: link drops, lost lines, power failures, agent crashes
  MaxAborts    \* bound: presses of the Cancel button

ASSUME UpdateAssumption ==
  /\ Release \in [Tasks -> Images]
  /\ NoTask \notin Tasks
  /\ TxMax \in Nat \ {0}
  /\ Timely \in BOOLEAN
  /\ MaxFaults \in Nat
  /\ MaxAborts \in Nat

VARIABLES
  pc,          \* where each task awaits: see InFlight
  seq,         \* the chunk whose ACK it awaits
  got,         \* the event its waiter's future was resolved with
  verdict,     \* the last word it published: "none", "done" or "error"
  txq,         \* AgentRuntime._tx_queue
  wire,        \* lines sent and not yet handled by the device
  events,      \* device events not yet read by the agent
  link,        \* "up" or "down"
  hostConn,    \* what the agent believes of it
  faults,      \* faults so far
  aborts,      \* presses of Cancel so far
  cancelled,   \* history: tasks cancelled after the begin, before the end was queued
  lateAbort,   \* history: Cancel was pressed after the end was queued
  installer,   \* history: the task whose fw_update_end flipped the boot slot
  misled,      \* history: a task took the answer to another attempt for its own
  spilled      \* history: the full queue has lost a command

taskVars == <<pc, seq, got, verdict>>
linkVars == <<wire, events, link>>
queue    == <<txq, spilled>>
histVars == <<cancelled, lateAbort, installer, misled>>
hostVars == <<taskVars, queue, hostConn>>
otaAll   == <<flash, otadata, power, running, otaVars, reply, screen>>
uvars    == <<otaAll, hostVars, linkVars, faults, aborts, histVars>>

InFlight == {"download", "begin", "chunk", "end"}
Waits    == {"begin", "chunk", "end"}

\* An event does not say whose command it answers: task is for misled only.
Event(name, ok, s, t) == [name |-> name, ok |-> ok, seq |-> s, task |-> t]
NoEvent == Event("none", TRUE, 0, NoTask)

Cmd(name, t, s, data) == [name |-> name, task |-> t, seq |-> s, data |-> data]
BeginCmd(t)    == Cmd("fw_update_begin", t, 0, Release[t])
ChunkCmd(t, s) == Cmd("fw_update_chunk", t, s, Release[t][s + 1])
EndCmd(t)      == Cmd("fw_update_end", t, 0, <<>>)
AbortCmd(t)    == Cmd("fw_update_abort", t, 0, <<>>)
CancelCmd(n)   == Cmd("fw_update_abort", NoTask, n, <<>>)

UInit ==
  /\ Init
  /\ pc = [t \in Tasks |-> "idle"]
  /\ seq = [t \in Tasks |-> 0]
  /\ got = [t \in Tasks |-> NoEvent]
  /\ verdict = [t \in Tasks |-> "none"]
  /\ txq = <<>> /\ wire = <<>> /\ events = <<>>
  /\ link = "down" /\ hostConn = FALSE
  /\ faults = 0 /\ aborts = 0
  /\ cancelled = {} /\ lateAbort = FALSE /\ installer = NoTask
  /\ misled = FALSE /\ spilled = FALSE

-----------------------------------------------------------------------------
(* The update task                                                         *)

Mut_Unbounded(cmd) == txq' = Append(txq, cmd) /\ UNCHANGED spilled
\* _tx_put: a full queue loses its oldest command.
TxPut(cmd) ==
  /\ txq' = Append(IF Len(txq) >= TxMax THEN Tail(txq) ELSE txq, cmd)
  /\ spilled' = (spilled \/ Len(txq) >= TxMax)

\* wait_event: register the waiter, unresolved.
Await(t, where) ==
  /\ pc' = [pc EXCEPT ![t] = where]
  /\ got' = [got EXCEPT ![t] = NoEvent]

Verdict(t, v) ==
  /\ pc' = [pc EXCEPT ![t] = "over"]
  /\ got' = [got EXCEPT ![t] = NoEvent]
  /\ verdict' = [verdict EXCEPT ![t] = v]

Mut_AnyTime(t) == TRUE
\* The Updates pane offers "Update firmware" only when no update is under way.
MayStart(t) == \A u \in Tasks : pc[u] \notin InFlight

Start(t) ==
  /\ pc[t] = "idle"
  /\ MayStart(t)
  /\ pc' = [pc EXCEPT ![t] = "download"]
  /\ UNCHANGED <<seq, got, verdict, queue>>

\* The download is over: announce the image and wait for fw_update_started.
Downloaded(t) ==
  /\ pc[t] = "download"
  /\ Await(t, "begin")
  /\ TxPut(BeginCmd(t))
  /\ UNCHANGED <<seq, verdict>>

DownloadFails(t) ==
  /\ pc[t] = "download"
  /\ Verdict(t, "error")
  /\ UNCHANGED <<seq, queue>>

\* WINDOW is 1: a chunk is queued when the one before it was acknowledged;
\* after the last one, the end is.
SendNext(t, s) ==
  /\ seq' = [seq EXCEPT ![t] = s]
  /\ IF s < Len(Release[t])
       THEN Await(t, "chunk") /\ TxPut(ChunkCmd(t, s))
       ELSE Await(t, "end") /\ TxPut(EndCmd(t))
  /\ UNCHANGED verdict

BeginAnswered(t) ==
  /\ pc[t] = "begin"
  /\ got[t] # NoEvent
  /\ IF got[t].ok
       THEN SendNext(t, 0)
       ELSE Verdict(t, "error") /\ UNCHANGED <<seq, queue>>

\* A refused chunk aborts the session on the device as well.
ChunkAnswered(t) ==
  /\ pc[t] = "chunk"
  /\ got[t] # NoEvent
  /\ IF got[t].ok
       THEN SendNext(t, seq[t] + 1)
       ELSE Verdict(t, "error") /\ TxPut(AbortCmd(t)) /\ UNCHANGED seq

EndVerdict(ev) == IF ev.ok THEN "done" ELSE "error"

EndAnswered(t) ==
  /\ pc[t] = "end"
  /\ got[t] # NoEvent
  /\ Verdict(t, EndVerdict(got[t]))
  /\ UNCHANGED <<seq, queue>>

Mut_NoAckTimeout == {"begin", "end"}
\* The waits that asyncio.wait_for bounds: 10 s, 15 s and 5 s.
TimedWaits == {"begin", "chunk", "end"}

\* Some answer to t may still come.
AnswerOnItsWay(t) ==
  hostConn /\ (events # <<>> \/ \E i \in 1 .. Len(txq \o wire) : (txq \o wire)[i].task = t)

MayTimeOut(t) ==
  /\ pc[t] \in TimedWaits
  /\ got[t] = NoEvent
  /\ Timely => ~AnswerOnItsWay(t)

Mut_SilenceIsError(where) == "error"
\* What an expired wait means: after the end, silence is taken for a reboot.
TimeoutVerdict(where) == IF where = "end" THEN "done" ELSE "error"

TimeOut(t) ==
  /\ MayTimeOut(t)
  /\ Verdict(t, TimeoutVerdict(pc[t]))
  /\ IF pc[t] = "chunk" THEN TxPut(AbortCmd(t)) ELSE UNCHANGED queue
  /\ UNCHANGED seq

TaskStep(t) ==
  /\ \/ Downloaded(t) \/ DownloadFails(t)
     \/ BeginAnswered(t) \/ ChunkAnswered(t) \/ EndAnswered(t)
     \/ TimeOut(t)
  /\ UNCHANGED <<otaAll, hostConn, linkVars, faults, aborts, histVars>>

UserStart(t) ==
  /\ Start(t)
  /\ UNCHANGED <<otaAll, hostConn, linkVars, faults, aborts, histVars>>

Mut_PaneOnly(t) ==
  /\ pc[t] \in InFlight
  /\ aborts < MaxAborts
  /\ aborts' = aborts + 1
  /\ lateAbort' = (lateAbort \/ pc[t] = "end")
  /\ cancelled' = IF pc[t] \in {"begin", "chunk"} THEN cancelled \cup {t} ELSE cancelled
  /\ UNCHANGED <<otaAll, taskVars, queue, hostConn, linkVars, faults, installer, misled>>

\* Cancel is shown while the pane says "downloading" or "flashing", and the
\* pane lags behind the agent.
UserAbort(t) ==
  /\ pc[t] \in InFlight
  /\ aborts < MaxAborts
  /\ aborts' = aborts + 1
  /\ TxPut(CancelCmd(aborts'))
  /\ lateAbort' = (lateAbort \/ pc[t] = "end")
  /\ cancelled' = IF pc[t] \in {"begin", "chunk"} THEN cancelled \cup {t} ELSE cancelled
  /\ UNCHANGED <<otaAll, taskVars, hostConn, linkVars, faults, installer, misled>>

-----------------------------------------------------------------------------
(* The link loop                                                           *)

\* A send that fails loses its command; _reconnect drops the queued ones.
LinkSend ==
  /\ hostConn
  /\ txq # <<>>
  /\ IF link = "up"
       THEN /\ wire' = Append(wire, Head(txq))
            /\ txq' = Tail(txq)
            /\ UNCHANGED hostConn
       ELSE /\ hostConn' = FALSE
            /\ txq' = <<>>
            /\ UNCHANGED wire
  /\ UNCHANGED <<otaAll, taskVars, spilled, events, link, faults, aborts, histVars>>

\* connect() returns; lines received before it are not this session's.
LinkConnect ==
  /\ ~hostConn
  /\ link = "up"
  /\ hostConn' = TRUE
  /\ events' = <<>>
  /\ UNCHANGED <<otaAll, taskVars, queue, wire, link, faults, aborts, histVars>>

\* The predicates of stream_update's three waiters.
Matches(t, ev) ==
  \/ pc[t] = "begin" /\ ev.name = "fw_update_started"
  \/ pc[t] = "chunk" /\ ev.name = "fw_update_chunk_ack" /\ ev.seq = seq[t]
  \/ pc[t] = "end"   /\ ev.name = "fw_update_done"

\* _dispatch_event: one event resolves every unresolved waiter it matches.
LinkRead ==
  /\ hostConn
  /\ events # <<>>
  /\ events' = Tail(events)
  /\ got' = [t \in Tasks |->
               IF Matches(t, Head(events)) /\ got[t] = NoEvent
                 THEN Head(events) ELSE got[t]]
  /\ misled' = (misled \/ \E t \in Tasks :
                 got'[t] # got[t] /\ got'[t].task \notin {t, NoTask})
  /\ UNCHANGED <<otaAll, pc, seq, verdict, queue, hostConn, wire, link,
                 faults, aborts, cancelled, lateAbort, installer>>

-----------------------------------------------------------------------------
(* The device and the link                                                 *)

DeviceHandles(cmd) ==
  \/ cmd.name = "fw_update_begin" /\ FwUpdateBegin(cmd.data)
  \/ cmd.name = "fw_update_chunk" /\ FwUpdateChunk(cmd.data)
  \/ cmd.name = "fw_update_end"   /\ FwUpdateEnd
  \/ cmd.name = "fw_update_abort" /\ FwUpdateAbort

\* The device answers on the link it has; a restart loses what it had not
\* read, and may or may not be seen as a dropped link.
DeviceStep ==
  /\ power = "up"
  /\ wire # <<>>
  /\ DeviceHandles(Head(wire))
  /\ IF power' = "up"
       THEN /\ wire' = Tail(wire)
            /\ events' = IF link = "up"
                 THEN Append(events, Event(reply'.name, reply'.ok,
                                       Head(wire).seq, Head(wire).task))
                 ELSE events
            /\ UNCHANGED <<link, installer>>
       ELSE /\ wire' = <<>>
            /\ link' \in {link, "down"}
            /\ installer' = Head(wire).task
            /\ UNCHANGED events
  /\ UNCHANGED <<hostVars, faults, aborts, cancelled, lateAbort, misled>>

DeviceBoots ==
  /\ Boot
  /\ wire' \in {wire, <<>>}
  /\ UNCHANGED <<hostVars, events, link, faults, aborts, histVars>>

LinkUp ==
  /\ link = "down"
  /\ power = "up"
  /\ link' = "up"
  /\ UNCHANGED <<otaAll, hostVars, wire, events, faults, aborts, histVars>>

Fault == faults < MaxFaults /\ faults' = faults + 1

\* Each direction loses a suffix of what was under way.
LinkDrop ==
  /\ Fault
  /\ link = "up"
  /\ link' = "down"
  /\ \E i \in 0 .. Len(wire) : wire' = SubSeq(wire, 1, i)
  /\ \E i \in 0 .. Len(events) : events' = SubSeq(events, 1, i)
  /\ UNCHANGED <<otaAll, hostVars, aborts, histVars>>

\* A receive buffer overflows: the device drops a line it cannot parse.
LineLost ==
  /\ Fault
  /\ \E i \in 1 .. Len(wire) : wire' = RemoveAt(wire, i)
  /\ UNCHANGED <<otaAll, hostVars, events, link, aborts, histVars>>

DevicePowerLoss ==
  /\ Fault
  /\ PowerLoss
  /\ wire' = <<>>
  /\ link' = "down"
  /\ UNCHANGED <<hostVars, events, aborts, histVars>>

\* The agent process dies and its supervisor starts another.
AgentCrash ==
  /\ Fault
  /\ pc' = [t \in Tasks |-> IF pc[t] \in InFlight THEN "gone" ELSE pc[t]]
  /\ got' = [t \in Tasks |-> NoEvent]
  /\ txq' = <<>>
  /\ hostConn' = FALSE
  /\ UNCHANGED <<otaAll, seq, verdict, spilled, linkVars, aborts, histVars>>

-----------------------------------------------------------------------------
UNext ==
  \/ \E t \in Tasks : UserStart(t) \/ UserAbort(t) \/ TaskStep(t)
  \/ LinkSend \/ LinkConnect \/ LinkRead
  \/ DeviceStep \/ DeviceBoots
  \/ LinkUp \/ LinkDrop \/ LineLost \/ DevicePowerLoss \/ AgentCrash

\* asyncio runs a task whose future is resolved, and fires its timers.
USpec ==
  /\ UInit
  /\ [][UNext]_uvars
  /\ \A t \in Tasks : WF_uvars(TaskStep(t))

-----------------------------------------------------------------------------
\* Every variable of the host and of the link has its type.
UTypeOK ==
  /\ TypeOK
  /\ pc \in [Tasks -> InFlight \cup {"idle", "over", "gone"}]
  /\ \A t \in Tasks : seq[t] \in 0 .. Len(Release[t])
  /\ \A t \in Tasks : got[t] # NoEvent => pc[t] \in Waits
  /\ verdict \in [Tasks -> {"none", "done", "error"}]
  /\ Len(txq) <= TxMax
  /\ cancelled \subseteq Tasks
  /\ installer \in Tasks \cup {NoTask}
  /\ misled \in BOOLEAN /\ spilled \in BOOLEAN

\* While a task streams to an open session, the device holds the chunks the
\* task has seen acknowledged and at most the one it is waiting for, whatever
\* sessions and commands earlier attempts left behind.  An event does not say
\* which attempt it answers: so it is until a task is misled by a late one.
StreamInStep ==
  ~misled => \A t \in Tasks :
    pc[t] = "chunk" /\ s_active => s_received \in {seq[t], seq[t] + 1}

\* A task that reports an error did not install its image, unless the user
\* pressed Cancel after the last chunk, or a late event misled a task.
ErrorMeansNotInstalled ==
  ~misled => \A t \in Tasks : verdict[t] = "error" /\ installer = t => lateAbort

\* An attempt ends with a verdict (or with its agent), whatever is lost.
EveryAttemptEnds ==
  \A t \in Tasks : (pc[t] \in InFlight) ~> (pc[t] \notin InFlight)

\* UpdatesPane.tsx: "Stop the update. The current firmware keeps running on
\* next reboot."  So it does when Cancel is pressed between the begin and the
\* end, and neither the link nor a full queue loses a command; during the
\* download it stops nothing.
CancelStopsStream == faults = 0 /\ ~spilled => installer \notin cancelled

\* README: "the card shows the error and the previous firmware keeps running
\* - you can retry": a begin is refused as busy only because of a live attempt.
RetryFindsDeviceFree ==
  power = "up" /\ s_active /\ wire # <<>> /\ Head(wire).name = "fw_update_begin"
    => \E u \in Tasks \ {Head(wire).task} : pc[u] \in InFlight
=============================================================================
