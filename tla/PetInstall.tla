----------------------------- MODULE PetInstall ------------------------------
(***************************************************************************)
(* Installing a pet end to end: the agent's install tasks (_cmd_install in *)
(* main.py, stream_to_device in pets/install.py), the outbound queue and   *)
(* the link loop they share, the link, and the device of PetStore.  Tasks  *)
(* are the installs a user asks for, one `pets_install` each.              *)
(*                                                                         *)
(* A timeout may fire whenever its future has no result; with Timely =     *)
(* TRUE only when no answer is on its way.                                 *)
(***************************************************************************)
EXTENDS PetStore, FiniteSetsExt, SequencesExt

CONSTANTS
  Tasks,      \* installs
  NoTask,
  Asks,       \* what can be asked for: a pet, by its slug or by its URL
  Window,     \* chunks outstanding at most
  TxMax,      \* capacity of the outbound command queue
  Timely,     \* BOOLEAN, see above
  MaxUserCmds \* bound: pets made active or removed by the user

ASSUME InstallAssumption ==
  /\ Asks \subseteq [pet : Pets, url : BOOLEAN]
  /\ NoTask \notin Tasks
  /\ Window \in Nat \ {0}
  /\ TxMax \in Nat \ {0}
  /\ Timely \in BOOLEAN
  /\ MaxUserCmds \in Nat

VARIABLES
  pc,         \* where each task is: see Busy
  ask,        \* what it was asked for
  started,    \* the result of its pet_install_started waiter
  next,       \* chunks it has sent
  acks,       \* its chunk waiters: seq -> result
  txq,        \* AgentRuntime._tx_queue
  wire,       \* lines sent and not yet handled by the device
  events,     \* device events not yet read by the agent
  link,       \* "up" or "down"
  hostConn,   \* what the agent believes of it
  userCmds,   \* commands of the user so far
  misled      \* history: a task took the answer to another install for its own

taskVars == <<pc, ask, started, next, acks>>
hostVars == <<taskVars, txq, hostConn>>
linkVars == <<wire, events, link>>
ivars    == <<petVars, hostVars, linkVars, userCmds, misled>>

Busy == {"fetch", "start", "send", "full"}
Results == {"none", "ok", "refused", "late"}
NoAsk == [pet |-> "none", url |-> FALSE]
Result(ok) == IF ok THEN "ok" ELSE "refused"

Cmd(name, t, slug, seq, data) ==
  [name |-> name, task |-> t, slug |-> slug, seq |-> seq, data |-> data]
StartCmd(t)    == Cmd("pet_install_start", t, ask[t].pet, 0, <<>>)
ChunkCmd(t, s) == Cmd("pet_install_chunk", t, "none", s, Image(ask[t].pet)[s + 1])
EndCmd(t)      == Cmd("pet_install_end", t, "none", 0, <<>>)

IInit ==
  /\ Init
  /\ pc = [t \in Tasks |-> "idle"] /\ ask = [t \in Tasks |-> NoAsk]
  /\ started = [t \in Tasks |-> "none"] /\ next = [t \in Tasks |-> 0]
  /\ acks = [t \in Tasks |-> <<>>]
  /\ txq = <<>> /\ wire = <<>> /\ events = <<>>
  /\ link = "down" /\ hostConn = FALSE /\ userCmds = 0 /\ misled = FALSE

-----------------------------------------------------------------------------
(* The install task                                                        *)

\* _tx_put: a full queue loses its oldest command.
TxPut(cmd) == txq' = Append(IF Len(txq) >= TxMax THEN Tail(txq) ELSE txq, cmd)

At(t, where) == pc' = [pc EXCEPT ![t] = where]

\* _purge_tx_queue: the commands of installs leave, the others keep their order.
Purged(q) ==
  LET kept[i \in 0 .. Len(q)] ==
        IF i = 0 THEN <<>>
        ELSE IF q[i].task = NoTask THEN Append(kept[i - 1], q[i]) ELSE kept[i - 1]
  IN  kept[Len(q)]

\* The waiters are cancelled and the install commands still queued purged.
Ends(t, how) ==
  /\ At(t, how)
  /\ acks' = [acks EXCEPT ![t] = <<>>]
  /\ txq' = Purged(txq)
  /\ UNCHANGED <<ask, started, next>>

Fails(t) == Ends(t, "failed")

Mut_AnyTime == TRUE
\* The Pet panel disables its Install buttons while an install is under way.
MayAsk == \A u \in Tasks : pc[u] \notin Busy

Ask(t) ==
  /\ pc[t] = "idle"
  /\ MayAsk
  /\ \E a \in Asks : ask' = [ask EXCEPT ![t] = a]
  /\ At(t, "fetch")
  /\ UNCHANGED <<started, next, acks, txq>>

\* No such pet, or no way to get it: nothing was said to the device.
FetchFails(t) == pc[t] = "fetch" /\ Ends(t, "unfetched")

Fetched(t) ==
  /\ pc[t] = "fetch"
  /\ At(t, "start")
  /\ TxPut(StartCmd(t))
  /\ UNCHANGED <<ask, started, next, acks>>

StartAnswered(t) ==
  /\ pc[t] = "start"
  /\ started[t] # "none"
  /\ IF started[t] = "ok"
       THEN At(t, "send") /\ UNCHANGED <<ask, started, next, acks, txq>>
       ELSE Fails(t)

\* The chunk waiters still in `pending`, and those of them with a result.
Pending(t) == DOMAIN acks[t]
Settled(t) == {s \in Pending(t) : acks[t][s] # "none"}
Without(f, S) == [s \in DOMAIN f \ S |-> f[s]]

\* Register a waiter beside those that remain, then send the chunk.
SendChunk(t, rest) ==
  /\ acks' = [acks EXCEPT ![t] =
       [s \in DOMAIN rest \cup {next[t]} |-> IF s = next[t] THEN "none" ELSE rest[s]]]
  /\ TxPut(ChunkCmd(t, next[t]))
  /\ next' = [next EXCEPT ![t] = @ + 1]
  /\ At(t, "send")
  /\ UNCHANGED <<ask, started>>

Mut_OneMore(rest) == Cardinality(DOMAIN rest) <= Window
HasRoom(rest) == Cardinality(DOMAIN rest) < Window

\* _drain_done(), and the chunk if the window has room for it.
Drain(t) ==
  /\ pc[t] = "send"
  /\ next[t] < Size[ask[t].pet]
  /\ LET rest == Without(acks[t], Settled(t))
     IN  IF \E s \in Settled(t) : acks[t][s] # "ok"
           THEN Fails(t)
           ELSE IF HasRoom(rest)
                  THEN SendChunk(t, rest)
                  ELSE /\ At(t, "full")
                       /\ acks' = [acks EXCEPT ![t] = rest]
                       /\ UNCHANGED <<ask, started, next, txq>>

\* The window is full: wait for the oldest chunk and look at no other.
WindowOpens(t) ==
  /\ pc[t] = "full"
  /\ LET s == Min(Pending(t))
     IN  /\ acks[t][s] # "none"
         /\ IF acks[t][s] = "ok" THEN SendChunk(t, Without(acks[t], {s})) ELSE Fails(t)

\* All chunks are sent: the acknowledgements that remain, oldest first.
LastAcks(t) ==
  /\ pc[t] = "send"
  /\ next[t] = Size[ask[t].pet]
  /\ Pending(t) # {}
  /\ LET s == Min(Pending(t))
     IN  /\ acks[t][s] # "none"
         /\ IF acks[t][s] = "ok"
              THEN /\ acks' = [acks EXCEPT ![t] = Without(@, {s})]
                   /\ UNCHANGED <<pc, ask, started, next, txq>>
              ELSE Fails(t)

\* pets_install_complete, as soon as the end is queued.
Finish(t) ==
  /\ pc[t] = "send"
  /\ next[t] = Size[ask[t].pet]
  /\ Pending(t) = {}
  /\ At(t, "complete")
  /\ TxPut(EndCmd(t))
  /\ UNCHANGED <<ask, started, next, acks>>

\* Some answer to t may still come.
AnswerOnItsWay(t) ==
  events # <<>> \/ \E i \in 1 .. Len(txq \o wire) : (txq \o wire)[i].task = t

StartTimeout(t) ==
  /\ pc[t] = "start"
  /\ started[t] = "none"
  /\ Timely => ~AnswerOnItsWay(t)
  /\ Fails(t)

Mut_NoTimeout(t, s) == FALSE
\* The 8 s of each chunk waiter run from the moment it is registered.
MayExpire(t, s) == acks[t][s] = "none" /\ (Timely => ~AnswerOnItsWay(t))

AckTimeout(t) ==
  /\ \E s \in Pending(t) :
       MayExpire(t, s) /\ acks' = [acks EXCEPT ![t][s] = "late"]
  /\ UNCHANGED <<pc, ask, started, next, txq>>

Elsewhere == UNCHANGED <<petVars, hostConn, linkVars, userCmds, misled>>

TaskStep(t) ==
  /\ \/ Fetched(t) \/ FetchFails(t) \/ StartAnswered(t) \/ StartTimeout(t)
     \/ Drain(t) \/ WindowOpens(t) \/ LastAcks(t) \/ Finish(t) \/ AckTimeout(t)
  /\ Elsewhere

UserAsks(t) == Ask(t) /\ Elsewhere

\* Passed on to the device: make a pet active, or remove one.
UserCmd ==
  /\ userCmds < MaxUserCmds
  /\ userCmds' = userCmds + 1
  /\ \E p \in Pets :
       \/ TxPut(Cmd("pet_remove", NoTask, p, 0, <<>>))
       \/ \E s \in {p, "default"} : TxPut(Cmd("pet_set_active", NoTask, s, 0, <<>>))
  /\ UNCHANGED <<petVars, taskVars, hostConn, linkVars, misled>>

-----------------------------------------------------------------------------
(* The link loop                                                           *)

\* A send that fails loses its command; _reconnect drops the queued ones.
LinkSend ==
  /\ hostConn
  /\ txq # <<>>
  /\ IF link = "up"
       THEN wire' = Append(wire, Head(txq)) /\ txq' = Tail(txq) /\ UNCHANGED hostConn
       ELSE hostConn' = FALSE /\ txq' = <<>> /\ UNCHANGED wire
  /\ UNCHANGED <<petVars, taskVars, events, link, userCmds, misled>>

LinkConnect ==
  /\ ~hostConn
  /\ link = "up"
  /\ hostConn' = TRUE
  /\ events' = <<>>
  /\ UNCHANGED <<petVars, taskVars, txq, wire, link, userCmds, misled>>

\* wait_started compares the device's slug with what the user typed.
StartedMatches(t, ev) ==
  ev.name = "pet_install_started" /\ ev.slug = ask[t].pet /\ ~ask[t].url

\* Every chunk waiter of that number, whichever task it belongs to.
AckMatches(s, ev) == ev.name = "pet_install_chunk_ack" /\ ev.seq = s

LinkRead ==
  /\ hostConn
  /\ events # <<>>
  /\ events' = Tail(events)
  /\ LET ev == Head(events)
     IN  /\ started' = [t \in Tasks |->
                IF pc[t] = "start" /\ started[t] = "none" /\ StartedMatches(t, ev)
                  THEN Result(ev.ok) ELSE started[t]]
         /\ acks' = [t \in Tasks |-> [s \in Pending(t) |->
                IF acks[t][s] = "none" /\ AckMatches(s, ev)
                  THEN Result(ev.ok) ELSE acks[t][s]]]
         /\ misled' = (misled \/ \E t \in Tasks : started'[t] # started[t] /\ ev.task # t)
  /\ UNCHANGED <<petVars, pc, ask, next, txq, hostConn, wire, link, userCmds>>

-----------------------------------------------------------------------------
(* The device and the link                                                 *)

DeviceHandles(cmd) ==
  \/ cmd.name = "pet_install_start" /\ PetInstallStart(cmd.slug, Size[cmd.slug])
  \/ cmd.name = "pet_install_chunk" /\ PetInstallChunk(cmd.seq, cmd.data)
  \/ cmd.name = "pet_install_end"   /\ PetInstallEnd
  \/ cmd.name = "pet_set_active"    /\ PetSetActive(cmd.slug)
  \/ cmd.name = "pet_remove"        /\ PetRemove(cmd.slug)

\* The answers some waiter of the agent listens to.  None says whose command it
\* answers: task is for misled only.
Event(name, cmd) ==
  <<[name |-> name, slug |-> cmd.slug, seq |-> cmd.seq, ok |-> answer', task |-> cmd.task]>>
Awaited(cmd) ==
  CASE cmd.name = "pet_install_start" -> Event("pet_install_started", cmd)
    [] cmd.name = "pet_install_chunk" -> Event("pet_install_chunk_ack", cmd)
    [] OTHER -> <<>>

DeviceStep ==
  /\ wire # <<>>
  /\ DeviceHandles(Head(wire))
  /\ wire' = Tail(wire)
  /\ events' = IF link = "up" THEN events \o Awaited(Head(wire)) ELSE events
  /\ UNCHANGED <<hostVars, link, userCmds, misled>>

LinkUp ==
  /\ link = "down"
  /\ link' = "up"
  /\ UNCHANGED <<petVars, hostVars, wire, events, userCmds, misled>>

LinkFault == Spend(1) /\ UNCHANGED <<disk, fs, session, look, answer, userCmds, misled>>

\* Each direction loses a suffix of what was under way.
LinkDrop ==
  /\ link = "up"
  /\ link' = "down"
  /\ \E i \in 0 .. Len(wire) : wire' = SubSeq(wire, 1, i)
  /\ \E i \in 0 .. Len(events) : events' = SubSeq(events, 1, i)
  /\ LinkFault
  /\ UNCHANGED hostVars

\* A line the device cannot parse.
LineLost ==
  /\ \E i \in 1 .. Len(wire) : wire' = RemoveAt(wire, i)
  /\ LinkFault
  /\ UNCHANGED <<hostVars, events, link>>

\* The end is cut short only when the loop is at it.
DevicePowerLoss ==
  /\ \/ \E k \in 0 .. s_install_received : Boots(Torn(k), 1)
     \/ wire # <<>> /\ Head(wire).name = "pet_install_end" /\ EndCutShort
  /\ wire' = <<>>
  /\ link' = "down"
  /\ UNCHANGED <<hostVars, events, userCmds, misled>>

\* The agent process dies and its supervisor starts another.
AgentCrash ==
  /\ pc' = [t \in Tasks |-> IF pc[t] \in Busy THEN "gone" ELSE pc[t]]
  /\ acks' = [t \in Tasks |-> <<>>]
  /\ txq' = <<>>
  /\ hostConn' = FALSE
  /\ LinkFault
  /\ UNCHANGED <<ask, started, next, linkVars>>

-----------------------------------------------------------------------------
INext ==
  \/ \E t \in Tasks : UserAsks(t) \/ TaskStep(t)
  \/ UserCmd
  \/ LinkSend \/ LinkConnect \/ LinkRead
  \/ DeviceStep
  \/ LinkUp \/ LinkDrop \/ LineLost \/ DevicePowerLoss \/ AgentCrash

\* asyncio runs a task whose future is resolved, and fires its timers.
ISpec ==
  /\ IInit
  /\ [][INext]_ivars
  /\ \A t \in Tasks : WF_ivars(TaskStep(t))

-----------------------------------------------------------------------------
\* Every variable of device, agent and link has its type.
ITypeOK ==
  /\ \A n \in Names : \A f \in {disk.tmp[n], disk.dpet[n]} :
       f = NoFile \/ \A i \in DOMAIN f : f[i] \in Blocks
  /\ s_install_file \in Names \cup {"none"}
  /\ s_install_received = s_install_expected_seq
  /\ s_install_active /\ s_install_file # "none"
       => Len(disk.tmp[s_install_file]) = s_install_received
  /\ s_active_slug \in Names \cup {"default"} /\ unread \in BOOLEAN
  /\ pc \in [Tasks -> Busy \cup {"idle", "unfetched", "failed", "complete", "gone"}]
  /\ \A t \in Tasks : Cardinality(Pending(t)) <= Window
  /\ \A t \in Tasks : \A s \in Pending(t) : acks[t][s] \in Results
  /\ Len(txq) <= TxMax

\* The pets on the device are whole: a .dpet file holds the image of the pet it
\* is named after, whatever is lost, late, repeated or cut short.  The agent
\* knows the answer to a start by its slug alone: so it is until a task takes
\* that of an earlier install for its own.
WholePets ==
  ~misled => \A n \in Names : disk.dpet[n] # NoFile => n \in Pets /\ disk.dpet[n] = Image(n)

\* An install ends with a verdict (or with its agent), whatever is lost.
EveryInstallEnds ==
  \A t \in Tasks : (pc[t] \in Busy) ~> (pc[t] \notin Busy)

\* README: "Direct slug or URL entry works too": an install during which nothing
\* went wrong does not fail.
InstallsWork ==
  faults = 0 => \A t \in Tasks : pc[t] # "failed"
=============================================================================
