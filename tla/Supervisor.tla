----------------------------- MODULE Supervisor -----------------------------
(***************************************************************************)
(* Who runs the agent: AgentSupervisor (service.ts) as main.ts drives it,  *)
(* the agent processes it spawns, the port they compete for, and           *)
(* AgentClient (ipc.ts), which connects to whoever has the port.           *)
(*                                                                         *)
(* Node runs one callback at a time, so a callback up to its next await is *)
(* one step; processes start, bind, die and report their exit between any  *)
(* two.  Delays are left out: a timer that is set may fire.                *)
(***************************************************************************)
EXTENDS Naturals, FiniteSets

CONSTANTS
  Pids,         \* process numbers, reused; as many agents as may live at once
  Modes,        \* device transports: cable, bluetooth, auto
  MaxCrashes,   \* bound: agents that die by themselves
  MaxRestarts,  \* bound: restarts the user asks for
  MaxOthers     \* bound: what others do: take the port, take the binary away

NoOne == "none"     \* nobody has the port; no child; no connection
NoProcess == "no process"  \* a child whose binary could not be run
Peer  == "peer"     \* a dashd agent the supervisor has not spawned
Squatter == "squatter"  \* a foreign process on the port

ASSUME SupervisorAssumption ==
  /\ {NoOne, NoProcess, Peer, Squatter} \cap Pids = {}
  /\ "unset" \notin Modes
  /\ {MaxCrashes, MaxRestarts, MaxOthers} \subseteq Nat

VARIABLES
  binary,    \* the agent's binary is where the app looks for it
  agent,     \* per process: "free", "starting", "serving", "ending" (it has had
             \* SIGTERM), or dead with its exit unreported: "dead", "dead3"
  env,       \* DASHD_TRANSPORT of the process
  port,      \* who listens on the IPC port
  child,     \* this.child
  starting,  \* calls of start() that await their probe: 0 or 1
  timer,     \* timers set and not fired that this.restartTimer holds: 0 or 1
  stray,     \* timers that have not fired and that restartTimer has lost
  probes,    \* exit handlers that await their probe
  stopping,  \* this.stopping
  gone,      \* the app has exited
  status,    \* what onStatusChange said last: "off", "own", "peer", or "missing":
             \* not running, as the binary was not found
  pref,      \* transportMode in the UI preferences
  bootEnv,   \* the mode put into the options when the app started
  link,      \* AgentClient: "none" (not made yet), "waiting", "hello", "stable", "closed"
  linkTo,    \* the listener its socket is connected to
  asked,     \* history: the mode in force when a restart was last asked for
  doubled,   \* history: a restart spawned while another spawn was due
  late,      \* history: stop() came while start() awaited its probe
  crashes, restarts, others

procVars   == <<agent, env, port, child, starting, timer, stray, probes, stopping,
                status, doubled, late>>
clientVars == <<link, linkTo>>
bounds     == <<crashes, restarts, others>>
vars == <<binary, procVars, gone, pref, bootEnv, clientVars, asked, bounds>>

Live(p)    == agent[p] \in {"starting", "serving", "ending"}
Agents     == {p \in Pids : agent[p] \in {"serving", "ending"}} \cup {Peer}
Serving    == port \in {p \in Pids : agent[p] = "serving"} \cup {Peer}

\* start() up to its first await, where bootAgent calls it: without the binary it
\* says so and returns, with no probe, no spawn and no timer to follow, and the
\* client is made at once; with it, the probe goes out.
StartCalled ==
  IF binary
    THEN starting = 1 /\ status = "off" /\ link = "none"
    ELSE starting = 0 /\ status = "missing" /\ link = "waiting"

Init ==
  /\ binary \in BOOLEAN
  /\ StartCalled
  /\ agent = [p \in Pids |-> "free"]
  /\ env = [p \in Pids |-> "unset"]
  /\ port = NoOne /\ child = NoOne
  /\ timer = 0 /\ stray = 0 /\ probes = 0
  /\ stopping = FALSE /\ gone = FALSE
  /\ pref \in Modes /\ bootEnv = pref /\ asked = "unset"
  /\ linkTo = NoOne
  /\ doubled = FALSE /\ late = FALSE
  /\ crashes = 0 /\ restarts = 0 /\ others = 0

-----------------------------------------------------------------------------
(* The supervisor                                                          *)

Free   == {p \in Pids : agent[p] = "free"}
NewPid == CHOOSE p \in Pids : Free = {} \/ p \in Free

\* spawn(): this.child is overwritten, and shown as running; the options are those
\* of the start.  A binary that is gone makes a child all the same: it emits an
\* error nobody handles, and never an exit.
Mut_NoTakeOver(p) ==
  /\ status' = "own"
  /\ \/ /\ binary /\ p \in Free
        /\ agent' = [agent EXCEPT ![p] = "starting"]
        /\ env' = [env EXCEPT ![p] = bootEnv]
        /\ child' = child
     \/ ~binary /\ child' = NoProcess /\ UNCHANGED <<agent, env>>
Spawn(p) ==
  /\ status' = "own"
  /\ \/ /\ binary /\ p \in Free
        /\ agent' = [agent EXCEPT ![p] = "starting"]
        /\ env' = [env EXCEPT ![p] = bootEnv]
        /\ child' = p
     \/ ~binary /\ child' = NoProcess /\ UNCHANGED <<agent, env>>

\* setTimeout(spawn): the handle of a timer already set is lost.
Mut_ForgetsTimer ==
  /\ timer' = timer
  /\ stray' = stray
SetTimer ==
  /\ timer' = 1
  /\ stray' = stray + timer

\* Then: attach to an agent that answers the probe; none may, even if one
\* serves, within its 600 ms.  `stopping` is not looked at again.  bootAgent
\* then makes the client.
Start ==
  /\ starting > 0 /\ ~gone
  /\ starting' = 0
  /\ \/ Serving /\ status' = "peer" /\ UNCHANGED <<agent, env, child>>
     \/ Spawn(NewPid)
  /\ link' = "waiting"
  /\ UNCHANGED <<port, timer, stray, probes, stopping, gone, pref, bootEnv, binary,
                 linkTo, asked, doubled, late, bounds>>

\* The exit handler, whichever child it was.  Code 3 is "the port is busy".
Mut_OnlyCurrent(p) ==
  /\ agent[p] \in {"dead", "dead3"} /\ ~gone
  /\ agent' = [agent EXCEPT ![p] = "free"]
  /\ child' = NoOne
  /\ status' = "off"
  /\ \/ (stopping \/ child # p) /\ UNCHANGED <<timer, stray, probes>>
     \/ ~stopping /\ child = p /\ agent[p] = "dead3"
        /\ probes' = probes + 1 /\ UNCHANGED <<timer, stray>>
     \/ ~stopping /\ child = p /\ agent[p] = "dead" /\ SetTimer /\ UNCHANGED probes
  /\ UNCHANGED <<env, port, starting, stopping, gone, pref, bootEnv, binary, clientVars,
                 asked, doubled, late, bounds>>
Exited(p) ==
  /\ agent[p] \in {"dead", "dead3"} /\ ~gone
  /\ agent' = [agent EXCEPT ![p] = "free"]
  /\ child' = NoOne
  /\ status' = "off"
  /\ \/ stopping /\ UNCHANGED <<timer, stray, probes>>
     \/ ~stopping /\ agent[p] = "dead3" /\ probes' = probes + 1 /\ UNCHANGED <<timer, stray>>
     \/ ~stopping /\ agent[p] = "dead" /\ SetTimer /\ UNCHANGED probes
  /\ UNCHANGED <<env, port, starting, stopping, gone, pref, bootEnv, binary, clientVars,
                 asked, doubled, late, bounds>>

\* The probe after code 3: attach to a peer, try again when it is a squatter.
Reprobed ==
  /\ probes > 0 /\ ~gone
  /\ probes' = probes - 1
  /\ \/ stopping /\ UNCHANGED <<status, timer, stray>>
     \/ ~stopping /\ Serving /\ status' = "peer" /\ UNCHANGED <<timer, stray>>
     \/ ~stopping /\ status' = "off" /\ SetTimer
  /\ UNCHANGED <<agent, env, port, child, starting, stopping, gone, pref, bootEnv,
                 binary, clientVars, asked, doubled, late, bounds>>

\* A respawn timer fires, the one restartTimer holds or one it has lost.
TimerFires ==
  /\ ~gone
  /\ \/ timer > 0 /\ timer' = 0 /\ stray' = stray
     \/ stray > 0 /\ stray' = stray - 1 /\ timer' = timer
  /\ Spawn(NewPid)
  /\ UNCHANGED <<port, starting, probes, stopping, gone, pref, bootEnv, binary,
                 clientVars, asked, doubled, late, bounds>>

\* SIGTERM; a process that is already dead does not notice.
Terminate(p) ==
  agent' = [q \in Pids |-> IF q = p /\ Live(q) THEN "ending" ELSE agent[q]]

Due      == starting + timer + stray + probes
SpawnDue == Due > 0

\* restart(), from the tray or the connection pane: the child is asked to end
\* and the exit handler brings up the next; without a child one is spawned now.
Restart ==
  /\ ~stopping /\ ~gone
  /\ restarts < MaxRestarts
  /\ restarts' = restarts + 1
  /\ asked' = pref
  /\ \/ child # NoOne /\ Terminate(child) /\ UNCHANGED <<env, child, status, doubled>>
     \/ child = NoOne /\ Spawn(NewPid)
        /\ doubled' = (doubled \/ SpawnDue)
  /\ UNCHANGED <<port, starting, timer, stray, probes, stopping, gone, pref, bootEnv,
                 binary, clientVars, late, crashes, others>>

\* before-quit: the client is closed, then stop().
Mut_TimerStays ==
  /\ ~stopping
  /\ stopping' = TRUE
  /\ late' = (starting > 0)
  /\ Terminate(child)
  /\ link' = (IF link = "none" THEN "none" ELSE "closed") /\ linkTo' = NoOne
  /\ UNCHANGED <<env, port, child, starting, timer, stray, probes, gone, status, pref,
                 bootEnv, binary, asked, doubled, bounds>>
Stop ==
  /\ ~stopping
  /\ stopping' = TRUE
  /\ late' = (starting > 0)
  /\ timer' = 0
  /\ Terminate(child)
  /\ link' = (IF link = "none" THEN "none" ELSE "closed") /\ linkTo' = NoOne
  /\ UNCHANGED <<env, port, child, starting, stray, probes, gone, status, pref, bootEnv,
                 binary, asked, doubled, bounds>>

\* Electron does not await the handler of before-quit: the app may be gone
\* before the child is, and with it every timer, probe and exit handler.
AppExits ==
  /\ stopping /\ ~gone
  /\ gone' = TRUE
  /\ link' = "closed" /\ linkTo' = NoOne
  /\ UNCHANGED <<procVars, pref, bootEnv, binary, asked, bounds>>

\* ConnectionPane.applyMode: the preference is written, a restart follows.
SetPrefs(m) ==
  /\ ~stopping /\ m # pref
  /\ restarts < MaxRestarts
  /\ pref' = m
  /\ UNCHANGED <<procVars, gone, bootEnv, binary, clientVars, asked, bounds>>

-----------------------------------------------------------------------------
(* The agent processes, and others that want the port                      *)

\* IPCServer.start(): the port is free, or the process exits with code 3.
Bind(p) ==
  /\ agent[p] = "starting"
  /\ \/ port = NoOne /\ port' = p /\ agent' = [agent EXCEPT ![p] = "serving"]
     \/ port # NoOne /\ port' = port /\ agent' = [agent EXCEPT ![p] = "dead3"]
  /\ UNCHANGED <<env, child, starting, timer, stray, probes, stopping, gone, status,
                 pref, bootEnv, binary, clientVars, asked, doubled, late, bounds>>

Freed(p) == IF port = p THEN NoOne ELSE port

Die(p) ==
  /\ agent' = [agent EXCEPT ![p] = "dead"]
  /\ port' = Freed(p)
  /\ UNCHANGED <<env, child, starting, timer, stray, probes, stopping, gone, status,
                 pref, bootEnv, binary, clientVars, asked, doubled, late, restarts,
                 others>>

Crash(p) ==
  /\ agent[p] \in {"starting", "serving"}
  /\ crashes < MaxCrashes
  /\ crashes' = crashes + 1
  /\ Die(p)

\* SIGTERM sets stop_evt and _main returns; stop() kills what takes too long.
End(p) ==
  /\ agent[p] = "ending"
  /\ Die(p)
  /\ UNCHANGED crashes

OtherTakesPort ==
  /\ port = NoOne /\ others < MaxOthers
  /\ others' = others + 1
  /\ port' \in {Peer, Squatter}
  /\ UNCHANGED <<agent, env, child, starting, timer, stray, probes, stopping, gone,
                 status, pref, bootEnv, binary, clientVars, asked, doubled, late,
                 crashes, restarts>>

\* An app that is rebuilt, moved or quarantined: spawn() looks again each time.
BinaryGoes ==
  /\ binary /\ others < MaxOthers
  /\ others' = others + 1
  /\ binary' = FALSE
  /\ UNCHANGED <<procVars, gone, pref, bootEnv, clientVars, asked, crashes, restarts>>

BinaryComes ==
  /\ ~binary
  /\ binary' = TRUE
  /\ UNCHANGED <<procVars, gone, pref, bootEnv, clientVars, asked, bounds>>

OtherLeaves ==
  /\ port \in {Peer, Squatter}
  /\ port' = NoOne
  /\ UNCHANGED <<agent, env, child, starting, timer, stray, probes, stopping, gone,
                 status, pref, bootEnv, binary, clientVars, asked, doubled, late,
                 bounds>>

-----------------------------------------------------------------------------
(* The client                                                              *)

\* connectOnce: the socket opens to whoever listens, and the hello is sent.
Connect ==
  /\ link = "waiting" /\ port # NoOne
  /\ link' = "hello" /\ linkTo' = port
  /\ UNCHANGED <<procVars, gone, pref, bootEnv, binary, asked, bounds>>

Connected == linkTo # NoOne /\ linkTo = port

\* hello_ack, which only a dashd agent sends.
HelloAck ==
  /\ link = "hello" /\ Connected /\ linkTo \in Agents
  /\ link' = "stable"
  /\ UNCHANGED <<procVars, gone, pref, bootEnv, binary, linkTo, asked, bounds>>

\* The close of the current socket: its process has died.
Mut_NoReconnect ==
  /\ link \in {"hello", "stable"} /\ ~Connected
  /\ link' = (IF link = "hello" THEN "waiting" ELSE link)
  /\ linkTo' = NoOne
  /\ UNCHANGED <<procVars, gone, pref, bootEnv, binary, asked, bounds>>
Disconnected ==
  /\ link \in {"hello", "stable"} /\ ~Connected
  /\ link' = "waiting"
  /\ linkTo' = NoOne
  /\ UNCHANGED <<procVars, gone, pref, bootEnv, binary, asked, bounds>>

Next ==
  \/ Start \/ Reprobed \/ TimerFires \/ Restart \/ Stop \/ AppExits
  \/ \E p \in Pids : Exited(p) \/ Bind(p) \/ Crash(p) \/ End(p)
  \/ \E m \in Modes : SetPrefs(m)
  \/ OtherTakesPort \/ OtherLeaves \/ BinaryGoes \/ BinaryComes
  \/ Connect \/ HelloAck \/ Disconnected

\* Timers fire, probes and connections end, processes make progress; a
\* squatter gives the port up some time.  Nobody has to ask, quit or crash, and
\* nobody has to install the binary.
Spec ==
  /\ Init
  /\ [][Next]_vars
  /\ WF_vars(Start) /\ WF_vars(Reprobed) /\ WF_vars(TimerFires)
  /\ \A p \in Pids : WF_vars(Exited(p)) /\ WF_vars(Bind(p)) /\ WF_vars(End(p))
  /\ WF_vars(port = Squatter /\ OtherLeaves)
  /\ WF_vars(Connect) /\ WF_vars(HelloAck) /\ WF_vars(Disconnected)
-----------------------------------------------------------------------------
Types ==
  /\ binary \in BOOLEAN
  /\ agent \in [Pids -> {"free", "starting", "serving", "ending", "dead", "dead3"}]
  /\ env \in [Pids -> Modes \cup {"unset"}]
  /\ port \in Pids \cup {NoOne, Peer, Squatter}
  /\ child \in Pids \cup {NoOne, NoProcess}
  /\ starting \in 0 .. 1 /\ timer \in 0 .. 1 /\ stray \in Nat /\ probes \in Nat
  /\ stopping \in BOOLEAN /\ gone \in BOOLEAN /\ status \in {"off", "own", "peer", "missing"}
  /\ pref \in Modes /\ bootEnv \in Modes /\ asked \in Modes \cup {"unset"}
  /\ link \in {"none", "waiting", "hello", "stable", "closed"}
  /\ linkTo \in Pids \cup {NoOne, Peer, Squatter}
  /\ doubled \in BOOLEAN /\ late \in BOOLEAN
  /\ crashes \in Nat /\ restarts \in Nat /\ others \in Nat

\* The spawns that are due and the child.
Pending == Due + IF child = NoOne THEN 0 ELSE 1

\* The child and the spawns that are due are one, and no timer is out of reach.
Single == ~doubled => Pending <= 1 /\ stray = 0

\* Every variable has its type, and respawns do not multiply by themselves.
TypeOK == Types /\ Single

\* service.ts: the probe is there so as not to run "a duplicate that would fail
\* to bind": every process spawned is the one this.child holds, so that restart()
\* and stop() reach it, unless a restart came while another spawn was due.
OneAgent == ~doubled => \A p \in Pids : agent[p] # "free" => p = child

\* The supervisor's promise is to restart: while it shows the agent as not
\* running, a timer or a probe is out that will spawn again, unless it has said
\* that the binary was not found when the app started, after which nothing is
\* due; while it shows a child of its own, it has one (which may be one whose
\* binary could not be run).
NeverIdle ==
  /\ ~stopping /\ status = "off" => SpawnDue
  /\ status = "own" => child # NoOne

\* Quitting ends what was spawned and lets nothing be spawned later, whenever it
\* comes, but for a start() still awaiting its probe and for doubled spawns.
QuitCovers ==
  stopping /\ ~doubled /\ ~late
    => /\ \A p \in Pids : agent[p] \in {"free", "ending", "dead", "dead3"}
       /\ starting = 0 /\ timer = 0 /\ stray = 0

\* However agents die and whoever takes the port for a while, an agent serves
\* again and again, unless the supervisor took a peer for its agent, the app
\* quits, or the binary was missing: when the app started, or when its child was
\* spawned.  (Of a peer's death, and of a spawn that failed, it learns nothing.)
AgentAgain ==
  []<>(Serving \/ status \in {"peer", "missing"} \/ child = NoProcess \/ stopping)

\* While one agent keeps serving, the client gets through to it and stays.
ClientReaches == <>[](Serving /\ link # "closed") => <>[](link = "stable" /\ Connected)

\* main.ts: "Changing it in the UI rewrites this pref and restarts the agent, so
\* it re-reads it": what is spawned after a restart has the mode then in force.
RestartAppliesMode ==
  [][\A p \in Pids : agent[p] = "free" /\ agent'[p] = "starting" /\ asked' # "unset"
       => env'[p] = asked']_vars
=============================================================================
