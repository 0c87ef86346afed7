-------------------------- MODULE SupervisorProofs --------------------------
(***************************************************************************)
(* For any number of processes, crashes and restarts, the supervisor keeps *)
(* hold of what it spawned, never idles unless it was started without the  *)
(* agent's binary, and covers what it spawned when it quits.  The          *)
(* invariant adds to these that without a doubled spawn the child and the  *)
(* spawns that are due are one, and that no timer is out of its reach.     *)
(***************************************************************************)
EXTENDS Supervisor, TLAPS

Inv == TypeOK /\ OneAgent /\ NeverIdle /\ QuitCovers

\* The supervisor, its processes and its client at the start.
LEMMA InitInv == Init => Inv
<1> SUFFICES ASSUME Init PROVE Inv
  OBVIOUS
<1>1. agent \in [Pids -> {"free", "starting", "serving", "ending", "dead", "dead3"}]
      /\ env \in [Pids -> Modes \cup {"unset"}]
  BY DEF Init
<1>a. /\ port = NoOne /\ child = NoOne /\ linkTo = NoOne
      /\ timer = 0 /\ stray = 0 /\ probes = 0 /\ binary \in BOOLEAN
      /\ stopping \in BOOLEAN /\ gone \in BOOLEAN /\ doubled \in BOOLEAN /\ late \in BOOLEAN
  BY DEF Init
<1>b. /\ pref \in Modes /\ bootEnv \in Modes /\ asked = "unset"
      /\ crashes = 0 /\ restarts = 0 /\ others = 0
  BY DEF Init
<1>c. \/ starting = 1 /\ status = "off" /\ link = "none"
      \/ starting = 0 /\ status = "missing" /\ link = "waiting"
  BY DEF Init, StartCalled
<1>t. Types  BY <1>1, <1>a, <1>b, <1>c DEF Types
<1>2. Due = starting /\ Pending = starting  BY <1>a, <1>c DEF Due, Pending
<1>3. OneAgent /\ QuitCovers  BY DEF Init, OneAgent, QuitCovers
<1>4. NeverIdle  BY <1>2, <1>c DEF NeverIdle, SpawnDue
<1>5. QED  BY <1>t, <1>a, <1>c, <1>2, <1>3, <1>4 DEF Inv, TypeOK, Single, Init

\* start() attaches, or spawns the first agent.
LEMMA StartInv == ASSUME Inv, Start PROVE Inv'
<1>1. Types'
  BY SupervisorAssumption DEF Inv, TypeOK, Types, Start, Spawn, Free, bounds
<1>2. Single'
  BY DEF Inv, Start, TypeOK, Types, Single, Spawn, Pending, Due
<1>3. OneAgent'
  BY SupervisorAssumption DEF Inv, Start, TypeOK, Types, Single, OneAgent, Spawn, Free, Pending, Due
<1>4. NeverIdle'
  BY SupervisorAssumption DEF Inv, Start, TypeOK, Types, NeverIdle, Spawn, Free, SpawnDue,
     Due, NoOne, NoProcess
<1>5. QuitCovers'
  BY DEF Inv, Start, TypeOK, Types, Single, OneAgent, QuitCovers, Pending, Due
<1>6. QED  BY <1>1, <1>2, <1>3, <1>4, <1>5 DEF Inv, TypeOK

\* A child's exit is handled: one more spawn is due, and one child less.
LEMMA ExitedInv == ASSUME Inv, NEW p \in Pids, Exited(p) PROVE Inv'
<1>1. Types'
  BY SupervisorAssumption DEF Inv, TypeOK, Types, Exited, SetTimer, bounds, clientVars
<1>2. Single'
  BY SupervisorAssumption DEF Inv, Exited, TypeOK, Types, Single, OneAgent, SetTimer, Pending, Due
<1>3. OneAgent'
  BY DEF Inv, Exited, TypeOK, Types, OneAgent
<1>4. NeverIdle'
  BY DEF Inv, Exited, TypeOK, Types, NeverIdle, SetTimer, SpawnDue, Due
<1>5. QuitCovers'
  BY DEF Inv, Exited, TypeOK, Types, QuitCovers
<1>6. QED  BY <1>1, <1>2, <1>3, <1>4, <1>5 DEF Inv, TypeOK

\* The probe after "port busy" is answered.
LEMMA ReprobedInv == ASSUME Inv, Reprobed PROVE Inv'
<1>1. Types'
  BY DEF Inv, TypeOK, Types, Reprobed, SetTimer, bounds, clientVars
<1>2. Single'
  BY DEF Inv, Reprobed, TypeOK, Types, Single, SetTimer, Pending, Due
<1>3. OneAgent'
  BY DEF Inv, Reprobed, OneAgent
<1>4. NeverIdle'
  BY DEF Inv, Reprobed, TypeOK, Types, NeverIdle, SetTimer, SpawnDue, Due
<1>5. QuitCovers'
  BY DEF Inv, Reprobed, TypeOK, Types, QuitCovers, SetTimer
<1>6. QED  BY <1>1, <1>2, <1>3, <1>4, <1>5 DEF Inv, TypeOK

\* A timer spawns; without a doubled spawn there was no child.
LEMMA TimerInv == ASSUME Inv, TimerFires PROVE Inv'
<1>1. Types'
  BY SupervisorAssumption DEF Inv, TypeOK, Types, TimerFires, Spawn, Free, bounds, clientVars
<1>2. Single'
  BY DEF Inv, TimerFires, TypeOK, Types, Single, Spawn, Pending, Due
<1>3. OneAgent'
  BY SupervisorAssumption DEF Inv, TimerFires, TypeOK, Types, Single, OneAgent, Spawn, Free,
     Pending, Due
<1>4. NeverIdle'
  BY SupervisorAssumption DEF Inv, TimerFires, TypeOK, Types, NeverIdle, Spawn, Free, SpawnDue,
     Due, NoOne, NoProcess
<1>5. QuitCovers'
  BY DEF Inv, TimerFires, TypeOK, Types, QuitCovers
<1>6. QED  BY <1>1, <1>2, <1>3, <1>4, <1>5 DEF Inv, TypeOK

\* A restart ends the child or, without one, spawns.
LEMMA RestartInv == ASSUME Inv, Restart PROVE Inv'
<1>a. doubled' = doubled \/ doubled' = (doubled \/ SpawnDue)
  BY DEF Restart
<1>b. doubled' \in BOOLEAN
  BY <1>a DEF Inv, TypeOK, Types
<1>c. ~doubled' => ~doubled
  BY <1>a, Zenon
<1>d. ~doubled' => child # NoOne \/ ~SpawnDue
  BY Zenon DEF Restart
<1>1. Types'
  <2>1. /\ agent' \in [Pids -> {"free", "starting", "serving", "ending", "dead", "dead3"}]
        /\ env' \in [Pids -> Modes \cup {"unset"}] /\ child' \in Pids \cup {NoOne, NoProcess}
        /\ status' \in {"off", "own", "peer", "missing"}
    BY DEF Inv, TypeOK, Types, Restart, Spawn, Free, Terminate
  <2>2. QED  BY <1>b, <2>1 DEF Inv, TypeOK, Types, Restart, clientVars
<1>2. Single'
  BY <1>c, <1>d DEF Inv, Restart, TypeOK, Types, Single, SpawnDue, Spawn, Pending, Due
<1>3. OneAgent'
  BY SupervisorAssumption DEF Inv, Restart, TypeOK, Types, OneAgent, Spawn, Free, Terminate, Live
<1>4. NeverIdle'
  BY SupervisorAssumption DEF Inv, Restart, TypeOK, Types, NeverIdle, Spawn, Free, SpawnDue,
     Due, NoOne, NoProcess
<1>5. QuitCovers'
  BY DEF Inv, Restart, TypeOK, Types, QuitCovers
<1>6. QED  BY <1>1, <1>2, <1>3, <1>4, <1>5 DEF Inv, TypeOK

\* The app quits: the child is the only process, and nothing else is due.
LEMMA StopInv == ASSUME Inv, Stop PROVE Inv'
<1>a. late' \in BOOLEAN
  BY DEF Stop
<1>b. starting > 0 => late'
  BY Zenon DEF Stop
<1>1. Types'
  BY <1>a, SupervisorAssumption DEF Inv, TypeOK, Types, Stop, Terminate, bounds
<1>2. Single'
  BY DEF Inv, Stop, TypeOK, Types, Single, Pending, Due
<1>3. OneAgent'
  BY DEF Inv, Stop, TypeOK, Types, OneAgent, Terminate, Live
<1>4. NeverIdle'
  BY DEF Inv, Stop, TypeOK, Types, NeverIdle
<1>5. QuitCovers'
  <2>1. ~late' => starting' = 0
    BY <1>b DEF Inv, Stop, TypeOK, Types
  <2>2. ~doubled' => \A p \in Pids : agent'[p] \in {"free", "ending", "dead", "dead3"}
    BY DEF Inv, Stop, TypeOK, Types, OneAgent, Terminate, Live
  <2>3. QED  BY <2>1, <2>2 DEF Inv, Stop, TypeOK, Types, Single, QuitCovers
<1>6. QED  BY <1>1, <1>2, <1>3, <1>4, <1>5 DEF Inv, TypeOK

\* A process binds the port or finds it taken.
LEMMA BindInv == ASSUME Inv, NEW p \in Pids, Bind(p) PROVE Inv'
<1>1. Types'
  BY DEF Inv, TypeOK, Types, Bind, bounds, clientVars
<1>2. OneAgent' /\ Single'
  BY DEF Inv, Bind, TypeOK, Types, OneAgent, Single, Pending, Due
<1>3. NeverIdle' /\ QuitCovers'
  BY DEF Inv, Bind, TypeOK, Types, NeverIdle, SpawnDue, Due, QuitCovers
<1>4. QED  BY <1>1, <1>2, <1>3 DEF Inv, TypeOK

\* A process dies, asked or not.
LEMMA DeathInv ==
  ASSUME Inv, NEW p \in Pids, agent[p] # "free", Die(p), crashes' \in Nat
  PROVE  Inv'
<1>1. Types'
  BY DEF Inv, TypeOK, Types, Die, Freed, clientVars
<1>2. OneAgent' /\ Single'
  BY DEF Inv, Die, TypeOK, Types, OneAgent, Single, Pending, Due
<1>3. NeverIdle' /\ QuitCovers'
  BY DEF Inv, Die, TypeOK, Types, NeverIdle, SpawnDue, Due, QuitCovers
<1>4. QED  BY <1>1, <1>2, <1>3 DEF Inv, TypeOK

\* The steps that leave the supervisor and its processes alone.
LEMMA ApartInv ==
  ASSUME Inv,
         \/ AppExits \/ OtherTakesPort \/ OtherLeaves \/ BinaryGoes \/ BinaryComes
         \/ Connect \/ HelloAck \/ Disconnected \/ (\E m \in Modes : SetPrefs(m))
         \/ UNCHANGED vars
  PROVE  Inv'
<1>1. UNCHANGED <<agent, env, child, starting, timer, stray, probes, stopping, status,
                  doubled, late, restarts>>
  BY DEF AppExits, OtherTakesPort, OtherLeaves, BinaryGoes, BinaryComes, Connect,
     HelloAck, Disconnected, SetPrefs, vars, procVars, bounds
<1>2. /\ port' \in Pids \cup {NoOne, Peer, Squatter}
      /\ linkTo' \in Pids \cup {NoOne, Peer, Squatter}
      /\ link' \in {"none", "waiting", "hello", "stable", "closed"}
  BY DEF Inv, TypeOK, Types, AppExits, OtherTakesPort, OtherLeaves, BinaryGoes,
     BinaryComes, Connect, HelloAck, Disconnected, SetPrefs, vars, procVars, clientVars
<1>3. /\ binary' \in BOOLEAN /\ gone' \in BOOLEAN /\ pref' \in Modes /\ bootEnv' \in Modes
      /\ asked' \in Modes \cup {"unset"}
  BY DEF Inv, TypeOK, Types, AppExits, OtherTakesPort, OtherLeaves, BinaryGoes,
     BinaryComes, Connect, HelloAck, Disconnected, SetPrefs, vars
<1>n. crashes' \in Nat /\ others' \in Nat
  BY DEF Inv, TypeOK, Types, AppExits, OtherTakesPort, OtherLeaves, BinaryGoes,
     BinaryComes, Connect, HelloAck, Disconnected, SetPrefs, vars, bounds
<1>4. TypeOK'
  BY <1>1, <1>2, <1>3, <1>n DEF Inv, TypeOK, Types, Single, Pending, Due
<1>5. OneAgent' /\ NeverIdle' /\ QuitCovers'
  BY <1>1 DEF Inv, OneAgent, NeverIdle, SpawnDue, QuitCovers, Due
<1>6. QED  BY <1>4, <1>5 DEF Inv

\* Every behaviour of the supervisor keeps the invariant.
THEOREM Invariance == Spec => []Inv
<1>1. Inv /\ [Next]_vars => Inv'
  <2> SUFFICES ASSUME Inv, [Next]_vars PROVE Inv'
    OBVIOUS
  <2>1. CASE Start  BY <2>1, StartInv
  <2>2. CASE Reprobed  BY <2>2, ReprobedInv
  <2>3. CASE TimerFires  BY <2>3, TimerInv
  <2>4. CASE Restart  BY <2>4, RestartInv
  <2>5. CASE Stop  BY <2>5, StopInv
  <2>6. ASSUME NEW p \in Pids, Exited(p) PROVE Inv'
    BY <2>6, ExitedInv
  <2>7. ASSUME NEW p \in Pids, Bind(p) PROVE Inv'
    BY <2>7, BindInv
  <2>8. ASSUME NEW p \in Pids, Crash(p) \/ End(p) PROVE Inv'
    <3>1. agent[p] # "free" /\ Die(p) /\ crashes' \in Nat
      BY <2>8 DEF Inv, TypeOK, Types, Crash, End
    <3>2. QED  BY <3>1, DeathInv
  <2>9. CASE \/ AppExits \/ OtherTakesPort \/ OtherLeaves \/ BinaryGoes \/ BinaryComes
             \/ Connect \/ HelloAck \/ Disconnected \/ (\E m \in Modes : SetPrefs(m))
             \/ UNCHANGED vars
    BY <2>9, ApartInv
  <2>10. QED
    BY <2>1, <2>2, <2>3, <2>4, <2>5, <2>6, <2>7, <2>8, <2>9 DEF Next
<1>2. QED  BY InitInv, <1>1, PTL DEF Spec

\* The types, and that restarts alone multiply what is due to spawn.
THEOREM TypeCorrect == Spec => []TypeOK
<1>1. Inv => TypeOK  BY DEF Inv, TypeOK
<1>2. QED  BY <1>1, Invariance, PTL

\* Without a doubled spawn every process is within reach of restart() and stop().
THEOREM AtMostOneAgent == Spec => []OneAgent
<1>1. Inv => OneAgent  BY DEF Inv, TypeOK
<1>2. QED  BY <1>1, Invariance, PTL

\* While the agent is shown as not running, something is out that will spawn it,
\* unless the app was started without the agent's binary.
THEOREM AlwaysATry == Spec => []NeverIdle
<1>1. Inv => NeverIdle  BY DEF Inv, TypeOK
<1>2. QED  BY <1>1, Invariance, PTL

\* Quitting leaves nothing running that has not been told to end.
THEOREM QuitIsFinal == Spec => []QuitCovers
<1>1. Inv => QuitCovers  BY DEF Inv, TypeOK
<1>2. QED  BY <1>1, Invariance, PTL
=============================================================================
