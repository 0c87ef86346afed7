# dashd in TLA+

dashd puts a computer's state on a small ESP32-C3 display. Three programs work
together: a Python **agent** (`src/agent/dashd`, asyncio) that collects data
and talks to the device; the **firmware** (`src/firmware`, Arduino on ESP-IDF)
that shows pages and takes commands; an Electron **desktop app** (`src/ui`)
that supervises the agent and gives the user buttons. Agent and device exchange
newline-delimited JSON over USB-CDC or BLE, agent and app over a local socket.

This directory specifies the parts in which order, failure and time matter,
model-checks them with TLC on small instances and proves the most important
results with TLAPS.

## 1. Inventory

| Component | State | Operations | What makes it correct | Here |
|---|---|---|---|---|
| OTA writer (`ota_link.cpp`, `fw_update_*` in `usb_link.cpp`, boot in `main.cpp`) | two app slots, otadata, the session's statics | begin, chunk, end, abort, boot, mark valid | never unbootable; the running slot is not written; a whole image or none; comes back up | `OtaDevice`, `AtomicUpdate`, `OtaUpdateProofs` |
| Firmware update task (`firmware_update.py`) | position in the stream, event waiters, last published state | start, three waits with time-outs, cancel | does not mix attempts; what it reports agrees with the device; ends | `OtaUpdate`, `OtaUpdateProofs` |
| Agent link loop (`main.py` `link_loop`, `_tx_put`, `_dispatch_event`) | outbound queue (256, drop-oldest), waiters, connection | enqueue, send, reconnect, dispatch | one writer; nothing stale replayed; waiters resolved | the waiters in `OtaUpdate` and `PetInstall`, the loop in `AgentBus` |
| Page cycle and preferences (`main.cpp` `loop`, `usb_link.cpp`) | slot, shuffle bag, timer, transition, pending page, preferences in RAM and NVS | tick, button, five commands, boot | every enabled page comes round; settings hold at once and after a reset | `PageCycle`, `PageCycleProofs` |
| BLE transport and session ownership (`ble_transport.cpp`, `usb_link.cpp`) | connected/authorised flags, deferred reset, receive stream, owner | GATT callbacks (host task), poll (main loop) | one transport at a time, released with its link; answers go back to who asked; lines once and in order | `DeviceSession`, `DeviceSessionProofs` |
| Pet store and install (`pet_widget.cpp`, `pets/install.py`) | install session, files, active pet; window of ACK waiters | start, chunk, end, set active, remove, boot | an old pet or a whole new one; what is shown survives a reset; every install ends | `PetStore`, `PetInstall`, `PetInstallProofs` |
| Trust over BLE (`ble_link.py`, `ble_trust.py`, `main.py`; tokens in `ble_transport.cpp`) | pairing session, trust store, BLE link; token slots, authorisation | pair, code, untrust, connect, hello; mint, present, reset | a session can be closed; a code asked for is heard; a kept token is a known one; live means authorised | `Pairing`, `PairingProofs` |
| Bus, activity, IPC server, push loop, link loop (`bus.py`, `activity.py`, `ipc_server.py`, `main.py`) | subscriber queues, sticky status, active clients, wake-up, outbound queue, connection | publish, hello, pump, commands, leave, tick, connect, reconnect, stop | clients know the link's state; nothing stale replayed; no lost wake-up; the device is fed; stop ends | `AgentBus`, `AgentBusProofs` |
| Supervisor and IPC client (`service.ts`, `main.ts`, `ipc.ts`) | child process, restart timers, probes, transport mode; socket | start, spawn, exit, restart, stop; connect, hello, disconnect | at most the one agent it knows; always one again; quitting leaves none | `Supervisor`, `SupervisorProofs` |
| Rendering and what is shown (`pages/*.cpp`, `ui/*.cpp`, `visibility.cpp`, `transitions.cpp`, `main.cpp`) | panel, hidden elements and their NVS copy, transition, pet animation, look | draw, jump, wipe, hide, frames, looks, pairing box, boot | a full redraw leaves nothing behind; rows are on the panel; hidden stays hidden; the pet comes back | `PageLayout`, `DeviceScreen`, `DeviceScreenProofs` |
| Collectors, OAuth client, pricing, process history | counters, caches | gather | - | not modelled: I/O and arithmetic |
| Theme colours, configuration, catalogue, converter, tray, updater, autostart, most of the panes | - | - | - | not modelled: formatting, I/O |

**Interaction.** The app sends commands over IPC; `handle_cmd` runs them as
tasks or puts device commands into one queue, which the link loop alone
empties. Device events come back through the link loop to the bus and to
one-shot waiters, on which the update and install tasks block. On the device
one thread runs everything but the BLE callbacks.

**What is hard.** Power failure between flash writes; time-outs racing late
answers; a link that drops between a command and its effect; an agent that dies
while the device keeps its session; two attempts sharing queue and waiters;
settings that change under a shuffle bag filled earlier; callbacks of the BLE
task between two reads of the main loop; processes that start, die and take a port
while a probe is awaited; queues that drop what a reader has not seen yet. `PROJECT.json` lists each at its line.

## 2. Modules

| Module | Models | Extends |
|---|---|---|
| `AtomicUpdate` | abstract: one image replaced by another in one step, on trial until it boots | - |
| `OtaDevice` | the device side of an update | - |
| `OtaUpdate` | agent tasks, queue, link loop and link around the device | `OtaDevice` |
| `OtaUpdateProofs` | invariant, safety theorems and refinement of the device; that the composition drives it only in ways `OtaDevice` allows; invariant and safety theorems of the composition | `OtaUpdate` |
| `PageCycle` | pages, timer, button, preferences | - |
| `PageCycleProofs` | its inductive invariant and safety theorems | `PageCycle` |
| `DeviceSession` | BLE callbacks against the main loop, session ownership | - |
| `DeviceSessionProofs` | its inductive invariant and safety theorems | `DeviceSession` |
| `PetStore` | the pets on the device: install session, files, active pet | - |
| `PetInstall` | install tasks, queue, link loop and link around it | `PetStore` |
| `PetInstallProofs` | invariant of the device under any commands; invariant and safety theorems of the composition | `PetInstall` |
| `Pairing` | pairing commands, trust store, BLE link, token slots of the device | - |
| `PairingProofs` | its inductive invariant and safety theorems | `Pairing` |
| `AgentBus` | bus, activity, IPC server, push loop, link loop, shutdown | - |
| `AgentBusProofs` | its inductive invariant and safety theorems | `AgentBus` |
| `Supervisor` | agent supervisor and IPC client of the desktop app | - |
| `SupervisorProofs` | its inductive invariant and safety theorems | `Supervisor` |
| `PageLayout` | for every page the rows it draws, as a function of data, look and hidden elements | - |
| `DeviceScreen` | panel, hidden elements, transitions and pet animation over time | `PageLayout` |
| `DeviceScreenProofs` | its inductive invariant and safety theorems | `DeviceScreen` |
| `MC...` | the instances TLC checks | |

### OtaDevice
`flash`, `otadata` are what survives power loss; the `s_...` variables are the
statics of `ota_link.cpp` under their names; `power` splits the time between
bootloader, `setup()` and `loop()`, because `ota_mark_running_ok` separates
them. Each `fw_update_*` command is one action (`FwUpdateBegin`, ...), the
disjunction of its outcomes in the order of the code's early returns; the main
loop is one thread, so a handler is atomic except for power loss, which may
also strike after the otadata write (the state between `EndCommitted` and
`Bootloader`). A block is one chunk; an image is its sequence of blocks and its
own digest. Any `esp_ota_*` call may fail, and a written block may read back as
`Garbage`, which is what the read-back hash check is for. The bootloader is
external and modelled as `ota_link.cpp:21-31` and `ota_link.h` describe ESP-IDF
with rollback: new, pending, then valid or given up. Whether the Arduino core
in use keeps rollback until the sketch confirms is not decided in this
repository; the comments say it does, and `ComesBackUp` depends on it.

### OtaUpdate
One task per attempt; `pc` says where `stream_update` awaits, `got` is the
future of its waiter. `TxPut` drops the oldest command of a full queue,
`LinkSend` drains the queue when a send fails (as `_reconnect` does),
`LinkRead` resolves every matching waiter. Commands travel through `wire`, answers
through `events`; a drop loses a suffix of each. The user starts an attempt
when the Updates pane offers it and may press Cancel while the pane can still
show it. A time-out may fire whenever its future is unresolved, and with
`Timely = TRUE` only when no answer can come any more: the runs for
disagreements use that, so that no counterexample needs an absurdly slow answer.
Two history variables say when a promise is off: `misled`, that a task
has taken the answer to another attempt for its own (an event in the model says
whose command it answers, the agent cannot see it), and `spilled`, that the full
queue has lost a command.

### PageCycle
`Tick` is one pass of `loop()`: pending page, button, dirty flag, auto-advance,
end of a transition, in the code's order, as functions on a record of the four
variables they share. `ram` is `g_store`, `nvs` its persisted copy; each command
is an action with its RAM and NVS effects. Time is counted in transitions,
since the shortest interval (3 s) is several times a transition. The overlay of
an update, a pet install and a pairing are taken as given (`OtaOverlay`, `Hold`).

### DeviceSession
The NimBLE host task runs the callbacks; the main loop polls USB, then BLE, and
hands each line to `apply_line`. The ESP32-C3 has one core and the host task
the higher priority: a callback runs between any two instructions of the loop
but never the other way round. So a callback is one action, and the loop is
cut wherever it touches what they share: the flag and the stream of the
deferred reset (`TakeReset`, `DeferredReset`), the stream (`Receive`),
`s_authorized` (`ReadWrite`), and `s_owner` up to four times for one frame
(`OwnerGate`, `Claim`, `Compare`, `Apply` with `ReplyTo`). A BLE line is two
writes, so that half a line can stay behind when the connection ends or the
stream is full; the parser takes a whole line for its frame, refuses a headless
one and may do either with a head followed by another line's bytes. A USB line
arrives whole: nothing on the device interrupts its reader.

### PetStore and PetInstall
`PetStore` has the two files of each pet (`disk`), the pet NVS names (`prefs`), the
statics of the install session, and what is drawn (`s_src`: the file and what
was in it when it was loaded). One action per command; `fs_ensure` may mount,
format or give up, an open, write or rename may fail, and power may
fail between any two commands and between the remove and the rename of
`pet_install_end`. A load may fail though the file is whole (`Loadings`), at a command and at boot:
before the old source is given up (open, header) or after it (animation table, `malloc`).
All of these are counted by `Spend`, a power failure together with what goes wrong at the boot after it.
The history variable `unread` says that the last try to read the pet NVS names failed like this; the
second half of `RebootShowsSame`, that the built-in pet is not drawn in place of
a whole one, leaves that case out. An open file loses any
suffix of what was written when power fails. The device keeps 23 characters of a
slug (`Kept`): the start opens the file under the whole slug, the end looks for the
kept one, so that the install of a longer slug ends with "tmp gone".

`PetInstall` puts the agent around it as `OtaUpdate` does. A task is cut at its
awaits: the start handshake, the drained or full window (`Drain`, `WindowOpens`),
the last acknowledgements. `acks` holds the waiters of its chunks, each with a
timer of its own. A waiter hears every acknowledgement of its number, whosesoever
it is. `pets_install_complete` is published when the end is queued; the Pet
panel waits for the device's `pet_install_ended`, which no task does. A task that fails
purges its commands from the queue (`Purged`), not from the wire. `misled` is the history variable
of `OtaUpdate`: a task has taken the answer to the start of another install of the
same pet for its own, and `WholePets` holds until then.

### Supervisor
A callback of Node up to its next await is one step. `agent` is the process table:
a process starts, binds or finds the port busy (exit code 3), serves, has had
SIGTERM, is dead with its exit not reported yet. `timer` is the timer that
`this.restartTimer` holds, `stray` counts those whose handle was overwritten,
`probes` the exit handlers and `starting` the `start()` that await their
600 ms probe, which an agent may fail to answer in time. The app may be gone before the handler of
`before-quit` is over, for Electron does not await it. `env` is what each
process was spawned with. `binary` says whether the agent's binary is where the app looks for it. Without it
`start()` says so and returns with nothing due (`StartCalled`), and a later `spawn()` makes a child that
emits an error nobody handles and no exit (`NoProcess`): it is shown as running,
and restart() waits for it for ever. A process that hangs is not modelled: stop() kills
one after three seconds, restart() waits for ever.

### Pairing
The device serves one central: a session of `BlePairing`, `BleLink` or another
host. Each `ble_pair` and `ble_pair_code` is a task cut at its awaits; both work
on `self._pairing`, which another task may have replaced or cleared. Tokens are
numbered as they are minted; `PollTakes` and `PollSends` are the two halves of
the loop's hand-over, between which the host task may mint another (`Garbage` is
what a copy torn by that may contain). `slipped` records that two commands overlapped, or that a
GATT call failed halfway through `begin()` (`FailsMidway`) or in the write of `submit_code()`,
ahead of its `try` (`WriteFails`): the `except` clause then clears a
session that is not the task's own, or one that is still connected, and the
properties of sessions hold up to there. `LinkFails` is the same for `BleLink`: a call of
`_connect_once` raises, or a send fails, while the connection is open, and nothing
closes it. What was being written may have arrived, in all three.

### AgentBus
The agent is one event loop, so a step reaches from one await to the next; only
a log record of a worker thread may come between the two queue operations of a
publication (`raced`). A command is the number of links lost when it was given,
so that its age can be told. The connecting thread, the finally clause that
awaits the pump before it tells the tracker (`Leave`, then `Gone`), a dead link
that nobody notices while there is nothing to send (`LinkIdleTurn`), and both
behaviours of `wait_closed()` (Python before and from 3.12.1) are modelled.

### PageLayout and DeviceScreen
A page is the list of rows its renderer draws, with the gap, height and step
of the source; what is hidden is left out and the rest moves up. `glass` is the
set of rows that can be seen for certain: a full redraw starts from an empty
panel, every other one leaves what the new rows do not cover. `Draw` is the end of a turn of `loop()` and may see `pairing` before or after
the host task has changed it. Transitions save and restore the pet's animation;
commands may come in the middle of one (`tangled`). The hidden elements are two
entries of NVS, written one after the other (`Cut` fails between them). `since`
records that the layout has changed since the last full redraw: until the next,
rows of the old one may remain.

## 3. Runs

| Run | Instance | Shows |
|---|---|---|
| `ota_device` | two block contents; the factory image, a good and a bad update, an empty and an oversized one; slots of two blocks | `NeverBricked`, `RunningImageUntouched`, `ImplementsAtomicUpdate`, and `ComesBackUp` under `FairSpec` |
| `ota_update` | two attempts, two-block image, queue of three, one fault, one cancel, time-outs at any moment | `StreamInStep`, `ErrorMeansNotInstalled`, `CancelStopsStream`, `EveryAttemptEnds` |
| `page_cycle` | four pages, one deprecated; four masks, three orders, two commands, one press, one reset | `BagFollowsSettings`, `RebootKeepsCycle`, `ManualGetsFullInterval`, `WalksLandEnabled`, `CycleShowsEveryPage` |
| `device_session` | two BLE sessions, two lines over each transport, of every kind; a stream of three writes, a line of two | `OneAtATime`, `RepliesGoHome`, `AppliedOnceInOrder` |
| `pet_install` | two installs of two pets of two blocks, one with a slug that is cut; window of one, queue of two, one fault anywhere, one user command, time-outs at any moment | `WholePets`, `RebootShowsSame`, `EveryInstallEnds` |
| `supervisor` | three processes, two modes; one crash, two restarts or changes of mode, one other process that takes the port or somebody who takes the binary away; with and without the binary at the start | `OneAgent`, `NeverIdle`, `QuitCovers`, `AgentAgain`, `ClientReaches` |
| `pairing` | two pairing commands and two codes, right or wrong; two token slots, three tokens, one of them another host's; one dropped connection, reset, failed GATT call or Forget | `NoLeak`, `CodeIsHeard`, `TrustKnown`, `LiveMeansAuthorized`, `LinkComesUp` |
| `agent_bus` | one client and the link; queues of two messages; two lost links, one log record or device event | `StatusKnown`, `NoReplay`, `NoMissedWakeup`, `DeviceFed`, `StopCompletes` |
| `device_screen` | all eleven pages, jumps to two of them; frames with short and overlong lists, two looks besides the factory's; two elements hidden before; three commands or pairings, one reset | `CleanAfterFull`, `FitsPanel`, `PetRestored`, `HiddenAsAsked` |

`ota_update` and `pet_install` check a type invariant too (`UTypeOK`, `ITypeOK`);
those of the other modules are proved for every value of the constants (section 4)
and not checked once more by a run.

Bounds. One short and one full image exercise every refusal of the writer; nothing
in it depends on an image's length beyond "fits" and "complete", and the
proofs hold for every length. Two attempts are what it takes for one to meet
the remains of another; one fault reaches each failure path, and the
disagreements below need no more. Four pages give a bag with at least three
entries, an order with a dropped id and a mask that leaves pages out; two
commands let one undo or overtake the other. Two sessions leave remains of the
first to meet the second; a stream of three writes overflows in the middle of
the second line, and a line of two when the end of the first was lost. Two
blocks fill a window of one; the second install meets the session, the files and
the late answers of the first. Two restarts, or one with a crash, make a
timer stray; three processes are a child, one that is ending and one dead
but unreported. Two pairing commands and two codes overlap in every way two tasks can; three tokens
turn two slots over once. A queue of two loses a status to the next two
messages, and two lost links are what a command of an earlier one takes; a
second client would share nothing with the first but the bus and the set of
active clients, and the proofs hold for any number. Three commands are a
transition, something in the middle of it, and something after it.

Fairness. `FairSpec`: a powered chip runs its bootloader and its loop (weak),
and power does not fail in every window between a reset and the mark (strong).
`USpec`: asyncio runs a task whose future is resolved and fires its timers;
nothing is assumed of link, device or user, so `EveryAttemptEnds` holds with a
dead device too; `ISpec` assumes the same for `EveryInstallEnds`. `PageCycle!Spec`: the loop runs, time passes.
`Supervisor`: Node runs its callbacks and timers, a process binds or gives up
and ends after SIGTERM, and a squatter leaves the port some time; nobody need
restart, quit, crash or install the binary. `Pairing`: tasks, the link's retries and the device's loop go
on, another host leaves, and no GATT call need fail. `AgentBus`: the loops and the pumps go on, that is, a client reads;
nothing is assumed of the device or the user. Each names the process that is
fair and no single branch of it that the code does not force, except where a
wait is bounded by a time-out. `DeviceSession` and `DeviceScreen` are checked
for safety only. The runs that bound what their users do go without the
deadlock check: the system rests when that is used up.

### Disagreements between the code and what is said of it

Three runs expect a violation; each checks one sentence of a document or comment.

- `pet_url`: a pet asked for by URL is never installed, since the agent waits for a
  confirmation that names the URL and the device names the slug.
- `ota_retry`: a drop or an agent restart leaves the device's session open, and
  "you can retry" meets "OTA already running".
- `restart_mode`: a change of the transport mode restarts the agent with the mode
  read when the app started.

The models show these too; no run is spent on them.

- Silence after `fw_update_end` is reported as "done", installed or not
  (`firmware_update.py:280`; `docs/ipc.md:86`).
- Cancel during the download stops nothing (`main.py:314`; `UpdatesPane.tsx:417`):
  `CancelStopsStream` is about cancelling between begin and end, and only while
  the queue of 256, which drops the oldest command when it is full, has not lost the abort.
- The waiters of an update know an event by its name and number
  (`firmware_update.py:207`, `:231`): a late `fw_update_started` of an attempt that
  timed out starts the stream of the next one, before the device has taken its begin. It takes three attempts
  for that to do harm; `StreamInStep` and `ErrorMeansNotInstalled` hold until it happens (`misled`).
- The screen of a failed update stays, instead of "~5 s" (`pages/ota.cpp:19`).
- `reset_prefs` leaves the old shuffle bag in force, so that the deprecated page
  may be shown (`usb_link.cpp:649`; `main.cpp:19-22`); `show_page` goes to a
  disabled page, and `set_pages_enabled` may disable the page shown
  (`main.cpp:100-103`). `WalksLandEnabled` is about walks under settings the bag
  was filled with.
- The page order the app sends leaves the last slot at its default, so that a
  page has two slots.
- A BLE connection that ends between the authorisation check and the gate leaves
  a session owned by BLE with no BLE connection (`usb_link.cpp:684`;
  `ble_transport.cpp:137`). The models take the two reads as separate steps, as
  the code does.
- An install the agent gives up stays open on the device, which holds auto-advance.
- A slug of more than 23 characters whose first 23 are the slug of another pet: after an
  interrupted install of that one, the end of the longer one renames what is left of it and
  answers ok (`pet_widget.cpp:400`, `:441`). `PetAssumption` leaves such names out, and
  `WholePets` needs that. (It keeps pets from being called `default`, `none`, `embedded` and `nothing`
  too: the first is the code's own name for the built-in pet, the others stand for no file in the model.)
- `wait_started` knows an answer by its slug (`main.py:589-591`): the one to an install that timed out
  is taken for that of the next install of the same pet, whose chunks then go out before
  its own start has been handled. With three installs under way one after the other, the
  second of another pet, and the third start lost on the link, they end up in that
  other pet's file. `WholePets` holds until a task is misled like this.
- A pairing that presents a stored token is reported as "paired" whatever the device
  makes of it. README.md:462 has the code time out after about 30 s and a new one
  shown: the code is made at boot, and nothing on either side limits the wait for it.
- A supervisor that attached to a peer is not told when it dies; `AgentAgain` leaves that case out.
- An app started without the agent's binary says that it was not found and never looks again until
  somebody asks for a restart (`service.ts:90-95`); a spawn that fails later leaves a child that
  never exits and is shown as running (`service.ts:114-126`). `NeverIdle` leaves out the first, `AgentAgain` both.
- A GATT call of `BleLink` that fails on an open connection leaves it open (`ble_link.py:273-284`;
  a send, `:339-342`): the device keeps its one central and is not found any more until the radio
  loses it or it resets. `LinkComesUp` leaves that state (`LeftOpen`) out. So does a failed write of the
  code (`ble_link.py:111`) with the session of a pairing; `NoLeak` leaves that one out.
- A pet that cannot be read at boot, its file whole, is replaced by the built-in one while NVS still
  names it (`pet_widget.cpp:332-339`); a failed `malloc` in the middle of `pet_set_active` leaves none
  drawn until the next command or boot (`:276-283`). `RebootShowsSame` says that nothing else takes them apart.
- A client whose queue overflowed keeps an old link state until the next change
  (`behind`); a command given while the link is down is delivered once it is up.
- An element hidden in the app stays on the panel until the next full redraw,
  though `ElementsPane.tsx:160-162` has it "disappear from the device immediately";
  `data_store.h:48-50` says of the text scales that they cannot overflow the
  screen: at 2 they do, and `FitsPanel` is about the factory's 1.
- Pairing that begins and ends within one turn of the loop may leave its box on
  the panel; a `show_page` in the middle of a transition leaves the pet running; a pet state set in the
  middle of one is in NVS and not on the screen.
- `reset_prefs` leaves auto-advance in RAM, the pet's preferences and the trusted hosts alone
  (`usb_link.cpp:649-663`; README.md:247).

## 4. Proofs

`OtaUpdateProofs` proves of the device, for every set of images and blocks and every slot
size, from `OtaAssumption` alone (garbage is no block, bootable images are
offered images, the factory image boots and fits):

- `TypeCorrect`, `Unbrickable`, `RunningUntouched`: `TypeOK`, `NeverBricked` and
  `RunningImageUntouched` of `Spec`;
- `Refinement`: `Spec` implements `AtomicUpdate` under the mapping in `OtaDevice`.

`NeverBricked` is not inductive: a commit keeps it only if the session wrote the
slot that is not selected and if the image that did the writing was confirmed.
The invariant `IInv` therefore adds `SessionOk` (an open session implies the loop
is running, writes the other slot, expects an image that fits and has counted
exactly what it wrote) and `RunningSelected` (what runs is what is selected, and
is confirmed once the loop runs). There is one lemma per action, and one step
per conjunct that the action can disturb. The refinement needs the same
invariant: `EndCommitted` is `Install`, `MarkRunningOk` of a pending image is
`Confirm`, the bootloader giving up a pending image is `Revert`, all else stutters.

`DeviceSessionProofs` proves, for any buffer sizes and any number of lines and
sessions, `TypeCorrect`, `AnswersGoHome` (`RepliesGoHome`), `NoInterleaving`
(`OneAtATime`) and `InOrder` (`AppliedOnceInOrder`). The first two properties do not say
where the loop is, so the invariant records what the gate has established when it lets a frame through: only the
loop gives the session to USB, hence a USB frame at `Apply` still owns it; a BLE
frame owns it or the session was released meanwhile; and as long as it was not
released, the owner is the transport of the last frame applied. For the order, every
write gets a rank, two for a line; the ranks rise from the line over the chunk to the
stream, and what has been applied is below them all.

`SupervisorProofs` proves, for any number of processes, crashes, restarts and
others, `TypeCorrect`, `AtMostOneAgent` (`OneAgent`), `AlwaysATry` (`NeverIdle`)
and `QuitIsFinal` (`QuitCovers`), with the binary missing at the start or going at any time. The heart is `Single`: until a restart comes
while a spawn is due, the child and all that will spawn one (start, timer, probes) add
up to at most one, so that a spawn overwrites no child and a timer no handle.

`PageCycleProofs` proves, for any pages, masks, orders and intervals,
`TypeCorrect`, `BagIsFresh` (`BagFollowsSettings`), `CycleSurvives`
(`RebootKeepsCycle`), `WalksLand` (`WalksLandEnabled`) and `PageStaysFullInterval`
(`ManualGetsFullInterval`). The invariant adds
`Agree`: masks in RAM and NVS differ in the deprecated pages at most, the order
and all else are equal, since every command changes both. Walks look for the least
number of steps to an enabled slot; that it exists is the well-foundedness of
the subsets of a finite set. The full interval rests on `Calm`: the timer never
counts more than the time since the last command or press, so that when it runs out
no less than the interval has passed.

`AgentBusProofs` proves, for any clients and sizes, `TypeCorrect`, `ClientsKnow`
(`StatusKnown`), `NothingReplayed` (`NoReplay`), `WakeupKept` (`NoMissedWakeup`) and
`NoStaleWatcher` (`WatchersConnected`). `NoReplay` alone is not inductive: `FreshQueue` adds
that while the link is up and works every command in the queue is of its age,
and that `alive` implies `up`. `StatusKnown` needs `Connections`: who is subscribed is who is
authenticated, and whoever is not has been told nothing.

It proves too that the composition drives the device as `OtaDevice`
allows: `UpdateDrivesDevice` (`USpec => Spec`), from which `UpdateUnbrickable`
(`NeverBricked`) and `UpdateAtomic` (`ImplementsAtomicUpdate`) follow for
any number of attempts, any queue and any faults, and `UpdateTypes` (`UTypeOK`).
The invariant (`HostInv`) is that nothing is in the queue or on the wire but commands a
task can build; a step of the agent or the link then leaves the device alone, and
a delivery is one of the device's own actions.

Then, that agent and device stay in step: `StreamsInStep` (`StreamInStep`),
`ErrorsInstallNothing` (`ErrorMeansNotInstalled`) and `CancelStops`
(`CancelStopsStream`), again for any number of attempts, any images, any capacity and any
losses. These need to know what is under way and in which order, over queue and wire together:
`Under` is the set of commands sent and not yet taken, `Prec` the pairs of them of which
one is ahead of the other, and lemmas say what queueing, sending, losing and
taking do to both. On them rests the invariant `HostStream`: `Order` (no command
is under way that its task has not sent, none is there twice, and an event has its
cause), `Solo` (one
attempt at a time) and `Stream`, which says for each place a task can be at (`Begun`,
`Streaming`, `Ending`) where its begin, chunk or end is and what the device
has written when nothing of its own is under way; and that a task that failed has
no end on its way that could find the session complete (`Doomed`, `Failed`). For Cancel, `Cancels` says that the abort
is under way ahead of the end of the task it is to stop, or that the session it would stop is closed (`Halted`);
it uses of the device that a session's bytes are counted (`SessionOk`) and that nothing
is lost while `Lossless`.

`PairingProofs` proves, for any numbers of commands, tokens, slots and faults,
`TypeCorrect`, `LeavesNoLeak` (`NoLeak`), `HearsCode` (`CodeIsHeard`), `KeepsTrust`
(`TrustKnown`) and `LiveIsAuthorized` (`LiveMeansAuthorized`). `TrustKnown` speaks of
what the agent remembers; `HeldRecent` extends it to every token on its way
there, and says how long each has: a slot counts down as tokens are minted, and the
newer a token the later its slot is written. `Tidy` says that as long as no commands
overlap one task runs, on the session of `self._pairing`; `Acked`, that
a hello answered on an open connection has been authorised by it.

`DeviceScreenProofs` proves, for any lists, frames, looks and any number of
commands, reboots and cut writes, `TypeCorrect`, `GivesPetBack` (`PetRestored`),
`HidesAsAsked` (`HiddenAsAsked`), `PanelIsClean` (`CleanAfterFull`) and `PagesFit`
(`FitsPanel`). The invariant says that what `begin()` would load
is what is in RAM, and that no element stands twice in either list: otherwise the
swap that removes one would leave the other. That a hidden element always
finds room is a matter of cardinality: a list without doubles that lacks an
element of the catalogue is shorter than the catalogue, which fits.

For the panel the invariant is `OnGlass`: until the layout changes, the glass shows
that of the last full redraw, with the pairing box or without it, and the box is
only wrong while the host task has changed `pairing` since the loop looked. That drawing over
it changes nothing is geometry (`DrawOver`): what is drawn is already there, the box
covers what it covered, and no row of any page stands on the title bar, which not
every redraw repeats (`ContentBelow`: hidden rows leave the cursor alone, and no row moves it up by
more than it can afford). For `FitsPanel` every page gets a budget, `Room`: bounds on the
cursor, row by row, that hold whatever is hidden, with the last one within the 276
pixels the bars and the widest margin leave (`Deep`). Lists count at the most the
store has room for, and parts that fit one below the other add up (`FitsJoin`), page
by page (`ContentAbove`). The cursor is a recursive function; what it is after
each row is proved by looking at the first row at which it would fail.

`PetInstallProofs` proves, for any pets of any size, any number of installs, any window, any
queue and any faults, `InstallTypes` (`ITypeOK`), `PetsAreWhole` (`WholePets`)
and `SameAfterReboot` (`RebootShowsSame`). The device keeps `DeviceInv` under any
commands of the kinds it knows, in any order, whatever load fails: a file is only open on a mounted
file system, belongs to the slug it was started with and is as long as was counted;
only a pet that can be asked for has a `.tmp`, and only one whose slug is not
cut a `.dpet` (`Named`), so that what NVS and the end's rename name is the same. That, and
that `unread` is set by nothing but a failed load of a whole file, is what `RebootShowsSame` needs. `WholePets` needs the order of what is under way as
well (`Under` and `Prec` as above): installs come one at a time (`Solo`); when the start of an
install is queued it is the last one under way, so that once the device has
answered it none is left (`Asked`); hence while chunks are sent the open session is that of
their install or closed (`Ready`), and no start is ahead of a chunk (`Chunks`). An open file
then holds the blocks of its pet so far (`Copy`), and the end renames it only when it is
as long as that pet. The purge of the queue is a recursive function; that it loses
members and keeps the order of the rest is proved by induction along the set of
positions it has reached (`Reach`).

Every invariant and every action property that a passing run checks is thus stated by a
theorem. Only model-checked are the liveness properties, under the fairness of
their specifications: fairness and ENABLED are out of the provers' reach.

## 5. Not modelled, and why

Theme colours, wording and widths; JSON parsing and formatting; data
collection; certificates, downloads and version comparison of releases; the
tray, the app's own updater, autostart scripts: no state whose order of change
matters, or I/O only. SHA-256 is taken as injective, base64 as lossless.

The collectors keep counters per file and are called by one task; a property of
their sums would restate them. `proc_history`, the pricing table and the OAuth
client's back-off are likewise arithmetic or a cache. A second client of the
IPC socket that installs a pet while another does is not modelled; nor are
agents that hang, and pairing with two devices. Of `BleLink`, the time limit of `_call`
is left out, after which a `_connect_once` may go on beside the next, and so is a `disconnect()` that itself fails.

Of the firmware's lines, the larger half is `default_pet.h`, an image in an array
(8925 of 13876), for which `PetStore` has one value. What is left to map is
formatting inside the commands and renderers modelled, the drawing of the pet and of the transition,
JSON answers, and the setup of display, LEDs and radio.

## 6. What could follow

A second client and a second install in `PetInstall`; `BleLink` and the serial
link behind one `auto` link; the store of the app against the events of an
update.
