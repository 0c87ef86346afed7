----------------------------- MODULE PageCycle ------------------------------
(***************************************************************************)
(* What the device shows: the page cycle of loop() (main.cpp) with the     *)
(* button, the auto-advance timer, its shuffle bag and the transitions,    *)
(* the preferences that steer it and the commands that change them         *)
(* (usb_link.cpp), and what of it survives a reboot.                       *)
(*                                                                         *)
(* A slot is a place in the user's order, a page an id; the mask is the    *)
(* set of ids whose bit is set.  The unit of time is one transition; the   *)
(* loop ticks any number of times in a unit.  One thread runs everything,  *)
(* so a tick, like a command, is one step.                                 *)
(***************************************************************************)
EXTENDS Integers, FiniteSets, SequencesExt

CONSTANTS
  PageCount,    \* PAGE_COUNT; ids and slots are 0 .. PageCount - 1
  Deprecated,   \* PAGES_DEPRECATED_MASK
  MinInterval,  \* shortest and longest auto-advance interval, in transitions
  MaxInterval,
  Stored,       \* preferences an earlier run may have left in NVS
  Masks,        \* masks, orders and intervals that commands carry
  Orders,
  Intervals,
  MaxCmds,      \* bound: commands
  MaxPresses,   \* bound: button presses
  MaxReboots    \* bound: resets

Pages == 0 .. PageCount - 1
Slots == Pages
Home  == 0
None  == -1

Prefs == [mask : SUBSET Pages, order : [Slots -> Pages \cup {None}], on : BOOLEAN,
          interval : Nat, mode : {"sequential", "random"}]

ASSUME PageAssumption ==
  /\ PageCount \in Nat \ {0}
  /\ Deprecated \subseteq Pages \ {Home}
  /\ MinInterval \in Nat \ {0, 1}
  /\ MaxInterval \in Nat
  /\ MinInterval <= MaxInterval
  /\ Stored \subseteq Prefs
  /\ Masks \subseteq SUBSET Pages
  /\ Intervals \subseteq Nat

VARIABLES
  ram,      \* g_store: mask, order, on, interval, mode
  nvs,      \* the same fields as persisted
  slot,     \* s_slot_idx
  bag,      \* what is left of s_aa_bag
  dirty,    \* g_auto_advance_dirty
  pending,  \* g_pending_show_page
  wipe,     \* the transition: "none", "running", or "elapsed" (time is up)
  elapsed,  \* time since s_last_advance_ms, up to MaxInterval
  held,     \* a pet install is active, or a BLE central has yet to pair
  overlay,  \* the OTA overlay is up
  calm,     \* history: time since the last manual page change
  byReset,  \* history: reset_prefs has run since the bag was last empty
  cmds, presses, reboots

cycleVars == <<slot, bag, wipe, elapsed>>
vars == <<ram, nvs, dirty, pending, cycleVars, held, overlay, calm, byReset,
          cmds, presses, reboots>>

NoOrder  == [s \in Slots |-> None]
Defaults == [mask |-> {}, order |-> NoOrder, on |-> TRUE,
             interval |-> MaxInterval, mode |-> "sequential"]

-----------------------------------------------------------------------------
(* Slots and pages                                                         *)

PageAt(p, s) == IF p.order[s] # None THEN p.order[s] ELSE s

\* An empty mask enables everything; a deprecated page is never enabled.
PageEnabled(p, id) == id \notin Deprecated /\ (p.mask = {} \/ id \in p.mask)

VisibleSlots(p) == {s \in Slots : PageEnabled(p, PageAt(p, s))}

StepsTo(from, s) == (s - from - 1) % PageCount

NextEnabledSlot(p, from) ==
  IF VisibleSlots(p) = {} THEN 0
  ELSE CHOOSE s \in VisibleSlots(p) :
         \A u \in VisibleSlots(p) : StepsTo(from, s) <= StepsTo(from, u)

SlotsOf(p, id) == {s \in Slots : PageAt(p, s) = id}

Mut_HomeAnyway(p) ==
  IF SlotsOf(p, Home) # {} THEN Min(SlotsOf(p, Home)) ELSE NextEnabledSlot(p, None)
FindHomeSlot(p) ==
  IF PageEnabled(p, Home) /\ SlotsOf(p, Home) # {}
    THEN Min(SlotsOf(p, Home))
    ELSE NextEnabledSlot(p, None)

\* rebuild_aa_bag: any shuffle of the visible slots, whose first two change
\* places when the first is the slot to avoid.
RebuildBag(p, avoid) ==
  {IF Len(q) >= 2 /\ q[1] = avoid THEN <<q[2], q[1]>> \o SubSeq(q, 3, Len(q)) ELSE q :
     q \in SetToSeqs(VisibleSlots(p))}

-----------------------------------------------------------------------------
(* Preferences                                                             *)

Clamp(v) ==
  IF v < MinInterval THEN MinInterval ELSE IF v > MaxInterval THEN MaxInterval ELSE v

\* usb_link_restore_prefs scrubs what earlier firmware may have stored.
Restore(n) ==
  [n EXCEPT !.mask = @ \ Deprecated,
            !.order = [s \in Slots |-> IF @[s] \in Deprecated THEN None ELSE @[s]],
            !.interval = Clamp(@)]

\* setup(): preferences restored, everything else as the statics have it.
BootSlot(p) == IF 0 \in VisibleSlots(p) THEN 0 ELSE FindHomeSlot(p)

StartUp(n) ==
  /\ ram' = Restore(n)
  /\ slot' = BootSlot(Restore(n))
  /\ bag' = <<>> /\ dirty' = FALSE /\ pending' = None
  /\ wipe' = "none" /\ elapsed' = 0
  /\ held' = FALSE /\ overlay' = FALSE
  /\ calm' = MaxInterval /\ byReset' = FALSE

Init ==
  /\ nvs \in Stored
  /\ ram = Restore(nvs)
  /\ slot = BootSlot(ram)
  /\ bag = <<>> /\ dirty = FALSE /\ pending = None
  /\ wipe = "none" /\ elapsed = 0
  /\ held = FALSE /\ overlay = FALSE
  /\ calm = MaxInterval /\ byReset = FALSE
  /\ cmds = 0 /\ presses = 0 /\ reboots = 0

Reboot ==
  /\ reboots < MaxReboots
  /\ reboots' = reboots + 1
  /\ StartUp(nvs)
  /\ UNCHANGED <<nvs, cmds, presses>>

-----------------------------------------------------------------------------
(* Commands                                                                *)

ShowPage(id) ==
  /\ pending' = id
  /\ UNCHANGED <<ram, nvs, dirty, byReset>>

Mut_NotDirty(m) ==
  /\ ram' = [ram EXCEPT !.mask = m]
  /\ nvs' = [nvs EXCEPT !.mask = m]
  /\ UNCHANGED <<pending, byReset, dirty>>
SetPagesEnabled(m) ==
  /\ ram' = [ram EXCEPT !.mask = m]
  /\ nvs' = [nvs EXCEPT !.mask = m]
  /\ dirty' = TRUE
  /\ UNCHANGED <<pending, byReset>>

\* Ids that do not exist or are deprecated are dropped and the rest move up;
\* what the list leaves open keeps its default page.
OrderFrom(list) ==
  LET valid == {i \in 1 .. Len(list) : list[i] \in Pages \ Deprecated}
      at(s) == {i \in valid : Cardinality({j \in valid : j < i}) = s}
  IN  [s \in Slots |-> IF at(s) = {} THEN None ELSE list[CHOOSE i \in at(s) : TRUE]]

Mut_NotPersisted(list) ==
  /\ ram' = [ram EXCEPT !.order = OrderFrom(list)]
  /\ dirty' = TRUE
  /\ UNCHANGED <<nvs, pending, byReset>>
SetPagesOrder(list) ==
  /\ ram' = [ram EXCEPT !.order = OrderFrom(list)]
  /\ nvs' = [nvs EXCEPT !.order = OrderFrom(list)]
  /\ dirty' = TRUE
  /\ UNCHANGED <<pending, byReset>>

\* A field the command omits is one that keeps its value.
SetAutoAdvance(on, interval, mode) ==
  LET Set(p) == [p EXCEPT !.on = on, !.interval = Clamp(interval), !.mode = mode]
  IN  /\ ram' = Set(ram)
      /\ nvs' = Set(nvs)
      /\ dirty' = TRUE
      /\ UNCHANGED <<pending, byReset>>

\* Clears the namespace and the fields in RAM, the auto-advance ones excepted,
\* and raises no dirty flag.
ResetPrefs ==
  /\ nvs' = Defaults
  /\ ram' = [ram EXCEPT !.mask = {}, !.order = NoOrder]
  /\ byReset' = TRUE
  /\ UNCHANGED <<pending, dirty>>

Command ==
  /\ cmds < MaxCmds
  /\ cmds' = cmds + 1
  /\ \/ \E id \in Pages : ShowPage(id)
     \/ \E m \in Masks : SetPagesEnabled(m)
     \/ \E list \in Orders : SetPagesOrder(list)
     \/ \E on \in BOOLEAN, i \in Intervals, mode \in {"sequential", "random"} :
          SetAutoAdvance(on, i, mode)
     \/ ResetPrefs
  /\ UNCHANGED <<cycleVars, held, overlay, calm, presses, reboots>>

-----------------------------------------------------------------------------
(* One tick of loop(), on c = [slot, bag, wipe, elapsed]                   *)

Go(c, s) == IF s = c.slot THEN c ELSE [c EXCEPT !.slot = s, !.wipe = "running"]

\* The pending show_page, if some slot holds another page than the one shown.
HonoursPending(c) ==
  pending # None /\ SlotsOf(ram, pending) # {} /\ Min(SlotsOf(ram, pending)) # c.slot

AfterPending(c) ==
  IF HonoursPending(c)
    THEN [Go(c, Min(SlotsOf(ram, pending))) EXCEPT !.elapsed = 0]
    ELSE c

\* A press during a transition is polled and lost.
Heard(c, ev) == ev # "none" /\ c.wipe = "none"

Pressed(c, ev) ==
  Go(c, IF ev = "short" THEN NextEnabledSlot(ram, c.slot) ELSE FindHomeSlot(ram))

Mut_NoRestart(c, ev) == IF Heard(c, ev) THEN Pressed(c, ev) ELSE c
AfterButton(c, ev) ==
  IF Heard(c, ev) THEN [Pressed(c, ev) EXCEPT !.elapsed = 0] ELSE c

AfterDirty(c) == IF dirty THEN [c EXCEPT !.bag = <<>>, !.elapsed = 0] ELSE c

AdvanceDue(c) ==
  ram.on /\ c.wipe = "none" /\ ~held /\ c.elapsed >= ram.interval

Mut_KeepHead(c, b) == IF b = <<>> THEN c ELSE [Go(c, Head(b)) EXCEPT !.bag = b]
\* random_enabled_slot: the next of the bag, which may be the slot shown.
Draw(c, b) == IF b = <<>> THEN c ELSE [Go(c, Head(b)) EXCEPT !.bag = Tail(b)]

Advances(c) ==
  IF ram.mode = "random"
    THEN {Draw(c, b) : b \in IF c.bag # <<>> THEN {c.bag} ELSE RebuildBag(ram, c.slot)}
    ELSE {Go(c, NextEnabledSlot(ram, c.slot))}

AfterAutoAdvance(c) ==
  IF AdvanceDue(c) THEN {[d EXCEPT !.elapsed = 0] : d \in Advances(c)} ELSE {c}

AfterTransition(c) == IF c.wipe = "elapsed" THEN [c EXCEPT !.wipe = "none"] ELSE c

Presses(ev) == IF ev = "none" THEN 0 ELSE 1

Tick(ev) ==
  LET c0 == [slot |-> slot, bag |-> bag, wipe |-> wipe, elapsed |-> elapsed]
      c1 == AfterPending(c0)
      c2 == AfterButton(c1, ev)
  IN  /\ ~overlay
      /\ presses + Presses(ev) <= MaxPresses
      /\ presses' = presses + Presses(ev)
      /\ \E c3 \in AfterAutoAdvance(AfterDirty(c2)) :
           LET c == AfterTransition(c3)
           IN  slot' = c.slot /\ bag' = c.bag /\ wipe' = c.wipe /\ elapsed' = c.elapsed
      /\ calm' = IF HonoursPending(c0) \/ Heard(c1, ev) THEN 0 ELSE calm
      /\ byReset' = (byReset /\ ~dirty /\ bag # <<>>)
      /\ pending' = None
      /\ dirty' = FALSE
      /\ UNCHANGED <<ram, nvs, held, overlay, cmds, reboots>>

-----------------------------------------------------------------------------
(* The surroundings                                                        *)

Later(t) == IF t < MaxInterval THEN t + 1 ELSE t

\* millis() moves on.
Elapse ==
  /\ elapsed' = Later(elapsed)
  /\ calm' = Later(calm)
  /\ wipe' = IF wipe = "running" THEN "elapsed" ELSE wipe
  /\ UNCHANGED <<ram, nvs, dirty, pending, slot, bag, held, overlay, byReset,
                 cmds, presses, reboots>>

\* A pet install or a pairing begins or ends.
Hold ==
  /\ held' = ~held
  /\ UNCHANGED <<ram, nvs, dirty, pending, cycleVars, overlay, calm, byReset,
                 cmds, presses, reboots>>

\* An OTA session opens or fails to; only a reset takes the overlay down, and
\* until then loop() returns before it looks at pages or at the button.
OtaOverlay ==
  /\ ~overlay
  /\ overlay' = TRUE
  /\ UNCHANGED <<ram, nvs, dirty, pending, cycleVars, held, calm, byReset,
                 cmds, presses, reboots>>

Next ==
  \/ Command
  \/ \E ev \in {"none", "short", "long"} : Tick(ev)
  \/ Elapse \/ Hold \/ OtaOverlay \/ Reboot

\* The loop runs and the clock moves.
Spec ==
  /\ Init
  /\ [][Next]_vars
  /\ WF_vars(Tick("none"))
  /\ WF_vars(Elapse)

-----------------------------------------------------------------------------
\* Every variable has its type; whatever interval a command carries or an
\* earlier run has left in NVS, the one in force is within the bounds.
TypeOK ==
  /\ ram \in Prefs /\ nvs \in Prefs
  /\ ram.interval \in MinInterval .. MaxInterval
  /\ slot \in Slots
  /\ bag \in Seq(Slots) /\ Len(bag) < PageCount
  /\ pending \in Pages \cup {None}
  /\ wipe \in {"none", "running", "elapsed"}
  /\ elapsed \in 0 .. MaxInterval /\ calm \in 0 .. MaxInterval
  /\ dirty \in BOOLEAN /\ held \in BOOLEAN /\ overlay \in BOOLEAN /\ byReset \in BOOLEAN

\* usb_link.cpp: the flag is raised since "without this the bag can still hand
\* out a slot the user just disabled": once the loop has seen a change of
\* settings, the bag holds slots of enabled pages only, reset_prefs apart.
BagFollowsSettings ==
  ~dirty /\ ~byReset => \A i \in 1 .. Len(bag) : bag[i] \in VisibleSlots(ram)

\* protocol.md: the settings "survive reboots": whatever commands came, a reset
\* at any moment brings back the cycle in force, page for page, unless the mask
\* enabled nothing but deprecated pages.
RebootKeepsCycle ==
  \/ ram.mask # {} /\ ram.mask \subseteq Deprecated
  \/ /\ VisibleSlots(Restore(nvs)) = VisibleSlots(ram)
     /\ \A s \in Slots : PageAt(Restore(nvs), s) = PageAt(ram, s)

\* protocol.md: "the user gets a full interval to read the page they just
\* selected": the timer never takes a page away sooner.
ManualGetsFullInterval ==
  [][slot' # slot /\ calm' # 0 /\ reboots' = reboots => calm' >= ram.interval]_vars

\* The device cycles through the enabled pages: left alone with auto-advance
\* on, in either mode, it shows every enabled slot again and again.
CycleShowsEveryPage ==
  <>[](ram.on /\ ~held /\ ~overlay)
    => \A s \in Slots : []<>(s \in VisibleSlots(ram) => slot = s)

\* main.cpp:100-103: the slot shown "is always on an enabled slot because every
\* code path that mutates it routes through next_enabled_slot / find_home_slot":
\* so do the button and the timer, in either mode, as long as anything is
\* enabled; show_page and a bag filled before reset_prefs are the exceptions.
WalksLandEnabled ==
  [][slot' # slot /\ pending = None /\ reboots' = reboots /\ ~byReset
       /\ VisibleSlots(ram) # {}
     => slot' \in VisibleSlots(ram)]_vars
=============================================================================
