---------------------------- MODULE DeviceScreen ----------------------------
(***************************************************************************)
(* What is on the panel, and the state behind it: the page shown, the      *)
(* data and the look it is laid out from, the elements the user has hidden *)
(* (visibility.cpp) with their copy in NVS, the transition and the pet's   *)
(* animation (transitions.cpp, pet_widget.cpp), and loop()'s choice        *)
(* between a full redraw and drawing over what is there (main.cpp).        *)
(*                                                                         *)
(* glass is the set of rows (PageLayout) to be seen for certain.  A full   *)
(* redraw starts from an empty panel; any other draw leaves what the new   *)
(* rows do not cover.  Which page comes next is PageCycle's, and the OTA   *)
(* overlay OtaDevice's: here any other page may be next.  The pet itself   *)
(* is not on the glass, only its animation is followed.                    *)
(***************************************************************************)
EXTENDS PageLayout

CONSTANTS
  StartPages,  \* pages a run starts on
  JumpPages,   \* pages a jump may lead to
  BootPages,   \* pages a boot may show: what the order has at the first slot
  Earlier,     \* hidden elements an earlier run may have left in NVS
  Frames,      \* data of the state frames: how many entries, and whether rich
  AskedLooks,  \* looks that set_layout and set_text_scales ask for
  MaxHidden,   \* MAX_HIDDEN
  MaxEvents,   \* bound: commands, and times a BLE central comes to pair or is done
  MaxReboots   \* bound: resets

Anims    == {"idle", "sleep", "run_right", "jump"}
Zero     == "zero"      \* a hash of 0: the name of no element
Hid(h)   == Range(h)

ASSUME ScreenAssumption ==
  /\ UNION {StartPages, JumpPages, BootPages} \subseteq Pages
  /\ \A h \in Earlier :
       h \in Seq(Elements) /\ IsInjective(h) /\ Len(h) <= MaxHidden
  /\ Frames \subseteq [n : Nat, rich : BOOLEAN]
  /\ AskedLooks \subseteq [title : BOOLEAN, footer : BOOLEAN, scale : Int, rotation : Int]
  /\ \A p \in Pages : ElementsOf(p) \subseteq Elements
  /\ Zero \notin Elements
  /\ MaxHidden \in Nat /\ IsFiniteSet(Elements) /\ Cardinality(Elements) <= MaxHidden

VARIABLES
  page,        \* the page at s_slot_idx
  data,        \* g_store: what of it the layout depends on
  look,        \* g_store: show_title, show_footer, scales, rotation; persisted too
  hidden,      \* s_hidden[0 .. s_hidden_n - 1]
  nvs,         \* "h" and "n" of dashd-vis, "state" of dashd-pet
  glass,       \* rows on the panel
  wipe,        \* the transition: "none", or its kind "run_right", "jump"
  full,        \* s_force_full_redraw
  pairing,     \* needs_pairing(), set and cleared by the BLE host task
  wasPairing,  \* s_was_pairing
  anim,        \* s_anim_idx
  saved,       \* s_tr_saved_anim_idx
  since,       \* history: since the last full redraw the layout has changed, or
               \* pairing twice in one turn of the loop
  tangled,     \* history: something has come between a transition and the pet
  asked,       \* history: elements the user may have hidden
  torn,        \* history: power failed between the two writes of dashd-vis
  events, reboots

shown  == <<page, data, look, hidden>>
pet    == <<wipe, anim, saved, tangled>>
draws  == <<glass, full, wasPairing>>
asks   == <<asked, torn>>
bounds == <<events, reboots>>
vars   == <<shown, nvs, pet, draws, since, pairing, asks, bounds>>

NoData == [n |-> 0, rich |-> FALSE]

\* What a full redraw would put on the panel now.
Layout == UNION {Screen(page, data, look, h, FALSE) : h \in {Hid(hidden)}}

\* History: every command that may change the layout goes through here.
Noted ==
  \E now \in {Hid(hidden)}, next \in {Hid(hidden')} :
    since' = (since \/ Screen(page', data', look', next, FALSE)
                         # Screen(page, data, look, now, FALSE))

-----------------------------------------------------------------------------
(* visibility.cpp                                                          *)

IndexOf(h, el) == CHOOSE i \in 1 .. Len(h) : h[i] = el

\* The freed place takes the last element.
SetHidden(h, el, hide) ==
  IF hide
    THEN IF el \in Hid(h) \/ Len(h) >= MaxHidden THEN h ELSE Append(h, el)
    ELSE IF el \notin Hid(h) THEN h
         ELSE [i \in 1 .. Len(h) - 1 |-> IF i = IndexOf(h, el) THEN h[Len(h)] ELSE h[i]]

\* An empty blob is not written: Preferences refuses a length of 0.
PersistBlob(n, h) == IF h = <<>> THEN n ELSE [n EXCEPT !.h = h]

Mut_BlobOnly(n, h) == PersistBlob(n, h)
Persist(n, h) == [PersistBlob(n, h) EXCEPT !.n = Len(h)]

\* begin(): getBytes copies nothing when the blob is longer than it may be;
\* the array is zero from the start.
Loaded(n) ==
  LET got == IF Len(n.h) <= n.n THEN n.h ELSE <<>>
  IN [i \in 1 .. n.n |-> IF i <= Len(got) THEN got[i] ELSE Zero]

-----------------------------------------------------------------------------
(* Drawing                                                                 *)

\* draw_all: the title bar only in full or when the host comes or goes.
DrawAll(isFull, hostFlips) ==
  IF isFull
    THEN Screen(page, data, look, Hid(hidden), pairing)
    ELSE DrawnOver(glass, UNION {Content(page, data, look, Hid(hidden)), Footer(look),
                                 Box(pairing, look),
                                 IF hostFlips THEN TitleBar(page, look) ELSE {}})

\* loop() looks whether pairing has begun or ended, and draws later in the
\* same turn: the host task may come between the two.
Mut_BoxLingers ==
  /\ wipe = "none"
  /\ \E seen \in {wasPairing, pairing}, hostFlips \in BOOLEAN :
       /\ glass' = DrawAll(full, hostFlips)
       /\ since' = (since /\ ~full)
       /\ wasPairing' = seen
  /\ full' = FALSE
  /\ UNCHANGED <<shown, nvs, pet, pairing, asks, bounds>>
Draw ==
  /\ wipe = "none"
  /\ \E seen \in {wasPairing, pairing}, hostFlips \in BOOLEAN :
       LET isFull == full \/ seen # wasPairing
       IN /\ glass' = DrawAll(isFull, hostFlips)
          /\ since' = (since /\ ~isFull)
          /\ wasPairing' = seen
  /\ full' = FALSE
  /\ UNCHANGED <<shown, nvs, pet, pairing, asks, bounds>>

\* A second change before the loop has seen the first may leave a box nobody
\* clears: draw_all drew it, and the next turn sees nothing new.
PairingFlips ==
  /\ events < MaxEvents /\ events' = events + 1
  /\ pairing' = ~pairing
  /\ since' = (since \/ pairing # wasPairing)
  /\ UNCHANGED <<shown, nvs, pet, draws, asks, reboots>>

-----------------------------------------------------------------------------
(* Transitions                                                             *)

\* transition_begin hands the pet an animation and keeps the one it had.
BeginWipe(p, kind) ==
  /\ page' = p /\ since' = TRUE
  /\ wipe' = kind /\ saved' = anim /\ anim' = kind
  /\ UNCHANGED <<data, look, hidden, nvs, draws, pairing, asks>>

Button ==
  /\ wipe = "none"
  /\ \E p \in JumpPages \ {page}, kind \in {"run_right", "jump"} : BeginWipe(p, kind)
  /\ UNCHANGED <<tangled, bounds>>

AutoAdvance ==
  /\ wipe = "none" /\ ~pairing
  /\ \E p \in JumpPages \ {page} : BeginWipe(p, "run_right")
  /\ UNCHANGED <<tangled, bounds>>

\* The last tick clears the content band, gives the pet its animation back
\* and has everything redrawn in the same turn of the loop.
Mut_KeepsRunning ==
  /\ wipe # "none"
  /\ wipe' = "none"
  /\ \E seen \in {wasPairing, pairing} : wasPairing' = seen
  /\ glass' = DrawAll(TRUE, FALSE)
  /\ full' = FALSE /\ since' = FALSE
  /\ UNCHANGED <<shown, nvs, anim, saved, tangled, pairing, asks, bounds>>
FinishWipe ==
  /\ wipe # "none"
  /\ wipe' = "none" /\ anim' = saved
  /\ \E seen \in {wasPairing, pairing} : wasPairing' = seen
  /\ glass' = DrawAll(TRUE, FALSE)
  /\ full' = FALSE /\ since' = FALSE
  /\ UNCHANGED <<shown, nvs, saved, tangled, pairing, asks, bounds>>

-----------------------------------------------------------------------------
(* Commands and frames, at any time of a transition too                    *)

Command == events < MaxEvents /\ events' = events + 1 /\ UNCHANGED <<pairing, reboots>>

\* A jump is not held back by a transition: it starts one over.
ShowPage ==
  /\ Command
  /\ \E p \in JumpPages \ {page} : BeginWipe(p, "run_right")
  /\ tangled' = (tangled \/ wipe # "none")

SetElementVisible ==
  /\ Command
  /\ \E el \in ElementsOf(page), hide \in BOOLEAN :
       /\ hidden' = SetHidden(hidden, el, hide)
       /\ nvs' = IF hidden' = hidden THEN nvs ELSE Persist(nvs, hidden')
       /\ asked' = IF hide THEN asked \cup {el} ELSE asked \ {el}
  /\ UNCHANGED <<page, data, look, pet, draws, torn>>
  /\ Noted

ResetVisibility ==
  /\ Command
  /\ hidden' = <<>> /\ nvs' = Persist(nvs, <<>>)
  /\ asked' = {} /\ torn' = FALSE
  /\ UNCHANGED <<page, data, look, pet, draws>>
  /\ Noted

NewState ==
  /\ Command
  /\ data' \in Frames
  /\ UNCHANGED <<page, look, hidden, nvs, pet, draws, asks>>
  /\ Noted

\* set_pages_order may put another page at the slot shown, without a transition.
Reorder ==
  /\ Command
  /\ page' \in JumpPages \ {page}
  /\ UNCHANGED <<data, look, hidden, nvs, pet, draws, asks>>
  /\ Noted

Clamped(l) ==
  [l EXCEPT !.scale = IF @ < 1 THEN 1 ELSE IF @ > 4 THEN 4 ELSE @,
            !.rotation = IF @ \in 0 .. 3 THEN @ ELSE look.rotation]

\* set_layout, set_text_scales.  Only apply_rotation has everything redrawn.
SetLook ==
  /\ Command
  /\ \E l \in AskedLooks : look' = Clamped(l)
  /\ full' = (full \/ look'.rotation # look.rotation)
  /\ UNCHANGED <<page, data, hidden, nvs, pet, glass, wasPairing, asks>>
  /\ Noted

\* The animation it has already is not persisted again.
PetSetState ==
  /\ Command
  /\ \E a \in {"idle", "sleep"} \ {anim} :
       anim' = a /\ nvs' = [nvs EXCEPT !.anim = a]
  /\ tangled' = (wipe # "none")
  /\ UNCHANGED <<shown, wipe, saved, draws, since, asks>>

\* pet_set_active, also by an install: the first animation, "state" is kept.
PetSetActive ==
  /\ Command
  /\ anim' = "idle" /\ tangled' = TRUE
  /\ UNCHANGED <<shown, nvs, wipe, saved, draws, since, asks>>

-----------------------------------------------------------------------------
(* Resets                                                                  *)

\* setup(): the preferences are loaded, and everything is drawn.
Boot(n) ==
  /\ reboots < MaxReboots /\ reboots' = reboots + 1
  /\ page' \in BootPages /\ data' = NoData
  /\ hidden' = Loaded(n) /\ nvs' = n
  /\ wipe' = "none" /\ anim' = n.anim /\ saved' = n.anim /\ tangled' = FALSE
  /\ pairing' = FALSE /\ wasPairing' = FALSE
  /\ full' = FALSE /\ since' = FALSE
  /\ UNCHANGED look
  /\ glass' = Layout'

Reboot == Boot(nvs) /\ UNCHANGED <<asks, events>>

\* set_element_visible cut short: power fails between the blob and its count.
Cut ==
  /\ events < MaxEvents /\ events' = events + 1
  /\ \E el \in ElementsOf(page), hide \in BOOLEAN :
       /\ SetHidden(hidden, el, hide) # hidden
       /\ Boot(PersistBlob(nvs, SetHidden(hidden, el, hide)))
       /\ asked' = IF hide THEN asked \cup {el} ELSE asked
  /\ torn' = TRUE

-----------------------------------------------------------------------------
Init ==
  /\ page \in StartPages /\ data = NoData
  /\ look = Factory
  /\ hidden \in Earlier /\ nvs = [h |-> hidden, n |-> Len(hidden), anim |-> "idle"]
  /\ wipe = "none" /\ anim = "idle" /\ saved = "idle" /\ tangled = FALSE
  /\ pairing = FALSE /\ wasPairing = FALSE
  /\ full = FALSE /\ since = FALSE
  /\ glass = Layout
  /\ asked = Hid(hidden) /\ torn = FALSE
  /\ events = 0 /\ reboots = 0

Navigate == Button \/ AutoAdvance \/ ShowPage \/ Reorder
Change   == SetElementVisible \/ ResetVisibility \/ NewState \/ SetLook
Animate  == PetSetState \/ PetSetActive \/ FinishWipe

Next == Draw \/ PairingFlips \/ Navigate \/ Change \/ Animate \/ Reboot \/ Cut

Spec == Init /\ [][Next]_vars

-----------------------------------------------------------------------------
(* Properties                                                              *)

\* Types: the two hidden lists hold elements or zeros and fit their array, and
\* every animation is one of the pet's.
TypeOK ==
  /\ page \in Pages /\ data \in [n : Nat, rich : BOOLEAN] /\ look \in Looks
  /\ hidden \in Seq(Elements \cup {Zero}) /\ Len(hidden) <= MaxHidden
  /\ nvs \in [h : Seq(Elements \cup {Zero}), n : 0 .. MaxHidden, anim : Anims]
  /\ wipe \in {"none", "run_right", "jump"}
  /\ anim \in Anims /\ saved \in Anims
  /\ full \in BOOLEAN /\ pairing \in BOOLEAN /\ wasPairing \in BOOLEAN
  /\ since \in BOOLEAN /\ tangled \in BOOLEAN /\ torn \in BOOLEAN
  /\ asked \subseteq Elements

\* Drawing over what is there is safe as long as the layout is the one of the
\* last full redraw: whatever transitions, pairing boxes and reboots came
\* before, the panel then shows that layout and nothing else.  main.cpp
\* 265-266: "Force one full redraw when the Pair-Mode overlay appears or
\* clears so it doesn't linger after pairing completes."
CleanAfterFull ==
  ~since /\ ~full /\ wipe = "none" /\ pairing = wasPairing
    => glass = Screen(page, data, look, Hid(hidden), pairing)

\* cpu.cpp: "Layout fits the 240x320 portrait panel".  So it is for every
\* page, whatever the lists a frame brings and whatever is hidden, at the
\* text scale of the factory.
FitsPanel ==
  look.scale = 1 /\ look.rotation \in {0, 2}
    => \A r \in Content(page, data, look, Hid(hidden)) :
         TitleH(look) <= r.y /\ r.y + r.h <= Height(look) - FooterH(look)

\* pet_widget.h: "State (enable / corner / current animation / active pet slug)
\* persists in NVS so it survives reboots": between transitions the pet does what NVS would
\* have it do after a reboot, unless a command came in the middle of a
\* transition, or another pet was activated.
PetRestored == wipe = "none" /\ ~tangled => anim = nvs.anim

\* ElementsPane.tsx: "Settings persist in NVS across reboots".  What is hidden
\* is what was asked for, in RAM and after a reboot; when power failed in the
\* middle of a command, elements may be shown again, but none is hidden that
\* the user did not hide.
HiddenAsAsked ==
  \A h \in {hidden, Loaded(nvs)} :
    IF torn THEN Hid(h) \ {Zero} \subseteq asked ELSE Hid(h) = asked
=============================================================================
