------------------------- MODULE DeviceScreenProofs -------------------------
(***************************************************************************)
(* What is hidden on the device is what was asked for, with any number of  *)
(* commands, reboots and power failures, and the pet gets its animation    *)
(* back.  The invariant: what a reboot would load is what is in RAM, and   *)
(* no element is listed twice, or the swap of its removal would leave one. *)
(*                                                                         *)
(* What is on the panel is what belongs there.  The invariant says which   *)
(* layout is on the glass between two full redraws; that drawing over it   *)
(* is safe rests on where the rows of every page stand, for any data and   *)
(* any hidden elements: never on the title bar, and at the factory's scale *)
(* never on the footer.                                                    *)
(***************************************************************************)
EXTENDS DeviceScreen, TLAPS, FiniteSetTheorems, SequenceTheorems, WellFoundedInduction

Listed == Elements \cup {Zero}

\* No element stands twice in a list; zeros may.
Distinct(h) == \A i, j \in 1 .. Len(h) : h[i] = h[j] /\ h[i] # Zero => i = j

Lists ==
  /\ Loaded(nvs) = hidden
  /\ Distinct(hidden) /\ Distinct(nvs.h)
  /\ IF torn THEN Hid(hidden) \ {Zero} \subseteq asked ELSE Hid(hidden) = asked

Pet ==
  IF wipe = "none" THEN ~tangled => anim = nvs.anim
  ELSE ~tangled => saved = nvs.anim

-----------------------------------------------------------------------------
(* The hidden list                                                         *)

\* The elements of a list, one by one.
LEMMA HidFacts ==
  ASSUME NEW h \in Seq(Listed)
  PROVE  Len(h) \in Nat /\ h \in [1 .. Len(h) -> Listed] /\ Hid(h) = {h[i] : i \in 1 .. Len(h)}
BY DEF Hid, Range

\* A list one longer has one element more.
LEMMA LongerFacts ==
  ASSUME NEW h \in Seq(Listed), NEW a \in Seq(Listed), NEW el, Len(a) = Len(h) + 1,
         \A i \in 1 .. Len(h) : a[i] = h[i], a[Len(h) + 1] = el
  PROVE  Hid(a) = Hid(h) \cup {el}
<1>1. Len(h) \in Nat
  BY HidFacts
<1>2. \A i \in 1 .. Len(a) : i \in 1 .. Len(h) \/ i = Len(h) + 1
  BY <1>1
<1>3. \A i \in 1 .. Len(h) : i \in 1 .. Len(a)
  BY <1>1
<1>4. Len(h) + 1 \in 1 .. Len(a)
  BY <1>1
<1>5. Hid(a) \subseteq Hid(h) \cup {el}
  BY <1>2, HidFacts
<1>6. Hid(h) \subseteq Hid(a)
  BY <1>3, HidFacts
<1>7. el \in Hid(a)
  BY <1>4, HidFacts
<1>8. QED  BY <1>5, <1>6, <1>7

\* A new element goes to the end.
LEMMA AppendFacts ==
  ASSUME NEW h \in Seq(Listed), Distinct(h), NEW el \in Elements, el \notin Hid(h)
  PROVE  /\ Append(h, el) \in Seq(Listed) /\ Len(Append(h, el)) = Len(h) + 1
         /\ Distinct(Append(h, el)) /\ Hid(Append(h, el)) = Hid(h) \cup {el}
<1> DEFINE a == Append(h, el)
<1>1. /\ a \in Seq(Listed) /\ Len(a) = Len(h) + 1
      /\ \A i \in 1 .. Len(h) : a[i] = h[i]
      /\ a[Len(h) + 1] = el
  BY AppendProperties DEF Listed
<1> HIDE DEF a
<1>2. Hid(a) = Hid(h) \cup {el}
  BY <1>1, LongerFacts
<1>3. Distinct(a)
  BY <1>1, HidFacts DEF Distinct
<1>4. QED  BY <1>1, <1>2, <1>3 DEF a

\* The last element fills the freed place.
LEMMA RemoveFacts ==
  ASSUME NEW h \in Seq(Listed), Distinct(h), NEW el \in Elements, el \in Hid(h)
  PROVE  LET k == [i \in 1 .. Len(h) - 1 |-> IF i = IndexOf(h, el) THEN h[Len(h)] ELSE h[i]]
         IN  k \in Seq(Listed) /\ Len(k) = Len(h) - 1 /\ Distinct(k) /\ Hid(k) = Hid(h) \ {el}
<1> DEFINE at == IndexOf(h, el)
           k == [i \in 1 .. Len(h) - 1 |-> IF i = at THEN h[Len(h)] ELSE h[i]]
<1>1. at \in 1 .. Len(h) /\ h[at] = el
  BY HidFacts DEF IndexOf
<1>2. el # Zero
  BY ScreenAssumption
<1>3. \A i \in 1 .. Len(h) : h[i] = el => i = at
  BY <1>1, <1>2 DEF Distinct
<1> HIDE DEF at
<1>4. Len(h) \in Nat \ {0} /\ Len(h) - 1 \in Nat /\ h \in [1 .. Len(h) -> Listed]
  BY <1>1, HidFacts
<1>5. k \in [1 .. Len(h) - 1 -> Listed]
  BY <1>4
<1>6. k \in Seq(Listed) /\ Len(k) = Len(h) - 1
  BY <1>4, <1>5, IsASeq
<1>7. \A i \in 1 .. Len(h) - 1 : k[i] = IF i = at THEN h[Len(h)] ELSE h[i]
  OBVIOUS
<1> HIDE DEF k
<1>8. Distinct(k)
  BY <1>1, <1>4, <1>6, <1>7 DEF Distinct
<1>9. Hid(k) \subseteq Hid(h) \ {el}
  BY <1>1, <1>3, <1>4, <1>6, <1>7, HidFacts
<1>10. Hid(h) \ {el} \subseteq Hid(k)
  <2> SUFFICES ASSUME NEW i \in 1 .. Len(h), h[i] # el PROVE \E j \in 1 .. Len(k) : k[j] = h[i]
    BY <1>6, HidFacts
  <2>1. CASE i = Len(h)
    BY <1>1, <1>4, <1>6, <1>7, <2>1
  <2>2. CASE i # Len(h)
    <3>a. i # at
      BY <1>1, Zenon
    <3>b. Len(h) \in Nat
      BY <1>4
    <3>1. i \in 1 .. Len(h) - 1 /\ i # at
      BY <2>2, <3>a, <3>b
    <3>2. QED  BY <1>6, <1>7, <3>1
  <2>3. QED  BY <2>1, <2>2
<1>11. QED  BY <1>6, <1>8, <1>9, <1>10 DEF k, at

\* A list of distinct elements has room for one more element.
LEMMA RoomFacts ==
  ASSUME NEW h \in Seq(Elements), Distinct(h), NEW el \in Elements, el \notin Hid(h)
  PROVE  Len(h) < MaxHidden
<1>1. Len(h) \in Nat /\ h \in [1 .. Len(h) -> Elements] /\ Hid(h) = {h[i] : i \in 1 .. Len(h)}
  BY DEF Hid, Range
<1>2. h \in Bijection(1 .. Len(h), Hid(h))
  <2>1. \A i \in 1 .. Len(h) : h[i] # Zero
    BY <1>1, ScreenAssumption
  <2>2. h \in Injection(1 .. Len(h), Hid(h))
    <3>1. \A i, j \in 1 .. Len(h) : h[i] = h[j] => i = j
      BY <2>1 DEF Distinct
    <3>2. h \in [1 .. Len(h) -> Hid(h)] /\ DOMAIN h = 1 .. Len(h)
      BY <1>1
    <3>3. QED  BY <3>1, <3>2 DEF Injection, IsInjective
  <2>3. h \in Surjection(1 .. Len(h), Hid(h))
    BY <1>1 DEF Surjection
  <2>4. QED  BY <2>2, <2>3 DEF Bijection
<1>3. IsFiniteSet(Hid(h)) /\ Cardinality(Hid(h)) = Len(h)
  <2>1. Hid(h) \in SUBSET Elements
    BY <1>1
  <2>2. ExistsBijection(1 .. Len(h), Hid(h))
    BY <1>2 DEF ExistsBijection
  <2>3. IsFiniteSet(Hid(h))
    BY <2>1, FS_Subset, ScreenAssumption
  <2>4. QED  BY <1>1, <2>2, <2>3, FS_CountingElements
<1>4. Hid(h) \cup {el} \in SUBSET Elements
  BY <1>1
<1>5. Cardinality(Hid(h) \cup {el}) = Len(h) + 1
  BY <1>3, FS_AddElement
<1>6. Cardinality(Hid(h) \cup {el}) <= Cardinality(Elements) /\ Cardinality(Elements) \in Nat
  BY <1>4, FS_Subset, FS_CardinalityType, ScreenAssumption
<1>7. QED  BY <1>1, <1>5, <1>6, ScreenAssumption

\* visibility.cpp keeps the list free of doubles, and within its array.
LEMMA SetHiddenFacts ==
  ASSUME NEW h \in Seq(Listed), Distinct(h), Len(h) <= MaxHidden, NEW el \in Elements,
         NEW hide \in BOOLEAN
  PROVE  /\ SetHidden(h, el, hide) \in Seq(Listed) /\ Distinct(SetHidden(h, el, hide))
         /\ Len(SetHidden(h, el, hide)) <= MaxHidden
         /\ ~hide => Hid(SetHidden(h, el, hide)) = Hid(h) \ {el}
         /\ hide => Hid(SetHidden(h, el, hide)) \subseteq Hid(h) \cup {el}
         /\ hide /\ h \in Seq(Elements) => Hid(SetHidden(h, el, hide)) = Hid(h) \cup {el}
<1>0. Len(h) \in Nat /\ MaxHidden \in Nat
  BY ScreenAssumption
<1>1. CASE ~hide /\ el \notin Hid(h)
  BY <1>1 DEF SetHidden
<1>2. CASE ~hide /\ el \in Hid(h)
  BY <1>0, <1>2, RemoveFacts DEF SetHidden
<1>3. CASE hide /\ (el \in Hid(h) \/ Len(h) >= MaxHidden)
  <2>1. SetHidden(h, el, hide) = h
    BY <1>3 DEF SetHidden
  <2>2. h \in Seq(Elements) => el \in Hid(h)
    BY <1>0, <1>3, RoomFacts
  <2>3. QED  BY <1>3, <2>1, <2>2
<1>4. CASE hide /\ ~(el \in Hid(h) \/ Len(h) >= MaxHidden)
  <2>1. SetHidden(h, el, hide) = Append(h, el)
    BY <1>4 DEF SetHidden
  <2>2. el \notin Hid(h) /\ Len(h) + 1 <= MaxHidden
    BY <1>0, <1>4
  <2>3. /\ Append(h, el) \in Seq(Listed) /\ Len(Append(h, el)) = Len(h) + 1
        /\ Distinct(Append(h, el)) /\ Hid(Append(h, el)) = Hid(h) \cup {el}
    BY <2>2, AppendFacts
  <2>4. Len(Append(h, el)) <= MaxHidden
    BY <2>2, <2>3, Zenon
  <2>5. QED  BY <1>4, <2>1, <2>3, <2>4, Zenon
<1>5. QED  BY <1>1, <1>2, <1>3, <1>4

\* What begin() loads of a list that was stored with its count is that list.
LEMMA LoadedFacts ==
  ASSUME NEW n, n.h \in Seq(Listed), n.n \in 0 .. MaxHidden, Distinct(n.h)
  PROVE  /\ Loaded(n) \in Seq(Listed) /\ Len(Loaded(n)) <= MaxHidden /\ Distinct(Loaded(n))
         /\ Hid(Loaded(n)) \ {Zero} \subseteq Hid(n.h)
         /\ n.n = Len(n.h) => Loaded(n) = n.h
         /\ n.n = 0 => Loaded(n) = <<>>
<1> DEFINE got == IF Len(n.h) <= n.n THEN n.h ELSE <<>>
<1>1. got \in Seq(Listed) /\ Len(got) \in Nat /\ n.n \in Nat /\ Distinct(got)
      /\ got \in [1 .. Len(got) -> Listed] /\ Len(got) <= n.n
      /\ \A i \in 1 .. Len(got) : got[i] \in Hid(n.h)
  <2>1. CASE Len(n.h) <= n.n
    BY <2>1, HidFacts
  <2>2. CASE ~(Len(n.h) <= n.n)
    BY <2>2 DEF Distinct
  <2>3. QED  BY <2>1, <2>2
<1>2. Loaded(n) = [i \in 1 .. n.n |-> IF i <= Len(got) THEN got[i] ELSE Zero]
  BY DEF Loaded
<1>3. n.n = Len(n.h) => got = n.h
  BY HidFacts
<1> HIDE DEF got
<1>4. \A i \in 1 .. n.n : i <= Len(got) => i \in 1 .. Len(got)
  BY <1>1
<1>5. Loaded(n) \in [1 .. n.n -> Listed]
  BY <1>1, <1>2, <1>4 DEF Listed
<1>6. Loaded(n) \in Seq(Listed) /\ Len(Loaded(n)) = n.n
  BY <1>1, <1>5, IsASeq
<1>7. \A i \in 1 .. n.n : Loaded(n)[i] = IF i <= Len(got) THEN got[i] ELSE Zero
  BY <1>2
<1>8. Distinct(Loaded(n))
  BY <1>1, <1>4, <1>6, <1>7 DEF Distinct
<1>9. Hid(Loaded(n)) \ {Zero} \subseteq Hid(n.h)
  BY <1>1, <1>4, <1>6, <1>7, HidFacts
<1>10. n.n = Len(n.h) => Loaded(n) = n.h
  <2> SUFFICES ASSUME n.n = Len(n.h) PROVE Loaded(n) = n.h
    OBVIOUS
  <2>1. \A i \in 1 .. n.n : Loaded(n)[i] = n.h[i]
    BY <1>1, <1>3, <1>7
  <2>2. QED  BY <1>6, <2>1, SeqEqual
<1>11. n.n = 0 => Loaded(n) = <<>>
  BY <1>6, EmptySeq
<1>12. QED  BY <1>1, <1>6, <1>8, <1>9, <1>10, <1>11

Stored == [h : Seq(Listed), n : 0 .. MaxHidden, anim : Anims]

\* What set_element_visible writes is what begin() would load.
LEMMA PersistFacts ==
  ASSUME NEW n \in Stored, Distinct(n.h),
         NEW h \in Seq(Listed), Distinct(h), Len(h) <= MaxHidden
  PROVE  /\ Persist(n, h) \in Stored /\ Persist(n, h).anim = n.anim
         /\ Distinct(Persist(n, h).h) /\ Loaded(Persist(n, h)) = h
<1> DEFINE m == Persist(n, h)
<1>0. Len(h) \in 0 .. MaxHidden /\ Len(<<>>) = 0
  BY ScreenAssumption
<1>1. m.h = (IF h = <<>> THEN n.h ELSE h) /\ m.n = Len(h) /\ m.anim = n.anim /\ m \in Stored
  BY <1>0 DEF Persist, PersistBlob, Stored
<1> HIDE DEF m
<1>2. m.h \in Seq(Listed) /\ m.n \in 0 .. MaxHidden /\ Distinct(m.h)
  BY <1>0, <1>1 DEF Stored
<1>3. Loaded(m) = h
  <2>1. CASE h = <<>>
    <3>1. m.n = 0
      BY <1>0, <1>1, <2>1
    <3>2. Loaded(m) = <<>>
      BY <1>2, <3>1, LoadedFacts
    <3>3. QED  BY <2>1, <3>2
  <2>2. CASE h # <<>>
    <3>1. m.h = h /\ m.n = Len(m.h)
      BY <1>1, <2>2
    <3>2. Loaded(m) = m.h
      BY <1>2, <3>1, LoadedFacts
    <3>3. QED  BY <3>1, <3>2
  <2>3. QED  BY <2>1, <2>2
<1>4. QED  BY <1>1, <1>2, <1>3 DEF m

\* So is what a power failure leaves of it, the element it was about apart.
LEMMA BlobFacts ==
  ASSUME NEW n \in Stored, Distinct(n.h),
         NEW h \in Seq(Listed), Distinct(h), Len(h) <= MaxHidden
  PROVE  /\ PersistBlob(n, h) \in Stored /\ PersistBlob(n, h).anim = n.anim
         /\ Distinct(PersistBlob(n, h).h)
         /\ Hid(Loaded(PersistBlob(n, h))) \ {Zero} \subseteq Hid(h) \cup Hid(Loaded(n))
<1> DEFINE m == PersistBlob(n, h)
<1>1. CASE h = <<>>
  BY <1>1 DEF PersistBlob
<1>2. CASE h # <<>>
  <2>1. m.h = h /\ m.n = n.n /\ m.anim = n.anim /\ m \in Stored
    BY <1>2 DEF PersistBlob, Stored
  <2> HIDE DEF m
  <2>2. m.h \in Seq(Listed) /\ m.n \in 0 .. MaxHidden /\ Distinct(m.h)
    BY <2>1 DEF Stored
  <2>3. Hid(Loaded(m)) \ {Zero} \subseteq Hid(h)
    BY <2>1, <2>2, LoadedFacts
  <2>4. QED  BY <2>1, <2>2, <2>3 DEF m
<1>3. QED  BY <1>1, <1>2

-----------------------------------------------------------------------------
(* Types                                                                   *)

ListTypes ==
  /\ hidden \in Seq(Listed) /\ Len(hidden) <= MaxHidden
  /\ nvs \in Stored
  /\ asked \subseteq Elements /\ torn \in BOOLEAN

ScreenTypes ==
  /\ page \in Pages /\ data \in [n : Nat, rich : BOOLEAN] /\ look \in Looks
  /\ wipe \in {"none", "run_right", "jump"}
  /\ anim \in Anims /\ saved \in Anims
  /\ full \in BOOLEAN /\ pairing \in BOOLEAN /\ wasPairing \in BOOLEAN
  /\ since \in BOOLEAN /\ tangled \in BOOLEAN

\* The types of the lists, and those of the screen.
LEMMA TypeSplit == TypeOK <=> ListTypes /\ ScreenTypes
BY DEF TypeOK, ListTypes, ScreenTypes, Stored, Listed

\* The history stays a truth value.
LEMMA NotedFacts == ASSUME since \in BOOLEAN, Noted PROVE since' \in BOOLEAN
BY DEF Noted

\* What the constants lead to are pages, elements and data.
LEMMA PageFacts ==
  /\ StartPages \subseteq Pages /\ JumpPages \subseteq Pages /\ BootPages \subseteq Pages
  /\ \A p \in Pages : ElementsOf(p) \subseteq Elements
  /\ Frames \subseteq [n : Nat, rich : BOOLEAN]
BY ScreenAssumption

\* What set_layout and set_text_scales leave is a look.
LEMMA LookFacts ==
  ASSUME look \in Looks, NEW l \in AskedLooks
  PROVE  Clamped(l) \in Looks
<1>1. l \in [title : BOOLEAN, footer : BOOLEAN, scale : Int, rotation : Int]
  BY ScreenAssumption
<1>2. look.rotation \in 0 .. 3
  BY DEF Looks
<1> DEFINE s == IF l.scale < 1 THEN 1 ELSE IF l.scale > 4 THEN 4 ELSE l.scale
           r == IF l.rotation \in 0 .. 3 THEN l.rotation ELSE look.rotation
<1>3. Clamped(l) = [l EXCEPT !.scale = s, !.rotation = r]
  BY DEF Clamped
<1>4. s \in 1 .. 4 /\ r \in 0 .. 3
  BY <1>1, <1>2
<1> HIDE DEF s, r
<1>5. QED  BY <1>1, <1>3, <1>4 DEF Looks

-----------------------------------------------------------------------------
(* The invariant is kept                                                   *)

\* Every step, but for the three that change the lists, and resets.
Quiet ==
  \/ Draw \/ PairingFlips \/ Navigate \/ NewState \/ SetLook \/ Animate

\* The next-state relation, sorted.
LEMMA Steps == Next <=> Quiet \/ SetElementVisible \/ ResetVisibility \/ Reboot \/ Cut
BY DEF Next, Quiet, Change

\* A quiet step keeps the types of the screen.
LEMMA QuietTypes == ASSUME ScreenTypes, Quiet PROVE ScreenTypes'
<1>1. CASE Draw
  BY <1>1 DEF Draw, ScreenTypes, shown, pet
<1>2. CASE PairingFlips
  BY <1>2 DEF PairingFlips, ScreenTypes, shown, pet, draws
<1>3. CASE Navigate
  <2>1. CASE Button \/ AutoAdvance
    BY <2>1, PageFacts DEF Button, AutoAdvance, BeginWipe, ScreenTypes, Anims, draws
  <2>2. CASE ShowPage
    <3>1. tangled' \in BOOLEAN
      BY <2>2 DEF ShowPage, ScreenTypes
    <3>2. QED  BY <2>2, <3>1, PageFacts DEF ShowPage, Command, BeginWipe, ScreenTypes, Anims, draws
  <2>3. CASE Reorder
    <3>1. since' \in BOOLEAN
      BY <2>3, NotedFacts DEF Reorder, ScreenTypes
    <3>2. QED  BY <2>3, <3>1, PageFacts DEF Reorder, Command, ScreenTypes, pet, draws
  <2>4. QED  BY <1>3, <2>1, <2>2, <2>3 DEF Navigate
<1>4. CASE NewState
  <2>1. since' \in BOOLEAN
    BY <1>4, NotedFacts DEF NewState, ScreenTypes
  <2>2. QED  BY <1>4, <2>1, PageFacts DEF NewState, Command, ScreenTypes, pet, draws
<1>5. CASE SetLook
  <2>1. since' \in BOOLEAN /\ full' \in BOOLEAN
    BY <1>5, NotedFacts DEF SetLook, ScreenTypes
  <2>2. look' \in Looks
    BY <1>5, LookFacts DEF SetLook, ScreenTypes
  <2>3. QED  BY <1>5, <2>1, <2>2 DEF SetLook, Command, ScreenTypes, pet
<1>6. CASE Animate
  <2>1. CASE PetSetState
    BY <2>1 DEF PetSetState, Command, ScreenTypes, Anims, shown, draws
  <2>2. CASE PetSetActive
    BY <2>2 DEF PetSetActive, Command, ScreenTypes, Anims, shown, draws
  <2>3. CASE FinishWipe
    BY <2>3 DEF FinishWipe, ScreenTypes, shown
  <2>4. QED  BY <1>6, <2>1, <2>2, <2>3 DEF Animate
<1>7. QED  BY <1>1, <1>2, <1>3, <1>4, <1>5, <1>6 DEF Quiet

\* A quiet step leaves the lists alone, and what a reboot would load.
LEMMA QuietLists == ASSUME ListTypes, Lists, Quiet PROVE ListTypes' /\ Lists'
<1>1. UNCHANGED <<hidden, asked, torn>>
  BY DEF Quiet, Draw, PairingFlips, Navigate, Button, AutoAdvance, ShowPage, Reorder, BeginWipe,
     NewState, SetLook, Animate, PetSetState, PetSetActive, FinishWipe, shown, asks
<1>2. nvs' = nvs \/ \E a \in Anims : nvs' = [nvs EXCEPT !.anim = a]
  BY DEF Quiet, Draw, PairingFlips, Navigate, Button, AutoAdvance, ShowPage, Reorder, BeginWipe,
     NewState, SetLook, Animate, PetSetState, PetSetActive, FinishWipe, Anims
<1>3. nvs' \in Stored /\ nvs'.h = nvs.h /\ nvs'.n = nvs.n
  BY <1>2 DEF ListTypes, Stored
<1>4. Loaded(nvs') = Loaded(nvs)
  BY <1>3 DEF Loaded
<1>5. QED  BY <1>1, <1>3, <1>4 DEF ListTypes, Lists

\* A quiet step keeps track of the pet's animation.
LEMMA QuietPet == ASSUME ScreenTypes, ListTypes, Pet, Quiet PROVE Pet'
<1>1. CASE Draw \/ PairingFlips \/ NewState \/ SetLook \/ Reorder
  BY <1>1 DEF Draw, PairingFlips, NewState, SetLook, Reorder, Pet, pet
<1>2. CASE Button \/ AutoAdvance
  BY <1>2 DEF Button, AutoAdvance, BeginWipe, Pet
<1>3. CASE ShowPage
  <2>1. ~tangled' => wipe = "none" /\ ~tangled
    BY <1>3 DEF ShowPage
  <2>2. QED  BY <1>3, <2>1 DEF ShowPage, BeginWipe, Pet
<1>4. CASE PetSetState
  <2>1. nvs'.anim = anim'
    BY <1>4 DEF PetSetState, ListTypes, Stored
  <2>2. wipe' = "none" \/ tangled'
    BY <1>4 DEF PetSetState
  <2>3. QED  BY <2>1, <2>2 DEF Pet
<1>5. CASE PetSetActive
  BY <1>5 DEF PetSetActive, Pet
<1>6. CASE FinishWipe
  BY <1>6 DEF FinishWipe, Pet
<1>7. QED  BY <1>1, <1>2, <1>3, <1>4, <1>5, <1>6 DEF Quiet, Navigate, Animate

\* Without a cut, the list holds elements only.
LEMMA AskedElements ==
  ASSUME ListTypes, Lists, ~torn
  PROVE  hidden \in Seq(Elements)
<1>1. /\ Len(hidden) \in Nat /\ hidden \in [1 .. Len(hidden) -> Listed]
      /\ \A i \in 1 .. Len(hidden) : hidden[i] \in Hid(hidden)
  BY HidFacts DEF ListTypes
<1>2. Hid(hidden) \subseteq Elements
  BY DEF Lists, ListTypes
<1>3. hidden \in [1 .. Len(hidden) -> Elements]
  BY <1>1, <1>2
<1>4. QED  BY <1>1, <1>3

\* Hiding and showing an element keeps the invariant.
LEMMA SetElement ==
  ASSUME TypeOK, Lists, Pet, SetElementVisible
  PROVE  TypeOK' /\ Lists' /\ Pet'
<1>0. ListTypes /\ ScreenTypes
  BY TypeSplit
<1>1. PICK el \in ElementsOf(page), hide \in BOOLEAN :
        /\ hidden' = SetHidden(hidden, el, hide)
        /\ nvs' = IF hidden' = hidden THEN nvs ELSE Persist(nvs, hidden')
        /\ asked' = IF hide THEN asked \cup {el} ELSE asked \ {el}
  BY DEF SetElementVisible
<1>2. el \in Elements
  BY <1>0, PageFacts DEF ScreenTypes
<1>3. /\ hidden \in Seq(Listed) /\ Distinct(hidden) /\ Len(hidden) <= MaxHidden
      /\ nvs \in Stored /\ Distinct(nvs.h)
  BY <1>0 DEF ListTypes, Lists
<1>4. /\ hidden' \in Seq(Listed) /\ Distinct(hidden') /\ Len(hidden') <= MaxHidden
      /\ ~hide => Hid(hidden') = Hid(hidden) \ {el}
      /\ hide => Hid(hidden') \subseteq Hid(hidden) \cup {el}
      /\ hide /\ hidden \in Seq(Elements) => Hid(hidden') = Hid(hidden) \cup {el}
  BY <1>1, <1>2, <1>3, SetHiddenFacts
<1>5. nvs' \in Stored /\ nvs'.anim = nvs.anim /\ Distinct(nvs'.h) /\ Loaded(nvs') = hidden'
  <2>1. CASE hidden' = hidden
    BY <1>1, <1>3, <2>1 DEF Lists
  <2>2. CASE hidden' # hidden
    <3>1. nvs' = Persist(nvs, hidden')
      BY <1>1, <2>2
    <3>2. QED  BY <1>3, <1>4, <3>1, PersistFacts
  <2>3. QED  BY <2>1, <2>2
<1>6. torn' = torn
  BY DEF SetElementVisible
<1>7. IF torn' THEN Hid(hidden') \ {Zero} \subseteq asked' ELSE Hid(hidden') = asked'
  <2>1. CASE torn
    BY <1>1, <1>4, <1>6, <2>1 DEF Lists
  <2>2. CASE ~torn
    BY <1>0, <1>1, <1>4, <1>6, <2>2, AskedElements DEF Lists
  <2>3. QED  BY <2>1, <2>2
<1>8. asked' \subseteq Elements
  BY <1>0, <1>1, <1>2 DEF ListTypes
<1>9. ScreenTypes'
  <2>1. since' \in BOOLEAN
    BY <1>0, NotedFacts DEF SetElementVisible, ScreenTypes
  <2>2. QED  BY <1>0, <2>1 DEF SetElementVisible, Command, ScreenTypes, pet, draws
<1>10. Pet'
  BY <1>5 DEF SetElementVisible, Pet, pet
<1>11. ListTypes' /\ Lists'
  BY <1>0, <1>4, <1>5, <1>6, <1>7, <1>8 DEF ListTypes, Lists
<1>12. QED
  BY <1>9, <1>10, <1>11 DEF TypeOK, ListTypes, ScreenTypes, Stored, Listed

\* The empty list is a list.
LEMMA EmptyFacts ==
  <<>> \in Seq(Listed) /\ Distinct(<<>>) /\ Len(<<>>) <= MaxHidden /\ Hid(<<>>) = {}
<1>1. <<>> \in Seq(Listed) /\ Len(<<>>) = 0
  BY EmptySeq
<1>2. Hid(<<>>) = {}
  <2> DEFINE none == <<>>
  <2>1. none \in Seq(Listed) /\ Len(none) = 0
    BY <1>1
  <2> HIDE DEF none
  <2>2. Hid(none) = {}
    <3>1. Hid(none) = {none[i] : i \in 1 .. Len(none)}
      BY <2>1, HidFacts
    <3>2. 1 .. Len(none) = {}
      BY <2>1
    <3>3. QED  BY <3>1, <3>2
  <2>3. QED  BY <2>2 DEF none
<1>3. Distinct(<<>>)
  BY <1>1 DEF Distinct
<1>4. QED  BY <1>1, <1>2, <1>3, ScreenAssumption

\* Showing everything again keeps the invariant.
LEMMA ResetAll ==
  ASSUME TypeOK, Lists, Pet, ResetVisibility
  PROVE  TypeOK' /\ Lists' /\ Pet'
<1>0. ListTypes /\ ScreenTypes
  BY TypeSplit
<1>1. nvs' \in Stored /\ nvs'.anim = nvs.anim /\ Distinct(nvs'.h) /\ Loaded(nvs') = <<>>
  <2>1. nvs' = Persist(nvs, <<>>) /\ nvs \in Stored /\ Distinct(nvs.h)
    BY <1>0 DEF ResetVisibility, ListTypes, Lists
  <2> DEFINE none == <<>>
  <2>2. none \in Seq(Listed) /\ Distinct(none) /\ Len(none) <= MaxHidden
    BY EmptyFacts
  <2> HIDE DEF none
  <2>3. /\ Persist(nvs, none) \in Stored /\ Persist(nvs, none).anim = nvs.anim
        /\ Distinct(Persist(nvs, none).h) /\ Loaded(Persist(nvs, none)) = none
    BY <2>1, <2>2, PersistFacts
  <2>4. nvs' = Persist(nvs, none)
    BY <2>1 DEF none
  <2>5. /\ nvs' \in Stored /\ nvs'.anim = nvs.anim
        /\ Distinct(nvs'.h) /\ Loaded(nvs') = none
    BY <2>3, <2>4
  <2>6. QED  BY <2>5 DEF none
<1>2. hidden' = <<>> /\ asked' = {} /\ torn' = FALSE
  BY DEF ResetVisibility
<1>3. ListTypes' /\ Lists'
  BY <1>1, <1>2, EmptyFacts DEF ListTypes, Lists
<1>4. ScreenTypes'
  <2>1. since' \in BOOLEAN
    BY <1>0, NotedFacts DEF ResetVisibility, ScreenTypes
  <2>2. QED  BY <1>0, <2>1 DEF ResetVisibility, Command, ScreenTypes, pet, draws
<1>5. Pet'
  BY <1>1 DEF ResetVisibility, Pet, pet
<1>6. QED
  BY <1>3, <1>4, <1>5 DEF TypeOK, ListTypes, ScreenTypes, Stored, Listed

\* A boot loads what the flash holds.
LEMMA BootFacts ==
  ASSUME ScreenTypes, NEW n \in Stored, Distinct(n.h), Boot(n)
  PROVE  /\ ScreenTypes' /\ Pet'
         /\ hidden' \in Seq(Listed) /\ Len(hidden') <= MaxHidden /\ nvs' \in Stored
         /\ Loaded(nvs') = hidden' /\ Distinct(hidden') /\ Distinct(nvs'.h)
         /\ hidden' = Loaded(n)
<1>1. hidden' = Loaded(n) /\ nvs' = n
  BY DEF Boot
<1>2. n.h \in Seq(Listed) /\ n.n \in 0 .. MaxHidden /\ n.anim \in Anims
  BY DEF Stored
<1>3. Loaded(n) \in Seq(Listed) /\ Len(Loaded(n)) <= MaxHidden /\ Distinct(Loaded(n))
  BY <1>2, LoadedFacts
<1>4. ScreenTypes'
  BY <1>2, PageFacts DEF Boot, ScreenTypes, NoData
<1>5. Pet'
  BY DEF Boot, Pet
<1>6. QED  BY <1>1, <1>3, <1>4, <1>5

\* A reset keeps it, one in the middle of a command too.
LEMMA Resets ==
  ASSUME TypeOK, Lists, Pet, Reboot \/ Cut
  PROVE  TypeOK' /\ Lists' /\ Pet'
<1>0. ListTypes /\ ScreenTypes /\ nvs \in Stored /\ Distinct(nvs.h)
  BY TypeSplit DEF ListTypes, Lists
<1>1. CASE Reboot
  <2>1. Boot(nvs) /\ asked' = asked /\ torn' = torn
    BY <1>1 DEF Reboot, asks
  <2>2. ListTypes' /\ Lists' /\ ScreenTypes' /\ Pet'
    BY <1>0, <2>1, BootFacts DEF ListTypes, Lists
  <2>3. QED  BY <2>2 DEF TypeOK, ListTypes, ScreenTypes, Stored, Listed
<1>2. CASE Cut
  <2>1. PICK el \in ElementsOf(page), hide \in BOOLEAN :
          /\ Boot(PersistBlob(nvs, SetHidden(hidden, el, hide)))
          /\ asked' = IF hide THEN asked \cup {el} ELSE asked
    BY <1>2 DEF Cut
  <2>2. el \in Elements /\ torn'
    BY <1>0, <1>2, PageFacts DEF ScreenTypes, Cut
  <2> DEFINE h == SetHidden(hidden, el, hide)
  <2>3. /\ h \in Seq(Listed) /\ Distinct(h) /\ Len(h) <= MaxHidden
        /\ ~hide => Hid(h) = Hid(hidden) \ {el}
        /\ hide => Hid(h) \subseteq Hid(hidden) \cup {el}
    BY <1>0, <2>2, SetHiddenFacts DEF ListTypes, Lists
  <2> HIDE DEF h
  <2>4. /\ PersistBlob(nvs, h) \in Stored /\ Distinct(PersistBlob(nvs, h).h)
        /\ Hid(Loaded(PersistBlob(nvs, h))) \ {Zero} \subseteq Hid(h) \cup Hid(hidden)
    BY <1>0, <2>3, BlobFacts DEF Lists
  <2>5. /\ ScreenTypes' /\ Pet'
        /\ hidden' \in Seq(Listed) /\ Len(hidden') <= MaxHidden /\ nvs' \in Stored
        /\ Loaded(nvs') = hidden' /\ Distinct(hidden') /\ Distinct(nvs'.h)
        /\ hidden' = Loaded(PersistBlob(nvs, h))
    BY <1>0, <2>1, <2>4, BootFacts DEF h
  <2>6. Hid(hidden) \ {Zero} \subseteq asked
    BY DEF Lists
  <2>7. Hid(hidden') \ {Zero} \subseteq asked'
    BY <2>1, <2>3, <2>4, <2>5, <2>6
  <2>8. asked' \subseteq Elements
    BY <1>0, <2>1, <2>2 DEF ListTypes
  <2>9. torn' = TRUE
    BY <1>2 DEF Cut
  <2>10. ListTypes' /\ Lists'
    BY <2>5, <2>7, <2>8, <2>9 DEF ListTypes, Lists
  <2>11. QED  BY <2>5, <2>10 DEF TypeOK, ListTypes, ScreenTypes, Stored, Listed
<1>3. QED  BY <1>1, <1>2


\* The device starts with it.
LEMMA StartInv == ASSUME Init PROVE TypeOK /\ Lists /\ Pet
<1>1. hidden \in Seq(Elements) /\ IsInjective(hidden) /\ Len(hidden) <= MaxHidden
  BY ScreenAssumption DEF Init
<1>2. hidden \in Seq(Listed) /\ Len(hidden) \in 0 .. MaxHidden /\ DOMAIN hidden = 1 .. Len(hidden)
      /\ Hid(hidden) \subseteq Elements
  BY <1>1, ScreenAssumption DEF Listed, Hid, Range
<1>3. Distinct(hidden)
  BY <1>1, <1>2 DEF Distinct, IsInjective
<1>4. nvs = [h |-> hidden, n |-> Len(hidden), anim |-> "idle"]
  BY DEF Init
<1>5. nvs \in Stored /\ nvs.h = hidden /\ nvs.n = Len(nvs.h) /\ nvs.anim = "idle"
  BY <1>2, <1>4 DEF Stored, Anims
<1>6. nvs.h \in Seq(Listed) /\ nvs.n \in 0 .. MaxHidden /\ Distinct(nvs.h)
  BY <1>2, <1>3, <1>5
<1>7. Loaded(nvs) = hidden
  BY <1>5, <1>6, LoadedFacts
<1>8. asked = Hid(hidden) /\ torn = FALSE
  BY DEF Init
<1>9. Lists /\ ListTypes
  <2>1. Lists
    BY <1>3, <1>5, <1>7, <1>8 DEF Lists
  <2>2. ListTypes
    BY <1>1, <1>2, <1>5, <1>8 DEF ListTypes
  <2>3. QED  BY <2>1, <2>2
<1>10. Factory \in Looks
  BY DEF Factory, Looks
<1>11. NoData \in [n : Nat, rich : BOOLEAN]
  BY DEF NoData
<1>12. ScreenTypes
  BY <1>10, <1>11, PageFacts DEF Init, ScreenTypes, Anims
<1>13. Pet
  BY <1>5 DEF Init, Pet
<1>14. QED  BY <1>9, <1>12, <1>13, TypeSplit

\* IInv of the component: the types, what the lists agree on, and the pet.
IInv == TypeOK /\ Lists /\ Pet

\* Nothing happening keeps it.
LEMMA StutterInv == ASSUME IInv, UNCHANGED vars PROVE IInv'
BY DEF IInv, TypeOK, Lists, Pet, Loaded, vars, shown, pet, draws, asks

\* A quiet step keeps it.
LEMMA QuietInv == ASSUME IInv, Quiet PROVE IInv'
<1>1. ListTypes /\ ScreenTypes /\ Lists /\ Pet
  BY TypeSplit DEF IInv
<1>2. ScreenTypes' /\ ListTypes' /\ Lists' /\ Pet'
  BY <1>1, QuietTypes, QuietLists, QuietPet
<1>3. TypeOK'
  BY <1>2 DEF TypeOK, ListTypes, ScreenTypes, Stored, Listed
<1>4. QED  BY <1>2, <1>3 DEF IInv

\* The invariant holds in every behaviour.
LEMMA Inductive == Spec => []IInv
<1>1. Init => IInv
  BY StartInv DEF IInv
<1>2. ASSUME IInv, [Next]_vars PROVE IInv'
  <2>1. CASE Quiet
    BY <1>2, <2>1, QuietInv
  <2>2. CASE SetElementVisible
    BY <1>2, <2>2, SetElement DEF IInv
  <2>3. CASE ResetVisibility
    BY <1>2, <2>3, ResetAll DEF IInv
  <2>4. CASE Reboot \/ Cut
    BY <1>2, <2>4, Resets DEF IInv
  <2>5. CASE UNCHANGED vars
    BY <1>2, <2>5, StutterInv
  <2>6. QED  BY <1>2, <2>1, <2>2, <2>3, <2>4, <2>5, Steps
<1>3. QED  BY <1>1, <1>2, PTL DEF Spec

-----------------------------------------------------------------------------
(* Theorems                                                                *)

\* Whatever a frame, a command, a reboot or a power failure brings, the page,
\* the look and the animations stay ones the device has, and the hidden list
\* fits its array in RAM and in NVS (visibility.cpp, pet_widget.cpp, main.cpp).
THEOREM TypeCorrect == Spec => []TypeOK
<1>1. IInv => TypeOK
  BY DEF IInv
<1>2. QED  BY <1>1, Inductive, PTL

\* transition_finish gives the pet back the animation a reboot would give it,
\* for any number of transitions, unless something came between (main.cpp).
THEOREM GivesPetBack == Spec => []PetRestored
<1>1. IInv => PetRestored
  BY DEF IInv, Pet, PetRestored
<1>2. QED  BY <1>1, Inductive, PTL

\* What is hidden is what was asked for, in RAM and after a reboot; a power
\* failure in the middle of a command hides nothing the user did not hide
\* (visibility.cpp: set, persist and begin).
THEOREM HidesAsAsked == Spec => []HiddenAsAsked
<1>1. IInv => HiddenAsAsked
  BY DEF IInv, Lists, HiddenAsAsked
<1>2. QED  BY <1>1, Inductive, PTL

-----------------------------------------------------------------------------
(* The cursor of a page                                                    *)

\* A set of naturals with a bound has a least member.
LEMMA LeastExists ==
  ASSUME NEW n \in Nat, NEW T, T \subseteq 0 .. n, T # {}
  PROVE  \E t \in T : \A u \in T : t <= u
<1> DEFINE U == 0 .. n
           F == {0 .. t : t \in T}
<1>1. IsFiniteSet(U)
  BY FS_Interval
<1>2. IsWellFoundedOn(StrictSubsetOrdering(U), SUBSET U)
  BY <1>1, FS_StrictSubsetOrderingWellFounded, FS_FiniteSubsetsOfFinite
<1>3. F \subseteq SUBSET U /\ F # {}
  <2>1. \A t \in T : 0 .. t \in SUBSET U
    OBVIOUS
  <2>2. PICK t \in T : TRUE
    OBVIOUS
  <2>3. 0 .. t \in F
    OBVIOUS
  <2> QED  BY <2>1, <2>3
<1>4. PICK m \in F : \A k \in F : ~(<<k, m>> \in StrictSubsetOrdering(U))
  BY <1>2, <1>3, WFMin
<1>5. PICK t \in T : m = 0 .. t
  BY <1>4
<1>6. ASSUME NEW u \in T PROVE t <= u
  <2>1. SUFFICES ASSUME u < t PROVE FALSE
    BY <1>5
  <2>2. 0 .. u \in F
    OBVIOUS
  <2>3. 0 .. u \subseteq m /\ 0 .. u # m /\ m \subseteq U /\ 0 .. u \subseteq U
    BY <1>5, <2>1
  <2>4. QED  BY <1>4, <2>2, <2>3 DEF StrictSubsetOrdering
<1> QED
  BY <1>6

\* A small fact of arithmetic, for terms the solver would look into.
LEMMA SumOfInts ==
  ASSUME NEW a \in Int, NEW b \in Int, NEW d \in Int
  PROVE  /\ a + b + d \in Int /\ a + b \in Int
         /\ b + d >= 0 => a + b + d >= a
         /\ b >= -4 => a + b >= a - 4
  OBVIOUS

\* The cursor after the first i rows, as the code moves it.
Moves(f, top, rows, hid, n) ==
  /\ f \in [0 .. n -> Int]
  /\ \A i \in 0 .. n :
       f[i] = IF i = 0 THEN top
              ELSE IF rows[i].what \in hid THEN f[i - 1]
              ELSE f[i - 1] + rows[i].gap + rows[i].step

\* There is one such cursor for any rows: Cursor.
LEMMA CursorMoves ==
  ASSUME NEW top \in Int, NEW rows, NEW hid, Len(rows) \in Nat,
         \A i \in 1 .. Len(rows) : rows[i].gap \in Int /\ rows[i].step \in Int
  PROVE  Moves(Cursor(top, rows, hid), top, rows, hid, Len(rows))
<1> DEFINE P(n) == \E f : Moves(f, top, rows, hid, n)
           T == {n \in 0 .. Len(rows) : ~P(n)}
<1>1. T = {}
  <2> SUFFICES ASSUME T # {} PROVE FALSE
    OBVIOUS
  <2>1. PICK n \in T : \A u \in T : n <= u
    <3>1. T \subseteq 0 .. Len(rows)
      OBVIOUS
    <3> HIDE DEF T
    <3> QED  BY <3>1, LeastExists
  <2>2. n # 0
    <3>1. Moves([i \in 0 .. 0 |-> top], top, rows, hid, 0)
      BY DEF Moves
    <3> QED  BY <3>1
  <2>3. n - 1 \in 0 .. Len(rows) /\ n - 1 \notin T /\ n \in 1 .. Len(rows)
    BY <2>1, <2>2
  <2>4. PICK f : Moves(f, top, rows, hid, n - 1)
    BY <2>3
  <2> DEFINE v == IF rows[n].what \in hid THEN f[n - 1] ELSE f[n - 1] + rows[n].gap + rows[n].step
             g == [i \in 0 .. n |-> IF i = n THEN v ELSE f[i]]
  <2>5. v \in Int /\ f \in [0 .. n - 1 -> Int]
    BY <2>3, <2>4 DEF Moves
  <2>6. g \in [0 .. n -> Int] /\ g[n] = v /\ \A i \in 0 .. n - 1 : g[i] = f[i]
    <3>1. \A i \in 0 .. n : i # n => i \in 0 .. n - 1
      BY <2>3
    <3>2. \A i \in 0 .. n - 1 : i # n /\ i \in 0 .. n
      BY <2>3
    <3> HIDE DEF v
    <3> QED  BY <2>3, <2>5, <3>1, <3>2
  <2> HIDE DEF g
  <2>7. Moves(g, top, rows, hid, n)
    <3> SUFFICES ASSUME NEW i \in 0 .. n
                 PROVE  g[i] = IF i = 0 THEN top
                               ELSE IF rows[i].what \in hid THEN g[i - 1]
                               ELSE g[i - 1] + rows[i].gap + rows[i].step
      BY <2>6 DEF Moves
    <3>1. CASE i = n
      <4>1. n - 1 \in 0 .. n - 1
        BY <2>3
      <4> QED  BY <2>2, <2>6, <3>1, <4>1
    <3>2. CASE i # n
      <4>1. i \in 0 .. n - 1 /\ (i # 0 => i - 1 \in 0 .. n - 1)
        BY <2>3, <3>2
      <4> QED  BY <2>4, <2>6, <4>1 DEF Moves
    <3> QED  BY <3>1, <3>2
  <2> QED  BY <2>1, <2>7
<1>2. P(Len(rows))
  BY <1>1
<1> DEFINE Law(f) == f = [i \in 0 .. Len(rows) |->
                            IF i = 0 THEN top
                            ELSE IF rows[i].what \in hid THEN f[i - 1]
                            ELSE f[i - 1] + rows[i].gap + rows[i].step]
<1>3. \E f : Law(f)
  <2>1. PICK f : Moves(f, top, rows, hid, Len(rows))
    BY <1>2
  <2>2. Law(f)
    BY <2>1 DEF Moves
  <2> QED  BY <2>2
<1>4. Cursor(top, rows, hid) = CHOOSE f : Law(f)
  BY DEF Cursor
<1>5. Law(Cursor(top, rows, hid))
  BY <1>3, <1>4
<1> DEFINE c == Cursor(top, rows, hid)
           U == {i \in 0 .. Len(rows) : c[i] \notin Int}
<1>6. c = [i \in 0 .. Len(rows) |->
             IF i = 0 THEN top
             ELSE IF rows[i].what \in hid THEN c[i - 1]
             ELSE c[i - 1] + rows[i].gap + rows[i].step]
  BY <1>5
<1> HIDE DEF c
<1>7. \A i \in 0 .. Len(rows) :
        c[i] = IF i = 0 THEN top
               ELSE IF rows[i].what \in hid THEN c[i - 1]
               ELSE c[i - 1] + rows[i].gap + rows[i].step
  BY <1>6
<1>8. U = {}
  <2> SUFFICES ASSUME U # {} PROVE FALSE
    OBVIOUS
  <2>1. PICK n \in U : \A u \in U : n <= u
    <3>1. U \subseteq 0 .. Len(rows)
      OBVIOUS
    <3> HIDE DEF U
    <3> QED  BY <3>1, LeastExists
  <2>2. n # 0
    BY <1>7
  <2>3. n - 1 \in 0 .. Len(rows) /\ n - 1 \notin U /\ n \in 1 .. Len(rows)
    BY <2>1, <2>2
  <2>4. c[n - 1] \in Int /\ rows[n].gap \in Int /\ rows[n].step \in Int
    BY <2>3
  <2>5. c[n] = IF rows[n].what \in hid THEN c[n - 1] ELSE c[n - 1] + rows[n].gap + rows[n].step
    BY <1>7, <2>2, <2>3
  <2>6. c[n] \in Int
    BY <2>4, <2>5, SumOfInts
  <2> QED  BY <2>1, <2>6
<1>9. c \in [0 .. Len(rows) -> Int]
  BY <1>6, <1>8
<1> QED  BY <1>7, <1>9 DEF Moves, c

\* Rows; a plain one starts at most four pixels above the cursor, and never
\* moves it up.
Names == Elements \cup {"gpu"}
Rows  == [what : Names, gap : Int, h : Int, step : Int]
Plain == {r \in Rows : r.gap >= -4 /\ r.gap + r.step >= 0}

\* Whatever is hidden, a row stands no more than four pixels above the top.
\* The last row of a page may leave the cursor anywhere.
LEMMA FlowBelow ==
  ASSUME NEW top \in Int, NEW hid,
         NEW rows \in Seq(Rows),
         \A i \in 1 .. Len(rows) :
           rows[i].gap >= -4 /\ (i < Len(rows) => rows[i].gap + rows[i].step >= 0),
         NEW r \in Flow(top, rows, hid)
  PROVE  r.y \in Int /\ r.y >= top - 4 /\ r.at = "row" /\ r.h \in Int
<1> DEFINE c == Cursor(top, rows, hid)
           T == {i \in 0 .. Len(rows) : i < Len(rows) /\ ~(c[i] >= top)}
<1>1. /\ Len(rows) \in Nat
      /\ \A i \in 1 .. Len(rows) : rows[i].gap \in Int /\ rows[i].step \in Int /\ rows[i].h \in Int
  <2>1. Len(rows) \in Nat /\ \A i \in 1 .. Len(rows) : rows[i] \in Rows
    BY LenProperties, ElementOfSeq
  <2> QED  BY <2>1 DEF Rows
<1>2. Moves(c, top, rows, hid, Len(rows))
  BY <1>1, CursorMoves
<1> HIDE DEF c
<1>3. T = {}
  <2> SUFFICES ASSUME T # {} PROVE FALSE
    OBVIOUS
  <2>1. PICK n \in T : \A u \in T : n <= u
    <3>1. T \subseteq 0 .. Len(rows)
      OBVIOUS
    <3> HIDE DEF T
    <3> QED  BY <1>1, <3>1, LeastExists
  <2>2. n # 0
    BY <1>1, <1>2 DEF Moves
  <2>s. n \in 0 .. Len(rows) /\ n < Len(rows)
    OBVIOUS
  <2>3. /\ n - 1 \in 0 .. Len(rows) /\ n - 1 < Len(rows) /\ n - 1 \notin T
        /\ n \in 1 .. Len(rows) /\ n < Len(rows)
    <3>1. /\ n - 1 \in 0 .. Len(rows) /\ n - 1 < Len(rows) /\ ~(n <= n - 1)
          /\ n \in 1 .. Len(rows) /\ n < Len(rows)
      BY <1>1, <2>s, <2>2
    <3> HIDE DEF T
    <3> QED  BY <2>1, <3>1
  <2>4. c[n - 1] >= top /\ c[n - 1] \in Int
    BY <1>2, <2>3 DEF Moves
  <2>5. c[n] = IF rows[n].what \in hid THEN c[n - 1] ELSE c[n - 1] + rows[n].gap + rows[n].step
    BY <1>2, <2>2, <2>3 DEF Moves
  <2>6. rows[n].gap + rows[n].step >= 0 /\ rows[n].gap \in Int /\ rows[n].step \in Int
    BY <1>1, <2>3
  <2>7. c[n] >= top
    <3>1. CASE rows[n].what \in hid
      BY <2>4, <2>5, <3>1
    <3>2. CASE rows[n].what \notin hid
      <4> DEFINE a == c[n - 1]
                 b == rows[n].gap
                 d == rows[n].step
      <4>1. a \in Int /\ b \in Int /\ d \in Int /\ b + d >= 0 /\ a >= top /\ c[n] = a + b + d
        BY <2>4, <2>5, <2>6, <3>2
      <4> HIDE DEF a, b, d
      <4> QED  BY <4>1
    <3> QED  BY <3>1, <3>2
  <2> QED  BY <2>1, <2>7
<1>4. PICK i \in 1 .. Len(rows) :
        r = [what |-> rows[i].what, y |-> c[i - 1] + rows[i].gap, h |-> rows[i].h, at |-> "row"]
  BY DEF Flow, c
<1>5. i - 1 \in 0 .. Len(rows) /\ i - 1 < Len(rows)
  BY <1>1
<1>6. c[i - 1] \in Int /\ c[i - 1] >= top
  BY <1>2, <1>3, <1>5 DEF Moves
<1>7. rows[i].gap \in Int /\ rows[i].gap >= -4 /\ rows[i].h \in Int
  BY <1>1
<1> DEFINE a == c[i - 1]
           b == rows[i].gap
<1>8. a \in Int /\ a >= top /\ b \in Int /\ b >= -4 /\ r.y = a + b
  BY <1>4, <1>6, <1>7
<1> HIDE DEF a, b
<1>9. r.y \in Int /\ r.y >= top - 4
  BY <1>8
<1> QED  BY <1>4, <1>7, <1>9

-----------------------------------------------------------------------------
(* The rows of the pages                                                   *)

\* Rows of the kind, alone and one after another.
LEMMA PlainRow ==
  ASSUME NEW el \in Names, NEW gap \in Int, NEW h \in Int, NEW step \in Int,
         gap >= -4, gap + step >= 0
  PROVE  Row(el, gap, h, step) \in Plain
  BY DEF Row, Plain, Rows, Names, Elements

\* A key and its value.
LEMMA PlainKv ==
  ASSUME NEW el \in Names, NEW step \in Nat
  PROVE  Kv(el, step) \in Plain
  BY DEF Row, Kv, Plain, Rows, Names, Elements

\* The same row several times.
LEMMA PlainTimes ==
  ASSUME NEW n \in Nat, NEW row \in Plain
  PROVE  Times(n, row) \in Seq(Plain)
  BY IsASeq DEF Times

\* Rows that may be left out.
LEMMA PlainIf ==
  ASSUME NEW cond, NEW rows \in Seq(Plain)
  PROVE  If(cond, rows) \in Seq(Plain)
  BY DEF If

\* Rows below rows.
LEMMA PlainJoin ==
  ASSUME NEW p \in Seq(Plain), NEW q \in Seq(Plain)
  PROVE  p \o q \in Seq(Plain)
  BY ConcatProperties

\* A list of a frame is cut to what there is room for.
LEMMA CutShort ==
  ASSUME NEW d, d.n \in Nat, NEW most \in Nat
  PROVE  AtMost(d, most) \in 0 .. most
  BY DEF AtMost

\* What the data and the scale may be.
Datas == [n : Nat, rich : BOOLEAN]

\* The rows of every page are plain, the calendar's last one apart.
LEMMA PlainTopList ==
  ASSUME NEW el \in Names, NEW d \in Datas, NEW s \in Nat
  PROVE  TopList(el, d, s) \in Seq(Plain)
<1>1. AtMost(d, 3) \in Nat
  BY CutShort DEF Datas
<1>2. Row(el, 4, 8 * s, 14) \in Plain /\ Kv(el, 13) \in Plain
  BY DEF Row, Kv, Plain, Rows, Names, Elements
<1>3. Times(AtMost(d, 3), Kv(el, 13)) \in Seq(Plain) /\ <<Row(el, 4, 8 * s, 14)>> \in Seq(Plain)
  BY <1>1, <1>2, PlainTimes
<1> QED  BY <1>3, PlainJoin, PlainIf DEF TopList

\* The rows of cpu.cpp.
LEMMA PlainCpu ==
  ASSUME NEW d \in Datas, NEW s \in Nat
  PROVE  Cpu(d, s) \in Seq(Plain)
<1>1. AtMost(d, 8) \in Nat
  BY CutShort DEF Datas
<1>2. /\ Row("cpu.cores", 0, 8 * s, 14) \in Plain /\ Row("cpu.cores", -2, 8 * s + 2, 13) \in Plain
      /\ Row("cpu.cores", 0, 8 * s + 2, 16) \in Plain
      /\ Kv("cpu.load", 14) \in Plain /\ Kv("cpu.freq", 14) \in Plain /\ Kv("cpu.temp", 14) \in Plain
  BY DEF Row, Kv, Plain, Rows, Names, Elements
<1>3. /\ <<Row("cpu.cores", 0, 8 * s, 14)>> \in Seq(Plain)
      /\ Times(AtMost(d, 8), Row("cpu.cores", -2, 8 * s + 2, 13)) \in Seq(Plain)
      /\ <<Row("cpu.cores", 0, 8 * s + 2, 16)>> \in Seq(Plain)
      /\ <<Kv("cpu.load", 14), Kv("cpu.freq", 14), Kv("cpu.temp", 14)>> \in Seq(Plain)
  BY <1>1, <1>2, PlainTimes
<1>4. TopList("cpu.top", d, s) \in Seq(Plain)
  BY PlainTopList DEF Names, Elements
<1> QED  BY <1>3, <1>4, PlainJoin, PlainIf DEF Cpu

\* The rows of memory.cpp.
LEMMA PlainMemory ==
  ASSUME NEW d \in Datas, NEW s \in Nat
  PROVE  Memory(d, s) \in Seq(Plain)
<1>1. /\ Kv("memory.headline", 14) \in Plain /\ Row("memory.headline", 0, 10, 16) \in Plain
      /\ Kv("memory.swap", 14) \in Plain /\ Row("memory.swap", 0, 6, 10) \in Plain
      /\ Row("memory.breakdown", 4, 8 * s, 14) \in Plain /\ Kv("memory.breakdown", 13) \in Plain
  BY DEF Row, Kv, Plain, Rows, Names, Elements
<1>2. /\ <<Kv("memory.headline", 14), Row("memory.headline", 0, 10, 16)>> \in Seq(Plain)
      /\ <<Kv("memory.headline", 14)>> \in Seq(Plain)
      /\ <<Kv("memory.swap", 14)>> \in Seq(Plain)
      /\ <<Row("memory.swap", 0, 6, 10), Row("memory.breakdown", 4, 8 * s, 14)>> \in Seq(Plain)
      /\ Times(3, Kv("memory.breakdown", 13)) \in Seq(Plain)
  BY <1>1, PlainTimes
<1>3. TopList("memory.top", d, s) \in Seq(Plain)
  BY PlainTopList DEF Names, Elements
<1> QED  BY <1>2, <1>3, PlainJoin, PlainIf DEF Memory

\* The rows of gpu.cpp.
LEMMA PlainGpu ==
  ASSUME NEW d \in Datas, NEW s \in Nat
  PROVE  Gpu(d, s) \in Seq(Plain)
<1>1. /\ Row("gpu", 60, 8 * s, 20) \in Plain /\ Row("gpu", 0, 8 * s, 12) \in Plain
      /\ Row("gpu", 0, 8 * s, 0) \in Plain
      /\ Kv("gpu.headline", 14) \in Plain /\ Kv("gpu.headline", 16) \in Plain
      /\ Kv("gpu.util", 14) \in Plain /\ Row("gpu.util", 0, 10, 16) \in Plain
      /\ Kv("gpu.vram", 14) \in Plain /\ Row("gpu.vram", 0, 8, 12) \in Plain
      /\ Kv("gpu.thermals", 14) \in Plain
  BY DEF Row, Kv, Plain, Rows, Names, Elements
<1>2. /\ <<Row("gpu", 60, 8 * s, 20), Row("gpu", 0, 8 * s, 12), Row("gpu", 0, 8 * s, 0)>> \in Seq(Plain)
      /\ <<Kv("gpu.headline", 14), Kv("gpu.headline", 16),
           Kv("gpu.util", 14), Row("gpu.util", 0, 10, 16), Kv("gpu.vram", 14)>> \in Seq(Plain)
      /\ <<Row("gpu.vram", 0, 8, 12)>> \in Seq(Plain)
      /\ <<Kv("gpu.thermals", 14), Kv("gpu.thermals", 14)>> \in Seq(Plain)
  BY <1>1
<1> QED  BY <1>2, PlainJoin, PlainIf DEF Gpu

\* The rows of network.cpp.
LEMMA PlainNetwork ==
  ASSUME NEW d \in Datas, NEW s \in Nat
  PROVE  Network(d, s) \in Seq(Plain)
<1> DEFINE lines == [i \in 1 .. 2 * AtMost(d, 3) |->
                       Row("network.ifaces", 0, 8 * s, IF i % 2 = 1 THEN 12 ELSE 14)]
<1>1. 2 * AtMost(d, 3) \in Nat
  BY CutShort DEF Datas
<1>2. /\ Kv("network.headline", 14) \in Plain /\ Kv("network.headline", 13) \in Plain
      /\ Row("network.ifaces", 4, 8 * s, 14) \in Plain
      /\ Row("network.ifaces", 0, 8 * s, 12) \in Plain /\ Row("network.ifaces", 0, 8 * s, 14) \in Plain
  BY DEF Row, Kv, Plain, Rows, Names, Elements
<1>3. lines \in [1 .. 2 * AtMost(d, 3) -> Plain]
  BY <1>2
<1>4. lines \in Seq(Plain)
  BY <1>1, <1>3, IsASeq
<1> HIDE DEF lines
<1>5. /\ <<Kv("network.headline", 14), Kv("network.headline", 13),
           Kv("network.headline", 13)>> \in Seq(Plain)
      /\ Times(2, Kv("network.headline", 13)) \in Seq(Plain)
      /\ <<Kv("network.headline", 14)>> \in Seq(Plain)
      /\ <<Row("network.ifaces", 4, 8 * s, 14)>> \in Seq(Plain)
  BY <1>2, PlainTimes
<1> DEFINE head == IF d.n > 0 THEN <<Kv("network.headline", 14), Kv("network.headline", 13),
                                     Kv("network.headline", 13)>>
                   ELSE IF d.rich THEN Times(2, Kv("network.headline", 13))
                   ELSE <<Kv("network.headline", 14)>>
<1>6. head \in Seq(Plain)
  BY <1>5
<1>7. Network(d, s) = head \o If(d.n > 0, <<Row("network.ifaces", 4, 8 * s, 14)>> \o lines)
  BY DEF Network, lines
<1> HIDE DEF head
<1> QED  BY <1>4, <1>5, <1>6, <1>7, PlainJoin, PlainIf

\* The rows of tips.cpp.
LEMMA PlainTips ==
  ASSUME NEW d \in Datas, NEW s \in Nat, NEW hid
  PROVE  Tips(d, s, hid) \in Seq(Plain)
<1> DEFINE Gap(above) == IF above \subseteq hid THEN 0 ELSE 8
           Section(el, above, head, most, step) ==
             <<Row(el, Gap(above), 8 * s, head)>>
             \o Times(IF d.n = 0 THEN 1 ELSE AtMost(d, most), Row(el, 0, 8 * s, step))
<1>1. ASSUME NEW el \in Names, NEW above, NEW head \in Nat, NEW most \in Nat, NEW step \in Nat
      PROVE  Section(el, above, head, most, step) \in Seq(Plain)
  <2>1. Row(el, Gap(above), 8 * s, head) \in Plain /\ Row(el, 0, 8 * s, step) \in Plain
    BY DEF Row, Plain, Rows, Names, Elements
  <2> DEFINE first == Row(el, Gap(above), 8 * s, head)
             n == IF d.n = 0 THEN 1 ELSE AtMost(d, most)
             row == Row(el, 0, 8 * s, step)
  <2>2. n \in Nat
    BY CutShort DEF Datas
  <2>3. Section(el, above, head, most, step) = <<first>> \o Times(n, row)
    OBVIOUS
  <2>4. first \in Plain /\ row \in Plain
    BY <2>1
  <2> HIDE DEF first, n, row, Section
  <2>5. <<first>> \in Seq(Plain) /\ Times(n, row) \in Seq(Plain)
    BY <2>2, <2>4, PlainTimes
  <2> QED  BY <2>3, <2>5, PlainJoin
<1>2. Tips(d, s, hid)
        = Section("tips.suggestions", {}, 16, 5, IF d.n = 0 THEN 16 ELSE 15)
          \o Section("tips.top_cpu", {"tips.suggestions"}, 14, 3, 14)
          \o Section("tips.top_ram", {"tips.suggestions", "tips.top_cpu"}, 14, 3, 14)
  BY DEF Tips
<1> HIDE DEF Section
<1>n. /\ "tips.suggestions" \in Names /\ "tips.top_cpu" \in Names /\ "tips.top_ram" \in Names
      /\ (IF d.n = 0 THEN 16 ELSE 15) \in Nat
  BY DEF Names, Elements
<1>3. /\ Section("tips.suggestions", {}, 16, 5, IF d.n = 0 THEN 16 ELSE 15) \in Seq(Plain)
      /\ Section("tips.top_cpu", {"tips.suggestions"}, 14, 3, 14) \in Seq(Plain)
      /\ Section("tips.top_ram", {"tips.suggestions", "tips.top_cpu"}, 14, 3, 14) \in Seq(Plain)
  BY <1>1, <1>n
<1> QED  BY <1>2, <1>3, PlainJoin

\* The rows of ai_spend.cpp.
LEMMA PlainAiSpend ==
  ASSUME NEW d \in Datas, NEW s \in Nat, NEW hid
  PROVE  AiSpend(d, s, hid) \in Seq(Plain)
<1> DEFINE Claude(h, step) == Row("ai.claude", 0, h, step)
           Codex(h, step) == Row("ai.codex", 0, h, step)
           first == Row("ai.codex", IF "ai.claude" \in hid THEN 0 ELSE 4, 8 * s, 20)
<1>1. ASSUME NEW h \in Int, NEW step \in Nat PROVE Claude(h, step) \in Plain /\ Codex(h, step) \in Plain
  BY DEF Row, Plain, Rows, Names, Elements
<1>2. first \in Plain
  BY DEF Row, Plain, Rows, Names, Elements
<1>3. 8 * s \in Int /\ 48 * s \in Int
  OBVIOUS
<1> DEFINE a == <<Claude(8 * s, 18), Claude(48 * s, 50), Claude(8 * s, 18), Claude(8 * s, 14),
                  Claude(8 * s, 18), Claude(8 * s, 14), Claude(8, 12)>>
           b == <<Claude(8 * s, 14), Claude(8, 12), Claude(8 * s, 16)>>
           c == <<first, Codex(8 * s, 18), Codex(8 * s, 18), Codex(10, 14), Codex(8 * s, 0)>>
<1>4. AiSpend(d, s, hid) = a \o If(d.rich, b) \o c
  BY DEF AiSpend
<1> HIDE DEF Claude, Codex, first
<1>5. a \in Seq(Plain) /\ b \in Seq(Plain) /\ c \in Seq(Plain)
  BY <1>1, <1>2, <1>3
<1> HIDE DEF a, b, c
<1> QED  BY <1>4, <1>5, PlainJoin, PlainIf

\* The rows of dev_flow.cpp.
LEMMA PlainDev ==
  ASSUME NEW s \in Nat
  PROVE  DevFlow(s) \in Seq(Plain)
<1>1. /\ Row("dev.branch", 0, 8 * s, 12) \in Plain /\ Row("dev.branch", 0, 16 * s, 32) \in Plain
      /\ Row("dev.commits", 0, 8 * s, 0) \in Plain /\ Row("dev.commits", -2, 48 * s, 40) \in Plain
      /\ Row("dev.loc", 0, 8 * s, 18) \in Plain /\ Row("dev.loc", 0, 16 * s, 32) \in Plain
      /\ Row("dev.last_commit", 0, 8 * s, 18) \in Plain
      /\ Row("dev.last_commit", 0, 48 * s, 0) \in Plain
  BY DEF Row, Plain, Rows, Names, Elements
<1> QED  BY <1>1 DEF DevFlow

\* The rows of github.cpp.
LEMMA PlainGithub ==
  ASSUME NEW s \in Nat
  PROVE  Github(s) \in Seq(Plain)
<1>1. /\ Row("github.prs", 0, 8 * s, 18) \in Plain /\ Row("github.prs", 0, 48 * s, 62) \in Plain
      /\ Row("github.ci", 0, 8 * s, 18) \in Plain /\ Row("github.ci", 0, 48 * s, 62) \in Plain
      /\ Row("github.notifs", 0, 8 * s, 18) \in Plain /\ Row("github.notifs", 0, 48 * s, 0) \in Plain
  BY DEF Row, Plain, Rows, Names, Elements
<1> QED  BY <1>1 DEF Github

\* The last line of the calendar leaves the cursor above itself, for no row.
LEMMA CalendarRows ==
  ASSUME NEW s \in Nat
  PROVE  /\ Calendar(s) \in Seq(Rows)
         /\ \A i \in 1 .. Len(Calendar(s)) :
              /\ Calendar(s)[i].gap >= -4
              /\ i < Len(Calendar(s)) => Calendar(s)[i].gap + Calendar(s)[i].step >= 0
<1> DEFINE a == Row("cal.countdown", 0, 8 * s, 18)
           b == Row("cal.countdown", 0, 48 * s, 60)
           c == Row("cal.title", 0, 16 * s, 36)
           e == Row("cal.today_remaining", 0, 8 * s, 0)
           f == Row("cal.today_remaining", -4, 48 * s, 0)
<1>1. a \in Plain /\ b \in Plain /\ c \in Plain /\ e \in Plain
  BY DEF Row, Plain, Rows, Names, Elements
<1>2. f \in Rows /\ f.gap = -4
  BY DEF Row, Rows, Names, Elements
<1>3. Calendar(s) = <<a, b, c, e, f>>
  BY DEF Calendar
<1> HIDE DEF a, b, c, e, f
<1>4. <<a, b, c, e, f>> \in Seq(Rows) /\ Len(<<a, b, c, e, f>>) = 5
  BY <1>1, <1>2 DEF Plain
<1> DEFINE q == <<a, b, c, e, f>>
<1>5. q[1] = a /\ q[2] = b /\ q[3] = c /\ q[4] = e /\ q[5] = f
  OBVIOUS
<1> HIDE DEF q
<1>6. \A i \in 1 .. 5 : q[i].gap >= -4 /\ (i < 5 => q[i].gap + q[i].step >= 0)
  BY <1>1, <1>2, <1>5 DEF Plain
<1> QED  BY <1>3, <1>4, <1>6 DEF q

-----------------------------------------------------------------------------
(* Where the rows of a page stand                                          *)

\* A plain page starts below the title bar.
LEMMA PlainFlow ==
  ASSUME NEW top \in Int, NEW hid, NEW rows \in Seq(Plain), NEW r \in Flow(top, rows, hid)
  PROVE  r.y \in Int /\ r.y >= top - 4 /\ r.at = "row" /\ r.h \in Int
<1>1. rows \in Seq(Rows)
  <2>1. Plain \subseteq Rows
    BY DEF Plain
  <2> QED  BY <2>1, SeqMonotonic
<1>2. \A i \in 1 .. Len(rows) : rows[i] \in Plain
  BY ElementOfSeq
<1>3. \A i \in 1 .. Len(rows) : rows[i].gap >= -4 /\ (i < Len(rows) => rows[i].gap + rows[i].step >= 0)
  BY <1>2 DEF Plain
<1> QED  BY <1>1, <1>3, FlowBelow

\* The cells of a grid start at its top.
LEMMA GridBelow ==
  ASSUME NEW top \in Int, NEW els, Len(els) \in Nat, NEW h \in Int, NEW pitch \in Nat, NEW hid,
         NEW r \in Grid(top, els, h, pitch, hid)
  PROVE  r.y \in Int /\ r.y >= top /\ r.at \in {"left", "right"} /\ r.h = h
<1>1. PICK i \in 1 .. Len(els) :
        r = [what |-> els[i], y |-> top + pitch * ((i - 1) \div 2), h |-> h,
             at |-> IF i % 2 = 1 THEN "left" ELSE "right"]
  BY DEF Grid
<1> DEFINE k == (i - 1) \div 2
<1>2. k \in Nat
  OBVIOUS
<1>3. r.y = top + pitch * k /\ r.at \in {"left", "right"} /\ r.h = h
  BY <1>1
<1> HIDE DEF k
<1>4. pitch * k \in Nat
  BY <1>2
<1> QED  BY <1>3, <1>4

\* Whatever the data, the look and what is hidden, the rows of a page stand
\* below the title bar.
LEMMA ContentBelow ==
  ASSUME NEW p \in Pages, NEW d \in Datas, NEW l \in Looks, NEW hid,
         NEW r \in Content(p, d, l, hid)
  PROVE  r.y \in Int /\ r.y >= TitleH(l) /\ r.at \in {"row", "left", "right"} /\ r.h \in Int
<1> DEFINE s == l.scale
           top == TitleH(l)
<1>1. s \in Nat /\ top \in Int
  BY DEF Looks, TitleH
<1> HIDE DEF s, top
<1>c. Content(p, d, l, hid) =
        CASE p = "home" ->
               Grid(top + 8, HomeEls, IF 22 + 16 * s > 62 THEN 22 + 16 * s ELSE 62, 70, hid)
          [] p = "messages" -> Grid(top + 6, MsgEls, 16 + 48 * s, 62, hid)
          [] p = "cpu"      -> Flow(top + 4, Cpu(d, s), hid)
          [] p = "memory"   -> Flow(top + 6, Memory(d, s), hid)
          [] p = "gpu"      -> Flow(top + 8, Gpu(d, s), hid)
          [] p = "network"  -> Flow(top + 6, Network(d, s), hid)
          [] p = "tips"     -> Flow(top + 6, Tips(d, s, hid), hid)
          [] p = "ai"       -> Flow(top + 6, AiSpend(d, s, hid), hid)
          [] p = "dev"      -> Flow(top + 6, DevFlow(s), hid)
          [] p = "calendar" -> Flow(top + 8, Calendar(s), hid)
          [] p = "github"   -> Flow(top + 8, Github(s), hid)
  BY DEF Content, s, top
<1> DEFINE Below == r.y \in Int /\ r.y >= top /\ r.at \in {"row", "left", "right"} /\ r.h \in Int
<1>e. Len(HomeEls) \in Nat /\ Len(MsgEls) \in Nat
  BY DEF HomeEls, MsgEls
<1> SUFFICES Below
  BY DEF top
<1>2. CASE p = "home"
  <2> DEFINE h == IF 22 + 16 * s > 62 THEN 22 + 16 * s ELSE 62
  <2>1. h \in Int
    BY <1>1
  <2>2. r \in Grid(top + 8, HomeEls, h, 70, hid)
    BY <1>c, <1>2
  <2> HIDE DEF h
  <2>3. r.y \in Int /\ r.y >= top + 8 /\ r.at \in {"left", "right"} /\ r.h = h
    BY <1>1, <1>e, <2>1, <2>2, GridBelow
  <2> QED  BY <1>1, <2>1, <2>3
<1>3. CASE p = "messages"
  <2>1. r \in Grid(top + 6, MsgEls, 16 + 48 * s, 62, hid) /\ 16 + 48 * s \in Int
    BY <1>c, <1>1, <1>3
  <2>2. r.y \in Int /\ r.y >= top + 6 /\ r.at \in {"left", "right"} /\ r.h = 16 + 48 * s
    BY <1>1, <1>e, <2>1, GridBelow
  <2> QED  BY <1>1, <2>1, <2>2
<1>f. ASSUME NEW rows \in Seq(Plain), NEW by \in {4, 6, 8}, r \in Flow(top + by, rows, hid)
      PROVE  Below
  <2>1. top + by \in Int
    BY <1>1
  <2>2. r.y \in Int /\ r.y >= (top + by) - 4 /\ r.at = "row" /\ r.h \in Int
    BY <1>f, <2>1, PlainFlow
  <2> QED  BY <1>1, <2>2
<1> HIDE DEF Below
<1>4. CASE p = "cpu"
  BY <1>1, <1>c, <1>f, <1>4, PlainCpu
<1>5. CASE p = "memory"
  BY <1>1, <1>c, <1>f, <1>5, PlainMemory
<1>6. CASE p = "gpu"
  BY <1>1, <1>c, <1>f, <1>6, PlainGpu
<1>7. CASE p = "network"
  BY <1>1, <1>c, <1>f, <1>7, PlainNetwork
<1>8. CASE p = "tips"
  BY <1>1, <1>c, <1>f, <1>8, PlainTips
<1>9. CASE p = "ai"
  BY <1>1, <1>c, <1>f, <1>9, PlainAiSpend
<1>10. CASE p = "dev"
  BY <1>1, <1>c, <1>f, <1>10, PlainDev
<1>11. CASE p = "github"
  BY <1>1, <1>c, <1>f, <1>11, PlainGithub
<1>12. CASE p = "calendar"
  <2>1. r \in Flow(top + 8, Calendar(s), hid) /\ top + 8 \in Int
    BY <1>c, <1>1, <1>12
  <2>2. r.y \in Int /\ r.y >= (top + 8) - 4 /\ r.at = "row" /\ r.h \in Int
    BY <1>1, <2>1, CalendarRows, FlowBelow
  <2> QED  BY <1>1, <2>2 DEF Below
<1> QED
  BY <1>2, <1>3, <1>4, <1>5, <1>6, <1>7, <1>8, <1>9, <1>10, <1>11, <1>12 DEF Pages

-----------------------------------------------------------------------------
(* Drawing over                                                            *)

\* Drawing a page over itself leaves what was there, the title bar and the box
\* included, and adds the box when the host is to pair.
LEMMA DrawOver ==
  ASSUME NEW p \in Pages, NEW d \in Datas, NEW l \in Looks, NEW hid,
         NEW b \in BOOLEAN, NEW pairs \in BOOLEAN, NEW flips \in BOOLEAN
  PROVE  LET new == UNION {Content(p, d, l, hid), Footer(l), Box(pairs, l),
                           IF flips THEN TitleBar(p, l) ELSE {}}
         IN  DrawnOver(Screen(p, d, l, hid, b), new) = Screen(p, d, l, hid, b \/ pairs)
<1> DEFINE new == UNION {Content(p, d, l, hid), Footer(l), Box(pairs, l),
                         IF flips THEN TitleBar(p, l) ELSE {}}
           old == Screen(p, d, l, hid, b)
           all == Screen(p, d, l, hid, b \/ pairs)
<1>1. Height(l) \in {240, 320}
  BY DEF Height, Looks
<1>2. \A m \in Content(p, d, l, hid) :
        m.y \in Int /\ m.y >= TitleH(l) /\ m.at \in {"row", "left", "right"}
  BY ContentBelow
<1>3. \A m \in new : m.at = "box" => pairs
  BY <1>2 DEF Footer, TitleBar, Box, Both
<1>4. old \cup new = all
  BY DEF Screen, Box
<1>5. new \subseteq DrawnOver(old, new) /\ DrawnOver(old, new) \subseteq old \cup new
  BY DEF DrawnOver
<1>6. \A r \in old \ new : (r \in TitleBar(p, l) /\ ~flips) \/ (r \in Box(b, l) /\ ~pairs)
  BY DEF Screen, Box
<1>7. ASSUME NEW r \in old \ new, r \in TitleBar(p, l), ~flips
      PROVE  \E y \in r.y .. r.y + r.h - 1, c \in Columns[r.at] : ~Covers(new, y, c)
  <2>1. l.title /\ r = Both(p, 0, 22) /\ TitleH(l) = 22
    BY <1>7 DEF TitleBar, TitleH
  <2>2. r.y = 0 /\ r.h = 22 /\ 1 \in Columns[r.at] /\ 0 \in r.y .. r.y + r.h - 1
    BY <2>1 DEF Both, Columns
  <2>3. ~Covers(new, 0, 1)
    <3> SUFFICES ASSUME NEW m \in new, m.y <= 0, 1 \in Columns[m.at] PROVE FALSE
      BY DEF Covers
    <3>1. CASE m \in Content(p, d, l, hid)
      BY <1>2, <2>1, <3>1
    <3>2. CASE m \in Footer(l)
      BY <1>1, <3>2 DEF Footer, Both
    <3>3. CASE m \in Box(pairs, l)
      BY <3>3 DEF Box, Columns
    <3> QED  BY <1>7, <3>1, <3>2, <3>3
  <2> QED  BY <2>2, <2>3
<1>8. ASSUME NEW r \in old \ new, r \in Box(b, l), ~pairs
      PROVE  \E y \in r.y .. r.y + r.h - 1, c \in Columns[r.at] : ~Covers(new, y, c)
  <2> DEFINE y == (Height(l) - 104) \div 2
  <2>1. r.at = "box" /\ r.y = y /\ r.h = 104
    BY <1>8 DEF Box
  <2>2. y \in Int
    BY <1>1
  <2> HIDE DEF y
  <2>3. y \in r.y .. r.y + r.h - 1 /\ 3 \in Columns[r.at]
    BY <2>1, <2>2 DEF Columns
  <2>4. ~Covers(new, y, 3)
    <3> SUFFICES ASSUME NEW m \in new, 3 \in Columns[m.at] PROVE FALSE
      BY DEF Covers
    <3>1. m.at \in {"row", "left", "right"}
      BY <1>2, <1>8 DEF Footer, TitleBar, Box, Both
    <3> QED  BY <3>1 DEF Columns
  <2> QED  BY <2>3, <2>4
<1>9. old \ new \subseteq DrawnOver(old, new)
  BY <1>6, <1>7, <1>8 DEF DrawnOver
<1> QED  BY <1>4, <1>5, <1>9

-----------------------------------------------------------------------------
(* The room a page takes                                                   *)

\* What the bars of the factory leave below a page's own margin: 320 - 22 - 14,
\* less the widest margin of 8.
Deep == 276

\* From a on, whatever of rows is hidden, each that is shown ends within Deep,
\* and the cursor ends no lower than z: f bounds it row by row.
Room(rows, a, z) ==
  \E f \in [0 .. Len(rows) -> Int] :
    /\ f[0] = a /\ f[Len(rows)] <= z
    /\ \A i \in 1 .. Len(rows) :
         /\ f[i] >= f[i - 1] /\ f[i] >= f[i - 1] + rows[i].gap + rows[i].step
         /\ f[i - 1] + rows[i].gap + rows[i].h <= Deep

\* So it is for the rows of a page, wherever it starts.
LEMMA FlowAbove ==
  ASSUME NEW top \in Int, NEW hid, NEW rows \in Seq(Rows), NEW z, Room(rows, 0, z),
         NEW r \in Flow(top, rows, hid)
  PROVE  r.y + r.h <= top + Deep
<1> DEFINE c == Cursor(top, rows, hid)
<1>1. /\ Len(rows) \in Nat
      /\ \A i \in 1 .. Len(rows) : rows[i].gap \in Int /\ rows[i].step \in Int /\ rows[i].h \in Int
  <2>1. Len(rows) \in Nat /\ \A i \in 1 .. Len(rows) : rows[i] \in Rows
    BY LenProperties, ElementOfSeq
  <2> QED  BY <2>1 DEF Rows
<1>2. Moves(c, top, rows, hid, Len(rows))
  BY <1>1, CursorMoves
<1> HIDE DEF c
<1>3. PICK f \in [0 .. Len(rows) -> Int] :
        /\ f[0] = 0
        /\ \A i \in 1 .. Len(rows) :
             /\ f[i] >= f[i - 1] /\ f[i] >= f[i - 1] + rows[i].gap + rows[i].step
             /\ f[i - 1] + rows[i].gap + rows[i].h <= Deep
  BY DEF Room
<1> DEFINE T == {i \in 0 .. Len(rows) : ~(c[i] <= top + f[i])}
<1>4. T = {}
  <2> SUFFICES ASSUME T # {} PROVE FALSE
    OBVIOUS
  <2>1. PICK n \in T : \A u \in T : n <= u
    <3>1. T \subseteq 0 .. Len(rows)
      OBVIOUS
    <3> HIDE DEF T
    <3> QED  BY <1>1, <3>1, LeastExists
  <2>2. n # 0
    BY <1>1, <1>2, <1>3 DEF Moves
  <2>s. n \in 0 .. Len(rows)
    OBVIOUS
  <2>3. n - 1 \in 0 .. Len(rows) /\ n - 1 \notin T /\ n \in 1 .. Len(rows)
    <3>1. n - 1 \in 0 .. Len(rows) /\ ~(n <= n - 1) /\ n \in 1 .. Len(rows)
      BY <1>1, <2>s, <2>2
    <3> HIDE DEF T
    <3> QED  BY <2>1, <3>1
  <2>4. c[n - 1] <= top + f[n - 1] /\ c[n - 1] \in Int
    BY <1>2, <2>3 DEF Moves
  <2>5. c[n] = IF rows[n].what \in hid THEN c[n - 1] ELSE c[n - 1] + rows[n].gap + rows[n].step
    BY <1>2, <2>2, <2>3 DEF Moves
  <2> DEFINE a == c[n - 1]
             b == rows[n].gap
             d == rows[n].step
             u == f[n - 1]
             v == f[n]
  <2>6. /\ a \in Int /\ b \in Int /\ d \in Int /\ u \in Int /\ v \in Int
        /\ a <= top + u /\ v >= u /\ v >= u + b + d
        /\ c[n] = a \/ c[n] = a + b + d
    <3>1. a \in Int /\ b \in Int /\ d \in Int /\ u \in Int /\ v \in Int
      BY <1>1, <1>3, <2>3, <2>4
    <3>2. a <= top + u /\ v >= u /\ v >= u + b + d
      BY <1>3, <2>3, <2>4
    <3>3. c[n] = a \/ c[n] = a + b + d
      BY <2>5
    <3> QED  BY <3>1, <3>2, <3>3
  <2> HIDE DEF a, b, d, u
  <2>7. c[n] <= top + v
    <3> HIDE DEF v
    <3> QED  BY <2>6
  <2> QED  BY <2>1, <2>7
<1>5. PICK i \in 1 .. Len(rows) :
        r = [what |-> rows[i].what, y |-> c[i - 1] + rows[i].gap, h |-> rows[i].h, at |-> "row"]
  BY DEF Flow, c
<1>6. i - 1 \in 0 .. Len(rows)
  BY <1>1
<1>7. c[i - 1] \in Int /\ c[i - 1] <= top + f[i - 1] /\ f[i - 1] \in Int
  BY <1>2, <1>4, <1>6 DEF Moves
<1> DEFINE a == c[i - 1]
           b == rows[i].gap
           h == rows[i].h
           u == f[i - 1]
<1>8. /\ a \in Int /\ b \in Int /\ h \in Int /\ u \in Int /\ a <= top + u
      /\ u + b + h <= Deep /\ r.y = a + b /\ r.h = h
  BY <1>1, <1>3, <1>5, <1>7
<1> HIDE DEF a, b, h, u
<1> QED  BY <1>8 DEF Deep

\* One part of a page below another.
LEMMA RoomJoin ==
  ASSUME NEW p \in Seq(Rows), NEW q \in Seq(Rows), NEW a \in Int, NEW b \in Int, NEW z \in Int,
         Room(p, a, b), Room(q, b, z)
  PROVE  Room(p \o q, a, z)
<1> DEFINE m == Len(p)
           n == Len(q)
           w == p \o q
<1>1. /\ m \in Nat /\ n \in Nat /\ Len(w) = m + n
      /\ \A i \in 1 .. m : w[i] = p[i] /\ p[i] \in Rows
      /\ \A i \in 1 .. n : w[m + i] = q[i] /\ q[i] \in Rows
  <2>1. /\ m \in Nat /\ n \in Nat /\ Len(w) = m + n
        /\ \A i \in 1 .. m : p[i] \in Rows
        /\ \A i \in 1 .. n : q[i] \in Rows
    BY LenProperties, ElementOfSeq, ConcatProperties
  <2>2. \A i \in 1 .. m + n : w[i] = IF i <= m THEN p[i] ELSE q[i - m]
    BY ConcatProperties
  <2> HIDE DEF m, n, w
  <2>3. \A i \in 1 .. m : i \in 1 .. m + n /\ i <= m
    BY <2>1
  <2>4. \A i \in 1 .. n : m + i \in 1 .. m + n /\ ~(m + i <= m) /\ (m + i) - m = i
    BY <2>1
  <2> QED  BY <2>1, <2>2, <2>3, <2>4
<1>2. PICK f \in [0 .. m -> Int] :
        /\ f[0] = a /\ f[m] <= b
        /\ \A i \in 1 .. m : /\ f[i] >= f[i - 1] /\ f[i] >= f[i - 1] + p[i].gap + p[i].step
                             /\ f[i - 1] + p[i].gap + p[i].h <= Deep
  BY DEF Room
<1>3. PICK g \in [0 .. n -> Int] :
        /\ g[0] = b /\ g[n] <= z
        /\ \A i \in 1 .. n : /\ g[i] >= g[i - 1] /\ g[i] >= g[i - 1] + q[i].gap + q[i].step
                             /\ g[i - 1] + q[i].gap + q[i].h <= Deep
  BY DEF Room
<1> HIDE DEF m, n, w
<1> DEFINE k == [i \in 0 .. m + n |-> IF i <= m THEN f[i] ELSE g[i - m]]
<1>4. k \in [0 .. m + n -> Int]
  <2>1. \A i \in 0 .. m + n : (i <= m => i \in 0 .. m) /\ (~(i <= m) => i - m \in 0 .. n)
    BY <1>1
  <2> QED  BY <2>1
<1>5. /\ \A i \in 0 .. m : k[i] = f[i]
      /\ \A i \in 1 .. n : k[m + i] = g[i]
  <2>1. \A i \in 0 .. m : i \in 0 .. m + n /\ i <= m
    BY <1>1
  <2>2. \A i \in 1 .. n : m + i \in 0 .. m + n /\ ~(m + i <= m) /\ (m + i) - m = i
    BY <1>1
  <2> QED  BY <2>1, <2>2
<1> HIDE DEF k
<1>6. k[0] = a /\ k[m + n] <= z
  <2>1. k[0] = a
    BY <1>1, <1>2, <1>5
  <2>2. CASE n = 0
    <3>1. k[m + n] = f[m] /\ g[0] <= z /\ f[m] \in Int
      BY <1>1, <1>2, <1>3, <1>5, <2>2
    <3> QED  BY <1>2, <1>3, <2>1, <3>1
  <2>3. CASE n # 0
    BY <1>1, <1>3, <1>5, <2>1, <2>3
  <2> QED  BY <2>2, <2>3
<1>7. ASSUME NEW i \in 1 .. m + n
      PROVE  /\ k[i] >= k[i - 1] /\ k[i] >= k[i - 1] + w[i].gap + w[i].step
             /\ k[i - 1] + w[i].gap + w[i].h <= Deep
  <2>1. CASE i <= m
    <3>1. i \in 1 .. m /\ i - 1 \in 0 .. m /\ i \in 0 .. m
      BY <1>1, <2>1
    <3> QED  BY <1>1, <1>2, <1>5, <3>1
  <2>2. CASE ~(i <= m)
    <3> DEFINE j == i - m
    <3>1. j \in 1 .. n /\ i = m + j /\ i - 1 = m + (j - 1)
      BY <1>1, <2>2
    <3>2. k[i] = g[j] /\ w[i] = q[j] /\ q[j] \in Rows /\ g[j] \in Int /\ g[j - 1] \in Int
      BY <1>1, <1>5, <3>1
    <3>3. k[i - 1] <= g[j - 1] /\ k[i - 1] \in Int
      <4>1. CASE j = 1
        <5>1. k[i - 1] = f[m] /\ f[m] \in Int /\ g[j - 1] = b
          BY <1>1, <1>2, <1>3, <1>5, <3>1, <4>1
        <5> QED  BY <1>2, <5>1
      <4>2. CASE j # 1
        <5>1. j - 1 \in 1 .. n
          BY <1>1, <3>1, <4>2
        <5>2. k[i - 1] = g[j - 1]
          BY <1>5, <3>1, <5>1
        <5> QED  BY <3>2, <5>2
      <4> QED  BY <4>1, <4>2
    <3>4. /\ g[j] >= g[j - 1] /\ g[j] >= g[j - 1] + q[j].gap + q[j].step
          /\ g[j - 1] + q[j].gap + q[j].h <= Deep
      BY <1>3, <3>1
    <3> DEFINE t == q[j].gap
               s == q[j].step
               h == q[j].h
               u == g[j - 1]
               v == g[j]
               x == k[i - 1]
    <3>5. /\ t \in Int /\ s \in Int /\ h \in Int /\ u \in Int /\ v \in Int /\ x \in Int
          /\ x <= u /\ v >= u /\ v >= u + t + s /\ u + t + h <= Deep
      BY <3>2, <3>3, <3>4 DEF Rows
    <3>6. k[i] = v /\ w[i].gap = t /\ w[i].step = s /\ w[i].h = h /\ k[i - 1] = x
      BY <3>2
    <3> HIDE DEF j, t, s, h, u, v, x
    <3>7. v >= x /\ v >= x + t + s /\ x + t + h <= Deep
      BY <3>5 DEF Deep
    <3> QED  BY <3>6, <3>7
  <2> QED  BY <2>1, <2>2
<1>8. Len(w) = m + n
  BY <1>1
<1> HIDE DEF w
<1>9. Room(w, a, z)
  BY <1>4, <1>6, <1>7, <1>8 DEF Room
<1> QED  BY <1>9 DEF w

\* A part that may be left out, or that ends sooner.
LEMMA RoomIf ==
  ASSUME NEW rows, NEW cond, NEW a \in Int, NEW z \in Int, a <= z, Room(rows, a, z)
  PROVE  Room(If(cond, rows), a, z)
<1>1. Room(<<>>, a, z)
  <2> DEFINE f == [i \in 0 .. 0 |-> a]
  <2>1. f \in [0 .. 0 -> Int] /\ f[0] = a
    OBVIOUS
  <2> HIDE DEF f
  <2> QED  BY <2>1, EmptySeq DEF Room
<1> QED  BY <1>1 DEF If

\* A bound may be widened.
LEMMA RoomLess ==
  ASSUME NEW rows, Len(rows) \in Nat, NEW a \in Int, NEW y \in Int, NEW z \in Int,
         y <= z, Room(rows, a, y)
  PROVE  Room(rows, a, z)
  BY DEF Room

\* One row.
LEMMA RoomOne ==
  ASSUME NEW row \in Rows, NEW a \in Int, NEW z \in Int,
         a <= z, a + row.gap + row.step <= z, a + row.gap + row.h <= Deep
  PROVE  Room(<<row>>, a, z)
<1> DEFINE f == [i \in 0 .. 1 |-> IF i = 0 THEN a ELSE z]
           w == <<row>>
<1>1. f \in [0 .. 1 -> Int] /\ f[0] = a /\ f[1] = z
  OBVIOUS
<1>2. Len(w) = 1 /\ w[1] = row
  OBVIOUS
<1>3. row.gap \in Int /\ row.step \in Int /\ row.h \in Int
  BY DEF Rows
<1> HIDE DEF f, w
<1>4. \A i \in 1 .. 1 : i = 1
  OBVIOUS
<1>5. Room(w, a, z)
  BY <1>1, <1>2, <1>3, <1>4 DEF Room
<1> QED  BY <1>5 DEF w

\* Up to m rows of a kind.
LEMMA RoomAlike ==
  ASSUME NEW w \in Seq(Rows), NEW m \in Nat, Len(w) <= m, NEW a \in Int,
         NEW gap \in Int, NEW h \in Int, NEW step \in Int, gap + step >= 0,
         \A i \in 1 .. Len(w) : w[i].gap = gap /\ w[i].h = h /\ w[i].step <= step,
         a + m * (gap + step) + gap + h <= Deep
  PROVE  Room(w, a, a + m * (gap + step))
<1> DEFINE k == gap + step
           n == Len(w)
           f == [i \in 0 .. n |-> a + i * k]
<1>1. k \in Nat /\ n \in Nat /\ n \in 0 .. m
  OBVIOUS
<1>2. \A i \in 1 .. n : w[i].step \in Int
  <2>1. \A i \in 1 .. n : w[i] \in Rows
    BY ElementOfSeq
  <2> QED  BY <2>1 DEF Rows
<1>k. k = gap + step
  OBVIOUS
<1> HIDE DEF k, n
<1>3. \A i \in 0 .. n : i * k \in Nat /\ i * k <= m * k
  BY <1>1
<1>4. f \in [0 .. n -> Int] /\ f[0] = a /\ \A i \in 0 .. n : f[i] = a + i * k
  BY <1>1, <1>3
<1> HIDE DEF f
<1>5. f[n] <= a + m * k
  BY <1>1, <1>3, <1>4
<1>6. ASSUME NEW i \in 1 .. n
      PROVE  /\ f[i] >= f[i - 1] /\ f[i] >= f[i - 1] + w[i].gap + w[i].step
             /\ f[i - 1] + w[i].gap + w[i].h <= Deep
  <2>1. i \in 0 .. n /\ i - 1 \in 0 .. n
    BY <1>1
  <2> DEFINE x == (i - 1) * k
             y == m * k
             s == w[i].step
  <2>2. i * k = x + k
    BY <1>1
  <2>3. f[i] = a + (x + k) /\ f[i - 1] = a + x /\ x \in Int /\ x <= y /\ y \in Int
    BY <1>1, <1>3, <1>4, <2>1, <2>2
  <2>4. a + y + gap + h <= Deep
    BY <1>k
  <2>5. w[i].gap = gap /\ w[i].h = h /\ s <= step /\ s \in Int
    BY <1>2 DEF n
  <2> HIDE DEF x, y, s
  <2>6. a + (x + k) >= a + x /\ a + (x + k) >= (a + x) + gap + s /\ (a + x) + gap + h <= Deep
    <3>1. x \in Int /\ y \in Int /\ s \in Int /\ k \in Int /\ x <= y /\ s <= step /\ k >= 0
      BY <1>1, <2>3, <2>5
    <3> QED  BY <1>k, <2>4, <3>1 DEF Deep
  <2>7. /\ f[i] >= f[i - 1] /\ f[i] >= f[i - 1] + gap + s
        /\ f[i - 1] + gap + h <= Deep
    BY <2>3, <2>6
  <2> QED  BY <2>5, <2>7 DEF s
<1>7. Room(w, a, a + m * k)
  BY <1>4, <1>5, <1>6 DEF Room, n
<1> QED  BY <1>7 DEF k

\* Rows that fit between a and z.
Fits(rows, a, z) == rows \in Seq(Rows) /\ Room(rows, a, z)

\* Parts that fit, one below the other.
LEMMA FitsJoin ==
  ASSUME NEW p, NEW q, NEW a \in Int, NEW b \in Int, NEW z \in Int, Fits(p, a, b), Fits(q, b, z)
  PROVE  Fits(p \o q, a, z)
  BY RoomJoin, ConcatProperties DEF Fits

\* A part that fits may be left out.
LEMMA FitsIf ==
  ASSUME NEW rows, NEW cond, NEW a \in Int, NEW z \in Int, a <= z, Fits(rows, a, z)
  PROVE  Fits(If(cond, rows), a, z)
<1>1. If(cond, rows) \in Seq(Rows)
  BY DEF If, Fits
<1> QED  BY <1>1, RoomIf DEF Fits

\* A row as it is written, and several alike.
LEMMA FitsRow ==
  ASSUME NEW el \in Names, NEW gap \in Int, NEW h \in Int, NEW step \in Int,
         NEW a \in Int, NEW z \in Int,
         a <= z, a + gap + step <= z, a + gap + h <= Deep
  PROVE  Fits(<<Row(el, gap, h, step)>>, a, z)
<1> DEFINE row == Row(el, gap, h, step)
<1>1. row \in Rows /\ row.gap = gap /\ row.h = h /\ row.step = step
  BY DEF Row, Rows
<1> HIDE DEF row
<1>2. <<row>> \in Seq(Rows)
  BY <1>1
<1>3. Room(<<row>>, a, z)
  BY <1>1, RoomOne
<1> QED  BY <1>2, <1>3 DEF row, Fits

\* How far m rows alike move the cursor.
Total(m, gap, step) == m * (gap + step)

\* No row of w takes more than its gap, height and step.
Alike(w, gap, h, step) ==
  \A i \in 1 .. Len(w) : w[i].gap = gap /\ w[i].h = h /\ w[i].step <= step

\* Rows alike, and no more than m of them.
LEMMA FitsAlike ==
  ASSUME NEW w \in Seq(Rows), NEW m \in Nat, Len(w) \in 0 .. m,
         NEW gap \in Int, NEW h \in Int, NEW step \in Int, gap + step >= 0,
         Alike(w, gap, h, step), NEW a \in Int, NEW z \in Int,
         NEW t \in Int, t = Total(m, gap, step), a + t <= z, a + t + gap + h <= Deep
  PROVE  Fits(w, a, z)
<1> DEFINE y == a + t
<1>1. y = a + m * (gap + step) /\ Len(w) <= m
  BY DEF Total
<1>2. a + m * (gap + step) + gap + h <= Deep
  BY DEF Total
<1>3. Room(w, a, y)
  BY <1>1, <1>2, RoomAlike DEF Alike
<1>4. y \in Int /\ y <= z /\ Len(w) \in Nat
  OBVIOUS
<1> HIDE DEF y
<1>5. Room(w, a, z)
  BY <1>3, <1>4, RoomLess
<1> QED  BY <1>5 DEF Fits

\* So many times the same row.
LEMMA FitsRows ==
  ASSUME NEW el \in Names, NEW gap \in Int, NEW h \in Int, NEW step \in Int,
         NEW a \in Int, NEW z \in Int, NEW m \in Nat, NEW n \in 0 .. m,
         gap + step >= 0, NEW t \in Int, t = Total(m, gap, step), a + t <= z, a + t + gap + h <= Deep
  PROVE  Fits(Times(n, Row(el, gap, h, step)), a, z)
<1> DEFINE row == Row(el, gap, h, step)
           w == Times(n, row)
<1>1. row \in Rows /\ row.gap = gap /\ row.h = h /\ row.step = step
  BY DEF Row, Rows
<1> HIDE DEF row
<1>2. w \in Seq(Rows) /\ Len(w) = n /\ \A i \in 1 .. Len(w) : w[i] = row
  BY <1>1, IsASeq DEF Times
<1> HIDE DEF w
<1>3. Len(w) \in 0 .. m /\ Alike(w, gap, h, step)
  BY <1>1, <1>2 DEF Alike
<1>4. Fits(w, a, z)
  BY <1>2, <1>3, FitsAlike
<1> QED  BY <1>4 DEF w, row

\* Two rows, three rows.
LEMMA FitsTwo ==
  ASSUME NEW p, NEW q, NEW a \in Int, NEW b \in Int, NEW z \in Int,
         Fits(<<p>>, a, b), Fits(<<q>>, b, z)
  PROVE  Fits(<<p, q>>, a, z)
<1>1. Fits(<<p>> \o <<q>>, a, z)
  BY FitsJoin
<1>2. <<p, q>> = <<p>> \o <<q>>
  <2> DEFINE u == <<p>>
             v == <<q>>
             w == u \o v
             o == <<p, q>>
  <2>1. /\ u \in Seq({p, q}) /\ Len(u) = 1 /\ u[1] = p
        /\ v \in Seq({p, q}) /\ Len(v) = 1 /\ v[1] = q
        /\ o \in Seq({p, q}) /\ Len(o) = 2 /\ o[1] = p /\ o[2] = q
    OBVIOUS
  <2> HIDE DEF u, v, o
  <2>2. /\ w \in Seq({p, q}) /\ Len(w) = Len(u) + Len(v)
        /\ \A i \in 1 .. Len(u) + Len(v) : w[i] = IF i <= Len(u) THEN u[i] ELSE v[i - Len(u)]
    BY <2>1, ConcatProperties
  <2> HIDE DEF w
  <2>3. Len(w) = 2 /\ w[1] = p /\ w[2] = q
    BY <2>1, <2>2
  <2>4. w = o
    <3>1. \A i \in 1 .. 2 : i = 1 \/ i = 2
      OBVIOUS
    <3> QED  BY <2>1, <2>2, <2>3, <3>1, SeqEqual
  <2> QED  BY <2>4 DEF u, v, w, o
<1> QED  BY <1>1, <1>2

\* Three of them.
LEMMA FitsThree ==
  ASSUME NEW p, NEW q, NEW r, NEW a \in Int, NEW b \in Int, NEW c \in Int, NEW z \in Int,
         Fits(<<p>>, a, b), Fits(<<q>>, b, c), Fits(<<r>>, c, z)
  PROVE  Fits(<<p, q, r>>, a, z)
<1>1. Fits(<<q, r>>, b, z)
  BY FitsTwo
<1>2. Fits(<<p>> \o <<q, r>>, a, z)
  BY <1>1, FitsJoin
<1>3. <<p, q, r>> = <<p>> \o <<q, r>>
  <2> DEFINE u == <<p>>
             v == <<q, r>>
             w == u \o v
             o == <<p, q, r>>
  <2>1. /\ u \in Seq({p, q, r}) /\ Len(u) = 1 /\ u[1] = p
        /\ v \in Seq({p, q, r}) /\ Len(v) = 2 /\ v[1] = q /\ v[2] = r
        /\ o \in Seq({p, q, r}) /\ Len(o) = 3 /\ o[1] = p /\ o[2] = q /\ o[3] = r
    OBVIOUS
  <2> HIDE DEF u, v, o
  <2>2. /\ w \in Seq({p, q, r}) /\ Len(w) = Len(u) + Len(v)
        /\ \A i \in 1 .. Len(u) + Len(v) : w[i] = IF i <= Len(u) THEN u[i] ELSE v[i - Len(u)]
    BY <2>1, ConcatProperties
  <2> HIDE DEF w
  <2>3. \A i \in 1 .. 3 : w[i] = o[i]
    BY <2>1, <2>2
  <2>4. w = o
    BY <2>1, <2>2, <2>3, SeqEqual
  <2> QED  BY <2>4 DEF u, v, w, o
<1> QED  BY <1>2, <1>3

\* The busiest programs, at the end of a page.
LEMMA FitsTopList ==
  ASSUME NEW el \in Names, NEW d \in Datas, NEW a \in Int, NEW z \in Int, a + 57 <= z, a + 73 <= Deep
  PROVE  Fits(TopList(el, d, 1), a, z)
<1> DEFINE n == AtMost(d, 3)
           head == <<Row(el, 4, 8 * 1, 14)>>
           list == Times(n, Row(el, 0, 16, 13))
<1>1. n \in 0 .. 3
  BY CutShort DEF Datas
<1>2. Fits(head, a, a + 18)
  BY FitsRow DEF Deep
<1> HIDE DEF n
<1>3. Fits(list, a + 18, z)
  <2>1. Total(3, 0, 13) = 39
    BY DEF Total
  <2>2. a + 18 \in Int /\ (a + 18) + 39 <= z /\ (a + 18) + 39 + 0 + 16 <= Deep
    BY DEF Deep
  <2> QED  BY <1>1, <2>1, <2>2, FitsRows
<1>4. TopList(el, d, 1) = If(d.n > 0, head \o list)
  BY DEF TopList, Kv, n
<1> HIDE DEF head, list
<1>5. Fits(head \o list, a, z)
  BY <1>2, <1>3, FitsJoin
<1>6. a <= z
  OBVIOUS
<1> QED  BY <1>4, <1>5, <1>6, FitsIf

\* cpu.cpp fits, with all cores and programs.
LEMMA FitsCpu ==
  ASSUME NEW d \in Datas
  PROVE  Fits(Cpu(d, 1), 0, Deep)
<1> DEFINE n == AtMost(d, 8)
           A == <<Row("cpu.cores", 0, 8 * 1, 14)>>
           B == Times(n, Row("cpu.cores", -2, 8 * 1 + 2, 13))
           C == <<Row("cpu.cores", 0, 8 * 1 + 2, 16)>>
           F == If(d.n > 0, C)
           K == <<Kv("cpu.load", 14), Kv("cpu.freq", 14), Kv("cpu.temp", 14)>>
           T == TopList("cpu.top", d, 1)
<1>n. /\ "cpu.cores" \in Names /\ "cpu.load" \in Names /\ "cpu.freq" \in Names
      /\ "cpu.temp" \in Names /\ "cpu.top" \in Names
  BY DEF Names, Elements
<1>1. n \in 0 .. 8
  BY CutShort DEF Datas
<1> HIDE DEF n
<1>2. Fits(A, 0, 14) /\ Fits(C, 118, 134)
  BY <1>n, FitsRow DEF Deep
<1>3. Fits(B, 14, 118)
  <2>1. Total(8, -2, 13) = 88
    BY DEF Total
  <2> QED  BY <1>n, <1>1, <2>1, FitsRows DEF Deep
<1>4. /\ Fits(<<Kv("cpu.load", 14)>>, 134, 148) /\ Fits(<<Kv("cpu.freq", 14)>>, 148, 162)
      /\ Fits(<<Kv("cpu.temp", 14)>>, 162, 176)
  BY <1>n, FitsRow DEF Deep, Kv
<1>5. Fits(K, 134, 176)
  BY <1>4, FitsThree
<1>6. Fits(T, 176, Deep)
  BY <1>n, FitsTopList DEF Deep
<1>7. Fits(F, 118, 134)
  BY <1>2, FitsIf
<1>8. Cpu(d, 1) = A \o B \o F \o K \o T
  BY Zenon DEF Cpu, n
<1> HIDE DEF A, B, C, F, K, T
<1>9. Fits(A \o B, 0, 118)
  BY <1>2, <1>3, FitsJoin
<1>10. Fits((A \o B) \o F, 0, 134)
  BY <1>7, <1>9, FitsJoin
<1>11. Fits(((A \o B) \o F) \o K, 0, 176)
  BY <1>5, <1>10, FitsJoin
<1>12. Fits((((A \o B) \o F) \o K) \o T, 0, Deep)
  BY <1>6, <1>11, FitsJoin DEF Deep
<1> QED  BY <1>8, <1>12, Zenon

\* memory.cpp fits, with everything a frame may bring.
LEMMA FitsMemory ==
  ASSUME NEW d \in Datas
  PROVE  Fits(Memory(d, 1), 0, Deep)
<1> DEFINE A == <<Kv("memory.headline", 14), Row("memory.headline", 0, 10, 16)>>
           B == <<Kv("memory.headline", 14)>>
           C == <<Kv("memory.swap", 14)>>
           M == <<Row("memory.swap", 0, 6, 10), Row("memory.breakdown", 4, 8 * 1, 14)>>
           N == Times(3, Kv("memory.breakdown", 13))
           T == TopList("memory.top", d, 1)
<1>n. /\ "memory.headline" \in Names /\ "memory.swap" \in Names /\ "memory.breakdown" \in Names
      /\ "memory.top" \in Names
  BY DEF Names, Elements
<1>1. /\ Fits(<<Kv("memory.headline", 14)>>, 0, 14)
      /\ Fits(<<Row("memory.headline", 0, 10, 16)>>, 14, 30)
      /\ Fits(<<Row("memory.swap", 0, 6, 10)>>, 58, 68)
      /\ Fits(<<Row("memory.breakdown", 4, 8 * 1, 14)>>, 68, 86)
  BY <1>n, FitsRow DEF Deep, Kv
<1>2. Fits(A, 0, 30) /\ Fits(M, 58, 86)
  BY <1>1, FitsTwo
<1>3. Fits(B, 30, 44) /\ Fits(C, 44, 58)
  BY <1>n, FitsRow DEF Deep, Kv
<1>4. Fits(N, 86, 125)
  <2>1. Total(3, 0, 13) = 39
    BY DEF Total
  <2> QED  BY <1>n, <2>1, FitsRows DEF Deep, Kv
<1>5. Fits(T, 125, Deep)
  BY <1>n, FitsTopList DEF Deep
<1>6. Memory(d, 1) = A \o If(d.rich, B) \o C \o If(d.rich, M \o N) \o T
  BY Zenon DEF Memory
<1> HIDE DEF A, B, C, M, N, T
<1>7. Fits(M \o N, 58, 125)
  BY <1>2, <1>4, FitsJoin
<1>8. Fits(If(d.rich, B), 30, 44) /\ Fits(If(d.rich, M \o N), 58, 125)
  BY <1>3, <1>7, FitsIf
<1>9. Fits(A \o If(d.rich, B), 0, 44)
  BY <1>2, <1>8, FitsJoin
<1>10. Fits((A \o If(d.rich, B)) \o C, 0, 58)
  BY <1>3, <1>9, FitsJoin
<1>11. Fits(((A \o If(d.rich, B)) \o C) \o If(d.rich, M \o N), 0, 125)
  BY <1>8, <1>10, FitsJoin
<1>12. Fits((((A \o If(d.rich, B)) \o C) \o If(d.rich, M \o N)) \o T, 0, Deep)
  BY <1>5, <1>11, FitsJoin DEF Deep
<1> QED  BY <1>6, <1>12, Zenon

\* gpu.cpp fits, with a GPU or without.
LEMMA FitsGpu ==
  ASSUME NEW d \in Datas
  PROVE  Fits(Gpu(d, 1), 0, Deep)
<1>n. /\ "gpu" \in Names /\ "gpu.headline" \in Names /\ "gpu.util" \in Names
      /\ "gpu.vram" \in Names /\ "gpu.thermals" \in Names
  BY DEF Names, Elements
<1>1. CASE ~d.rich
  <2>1. /\ Fits(<<Row("gpu", 60, 8 * 1, 20)>>, 0, 80) /\ Fits(<<Row("gpu", 0, 8 * 1, 12)>>, 80, 92)
        /\ Fits(<<Row("gpu", 0, 8 * 1, 0)>>, 92, Deep)
    BY <1>n, FitsRow DEF Deep
  <2> DEFINE R == <<Row("gpu", 60, 8 * 1, 20), Row("gpu", 0, 8 * 1, 12), Row("gpu", 0, 8 * 1, 0)>>
  <2>2. Fits(R, 0, Deep)
    BY <2>1, FitsThree DEF Deep
  <2>3. Gpu(d, 1) = R
    BY <1>1 DEF Gpu
  <2> QED  BY <2>2, <2>3, Zenon
<1>2. CASE d.rich
  <2> DEFINE A == <<Kv("gpu.headline", 14), Kv("gpu.headline", 16),
                    Kv("gpu.util", 14), Row("gpu.util", 0, 10, 16), Kv("gpu.vram", 14)>>
             B == <<Row("gpu.vram", 0, 8, 12)>>
             C == <<Kv("gpu.thermals", 14), Kv("gpu.thermals", 14)>>
             A1 == <<Kv("gpu.headline", 14), Kv("gpu.headline", 16), Kv("gpu.util", 14)>>
             A2 == <<Row("gpu.util", 0, 10, 16), Kv("gpu.vram", 14)>>
  <2>1. /\ Fits(<<Kv("gpu.headline", 14)>>, 0, 14) /\ Fits(<<Kv("gpu.headline", 16)>>, 14, 30)
        /\ Fits(<<Kv("gpu.util", 14)>>, 30, 44) /\ Fits(<<Row("gpu.util", 0, 10, 16)>>, 44, 60)
        /\ Fits(<<Kv("gpu.vram", 14)>>, 60, 74) /\ Fits(B, 74, 86)
        /\ Fits(<<Kv("gpu.thermals", 14)>>, 86, 100) /\ Fits(<<Kv("gpu.thermals", 14)>>, 100, Deep)
    BY <1>n, FitsRow DEF Deep, Kv
  <2>2. Fits(A1, 0, 44)
    BY <2>1, FitsThree
  <2>3. Fits(A2, 44, 74)
    BY <2>1, FitsTwo
  <2>4. Fits(C, 86, Deep)
    BY <2>1, FitsTwo DEF Deep
  <2>5. A = A1 \o A2
    OBVIOUS
  <2>6. Gpu(d, 1) = A \o If(d.n > 0, B) \o C
    BY <1>2, Zenon DEF Gpu
  <2>7. Fits(If(d.n > 0, B), 74, 86)
    BY <2>1, FitsIf
  <2> HIDE DEF A, A1, A2, B, C
  <2>8. Fits(A, 0, 74)
    BY <2>2, <2>3, <2>5, FitsJoin
  <2>9. Fits(A \o If(d.n > 0, B), 0, 86)
    BY <2>7, <2>8, FitsJoin
  <2>10. Fits((A \o If(d.n > 0, B)) \o C, 0, Deep)
    BY <2>4, <2>9, FitsJoin DEF Deep
  <2> QED  BY <2>6, <2>10, Zenon
<1> QED  BY <1>1, <1>2

\* network.cpp fits, in each of its three forms.
LEMMA FitsNetwork ==
  ASSUME NEW d \in Datas
  PROVE  Fits(Network(d, 1), 0, Deep)
<1> DEFINE n == 2 * AtMost(d, 3)
           A == <<Kv("network.headline", 14), Kv("network.headline", 13), Kv("network.headline", 13)>>
           B == Times(2, Kv("network.headline", 13))
           C == <<Kv("network.headline", 14)>>
           head == IF d.n > 0 THEN A ELSE IF d.rich THEN B ELSE C
           L == <<Row("network.ifaces", 4, 8 * 1, 14)>>
           lines == [i \in 1 .. n |-> Row("network.ifaces", 0, 8 * 1, IF i % 2 = 1 THEN 12 ELSE 14)]
<1>n. "network.headline" \in Names /\ "network.ifaces" \in Names
  BY DEF Names, Elements
<1>1. n \in 0 .. 6
  <2>1. AtMost(d, 3) \in 0 .. 3
    BY CutShort DEF Datas
  <2> QED  BY <2>1
<1>2. /\ Fits(<<Kv("network.headline", 14)>>, 0, 14) /\ Fits(<<Kv("network.headline", 13)>>, 14, 27)
      /\ Fits(<<Kv("network.headline", 13)>>, 27, 40) /\ Fits(C, 0, 40) /\ Fits(L, 40, 58)
  BY <1>n, FitsRow DEF Deep, Kv
<1>3. Fits(A, 0, 40)
  BY <1>2, FitsThree
<1>4. Fits(B, 0, 40)
  <2>1. Total(2, 0, 13) = 26
    BY DEF Total
  <2> QED  BY <1>n, <2>1, FitsRows DEF Deep, Kv
<1>5. Network(d, 1) = head \o If(d.n > 0, L \o lines)
  BY Zenon DEF Network
<1>6. Fits(head, 0, 40)
  <2> HIDE DEF A, B, C
  <2> QED  BY <1>2, <1>3, <1>4
<1>7. Fits(lines, 58, Deep)
  <2> HIDE DEF n
  <2>1. /\ Row("network.ifaces", 0, 8 * 1, 12) \in Rows /\ Row("network.ifaces", 0, 8 * 1, 14) \in Rows
        /\ Row("network.ifaces", 0, 8 * 1, 12).gap = 0 /\ Row("network.ifaces", 0, 8 * 1, 14).gap = 0
        /\ Row("network.ifaces", 0, 8 * 1, 12).h = 8 /\ Row("network.ifaces", 0, 8 * 1, 14).h = 8
        /\ Row("network.ifaces", 0, 8 * 1, 12).step = 12
        /\ Row("network.ifaces", 0, 8 * 1, 14).step = 14
    BY <1>n DEF Row, Rows
  <2>2. \A i \in 1 .. n : \/ lines[i] = Row("network.ifaces", 0, 8 * 1, 12)
                          \/ lines[i] = Row("network.ifaces", 0, 8 * 1, 14)
    OBVIOUS
  <2>3. lines \in [1 .. n -> Rows]
    BY <2>1
  <2> HIDE DEF lines
  <2>4. lines \in Seq(Rows) /\ Len(lines) = n
    BY <1>1, <2>3, IsASeq
  <2>5. Alike(lines, 0, 8, 14)
    BY <2>1, <2>2, <2>4 DEF Alike
  <2>6. Total(6, 0, 14) = 84 /\ Len(lines) \in 0 .. 6
    BY <1>1, <2>4 DEF Total
  <2> QED  BY <2>4, <2>5, <2>6, FitsAlike DEF Deep
<1> HIDE DEF head, L, lines
<1>8. Fits(L \o lines, 40, Deep)
  BY <1>2, <1>7, FitsJoin DEF Deep
<1>9. Fits(If(d.n > 0, L \o lines), 40, Deep)
  BY <1>8, FitsIf DEF Deep
<1>10. Fits(head \o If(d.n > 0, L \o lines), 0, Deep)
  BY <1>6, <1>9, FitsJoin DEF Deep
<1> QED  BY <1>5, <1>10, Zenon

\* tips.cpp fits, whichever sections are shown.
LEMMA FitsTips ==
  ASSUME NEW d \in Datas, NEW hid
  PROVE  Fits(Tips(d, 1, hid), 0, Deep)
<1> DEFINE Gap(above) == IF above \subseteq hid THEN 0 ELSE 8
           Section(el, above, head, most, step) ==
             <<Row(el, Gap(above), 8 * 1, head)>>
             \o Times(IF d.n = 0 THEN 1 ELSE AtMost(d, most), Row(el, 0, 8 * 1, step))
           word == IF d.n = 0 THEN 16 ELSE 15
           S1 == Section("tips.suggestions", {}, 16, 5, word)
           S2 == Section("tips.top_cpu", {"tips.suggestions"}, 14, 3, 14)
           S3 == Section("tips.top_ram", {"tips.suggestions", "tips.top_cpu"}, 14, 3, 14)
<1>1. ASSUME NEW el \in Names, NEW above, NEW head \in Nat, NEW most \in Nat \ {0}, NEW step \in Nat,
             NEW a \in Int, NEW z \in Int, NEW t \in Int, t = Total(most, 0, step),
             a + 8 + head + t <= z, a + 16 + head + t <= Deep
      PROVE  Fits(Section(el, above, head, most, step), a, z)
  <2> DEFINE n == IF d.n = 0 THEN 1 ELSE AtMost(d, most)
             g == Gap(above)
             first == Row(el, g, 8 * 1, head)
             row == Row(el, 0, 8 * 1, step)
             mid == a + 8 + head
  <2>1. n \in 0 .. most /\ g \in {0, 8}
    BY CutShort DEF Datas
  <2>2. Section(el, above, head, most, step) = <<first>> \o Times(n, row)
    OBVIOUS
  <2>3. t >= 0
    <3>1. 0 + step \in Nat
      OBVIOUS
    <3> QED  BY <1>1, <3>1 DEF Total
  <2> HIDE DEF n, g, Section
  <2>4. Fits(<<first>>, a, mid)
    BY <1>1, <2>1, <2>3, FitsRow DEF Deep
  <2>5. Fits(Times(n, row), mid, z)
    <3>1. mid \in Int /\ mid + t <= z /\ mid + t + 0 + 8 * 1 <= Deep /\ 0 + step >= 0
      BY <1>1
    <3> HIDE DEF mid
    <3> QED  BY <1>1, <2>1, <3>1, FitsRows
  <2> HIDE DEF first, row
  <2>6. mid \in Int
    OBVIOUS
  <2> HIDE DEF mid
  <2> QED  BY <2>2, <2>4, <2>5, <2>6, FitsJoin
<1>2. Tips(d, 1, hid) = S1 \o S2 \o S3
  BY DEF Tips
<1> HIDE DEF Section
<1>n. /\ "tips.suggestions" \in Names /\ "tips.top_cpu" \in Names /\ "tips.top_ram" \in Names
      /\ word \in {15, 16}
  BY DEF Names, Elements
<1>t. /\ Total(5, 0, word) = 5 * word /\ 5 * word \in Int /\ 5 * word <= 80
      /\ Total(3, 0, 14) = 42
  BY <1>n DEF Total
<1> HIDE DEF word
<1>3. Fits(S1, 0, 104)
  BY <1>1, <1>n, <1>t DEF Deep
<1>4. Fits(S2, 104, 168)
  BY <1>1, <1>n, <1>t DEF Deep
<1>5. Fits(S3, 168, Deep)
  BY <1>1, <1>n, <1>t DEF Deep
<1> HIDE DEF S1, S2, S3
<1>6. Fits(S1 \o S2, 0, 168)
  BY <1>3, <1>4, FitsJoin
<1>7. Fits((S1 \o S2) \o S3, 0, Deep)
  BY <1>5, <1>6, FitsJoin DEF Deep
<1> QED  BY <1>2, <1>7, Zenon

\* ai_spend.cpp fits.
LEMMA FitsAiSpend ==
  ASSUME NEW d \in Datas, NEW hid
  PROVE  Fits(AiSpend(d, 1, hid), 0, Deep)
<1> DEFINE Claude(h, step) == Row("ai.claude", 0, h, step)
           Codex(h, step) == Row("ai.codex", 0, h, step)
           gap == IF "ai.claude" \in hid THEN 0 ELSE 4
           first == Row("ai.codex", gap, 8 * 1, 20)
           a1 == <<Claude(8 * 1, 18), Claude(48 * 1, 50), Claude(8 * 1, 18)>>
           a2 == <<Claude(8 * 1, 14), Claude(8 * 1, 18)>>
           a3 == <<Claude(8 * 1, 14), Claude(8, 12)>>
           a == <<Claude(8 * 1, 18), Claude(48 * 1, 50), Claude(8 * 1, 18), Claude(8 * 1, 14),
                  Claude(8 * 1, 18), Claude(8 * 1, 14), Claude(8, 12)>>
           b == <<Claude(8 * 1, 14), Claude(8, 12), Claude(8 * 1, 16)>>
           c1 == <<first, Codex(8 * 1, 18), Codex(8 * 1, 18)>>
           c2 == <<Codex(10, 14), Codex(8 * 1, 0)>>
           c == <<first, Codex(8 * 1, 18), Codex(8 * 1, 18), Codex(10, 14), Codex(8 * 1, 0)>>
<1>n. "ai.claude" \in Names /\ "ai.codex" \in Names /\ gap \in {0, 4}
  BY DEF Names, Elements
<1>1. AiSpend(d, 1, hid) = a \o If(d.rich, b) \o c
  BY DEF AiSpend
<1> HIDE DEF gap
<1>2. /\ Fits(<<Claude(8 * 1, 18)>>, 0, 18) /\ Fits(<<Claude(48 * 1, 50)>>, 18, 68)
      /\ Fits(<<Claude(8 * 1, 18)>>, 68, 86) /\ Fits(<<Claude(8 * 1, 14)>>, 86, 100)
      /\ Fits(<<Claude(8 * 1, 18)>>, 100, 118) /\ Fits(<<Claude(8 * 1, 14)>>, 118, 132)
      /\ Fits(<<Claude(8, 12)>>, 132, 144)
  BY <1>n, FitsRow DEF Deep
<1>3. /\ Fits(<<Claude(8 * 1, 14)>>, 144, 158) /\ Fits(<<Claude(8, 12)>>, 158, 170)
      /\ Fits(<<Claude(8 * 1, 16)>>, 170, 186)
  BY <1>n, FitsRow DEF Deep
<1>4. Fits(<<first>>, 186, 210)
  BY <1>n, FitsRow DEF Deep
<1>5. /\ Fits(<<Codex(8 * 1, 18)>>, 210, 228) /\ Fits(<<Codex(8 * 1, 18)>>, 228, 246)
      /\ Fits(<<Codex(10, 14)>>, 246, 260) /\ Fits(<<Codex(8 * 1, 0)>>, 260, Deep)
  BY <1>n, FitsRow DEF Deep
<1>6. a = (a1 \o a2) \o a3 /\ c = c1 \o c2
  <2> HIDE DEF Claude, Codex, first
  <2> QED  OBVIOUS
<1> HIDE DEF Claude, Codex, first
<1>7. Fits(a1, 0, 86) /\ Fits(b, 144, 186) /\ Fits(c1, 186, 246)
  BY <1>2, <1>3, <1>4, <1>5, FitsThree
<1>8. Fits(a2, 86, 118) /\ Fits(a3, 118, 144) /\ Fits(c2, 246, Deep)
  BY <1>2, <1>5, FitsTwo DEF Deep
<1> HIDE DEF a, a1, a2, a3, b, c, c1, c2
<1>9. Fits(a1 \o a2, 0, 118) /\ Fits(c, 186, Deep)
  BY <1>6, <1>7, <1>8, FitsJoin DEF Deep
<1>10. Fits(a, 0, 144) /\ Fits(If(d.rich, b), 144, 186)
  BY <1>6, <1>7, <1>8, <1>9, FitsJoin, FitsIf
<1>11. Fits(a \o If(d.rich, b), 0, 186)
  BY <1>10, FitsJoin
<1>12. Fits((a \o If(d.rich, b)) \o c, 0, Deep)
  BY <1>9, <1>11, FitsJoin DEF Deep
<1> QED  BY <1>1, <1>12, Zenon

\* dev_flow.cpp fits.
LEMMA FitsDev == Fits(DevFlow(1), 0, Deep)
<1> DEFINE r1 == Row("dev.branch", 0, 8 * 1, 12)
           r2 == Row("dev.branch", 0, 16 * 1, 32)
           r3 == Row("dev.commits", 0, 8 * 1, 0)
           r4 == Row("dev.commits", -2, 48 * 1, 40)
           r5 == Row("dev.loc", 0, 8 * 1, 18)
           r6 == Row("dev.loc", 0, 16 * 1, 32)
           r7 == Row("dev.last_commit", 0, 8 * 1, 18)
           r8 == Row("dev.last_commit", 0, 48 * 1, 0)
<1>n. /\ "dev.branch" \in Names /\ "dev.commits" \in Names /\ "dev.loc" \in Names
      /\ "dev.last_commit" \in Names
  BY DEF Names, Elements
<1>1. /\ Fits(<<r1>>, 0, 12) /\ Fits(<<r2>>, 12, 44) /\ Fits(<<r3>>, 44, 44) /\ Fits(<<r4>>, 44, 82)
      /\ Fits(<<r5>>, 82, 100) /\ Fits(<<r6>>, 100, 132) /\ Fits(<<r7>>, 132, 150)
      /\ Fits(<<r8>>, 150, Deep)
  BY <1>n, FitsRow DEF Deep
<1>2. DevFlow(1) = <<r1, r2, r3, r4, r5, r6, r7, r8>>
  BY DEF DevFlow
<1> HIDE DEF r1, r2, r3, r4, r5, r6, r7, r8
<1> DEFINE A == <<r1, r2, r3>>
           B == <<r4, r5, r6>>
           C == <<r7, r8>>
<1>3. <<r1, r2, r3, r4, r5, r6, r7, r8>> = (A \o B) \o C
  OBVIOUS
<1>4. Fits(A, 0, 44) /\ Fits(B, 44, 132) /\ Fits(C, 132, Deep)
  BY <1>1, FitsThree, FitsTwo DEF Deep
<1> HIDE DEF A, B, C
<1>5. Fits(A \o B, 0, 132)
  BY <1>4, FitsJoin
<1>6. Fits((A \o B) \o C, 0, Deep)
  BY <1>4, <1>5, FitsJoin DEF Deep
<1> QED  BY <1>2, <1>3, <1>6, Zenon

\* calendar.cpp fits, its last line moved up by four.
LEMMA FitsCalendar == Fits(Calendar(1), 0, Deep)
<1> DEFINE r1 == Row("cal.countdown", 0, 8 * 1, 18)
           r2 == Row("cal.countdown", 0, 48 * 1, 60)
           r3 == Row("cal.title", 0, 16 * 1, 36)
           r4 == Row("cal.today_remaining", 0, 8 * 1, 0)
           r5 == Row("cal.today_remaining", -4, 48 * 1, 0)
<1>n. "cal.countdown" \in Names /\ "cal.title" \in Names /\ "cal.today_remaining" \in Names
  BY DEF Names, Elements
<1>1. /\ Fits(<<r1>>, 0, 18) /\ Fits(<<r2>>, 18, 78) /\ Fits(<<r3>>, 78, 114)
      /\ Fits(<<r4>>, 114, 114) /\ Fits(<<r5>>, 114, Deep)
  BY <1>n, FitsRow DEF Deep
<1>2. Calendar(1) = <<r1, r2, r3, r4, r5>>
  BY DEF Calendar
<1> HIDE DEF r1, r2, r3, r4, r5
<1> DEFINE A == <<r1, r2, r3>>
           B == <<r4, r5>>
<1>3. <<r1, r2, r3, r4, r5>> = A \o B
  OBVIOUS
<1>4. Fits(A, 0, 114) /\ Fits(B, 114, Deep)
  BY <1>1, FitsThree, FitsTwo DEF Deep
<1> HIDE DEF A, B
<1>5. Fits(A \o B, 0, Deep)
  BY <1>4, FitsJoin DEF Deep
<1> QED  BY <1>2, <1>3, <1>5, Zenon

\* github.cpp fits.
LEMMA FitsGithub == Fits(Github(1), 0, Deep)
<1> DEFINE r1 == Row("github.prs", 0, 8 * 1, 18)
           r2 == Row("github.prs", 0, 48 * 1, 62)
           r3 == Row("github.ci", 0, 8 * 1, 18)
           r4 == Row("github.ci", 0, 48 * 1, 62)
           r5 == Row("github.notifs", 0, 8 * 1, 18)
           r6 == Row("github.notifs", 0, 48 * 1, 0)
<1>n. "github.prs" \in Names /\ "github.ci" \in Names /\ "github.notifs" \in Names
  BY DEF Names, Elements
<1>1. /\ Fits(<<r1>>, 0, 18) /\ Fits(<<r2>>, 18, 80) /\ Fits(<<r3>>, 80, 98)
      /\ Fits(<<r4>>, 98, 160) /\ Fits(<<r5>>, 160, 178) /\ Fits(<<r6>>, 178, Deep)
  BY <1>n, FitsRow DEF Deep
<1>2. Github(1) = <<r1, r2, r3, r4, r5, r6>>
  BY DEF Github
<1> HIDE DEF r1, r2, r3, r4, r5, r6
<1> DEFINE A == <<r1, r2, r3>>
           B == <<r4, r5, r6>>
<1>3. <<r1, r2, r3, r4, r5, r6>> = A \o B
  OBVIOUS
<1>4. Fits(A, 0, 98) /\ Fits(B, 98, Deep)
  BY <1>1, FitsThree DEF Deep
<1> HIDE DEF A, B
<1>5. Fits(A \o B, 0, Deep)
  BY <1>4, FitsJoin DEF Deep
<1> QED  BY <1>2, <1>3, <1>5, Zenon

\* Six cells two by two.
LEMMA GridAbove ==
  ASSUME NEW top \in Int, NEW els, Len(els) \in 0 .. 6, NEW h \in Int, NEW pitch \in 0 .. 70, NEW hid,
         NEW r \in Grid(top, els, h, pitch, hid)
  PROVE  r.y + r.h <= top + 140 + h
<1>1. PICK i \in 1 .. Len(els) :
        r = [what |-> els[i], y |-> top + pitch * ((i - 1) \div 2), h |-> h,
             at |-> IF i % 2 = 1 THEN "left" ELSE "right"]
  BY DEF Grid
<1> DEFINE k == (i - 1) \div 2
<1>2. k \in {0, 1, 2}
  <2>1. i \in 1 .. 6
    <3> DEFINE n == Len(els)
    <3>1. n \in 0 .. 6 /\ i \in 1 .. n
      OBVIOUS
    <3> HIDE DEF n
    <3>2. \A m \in 0 .. 6 : \A u \in 1 .. m : u \in 1 .. 6
      OBVIOUS
    <3> QED  BY <3>1, <3>2
  <2>2. i - 1 \in 0 .. 5
    BY <2>1
  <2> DEFINE j == i - 1
  <2>3. j = 0 \/ j = 1 \/ j = 2 \/ j = 3 \/ j = 4 \/ j = 5
    BY <2>2
  <2> HIDE DEF j
  <2>4. j \div 2 \in {0, 1, 2}
    BY <2>3
  <2> QED  BY <2>4 DEF j
<1>3. r.y = top + pitch * k /\ r.h = h
  BY <1>1
<1> HIDE DEF k
<1>4. pitch * k \in Int /\ pitch * k <= 140
  BY <1>2
<1> DEFINE x == pitch * k
<1>5. x \in Int /\ x <= 140 /\ r.y = top + x
  BY <1>3, <1>4
<1> HIDE DEF x
<1> QED  BY <1>3, <1>5

\* At the factory's text scale and upright, every page ends above the footer.
LEMMA ContentAbove ==
  ASSUME NEW p \in Pages, NEW d \in Datas, NEW l \in Looks, l.scale = 1, l.rotation \in {0, 2},
         NEW hid, NEW r \in Content(p, d, l, hid)
  PROVE  r.y + r.h <= Height(l) - FooterH(l)
<1> DEFINE top == TitleH(l)
<1>1. top \in {0, 22} /\ Height(l) = 320 /\ FooterH(l) \in {0, 14}
  BY DEF TitleH, Height, FooterH
<1> HIDE DEF top
<1>c. Content(p, d, l, hid) =
        CASE p = "home" -> Grid(top + 8, HomeEls, IF 22 + 16 * 1 > 62 THEN 22 + 16 * 1 ELSE 62, 70, hid)
          [] p = "messages" -> Grid(top + 6, MsgEls, 16 + 48 * 1, 62, hid)
          [] p = "cpu"      -> Flow(top + 4, Cpu(d, 1), hid)
          [] p = "memory"   -> Flow(top + 6, Memory(d, 1), hid)
          [] p = "gpu"      -> Flow(top + 8, Gpu(d, 1), hid)
          [] p = "network"  -> Flow(top + 6, Network(d, 1), hid)
          [] p = "tips"     -> Flow(top + 6, Tips(d, 1, hid), hid)
          [] p = "ai"       -> Flow(top + 6, AiSpend(d, 1, hid), hid)
          [] p = "dev"      -> Flow(top + 6, DevFlow(1), hid)
          [] p = "calendar" -> Flow(top + 8, Calendar(1), hid)
          [] p = "github"   -> Flow(top + 8, Github(1), hid)
  BY DEF Content, top
<1>y. r.y \in Int /\ r.h \in Int
  BY ContentBelow
<1> DEFINE Above == r.y + r.h <= Height(l) - FooterH(l)
<1> SUFFICES Above
  OBVIOUS
<1>e. Len(HomeEls) = 6 /\ Len(MsgEls) = 5
  BY DEF HomeEls, MsgEls
<1>2. CASE p = "home"
  <2>1. r \in Grid(top + 8, HomeEls, 62, 70, hid)
    BY <1>c, <1>2
  <2>2. top + 8 \in Int /\ 62 \in Int /\ 70 \in 0 .. 70 /\ Len(HomeEls) \in 0 .. 6
    BY <1>1, <1>e
  <2>3. r.y + r.h <= (top + 8) + 140 + 62
    BY <2>1, <2>2, GridAbove
  <2> QED  BY <1>1, <1>y, <2>3
<1>3. CASE p = "messages"
  <2>1. r \in Grid(top + 6, MsgEls, 64, 62, hid)
    BY <1>c, <1>3
  <2>2. top + 6 \in Int /\ 64 \in Int /\ 62 \in 0 .. 70 /\ Len(MsgEls) \in 0 .. 6
    BY <1>1, <1>e
  <2>3. r.y + r.h <= (top + 6) + 140 + 64
    BY <2>1, <2>2, GridAbove
  <2> QED  BY <1>1, <1>y, <2>3
<1>f. ASSUME NEW rows, Fits(rows, 0, Deep), NEW by \in {4, 6, 8}, r \in Flow(top + by, rows, hid)
      PROVE  Above
  <2>1. top + by \in Int
    BY <1>1
  <2>2. r.y + r.h <= (top + by) + Deep
    BY <1>f, <2>1, FlowAbove DEF Fits
  <2> QED  BY <1>1, <1>y, <2>2 DEF Deep
<1> HIDE DEF Above
<1>4. CASE p = "cpu"
  BY <1>c, <1>f, <1>4, FitsCpu
<1>5. CASE p = "memory"
  BY <1>c, <1>f, <1>5, FitsMemory
<1>6. CASE p = "gpu"
  BY <1>c, <1>f, <1>6, FitsGpu
<1>7. CASE p = "network"
  BY <1>c, <1>f, <1>7, FitsNetwork
<1>8. CASE p = "tips"
  BY <1>c, <1>f, <1>8, FitsTips
<1>9. CASE p = "ai"
  BY <1>c, <1>f, <1>9, FitsAiSpend
<1>10. CASE p = "dev"
  BY <1>c, <1>f, <1>10, FitsDev
<1>11. CASE p = "github"
  BY <1>c, <1>f, <1>11, FitsGithub
<1>12. CASE p = "calendar"
  BY <1>c, <1>f, <1>12, FitsCalendar
<1> QED
  BY <1>2, <1>3, <1>4, <1>5, <1>6, <1>7, <1>8, <1>9, <1>10, <1>11, <1>12 DEF Pages

-----------------------------------------------------------------------------
(* The panel                                                               *)

\* What is on the glass while the layout is the one of the last full redraw:
\* that layout, with the box or without it; only when the host task has come
\* between the loop's look at pairing and its drawing may the box be wrong.
OnGlass ==
  ~since => /\ wipe = "none"
            /\ ~full => \E b \in BOOLEAN :
                          /\ glass = Screen(page, data, look, Hid(hidden), b)
                          /\ pairing = wasPairing => b = pairing

\* The box is a layer of its own.
LEMMA BoxApart ==
  ASSUME NEW p, NEW d, NEW l, NEW hid, NEW b \in BOOLEAN
  PROVE  Screen(p, d, l, hid, b) = Screen(p, d, l, hid, FALSE) \cup Box(b, l)
  BY DEF Screen, Box

\* A full redraw puts the whole layout on the panel.
LEMMA FullDraw == DrawAll(TRUE, FALSE) = Screen(page, data, look, Hid(hidden), pairing)
  BY DEF DrawAll

\* A draw, in full or over what is there, leaves the glass right.
LEMMA DrawGlass == ASSUME TypeOK, OnGlass, Draw PROVE OnGlass'
<1>1. PICK seen \in {wasPairing, pairing}, hostFlips \in BOOLEAN :
        LET isFull == full \/ seen # wasPairing
        IN  /\ glass' = DrawAll(isFull, hostFlips)
            /\ since' = (since /\ ~isFull)
            /\ wasPairing' = seen
  BY DEF Draw
<1>2. /\ UNCHANGED <<page, data, look, hidden, wipe, pairing>> /\ full' = FALSE /\ wipe = "none"
  BY DEF Draw, shown, pet
<1>t. /\ pairing \in BOOLEAN /\ wasPairing \in BOOLEAN /\ page \in Pages
      /\ data \in Datas /\ look \in Looks
  BY DEF TypeOK, Datas
<1>3. CASE full \/ seen # wasPairing
  <2>1. glass' = Screen(page, data, look, Hid(hidden), pairing)
    BY <1>1, <1>3 DEF DrawAll
  <2>2. glass' = Screen(page', data', look', Hid(hidden'), pairing)
    BY <1>2, <2>1
  <2> QED  BY <1>2, <1>t, <2>2 DEF OnGlass
<1>4. CASE ~full /\ seen = wasPairing
  <2> SUFFICES ASSUME ~since' PROVE OnGlass'
    BY DEF OnGlass
  <2>1. ~since /\ wasPairing' = wasPairing
    BY <1>1, <1>4
  <2>2. PICK b \in BOOLEAN : /\ glass = Screen(page, data, look, Hid(hidden), b)
                             /\ pairing = wasPairing => b = pairing
    BY <1>4, <2>1 DEF OnGlass
  <2> DEFINE new == UNION {Content(page, data, look, Hid(hidden)), Footer(look), Box(pairing, look),
                           IF hostFlips THEN TitleBar(page, look) ELSE {}}
  <2>3. glass' = DrawnOver(glass, new)
    <3>1. glass' = DrawAll(FALSE, hostFlips)
      BY <1>1, <1>4
    <3> QED  BY <3>1 DEF DrawAll
  <2>4. DrawnOver(Screen(page, data, look, Hid(hidden), b), new)
          = Screen(page, data, look, Hid(hidden), b \/ pairing)
    BY <1>t, DrawOver
  <2> DEFINE c == b \/ pairing
  <2>5. glass' = Screen(page, data, look, Hid(hidden), c)
    BY <2>2, <2>3, <2>4
  <2>6. c \in BOOLEAN /\ (pairing = wasPairing => c = pairing)
    BY <1>t, <2>2
  <2> HIDE DEF c, new
  <2>7. /\ glass' = Screen(page', data', look', Hid(hidden'), c)
        /\ pairing' = wasPairing' => c = pairing'
    BY <1>2, <2>1, <2>5, <2>6
  <2> QED  BY <1>2, <2>6, <2>7 DEF OnGlass
<1> QED  BY <1>1, <1>3, <1>4

\* A command that leaves the layout as it was leaves the glass right.
LEMMA NotedGlass ==
  ASSUME OnGlass, Noted, UNCHANGED <<wipe, glass, pairing, wasPairing>>,
         ~full' => ~full /\ look'.rotation = look.rotation
  PROVE  OnGlass'
<1> SUFFICES ASSUME ~since' PROVE OnGlass'
  BY DEF OnGlass
<1>1. since' = (since \/ Screen(page', data', look', Hid(hidden'), FALSE)
                           # Screen(page, data, look, Hid(hidden), FALSE))
  BY DEF Noted
<1>2. ~since /\ Screen(page', data', look', Hid(hidden'), FALSE)
                  = Screen(page, data, look, Hid(hidden), FALSE)
  BY <1>1
<1>3. CASE full'
  BY <1>2, <1>3 DEF OnGlass
<1>4. CASE ~full'
  <2>1. PICK b \in BOOLEAN : /\ glass = Screen(page, data, look, Hid(hidden), b)
                             /\ pairing = wasPairing => b = pairing
    BY <1>2, <1>4 DEF OnGlass
  <2>2. Box(b, look') = Box(b, look)
    BY <1>4 DEF Box, Height
  <2>3. glass' = Screen(page', data', look', Hid(hidden'), b)
    <3>1. Screen(page, data, look, Hid(hidden), b)
            = Screen(page, data, look, Hid(hidden), FALSE) \cup Box(b, look)
      BY BoxApart
    <3>2. Screen(page', data', look', Hid(hidden'), b)
            = Screen(page', data', look', Hid(hidden'), FALSE) \cup Box(b, look')
      BY DEF Screen, Box
    <3> QED  BY <1>2, <2>1, <2>2, <3>1, <3>2
  <2> QED  BY <1>2, <2>1, <2>3 DEF OnGlass
<1> QED  BY <1>3, <1>4

\* Every other step leaves the glass right, or knows that it does not.
LEMMA GlassKept == ASSUME TypeOK, OnGlass, Next PROVE OnGlass'
<1>t. pairing \in BOOLEAN /\ wasPairing \in BOOLEAN /\ full \in BOOLEAN /\ since \in BOOLEAN
  BY DEF TypeOK
<1>1. CASE Draw
  BY <1>1, DrawGlass
<1>2. CASE PairingFlips
  <2>1. UNCHANGED <<page, data, look, hidden, wipe, glass, full, wasPairing>>
    BY <1>2 DEF PairingFlips, shown, pet, draws
  <2>2. pairing' = ~pairing /\ since' = (since \/ pairing # wasPairing)
    BY <1>2 DEF PairingFlips
  <2>3. CASE since'
    BY <2>3 DEF OnGlass
  <2>4. CASE ~since'
    <3>1. ~since /\ pairing = wasPairing /\ ~(pairing' = wasPairing')
      BY <1>t, <2>1, <2>2, <2>4
    <3> QED  BY <2>1, <2>4, <3>1 DEF OnGlass
  <2> QED  BY <2>3, <2>4
<1>3. CASE Button \/ AutoAdvance \/ ShowPage
  <2>1. since' = TRUE
    BY <1>3 DEF Button, AutoAdvance, ShowPage, BeginWipe
  <2> QED  BY <2>1 DEF OnGlass
<1>4. CASE Reorder \/ NewState \/ SetElementVisible \/ ResetVisibility
  <2>1. Noted /\ UNCHANGED <<wipe, glass, full, pairing, wasPairing, look>>
    BY <1>4 DEF Reorder, NewState, SetElementVisible, ResetVisibility, Command, pet, draws
  <2> QED  BY <1>t, <2>1, NotedGlass
<1>5. CASE SetLook
  <2>1. /\ Noted /\ UNCHANGED <<wipe, glass, pairing, wasPairing>>
        /\ full' = (full \/ look'.rotation # look.rotation)
    BY <1>5 DEF SetLook, Command, pet
  <2> QED  BY <1>t, <2>1, NotedGlass
<1>6. CASE PetSetState \/ PetSetActive
  <2>1. UNCHANGED <<page, data, look, hidden, wipe, glass, full, pairing, wasPairing, since>>
    BY <1>6 DEF PetSetState, PetSetActive, Command, shown, draws
  <2> QED  BY <2>1 DEF OnGlass
<1>7. CASE FinishWipe
  <2>1. /\ UNCHANGED <<page, data, look, hidden, pairing>> /\ wipe' = "none"
        /\ glass' = DrawAll(TRUE, FALSE)
    BY <1>7 DEF FinishWipe, shown
  <2>2. glass' = Screen(page', data', look', Hid(hidden'), pairing)
    BY <2>1, FullDraw
  <2> QED  BY <1>t, <2>1, <2>2 DEF OnGlass
<1>8. CASE Reboot \/ Cut
  <2>1. PICK n : Boot(n)
    BY <1>8 DEF Reboot, Cut
  <2>2. wipe' = "none" /\ pairing' = FALSE /\ glass' = Layout'
    BY <2>1 DEF Boot
  <2>3. glass' = Screen(page', data', look', Hid(hidden'), FALSE)
    BY <2>2 DEF Layout
  <2> QED  BY <2>2, <2>3 DEF OnGlass
<1> QED
  BY <1>1, <1>2, <1>3, <1>4, <1>5, <1>6, <1>7, <1>8 DEF Next, Navigate, Change, Animate

\* The first draw is a full one.
LEMMA GlassAtStart == Init => OnGlass
<1> SUFFICES ASSUME Init PROVE OnGlass
  OBVIOUS
<1>1. wipe = "none" /\ pairing = FALSE /\ glass = Layout
  BY DEF Init
<1>2. glass = Screen(page, data, look, Hid(hidden), FALSE)
  BY <1>1 DEF Layout
<1> QED  BY <1>1, <1>2 DEF OnGlass

\* Drawing over what is there is safe: on every page, with any data, look and
\* hidden elements, and after any number of transitions, pairing boxes and
\* resets, the panel shows the layout of the last full redraw and nothing else.
THEOREM PanelIsClean == Spec => []CleanAfterFull
<1>1. TypeOK /\ OnGlass => CleanAfterFull
  BY DEF OnGlass, CleanAfterFull
<1>2. ASSUME TypeOK, OnGlass, [Next]_vars PROVE OnGlass'
  <2>1. CASE Next
    BY <1>2, <2>1, GlassKept
  <2>2. CASE UNCHANGED vars
    BY <1>2, <2>2 DEF OnGlass, vars, shown, pet, draws
  <2> QED  BY <1>2, <2>1, <2>2
<1> QED  BY <1>1, <1>2, GlassAtStart, TypeCorrect, PTL DEF Spec

\* cpu.cpp: "Layout fits the 240x320 portrait panel": at the factory's text scale
\* the rows of every page stand between the bars, whatever a frame brings and
\* whatever is hidden.
THEOREM PagesFit == Spec => []FitsPanel
<1>1. TypeOK => FitsPanel
  <2> SUFFICES ASSUME TypeOK, look.scale = 1, look.rotation \in {0, 2},
                      NEW r \in Content(page, data, look, Hid(hidden))
               PROVE  TitleH(look) <= r.y /\ r.y + r.h <= Height(look) - FooterH(look)
    BY DEF FitsPanel
  <2>1. page \in Pages /\ data \in Datas /\ look \in Looks
    BY DEF TypeOK, Datas
  <2>2. r.y \in Int /\ r.y >= TitleH(look)
    BY <2>1, ContentBelow
  <2>3. TitleH(look) \in Int
    BY DEF TitleH
  <2>4. r.y + r.h <= Height(look) - FooterH(look)
    BY <2>1, ContentAbove
  <2> QED  BY <2>2, <2>3, <2>4
<1> QED  BY TypeCorrect, <1>1, PTL
=============================================================================
