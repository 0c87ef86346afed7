-------------------------- MODULE PageCycleProofs ---------------------------
(***************************************************************************)
(* For any number of pages, any preferences and any commands: the bag and  *)
(* the walks follow the settings, and a reset brings the cycle back.  The  *)
(* invariant adds that RAM and flash agree on the mask, the deprecated     *)
(* bits apart, and on an order that holds no deprecated page.              *)
(***************************************************************************)
EXTENDS PageCycle, FiniteSetTheorems, SequenceTheorems, WellFoundedInduction, TLAPS

-----------------------------------------------------------------------------
(* Walks, orders and bags                                                  *)

\* A set of naturals with a bound has a least member.
LEMMA LeastExists ==
  ASSUME NEW n \in Nat, NEW T, T \subseteq 0 .. n, T # {}
  PROVE  \E t \in T : \A u \in T : t <= u
<1> DEFINE U == 0 .. n
           F == {0 .. t : t \in T}
<1>1. IsFiniteSet(U)
  BY FS_Interval
<1>2. IsWellFoundedOn(StrictSubsetOrdering(U), SUBSET U)
  BY <1>1, FS_StrictSubsetOrderingWellFounded, FS_FiniteSubsetsOfFinite
<1>3. F \subseteq SUBSET U /\ F # {}
  <2>1. \A t \in T : 0 .. t \in SUBSET U
    OBVIOUS
  <2>2. PICK t \in T : TRUE
    OBVIOUS
  <2>3. 0 .. t \in F
    OBVIOUS
  <2> QED  BY <2>1, <2>3
<1>4. PICK m \in F : \A k \in F : ~(<<k, m>> \in StrictSubsetOrdering(U))
  BY <1>2, <1>3, WFMin
<1>5. PICK t \in T : m = 0 .. t
  BY <1>4
<1>6. ASSUME NEW u \in T PROVE t <= u
  <2>1. SUFFICES ASSUME u < t PROVE FALSE
    BY <1>5
  <2>2. 0 .. u \in F
    OBVIOUS
  <2>3. 0 .. u \subseteq m /\ 0 .. u # m /\ m \subseteq U /\ 0 .. u \subseteq U
    BY <1>5, <2>1
  <2>4. QED  BY <1>4, <2>2, <2>3 DEF StrictSubsetOrdering
<1> QED
  BY <1>6

\* The distance along the cycle is less than the number of pages.
LEMMA StepsType ==
  ASSUME NEW from \in Slots \cup {None}, NEW s \in Slots
  PROVE  StepsTo(from, s) \in 0 .. PageCount - 1
  BY PageAssumption DEF StepsTo, Slots, Pages, None

\* A walk ends on a page that is enabled whenever one is.
LEMMA WalkLands ==
  ASSUME NEW p, NEW from \in Slots \cup {None}, VisibleSlots(p) # {}
  PROVE  NextEnabledSlot(p, from) \in VisibleSlots(p)
<1> DEFINE V == VisibleSlots(p)
           T == {StepsTo(from, s) : s \in V}
<1>1. V \subseteq Slots
  BY DEF VisibleSlots
<1>2. T \subseteq 0 .. PageCount - 1 /\ T # {}
  BY <1>1, StepsType
<1>3. \E t \in T : \A u \in T : t <= u
  <2> HIDE DEF T
  <2>1. PageCount - 1 \in Nat
    BY PageAssumption
  <2> QED  BY <1>2, <2>1, LeastExists
<1>4. \E s \in V : \A u \in V : StepsTo(from, s) <= StepsTo(from, u)
  BY <1>3
<1> QED
  BY <1>4 DEF NextEnabledSlot

\* A walk ends on a slot, whatever is enabled.
LEMMA NextType ==
  ASSUME NEW p, NEW from \in Slots \cup {None}
  PROVE  NextEnabledSlot(p, from) \in Slots
<1>1. CASE VisibleSlots(p) = {}
  BY <1>1, PageAssumption DEF NextEnabledSlot, Slots, Pages
<1>2. CASE VisibleSlots(p) # {}
  BY <1>2, WalkLands DEF VisibleSlots
<1> QED  BY <1>1, <1>2

\* The first of some slots is one of them.
LEMMA MinIsMember ==
  ASSUME NEW S, S \subseteq Slots, S # {}
  PROVE  Min(S) \in S
<1>1. \E s \in S : \A u \in S : s <= u
  <2>1. PageCount - 1 \in Nat /\ S \subseteq 0 .. PageCount - 1
    BY PageAssumption DEF Slots, Pages
  <2> QED  BY <2>1, LeastExists
<1> QED  BY <1>1 DEF Min

\* So does the way home.
LEMMA HomeLands ==
  ASSUME NEW p
  PROVE  /\ FindHomeSlot(p) \in Slots
         /\ VisibleSlots(p) # {} => FindHomeSlot(p) \in VisibleSlots(p)
<1>1. None \in Slots \cup {None}
  OBVIOUS
<1>2. CASE PageEnabled(p, Home) /\ SlotsOf(p, Home) # {}
  <2>1. Min(SlotsOf(p, Home)) \in SlotsOf(p, Home)
    BY <1>2, MinIsMember DEF SlotsOf
  <2> QED  BY <2>1, <1>2 DEF FindHomeSlot, SlotsOf, VisibleSlots
<1>3. CASE ~(PageEnabled(p, Home) /\ SlotsOf(p, Home) # {})
  BY <1>1, <1>3, NextType, WalkLands DEF FindHomeSlot
<1> QED  BY <1>2, <1>3

\* Whatever a command carries, the interval that is kept is within bounds.
LEMMA ClampType ==
  ASSUME NEW v \in Nat
  PROVE  Clamp(v) \in MinInterval .. MaxInterval /\ Clamp(v) \in Nat
  BY PageAssumption DEF Clamp

\* An order of deprecated pages nowhere, and of ids that exist.
Clean(order) == \A s \in Slots : order[s] \notin Deprecated

\* A new order is one of ids that exist, none of them deprecated.
LEMMA OrderType ==
  ASSUME NEW list
  PROVE  OrderFrom(list) \in [Slots -> Pages \cup {None}] /\ Clean(OrderFrom(list))
<1> DEFINE valid == {i \in 1 .. Len(list) : list[i] \in Pages \ Deprecated}
           at(s) == {i \in valid : Cardinality({j \in valid : j < i}) = s}
           v(s) == IF at(s) = {} THEN None ELSE list[CHOOSE i \in at(s) : TRUE]
<1>1. \A s \in Slots : v(s) \in (Pages \ Deprecated) \cup {None}
  <2>1. SUFFICES ASSUME NEW s \in Slots, at(s) # {}
                  PROVE  list[CHOOSE i \in at(s) : TRUE] \in Pages \ Deprecated
    OBVIOUS
  <2>2. (CHOOSE i \in at(s) : TRUE) \in at(s)
    BY <2>1
  <2>3. at(s) \subseteq valid
    OBVIOUS
  <2> QED  BY <2>2, <2>3
<1>2. OrderFrom(list) = [s \in Slots |-> v(s)]
  BY DEF OrderFrom
<1>3. None \notin Deprecated
  BY PageAssumption DEF None, Pages
<1> HIDE DEF v
<1> QED  BY <1>1, <1>2, <1>3 DEF Clean

\* A new bag holds enabled slots, no more of them than there are pages.
LEMMA BagType ==
  ASSUME NEW p, NEW avoid, NEW b \in RebuildBag(p, avoid)
  PROVE  b \in Seq(VisibleSlots(p)) /\ Len(b) <= PageCount
<1> DEFINE V == VisibleSlots(p)
           n == Cardinality(V)
<1>1. IsFiniteSet(V) /\ n \in Nat /\ n <= PageCount
  <2>1. V \in SUBSET Slots /\ IsFiniteSet(Slots) /\ Cardinality(Slots) = PageCount
    BY FS_Interval, PageAssumption DEF VisibleSlots, Slots, Pages
  <2> QED  BY <2>1, FS_Subset, FS_CardinalityType
<1>2. PICK q \in SetToSeqs(V) :
         b = IF Len(q) >= 2 /\ q[1] = avoid THEN <<q[2], q[1]>> \o SubSeq(q, 3, Len(q)) ELSE q
  BY DEF RebuildBag
<1>3. q \in [1 .. n -> V]
  BY DEF SetToSeqs
<1>4. q \in Seq(V) /\ Len(q) = n
  BY <1>1, <1>3
<1>5. CASE Len(q) >= 2 /\ q[1] = avoid
  <2>1. SubSeq(q, 3, Len(q)) \in Seq(V) /\ Len(SubSeq(q, 3, Len(q))) = n - 2
    BY <1>1, <1>4, <1>5, SubSeqProperties
  <2>2. <<q[2], q[1]>> \in Seq(V) /\ Len(<<q[2], q[1]>>) = 2
    BY <1>4, <1>5
  <2> QED  BY <1>1, <1>2, <1>5, <2>1, <2>2, ConcatProperties
<1>6. CASE ~(Len(q) >= 2 /\ q[1] = avoid)
  BY <1>1, <1>2, <1>4, <1>6
<1> QED  BY <1>5, <1>6

-----------------------------------------------------------------------------
(* One tick                                                                *)

Wipes  == {"none", "running", "elapsed"}
Cycles == [slot : Slots, bag : Seq(Slots), wipe : Wipes, elapsed : 0 .. MaxInterval]
Short(c) == Len(c.bag) < PageCount

\* The bag of c holds slots of pages that are enabled under ram.
Enabled(c) == \A i \in 1 .. Len(c.bag) : c.bag[i] \in VisibleSlots(ram)

\* A change of page leaves the bag alone.
LEMMA GoType ==
  ASSUME NEW c \in Cycles, NEW s \in Slots
  PROVE  Go(c, s) \in Cycles /\ Go(c, s).bag = c.bag /\ Go(c, s).slot = s
  BY DEF Go, Cycles, Wipes

\* show_page may go anywhere, leaves the bag alone and restarts the timer.
LEMMA PendingStep ==
  ASSUME NEW c \in Cycles
  PROVE  /\ AfterPending(c) \in Cycles /\ AfterPending(c).bag = c.bag
         /\ pending = None => ~HonoursPending(c)
         /\ IF HonoursPending(c) THEN AfterPending(c).elapsed = 0 ELSE AfterPending(c) = c
<1>1. CASE ~HonoursPending(c)
  BY <1>1 DEF AfterPending
<1>2. CASE HonoursPending(c)
  <2> DEFINE s == Min(SlotsOf(ram, pending))
             g == Go(c, s)
  <2>1. s \in Slots
    BY <1>2, MinIsMember DEF HonoursPending, SlotsOf
  <2>2. g \in Cycles /\ g.bag = c.bag
    BY <2>1, GoType
  <2>3. AfterPending(c) = [g EXCEPT !.elapsed = 0] /\ pending # None
    BY <1>2 DEF AfterPending, HonoursPending
  <2> HIDE DEF g
  <2> QED  BY <1>2, <2>2, <2>3, PageAssumption DEF Cycles
<1> QED  BY <1>1, <1>2

\* A press goes to an enabled slot, leaves the bag alone and restarts the timer.
LEMMA ButtonStep ==
  ASSUME NEW c \in Cycles, NEW ev \in {"none", "short", "long"}
  PROVE  /\ AfterButton(c, ev) \in Cycles /\ AfterButton(c, ev).bag = c.bag
         /\ VisibleSlots(ram) # {} => \/ AfterButton(c, ev).slot = c.slot
                                      \/ AfterButton(c, ev).slot \in VisibleSlots(ram)
         /\ IF Heard(c, ev) THEN AfterButton(c, ev).elapsed = 0 ELSE AfterButton(c, ev) = c
<1>1. CASE ~Heard(c, ev)
  BY <1>1 DEF AfterButton
<1>2. CASE Heard(c, ev)
  <2> DEFINE s == IF ev = "short" THEN NextEnabledSlot(ram, c.slot) ELSE FindHomeSlot(ram)
             g == Go(c, s)
  <2>1. c.slot \in Slots \cup {None}
    BY DEF Cycles
  <2>2. s \in Slots /\ (VisibleSlots(ram) # {} => s \in VisibleSlots(ram))
    BY <2>1, NextType, WalkLands, HomeLands
  <2>3. g \in Cycles /\ g.bag = c.bag /\ g.slot = s
    BY <2>2, GoType
  <2>4. AfterButton(c, ev) = [g EXCEPT !.elapsed = 0]
    BY <1>2 DEF AfterButton, Pressed
  <2> HIDE DEF g, s
  <2> QED  BY <1>2, <2>2, <2>3, <2>4, PageAssumption DEF Cycles
<1> QED  BY <1>1, <1>2

\* The dirty flag empties the bag, and restarts the timer too.
LEMMA DirtyStep ==
  ASSUME NEW c \in Cycles, Short(c)
  PROVE  /\ AfterDirty(c) \in Cycles /\ Short(AfterDirty(c)) /\ AfterDirty(c).slot = c.slot
         /\ dirty \/ c.bag = <<>> => Enabled(AfterDirty(c))
         /\ Enabled(c) => Enabled(AfterDirty(c))
         /\ AfterDirty(c).elapsed \in {0, c.elapsed}
<1>1. CASE ~dirty
  <2>1. AfterDirty(c) = c
    BY <1>1 DEF AfterDirty
  <2> QED  BY <1>1, <2>1 DEF Enabled
<1>2. CASE dirty
  <2>1. AfterDirty(c) = [c EXCEPT !.bag = <<>>, !.elapsed = 0]
    BY <1>2 DEF AfterDirty
  <2>e. <<>> \in Seq(Slots) /\ 0 \in 0 .. MaxInterval
    BY EmptySeq, PageAssumption
  <2>2. /\ AfterDirty(c).bag = <<>> /\ AfterDirty(c) \in Cycles
        /\ AfterDirty(c).slot = c.slot /\ AfterDirty(c).elapsed = 0
    BY <2>1, <2>e DEF Cycles
  <2> QED  BY <2>2, PageAssumption DEF Enabled, Short
<1> QED  BY <1>1, <1>2

\* Drawing from a bag of enabled slots shows one of them and leaves the rest.
LEMMA DrawStep ==
  ASSUME NEW c \in Cycles, NEW b \in Seq(Slots), Short(c), Len(b) <= PageCount, b # <<>>
  PROVE  /\ Draw(c, b) \in Cycles /\ Short(Draw(c, b))
         /\ (\A i \in 1 .. Len(b) : b[i] \in VisibleSlots(ram))
              => Draw(c, b).slot \in VisibleSlots(ram) /\ Enabled(Draw(c, b))
<1> DEFINE g == Go(c, Head(b))
           t == Tail(b)
<1>1. /\ Head(b) \in Slots /\ Head(b) = b[1] /\ Len(b) >= 1
      /\ t \in Seq(Slots) /\ Len(t) = Len(b) - 1 /\ Len(b) \in Nat
      /\ \A i \in 1 .. Len(t) : t[i] = b[i + 1]
  BY HeadTailProperties, EmptySeq, LenProperties
<1>2. g \in Cycles /\ g.slot = Head(b)
  BY <1>1, GoType
<1>3. Draw(c, b) = [g EXCEPT !.bag = t]
  BY DEF Draw
<1> HIDE DEF g, t
<1>4. Draw(c, b) \in Cycles /\ Draw(c, b).bag = t /\ Draw(c, b).slot = Head(b)
  BY <1>1, <1>2, <1>3 DEF Cycles
<1>5. Short(Draw(c, b))
  BY <1>1, <1>4, PageAssumption DEF Short
<1>6. ASSUME \A i \in 1 .. Len(b) : b[i] \in VisibleSlots(ram)
      PROVE  Draw(c, b).slot \in VisibleSlots(ram) /\ Enabled(Draw(c, b))
  <2>1. \A i \in 1 .. Len(t) : i + 1 \in 1 .. Len(b)
    BY <1>1
  <2>2. 1 \in 1 .. Len(b)
    BY <1>1
  <2> QED  BY <1>1, <1>4, <1>6, <2>1, <2>2 DEF Enabled
<1> QED  BY <1>4, <1>5, <1>6

\* The timer's walk goes to an enabled slot, and leaves an enabled bag so.
LEMMA AdvanceStep ==
  ASSUME NEW c \in Cycles, Short(c), NEW d \in Advances(c)
  PROVE  /\ d \in Cycles /\ Short(d)
         /\ Enabled(c) => /\ Enabled(d)
                          /\ VisibleSlots(ram) # {} => \/ d.slot = c.slot
                                                       \/ d.slot \in VisibleSlots(ram)
<1>0. VisibleSlots(ram) \subseteq Slots
  BY DEF VisibleSlots
<1>1. CASE ram.mode = "random"
  <2>1. PICK b \in IF c.bag # <<>> THEN {c.bag} ELSE RebuildBag(ram, c.slot) : d = Draw(c, b)
    BY <1>1 DEF Advances
  <2>2. CASE b = <<>>
    BY <2>1, <2>2 DEF Draw
  <2>3. CASE b # <<>> /\ c.bag # <<>>
    <3>1. b = c.bag /\ b \in Seq(Slots) /\ Len(b) <= PageCount
      BY <2>1, <2>3, PageAssumption DEF Cycles, Short
    <3> QED  BY <2>1, <2>3, <3>1, DrawStep DEF Enabled
  <2>4. CASE b # <<>> /\ c.bag = <<>>
    <3>1. b \in Seq(VisibleSlots(ram)) /\ Len(b) <= PageCount
      BY <2>1, <2>4, BagType
    <3>2. b \in Seq(Slots)
      BY <1>0, <3>1, SeqMonotonic
    <3>3. \A i \in 1 .. Len(b) : b[i] \in VisibleSlots(ram)
      BY <3>1, ElementOfSeq
    <3> QED  BY <2>1, <2>4, <3>1, <3>2, <3>3, DrawStep
  <2> QED  BY <2>2, <2>3, <2>4
<1>2. CASE ram.mode # "random"
  <2> DEFINE s == NextEnabledSlot(ram, c.slot)
  <2>1. c.slot \in Slots \cup {None}
    BY DEF Cycles
  <2>2. s \in Slots /\ (VisibleSlots(ram) # {} => s \in VisibleSlots(ram))
    BY <2>1, NextType, WalkLands
  <2>3. d = Go(c, s)
    BY <1>2 DEF Advances
  <2> HIDE DEF s
  <2> QED  BY <2>2, <2>3, GoType DEF Enabled, Short
<1> QED  BY <1>1, <1>2

\* And so does the timer as a whole, due or not; it goes nowhere before its time.
LEMMA AutoAdvanceStep ==
  ASSUME NEW c \in Cycles, Short(c), NEW e \in AfterAutoAdvance(c)
  PROVE  /\ e \in Cycles /\ Short(e)
         /\ Enabled(c) => /\ Enabled(e)
                          /\ VisibleSlots(ram) # {} => \/ e.slot = c.slot
                                                       \/ e.slot \in VisibleSlots(ram)
         /\ e.elapsed \in {0, c.elapsed}
         /\ e.slot # c.slot => c.elapsed >= ram.interval
<1>1. CASE ~AdvanceDue(c)
  BY <1>1 DEF AfterAutoAdvance
<1>2. CASE AdvanceDue(c)
  <2>1. PICK d \in Advances(c) : e = [d EXCEPT !.elapsed = 0]
    BY <1>2 DEF AfterAutoAdvance
  <2>2. d \in Cycles
    BY AdvanceStep
  <2>3. e \in Cycles /\ e.bag = d.bag /\ e.slot = d.slot /\ e.elapsed = 0
    BY <2>1, <2>2, PageAssumption DEF Cycles
  <2>4. c.elapsed >= ram.interval
    BY <1>2 DEF AdvanceDue
  <2> QED  BY <2>3, <2>4, AdvanceStep DEF Short, Enabled
<1> QED  BY <1>1, <1>2

\* What a tick makes of slot, bag, wipe and elapsed: it shows another page by
\* hand, restarting the timer, or because the timer has run its interval.
LEMMA TickStep ==
  ASSUME TypeOK, BagFollowsSettings, NEW ev \in {"none", "short", "long"}, Tick(ev)
  PROVE  /\ slot' \in Slots /\ bag' \in Seq(Slots) /\ Len(bag') < PageCount
         /\ wipe' \in Wipes /\ elapsed' \in 0 .. MaxInterval
         /\ ~byReset \/ dirty \/ bag = <<>>
              => \A i \in 1 .. Len(bag') : bag'[i] \in VisibleSlots(ram)
         /\ pending = None /\ ~byReset /\ VisibleSlots(ram) # {}
              => slot' = slot \/ slot' \in VisibleSlots(ram)
         /\ elapsed' \in {0, elapsed}
         /\ \/ calm' = 0 /\ elapsed' = 0
            \/ calm' = calm /\ (slot' # slot => elapsed >= ram.interval)
<1> DEFINE c0 == [slot |-> slot, bag |-> bag, wipe |-> wipe, elapsed |-> elapsed]
           c1 == AfterPending(c0)
           c2 == AfterButton(c1, ev)
           cd == AfterDirty(c2)
<1>1. /\ c0 \in Cycles /\ Short(c0)
      /\ c0.slot = slot /\ c0.bag = bag /\ c0.elapsed = elapsed
  BY DEF TypeOK, Cycles, Wipes, Short
<1>2. PICK c3 \in AfterAutoAdvance(cd) :
        LET c == AfterTransition(c3)
        IN  slot' = c.slot /\ bag' = c.bag /\ wipe' = c.wipe /\ elapsed' = c.elapsed
  BY DEF Tick
<1>m. calm' = IF HonoursPending(c0) \/ Heard(c1, ev) THEN 0 ELSE calm
  BY DEF Tick
<1> HIDE DEF c0
<1>3. /\ c1 \in Cycles /\ c1.bag = bag /\ (pending = None => c1.slot = slot)
      /\ IF HonoursPending(c0) THEN c1.elapsed = 0 ELSE c1 = c0
  BY <1>1, PendingStep
<1> HIDE DEF c1
<1>4. /\ c2 \in Cycles /\ c2.bag = bag
      /\ VisibleSlots(ram) # {} => c2.slot = c1.slot \/ c2.slot \in VisibleSlots(ram)
      /\ IF Heard(c1, ev) THEN c2.elapsed = 0 ELSE c2 = c1
  BY <1>3, ButtonStep
<1>5. Short(c2)
  BY <1>4 DEF Short, TypeOK
<1> HIDE DEF c2
<1>6. /\ cd \in Cycles /\ Short(cd) /\ cd.slot = c2.slot /\ cd.elapsed \in {0, c2.elapsed}
      /\ (dirty \/ bag = <<>> \/ Enabled(c2)) => Enabled(cd)
  BY <1>4, <1>5, DirtyStep
<1>7. ~byReset \/ dirty \/ bag = <<>> => dirty \/ bag = <<>> \/ Enabled(c2)
  BY <1>4 DEF BagFollowsSettings, Enabled
<1> HIDE DEF cd
<1>8. /\ c3 \in Cycles /\ Short(c3)
      /\ Enabled(cd) => /\ Enabled(c3)
                        /\ VisibleSlots(ram) # {} => c3.slot = cd.slot \/ c3.slot \in VisibleSlots(ram)
      /\ c3.elapsed \in {0, cd.elapsed} /\ (c3.slot # cd.slot => cd.elapsed >= ram.interval)
  BY <1>6, AutoAdvanceStep
<1> DEFINE c == AfterTransition(c3)
<1>9. c \in Cycles /\ c.bag = c3.bag /\ c.slot = c3.slot /\ c.elapsed = c3.elapsed
  BY <1>8 DEF AfterTransition, Cycles, Wipes
<1>10. slot' = c.slot /\ bag' = c.bag /\ wipe' = c.wipe /\ elapsed' = c.elapsed
  BY <1>2
<1> HIDE DEF c
<1>11. /\ slot' \in Slots /\ bag' \in Seq(Slots) /\ Len(bag') < PageCount
       /\ wipe' \in Wipes /\ elapsed' \in 0 .. MaxInterval
  BY <1>8, <1>9, <1>10 DEF Cycles, Short
<1>12. ~byReset \/ dirty \/ bag = <<>> => \A i \in 1 .. Len(bag') : bag'[i] \in VisibleSlots(ram)
  BY <1>6, <1>7, <1>8, <1>9, <1>10 DEF Enabled
<1>13. pending = None /\ ~byReset /\ VisibleSlots(ram) # {}
         => slot' = slot \/ slot' \in VisibleSlots(ram)
  BY <1>3, <1>4, <1>6, <1>7, <1>8, <1>9, <1>10
<1>14. ASSUME HonoursPending(c0) \/ Heard(c1, ev)
       PROVE  calm' = 0 /\ elapsed' = 0
  <2>1. c2.elapsed = 0
    BY <1>14, <1>3, <1>4
  <2> QED  BY <1>14, <2>1, <1>m, <1>6, <1>8, <1>9, <1>10
<1>15. ASSUME ~HonoursPending(c0), ~Heard(c1, ev)
       PROVE  /\ calm' = calm /\ elapsed' \in {0, elapsed}
              /\ slot' # slot => elapsed >= ram.interval
  <2>1. c2.slot = slot /\ c2.elapsed = elapsed
    BY <1>15, <1>1, <1>3, <1>4
  <2>2. calm' = calm /\ elapsed' \in {0, cd.elapsed} /\ cd.elapsed \in {0, elapsed}
    BY <1>15, <2>1, <1>m, <1>6, <1>8, <1>9, <1>10
  <2>3. slot' # slot => cd.elapsed >= ram.interval
    BY <2>1, <1>6, <1>8, <1>9, <1>10
  <2>4. ~(0 >= ram.interval)
    BY PageAssumption DEF TypeOK
  <2> QED  BY <2>2, <2>3, <2>4
<1> QED  BY <1>11, <1>12, <1>13, <1>14, <1>15

-----------------------------------------------------------------------------
(* The invariant                                                           *)

\* RAM and flash agree on the mask, the deprecated bits apart, and on the
\* order, which holds no deprecated page.
Agree ==
  /\ ram.mask \ Deprecated = nvs.mask \ Deprecated
  /\ Clean(ram.order)
  /\ \A s \in Slots : ram.order[s] = IF nvs.order[s] \in Deprecated THEN None ELSE nvs.order[s]

Inv == TypeOK /\ BagFollowsSettings /\ Agree /\ reboots \in Nat

\* What setup() restores, field by field.
LEMMA RestoreType ==
  ASSUME NEW n \in Prefs
  PROVE  /\ Restore(n) \in Prefs
         /\ Restore(n).interval \in MinInterval .. MaxInterval
         /\ Restore(n).mask = n.mask \ Deprecated
         /\ Restore(n).order
              = [s \in Slots |-> IF n.order[s] \in Deprecated THEN None ELSE n.order[s]]
<1> DEFINE o == [s \in Slots |-> IF n.order[s] \in Deprecated THEN None ELSE n.order[s]]
<1>1. o \in [Slots -> Pages \cup {None}]
  BY DEF Prefs
<1>2. Clamp(n.interval) \in MinInterval .. MaxInterval /\ Clamp(n.interval) \in Nat
  BY ClampType DEF Prefs
<1>3. Restore(n) = [n EXCEPT !.mask = n.mask \ Deprecated, !.order = o,
                             !.interval = Clamp(n.interval)]
  BY DEF Restore, Prefs
<1> HIDE DEF o
<1>4. /\ Restore(n) \in Prefs /\ Restore(n).interval \in MinInterval .. MaxInterval
      /\ Restore(n).mask = n.mask \ Deprecated /\ Restore(n).order = o
  BY <1>1, <1>2, <1>3 DEF Prefs
<1> QED  BY <1>4 DEF o

\* The first page is a slot.
LEMMA BootType ==
  ASSUME NEW p
  PROVE  BootSlot(p) \in Slots
  BY HomeLands, PageAssumption DEF BootSlot, Slots, Pages

\* What setup() leaves satisfies the invariant whatever is in flash.
LEMMA StartUpInv ==
  ASSUME nvs \in Prefs, StartUp(nvs), UNCHANGED nvs, reboots' \in Nat
  PROVE  Inv'
<1>1. ram' = Restore(nvs) /\ nvs' = nvs
  BY DEF StartUp
<1>2. /\ ram' \in Prefs /\ ram'.interval \in MinInterval .. MaxInterval /\ nvs' \in Prefs
      /\ ram'.mask = nvs.mask \ Deprecated
      /\ ram'.order
           = [s \in Slots |-> IF nvs.order[s] \in Deprecated THEN None ELSE nvs.order[s]]
  BY <1>1, RestoreType
<1>3. /\ slot' \in Slots /\ bag' = <<>> /\ dirty' = FALSE /\ pending' = None
      /\ wipe' = "none" /\ elapsed' = 0 /\ held' = FALSE /\ overlay' = FALSE
      /\ calm' = MaxInterval /\ byReset' = FALSE
  BY BootType DEF StartUp
<1>4. bag' \in Seq(Slots) /\ Len(bag') = 0
  BY <1>3, EmptySeq
<1>n. /\ elapsed' \in 0 .. MaxInterval /\ calm' \in 0 .. MaxInterval
      /\ Len(bag') < PageCount
  BY <1>3, <1>4, PageAssumption
<1>b. dirty' \in BOOLEAN /\ held' \in BOOLEAN /\ overlay' \in BOOLEAN /\ byReset' \in BOOLEAN
  BY <1>3
<1>w. wipe' \in {"none", "running", "elapsed"} /\ pending' \in Pages \cup {None}
  BY <1>3
<1>5. TypeOK'
  BY <1>2, <1>3, <1>4, <1>n, <1>b, <1>w DEF TypeOK
<1>6. BagFollowsSettings'
  BY <1>4 DEF BagFollowsSettings
<1>7. Agree'
  <2>1. None \notin Deprecated
    BY PageAssumption DEF None, Pages
  <2> QED  BY <1>1, <1>2, <2>1 DEF Agree, Clean
<1> QED  BY <1>5, <1>6, <1>7 DEF Inv

\* The device at its first start.
LEMMA InitInv == Init => Inv
<1> SUFFICES ASSUME Init PROVE Inv
  OBVIOUS
<1>1. nvs \in Prefs /\ ram = Restore(nvs)
  BY PageAssumption DEF Init
<1>2. /\ ram \in Prefs /\ ram.interval \in MinInterval .. MaxInterval
      /\ ram.mask = nvs.mask \ Deprecated
      /\ ram.order
           = [s \in Slots |-> IF nvs.order[s] \in Deprecated THEN None ELSE nvs.order[s]]
  BY <1>1, RestoreType
<1>3. /\ slot \in Slots /\ bag = <<>> /\ dirty = FALSE /\ pending = None
      /\ wipe = "none" /\ elapsed = 0 /\ held = FALSE /\ overlay = FALSE
      /\ calm = MaxInterval /\ byReset = FALSE
  BY BootType DEF Init
<1>4. bag \in Seq(Slots) /\ Len(bag) = 0
  BY <1>3, EmptySeq
<1>n. /\ elapsed \in 0 .. MaxInterval /\ calm \in 0 .. MaxInterval
      /\ Len(bag) < PageCount
  BY <1>3, <1>4, PageAssumption
<1>b. dirty \in BOOLEAN /\ held \in BOOLEAN /\ overlay \in BOOLEAN /\ byReset \in BOOLEAN
  BY <1>3
<1>w. wipe \in {"none", "running", "elapsed"} /\ pending \in Pages \cup {None}
  BY <1>3
<1>5. TypeOK
  BY <1>1, <1>2, <1>3, <1>4, <1>n, <1>b, <1>w DEF TypeOK
<1>6. BagFollowsSettings
  BY <1>4 DEF BagFollowsSettings
<1>7. Agree
  <2>1. None \notin Deprecated
    BY PageAssumption DEF None, Pages
  <2> QED  BY <1>2, <2>1 DEF Agree, Clean
<1> QED  BY <1>5, <1>6, <1>7 DEF Inv, Init

\* Each command keeps the preferences typed and agreeing, and raises the flag
\* whenever it changes what is enabled, or is reset_prefs.
LEMMA CommandInv == ASSUME Inv, Command PROVE Inv'
<1> USE DEF Inv
<1>1. /\ UNCHANGED <<slot, bag, wipe, elapsed, held, overlay, calm, reboots>>
      /\ \/ \E id \in Pages : ShowPage(id)
         \/ \E m \in Masks : SetPagesEnabled(m)
         \/ \E list \in Orders : SetPagesOrder(list)
         \/ \E on \in BOOLEAN, i \in Intervals, mode \in {"sequential", "random"} :
              SetAutoAdvance(on, i, mode)
         \/ ResetPrefs
  BY DEF Command, cycleVars
<1> DEFINE Kept == /\ ram' \in Prefs /\ nvs' \in Prefs
                   /\ ram'.interval \in MinInterval .. MaxInterval
                   /\ pending' \in Pages \cup {None}
                   /\ dirty' \in BOOLEAN /\ byReset' \in BOOLEAN
                   /\ Agree'
                   /\ \/ ram' = ram /\ dirty' = dirty /\ byReset' = byReset
                      \/ dirty' = TRUE
                      \/ byReset' = TRUE
<1>7. Kept
  <2>2. CASE \E id \in Pages : ShowPage(id)
    <3>1. UNCHANGED <<ram, nvs, dirty, byReset>> /\ pending' \in Pages
      BY <2>2 DEF ShowPage
    <3> QED  BY <3>1 DEF TypeOK, Agree
  <2>3. CASE \E m \in Masks : SetPagesEnabled(m)
    <3>1. PICK m \in Masks : SetPagesEnabled(m)
      BY <2>3
    <3>2. /\ ram' = [ram EXCEPT !.mask = m] /\ nvs' = [nvs EXCEPT !.mask = m]
          /\ dirty' = TRUE /\ UNCHANGED <<pending, byReset>> /\ m \in SUBSET Pages
      BY <3>1, PageAssumption DEF SetPagesEnabled
    <3>3. /\ ram' \in Prefs /\ nvs' \in Prefs /\ ram'.interval = ram.interval
          /\ ram'.mask = m /\ nvs'.mask = m
          /\ ram'.order = ram.order /\ nvs'.order = nvs.order
      BY <3>2 DEF TypeOK, Prefs
    <3>4. Agree'
      BY <3>3 DEF Agree, Clean
    <3> QED  BY <3>2, <3>3, <3>4 DEF TypeOK
  <2>4. CASE \E list \in Orders : SetPagesOrder(list)
    <3>1. PICK list \in Orders : SetPagesOrder(list)
      BY <2>4
    <3> DEFINE o == OrderFrom(list)
    <3>2. /\ ram' = [ram EXCEPT !.order = o] /\ nvs' = [nvs EXCEPT !.order = o]
          /\ dirty' = TRUE /\ UNCHANGED <<pending, byReset>>
      BY <3>1 DEF SetPagesOrder
    <3>o. o \in [Slots -> Pages \cup {None}] /\ Clean(o)
      BY OrderType
    <3> HIDE DEF o
    <3>3. /\ ram' \in Prefs /\ nvs' \in Prefs /\ ram'.interval = ram.interval
          /\ ram'.order = o /\ nvs'.order = o
          /\ ram'.mask = ram.mask /\ nvs'.mask = nvs.mask
      BY <3>2, <3>o DEF TypeOK, Prefs
    <3>4. Agree'
      BY <3>3, <3>o DEF Agree, Clean
    <3> QED  BY <3>2, <3>3, <3>4 DEF TypeOK
  <2>5. CASE \E on \in BOOLEAN, i \in Intervals, mode \in {"sequential", "random"} :
               SetAutoAdvance(on, i, mode)
    <3>1. PICK on \in BOOLEAN, i \in Intervals, mode \in {"sequential", "random"} :
            SetAutoAdvance(on, i, mode)
      BY <2>5
    <3> DEFINE k == Clamp(i)
    <3>2. /\ ram' = [ram EXCEPT !.on = on, !.interval = k, !.mode = mode]
          /\ nvs' = [nvs EXCEPT !.on = on, !.interval = k, !.mode = mode]
          /\ dirty' = TRUE /\ UNCHANGED <<pending, byReset>>
      BY <3>1 DEF SetAutoAdvance
    <3>c. k \in MinInterval .. MaxInterval /\ k \in Nat
      BY ClampType, PageAssumption
    <3> HIDE DEF k
    <3>3. /\ ram' \in Prefs /\ nvs' \in Prefs /\ ram'.interval = k
          /\ ram'.order = ram.order /\ nvs'.order = nvs.order
          /\ ram'.mask = ram.mask /\ nvs'.mask = nvs.mask
      BY <3>2, <3>c DEF TypeOK, Prefs
    <3>4. Agree'
      BY <3>3 DEF Agree, Clean
    <3> QED  BY <3>2, <3>3, <3>4, <3>c DEF TypeOK
  <2>6. CASE ResetPrefs
    <3>1. NoOrder \in [Slots -> Pages \cup {None}] /\ Clean(NoOrder) /\ None \notin Deprecated
      BY PageAssumption DEF NoOrder, Clean, None, Pages
    <3>2. /\ nvs' \in Prefs /\ nvs'.mask = {} /\ nvs'.order = NoOrder
      BY <2>6, <3>1, PageAssumption DEF ResetPrefs, Defaults, Prefs
    <3>3. /\ ram' \in Prefs /\ ram'.mask = {} /\ ram'.order = NoOrder
          /\ ram'.interval = ram.interval
      BY <2>6, <3>1 DEF ResetPrefs, Prefs, TypeOK
    <3>4. Agree'
      BY <3>1, <3>2, <3>3 DEF Agree, NoOrder
    <3> QED  BY <2>6, <3>2, <3>3, <3>4 DEF TypeOK, ResetPrefs
  <2> QED  BY <1>1, <2>2, <2>3, <2>4, <2>5, <2>6
<1>8. TypeOK'
  BY <1>1, <1>7 DEF TypeOK
<1>9. BagFollowsSettings'
  BY <1>1, <1>7 DEF BagFollowsSettings, VisibleSlots, PageAt, PageEnabled
<1> QED  BY <1>1, <1>7, <1>8, <1>9

\* A turn of loop() keeps the invariant.
LEMMA TickInv ==
  ASSUME Inv, NEW ev \in {"none", "short", "long"}, Tick(ev)
  PROVE  Inv'
<1>1. /\ slot' \in Slots /\ bag' \in Seq(Slots) /\ Len(bag') < PageCount
      /\ wipe' \in Wipes /\ elapsed' \in 0 .. MaxInterval
      /\ ~byReset \/ dirty \/ bag = <<>>
           => \A i \in 1 .. Len(bag') : bag'[i] \in VisibleSlots(ram)
  BY TickStep DEF Inv
<1>2. /\ UNCHANGED <<ram, nvs, held, overlay, reboots>> /\ pending' = None /\ dirty' = FALSE
      /\ byReset' = (byReset /\ ~dirty /\ bag # <<>>)
  BY DEF Tick
<1>3. calm' \in 0 .. MaxInterval
  BY PageAssumption DEF Tick, Inv, TypeOK
<1>4. TypeOK'
  BY <1>1, <1>2, <1>3 DEF Inv, TypeOK, Wipes
<1>5. ~byReset' => ~byReset \/ dirty \/ bag = <<>>
  BY <1>2, Zenon
<1>6. BagFollowsSettings'
  BY <1>1, <1>2, <1>5 DEF BagFollowsSettings, VisibleSlots, PageAt, PageEnabled
<1>7. Agree'
  BY <1>2 DEF Inv, Agree
<1> QED  BY <1>2, <1>4, <1>6, <1>7 DEF Inv

\* So do the clock, the holds and the overlay.
LEMMA OthersInv == ASSUME Inv, Elapse \/ Hold \/ OtaOverlay PROVE Inv'
<1>1. UNCHANGED <<ram, nvs, dirty, pending, slot, bag, byReset, reboots>>
  BY DEF Elapse, Hold, OtaOverlay, cycleVars
<1>2. /\ wipe' \in {"none", "running", "elapsed"}
      /\ elapsed' \in 0 .. MaxInterval /\ calm' \in 0 .. MaxInterval
      /\ held' \in BOOLEAN /\ overlay' \in BOOLEAN
  <2>1. CASE Elapse
    <3>1. /\ elapsed' = Later(elapsed) /\ calm' = Later(calm)
          /\ wipe' = (IF wipe = "running" THEN "elapsed" ELSE wipe) /\ UNCHANGED <<held, overlay>>
      BY <2>1 DEF Elapse
    <3> QED  BY <3>1, PageAssumption DEF Inv, TypeOK, Later
  <2>2. CASE Hold
    <3>1. held' = ~held /\ UNCHANGED <<wipe, elapsed, calm, overlay>>
      BY <2>2 DEF Hold, cycleVars
    <3> QED  BY <3>1 DEF Inv, TypeOK
  <2>3. CASE OtaOverlay
    <3>1. overlay' = TRUE /\ UNCHANGED <<wipe, elapsed, calm, held>>
      BY <2>3 DEF OtaOverlay, cycleVars
    <3> QED  BY <3>1 DEF Inv, TypeOK
  <2> QED  BY <2>1, <2>2, <2>3
<1>3. TypeOK'
  BY <1>1, <1>2 DEF Inv, TypeOK
<1>4. BagFollowsSettings'
  BY <1>1 DEF Inv, BagFollowsSettings
<1>5. Agree'
  BY <1>1 DEF Inv, Agree
<1> QED  BY <1>1, <1>3, <1>4, <1>5 DEF Inv

\* Every step keeps the invariant.
LEMMA NextInv == Inv /\ [Next]_vars => Inv'
<1> SUFFICES ASSUME Inv, [Next]_vars PROVE Inv'
  OBVIOUS
<1>1. CASE Command
  BY <1>1, CommandInv
<1>2. ASSUME NEW ev \in {"none", "short", "long"}, Tick(ev) PROVE Inv'
  BY <1>2, TickInv
<1>3. CASE Elapse \/ Hold \/ OtaOverlay
  BY <1>3, OthersInv
<1>4. CASE Reboot
  <2>1. nvs \in Prefs /\ StartUp(nvs) /\ UNCHANGED nvs /\ reboots' \in Nat
    BY <1>4 DEF Reboot, Inv, TypeOK
  <2> QED  BY <2>1, StartUpInv
<1>5. CASE UNCHANGED vars
  BY <1>5 DEF vars, cycleVars, Inv, TypeOK, BagFollowsSettings, Agree
<1> QED  BY <1>1, <1>2, <1>3, <1>4, <1>5 DEF Next

\* The invariant holds in every behaviour of the device.
THEOREM Invariance == Spec => []Inv
<1> QED  BY InitInv, NextInv, PTL DEF Spec

-----------------------------------------------------------------------------
\* Whatever preferences flash holds and commands bring, every variable keeps
\* its type and the interval in force stays within its bounds.
THEOREM TypeCorrect == Spec => []TypeOK
<1>1. Inv => TypeOK
  BY DEF Inv
<1> QED  BY Invariance, <1>1, PTL

\* Once the loop has seen a change of settings, the bag hands out slots of
\* enabled pages only, for any number of pages and any shuffle.
THEOREM BagIsFresh == Spec => []BagFollowsSettings
<1>1. Inv => BagFollowsSettings
  BY DEF Inv
<1> QED  BY Invariance, <1>1, PTL

\* A reset at any moment brings back the cycle that was in force.
THEOREM CycleSurvives == Spec => []RebootKeepsCycle
<1>1. Inv => RebootKeepsCycle
  <2> SUFFICES ASSUME Inv, ~(ram.mask # {} /\ ram.mask \subseteq Deprecated)
               PROVE  /\ VisibleSlots(Restore(nvs)) = VisibleSlots(ram)
                      /\ \A s \in Slots : PageAt(Restore(nvs), s) = PageAt(ram, s)
    BY DEF RebootKeepsCycle
  <2> DEFINE r == Restore(nvs)
  <2>1. r.mask = ram.mask \ Deprecated /\ (r.mask = {} <=> ram.mask = {})
    BY RestoreType DEF Inv, Agree, TypeOK
  <2>2. \A s \in Slots : r.order[s] = ram.order[s]
    BY RestoreType DEF Inv, Agree, TypeOK
  <2> HIDE DEF r
  <2>3. \A s \in Slots : PageAt(r, s) = PageAt(ram, s)
    BY <2>2 DEF PageAt
  <2>4. \A id : PageEnabled(r, id) <=> PageEnabled(ram, id)
    BY <2>1 DEF PageEnabled
  <2>5. VisibleSlots(r) = VisibleSlots(ram)
    BY <2>3, <2>4 DEF VisibleSlots
  <2> QED  BY <2>3, <2>5 DEF r
<1> QED  BY Invariance, <1>1, PTL

\* The button and the timer, in either mode, never leave the user on a page
\* that is switched off while another is on.
THEOREM WalksLand == Spec => WalksLandEnabled
<1>1. Inv /\ [Next]_vars
        => [slot' # slot /\ pending = None /\ reboots' = reboots /\ ~byReset
              /\ VisibleSlots(ram) # {} => slot' \in VisibleSlots(ram)]_vars
  <2> SUFFICES ASSUME Inv, Next, slot' # slot, pending = None, reboots' = reboots,
                      ~byReset, VisibleSlots(ram) # {}
               PROVE  slot' \in VisibleSlots(ram)
    OBVIOUS
  <2>1. ASSUME NEW ev \in {"none", "short", "long"}, Tick(ev)
        PROVE  slot' \in VisibleSlots(ram)
    BY <2>1, TickStep DEF Inv
  <2>2. ~Command /\ ~Elapse /\ ~Hold /\ ~OtaOverlay
    BY DEF Command, Elapse, Hold, OtaOverlay, cycleVars
  <2>3. ~Reboot
    BY DEF Reboot, Inv
  <2> QED  BY <2>1, <2>2, <2>3 DEF Next
<1> QED  BY Invariance, <1>1, PTL DEF Spec, WalksLandEnabled

-----------------------------------------------------------------------------
(* A full interval for the page the user chose                             *)

\* The timer has run no longer than the user has left the page alone.
Calm == elapsed <= calm

\* A reset starts the timer anew and finds nobody waiting.
LEMMA StartUpCalm == ASSUME NEW n, StartUp(n) PROVE Calm'
  BY PageAssumption DEF StartUp, Calm

\* Every step keeps the timer within the calm.
LEMMA NextCalm == Inv /\ Calm /\ [Next]_vars => Calm'
<1> SUFFICES ASSUME Inv, Calm, [Next]_vars PROVE Calm'
  OBVIOUS
<1>0. elapsed \in 0 .. MaxInterval /\ calm \in 0 .. MaxInterval
  BY DEF Inv, TypeOK
<1>1. CASE UNCHANGED <<elapsed, calm>>
  BY <1>1 DEF Calm
<1>2. CASE Command \/ Hold \/ OtaOverlay \/ UNCHANGED vars
  BY <1>1, <1>2 DEF Command, Hold, OtaOverlay, vars, cycleVars
<1>3. ASSUME NEW ev \in {"none", "short", "long"}, Tick(ev) PROVE Calm'
  <2>1. /\ elapsed' \in {0, elapsed}
        /\ (calm' = 0 /\ elapsed' = 0) \/ calm' = calm
    BY <1>3, TickStep DEF Inv
  <2> QED  BY <2>1, <1>0 DEF Calm
<1>4. CASE Elapse
  <2>1. elapsed' = Later(elapsed) /\ calm' = Later(calm)
    BY <1>4 DEF Elapse
  <2> QED  BY <2>1, <1>0, PageAssumption DEF Calm, Later
<1>5. CASE Reboot
  BY <1>5, StartUpCalm DEF Reboot
<1> QED  BY <1>2, <1>3, <1>4, <1>5 DEF Next

\* The timer never takes a page away sooner than the interval in force after
\* the user chose it, whatever settings arrive in between.
THEOREM PageStaysFullInterval == Spec => ManualGetsFullInterval
<1>1. Init => Calm
  BY PageAssumption DEF Init, Calm
<1>2. Inv /\ Calm /\ [Next]_vars
        => [slot' # slot /\ calm' # 0 /\ reboots' = reboots => calm' >= ram.interval]_vars
  <2> SUFFICES ASSUME Inv, Calm, Next, slot' # slot, calm' # 0, reboots' = reboots
               PROVE  calm' >= ram.interval
    OBVIOUS
  <2>1. ASSUME NEW ev \in {"none", "short", "long"}, Tick(ev)
        PROVE  calm' >= ram.interval
    <3>1. calm' = calm /\ elapsed >= ram.interval
      BY <2>1, TickStep DEF Inv
    <3>2. elapsed \in Int /\ calm \in Int /\ ram.interval \in Int
      BY DEF Inv, TypeOK
    <3> QED  BY <3>1, <3>2 DEF Calm
  <2>2. ~Command /\ ~Elapse /\ ~Hold /\ ~OtaOverlay
    BY DEF Command, Elapse, Hold, OtaOverlay, cycleVars
  <2>3. ~Reboot
    BY DEF Reboot, Inv
  <2> QED  BY <2>1, <2>2, <2>3 DEF Next
<1> QED  BY Invariance, <1>1, <1>2, NextCalm, PTL DEF Spec, ManualGetsFullInterval
=============================================================================
