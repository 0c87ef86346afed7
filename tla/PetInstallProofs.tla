------------------------- MODULE PetInstallProofs --------------------------
(***************************************************************************)
(* Proofs about PetInstall and the PetStore in it.                         *)
(*                                                                         *)
(* The device keeps DeviceInv under any commands of the kinds it knows, in *)
(* any order.  That its pets are whole needs the order as well: installs   *)
(* come one at a time, the start of an install is the last one under way   *)
(* when it is queued, and the agent sends no chunk before the device has   *)
(* handled it, so every chunk meets the session of its own install or none *)
(* (Order).  PetInv is the inductive invariant.                            *)
(***************************************************************************)
EXTENDS PetInstall, FiniteSetTheorems, SequenceTheorems, WellFoundedInduction, TLAPS

-----------------------------------------------------------------------------
(* The device, under any commands of the kinds it can be sent              *)

Files == Seq(Blocks) \cup {NoFile}
Disks == [tmp : [Names -> Files], dpet : [Names -> Files]]

Types ==
  /\ disk \in Disks
  /\ prefs \in Names \cup {"default"}
  /\ fs \in {"unmounted", "ready", "broken"}
  /\ s_install_active \in BOOLEAN
  /\ s_install_slug \in Names \cup {""}
  /\ s_install_file \in Pets \cup {"none"}
  /\ s_install_total \in Nat /\ s_install_received \in Nat
  /\ s_install_expected_seq = s_install_received
  /\ s_active_slug \in Names \cup {"default"}
  /\ s_src \in {Embedded, Nothing} \/ s_src.file \in Names
  /\ unread \in BOOLEAN /\ answer \in BOOLEAN

\* A session is open only on a mounted file system; its file is that of the
\* slug it was started with, and holds what was counted.
Session ==
  /\ s_install_active => /\ fs = "ready" /\ s_install_slug \in Names
                         /\ s_install_total # 0
                         /\ s_install_file = "none" => s_install_received = 0
  /\ s_install_file # "none" =>
       /\ s_install_active
       /\ s_install_slug = Kept[s_install_file] /\ s_install_total = Size[s_install_file]
       /\ disk.tmp[s_install_file] \in Seq(Blocks)
       /\ Len(disk.tmp[s_install_file]) = s_install_received

\* Only a slug that can be asked for has a .tmp, only one that is not cut a .dpet.
Named(d) ==
  \A n \in Names : /\ d.tmp[n] # NoFile => n \in Pets
                   /\ d.dpet[n] # NoFile => n \in Pets /\ Kept[n] = n

DeviceInv == Types /\ Session /\ Named(disk) /\ RebootShowsSame

\* The slugs that can be asked for, and what the device keeps of them.
LEMMA NamesFacts ==
  /\ Pets \subseteq Names
  /\ "default" \notin Names /\ "none" \notin Names
  /\ "embedded" \notin Names /\ "nothing" \notin Names
  /\ "none" \notin Pets
  /\ \A p \in Pets : /\ p \in Names /\ Kept[p] \in Names /\ Kept[p] \in Pets => Kept[p] = p
                     /\ Size[p] \in Nat /\ Size[p] # 0
  /\ \A n \in Names : Kept[n] \in Names
BY PetAssumption

\* A file is written.
PutTmp(d, n, f)  == [d EXCEPT !.tmp[n] = f]
PutDpet(d, n, f) == [d EXCEPT !.dpet[n] = f]

\* A write changes that file and no other.
LEMMA WriteFacts ==
  ASSUME NEW d \in Disks, NEW n \in Names, NEW f \in Files
  PROVE  /\ PutTmp(d, n, f) \in Disks
         /\ PutTmp(d, n, f).dpet = d.dpet
         /\ PutTmp(d, n, f).tmp[n] = f
         /\ \A m \in Names : m = n \/ PutTmp(d, n, f).tmp[m] = d.tmp[m]
         /\ PutDpet(d, n, f) \in Disks
         /\ PutDpet(d, n, f).tmp = d.tmp
         /\ PutDpet(d, n, f).dpet[n] = f
         /\ \A m \in Names : m = n \/ PutDpet(d, n, f).dpet[m] = d.dpet[m]
BY DEF Disks, PutTmp, PutDpet

\* A file is removed.
LEMMA DropFacts ==
  ASSUME NEW d \in Disks, NEW n \in Names
  PROVE  /\ PutTmp(d, n, NoFile) \in Disks
         /\ PutTmp(d, n, NoFile).dpet = d.dpet
         /\ PutTmp(d, n, NoFile).tmp[n] = NoFile
         /\ \A m \in Names : m = n \/ PutTmp(d, n, NoFile).tmp[m] = d.tmp[m]
         /\ PutDpet(d, n, NoFile) \in Disks
         /\ PutDpet(d, n, NoFile).tmp = d.tmp
         /\ PutDpet(d, n, NoFile).dpet[n] = NoFile
         /\ \A m \in Names : m = n \/ PutDpet(d, n, NoFile).dpet[m] = d.dpet[m]
<1> DEFINE f == NoFile
<1>1. f \in Files
  BY DEF Files
<1> HIDE DEF f
<1>2. /\ PutTmp(d, n, f) \in Disks
      /\ PutTmp(d, n, f).dpet = d.dpet
      /\ PutTmp(d, n, f).tmp[n] = f
      /\ \A m \in Names : m = n \/ PutTmp(d, n, f).tmp[m] = d.tmp[m]
      /\ PutDpet(d, n, f) \in Disks
      /\ PutDpet(d, n, f).tmp = d.tmp
      /\ PutDpet(d, n, f).dpet[n] = f
      /\ \A m \in Names : m = n \/ PutDpet(d, n, f).dpet[m] = d.dpet[m]
  BY <1>1, WriteFacts
<1>3. QED  BY <1>2 DEF f

\* An empty disk.
LEMMA EmptyFacts ==
  /\ Empty \in Disks /\ Named(Empty)
  /\ \A n \in Names : Empty.dpet[n] = NoFile /\ Empty.tmp[n] = NoFile
  /\ \A n \in Names : ~Loads(Empty.dpet[n])
BY DEF Empty, Disks, Files, Named, Loads, HasHeader

\* What mounting does to the disk and to the state of the file system.
LEMMA MountFacts ==
  ASSUME DeviceInv, NEW r \in MountResults(fs), Ensured(r)
  PROVE  /\ fs' \in {"ready", "broken"} /\ (fs' = "broken" <=> r = "broken")
         /\ Mounted(r) \in Disks /\ Named(Mounted(r))
         /\ s_install_active => r = "ready" /\ Mounted(r) = disk /\ fs' = "ready"
         /\ \A n \in Names : Mounted(r).dpet[n] \in {disk.dpet[n], NoFile}
         /\ fs = "broken" => r = "broken"
         /\ r \in {"ready", "formatted", "broken"}
BY EmptyFacts DEF DeviceInv, Types, Session, MountResults, Ensured, Mounted

\* Making a pet the active one over disk d, whose files have their own names.
LEMMA ShowsFacts ==
  ASSUME Types, NEW d \in Disks, Named(d), NEW slug \in Names \cup {"default"},
         NEW load \in Loadings, Shows(Activated(d, slug, load)),
         s_src.file \in Names => prefs = s_src.file
  PROVE  /\ prefs' \in Names \cup {"default"} /\ s_active_slug' \in Names \cup {"default"}
         /\ s_src' \in {Embedded, Nothing} \/ s_src'.file \in Names
         /\ unread' \in BOOLEAN
         /\ s_src'.file \in Names => prefs' = s_src'.file
         /\ s_src' = Embedded /\ ~unread' =>
              \/ prefs' = "default"
              \/ /\ s_src = Embedded /\ ~unread /\ prefs' = prefs /\ slug \in Names
                 /\ slug = prefs => ~Loads(d.dpet[slug])
<1>0. Nothing # Embedded /\ Nothing.file \notin Names /\ Embedded.file \notin Names
  BY NamesFacts DEF Nothing, Embedded
<1>1. CASE slug = "default"
  BY <1>0, <1>1, NamesFacts DEF Shows, Activated
<1>2. CASE slug # "default" /\ Loads(d.dpet[slug]) /\ load = "works"
  <2>1. Kept[slug] = slug /\ slug \in Names
    BY <1>2 DEF Loads, HasHeader, Named
  <2>2. /\ prefs' = slug /\ s_active_slug' = slug /\ unread' = FALSE
        /\ s_src' = [file |-> slug, image |-> d.dpet[slug]]
    BY <1>2, <2>1 DEF Shows, Activated
  <2>3. s_src'.file = slug /\ s_src' # Embedded
    BY <2>1, <2>2, NamesFacts DEF Embedded
  <2>4. QED  BY <2>1, <2>2, <2>3
<1>3. CASE slug # "default" /\ ~(Loads(d.dpet[slug]) /\ load = "works")
  <2> DEFINE whole == Loads(d.dpet[slug])
             again == unread \/ (slug = prefs /\ whole)
             src   == IF whole /\ load = "lost" THEN Nothing ELSE s_src
  <2>1. Activated(d, slug, load) =
          [ok |-> FALSE, slug |-> s_active_slug, src |-> src, unread |-> again]
    BY <1>3, Zenon DEF Activated
  <2>3. again \in BOOLEAN /\ (~again => ~unread /\ (slug = prefs => ~Loads(d.dpet[slug])))
    BY Zenon DEF again, Types
  <2>4. src \in {s_src, Nothing}
    BY DEF src
  <2> HIDE DEF again, src
  <2>2. prefs' = prefs /\ s_active_slug' = s_active_slug /\ s_src' = src /\ unread' = again
    BY <2>1 DEF Shows
  <2>5. /\ unread' \in BOOLEAN
        /\ ~unread' => ~unread /\ (slug = prefs => ~Loads(d.dpet[slug]))
    BY <2>2, <2>3, Zenon
  <2>6. slug \in Names /\ (s_src' = Embedded => s_src = Embedded)
    BY <1>0, <1>3, <2>2, <2>4
  <2>7. /\ prefs' \in Names \cup {"default"} /\ s_active_slug' \in Names \cup {"default"}
        /\ s_src' \in {Embedded, Nothing} \/ s_src'.file \in Names
        /\ s_src'.file \in Names => prefs' = s_src'.file
    BY <1>0, <2>2, <2>4 DEF Types
  <2>8. s_src' = Embedded /\ ~unread' =>
          /\ s_src = Embedded /\ ~unread /\ prefs' = prefs /\ slug \in Names
          /\ slug = prefs => ~Loads(d.dpet[slug])
    BY <2>2, <2>5, <2>6, Zenon
  <2>9. QED  BY <2>5, <2>7, <2>8
<1>4. QED  BY <1>1, <1>2, <1>3

\* A device that was never used.
LEMMA InitDevice == Init => DeviceInv
<1> SUFFICES ASSUME Init PROVE DeviceInv
  OBVIOUS
<1>1. Types
  BY EmptyFacts, NamesFacts DEF Init, Types
<1>2. Session
  BY DEF Init, Session
<1>3. Named(disk) /\ RebootShowsSame
  BY EmptyFacts, NamesFacts DEF Init, RebootShowsSame, Embedded
<1>4. QED  BY <1>1, <1>2, <1>3 DEF DeviceInv

\* What is drawn is still right when a .dpet it did not come from is all that
\* changed, or a .dpet went.
LEMMA SameLook ==
  ASSUME DeviceInv, UNCHANGED look, fs' = "broken" \/ fs # "broken",
         \A n \in Names : disk'.dpet[n] \in {disk.dpet[n], NoFile}
  PROVE  RebootShowsSame'
<1>1. prefs' = prefs /\ s_src' = s_src /\ prefs \in Names \cup {"default"}
  BY DEF look, DeviceInv, Types
<1>2. s_src'.file \in Names => prefs' = s_src'.file
  BY <1>1 DEF DeviceInv, RebootShowsSame
<1>3. ASSUME s_src' = Embedded, fs' # "broken", ~unread', prefs # "default"
      PROVE  ~Loads(disk'.dpet[prefs])
  <2>0. ~unread
    BY <1>3, Zenon DEF look
  <2>1. ~Loads(disk.dpet[prefs]) /\ prefs \in Names
    BY <1>1, <1>3, <2>0 DEF DeviceInv, RebootShowsSame
  <2>2. ~Loads(NoFile)
    BY DEF Loads, HasHeader
  <2>3. QED  BY <2>1, <2>2
<1>4. QED  BY <1>1, <1>2, <1>3 DEF RebootShowsSame

\* A start.
LEMMA StartDevice ==
  ASSUME DeviceInv, NEW slug \in Pets, PetInstallStart(slug, Size[slug])
  PROVE  /\ DeviceInv'
         /\ s_install_file' \in {s_install_file, slug, "none"}
         /\ answer' => /\ s_install_file' \in {slug, "none"}
         /\ s_install_file' # "none" => \/ s_install_file' = slug /\ s_install_received' = 0
                                        \/ UNCHANGED <<disk, session>>
         /\ \A n \in Names : disk'.dpet[n] \in {disk.dpet[n], NoFile}
<1>0. slug \in Names /\ Size[slug] \in Nat /\ Size[slug] # 0 /\ slug # "none" /\ Kept[slug] \in Names
  BY NamesFacts
<1>1. CASE StartUnmounted
  <2>1. PICK r \in MountResults(fs) : r = "broken" /\ Ensured(r) /\ Answers(FALSE) /\ UNCHANGED <<disk, session, look>>
    BY <1>1 DEF StartUnmounted
  <2>2. fs' = "broken" /\ ~s_install_active
    BY <2>1, MountFacts
  <2>3. RebootShowsSame'
    BY <2>1, <2>2, SameLook
  <2>4. Types' /\ Session' /\ Named(disk)'
    BY <2>1, <2>2 DEF DeviceInv, Types, Session, session, look, Answers
  <2>5. QED  BY <2>1, <2>3, <2>4 DEF DeviceInv, Answers, session
<1>2. CASE StartMounted(slug, Size[slug])
  <2>1. PICK r \in MountResults(fs), opens \in BOOLEAN :
          /\ r # "broken" /\ Ensured(r)
          /\ s_install_slug' = Kept[slug] /\ s_install_total' = Size[slug]
          /\ s_install_received' = 0 /\ s_install_expected_seq' = 0
          /\ IF opens THEN /\ disk' = [Mounted(r) EXCEPT !.tmp[slug] = <<>>]
                           /\ s_install_file' = slug /\ s_install_active' = TRUE
                      ELSE /\ disk' = Mounted(r) /\ s_install_file' = "none"
                           /\ UNCHANGED s_install_active
          /\ Answers(opens) /\ UNCHANGED look
    BY <1>2 DEF StartMounted
  <2>2. /\ fs' = "ready" /\ Mounted(r) \in Disks /\ Named(Mounted(r)) /\ fs # "broken"
        /\ \A n \in Names : Mounted(r).dpet[n] \in {disk.dpet[n], NoFile}
    BY <2>1, MountFacts
  <2>3. /\ disk' \in Disks /\ disk'.dpet = Mounted(r).dpet
        /\ opens => disk'.tmp[slug] = <<>>
        /\ \A n \in Names : disk'.tmp[n] = Mounted(r).tmp[n] \/ n = slug
    <3>1. <<>> \in Files /\ <<>> \in Seq(Blocks)
      BY EmptySeq DEF Files
    <3>2. CASE opens
      <4>1. disk' = PutTmp(Mounted(r), slug, <<>>)
        BY <2>1, <3>2 DEF PutTmp
      <4>2. /\ disk' \in Disks /\ disk'.dpet = Mounted(r).dpet /\ disk'.tmp[slug] = <<>>
            /\ \A m \in Names : m = slug \/ disk'.tmp[m] = Mounted(r).tmp[m]
        <5> DEFINE d == Mounted(r)
                   f == <<>>
        <5>1. slug \in Names /\ d \in Disks /\ f \in Files /\ disk' = PutTmp(d, slug, f)
          BY <1>0, <2>2, <3>1, <4>1
        <5> HIDE DEF d, f
        <5>2. QED  BY <5>1, WriteFacts DEF d, f
      <4>3. QED  BY <4>2
    <3>3. CASE ~opens
      BY <2>1, <2>2, <3>3
    <3>4. QED  BY <3>2, <3>3
  <2>4. Named(disk)'
    BY <2>2, <2>3 DEF Named
  <2>5. RebootShowsSame'
    BY <2>1, <2>2, <2>3, SameLook
  <2>6. Types'
    BY <1>0, <2>1, <2>2, <2>3 DEF DeviceInv, Types, Answers, look
  <2>7. Session'
    <3>1. Len(<<>>) = 0 /\ <<>> \in Seq(Blocks)
      BY EmptySeq
    <3>2. CASE opens
      BY <1>0, <2>1, <2>2, <2>3, <3>1, <3>2 DEF Session
    <3>3. CASE ~opens
      BY <1>0, <2>1, <2>2, <3>3 DEF Session
    <3>4. QED  BY <3>2, <3>3
  <2>8. QED  BY <2>1, <2>2, <2>3, <2>4, <2>5, <2>6, <2>7 DEF DeviceInv, Answers
<1>3. QED  BY <1>1, <1>2 DEF PetInstallStart

\* A chunk: refused, or written behind the others.
LEMMA ChunkDevice ==
  ASSUME DeviceInv, NEW s \in Nat, NEW b \in Blocks, PetInstallChunk(s, b)
  PROVE  /\ DeviceInv' /\ disk'.dpet = disk.dpet
         /\ s_install_file' # "none" =>
              /\ s_install_file' = s_install_file /\ s = s_install_received
              /\ s_install_received' = s_install_received + 1
              /\ \A i \in 1 .. s_install_received :
                   disk'.tmp[s_install_file][i] = disk.tmp[s_install_file][i]
              /\ disk'.tmp[s_install_file][s + 1] = b
<1>1. CASE ChunkWithoutStart
  <2>1. UNCHANGED <<disk, fs, session, look>> /\ answer' = FALSE /\ s_install_file = "none"
    BY <1>1 DEF ChunkWithoutStart, Answers, DeviceInv, Session
  <2>2. RebootShowsSame'
    BY <2>1, SameLook
  <2>3. QED  BY <2>1, <2>2 DEF DeviceInv, Types, Session, session, look
<1>2. CASE ChunkRefused(s)
  <2>1. UNCHANGED <<disk, fs, look>> /\ answer' = FALSE /\ SessionClosed
    BY <1>2 DEF ChunkRefused, Answers
  <2>2. RebootShowsSame'
    BY <2>1, SameLook
  <2>3. QED  BY <2>1, <2>2 DEF DeviceInv, Types, Session, SessionClosed, look
<1>3. CASE ChunkWritten(s, b)
  <2> DEFINE n == s_install_file
             f == disk.tmp[n]
             g == Append(f, b)
  <2>1. /\ s_install_active /\ n # "none" /\ s = s_install_received
        /\ disk' = [disk EXCEPT !.tmp[n] = Append(@, b)]
        /\ s_install_received' = s_install_received + 1
        /\ s_install_expected_seq' = s_install_expected_seq + 1
        /\ answer' = TRUE
        /\ UNCHANGED <<fs, look, s_install_active, s_install_slug, s_install_file, s_install_total>>
    BY <1>3 DEF ChunkWritten, OutOfOrder, Answers, DeviceInv, Types
  <2>2. n \in Pets /\ n \in Names /\ f \in Seq(Blocks) /\ Len(f) = s_install_received /\ disk \in Disks
    BY <2>1, NamesFacts DEF DeviceInv, Types, Session
  <2>3. disk' = PutTmp(disk, n, g)
    BY <2>1, <2>2 DEF PutTmp, Disks
  <2>4. /\ g \in Seq(Blocks) /\ Len(g) = s_install_received + 1 /\ g[s + 1] = b
        /\ \A i \in 1 .. s_install_received : g[i] = f[i]
    BY <2>1, <2>2, AppendProperties
  <2> HIDE DEF g, n, f
  <2>5. /\ disk' \in Disks /\ disk'.dpet = disk.dpet /\ disk'.tmp[n] = g
        /\ \A m \in Names : m = n \/ disk'.tmp[m] = disk.tmp[m]
    <3>1. g \in Files
      BY <2>4 DEF Files
    <3>2. QED  BY <2>2, <2>3, <3>1, WriteFacts
  <2>6. RebootShowsSame'
    BY <2>1, <2>5, SameLook
  <2>7. Types'
    <3>1. UNCHANGED <<prefs, s_active_slug, s_src, unread>>
      BY <2>1 DEF look
    <3>2. Types
      BY Zenon DEF DeviceInv, Types
    <3>3. s_install_received + 1 \in Nat
      <4>1. s_install_received \in Nat
        BY <3>2, Zenon DEF Types
      <4>2. QED  BY <4>1
    <3>4. QED  BY <2>1, <2>5, <3>1, <3>2, <3>3 DEF Types
  <2>8. Session'
    BY <2>1, <2>4, <2>5 DEF DeviceInv, Session, n
  <2>9. Named(disk)'
    BY <2>2, <2>5 DEF DeviceInv, Named
  <2>10. QED  BY <2>1, <2>4, <2>5, <2>6, <2>7, <2>8, <2>9 DEF DeviceInv, n, f
<1>4. QED  BY <1>1, <1>2, <1>3 DEF PetInstallChunk

\* A pet is made the active one over disk d, and what else the disk holds stays
\* or goes.
LEMMA NewLook ==
  ASSUME DeviceInv, NEW d \in Disks, Named(d), NEW slug \in Names \cup {"default"},
         NEW load \in Loadings, Shows(Activated(d, slug, load)), fs' = "broken" \/ fs # "broken",
         \A n \in Names : disk'.dpet[n] \in {disk.dpet[n], NoFile} \/ n = slug,
         slug \in Names => fs' = "broken" \/ disk'.dpet[slug] = d.dpet[slug]
  PROVE  /\ RebootShowsSame'
         /\ prefs' \in Names \cup {"default"} /\ s_active_slug' \in Names \cup {"default"}
         /\ s_src' \in {Embedded, Nothing} \/ s_src'.file \in Names
         /\ unread' \in BOOLEAN
<1>0. /\ Types /\ (s_src.file \in Names => prefs = s_src.file)
      /\ (s_src = Embedded /\ fs # "broken" /\ ~unread => prefs = "default" \/ ~Loads(disk.dpet[prefs]))
  BY DEF DeviceInv, RebootShowsSame
<1>1. /\ prefs' \in Names \cup {"default"} /\ s_active_slug' \in Names \cup {"default"}
      /\ s_src' \in {Embedded, Nothing} \/ s_src'.file \in Names
      /\ unread' \in BOOLEAN
      /\ s_src'.file \in Names => prefs' = s_src'.file
      /\ s_src' = Embedded /\ ~unread' =>
           \/ prefs' = "default"
           \/ /\ s_src = Embedded /\ ~unread /\ prefs' = prefs /\ slug \in Names
              /\ slug = prefs => ~Loads(d.dpet[slug])
  BY <1>0, ShowsFacts
<1>2. ASSUME s_src' = Embedded, fs' # "broken", ~unread', prefs' # "default"
      PROVE  ~Loads(disk'.dpet[prefs'])
  <2>1. /\ s_src = Embedded /\ ~unread /\ prefs' = prefs /\ slug \in Names
        /\ slug = prefs => ~Loads(d.dpet[slug])
    BY <1>1, <1>2
  <2>2. prefs \in Names /\ ~Loads(disk.dpet[prefs])
    BY <1>0, <1>1, <1>2, <2>1
  <2>3. ~Loads(NoFile)
    BY DEF Loads, HasHeader
  <2>4. CASE prefs = slug
    BY <1>2, <2>1, <2>4
  <2>5. CASE prefs # slug
    BY <2>1, <2>2, <2>3, <2>5
  <2>6. QED  BY <2>4, <2>5
<1>3. QED  BY <1>1, <1>2 DEF RebootShowsSame

\* An end: nothing is left open, and only what was complete is installed.
LEMMA EndDevice ==
  ASSUME DeviceInv, PetInstallEnd
  PROVE  /\ DeviceInv' /\ s_install_file' = "none"
         /\ \A n \in Names : \/ disk'.dpet[n] \in {disk.dpet[n], NoFile}
                             \/ /\ n = s_install_file /\ s_install_received = Size[n]
                                /\ disk'.dpet[n] = disk.tmp[n]
<1> DEFINE n == s_install_slug
<1>0. /\ disk \in Disks /\ Named(disk) /\ NoFile \in Files
      /\ \A m \in Names : disk.tmp[m] \in Files
  BY DEF DeviceInv, Types, Files, Disks
<1>1. CASE EndWithoutStart
  <2>1. UNCHANGED <<disk, fs, session, look>> /\ answer' = FALSE /\ s_install_file = "none"
    BY <1>1 DEF EndWithoutStart, Answers, DeviceInv, Session
  <2>2. RebootShowsSame'
    BY <2>1, SameLook
  <2>3. QED  BY <2>1, <2>2 DEF DeviceInv, Types, Session, session, look
<1>2. ASSUME SessionClosed, UNCHANGED <<fs, look>>, answer' = FALSE, disk' \in Disks, Named(disk'),
             \A m \in Names : disk'.dpet[m] \in {disk.dpet[m], NoFile}
      PROVE  DeviceInv' /\ s_install_file' = "none"
  <2>1. RebootShowsSame'
    BY <1>2, SameLook
  <2>2. QED  BY <1>2, <2>1 DEF DeviceInv, Types, Session, SessionClosed, look
<1>3. CASE EndRefused
  <2>1. /\ SessionClosed /\ UNCHANGED <<fs, look>> /\ answer' = FALSE /\ n \in Names
        /\ disk' = disk \/ disk' = PutTmp(disk, n, NoFile)
    BY <1>3 DEF EndRefused, Answers, DeviceInv, Session, PutTmp
  <2>2. /\ disk' \in Disks /\ disk'.dpet = disk.dpet
        /\ \A m \in Names : disk'.tmp[m] \in {disk.tmp[m], NoFile}
    <3>1. CASE disk' = disk
      BY <1>0, <3>1
    <3>2. CASE disk' = PutTmp(disk, n, NoFile)
      <4> HIDE DEF n
      <4>1. /\ disk' \in Disks /\ disk'.dpet = disk.dpet /\ disk'.tmp[n] = NoFile
            /\ \A m \in Names : m = n \/ disk'.tmp[m] = disk.tmp[m]
        BY <1>0, <2>1, <3>2, DropFacts, Zenon
      <4>2. QED  BY <4>1
    <3>3. QED  BY <2>1, <3>1, <3>2
  <2>3. Named(disk')
    BY <1>0, <2>2 DEF Named
  <2>4. QED  BY <1>2, <2>1, <2>2, <2>3
<1>4. ASSUME Accepted
      PROVE  /\ n \in Names /\ n = s_install_file /\ s_install_received = Size[n]
             /\ n \in Pets /\ Kept[n] = n
  <2>1. s_install_active /\ n \in Names /\ s_install_total # 0 /\ s_install_received = s_install_total
    BY <1>4 DEF Accepted, Complete, DeviceInv, Session
  <2>2. s_install_file # "none" /\ n = Kept[s_install_file] /\ s_install_total = Size[s_install_file]
    BY <2>1 DEF DeviceInv, Session
  <2>3. disk.tmp[n] # NoFile
    BY <1>4 DEF Accepted, TmpFile, HasHeader
  <2>4. n \in Pets /\ s_install_file \in Pets
    BY <1>0, <2>1, <2>2, <2>3 DEF Named, DeviceInv, Types
  <2>5. QED  BY <2>1, <2>2, <2>4, NamesFacts
<1>5. ASSUME Accepted
      PROVE  /\ Removed \in Disks /\ Named(Removed)
             /\ \A m \in Names : Removed.dpet[m] \in {disk.dpet[m], NoFile}
  <2>1. Removed = PutDpet(disk, n, NoFile)
    BY DEF Removed, PutDpet
  <2>2. n \in Names
    BY <1>4, <1>5
  <2> HIDE DEF n
  <2>3. /\ Removed \in Disks /\ Removed.tmp = disk.tmp
        /\ Removed.dpet[n] = NoFile /\ \A m \in Names : m = n \/ Removed.dpet[m] = disk.dpet[m]
    BY <1>0, <2>1, <2>2, DropFacts, Zenon
  <2>4. QED  BY <1>0, <2>3 DEF Named
<1>6. CASE EndRenameFails
  BY <1>2, <1>5, <1>6 DEF EndRenameFails, Answers
<1>u. CASE EndUnreadable
  <2>1. /\ Accepted /\ SessionClosed /\ UNCHANGED <<fs, look>> /\ answer' = FALSE
        /\ disk' = disk \/ disk' = PutTmp(disk, n, NoFile)
    BY <1>u DEF EndUnreadable, Answers, PutTmp
  <2>2. n \in Names
    BY <1>4, <2>1
  <2>3. /\ disk' \in Disks /\ disk'.dpet = disk.dpet
        /\ \A m \in Names : disk'.tmp[m] \in {disk.tmp[m], NoFile}
    <3>1. CASE disk' = disk
      BY <1>0, <3>1
    <3>2. CASE disk' = PutTmp(disk, n, NoFile)
      <4> HIDE DEF n
      <4>1. /\ disk' \in Disks /\ disk'.dpet = disk.dpet /\ disk'.tmp[n] = NoFile
            /\ \A m \in Names : m = n \/ disk'.tmp[m] = disk.tmp[m]
        BY <1>0, <2>2, <3>2, DropFacts, Zenon
      <4>2. QED  BY <4>1
    <3>3. QED  BY <2>1, <3>1, <3>2
  <2>4. Named(disk')
    BY <1>0, <2>3 DEF Named
  <2>5. QED  BY <1>2, <2>1, <2>3, <2>4
<1>7. CASE EndInstalled
  <2>1. PICK load \in Loadings :
          /\ Accepted /\ disk' = Renamed /\ Shows(Activated(Renamed, n, load))
          /\ SessionClosed /\ answer' = TRUE /\ fs' = fs
    BY <1>7 DEF EndInstalled, Answers
  <2> DEFINE d == PutDpet(disk, n, disk.tmp[n])
  <2>2. Renamed = PutTmp(d, n, NoFile)
    BY DEF Renamed, TmpFile, PutDpet, PutTmp
  <2>3. n \in Names /\ n = s_install_file /\ s_install_received = Size[n] /\ n \in Pets /\ Kept[n] = n
    BY <1>4, <2>1
  <2> HIDE DEF n
  <2>4. /\ d \in Disks /\ d.tmp = disk.tmp /\ d.dpet[n] = disk.tmp[n]
        /\ \A m \in Names : m = n \/ d.dpet[m] = disk.dpet[m]
    BY <1>0, <2>3, WriteFacts
  <2> HIDE DEF d
  <2>5. /\ Renamed \in Disks /\ Renamed.dpet = d.dpet /\ Renamed.tmp[n] = NoFile
        /\ \A m \in Names : m = n \/ Renamed.tmp[m] = d.tmp[m]
    BY <2>2, <2>3, <2>4, DropFacts
  <2>6. Named(Renamed)
    BY <1>0, <2>3, <2>4, <2>5 DEF Named
  <2>7. fs # "broken"
    BY <2>1 DEF Accepted, DeviceInv, Session
  <2>8. \A m \in Names : disk'.dpet[m] = disk.dpet[m] \/ m = n
    BY <2>1, <2>4, <2>5
  <2>9. /\ RebootShowsSame'
        /\ prefs' \in Names \cup {"default"} /\ s_active_slug' \in Names \cup {"default"}
        /\ s_src' \in {Embedded, Nothing} \/ s_src'.file \in Names
        /\ unread' \in BOOLEAN
    BY <2>1, <2>3, <2>5, <2>6, <2>7, <2>8, NewLook
  <2>10. DeviceInv'
    BY <2>1, <2>5, <2>6, <2>9 DEF DeviceInv, Types, Session, SessionClosed
  <2>11. QED  BY <2>1, <2>3, <2>4, <2>5, <2>8, <2>10 DEF SessionClosed
<1>8. QED  BY <1>1, <1>2, <1>3, <1>u, <1>6, <1>7 DEF PetInstallEnd

\* What the commands of the user and a reset leave alone: no file is installed,
\* and an open session goes on or is gone.
NothingNew ==
  /\ \A n \in Names : disk'.dpet[n] \in {disk.dpet[n], NoFile}
  /\ s_install_file' # "none" =>
       UNCHANGED <<session, disk.tmp>>

\* A pet is made the active one.
LEMMA SetActiveDevice ==
  ASSUME DeviceInv, NEW slug \in Names \cup {"default"}, PetSetActive(slug)
  PROVE  DeviceInv' /\ NothingNew
<1>0. disk \in Disks /\ Named(disk) /\ Types /\ Session /\ "default" \notin Names
  BY NamesFacts DEF DeviceInv, Types
<1>1. CASE slug = "default"
  <2>1. Shows(Activated(disk, slug, "works")) /\ "works" \in Loadings /\ answer' = TRUE /\ UNCHANGED <<disk, fs, session>>
    BY <1>1 DEF PetSetActive, SetDefault, Answers, Loadings
  <2>2. /\ RebootShowsSame'
        /\ prefs' \in Names \cup {"default"} /\ s_active_slug' \in Names \cup {"default"}
        /\ s_src' \in {Embedded, Nothing} \/ s_src'.file \in Names
        /\ unread' \in BOOLEAN
    BY <1>0, <1>1, <2>1, NewLook
  <2>3. QED  BY <1>0, <2>1, <2>2 DEF DeviceInv, Types, Session, session, NothingNew
<1>2. CASE slug # "default"
  <2>0. slug \in Names
    BY <1>2
  <2>1. PICK r \in MountResults(fs), load \in Loadings :
          /\ Ensured(r) /\ disk' = Mounted(r) /\ UNCHANGED session
          /\ LET a == Activated(IF r = "broken" THEN Empty ELSE Mounted(r), slug, load)
             IN  Shows(a) /\ Answers(a.ok)
    BY <1>2 DEF PetSetActive, SetInstalled
  <2> DEFINE d == IF r = "broken" THEN Empty ELSE Mounted(r)
  <2>2. /\ fs' \in {"ready", "broken"} /\ (fs' = "broken" <=> r = "broken")
        /\ disk' \in Disks /\ Named(disk') /\ (fs = "broken" => r = "broken")
        /\ s_install_active => disk' = disk /\ fs' = "ready"
        /\ \A n \in Names : disk'.dpet[n] \in {disk.dpet[n], NoFile}
    BY <2>1, MountFacts
  <2>3. d \in Disks /\ Named(d) /\ (r = "broken" \/ disk' = d)
    BY <2>1, <2>2, EmptyFacts
  <2>4. Shows(Activated(d, slug, load)) /\ answer' = Activated(d, slug, load).ok
    BY <2>1 DEF Answers
  <2> HIDE DEF d
  <2>5. /\ RebootShowsSame'
        /\ prefs' \in Names \cup {"default"} /\ s_active_slug' \in Names \cup {"default"}
        /\ s_src' \in {Embedded, Nothing} \/ s_src'.file \in Names
        /\ unread' \in BOOLEAN
    BY <2>0, <2>2, <2>3, <2>4, NewLook
  <2>6. answer' \in BOOLEAN
    BY <2>4 DEF Activated
  <2>7. UNCHANGED <<s_install_active, s_install_slug, s_install_file, s_install_total,
                    s_install_received, s_install_expected_seq>>
    BY <2>1 DEF session
  <2>8. Types'
    BY <1>0, <2>2, <2>5, <2>6, <2>7 DEF Types
  <2>9. Session' /\ NothingNew
    BY <1>0, <2>1, <2>2, <2>7 DEF Session, NothingNew
  <2>10. QED  BY <2>2, <2>5, <2>8, <2>9 DEF DeviceInv
<1>3. QED  BY <1>1, <1>2

\* A pet is removed.
LEMMA RemoveDevice ==
  ASSUME DeviceInv, NEW slug \in Names, PetRemove(slug)
  PROVE  DeviceInv' /\ NothingNew
<1>0. disk \in Disks /\ Named(disk) /\ Types /\ Session
  BY DEF DeviceInv, Types
<1>1. PICK r \in MountResults(fs) :
        /\ Ensured(r) /\ UNCHANGED session /\ answer' = TRUE
        /\ disk' = IF r = "broken" THEN disk ELSE [Mounted(r) EXCEPT !.dpet[slug] = NoFile]
        /\ IF r # "broken" /\ s_active_slug = slug
             THEN Shows(Activated(disk, "default", "works"))
             ELSE UNCHANGED look
  BY DEF PetRemove, Answers
<1>2. /\ fs' \in {"ready", "broken"} /\ (fs' = "broken" <=> r = "broken")
      /\ Mounted(r) \in Disks /\ Named(Mounted(r)) /\ (fs = "broken" => r = "broken")
      /\ s_install_active => Mounted(r) = disk /\ fs' = "ready"
      /\ \A n \in Names : Mounted(r).dpet[n] \in {disk.dpet[n], NoFile}
  BY <1>1, MountFacts
<1>3. /\ disk' \in Disks /\ Named(disk')
      /\ \A n \in Names : disk'.dpet[n] \in {disk.dpet[n], NoFile}
      /\ s_install_active => disk'.tmp = disk.tmp
  <2>1. CASE r = "broken"
    BY <1>0, <1>1, <2>1
  <2>2. CASE r # "broken"
    <3> DEFINE d == Mounted(r)
    <3>1. disk' = PutDpet(d, slug, NoFile) /\ d \in Disks
      BY <1>1, <1>2, <2>2 DEF PutDpet
    <3> HIDE DEF d
    <3>2. /\ disk' \in Disks /\ disk'.tmp = d.tmp /\ disk'.dpet[slug] = NoFile
          /\ \A n \in Names : n = slug \/ disk'.dpet[n] = d.dpet[n]
      BY <3>1, DropFacts, Zenon
    <3>3. QED  BY <1>2, <3>2 DEF Named, d
  <2>3. QED  BY <2>1, <2>2
<1>4. /\ RebootShowsSame'
      /\ prefs' \in Names \cup {"default"} /\ s_active_slug' \in Names \cup {"default"}
      /\ s_src' \in {Embedded, Nothing} \/ s_src'.file \in Names
      /\ unread' \in BOOLEAN
  <2>0. fs' = "broken" \/ fs # "broken"
    BY <1>2
  <2>1. CASE Shows(Activated(disk, "default", "works"))
    BY <1>0, <1>3, <2>0, <2>1, NewLook, NamesFacts DEF Loadings
  <2>2. CASE UNCHANGED look
    <3>1. RebootShowsSame'
      BY <1>3, <2>0, <2>2, SameLook
    <3>2. QED  BY <1>0, <2>2, <3>1 DEF look, Types
  <2>3. QED  BY <1>1, <2>1, <2>2
<1>5. UNCHANGED <<s_install_active, s_install_slug, s_install_file, s_install_total,
                  s_install_received, s_install_expected_seq>>
  BY <1>1 DEF session
<1>6. Types'
  BY <1>0, <1>1, <1>2, <1>3, <1>4, <1>5 DEF Types
<1>7. Session' /\ NothingNew
  BY <1>0, <1>1, <1>2, <1>3, <1>5 DEF Session, NothingNew
<1>8. QED  BY <1>3, <1>4, <1>6, <1>7 DEF DeviceInv

\* A reset, over what the power failure left of the disk.
LEMMA BootDevice ==
  ASSUME DeviceInv, NEW d \in Disks, Named(d), Boots(d, 1),
         \A n \in Names : d.dpet[n] \in {disk.dpet[n], NoFile}
  PROVE  DeviceInv' /\ NothingNew /\ s_install_file' = "none"
<1>0. /\ prefs \in Names \cup {"default"} /\ prefs' = prefs
      /\ s_install_active' = FALSE /\ s_install_slug' = "" /\ s_install_file' = "none"
      /\ s_install_total' = 0 /\ s_install_received' = 0 /\ s_install_expected_seq' = 0
      /\ answer' = TRUE
  BY DEF Boots, DeviceInv, Types
<1>1. /\ disk' \in Disks /\ Named(disk')
      /\ \A n \in Names : disk'.dpet[n] \in {d.dpet[n], NoFile}
      /\ fs' \in {"unmounted", "ready", "broken"}
      /\ s_active_slug' \in Names \cup {"default"}
      /\ s_src' \in {Embedded, Nothing} \/ s_src'.file \in Names
      /\ unread' \in BOOLEAN
      /\ RebootShowsSame'
  <2>1. CASE prefs = "default"
    <3>1. fs' = "unmounted" /\ disk' = d /\ s_active_slug' = "default" /\ s_src' = Embedded
          /\ unread' = FALSE
      BY <2>1 DEF Boots
    <3>2. Embedded.file \notin Names
      BY NamesFacts DEF Embedded
    <3>3. QED  BY <1>0, <2>1, <3>1, <3>2 DEF RebootShowsSame
  <2>2. CASE prefs # "default"
    <3>1. PICK r \in MountResults("unmounted"), load \in Loadings :
            /\ Ensured(r) /\ disk' = IF r = "formatted" THEN Empty ELSE d
            /\ unread' = (r = "ready" /\ Loads(d.dpet[prefs]) /\ load # "works")
            /\ IF r = "ready" /\ Loads(d.dpet[prefs]) /\ load = "works"
                 THEN /\ s_active_slug' = prefs
                      /\ s_src' = [file |-> prefs, image |-> d.dpet[prefs]]
                 ELSE s_active_slug' = "default" /\ s_src' = Embedded
      BY <2>2 DEF Boots
    <3>u. /\ unread' \in BOOLEAN
          /\ ~unread' => ~(r = "ready" /\ Loads(d.dpet[prefs])) \/ load = "works"
      BY <3>1, Zenon
    <3>2. /\ r \in {"ready", "formatted", "broken"} /\ fs' \in {"ready", "broken"}
          /\ (r = "broken" => fs' = "broken")
      BY <3>1 DEF MountResults, Ensured
    <3>3. prefs \in Names
      BY <1>0, <2>2
    <3>4. /\ disk' \in Disks /\ Named(disk')
          /\ \A n \in Names : disk'.dpet[n] \in {d.dpet[n], NoFile}
          /\ r = "formatted" => ~Loads(disk'.dpet[prefs])
          /\ r # "formatted" => disk' = d
      BY <3>1, <3>2, <3>3, EmptyFacts
    <3>5. CASE r = "ready" /\ Loads(d.dpet[prefs]) /\ load = "works"
      <4>1. s_src'.file = prefs /\ s_src' # Embedded /\ s_active_slug' = prefs
        BY <3>1, <3>3, <3>5, NamesFacts DEF Embedded
      <4>2. QED  BY <1>0, <3>u, <3>2, <3>3, <3>4, <4>1 DEF RebootShowsSame
    <3>6. CASE ~(r = "ready" /\ Loads(d.dpet[prefs]) /\ load = "works")
      <4>1. s_src' = Embedded /\ s_active_slug' = "default" /\ Embedded.file \notin Names
        BY <3>1, <3>6, NamesFacts DEF Embedded
      <4>2. unread' \/ fs' = "broken" \/ ~Loads(disk'.dpet[prefs])
        BY <3>u, <3>2, <3>4, <3>6
      <4>3. QED  BY <1>0, <3>u, <3>2, <3>4, <4>1, <4>2 DEF RebootShowsSame
    <3>7. QED  BY <3>5, <3>6
  <2>3. QED  BY <2>1, <2>2
<1>2. Types' /\ Session'
  BY <1>0, <1>1 DEF Types, Session
<1>3. QED  BY <1>0, <1>1, <1>2 DEF DeviceInv, NothingNew

\* A torn file is one still, and the power failure in an end removes one.
LEMMA PowerLossDevice ==
  ASSUME DeviceInv, (\E k \in 0 .. s_install_received : Boots(Torn(k), 1)) \/ EndCutShort
  PROVE  DeviceInv' /\ NothingNew /\ s_install_file' = "none"
<1>0. disk \in Disks /\ Named(disk)
  BY DEF DeviceInv, Types
<1>1. CASE EndCutShort
  <2> DEFINE n == s_install_slug
  <2>1. Removed = PutDpet(disk, n, NoFile) /\ n \in Names
    BY <1>1 DEF EndCutShort, Accepted, Removed, PutDpet, DeviceInv, Session
  <2> HIDE DEF n
  <2>2. /\ Removed \in Disks /\ Removed.tmp = disk.tmp
        /\ Removed.dpet[n] = NoFile /\ \A m \in Names : m = n \/ Removed.dpet[m] = disk.dpet[m]
    BY <1>0, <2>1, DropFacts, Zenon
  <2>3. Named(Removed) /\ \A m \in Names : Removed.dpet[m] \in {disk.dpet[m], NoFile}
    BY <1>0, <2>2 DEF Named
  <2>4. Boots(Removed, 1)
    BY <1>1 DEF EndCutShort
  <2>5. QED  BY <2>2, <2>3, <2>4, BootDevice
<1>2. ASSUME NEW k \in 0 .. s_install_received, Boots(Torn(k), 1)
      PROVE  DeviceInv' /\ NothingNew /\ s_install_file' = "none"
  <2> DEFINE d == Torn(k)
             n == s_install_file
  <2>1. d \in Disks /\ Named(d) /\ \A m \in Names : d.dpet[m] \in {disk.dpet[m], NoFile}
    <3>1. CASE n = "none"
      BY <1>0, <3>1 DEF Torn
    <3>2. CASE n # "none"
      <4> DEFINE f == disk.tmp[n]
                 g == IF f = NoFile THEN f ELSE SubSeq(f, 1, k)
      <4>1. n \in Pets /\ n \in Names /\ f \in Seq(Blocks) /\ Len(f) = s_install_received
        BY <3>2, NamesFacts DEF DeviceInv, Types, Session
      <4>2. d = PutTmp(disk, n, g)
        BY <1>0, <3>2, <4>1 DEF Torn, PutTmp, Disks
      <4>3. g \in Files
        <5>1. SubSeq(f, 1, k) \in Seq(Blocks)
          BY <4>1, SubSeqProperties, LenProperties
        <5>2. QED  BY <5>1 DEF Files
      <4> HIDE DEF d, n, f, g
      <4>4. /\ d \in Disks /\ d.dpet = disk.dpet /\ d.tmp[n] = g
            /\ \A m \in Names : m = n \/ d.tmp[m] = disk.tmp[m]
        BY <1>0, <4>1, <4>2, <4>3, WriteFacts, Zenon
      <4>5. QED  BY <1>0, <4>1, <4>4 DEF Named
    <3>3. QED  BY <3>1, <3>2
  <2> HIDE DEF d
  <2>2. Boots(d, 1)
    BY <1>2 DEF d
  <2>3. QED  BY <2>1, <2>2, BootDevice
<1>3. QED  BY <1>1, <1>2

-----------------------------------------------------------------------------
(* Queues: what they hold, and in which order                              *)

\* A set of numbers has a least one.
LEMMA LeastExists ==
  ASSUME NEW T \in SUBSET Nat, T # {}
  PROVE  \E t \in T : \A u \in T : t <= u
<1>1. PICK k \in T : TRUE
  OBVIOUS
<1> DEFINE U == 0 .. k
           F == {0 .. t : t \in T \cap U}
<1>2. IsFiniteSet(U) /\ k \in Nat
  BY FS_Interval
<1>3. IsWellFoundedOn(StrictSubsetOrdering(U), SUBSET U)
  BY <1>2, FS_StrictSubsetOrderingWellFounded, FS_FiniteSubsetsOfFinite
<1>4. F \subseteq SUBSET U /\ F # {}
  <2>1. \A t \in T \cap U : 0 .. t \in SUBSET U
    OBVIOUS
  <2>2. k \in T \cap U
    BY <1>2
  <2>3. 0 .. k \in F
    BY <2>2
  <2>4. QED  BY <2>1, <2>3
<1>5. PICK m \in F : \A x \in F : ~(<<x, m>> \in StrictSubsetOrdering(U))
  BY <1>3, <1>4, WFMin
<1>6. PICK t \in T \cap U : m = 0 .. t
  BY <1>5
<1>7. ASSUME NEW u \in T PROVE t <= u
  <2>1. SUFFICES ASSUME u < t PROVE FALSE
    BY <1>6
  <2>2. u \in T \cap U
    BY <1>2, <1>6, <2>1
  <2>3. 0 .. u \in F
    BY <2>2
  <2>4. 0 .. u \subseteq m /\ 0 .. u # m /\ m \subseteq U /\ 0 .. u \subseteq U
    BY <1>2, <1>6, <2>1
  <2>5. QED  BY <1>5, <2>3, <2>4 DEF StrictSubsetOrdering
<1>8. QED  BY <1>6, <1>7

\* Induction up to a number, over the set of those that have been reached.
LEMMA Reach ==
  ASSUME NEW n \in Nat, NEW G, 0 \in G, \A i \in 1 .. n : i - 1 \in G => i \in G
  PROVE  \A i \in 0 .. n : i \in G
<1> DEFINE T == {i \in 0 .. n : i \notin G}
<1>1. SUFFICES ASSUME T # {} PROVE FALSE
  OBVIOUS
<1>2. T \in SUBSET Nat
  OBVIOUS
<1>3. PICK t \in T : \A u \in T : t <= u
  <2> HIDE DEF T
  <2>1. QED  BY <1>1, <1>2, LeastExists
<1>4. t \in 1 .. n /\ t \notin G
  BY <1>3
<1>5. t - 1 \in 0 .. n /\ ~(t <= t - 1)
  BY <1>4
<1>6. t - 1 \in G
  BY <1>3, <1>5
<1>7. QED  BY <1>4, <1>6

\* What the purge keeps of the first i commands.
KeepsOf(q, k, n) ==
  /\ k[0] = <<>>
  /\ \A i \in 1 .. n : k[i] = IF q[i].task = NoTask THEN Append(k[i - 1], q[i]) ELSE k[i - 1]

\* The purge, as a function over the prefixes of the queue.
LEMMA PurgedDef ==
  ASSUME NEW S, NEW q \in Seq(S)
  PROVE  \E k \in [0 .. Len(q) -> Seq(S)] : KeepsOf(q, k, Len(q)) /\ Purged(q) = k[Len(q)]
<1> DEFINE n == Len(q)
           G == {i \in 0 .. n : \E k \in [0 .. i -> Seq(S)] : KeepsOf(q, k, i)}
<1>1. n \in Nat /\ \A i \in 1 .. n : q[i] \in S
  BY LenProperties, ElementOfSeq
<1> HIDE DEF n
<1>2. 0 \in G
  <2> DEFINE k == [i \in 0 .. 0 |-> <<>>]
  <2>1. k \in [0 .. 0 -> Seq(S)] /\ k[0] = <<>>
    BY EmptySeq
  <2>2. KeepsOf(q, k, 0)
    BY <2>1 DEF KeepsOf
  <2>3. 0 \in 0 .. n
    BY <1>1
  <2>4. QED  BY <2>1, <2>2, <2>3
<1>3. ASSUME NEW i \in 1 .. n, i - 1 \in G PROVE i \in G
  <2>1. PICK k \in [0 .. i - 1 -> Seq(S)] : KeepsOf(q, k, i - 1)
    BY <1>3
  <2> DEFINE e == IF q[i].task = NoTask THEN Append(k[i - 1], q[i]) ELSE k[i - 1]
             l == [j \in 0 .. i |-> IF j = i THEN e ELSE k[j]]
  <2>2. i \in Nat /\ i - 1 \in Nat /\ i - 1 \in 0 .. i - 1 /\ i \in 0 .. n
    BY <1>1
  <2>3. e \in Seq(S)
    BY <1>1, <2>2, AppendProperties
  <2> HIDE DEF e
  <2>4. \A j \in 0 .. i : j = i \/ j \in 0 .. i - 1
    BY <2>2
  <2>5. l \in [0 .. i -> Seq(S)] /\ l[i] = e /\ \A j \in 0 .. i - 1 : l[j] = k[j]
    BY <2>2, <2>3, <2>4
  <2> HIDE DEF l
  <2>6. KeepsOf(q, l, i)
    <3>1. l[0] = <<>>
      BY <2>1, <2>2, <2>5 DEF KeepsOf
    <3>2. ASSUME NEW j \in 1 .. i
          PROVE  l[j] = IF q[j].task = NoTask THEN Append(l[j - 1], q[j]) ELSE l[j - 1]
      <4>1. j - 1 \in 0 .. i - 1 /\ l[j - 1] = k[j - 1]
        BY <2>2, <2>5
      <4>2. CASE j = i
        BY <2>5, <4>1, <4>2 DEF e
      <4>3. CASE j # i
        <5>1. j \in 1 .. i - 1 /\ j \in 0 .. i - 1
          BY <2>2, <4>3
        <5>2. QED  BY <2>1, <2>5, <4>1, <5>1 DEF KeepsOf
      <4>4. QED  BY <4>2, <4>3
    <3>3. QED  BY <3>1, <3>2 DEF KeepsOf
  <2>7. QED  BY <2>2, <2>5, <2>6
<1>4. n \in G
  <2> HIDE DEF G
  <2>1. \A i \in 0 .. n : i \in G
    BY <1>1, <1>2, <1>3, Reach
  <2>2. QED  BY <1>1, <2>1
<1>5. PICK k \in [0 .. n -> Seq(S)] : KeepsOf(q, k, n)
  BY <1>4
<1> DEFINE Eq(f) == f = [i \in 0 .. n |->
                           IF i = 0 THEN <<>>
                           ELSE IF q[i].task = NoTask THEN Append(f[i - 1], q[i]) ELSE f[i - 1]]
           f == CHOOSE x : Eq(x)
<1>6. Eq(k)
  <2>1. \A i \in 0 .. n : i = 0 \/ i \in 1 .. n
    BY <1>1
  <2>2. QED  BY <1>5, <2>1 DEF KeepsOf
<1>7. Eq(f)
  BY <1>6
<1>8. Purged(q) = f[n]
  BY DEF Purged, n
<1> HIDE DEF f
<1>9. KeepsOf(q, f, n) /\ DOMAIN f = 0 .. n /\ f = [i \in 0 .. n |-> f[i]]
  <2>1. DOMAIN f = 0 .. n /\ f = [i \in 0 .. n |-> f[i]]
    BY <1>7
  <2>2. \A i \in 0 .. n : f[i] = IF i = 0 THEN <<>>
                                ELSE IF q[i].task = NoTask THEN Append(f[i - 1], q[i]) ELSE f[i - 1]
    BY <1>7
  <2>3. \A i \in 1 .. n : i \in 0 .. n /\ i # 0
    BY <1>1
  <2>4. 0 \in 0 .. n
    BY <1>1
  <2> HIDE DEF Eq
  <2>5. QED  BY <2>1, <2>2, <2>3, <2>4 DEF KeepsOf
<1> HIDE DEF Eq
<1>10. \A i \in 0 .. n : f[i] \in Seq(S)
  <2> DEFINE H == {i \in 0 .. n : f[i] \in Seq(S)}
  <2>1. 0 \in H
    BY <1>1, <1>9, EmptySeq DEF KeepsOf
  <2>2. ASSUME NEW i \in 1 .. n, i - 1 \in H PROVE i \in H
    <3>1. f[i - 1] \in Seq(S) /\ q[i] \in S /\ i \in 0 .. n
      BY <1>1, <2>2
    <3>2. f[i] \in {Append(f[i - 1], q[i]), f[i - 1]}
      BY <1>9 DEF KeepsOf
    <3>3. Append(f[i - 1], q[i]) \in Seq(S)
      BY <3>1, AppendProperties
    <3>4. QED  BY <3>1, <3>2, <3>3
  <2> HIDE DEF H
  <2>3. \A i \in 0 .. n : i \in H
    BY <1>1, <2>1, <2>2, Reach
  <2>4. QED  BY <2>3 DEF H
<1>11. f \in [0 .. n -> Seq(S)]
  BY <1>9, <1>10
<1>12. QED  BY <1>8, <1>9, <1>11 DEF n

\* What of a queue comes before what.
Pairs(q) == {p \in Range(q) \X Range(q) : \E i, j \in 1 .. Len(q) : i < j /\ p = <<q[i], q[j]>>}

\* Pairs(q), by the positions in q.
LEMMA PairsDef ==
  ASSUME NEW S, NEW q \in Seq(S)
  PROVE  /\ Range(q) = {q[i] : i \in 1 .. Len(q)}
         /\ \A c, d : <<c, d>> \in Pairs(q)
              <=> \E i, j \in 1 .. Len(q) : i < j /\ q[i] = c /\ q[j] = d
         /\ \A p \in Pairs(q) : p = <<p[1], p[2]>>
<1>1. Range(q) = {q[i] : i \in 1 .. Len(q)}
  BY RangeEquality
<1>2. \A p \in Pairs(q) : p = <<p[1], p[2]>>
  BY DEF Pairs
<1>3. ASSUME NEW c, NEW d
      PROVE  <<c, d>> \in Pairs(q) <=> \E i, j \in 1 .. Len(q) : i < j /\ q[i] = c /\ q[j] = d
  BY <1>1 DEF Pairs
<1>4. QED  BY <1>1, <1>2, <1>3

\* A new member of a queue comes after all the others.
LEMMA PairsAppend ==
  ASSUME NEW S, NEW q \in Seq(S), NEW e \in S
  PROVE  /\ Range(Append(q, e)) = Range(q) \cup {e}
         /\ Pairs(Append(q, e)) = Pairs(q) \cup (Range(q) \X {e})
<1> DEFINE a == Append(q, e)
           n == Len(q)
<1>1. /\ a \in Seq(S) /\ Len(a) = n + 1 /\ n \in Nat
      /\ \A i \in 1 .. n : a[i] = q[i]
      /\ a[n + 1] = e
  BY AppendProperties, LenProperties
<1> HIDE DEF a, n
<1>2. \A i \in 1 .. n + 1 : i \in 1 .. n \/ i = n + 1
  BY <1>1
<1>3. \A i \in 1 .. n : i \in 1 .. n + 1 /\ i < n + 1
  BY <1>1
<1>4. n + 1 \in 1 .. n + 1
  BY <1>1
<1>5. Range(a) = Range(q) \cup {e}
  <2>1. Range(a) = {a[i] : i \in 1 .. n + 1} /\ Range(q) = {q[i] : i \in 1 .. n}
    BY <1>1, PairsDef DEF n
  <2>2. QED  BY <1>1, <1>2, <1>3, <1>4, <2>1
<1>6. \A p \in Pairs(a) : p \in Pairs(q) \cup (Range(q) \X {e})
  <2> SUFFICES ASSUME NEW p \in Pairs(a) PROVE p \in Pairs(q) \cup (Range(q) \X {e})
    OBVIOUS
  <2>1. PICK i, j \in 1 .. n + 1 : i < j /\ p = <<a[i], a[j]>>
    BY <1>1 DEF Pairs
  <2>2. i \in 1 .. n /\ a[i] = q[i] /\ q[i] \in Range(q)
    <3>1. i \in 1 .. n
      BY <1>1, <2>1
    <3>2. QED  BY <1>1, <3>1, PairsDef DEF n
  <2>3. CASE j = n + 1
    BY <1>1, <2>1, <2>2, <2>3
  <2>4. CASE j \in 1 .. n
    <3>1. q[j] \in Range(q) /\ a[j] = q[j]
      BY <1>1, <2>4, PairsDef DEF n
    <3>2. p = <<q[i], q[j]>>
      BY <2>1, <2>2, <3>1
    <3>3. p \in Pairs(q)
      BY <2>1, <2>2, <2>4, <3>1, <3>2 DEF Pairs, n
    <3>4. QED  BY <3>3
  <2>5. QED  BY <1>2, <2>3, <2>4
<1>7. \A p \in Pairs(q) : p \in Pairs(a)
  <2> SUFFICES ASSUME NEW p \in Pairs(q) PROVE p \in Pairs(a)
    OBVIOUS
  <2>1. PICK i, j \in 1 .. n : i < j /\ p = <<q[i], q[j]>>
    BY DEF Pairs, n
  <2>2. i \in 1 .. n + 1 /\ j \in 1 .. n + 1 /\ p = <<a[i], a[j]>>
    BY <1>1, <1>3, <2>1
  <2>3. <<a[i], a[j]>> \in Pairs(a)
    BY <1>1, <2>1, <2>2, PairsDef
  <2>4. QED  BY <2>2, <2>3
<1>8. \A c \in Range(q) : <<c, e>> \in Pairs(a)
  <2> SUFFICES ASSUME NEW c \in Range(q) PROVE <<c, e>> \in Pairs(a)
    OBVIOUS
  <2>1. PICK i \in 1 .. n : c = q[i]
    BY PairsDef DEF n
  <2>2. i \in 1 .. n + 1 /\ i < n + 1 /\ a[i] = c
    BY <1>1, <1>3, <2>1
  <2>3. QED  BY <1>1, <1>4, <2>2, PairsDef
<1>9. QED  BY <1>5, <1>6, <1>7, <1>8 DEF a

\* The first member of a queue comes before all the others.
LEMMA PairsTail ==
  ASSUME NEW S, NEW q \in Seq(S), q # <<>>
  PROVE  /\ Range(q) = {Head(q)} \cup Range(Tail(q))
         /\ Pairs(q) = Pairs(Tail(q)) \cup ({Head(q)} \X Range(Tail(q)))
<1> DEFINE a == Tail(q)
           n == Len(a)
<1>1. /\ a \in Seq(S) /\ Len(q) = n + 1 /\ n \in Nat
      /\ \A i \in 1 .. n : a[i] = q[i + 1]
      /\ Head(q) = q[1]
  BY HeadTailProperties, LenProperties, EmptySeq
<1> HIDE DEF a, n
<1>2. \A i \in 1 .. n + 1 : i = 1 \/ (i - 1 \in 1 .. n /\ (i - 1) + 1 = i)
  BY <1>1
<1>3. \A i \in 1 .. n : i + 1 \in 1 .. n + 1
  BY <1>1
<1>4. 1 \in 1 .. n + 1
  BY <1>1
<1>5. Range(q) = {q[i] : i \in 1 .. n + 1} /\ Range(a) = {a[i] : i \in 1 .. n}
  BY <1>1, PairsDef DEF n
<1>6. Range(q) = {Head(q)} \cup Range(a)
  <2>1. \A i \in 1 .. n + 1 : q[i] = Head(q) \/ q[i] \in Range(a)
    <3> SUFFICES ASSUME NEW i \in 1 .. n + 1, i # 1 PROVE q[i] \in Range(a)
      BY <1>1
    <3>1. i - 1 \in 1 .. n /\ a[i - 1] = q[i]
      BY <1>1, <1>2
    <3>2. QED  BY <1>5, <3>1
  <2>2. QED  BY <1>1, <1>3, <1>4, <1>5, <2>1
<1>7. \A p \in Pairs(q) : p \in Pairs(a) \cup ({Head(q)} \X Range(a))
  <2> SUFFICES ASSUME NEW p \in Pairs(q) PROVE p \in Pairs(a) \cup ({Head(q)} \X Range(a))
    OBVIOUS
  <2>1. PICK i, j \in 1 .. n + 1 : i < j /\ p = <<q[i], q[j]>>
    BY <1>1 DEF Pairs
  <2>2. j - 1 \in 1 .. n /\ a[j - 1] = q[j]
    <3>1. j # 1
      BY <1>1, <2>1
    <3>2. QED  BY <1>1, <1>2, <3>1
  <2>3. CASE i = 1
    BY <1>1, <1>5, <2>1, <2>2, <2>3
  <2>4. CASE i # 1
    <3>1. i - 1 \in 1 .. n /\ a[i - 1] = q[i] /\ i - 1 < j - 1
      BY <1>1, <1>2, <2>1, <2>4
    <3>2. <<q[i], q[j]>> \in Pairs(a)
      BY <1>1, <2>2, <3>1, PairsDef DEF n
    <3>3. QED  BY <2>1, <3>2
  <2>5. QED  BY <2>3, <2>4
<1>8. \A p \in Pairs(a) : p \in Pairs(q)
  <2> SUFFICES ASSUME NEW p \in Pairs(a) PROVE p \in Pairs(q)
    OBVIOUS
  <2>1. PICK i, j \in 1 .. n : i < j /\ p = <<a[i], a[j]>>
    BY DEF Pairs, n
  <2>2. i + 1 \in 1 .. n + 1 /\ j + 1 \in 1 .. n + 1 /\ i + 1 < j + 1
    BY <1>1, <2>1
  <2>3. p = <<q[i + 1], q[j + 1]>>
    BY <1>1, <2>1
  <2>4. QED  BY <1>1, <2>2, <2>3, PairsDef
<1>9. \A c \in Range(a) : <<Head(q), c>> \in Pairs(q)
  <2> SUFFICES ASSUME NEW c \in Range(a) PROVE <<Head(q), c>> \in Pairs(q)
    OBVIOUS
  <2>1. PICK i \in 1 .. n : c = a[i]
    BY <1>5
  <2>2. i + 1 \in 1 .. n + 1 /\ 1 < i + 1 /\ q[i + 1] = c
    BY <1>1, <2>1
  <2>3. QED  BY <1>1, <1>4, <2>2, PairsDef
<1>10. QED  BY <1>6, <1>7, <1>8, <1>9 DEF a

\* A queue that lost some of its members.
LEMMA PairsLess ==
  ASSUME NEW S, NEW q \in Seq(S)
  PROVE  /\ \A i \in 0 .. Len(q) : /\ Range(SubSeq(q, 1, i)) \subseteq Range(q)
                                   /\ Pairs(SubSeq(q, 1, i)) \subseteq Pairs(q)
         /\ \A i \in 1 .. Len(q) : /\ Range(RemoveAt(q, i)) \subseteq Range(q)
                                   /\ Pairs(RemoveAt(q, i)) \subseteq Pairs(q)
<1> DEFINE n == Len(q)
<1>0. n \in Nat /\ \A i \in 1 .. n : q[i] \in S
  BY LenProperties, ElementOfSeq
<1>1. ASSUME NEW a \in Seq(S), NEW f, NEW m \in Nat, Len(a) = m,
             \A i \in 1 .. m : f[i] \in 1 .. n /\ a[i] = q[f[i]],
             \A i, j \in 1 .. m : i < j => f[i] < f[j]
      PROVE  Range(a) \subseteq Range(q) /\ Pairs(a) \subseteq Pairs(q)
  <2>1. Range(a) \subseteq Range(q)
    BY <1>1, PairsDef
  <2>2. ASSUME NEW p \in Pairs(a) PROVE p \in Pairs(q)
    <3>1. PICK i, j \in 1 .. m : i < j /\ p = <<a[i], a[j]>>
      BY <1>1 DEF Pairs
    <3>2. f[i] \in 1 .. n /\ f[j] \in 1 .. n /\ f[i] < f[j] /\ p = <<q[f[i]], q[f[j]]>>
      BY <1>1, <3>1
    <3>3. QED  BY <3>2, PairsDef
  <2>3. QED  BY <2>1, <2>2
<1>2. ASSUME NEW k \in 0 .. n
      PROVE  Range(SubSeq(q, 1, k)) \subseteq Range(q) /\ Pairs(SubSeq(q, 1, k)) \subseteq Pairs(q)
  <2> DEFINE a == SubSeq(q, 1, k)
             f == [i \in 1 .. k |-> i]
  <2>1. a \in Seq(S) /\ Len(a) = k /\ \A i \in 1 .. k : a[i] = q[i]
    BY <1>0, SubSeqProperties
  <2>2. k \in Nat /\ \A i \in 1 .. k : f[i] = i /\ i \in 1 .. n
    BY <1>0
  <2> HIDE DEF a, f, n
  <2>3. \A i \in 1 .. k : f[i] \in 1 .. n /\ a[i] = q[f[i]]
    BY <2>1, <2>2
  <2>4. \A i, j \in 1 .. k : i < j => f[i] < f[j]
    BY <2>2
  <2>5. QED  BY <1>1, <2>1, <2>2, <2>3, <2>4 DEF a
<1>3. ASSUME NEW k \in 1 .. n
      PROVE  Range(RemoveAt(q, k)) \subseteq Range(q) /\ Pairs(RemoveAt(q, k)) \subseteq Pairs(q)
  <2> DEFINE b == SubSeq(q, 1, k - 1)
             c == SubSeq(q, k + 1, n)
             a == RemoveAt(q, k)
             f == [i \in 1 .. n - 1 |-> IF i < k THEN i ELSE i + 1]
  <2>1. b \in Seq(S) /\ Len(b) = k - 1 /\ \A i \in 1 .. k - 1 : b[i] = q[i]
    BY <1>0, SubSeqProperties
  <2>2. c \in Seq(S) /\ Len(c) = n - k /\ \A i \in 1 .. n - k : c[i] = q[k + i]
    BY <1>0, SubSeqProperties
  <2>3. a = b \o c
    BY DEF RemoveAt
  <2>4. \A i \in 1 .. n - 1 : f[i] = IF i < k THEN i ELSE i + 1
    OBVIOUS
  <2> HIDE DEF a, b, c, f, n
  <2>5. /\ a \in Seq(S) /\ Len(a) = n - 1 /\ n - 1 \in Nat
        /\ \A i \in 1 .. n - 1 : a[i] = IF i <= k - 1 THEN b[i] ELSE c[i - (k - 1)]
    <3>1. /\ b \o c \in Seq(S) /\ Len(b \o c) = Len(b) + Len(c)
          /\ \A i \in 1 .. Len(b) + Len(c) :
               (b \o c)[i] = IF i <= Len(b) THEN b[i] ELSE c[i - Len(b)]
      BY <2>1, <2>2, ConcatProperties
    <3>2. Len(b) + Len(c) = n - 1 /\ n - 1 \in Nat
      BY <1>0, <2>1, <2>2
    <3>3. QED  BY <2>1, <2>3, <3>1, <3>2
  <2>6. \A i \in 1 .. n - 1 : f[i] \in 1 .. n /\ a[i] = q[f[i]]
    <3> SUFFICES ASSUME NEW i \in 1 .. n - 1 PROVE f[i] \in 1 .. n /\ a[i] = q[f[i]]
      OBVIOUS
    <3>1. CASE i < k
      BY <1>0, <2>1, <2>4, <2>5, <3>1
    <3>2. CASE ~(i < k)
      <4>1. i - (k - 1) \in 1 .. n - k /\ k + (i - (k - 1)) = i + 1
        BY <1>0, <3>2
      <4>2. QED  BY <1>0, <2>2, <2>4, <2>5, <3>2, <4>1
    <3>3. QED  BY <3>1, <3>2
  <2>7. \A i, j \in 1 .. n - 1 : i < j => f[i] < f[j]
    BY <1>0, <2>4
  <2>8. QED  BY <1>1, <2>5, <2>6, <2>7 DEF a
<1>4. QED  BY <1>2, <1>3

\* An empty queue.
LEMMA PairsEmpty == Range(<<>>) = {} /\ Pairs(<<>>) = {}
<1>1. DOMAIN <<>> = {}
  OBVIOUS
<1>2. Range(<<>>) = {}
  BY <1>1 DEF Range
<1>3. QED  BY <1>2 DEF Pairs

\* The purge loses some members, and does not change the order of the others.
LEMMA PurgedFacts ==
  ASSUME NEW S, NEW q \in Seq(S)
  PROVE  /\ Purged(q) \in Seq(S) /\ Len(Purged(q)) <= Len(q)
         /\ Range(Purged(q)) \subseteq Range(q) /\ Pairs(Purged(q)) \subseteq Pairs(q)
<1> DEFINE n == Len(q)
<1>1. n \in Nat /\ \A i \in 1 .. n : q[i] \in S
  BY LenProperties, ElementOfSeq
<1>2. PICK k \in [0 .. n -> Seq(S)] : KeepsOf(q, k, n) /\ Purged(q) = k[n]
  BY PurgedDef
<1> HIDE DEF n
<1> DEFINE Met(i) == {q[j] : j \in 1 .. i}
           Part(i) == /\ Len(k[i]) <= i
                      /\ Range(k[i]) \subseteq Met(i)
                      /\ \A c, d : <<c, d>> \in Pairs(k[i])
                           => \E a, b \in 1 .. i : a < b /\ q[a] = c /\ q[b] = d
           G == {i \in 0 .. n : Part(i)}
<1>3. Part(0)
  <2>1. k[0] = <<>> /\ Len(<<>>) = 0
    BY <1>2 DEF KeepsOf
  <2>2. Range(k[0]) = {} /\ Pairs(k[0]) = {}
    BY <2>1, PairsEmpty
  <2>3. QED  BY <2>1, <2>2
<1>4. ASSUME NEW i \in 1 .. n, Part(i - 1) PROVE Part(i)
  <2> DEFINE s == k[i - 1]
             e == q[i]
  <2>0. /\ i - 1 \in 0 .. n /\ s \in Seq(S) /\ e \in S /\ Len(s) \in Nat
        /\ i - 1 \in Nat /\ i \in Nat
    BY <1>1, <1>2, LenProperties
  <2>1. k[i] = s \/ k[i] = Append(s, e)
    BY <1>2 DEF KeepsOf
  <2>2. \A j \in 1 .. i - 1 : j \in 1 .. i /\ j < i
    BY <2>0
  <2>3. Len(s) <= i - 1 /\ Range(s) \subseteq Met(i - 1)
    BY <1>4
  <2>4. \A c, d : <<c, d>> \in Pairs(s) => \E a, b \in 1 .. i - 1 : a < b /\ q[a] = c /\ q[b] = d
    BY <1>4
  <2>5. \A c, d : <<c, d>> \in Pairs(s) => \E a, b \in 1 .. i : a < b /\ q[a] = c /\ q[b] = d
    BY <2>2, <2>4
  <2>6. Met(i - 1) \subseteq Met(i) /\ e \in Met(i)
    BY <2>0, <2>2
  <2>7. CASE k[i] = s
    BY <2>0, <2>3, <2>5, <2>6, <2>7
  <2>8. CASE k[i] = Append(s, e)
    <3>1. /\ Range(k[i]) = Range(s) \cup {e}
          /\ Pairs(k[i]) = Pairs(s) \cup (Range(s) \X {e})
          /\ Len(k[i]) = Len(s) + 1
      <4> HIDE DEF s, e
      <4>1. QED  BY <2>0, <2>8, PairsAppend, AppendProperties
    <3>2. Len(k[i]) <= i
      BY <2>0, <2>3, <3>1
    <3>3. ASSUME NEW c \in Range(s) PROVE \E a, b \in 1 .. i : a < b /\ q[a] = c /\ q[b] = e
      <4>1. PICK a \in 1 .. i - 1 : q[a] = c
        BY <2>3
      <4>2. a \in 1 .. i /\ a < i /\ i \in 1 .. i
        BY <2>0, <4>1
      <4>3. QED  BY <4>1, <4>2
    <3>4. \A c, d : <<c, d>> \in Pairs(k[i]) => \/ <<c, d>> \in Pairs(s)
                                                \/ c \in Range(s) /\ d = e
      BY <3>1
    <3>5. \A c, d : <<c, d>> \in Pairs(k[i]) => \E a, b \in 1 .. i : a < b /\ q[a] = c /\ q[b] = d
      <4> HIDE DEF s, e
      <4>1. QED  BY <2>5, <3>3, <3>4
    <3>6. Range(k[i]) \subseteq Met(i)
      <4> HIDE DEF s, e, Met
      <4>1. QED  BY <2>3, <2>6, <3>1
    <3>7. QED  BY <3>2, <3>5, <3>6
  <2>9. QED  BY <2>1, <2>7, <2>8
<1>5. Part(n)
  <2>1. 0 \in G
    BY <1>1, <1>3
  <2>2. ASSUME NEW i \in 1 .. n, i - 1 \in G PROVE i \in G
    <3>1. Part(i - 1)
      BY <2>2
    <3> HIDE DEF Part
    <3>2. Part(i)
      BY <1>4, <3>1
    <3>3. QED  BY <3>2
  <2> HIDE DEF G
  <2>3. \A i \in 0 .. n : i \in G
    BY <1>1, <2>1, <2>2, Reach
  <2>4. n \in 0 .. n
    BY <1>1
  <2>5. QED  BY <2>3, <2>4 DEF G
<1> DEFINE p == k[n]
<1>6. p \in Seq(S) /\ p = Purged(q)
  BY <1>1, <1>2
<1>7. /\ Len(p) <= n /\ Range(p) \subseteq Met(n)
      /\ \A c, d : <<c, d>> \in Pairs(p) => \E a, b \in 1 .. n : a < b /\ q[a] = c /\ q[b] = d
  BY <1>5
<1> HIDE DEF p, Part
<1>8. Range(q) = Met(n)
  BY PairsDef DEF n
<1>9. \A x \in Pairs(p) : x \in Pairs(q)
  <2> SUFFICES ASSUME NEW x \in Pairs(p) PROVE x \in Pairs(q)
    OBVIOUS
  <2>1. x = <<x[1], x[2]>>
    BY <1>6, PairsDef
  <2>2. PICK c, d : x = <<c, d>>
    BY <2>1
  <2>3. \E a, b \in 1 .. n : a < b /\ q[a] = c /\ q[b] = d
    BY <1>7, <2>2
  <2>4. QED  BY <2>2, <2>3, PairsDef DEF n
<1>10. QED  BY <1>6, <1>7, <1>8, <1>9 DEF n

-----------------------------------------------------------------------------
(* The agent and the link: what can be queued, waited for and heard        *)

StartCmds == {Cmd("pet_install_start", t, p, 0, <<>>) : t \in Tasks, p \in Pets}
ChunkCmds == {Cmd("pet_install_chunk", t, "none", s, [of |-> p, at |-> s + 1]) :
                t \in Tasks, s \in Nat, p \in Pets}
UserCmds  == {Cmd("pet_remove", NoTask, p, 0, <<>>) : p \in Pets}
             \cup {Cmd("pet_set_active", NoTask, p, 0, <<>>) : p \in Pets \cup {"default"}}
Commands  == StartCmds \cup ChunkCmds \cup UserCmds \cup {EndCmd(t) : t \in Tasks}

Answered == [name : {"pet_install_started", "pet_install_chunk_ack"},
             slug : Pets \cup {"none"}, seq : Nat, ok : BOOLEAN, task : Tasks]

Ways == Busy \cup {"idle", "unfetched", "failed", "complete", "gone"}

\* The chunk waiters of a task: at most a window of them, and one at least when
\* it is full.
Waiters(t, f) ==
  /\ f \in [DOMAIN f -> Results]
  /\ DOMAIN f \in SUBSET Nat /\ IsFiniteSet(DOMAIN f)
  /\ Cardinality(DOMAIN f) <= Window

HostInv ==
  /\ txq \in Seq(Commands) /\ Len(txq) <= TxMax
  /\ wire \in Seq(Commands) /\ events \in Seq(Answered)
  /\ pc \in [Tasks -> Ways]
  /\ ask \in [Tasks -> Asks \cup {NoAsk}]
  /\ \A t \in Tasks : pc[t] \in Busy => ask[t].pet \in Pets
  /\ started \in [Tasks -> {"none", "ok", "refused"}]
  /\ next \in [Tasks -> Nat]
  /\ \A t \in Tasks : pc[t] = "full" => /\ next[t] < Size[ask[t].pet]
                                        /\ Pending(t) # {}
  /\ acks = [t \in Tasks |-> acks[t]]
  /\ \A t \in Tasks : Waiters(t, acks[t])
  /\ misled \in BOOLEAN

\* Nobody waits for an acknowledgement that has no waiter.
LEMMA NoWaiters == \A t : Waiters(t, <<>>)
<1>1. DOMAIN <<>> = {}
  OBVIOUS
<1>2. IsFiniteSet({}) /\ Cardinality({}) = 0 /\ 0 <= Window
  BY FS_EmptySet, InstallAssumption
<1>3. <<>> \in [{} -> Results]
  OBVIOUS
<1>4. QED  BY <1>1, <1>2, <1>3, Zenon DEF Waiters

\* Some waiters go: there is room for another.
LEMMA WaitersLess ==
  ASSUME NEW t, NEW f, Waiters(t, f), NEW S
  PROVE  /\ Waiters(t, Without(f, S)) /\ DOMAIN Without(f, S) = DOMAIN f \ S
         /\ S \cap DOMAIN f # {} => Cardinality(DOMAIN Without(f, S)) < Window
<1> DEFINE g == Without(f, S)
           D == DOMAIN f
<1>1. DOMAIN g = D \ S /\ \A s \in D \ S : g[s] = f[s]
  BY DEF Without
<1>2. g \in [D \ S -> Results]
  BY DEF Without, Waiters
<1>3. IsFiniteSet(D) /\ D \in SUBSET Nat /\ Cardinality(D) \in Nat /\ Cardinality(D) <= Window
  BY FS_CardinalityType DEF Waiters
<1>4. IsFiniteSet(D \ S) /\ Cardinality(D \ S) <= Cardinality(D) /\ Cardinality(D \ S) \in Nat
  <2>1. D \ S \subseteq D
    OBVIOUS
  <2>2. QED  BY <1>3, <2>1, FS_Subset, FS_CardinalityType
<1>5. S \cap D # {} => Cardinality(D \ S) < Cardinality(D)
  <2>1. D \ S \subseteq D /\ (S \cap D # {} => D \ S # D)
    OBVIOUS
  <2>2. QED  BY <1>3, <1>4, <2>1, FS_Subset
<1>6. Window \in Nat
  BY InstallAssumption
<1> HIDE DEF g, D
<1>7. Cardinality(D \ S) <= Window /\ (S \cap D # {} => Cardinality(D \ S) < Window)
  BY <1>3, <1>4, <1>5, <1>6
<1>8. Waiters(t, g)
  BY <1>1, <1>2, <1>3, <1>4, <1>7 DEF Waiters
<1>9. QED  BY <1>1, <1>7, <1>8 DEF g, D

\* A waiter is registered when there is room.
LEMMA WaitersMore ==
  ASSUME NEW t, NEW f, Waiters(t, f), NEW n \in Nat, Cardinality(DOMAIN f) < Window
  PROVE  Waiters(t, [s \in DOMAIN f \cup {n} |-> IF s = n THEN "none" ELSE f[s]])
<1> DEFINE D == DOMAIN f
           g == [s \in D \cup {n} |-> IF s = n THEN "none" ELSE f[s]]
<1>1. DOMAIN g = D \cup {n} /\ g \in [D \cup {n} -> Results]
  BY DEF Waiters, Results
<1>2. IsFiniteSet(D) /\ D \in SUBSET Nat /\ Cardinality(D) \in Nat /\ Cardinality(D) < Window
  BY FS_CardinalityType DEF Waiters
<1>3. /\ IsFiniteSet(D \cup {n})
      /\ Cardinality(D \cup {n}) = IF n \in D THEN Cardinality(D) ELSE Cardinality(D) + 1
  BY <1>2, FS_AddElement
<1>4. Window \in Nat
  BY InstallAssumption
<1> HIDE DEF g, D
<1>5. Cardinality(D \cup {n}) <= Window
  BY <1>2, <1>3, <1>4
<1>6. D \cup {n} \in SUBSET Nat
  BY <1>2
<1>7. Waiters(t, g)
  BY <1>1, <1>3, <1>5, <1>6 DEF Waiters
<1>8. QED  BY <1>7 DEF g, D

\* A result reaches a waiter.
LEMMA WaitersHear ==
  ASSUME NEW t, NEW f, Waiters(t, f), NEW g, DOMAIN g = DOMAIN f,
         g = [s \in DOMAIN f |-> g[s]], \A s \in DOMAIN f : g[s] \in Results
  PROVE  Waiters(t, g)
BY DEF Waiters

\* The oldest of some waiters is one of them.
LEMMA OldestWaits ==
  ASSUME NEW S \in SUBSET Nat, S # {}
  PROVE  Min(S) \in S
<1>1. \E x \in S : \A y \in S : x <= y
  BY LeastExists
<1>2. QED  BY <1>1 DEF Min

\* What tells the commands apart.
LEMMA CommandFacts ==
  /\ \A t \in Tasks : /\ EndCmd(t).name = "pet_install_end" /\ EndCmd(t).task = t
                      /\ EndCmd(t) \in Commands
  /\ \A c \in StartCmds : /\ c.name = "pet_install_start" /\ c.task \in Tasks /\ c.slug \in Pets
                          /\ c.seq = 0 /\ c \in Commands
  /\ \A c \in ChunkCmds : /\ c.name = "pet_install_chunk" /\ c.task \in Tasks /\ c.slug = "none"
                          /\ c.seq \in Nat /\ c.data \in Blocks /\ c.data.at = c.seq + 1
                          /\ c.data.of \in Pets /\ c \in Commands
  /\ \A c \in UserCmds : /\ c.task = NoTask /\ c \in Commands
                         /\ \/ c.name = "pet_remove" /\ c.slug \in Pets
                            \/ c.name = "pet_set_active" /\ c.slug \in Pets \cup {"default"}
<1>1. \A t \in Tasks : /\ EndCmd(t).name = "pet_install_end" /\ EndCmd(t).task = t
                       /\ EndCmd(t) \in Commands
  BY DEF EndCmd, Cmd, Commands
<1>2. \A c \in StartCmds : /\ c.name = "pet_install_start" /\ c.task \in Tasks /\ c.slug \in Pets
                           /\ c.seq = 0 /\ c \in Commands
  BY DEF StartCmds, Cmd, Commands
<1>3. \A c \in ChunkCmds : /\ c.name = "pet_install_chunk" /\ c.task \in Tasks /\ c.slug = "none"
                           /\ c.seq \in Nat /\ c.data \in Blocks /\ c.data.at = c.seq + 1
                           /\ c.data.of \in Pets /\ c \in Commands
  BY DEF ChunkCmds, Cmd, Commands, Blocks
<1>4. \A c \in UserCmds : /\ c.task = NoTask /\ c \in Commands
                          /\ \/ c.name = "pet_remove" /\ c.slug \in Pets
                             \/ c.name = "pet_set_active" /\ c.slug \in Pets \cup {"default"}
  BY DEF UserCmds, Cmd, Commands
<1>5. QED  BY <1>1, <1>2, <1>3, <1>4

\* What a task queues is a command.
LEMMA TaskCmds ==
  ASSUME HostInv, NEW t \in Tasks, ask[t].pet \in Pets
  PROVE  /\ StartCmd(t) \in StartCmds /\ StartCmd(t).task = t /\ StartCmd(t).slug = ask[t].pet
         /\ next[t] < Size[ask[t].pet] =>
              /\ ChunkCmd(t, next[t]) \in ChunkCmds
              /\ ChunkCmd(t, next[t]).task = t
              /\ ChunkCmd(t, next[t]).data.of = ask[t].pet
<1> DEFINE p == ask[t].pet
           n == next[t]
<1>1. /\ StartCmd(t) \in StartCmds /\ StartCmd(t).task = t /\ StartCmd(t).slug = p
  BY DEF StartCmd, StartCmds, Cmd
<1>2. ASSUME n < Size[p]
      PROVE  ChunkCmd(t, n) = Cmd("pet_install_chunk", t, "none", n, [of |-> p, at |-> n + 1])
  <2>1. n \in Nat /\ Size[p] \in Nat
    BY NamesFacts DEF HostInv
  <2>2. n + 1 \in 1 .. Size[p]
    BY <1>2, <2>1
  <2> HIDE DEF p, n
  <2>3. Image(p)[n + 1] = [of |-> p, at |-> n + 1]
    BY <2>2 DEF Image
  <2>4. QED  BY <2>3 DEF ChunkCmd, p, n
<1>3. n \in Nat
  BY DEF HostInv
<1>4. QED  BY <1>1, <1>2, <1>3 DEF ChunkCmds, Cmd

-----------------------------------------------------------------------------
(* What is on its way to the device, and in which order                    *)

Under == Range(wire) \cup Range(txq)
Prec  == Pairs(wire) \cup Pairs(txq) \cup (Range(wire) \X Range(txq))

\* Prec, by the queue each of the two is in.
LEMMA PrecDef ==
  ASSUME HostInv
  PROVE  /\ \A a, b : <<a, b>> \in Prec <=> \/ <<a, b>> \in Pairs(wire) \/ <<a, b>> \in Pairs(txq)
                                            \/ a \in Range(wire) /\ b \in Range(txq)
         /\ \A a, b : <<a, b>> \in Prec => a \in Under /\ b \in Under
         /\ Under \subseteq Commands
<1>1. \A a, b : <<a, b>> \in Prec <=> \/ <<a, b>> \in Pairs(wire) \/ <<a, b>> \in Pairs(txq)
                                      \/ a \in Range(wire) /\ b \in Range(txq)
  BY DEF Prec
<1>2. \A a, b : /\ <<a, b>> \in Pairs(wire) => a \in Range(wire) /\ b \in Range(wire)
                /\ <<a, b>> \in Pairs(txq) => a \in Range(txq) /\ b \in Range(txq)
  BY DEF Pairs
<1>3. Under \subseteq Commands
  <2>1. txq \in Seq(Commands) /\ wire \in Seq(Commands)
    BY DEF HostInv
  <2>2. \A q \in Seq(Commands) : Range(q) \subseteq Commands
    BY PairsDef, ElementOfSeq
  <2>3. QED  BY <2>1, <2>2 DEF Under
<1>4. QED  BY <1>1, <1>2, <1>3 DEF Under

\* A command is queued: all the others are before it.
LEMMA PutFacts ==
  ASSUME HostInv, NEW c \in Commands, TxPut(c), wire' = wire
  PROVE  /\ txq' \in Seq(Commands) /\ Len(txq') <= TxMax
         /\ Under' \subseteq Under \cup {c}
         /\ \A a, b : <<a, b>> \in Prec' => <<a, b>> \in Prec \/ (a \in Under /\ b = c)
<1> DEFINE kept == IF Len(txq) >= TxMax THEN Tail(txq) ELSE txq
<1>1. /\ kept \in Seq(Commands) /\ Range(kept) \subseteq Range(txq)
      /\ Pairs(kept) \subseteq Pairs(txq) /\ Len(kept) < TxMax
  <2>1. CASE Len(txq) >= TxMax
    <3>1. txq # <<>> /\ txq \in Seq(Commands)
      BY <2>1, InstallAssumption DEF HostInv
    <3>2. Tail(txq) \in Seq(Commands) /\ Len(Tail(txq)) < TxMax
      <4>1. Tail(txq) \in Seq(Commands) /\ Len(Tail(txq)) = Len(txq) - 1 /\ Len(txq) <= TxMax
        BY <3>1, HeadTailProperties DEF HostInv
      <4>2. TxMax \in Nat /\ Len(txq) \in Nat
        BY <3>1, InstallAssumption, LenProperties
      <4>3. QED  BY <4>1, <4>2
    <3>3. Range(Tail(txq)) \subseteq Range(txq) /\ Pairs(Tail(txq)) \subseteq Pairs(txq)
      BY <3>1, PairsTail
    <3>4. QED  BY <2>1, <3>2, <3>3
  <2>2. CASE ~(Len(txq) >= TxMax)
    <3>1. txq \in Seq(Commands) /\ Len(txq) \in Nat /\ TxMax \in Nat
      BY InstallAssumption, LenProperties DEF HostInv
    <3>2. QED  BY <2>2, <3>1
  <2>3. QED  BY <2>1, <2>2
<1>2. txq' = Append(kept, c)
  BY DEF TxPut
<1> HIDE DEF kept
<1>3. /\ Range(txq') = Range(kept) \cup {c}
      /\ Pairs(txq') = Pairs(kept) \cup (Range(kept) \X {c})
      /\ txq' \in Seq(Commands) /\ Len(txq') <= TxMax
  <2>1. /\ Range(txq') = Range(kept) \cup {c}
        /\ Pairs(txq') = Pairs(kept) \cup (Range(kept) \X {c})
    BY <1>1, <1>2, PairsAppend
  <2>2. txq' \in Seq(Commands) /\ Len(txq') = Len(kept) + 1 /\ Len(kept) \in Nat /\ TxMax \in Nat
    BY <1>1, <1>2, AppendProperties, LenProperties, InstallAssumption
  <2>3. QED  BY <1>1, <2>1, <2>2
<1>4. \A a, b : <<a, b>> \in Pairs(txq') <=> <<a, b>> \in Pairs(kept) \/ (a \in Range(kept) /\ b = c)
  BY <1>3
<1>5. Under' = Range(wire) \cup Range(txq') /\ Under = Range(wire) \cup Range(txq)
  BY DEF Under
<1>6. \A a, b : <<a, b>> \in Prec' <=> \/ <<a, b>> \in Pairs(wire) \/ <<a, b>> \in Pairs(txq')
                                       \/ a \in Range(wire) /\ b \in Range(txq')
  BY DEF Prec
<1>7. QED  BY <1>1, <1>2, <1>3, <1>4, <1>5, <1>6, PrecDef

\* The link loop takes a command from the queue and puts it on the wire.
LEMMA SendFacts ==
  ASSUME HostInv, LinkSend, link = "up"
  PROVE  /\ Under' = Under /\ \A a, b : <<a, b>> \in Prec' <=> <<a, b>> \in Prec
         /\ txq' \in Seq(Commands) /\ wire' \in Seq(Commands) /\ Len(txq') <= TxMax
<1> DEFINE h == Head(txq)
           r == Tail(txq)
<1>1. txq \in Seq(Commands) /\ txq # <<>> /\ wire \in Seq(Commands)
  BY DEF LinkSend, HostInv
<1>2. txq' = r /\ wire' = Append(wire, h) /\ h \in Commands
  BY <1>1, HeadTailProperties DEF LinkSend
<1>0. txq' \in Seq(Commands) /\ wire' \in Seq(Commands) /\ Len(txq') <= TxMax
  <2>1. txq' \in Seq(Commands) /\ Len(txq') = Len(txq) - 1
    BY <1>1, <1>2, HeadTailProperties
  <2>2. Len(txq) <= TxMax /\ Len(txq) \in Nat /\ TxMax \in Nat
    BY <1>1, LenProperties, InstallAssumption DEF HostInv
  <2>3. wire' \in Seq(Commands)
    BY <1>1, <1>2, AppendProperties
  <2>4. QED  BY <2>1, <2>2, <2>3
<1>3. Range(txq) = {h} \cup Range(r) /\ Pairs(txq) = Pairs(r) \cup ({h} \X Range(r))
  BY <1>1, PairsTail
<1> HIDE DEF h, r
<1>4. Range(wire') = Range(wire) \cup {h} /\ Pairs(wire') = Pairs(wire) \cup (Range(wire) \X {h})
  BY <1>1, <1>2, PairsAppend
<1>5. \A a, b : /\ <<a, b>> \in Pairs(wire') <=> <<a, b>> \in Pairs(wire) \/ (a \in Range(wire) /\ b = h)
                /\ <<a, b>> \in Pairs(txq) <=> <<a, b>> \in Pairs(r) \/ (a = h /\ b \in Range(r))
  BY <1>3, <1>4
<1>6. \A a, b : <<a, b>> \in Prec' <=> \/ <<a, b>> \in Pairs(wire') \/ <<a, b>> \in Pairs(r)
                                       \/ a \in Range(wire') /\ b \in Range(r)
  BY <1>2 DEF Prec
<1>7. Under' = Under
  BY <1>2, <1>3, <1>4 DEF Under
<1>8. QED  BY <1>0, <1>3, <1>4, <1>5, <1>6, <1>7, PrecDef

\* Lines and queued commands are lost.
LEMMA LoseFacts ==
  ASSUME HostInv,
         Range(wire') \subseteq Range(wire), Pairs(wire') \subseteq Pairs(wire),
         Range(txq') \subseteq Range(txq), Pairs(txq') \subseteq Pairs(txq)
  PROVE  Under' \subseteq Under /\ \A a, b : <<a, b>> \in Prec' => <<a, b>> \in Prec
<1>1. \A a, b : <<a, b>> \in Prec' => \/ <<a, b>> \in Pairs(wire') \/ <<a, b>> \in Pairs(txq')
                                      \/ a \in Range(wire') /\ b \in Range(txq')
  BY DEF Prec
<1>2. QED  BY <1>1, PrecDef DEF Under

\* The device takes it.
LEMMA TakeFacts ==
  ASSUME HostInv, wire # <<>>, wire' = Tail(wire), txq' = txq
  PROVE  /\ Under = {Head(wire)} \cup Under'
         /\ \A a, b : <<a, b>> \in Prec <=> <<a, b>> \in Prec' \/ (a = Head(wire) /\ b \in Under')
<1> DEFINE h == Head(wire)
           r == Tail(wire)
<1>1. wire \in Seq(Commands) /\ wire' = r
  BY DEF HostInv
<1>2. Range(wire) = {h} \cup Range(r) /\ Pairs(wire) = Pairs(r) \cup ({h} \X Range(r))
  BY <1>1, PairsTail
<1> HIDE DEF h, r
<1>3. \A a, b : <<a, b>> \in Pairs(wire) <=> <<a, b>> \in Pairs(r) \/ (a = h /\ b \in Range(r))
  BY <1>2
<1>4. \A a, b : <<a, b>> \in Prec' <=> \/ <<a, b>> \in Pairs(r) \/ <<a, b>> \in Pairs(txq)
                                       \/ a \in Range(r) /\ b \in Range(txq)
  BY <1>1 DEF Prec
<1>5. Under' = Range(r) \cup Range(txq) /\ Under = {h} \cup Under'
  BY <1>1, <1>2 DEF Under
<1>6. QED  BY <1>2, <1>3, <1>4, <1>5, PrecDef DEF h

-----------------------------------------------------------------------------
(* What a task does to the queue and to itself                             *)

\* No start and no chunk is added to what is under way.
Quiet ==
  /\ \A c \in StartCmds \cup ChunkCmds : c \in Under' => c \in Under
  /\ \A a \in StartCmds, b \in StartCmds \cup ChunkCmds : <<a, b>> \in Prec' => <<a, b>> \in Prec

\* The four ways a task steps: it queues its start; it has its answer; it sends
\* a chunk; it waits on or comes to its end.
Starts(t) == pc[t] = "fetch" /\ pc'[t] = "start" /\ TxPut(StartCmd(t))
Goes(t)   == pc[t] = "start" /\ started[t] = "ok" /\ pc'[t] = "send" /\ Quiet
SendsOne(t) ==
  /\ pc[t] \in {"send", "full"} /\ pc'[t] = "send"
  /\ next[t] < Size[ask[t].pet] /\ TxPut(ChunkCmd(t, next[t]))
Settles(t, u) == \/ pc'[u] = pc[u]
                 \/ pc'[u] \notin Busy \cup {"idle"}
                 \/ u = t /\ pc[u] = "send" /\ pc'[u] = "full"
Tame(t) == Settles(t, t) /\ Quiet

\* The purge of the queue, and a queue that is as it was.
LEMMA PurgeFacts ==
  ASSUME HostInv, wire' = wire, txq' = Purged(txq) \/ txq' = txq
  PROVE  /\ txq' \in Seq(Commands) /\ Len(txq') <= TxMax
         /\ Under' \subseteq Under /\ (\A a, b : <<a, b>> \in Prec' => <<a, b>> \in Prec)
         /\ Quiet
<1>1. /\ txq \in Seq(Commands) /\ Len(txq) <= TxMax /\ Len(txq) \in Nat /\ TxMax \in Nat
  BY LenProperties, InstallAssumption DEF HostInv
<1>2. /\ txq' \in Seq(Commands) /\ Len(txq') <= Len(txq)
      /\ Range(txq') \subseteq Range(txq) /\ Pairs(txq') \subseteq Pairs(txq)
  BY <1>1, PurgedFacts
<1>3. Len(txq') <= TxMax
  BY <1>1, <1>2, LenProperties
<1>4. Under' \subseteq Under /\ \A a, b : <<a, b>> \in Prec' => <<a, b>> \in Prec
  BY <1>2, LoseFacts
<1>5. QED  BY <1>2, <1>3, <1>4 DEF Quiet

\* The types after a step of t.
LEMMA TaskHost ==
  ASSUME HostInv, NEW t \in Tasks, Elsewhere, NEW w \in Ways, At(t, w),
         w \in Busy => pc[t] \in Busy,
         UNCHANGED <<ask, started>>, txq' \in Seq(Commands), Len(txq') <= TxMax,
         next' \in [Tasks -> Nat], \A u \in Tasks : u = t \/ next'[u] = next[u],
         acks' = [u \in Tasks |-> acks'[u]], \A u \in Tasks : u = t \/ acks'[u] = acks[u],
         Waiters(t, acks'[t]),
         w = "full" => next'[t] < Size[ask[t].pet] /\ DOMAIN acks'[t] # {}
  PROVE  HostInv' /\ pc'[t] = w /\ \A u \in Tasks : u = t \/ pc'[u] = pc[u]
<1>1. pc' \in [Tasks -> Ways] /\ pc'[t] = w /\ \A u \in Tasks : u = t \/ pc'[u] = pc[u]
  BY DEF HostInv, At
<1>2. wire' = wire /\ events' = events /\ misled' = misled /\ ask' = ask /\ started' = started
  BY DEF Elsewhere, linkVars
<1>3. \A u \in Tasks : pc'[u] \in Busy => ask'[u].pet \in Pets
  BY <1>1, <1>2 DEF HostInv
<1>4. \A u \in Tasks : pc'[u] = "full" => next'[u] < Size[ask'[u].pet] /\ Pending(u)' # {}
  BY <1>1, <1>2 DEF HostInv, Pending
<1>5. \A u \in Tasks : Waiters(u, acks'[u])
  BY DEF HostInv
<1>6. QED  BY <1>1, <1>2, <1>3, <1>4, <1>5 DEF HostInv

\* An install that is over.
LEMMA EndsFacts ==
  ASSUME HostInv, NEW t \in Tasks, pc[t] \in Busy, Elsewhere,
         NEW how \in {"failed", "unfetched"}, Ends(t, how)
  PROVE  HostInv' /\ Tame(t) /\ \A u \in Tasks : u = t \/ pc'[u] = pc[u]
<1>1. txq' \in Seq(Commands) /\ Len(txq') <= TxMax /\ Quiet
  BY PurgeFacts DEF Ends, Elsewhere, linkVars
<1>2. how \in Ways /\ how \notin Busy \cup {"idle"} /\ how # "full"
  BY DEF Ways, Busy
<1>3. /\ next' \in [Tasks -> Nat] /\ \A u \in Tasks : u = t \/ next'[u] = next[u]
      /\ acks' = [u \in Tasks |-> acks'[u]] /\ acks'[t] = <<>>
      /\ \A u \in Tasks : u = t \/ acks'[u] = acks[u]
  BY DEF Ends, HostInv
<1>4. Waiters(t, acks'[t])
  BY <1>3, NoWaiters
<1>5. At(t, how) /\ UNCHANGED <<ask, started>>
  BY DEF Ends
<1>6. HostInv' /\ pc'[t] = how /\ \A u \in Tasks : u = t \/ pc'[u] = pc[u]
  BY <1>1, <1>2, <1>3, <1>4, <1>5, TaskHost
<1>7. QED  BY <1>1, <1>2, <1>6 DEF Tame, Settles

\* A chunk that is sent.
LEMMA SendChunkFacts ==
  ASSUME HostInv, NEW t \in Tasks, pc[t] \in {"send", "full"}, Elsewhere,
         next[t] < Size[ask[t].pet],
         NEW rest, Waiters(t, rest), Cardinality(DOMAIN rest) < Window, SendChunk(t, rest)
  PROVE  HostInv' /\ SendsOne(t) /\ \A u \in Tasks : u = t \/ pc'[u] = pc[u]
<1>0. pc[t] \in Busy /\ ask[t].pet \in Pets /\ wire' = wire
  BY DEF HostInv, Busy, Elsewhere, linkVars
<1>1. ChunkCmd(t, next[t]) \in Commands
  BY <1>0, TaskCmds, CommandFacts
<1>2. txq' \in Seq(Commands) /\ Len(txq') <= TxMax
  BY <1>0, <1>1, PutFacts DEF SendChunk
<1>3. "send" \in Ways /\ "send" # "full"
  BY DEF Ways, Busy
<1>4. next[t] \in Nat /\ next' \in [Tasks -> Nat] /\ \A u \in Tasks : u = t \/ next'[u] = next[u]
  BY DEF SendChunk, HostInv
<1> DEFINE f == [s \in DOMAIN rest \cup {next[t]} |-> IF s = next[t] THEN "none" ELSE rest[s]]
<1>5. acks' = [acks EXCEPT ![t] = f]
  BY DEF SendChunk
<1>6. Waiters(t, f)
  BY <1>4, WaitersMore
<1> HIDE DEF f
<1>7. /\ acks' = [u \in Tasks |-> acks'[u]] /\ acks'[t] = f
      /\ \A u \in Tasks : u = t \/ acks'[u] = acks[u]
  BY <1>5 DEF HostInv
<1>8. At(t, "send") /\ UNCHANGED <<ask, started>> /\ TxPut(ChunkCmd(t, next[t]))
  BY DEF SendChunk
<1>9. HostInv' /\ pc'[t] = "send" /\ \A u \in Tasks : u = t \/ pc'[u] = pc[u]
  BY <1>0, <1>2, <1>3, <1>4, <1>6, <1>7, <1>8, TaskHost
<1>10. QED  BY <1>8, <1>9 DEF SendsOne

\* A step that touches nothing but where t is and its waiters.
LEMMA StillFacts ==
  ASSUME HostInv, NEW t \in Tasks, Elsewhere, NEW w \in Ways, At(t, w),
         w \in Busy => pc[t] \in Busy,
         UNCHANGED <<ask, started, next, txq>>,
         NEW f, Waiters(t, f), acks' = [acks EXCEPT ![t] = f],
         w = "full" => next[t] < Size[ask[t].pet] /\ DOMAIN f # {}
  PROVE  HostInv' /\ Quiet /\ pc'[t] = w /\ \A u \in Tasks : u = t \/ pc'[u] = pc[u]
<1>1. txq' \in Seq(Commands) /\ Len(txq') <= TxMax /\ Quiet
  BY PurgeFacts DEF Elsewhere, linkVars
<1>3. /\ next' \in [Tasks -> Nat] /\ next' = next /\ ask' = ask
      /\ acks' = [u \in Tasks |-> acks'[u]] /\ acks'[t] = f
      /\ \A u \in Tasks : u = t \/ acks'[u] = acks[u]
  BY DEF HostInv
<1>4. QED  BY <1>1, <1>3, TaskHost

\* The chunk waiters of a task.
LEMMA PendingFacts ==
  ASSUME HostInv, NEW t \in Tasks
  PROVE  /\ Waiters(t, acks[t]) /\ Pending(t) = DOMAIN acks[t] /\ Pending(t) \in SUBSET Nat
         /\ Settled(t) \subseteq Pending(t)
BY DEF HostInv, Waiters, Pending, Settled

\* Every step of an install task is of one of the four kinds.
LEMMA TaskFacts ==
  ASSUME HostInv, NEW t \in Tasks, TaskStep(t)
  PROVE  /\ HostInv' /\ UNCHANGED <<petVars, wire, events, link, ask, started, misled>>
         /\ \A u \in Tasks : u = t \/ pc'[u] = pc[u]
         /\ Starts(t) \/ Goes(t) \/ SendsOne(t) \/ Tame(t)
<1>0. Elsewhere /\ UNCHANGED <<petVars, wire, events, link, misled>>
  BY DEF TaskStep, Elsewhere, linkVars
<1> DEFINE Others == \A u \in Tasks : u = t \/ pc'[u] = pc[u]
           Kinds  == Starts(t) \/ Goes(t) \/ SendsOne(t) \/ Tame(t)
           Goal   == HostInv' /\ UNCHANGED <<ask, started>> /\ Others /\ Kinds
<1> SUFFICES Goal
  BY <1>0
<1>1. ASSUME NEW how \in {"failed", "unfetched"}, Ends(t, how), pc[t] \in Busy PROVE Goal
  <2>1. HostInv' /\ Tame(t) /\ Others
    BY <1>0, <1>1, EndsFacts
  <2>2. QED  BY <1>1, <2>1 DEF Ends
<1>2. CASE Fetched(t)
  <2>1. pc[t] = "fetch" /\ pc[t] \in Busy /\ At(t, "start") /\ TxPut(StartCmd(t))
        /\ UNCHANGED <<ask, started, next, acks>> /\ wire' = wire
    BY <1>0, <1>2 DEF Fetched, Busy
  <2>2. StartCmd(t) \in Commands
    <3>1. ask[t].pet \in Pets
      BY <2>1 DEF HostInv
    <3>2. QED  BY <3>1, TaskCmds, CommandFacts
  <2>3. txq' \in Seq(Commands) /\ Len(txq') <= TxMax
    BY <2>1, <2>2, PutFacts
  <2>4. "start" \in Ways /\ "start" # "full"
    BY DEF Ways, Busy
  <2>5. /\ next' \in [Tasks -> Nat] /\ (\A u \in Tasks : u = t \/ next'[u] = next[u])
        /\ acks' = [u \in Tasks |-> acks'[u]] /\ (\A u \in Tasks : u = t \/ acks'[u] = acks[u])
        /\ Waiters(t, acks'[t])
    BY <2>1 DEF HostInv
  <2>6. HostInv' /\ pc'[t] = "start" /\ Others
    BY <1>0, <2>1, <2>3, <2>4, <2>5, TaskHost
  <2>7. QED  BY <2>1, <2>6 DEF Starts
<1>3. CASE FetchFails(t)
  BY <1>1, <1>3 DEF FetchFails, Busy
<1>4. CASE StartTimeout(t)
  BY <1>1, <1>4 DEF StartTimeout, Fails, Busy
<1>5. CASE StartAnswered(t)
  <2>1. pc[t] = "start" /\ pc[t] \in Busy
    BY <1>5 DEF StartAnswered, Busy
  <2>2. CASE started[t] = "ok"
    <3>1. At(t, "send") /\ UNCHANGED <<ask, started, next, acks, txq>>
      BY <1>5, <2>2 DEF StartAnswered
    <3>2. acks' = [acks EXCEPT ![t] = acks[t]] /\ Waiters(t, acks[t]) /\ "send" \in Ways /\ "send" # "full"
      BY <3>1 DEF HostInv, Busy, Ways
    <3>3. HostInv' /\ Quiet /\ pc'[t] = "send" /\ Others
      BY <1>0, <2>1, <3>1, <3>2, StillFacts
    <3>4. QED  BY <2>1, <2>2, <3>1, <3>3 DEF Goes
  <2>3. CASE started[t] # "ok"
    BY <1>1, <1>5, <2>1, <2>3 DEF StartAnswered, Fails
  <2>4. QED  BY <2>2, <2>3
<1>6. CASE Drain(t)
  <2> DEFINE rest == Without(acks[t], Settled(t))
  <2>1. pc[t] = "send" /\ pc[t] \in Busy /\ next[t] < Size[ask[t].pet]
    BY <1>6 DEF Drain, Busy
  <2>2. Waiters(t, rest)
    BY PendingFacts, WaitersLess
  <2>3. \/ Fails(t)
        \/ HasRoom(rest) /\ SendChunk(t, rest)
        \/ /\ ~HasRoom(rest) /\ At(t, "full") /\ acks' = [acks EXCEPT ![t] = rest]
           /\ UNCHANGED <<ask, started, next, txq>>
    BY <1>6, Zenon DEF Drain
  <2> HIDE DEF rest
  <2>4. CASE Fails(t)
    BY <1>1, <2>1, <2>4 DEF Fails
  <2>5. CASE HasRoom(rest) /\ SendChunk(t, rest)
    <3>1. Cardinality(DOMAIN rest) < Window
      BY <2>5 DEF HasRoom
    <3>2. HostInv' /\ SendsOne(t) /\ Others
      BY <1>0, <2>1, <2>2, <2>5, <3>1, SendChunkFacts
    <3>3. QED  BY <2>1, <2>5, <3>2 DEF SendChunk
  <2>6. CASE /\ ~HasRoom(rest) /\ At(t, "full") /\ acks' = [acks EXCEPT ![t] = rest]
             /\ UNCHANGED <<ask, started, next, txq>>
    <3>1. "full" \in Ways /\ DOMAIN rest # {}
      <4>1. 0 < Window /\ Cardinality({}) = 0
        BY InstallAssumption, FS_EmptySet
      <4>2. QED  BY <2>6, <4>1 DEF HasRoom, Busy, Ways
    <3>2. HostInv' /\ Quiet /\ pc'[t] = "full" /\ Others
      BY <1>0, <2>1, <2>2, <2>6, <3>1, StillFacts
    <3>3. QED  BY <2>1, <2>6, <3>2 DEF Tame, Settles
  <2>7. QED  BY <2>3, <2>4, <2>5, <2>6
<1>7. CASE WindowOpens(t)
  <2> DEFINE s == Min(Pending(t))
             rest == Without(acks[t], {s})
  <2>1. /\ pc[t] = "full" /\ pc[t] \in Busy
        /\ next[t] < Size[ask[t].pet] /\ Pending(t) # {} /\ s \in Pending(t)
    BY <1>7, OldestWaits, PendingFacts DEF WindowOpens, Busy, HostInv
  <2>2. Fails(t) \/ SendChunk(t, rest)
    BY <1>7 DEF WindowOpens
  <2>3. Waiters(t, rest) /\ Cardinality(DOMAIN rest) < Window
    <3> HIDE DEF s
    <3>1. {s} \cap DOMAIN acks[t] # {} /\ Waiters(t, acks[t])
      BY <2>1, PendingFacts
    <3>2. QED  BY <3>1, WaitersLess
  <2> HIDE DEF s, rest
  <2>4. CASE Fails(t)
    BY <1>1, <2>1, <2>4 DEF Fails
  <2>5. CASE SendChunk(t, rest)
    <3>1. HostInv' /\ SendsOne(t) /\ Others
      BY <1>0, <2>1, <2>3, <2>5, SendChunkFacts
    <3>2. QED  BY <2>1, <2>5, <3>1 DEF SendChunk
  <2>6. QED  BY <2>2, <2>4, <2>5
<1>8. CASE LastAcks(t)
  <2> DEFINE s == Min(Pending(t))
             rest == Without(acks[t], {s})
  <2>1. pc[t] = "send" /\ pc[t] \in Busy
    BY <1>8 DEF LastAcks, Busy
  <2>2. \/ Fails(t)
        \/ acks' = [acks EXCEPT ![t] = rest] /\ UNCHANGED <<pc, ask, started, next, txq>>
    BY <1>8 DEF LastAcks
  <2>3. Waiters(t, rest)
    BY PendingFacts, WaitersLess
  <2> HIDE DEF s, rest
  <2>4. CASE Fails(t)
    BY <1>1, <2>1, <2>4 DEF Fails
  <2>5. CASE acks' = [acks EXCEPT ![t] = rest] /\ UNCHANGED <<pc, ask, started, next, txq>>
    <3>1. At(t, "send") /\ "send" \in Ways /\ "send" # "full"
      BY <2>1, <2>5 DEF At, HostInv, Busy, Ways
    <3>2. HostInv' /\ Quiet /\ Others
      BY <1>0, <2>1, <2>3, <2>5, <3>1, StillFacts
    <3>3. QED  BY <2>1, <2>5, <3>2 DEF Tame, Settles
  <2>6. QED  BY <2>2, <2>4, <2>5
<1>9. CASE Finish(t)
  <2>1. pc[t] = "send" /\ pc[t] \in Busy /\ At(t, "complete") /\ TxPut(EndCmd(t))
        /\ UNCHANGED <<ask, started, next, acks>> /\ wire' = wire
    BY <1>0, <1>9 DEF Finish, Busy
  <2>2. EndCmd(t) \in Commands /\ EndCmd(t) \notin StartCmds \cup ChunkCmds
    BY CommandFacts
  <2>3. /\ txq' \in Seq(Commands) /\ Len(txq') <= TxMax
        /\ Under' \subseteq Under \cup {EndCmd(t)}
        /\ \A a, b : <<a, b>> \in Prec' => <<a, b>> \in Prec \/ (a \in Under /\ b = EndCmd(t))
    BY <2>1, <2>2, PutFacts
  <2>4. "complete" \in Ways /\ "complete" # "full" /\ "complete" \notin Busy \cup {"idle"}
    BY DEF Ways, Busy
  <2>5. /\ next' \in [Tasks -> Nat] /\ (\A u \in Tasks : u = t \/ next'[u] = next[u])
        /\ acks' = [u \in Tasks |-> acks'[u]] /\ (\A u \in Tasks : u = t \/ acks'[u] = acks[u])
        /\ Waiters(t, acks'[t])
    BY <2>1 DEF HostInv
  <2>6. HostInv' /\ pc'[t] = "complete" /\ Others
    BY <1>0, <2>1, <2>3, <2>4, <2>5, TaskHost
  <2>7. Quiet
    BY <2>2, <2>3 DEF Quiet
  <2>8. QED  BY <2>1, <2>4, <2>6, <2>7 DEF Tame, Settles
<1>10. CASE AckTimeout(t)
  <2>1. PICK s \in Pending(t) : acks' = [acks EXCEPT ![t][s] = "late"]
    BY <1>10 DEF AckTimeout
  <2> DEFINE f == [acks[t] EXCEPT ![s] = "late"]
  <2>2. acks' = [acks EXCEPT ![t] = f] /\ DOMAIN f = DOMAIN acks[t]
    BY <2>1 DEF HostInv
  <2>3. Waiters(t, f)
    <3>1. f = [x \in DOMAIN acks[t] |-> f[x]] /\ \A x \in DOMAIN acks[t] : f[x] \in Results
      BY PendingFacts DEF Results, Waiters
    <3>2. QED  BY <2>2, <3>1, PendingFacts, WaitersHear
  <2> HIDE DEF f
  <2>4. At(t, pc[t]) /\ pc[t] \in Ways /\ UNCHANGED <<pc, ask, started, next, txq>>
    BY <1>10 DEF AckTimeout, At, HostInv
  <2>5. pc[t] = "full" => next[t] < Size[ask[t].pet] /\ DOMAIN f # {}
    BY <2>2 DEF HostInv, Pending
  <2>6. HostInv' /\ Quiet /\ Others
    BY <1>0, <1>10, <2>2, <2>3, <2>4, <2>5, StillFacts
  <2>7. QED  BY <1>10, <2>4, <2>6 DEF Tame, Settles
<1>11. QED
  BY <1>2, <1>3, <1>4, <1>5, <1>6, <1>7, <1>8, <1>9, <1>10 DEF TaskStep

-----------------------------------------------------------------------------
(* Why a chunk meets the session of its own install                        *)

\* The answers to starts on their way to the agent.
Heard == {e \in Range(events) : e.name = "pet_install_started"}

\* The device has handled the start of t, and no other start is under way.
Ready(t) ==
  /\ \A c \in StartCmds : c \notin Under
  /\ s_install_file # "none" => s_install_file = ask[t].pet

\* Installs come one at a time.
Solo == \A t, u \in Tasks : pc[t] \in Busy /\ pc[u] \in Busy => t = u

\* Of an install that has not begun nothing is under way.
Unsaid(t) ==
  /\ started[t] = "none"
  /\ \A c \in StartCmds : c \in Under => c.task # t
  /\ \A e \in Heard : e.task # t

\* The start of t is the last one under way; once it is answered, none is left.
Asked(t) ==
  /\ \A c \in StartCmds : c \in Under /\ c.task = t =>
       /\ c.slug = ask[t].pet
       /\ \A b \in StartCmds : <<c, b>> \notin Prec
  /\ \A e \in Heard : e.task = t /\ e.ok => Ready(t)
  /\ started[t] = "ok" /\ ~misled => Ready(t)

\* The open session is that of the chunks under way, and no start is before them.
Chunks ==
  \A c \in ChunkCmds : c \in Under =>
    /\ s_install_file # "none" => s_install_file = c.data.of
    /\ \A b \in StartCmds : <<b, c>> \notin Prec

Order ==
  /\ Solo
  /\ \A t \in Tasks : pc[t] \in {"idle", "fetch"} => Unsaid(t)
  /\ \A t \in Tasks : pc[t] = "start" => Asked(t)
  /\ ~misled => /\ \A t \in Tasks : pc[t] \in {"send", "full"} => Ready(t)
                /\ Chunks

\* A step that adds no start, no answer to one and no chunk, and leaves the
\* session as it is or ends it.
LEMMA OrderKept ==
  ASSUME HostInv, Order, Quiet, Heard' \subseteq Heard,
         s_install_file' \in {s_install_file, "none"},
         UNCHANGED <<ask, started, misled>>, NEW t, \A u \in Tasks : Settles(t, u)
  PROVE  Order'
<1>1. /\ \A c \in StartCmds \cup ChunkCmds : c \in Under' => c \in Under
      /\ \A a \in StartCmds, b \in StartCmds \cup ChunkCmds : <<a, b>> \in Prec' => <<a, b>> \in Prec
  BY DEF Quiet
<1>2. \A u \in Tasks : Ready(u) => Ready(u)'
  BY <1>1 DEF Ready
<1>3. Solo'
  BY DEF Order, Solo, Settles, Busy
<1>4. ASSUME NEW u \in Tasks, pc'[u] \in {"idle", "fetch"} PROVE Unsaid(u)'
  <2>1. Unsaid(u)
    BY <1>4 DEF Order, Settles, Busy
  <2>2. QED  BY <1>1, <2>1 DEF Unsaid
<1>5. ASSUME NEW u \in Tasks, pc'[u] = "start" PROVE Asked(u)'
  <2>1. Asked(u)
    BY <1>5 DEF Order, Settles, Busy
  <2>2. QED  BY <1>1, <1>2, <2>1 DEF Asked
<1>6. ASSUME ~misled', NEW u \in Tasks, pc'[u] \in {"send", "full"} PROVE Ready(u)'
  <2>1. Ready(u)
    BY <1>6 DEF Order, Settles, Busy
  <2>2. QED  BY <1>2, <2>1
<1>7. ASSUME ~misled' PROVE Chunks'
  <2>1. Chunks
    BY <1>7 DEF Order
  <2>2. QED  BY <1>1, <2>1 DEF Chunks
<1>8. QED  BY <1>3, <1>4, <1>5, <1>6, <1>7 DEF Order

\* A task steps.
LEMMA TaskOrder ==
  ASSUME HostInv, Order, NEW t \in Tasks, TaskStep(t)
  PROVE  HostInv' /\ Order'
<1>1. /\ HostInv' /\ UNCHANGED <<ask, started, misled, wire>>
      /\ s_install_file' = s_install_file /\ Heard' = Heard
      /\ \A u \in Tasks : u = t \/ pc'[u] = pc[u]
      /\ Starts(t) \/ Goes(t) \/ SendsOne(t) \/ Tame(t)
  BY TaskFacts DEF petVars, session, Heard
<1>2. CASE Tame(t)
  <2>1. Quiet /\ \A u \in Tasks : Settles(t, u)
    BY <1>1, <1>2 DEF Tame, Settles
  <2>2. QED  BY <1>1, <2>1, OrderKept
<1>3. CASE Starts(t)
  <2> DEFINE c == StartCmd(t)
  <2>1. pc[t] = "fetch" /\ pc'[t] = "start" /\ TxPut(c) /\ Unsaid(t)
    BY <1>3 DEF Starts, Order
  <2>2. c \in StartCmds /\ c.task = t /\ c.slug = ask[t].pet /\ c \in Commands /\ c \notin ChunkCmds
    <3>1. ask[t].pet \in Pets
      BY <2>1 DEF HostInv, Busy
    <3>2. QED  BY <3>1, TaskCmds, CommandFacts
  <2> HIDE DEF c
  <2>3. /\ Under' \subseteq Under \cup {c}
        /\ \A a, b : <<a, b>> \in Prec' => <<a, b>> \in Prec \/ (a \in Under /\ b = c)
        /\ \A a, b : <<a, b>> \in Prec => a \in Under /\ b \in Under
    BY <1>1, <2>1, <2>2, PutFacts, PrecDef
  <2>4. c \notin Under /\ \A u \in Tasks : pc[u] \in Busy => u = t
    BY <2>1, <2>2 DEF Unsaid, Order, Solo, Busy
  <2>5. Solo'
    BY <1>1, <2>1, <2>4 DEF Solo
  <2>6. ASSUME NEW u \in Tasks, pc'[u] \in {"idle", "fetch"} PROVE Unsaid(u)'
    <3>1. u # t /\ Unsaid(u)
      BY <1>1, <2>1, <2>6 DEF Order
    <3>2. QED  BY <1>1, <2>2, <2>3, <3>1 DEF Unsaid
  <2>7. ASSUME NEW u \in Tasks, pc'[u] = "start" PROVE Asked(u)'
    <3>1. u = t
      BY <1>1, <2>4, <2>7 DEF Busy
    <3>2. \A x \in StartCmds : x \in Under' /\ x.task = t => x = c
      BY <2>1, <2>3 DEF Unsaid
    <3>3. \A b \in StartCmds : <<c, b>> \notin Prec'
      BY <2>3, <2>4
    <3>4. started'[t] = "none" /\ \A e \in Heard' : e.task # t
      BY <1>1, <2>1 DEF Unsaid
    <3>5. QED  BY <1>1, <2>2, <3>1, <3>2, <3>3, <3>4 DEF Asked
  <2>8. \A u \in Tasks : pc'[u] \notin {"send", "full"}
    BY <1>1, <2>1, <2>4 DEF Busy
  <2>9. ASSUME ~misled' PROVE Chunks'
    <3>1. Chunks
      BY <1>1, <2>9 DEF Order
    <3>2. QED  BY <1>1, <2>2, <2>3, <3>1 DEF Chunks
  <2>10. QED  BY <1>1, <2>5, <2>6, <2>7, <2>8, <2>9 DEF Order
<1>4. CASE Goes(t)
  <2>1. pc[t] = "start" /\ started[t] = "ok" /\ pc'[t] = "send" /\ Quiet /\ Asked(t)
    BY <1>4 DEF Goes, Order
  <2>2. /\ \A c \in StartCmds \cup ChunkCmds : c \in Under' => c \in Under
        /\ \A a \in StartCmds, b \in StartCmds \cup ChunkCmds : <<a, b>> \in Prec' => <<a, b>> \in Prec
        /\ \A u \in Tasks : pc[u] \in Busy => u = t
    BY <2>1 DEF Quiet, Order, Solo, Busy
  <2>3. Solo'
    BY <1>1, <2>1, <2>2 DEF Solo
  <2>4. ASSUME NEW u \in Tasks, pc'[u] \in {"idle", "fetch"} PROVE Unsaid(u)'
    <3>1. Unsaid(u)
      BY <1>1, <2>1, <2>4 DEF Order
    <3>2. QED  BY <1>1, <2>2, <3>1 DEF Unsaid
  <2>5. \A u \in Tasks : pc'[u] # "start"
    BY <1>1, <2>1, <2>2 DEF Busy
  <2>6. ASSUME ~misled', NEW u \in Tasks, pc'[u] \in {"send", "full"} PROVE Ready(u)'
    <3>1. u = t /\ Ready(t)
      BY <1>1, <2>1, <2>2, <2>6 DEF Asked, Busy
    <3>2. QED  BY <1>1, <2>2, <3>1 DEF Ready
  <2>7. ASSUME ~misled' PROVE Chunks'
    <3>1. Chunks
      BY <1>1, <2>7 DEF Order
    <3>2. QED  BY <1>1, <2>2, <3>1 DEF Chunks
  <2>8. QED  BY <1>1, <2>3, <2>4, <2>5, <2>6, <2>7 DEF Order
<1>5. CASE SendsOne(t)
  <2> DEFINE c == ChunkCmd(t, next[t])
  <2>1. pc[t] \in {"send", "full"} /\ pc'[t] = "send" /\ TxPut(c) /\ next[t] < Size[ask[t].pet]
    BY <1>5 DEF SendsOne
  <2>2. c \in ChunkCmds /\ c.data.of = ask[t].pet /\ c \in Commands /\ c \notin StartCmds
    <3>1. ask[t].pet \in Pets
      BY <2>1 DEF HostInv, Busy
    <3>2. QED  BY <2>1, <3>1, TaskCmds, CommandFacts
  <2> HIDE DEF c
  <2>3. /\ Under' \subseteq Under \cup {c}
        /\ \A a, b : <<a, b>> \in Prec' => <<a, b>> \in Prec \/ (a \in Under /\ b = c)
    BY <1>1, <2>1, <2>2, PutFacts
  <2>4. \A u \in Tasks : pc[u] \in Busy => u = t
    BY <2>1 DEF Order, Solo, Busy
  <2>5. Solo'
    BY <1>1, <2>1, <2>4 DEF Solo
  <2>6. ASSUME NEW u \in Tasks, pc'[u] \in {"idle", "fetch"} PROVE Unsaid(u)'
    <3>1. Unsaid(u)
      BY <1>1, <2>1, <2>6 DEF Order
    <3>2. QED  BY <1>1, <2>2, <2>3, <3>1 DEF Unsaid
  <2>7. \A u \in Tasks : pc'[u] # "start"
    BY <1>1, <2>1, <2>4 DEF Busy
  <2>8. ASSUME ~misled' PROVE Chunks' /\ \A u \in Tasks : pc'[u] \in {"send", "full"} => Ready(u)'
    <3>1. Chunks /\ Ready(t)
      BY <1>1, <2>1, <2>8 DEF Order
    <3>2. Ready(t)'
      BY <1>1, <2>2, <2>3, <3>1 DEF Ready
    <3>3. \A u \in Tasks : pc'[u] \in {"send", "full"} => u = t
      BY <1>1, <2>4 DEF Busy
    <3>4. ASSUME NEW x \in ChunkCmds, x \in Under'
          PROVE  /\ s_install_file' # "none" => s_install_file' = x.data.of
                 /\ \A b \in StartCmds : <<b, x>> \notin Prec'
      <4>1. x = c \/ x \in Under
        BY <2>3, <3>4
      <4>2. \A b \in StartCmds : b \notin Under
        BY <3>1 DEF Ready
      <4>3. \A b \in StartCmds : <<b, x>> \notin Prec'
        BY <2>3, <4>2, PrecDef
      <4>4. s_install_file' # "none" => s_install_file' = x.data.of
        BY <1>1, <2>2, <3>1, <4>1 DEF Chunks, Ready
      <4>5. QED  BY <4>3, <4>4
    <3>5. QED  BY <3>2, <3>3, <3>4 DEF Chunks
  <2>9. QED  BY <1>1, <2>5, <2>6, <2>7, <2>8 DEF Order
<1>6. QED  BY <1>1, <1>2, <1>3, <1>4, <1>5

\* Some lines of a queue: what it was less some of them, in the same order.
LEMMA LessFacts ==
  ASSUME NEW S, NEW q \in Seq(S)
  PROVE  /\ \A i \in 0 .. Len(q) : SubSeq(q, 1, i) \in Seq(S)
         /\ \A i \in 1 .. Len(q) : RemoveAt(q, i) \in Seq(S)
         /\ q # <<>> => Tail(q) \in Seq(S) /\ Range(Tail(q)) \subseteq Range(q)
                        /\ Head(q) \in S /\ Head(q) \in Range(q)
<1>1. Len(q) \in Nat /\ \A i \in 1 .. Len(q) : q[i] \in S
  BY LenProperties, ElementOfSeq
<1>2. \A i \in 0 .. Len(q) : SubSeq(q, 1, i) \in Seq(S)
  BY <1>1, SubSeqProperties
<1>3. ASSUME NEW i \in 1 .. Len(q) PROVE RemoveAt(q, i) \in Seq(S)
  <2>1. SubSeq(q, 1, i - 1) \in Seq(S) /\ SubSeq(q, i + 1, Len(q)) \in Seq(S)
    BY <1>1, SubSeqProperties
  <2>2. SubSeq(q, 1, i - 1) \o SubSeq(q, i + 1, Len(q)) \in Seq(S)
    BY <2>1, ConcatProperties
  <2>3. QED  BY <2>2 DEF RemoveAt
<1>4. q # <<>> => Tail(q) \in Seq(S) /\ Range(Tail(q)) \subseteq Range(q)
                  /\ Head(q) \in S /\ Head(q) \in Range(q)
  <2>1. q # <<>> => Range(q) = {Head(q)} \cup Range(Tail(q))
    BY PairsTail
  <2>2. QED  BY <2>1, HeadTailProperties
<1>5. QED  BY <1>2, <1>3, <1>4

\* The types after a step that moves no task.
LEMMA HostKept ==
  ASSUME HostInv, UNCHANGED <<pc, ask, next>>,
         txq' \in Seq(Commands), Len(txq') <= TxMax, wire' \in Seq(Commands),
         events' \in Seq(Answered), misled' \in BOOLEAN,
         started' \in [Tasks -> {"none", "ok", "refused"}],
         acks' = [t \in Tasks |-> acks'[t]],
         \A t \in Tasks : Waiters(t, acks'[t]) /\ DOMAIN acks'[t] = DOMAIN acks[t]
  PROVE  HostInv'
<1>1. \A t \in Tasks : pc'[t] = "full" => next'[t] < Size[ask'[t].pet] /\ Pending(t)' # {}
  BY DEF HostInv, Pending
<1>2. QED  BY <1>1 DEF HostInv

\* Lines, answers and queued commands that are lost or sent on, and no more.
LEMMA LinkKept ==
  ASSUME HostInv, Order, UNCHANGED <<taskVars, misled>>,
         txq' \in Seq(Commands), Len(txq') <= TxMax, wire' \in Seq(Commands),
         events' \in Seq(Answered), Heard' \subseteq Heard, Quiet,
         s_install_file' \in {s_install_file, "none"}
  PROVE  HostInv' /\ Order'
<1>1. UNCHANGED <<pc, ask, started, next, acks, misled>>
  BY DEF taskVars
<1>2. HostInv'
  <2>1. /\ \A t \in Tasks : Waiters(t, acks'[t]) /\ DOMAIN acks'[t] = DOMAIN acks[t]
        /\ acks' = [t \in Tasks |-> acks'[t]] /\ misled' \in BOOLEAN
        /\ started' \in [Tasks -> {"none", "ok", "refused"}]
    BY <1>1 DEF HostInv
  <2>2. QED  BY <1>1, <2>1, HostKept
<1>4. \A u \in Tasks : Settles(1, u)
  BY <1>1 DEF Settles
<1>5. Order'
  BY <1>1, <1>4, OrderKept
<1>6. QED  BY <1>2, <1>5

\* The user asks for a pet: no install is under way.
LEMMA AskOrder ==
  ASSUME HostInv, Order, NEW t \in Tasks, UserAsks(t)
  PROVE  HostInv' /\ Order'
<1>1. /\ pc[t] = "idle" /\ (\A u \in Tasks : pc[u] \notin Busy) /\ pc' = [pc EXCEPT ![t] = "fetch"]
      /\ UNCHANGED <<started, next, acks, txq, wire, events, misled>>
      /\ s_install_file' = s_install_file
      /\ \E a \in Asks : ask' = [ask EXCEPT ![t] = a]
  BY DEF UserAsks, Ask, MayAsk, At, Elsewhere, linkVars, petVars, session
<1>2. /\ pc' \in [Tasks -> Ways] /\ pc'[t] = "fetch"
      /\ \A u \in Tasks : u = t \/ (pc'[u] = pc[u] /\ pc'[u] \notin Busy)
  BY <1>1 DEF HostInv, Ways, Busy
<1>3. ask' \in [Tasks -> Asks \cup {NoAsk}] /\ ask'[t].pet \in Pets
  BY <1>1, InstallAssumption DEF HostInv
<1>4. HostInv'
  <2>1. \A u \in Tasks : pc'[u] \in Busy => ask'[u].pet \in Pets
    BY <1>2, <1>3
  <2>2. \A u \in Tasks : pc'[u] # "full"
    BY <1>2 DEF Busy
  <2>3. QED  BY <1>1, <1>2, <1>3, <2>1, <2>2 DEF HostInv
<1>5. Under' = Under /\ Prec' = Prec /\ Heard' = Heard
  BY <1>1 DEF Under, Prec, Heard
<1>6. Solo' /\ \A u \in Tasks : pc'[u] \notin {"start", "send", "full"}
  BY <1>2 DEF Solo, Busy
<1>7. ASSUME NEW u \in Tasks, pc'[u] \in {"idle", "fetch"} PROVE Unsaid(u)'
  <2>1. Unsaid(u)
    BY <1>1, <1>2, <1>7 DEF Order
  <2>2. QED  BY <1>1, <1>5, <2>1 DEF Unsaid
<1>8. ~misled' => Chunks'
  BY <1>1, <1>5 DEF Order, Chunks
<1>9. QED  BY <1>4, <1>6, <1>7, <1>8 DEF Order

\* The user makes a pet active, or removes one.
LEMMA UserOrder ==
  ASSUME HostInv, Order, UserCmd
  PROVE  HostInv' /\ Order'
<1>1. /\ UNCHANGED <<taskVars, misled, wire, events>> /\ s_install_file' = s_install_file
      /\ \E c \in UserCmds : TxPut(c)
  BY DEF UserCmd, linkVars, petVars, session, UserCmds
<1>2. PICK c \in UserCmds : TxPut(c)
  BY <1>1
<1>3. c \in Commands /\ c \notin StartCmds \cup ChunkCmds
  BY CommandFacts, InstallAssumption
<1>4. /\ txq' \in Seq(Commands) /\ Len(txq') <= TxMax
      /\ Under' \subseteq Under \cup {c}
      /\ \A a, b : <<a, b>> \in Prec' => <<a, b>> \in Prec \/ (a \in Under /\ b = c)
  BY <1>1, <1>2, <1>3, PutFacts
<1>5. Quiet
  BY <1>3, <1>4 DEF Quiet
<1>6. Heard' = Heard /\ wire' \in Seq(Commands) /\ events' \in Seq(Answered)
  BY <1>1 DEF Heard, HostInv
<1>7. QED  BY <1>1, <1>4, <1>5, <1>6, LinkKept

\* The link loop sends, and connects.
LEMMA SendOrder ==
  ASSUME HostInv, Order, LinkSend \/ LinkConnect \/ LinkUp
  PROVE  HostInv' /\ Order'
<1>0. /\ txq \in Seq(Commands) /\ Len(txq) <= TxMax /\ wire \in Seq(Commands)
      /\ events \in Seq(Answered)
  BY DEF HostInv
<1>1. UNCHANGED <<taskVars, misled>> /\ s_install_file' = s_install_file
  BY DEF LinkSend, LinkConnect, LinkUp, petVars, session, hostVars
<1>2. CASE LinkSend /\ link = "up"
  <2>1. /\ Quiet /\ events' = events
        /\ txq' \in Seq(Commands) /\ wire' \in Seq(Commands) /\ Len(txq') <= TxMax
    BY <1>2, SendFacts DEF Quiet, LinkSend
  <2>2. QED  BY <1>0, <1>1, <2>1, LinkKept DEF Heard
<1>3. CASE LinkSend /\ link # "up"
  <2>1. txq' = <<>> /\ wire' = wire /\ events' = events
    BY <1>3 DEF LinkSend
  <2>2. txq' \in Seq(Commands) /\ Len(txq') <= TxMax
    BY <2>1, EmptySeq, InstallAssumption
  <2>3. Quiet
    BY <2>1, LoseFacts, PairsEmpty DEF Quiet
  <2>4. QED  BY <1>0, <1>1, <2>1, <2>2, <2>3, LinkKept DEF Heard
<1>4. CASE LinkConnect
  <2>1. txq' = txq /\ wire' = wire /\ events' = <<>>
    BY <1>4 DEF LinkConnect
  <2>2. events' \in Seq(Answered) /\ Heard' = {}
    BY <2>1, EmptySeq, PairsEmpty DEF Heard
  <2>3. Quiet
    BY <2>1, LoseFacts DEF Quiet
  <2>4. QED  BY <1>0, <1>1, <2>1, <2>2, <2>3, LinkKept
<1>5. CASE LinkUp
  <2>1. txq' = txq /\ wire' = wire /\ events' = events
    BY <1>5 DEF LinkUp, hostVars
  <2>2. Quiet
    BY <2>1, LoseFacts DEF Quiet
  <2>3. QED  BY <1>0, <1>1, <2>1, <2>2, LinkKept DEF Heard
<1>6. QED  BY <1>2, <1>3, <1>4, <1>5

\* The link drops, or loses a line.
LEMMA LossOrder ==
  ASSUME HostInv, Order, LinkDrop \/ LineLost
  PROVE  HostInv' /\ Order'
<1>0. /\ txq \in Seq(Commands) /\ Len(txq) <= TxMax /\ wire \in Seq(Commands)
      /\ events \in Seq(Answered)
  BY DEF HostInv
<1>1. UNCHANGED <<taskVars, misled, txq>> /\ s_install_file' = s_install_file
  BY DEF LinkDrop, LineLost, LinkFault, session, hostVars
<1>2. /\ wire' \in Seq(Commands) /\ Range(wire') \subseteq Range(wire)
      /\ Pairs(wire') \subseteq Pairs(wire)
  <2>1. \/ \E i \in 0 .. Len(wire) : wire' = SubSeq(wire, 1, i)
        \/ \E i \in 1 .. Len(wire) : wire' = RemoveAt(wire, i)
    BY DEF LinkDrop, LineLost
  <2>2. QED  BY <1>0, <2>1, LessFacts, PairsLess
<1>3. events' \in Seq(Answered) /\ Range(events') \subseteq Range(events)
  <2>1. events' = events \/ \E i \in 0 .. Len(events) : events' = SubSeq(events, 1, i)
    BY DEF LinkDrop, LineLost
  <2>2. QED  BY <1>0, <2>1, LessFacts, PairsLess
<1>4. Quiet
  BY <1>1, <1>2, LoseFacts DEF Quiet
<1>5. Heard' \subseteq Heard
  BY <1>3 DEF Heard
<1>6. QED  BY <1>0, <1>1, <1>2, <1>3, <1>4, <1>5, LinkKept

\* The agent dies: its tasks and its queue are gone.
LEMMA CrashOrder ==
  ASSUME HostInv, Order, AgentCrash
  PROVE  HostInv' /\ Order'
<1>1. /\ pc' = [t \in Tasks |-> IF pc[t] \in Busy THEN "gone" ELSE pc[t]]
      /\ acks' = [t \in Tasks |-> <<>>] /\ txq' = <<>>
      /\ UNCHANGED <<ask, started, next, wire, events, misled>>
      /\ s_install_file' = s_install_file
  BY DEF AgentCrash, LinkFault, session, linkVars
<1>2. /\ pc' \in [Tasks -> Ways]
      /\ \A t \in Tasks : pc'[t] \notin Busy /\ (pc'[t] = pc[t] \/ pc'[t] = "gone")
  BY <1>1 DEF HostInv, Ways, Busy
<1>3. txq' \in Seq(Commands) /\ Len(txq') <= TxMax
  BY <1>1, EmptySeq, InstallAssumption
<1>4. HostInv'
  <2>1. \A t \in Tasks : acks'[t] = <<>> /\ Waiters(t, acks'[t])
    BY <1>1, NoWaiters
  <2>2. \A t \in Tasks : pc'[t] # "full"
    BY <1>2 DEF Busy
  <2>3. QED  BY <1>1, <1>2, <1>3, <2>1, <2>2 DEF HostInv
<1>5. Quiet
  BY <1>1, LoseFacts, PairsEmpty DEF Quiet
<1>6. Heard' = Heard /\ \A u \in Tasks : Settles(1, u)
  BY <1>1, <1>2 DEF Heard, Settles, Busy
<1>7. Order'
  BY <1>1, <1>5, <1>6, OrderKept
<1>8. QED  BY <1>4, <1>7

\* The agent reads an answer: the task that takes it for its own was answered by
\* the device, or the history says otherwise.
LEMMA ReadOrder ==
  ASSUME HostInv, Order, LinkRead
  PROVE  HostInv' /\ Order'
<1> DEFINE ev == Head(events)
<1>1. /\ events \in Seq(Answered) /\ events # <<>> /\ events' = Tail(events)
      /\ UNCHANGED <<pc, ask, next, txq, wire>> /\ s_install_file' = s_install_file
      /\ started' = [t \in Tasks |->
              IF pc[t] = "start" /\ started[t] = "none" /\ StartedMatches(t, ev)
                THEN Result(ev.ok) ELSE started[t]]
      /\ acks' = [t \in Tasks |-> [s \in Pending(t) |->
              IF acks[t][s] = "none" /\ AckMatches(s, ev)
                THEN Result(ev.ok) ELSE acks[t][s]]]
      /\ (misled' = (misled \/ \E t \in Tasks : started'[t] # started[t] /\ ev.task # t))
  BY DEF LinkRead, HostInv, petVars, session
<1>2. /\ events' \in Seq(Answered) /\ Range(events') \subseteq Range(events)
      /\ ev \in Answered /\ ev \in Range(events)
  BY <1>1, LessFacts
<1> HIDE DEF ev
<1>3. Result(ev.ok) \in {"ok", "refused"} /\ (Result(ev.ok) = "ok" => ev.ok)
  BY DEF Result
<1>4. /\ started' \in [Tasks -> {"none", "ok", "refused"}]
      /\ \A t \in Tasks : \/ started'[t] = started[t]
                          \/ /\ pc[t] = "start" /\ ev.name = "pet_install_started"
                             /\ started'[t] = "ok" => ev.ok
  BY <1>1, <1>3 DEF HostInv, StartedMatches
<1>5. /\ misled' \in BOOLEAN
      /\ ~misled' => ~misled /\ \A t \in Tasks : started'[t] = started[t] \/ ev.task = t
  BY <1>1, Zenon DEF HostInv
<1>6. HostInv'
  <2>1. ASSUME NEW t \in Tasks
        PROVE  Waiters(t, acks'[t]) /\ DOMAIN acks'[t] = DOMAIN acks[t]
    <3>1. /\ DOMAIN acks'[t] = DOMAIN acks[t]
          /\ acks'[t] = [s \in DOMAIN acks[t] |-> acks'[t][s]]
          /\ \A s \in DOMAIN acks[t] : acks'[t][s] \in {Result(ev.ok), acks[t][s]}
      BY <1>1 DEF Pending
    <3>2. Waiters(t, acks[t])
      BY DEF HostInv
    <3>3. \A s \in DOMAIN acks[t] : acks'[t][s] \in Results
      BY <1>3, <3>1, <3>2 DEF Waiters, Results
    <3>4. QED  BY <3>1, <3>2, <3>3, WaitersHear
  <2>2. acks' = [t \in Tasks |-> acks'[t]]
    BY <1>1
  <2>3. txq' \in Seq(Commands) /\ Len(txq') <= TxMax /\ wire' \in Seq(Commands)
    BY <1>1 DEF HostInv
  <2>4. QED  BY <1>1, <1>2, <1>4, <1>5, <2>1, <2>2, <2>3, HostKept
<1>7. Under' = Under /\ Prec' = Prec /\ Heard' \subseteq Heard
  BY <1>1, <1>2 DEF Under, Prec, Heard
<1>8. \A u \in Tasks : Ready(u) <=> Ready(u)'
  BY <1>1, <1>7 DEF Ready
<1>9. Solo'
  BY <1>1 DEF Order, Solo
<1>10. ASSUME NEW u \in Tasks, pc'[u] \in {"idle", "fetch"} PROVE Unsaid(u)'
  <2>1. Unsaid(u) /\ started'[u] = started[u]
    BY <1>1, <1>4, <1>10 DEF Order
  <2>2. QED  BY <1>7, <2>1 DEF Unsaid
<1>11. ASSUME NEW u \in Tasks, pc'[u] = "start" PROVE Asked(u)'
  <2>1. Asked(u)
    BY <1>1, <1>11 DEF Order
  <2>2. ASSUME started'[u] = "ok", ~misled' PROVE Ready(u)'
    <3>1. CASE started'[u] = started[u]
      BY <1>5, <1>8, <2>1, <2>2, <3>1 DEF Asked
    <3>2. CASE started'[u] # started[u]
      <4>1. ev.task = u /\ ev.ok /\ ev \in Heard
        BY <1>2, <1>4, <1>5, <2>2, <3>2 DEF Heard
      <4>2. QED  BY <1>8, <2>1, <4>1 DEF Asked
    <3>3. QED  BY <3>1, <3>2
  <2>3. QED  BY <1>1, <1>7, <1>8, <2>1, <2>2 DEF Asked
<1>12. ASSUME ~misled' PROVE Chunks' /\ \A u \in Tasks : pc'[u] \in {"send", "full"} => Ready(u)'
  <2>1. Chunks /\ \A u \in Tasks : pc[u] \in {"send", "full"} => Ready(u)
    BY <1>5, <1>12 DEF Order
  <2>2. QED  BY <1>1, <1>7, <1>8, <2>1 DEF Chunks
<1>13. Order'
  BY <1>9, <1>10, <1>11, <1>12 DEF Order
<1>14. QED  BY <1>6, <1>13

-----------------------------------------------------------------------------
(* The device                                                              *)

\* An open session holds the blocks of its pet so far.
Copy ==
  ~misled /\ s_install_file # "none" =>
    \A i \in 1 .. s_install_received :
      disk.tmp[s_install_file][i] = [of |-> s_install_file, at |-> i]

\* The files after a step of the device that installs nothing.
LEMMA NothingInstalled ==
  ASSUME Copy, WholePets, NothingNew, misled' = misled
  PROVE  Copy' /\ WholePets'
<1>1. WholePets'
  BY DEF WholePets, NothingNew
<1>2. Copy'
  BY DEF Copy, NothingNew, session
<1>3. QED  BY <1>1, <1>2

\* What a command and its answer do to the queues.
LEMMA HandleFacts ==
  ASSUME HostInv, DeviceInv', wire # <<>>, NEW c, c = Head(wire), wire' = Tail(wire), txq' = txq,
         events' = IF link = "up" THEN events \o Awaited(c) ELSE events
  PROVE  /\ c \in Commands /\ c \in Under /\ Under = {c} \cup Under'
         /\ \A a, b : <<a, b>> \in Prec <=> <<a, b>> \in Prec' \/ (a = c /\ b \in Under')
         /\ Quiet
         /\ wire' \in Seq(Commands) /\ events' \in Seq(Answered)
         /\ c \in StartCmds => \A e \in Heard' : e \in Heard \/ (e.task = c.task /\ e.ok = answer')
         /\ c \notin StartCmds => Heard' \subseteq Heard
<1>1. /\ wire \in Seq(Commands) /\ events \in Seq(Answered) /\ answer' \in BOOLEAN
  BY DEF HostInv, DeviceInv, Types
<1>2. wire' \in Seq(Commands) /\ c \in Commands
  BY <1>1, LessFacts
<1>3. /\ Under = {c} \cup Under'
      /\ \A a, b : <<a, b>> \in Prec <=> <<a, b>> \in Prec' \/ (a = c /\ b \in Under')
  BY TakeFacts
<1>4. Quiet
  BY <1>3 DEF Quiet
<1> DEFINE E(name) == [name |-> name, slug |-> c.slug, seq |-> c.seq, ok |-> answer', task |-> c.task]
<1>5. \/ Awaited(c) = <<>>
      \/ c \in StartCmds /\ Awaited(c) = <<E("pet_install_started")>>
      \/ c \in ChunkCmds /\ Awaited(c) = <<E("pet_install_chunk_ack")>>
  <2>1. c \in StartCmds => c.name = "pet_install_start"
    BY CommandFacts
  <2>2. c \in ChunkCmds => c.name = "pet_install_chunk"
    BY CommandFacts
  <2>3. c \notin StartCmds \cup ChunkCmds
          => c.name \notin {"pet_install_start", "pet_install_chunk"}
    BY <1>2, CommandFacts DEF Commands
  <2>4. QED  BY <2>1, <2>2, <2>3 DEF Awaited, Event
<1>6. /\ c \in StartCmds => E("pet_install_started") \in Answered
      /\ c \in ChunkCmds => E("pet_install_chunk_ack") \in Answered
  BY <1>1, CommandFacts DEF Answered
<1> HIDE DEF E
<1>7. CASE events' = events
  BY <1>1, <1>2, <1>3, <1>4, <1>7 DEF Heard
<1>8. ASSUME NEW e \in Answered, events' = events \o <<e>>
      PROVE  events' \in Seq(Answered) /\ Range(events') = Range(events) \cup {e}
  <2>1. events' = Append(events, e)
    BY <1>1, <1>8, AppendIsConcat
  <2>2. Append(events, e) \in Seq(Answered)
    BY <1>1, AppendProperties
  <2>3. Range(Append(events, e)) = Range(events) \cup {e}
    BY <1>1, PairsAppend
  <2>4. QED  BY <2>1, <2>2, <2>3
<1>9. CASE c \in StartCmds /\ events' = events \o <<E("pet_install_started")>>
  <2>1. events' \in Seq(Answered) /\ Range(events') = Range(events) \cup {E("pet_install_started")}
    BY <1>6, <1>8, <1>9
  <2>2. E("pet_install_started").task = c.task /\ E("pet_install_started").ok = answer'
    BY DEF E
  <2>3. QED  BY <1>2, <1>3, <1>4, <1>9, <2>1, <2>2 DEF Heard
<1>10. CASE c \in ChunkCmds /\ events' = events \o <<E("pet_install_chunk_ack")>>
  <2>1. events' \in Seq(Answered) /\ Range(events') = Range(events) \cup {E("pet_install_chunk_ack")}
    BY <1>6, <1>8, <1>10
  <2>2. E("pet_install_chunk_ack").name # "pet_install_started"
    BY DEF E
  <2>3. QED  BY <1>2, <1>3, <1>4, <2>1, <2>2 DEF Heard
<1>11. events \o <<>> = events
  BY <1>1, ConcatEmptySeq
<1>12. QED  BY <1>5, <1>7, <1>9, <1>10, <1>11

PetInv == DeviceInv /\ HostInv /\ Order /\ Copy /\ WholePets

\* The device takes a start.
LEMMA StartStep ==
  ASSUME PetInv, DeviceStep, Head(wire) \in StartCmds
  PROVE  PetInv'
<1> DEFINE c == Head(wire)
<1>0. DeviceInv /\ HostInv /\ Order /\ Copy /\ WholePets
  BY DEF PetInv
<1>1. /\ wire # <<>> /\ wire' = Tail(wire) /\ DeviceHandles(c)
      /\ events' = IF link = "up" THEN events \o Awaited(c) ELSE events
      /\ UNCHANGED <<pc, ask, started, next, acks, txq, misled>>
  BY DEF DeviceStep, hostVars, taskVars
<1>2. c.name = "pet_install_start" /\ c.task \in Tasks /\ c.slug \in Pets /\ c \in StartCmds
  BY CommandFacts
<1> HIDE DEF c
<1>3. PetInstallStart(c.slug, Size[c.slug])
  BY <1>1, <1>2 DEF DeviceHandles
<1>4. /\ DeviceInv'
      /\ answer' => s_install_file' \in {c.slug, "none"}
      /\ s_install_file' # "none" => \/ s_install_file' = c.slug /\ s_install_received' = 0
                                     \/ UNCHANGED <<disk, session>>
      /\ \A n \in Names : disk'.dpet[n] \in {disk.dpet[n], NoFile}
  BY <1>0, <1>2, <1>3, StartDevice
<1>5. /\ c \in Under /\ Under = {c} \cup Under'
      /\ \A a, b : <<a, b>> \in Prec <=> <<a, b>> \in Prec' \/ (a = c /\ b \in Under')
      /\ wire' \in Seq(Commands) /\ events' \in Seq(Answered)
      /\ \A e \in Heard' : e \in Heard \/ (e.task = c.task /\ e.ok = answer')
  BY <1>0, <1>1, <1>2, <1>4, HandleFacts DEF c
<1>6. \A u \in Tasks : ~Ready(u)
  BY <1>2, <1>5 DEF Ready
<1>7. HostInv'
  <2>1. /\ \A t \in Tasks : Waiters(t, acks'[t]) /\ DOMAIN acks'[t] = DOMAIN acks[t]
        /\ acks' = [t \in Tasks |-> acks'[t]] /\ misled' \in BOOLEAN
        /\ started' \in [Tasks -> {"none", "ok", "refused"}]
        /\ txq' \in Seq(Commands) /\ Len(txq') <= TxMax
    BY <1>0, <1>1 DEF HostInv
  <2>2. QED  BY <1>0, <1>1, <1>5, <2>1, HostKept
<1>8. Solo'
  BY <1>0, <1>1 DEF Order, Solo
<1>9. ASSUME NEW u \in Tasks, pc'[u] \in {"idle", "fetch"} PROVE Unsaid(u)'
  <2>1. Unsaid(u)
    BY <1>0, <1>1, <1>9 DEF Order
  <2>2. c.task # u
    BY <1>2, <1>5, <2>1 DEF Unsaid
  <2>3. QED  BY <1>1, <1>5, <2>1, <2>2 DEF Unsaid
<1>10. ASSUME NEW u \in Tasks, pc'[u] = "start" PROVE Asked(u)'
  <2>1. Asked(u)
    BY <1>0, <1>1, <1>10 DEF Order
  <2>2. ASSUME NEW e \in Heard', e.task = u, e.ok PROVE Ready(u)'
    <3>1. e.task = c.task /\ answer'
      BY <1>5, <1>6, <2>1, <2>2 DEF Asked
    <3>2. c.slug = ask[u].pet /\ \A b \in StartCmds : <<c, b>> \notin Prec
      BY <1>2, <1>5, <2>1, <2>2, <3>1 DEF Asked
    <3>3. \A b \in StartCmds : b \notin Under'
      BY <1>5, <3>2
    <3>4. QED  BY <1>1, <1>4, <3>1, <3>2, <3>3 DEF Ready
  <2>3. ~(started'[u] = "ok" /\ ~misled')
    BY <1>1, <1>6, <2>1 DEF Asked
  <2>4. QED  BY <1>1, <1>5, <2>1, <2>2, <2>3 DEF Asked
<1>11. ASSUME ~misled' PROVE Chunks' /\ \A u \in Tasks : pc'[u] \notin {"send", "full"}
  <2>1. Chunks /\ \A u \in Tasks : pc[u] \in {"send", "full"} => Ready(u)
    BY <1>0, <1>1, <1>11 DEF Order
  <2>2. \A x \in ChunkCmds : x \notin Under'
    BY <1>2, <1>5, <2>1 DEF Chunks
  <2>3. QED  BY <1>1, <1>6, <2>1, <2>2 DEF Chunks
<1>12. Order'
  BY <1>8, <1>9, <1>10, <1>11 DEF Order
<1>13. WholePets'
  BY <1>0, <1>1, <1>4 DEF WholePets
<1>14. Copy'
  <2>1. SUFFICES ASSUME ~misled', s_install_file' # "none", NEW i \in 1 .. s_install_received'
                 PROVE  disk'.tmp[s_install_file'][i] = [of |-> s_install_file', at |-> i]
    BY DEF Copy
  <2>2. UNCHANGED <<disk, session>>
    BY <1>4, <2>1
  <2>3. QED  BY <1>0, <1>1, <2>1, <2>2 DEF Copy, session
<1>15. QED  BY <1>4, <1>7, <1>12, <1>13, <1>14 DEF PetInv

\* The device takes any other command: of the session only the chunks and the
\* end move anything, and a session goes on or ends.
LEMMA QuietStep ==
  ASSUME PetInv, DeviceStep, DeviceInv', Head(wire) \notin StartCmds,
         s_install_file' \in {s_install_file, "none"}
  PROVE  HostInv' /\ Order'
<1> DEFINE c == Head(wire)
<1>1. /\ wire # <<>> /\ wire' = Tail(wire)
      /\ events' = IF link = "up" THEN events \o Awaited(c) ELSE events
      /\ UNCHANGED <<taskVars, txq, misled>>
  BY DEF DeviceStep, hostVars
<1>2. HostInv /\ Order
  BY DEF PetInv
<1> HIDE DEF c
<1>3. wire' \in Seq(Commands) /\ events' \in Seq(Answered) /\ Quiet /\ Heard' \subseteq Heard
  BY <1>1, <1>2, HandleFacts DEF c
<1>4. txq' \in Seq(Commands) /\ Len(txq') <= TxMax
  BY <1>1, <1>2 DEF HostInv
<1>5. QED  BY <1>1, <1>2, <1>3, <1>4, LinkKept

\* The device takes a chunk: it is the next one of the pet whose file is open.
LEMMA ChunkStep ==
  ASSUME PetInv, DeviceStep, Head(wire) \in ChunkCmds
  PROVE  PetInv'
<1> DEFINE c == Head(wire)
<1>0. DeviceInv /\ HostInv /\ Order /\ Copy /\ WholePets
  BY DEF PetInv
<1>1. wire # <<>> /\ DeviceHandles(c) /\ misled' = misled
  BY DEF DeviceStep
<1>2. /\ c.name = "pet_install_chunk" /\ c.seq \in Nat /\ c.data \in Blocks /\ c.data.at = c.seq + 1
      /\ c \in ChunkCmds /\ c \notin StartCmds
  BY CommandFacts
<1>3. c \in Under
  <2>1. wire \in Seq(Commands)
    BY <1>0 DEF HostInv
  <2>2. QED  BY <1>1, <2>1, LessFacts DEF Under
<1> HIDE DEF c
<1>4. PetInstallChunk(c.seq, c.data)
  BY <1>1, <1>2 DEF DeviceHandles
<1>5. /\ DeviceInv' /\ disk'.dpet = disk.dpet
      /\ s_install_file' # "none" =>
           /\ s_install_file' = s_install_file /\ c.seq = s_install_received
           /\ s_install_received' = s_install_received + 1
           /\ \A i \in 1 .. s_install_received :
                disk'.tmp[s_install_file][i] = disk.tmp[s_install_file][i]
           /\ disk'.tmp[s_install_file][c.seq + 1] = c.data
  BY <1>0, <1>2, <1>4, ChunkDevice
<1>6. HostInv' /\ Order'
  BY <1>2, <1>5, QuietStep DEF c
<1>7. WholePets'
  BY <1>0, <1>1, <1>5 DEF WholePets
<1>8. Copy'
  <2>1. SUFFICES ASSUME ~misled', s_install_file' # "none", NEW i \in 1 .. s_install_received'
                 PROVE  disk'.tmp[s_install_file'][i] = [of |-> s_install_file', at |-> i]
    BY DEF Copy
  <2>2. s_install_received \in Nat /\ s_install_file # "none"
    BY <1>0, <1>5, <2>1 DEF DeviceInv, Types
  <2>3. CASE i \in 1 .. s_install_received
    BY <1>0, <1>1, <1>5, <2>1, <2>2, <2>3 DEF Copy
  <2>4. CASE i = s_install_received + 1
    <3>1. c.data.of = s_install_file
      BY <1>0, <1>1, <1>2, <1>3, <2>1, <2>2 DEF Order, Chunks
    <3>2. c.data = [of |-> s_install_file, at |-> i]
      BY <1>2, <1>5, <2>1, <2>4, <3>1 DEF Blocks
    <3>3. QED  BY <1>5, <2>1, <2>4, <3>2
  <2>5. QED  BY <1>5, <2>1, <2>2, <2>3, <2>4
<1>9. QED  BY <1>5, <1>6, <1>7, <1>8 DEF PetInv

\* The device takes an end: a file as long as its pet, of its blocks in order.
LEMMA EndStep ==
  ASSUME PetInv, DeviceStep, NEW t \in Tasks, Head(wire) = EndCmd(t)
  PROVE  PetInv'
<1> DEFINE c == Head(wire)
<1>0. DeviceInv /\ HostInv /\ Order /\ Copy /\ WholePets
  BY DEF PetInv
<1>1. DeviceHandles(c) /\ misled' = misled
  BY DEF DeviceStep
<1>2. c.name = "pet_install_end" /\ c \notin StartCmds
  BY CommandFacts
<1> HIDE DEF c
<1>3. PetInstallEnd
  BY <1>1, <1>2 DEF DeviceHandles
<1>4. /\ DeviceInv' /\ s_install_file' = "none"
      /\ \A n \in Names : \/ disk'.dpet[n] \in {disk.dpet[n], NoFile}
                          \/ /\ n = s_install_file /\ s_install_received = Size[n]
                             /\ disk'.dpet[n] = disk.tmp[n]
  BY <1>0, <1>3, EndDevice
<1>5. HostInv' /\ Order'
  BY <1>2, <1>4, QuietStep DEF c
<1>6. Copy'
  BY <1>4 DEF Copy
<1>7. WholePets'
  <2>1. SUFFICES ASSUME ~misled', NEW n \in Names, disk'.dpet[n] # NoFile
                 PROVE  n \in Pets /\ disk'.dpet[n] = Image(n)
    BY DEF WholePets
  <2>2. CASE disk'.dpet[n] \in {disk.dpet[n], NoFile}
    BY <1>0, <1>1, <2>1, <2>2 DEF WholePets
  <2>3. CASE n = s_install_file /\ s_install_received = Size[n] /\ disk'.dpet[n] = disk.tmp[n]
    <3>1. s_install_file # "none" /\ n \in Pets
      BY <1>0, <2>3, NamesFacts DEF DeviceInv, Types
    <3>2. disk.tmp[n] \in Seq(Blocks) /\ Len(disk.tmp[n]) = Size[n]
      BY <1>0, <2>3, <3>1 DEF DeviceInv, Session
    <3>3. \A i \in 1 .. Size[n] : disk.tmp[n][i] = [of |-> n, at |-> i]
      BY <1>0, <1>1, <2>1, <2>3, <3>1 DEF Copy
    <3>4. disk.tmp[n] = Image(n)
      <4> DEFINE f == disk.tmp[n]
      <4>1. f = [i \in 1 .. Len(f) |-> f[i]]
        BY <3>2
      <4> HIDE DEF f
      <4>2. QED  BY <3>2, <3>3, <4>1 DEF f, Image
    <3>5. QED  BY <2>3, <3>1, <3>4
  <2>4. QED  BY <1>4, <2>2, <2>3
<1>8. QED  BY <1>4, <1>5, <1>6, <1>7 DEF PetInv

\* The device takes a command of the user.
LEMMA UserStep ==
  ASSUME PetInv, DeviceStep, Head(wire) \in UserCmds
  PROVE  PetInv'
<1> DEFINE c == Head(wire)
<1>0. DeviceInv /\ HostInv /\ Order /\ Copy /\ WholePets
  BY DEF PetInv
<1>1. DeviceHandles(c) /\ misled' = misled
  BY DEF DeviceStep
<1>2. /\ c \notin StartCmds
      /\ \/ c.name = "pet_remove" /\ c.slug \in Names
         \/ c.name = "pet_set_active" /\ c.slug \in Names \cup {"default"}
  BY CommandFacts, NamesFacts
<1> HIDE DEF c
<1>3. \/ PetRemove(c.slug) /\ c.slug \in Names
      \/ PetSetActive(c.slug) /\ c.slug \in Names \cup {"default"}
  BY <1>1, <1>2 DEF DeviceHandles
<1>4. DeviceInv' /\ NothingNew
  BY <1>0, <1>3, RemoveDevice, SetActiveDevice
<1>5. s_install_file' \in {s_install_file, "none"}
  BY <1>4 DEF NothingNew, session
<1>6. HostInv' /\ Order'
  BY <1>2, <1>4, <1>5, QuietStep DEF c
<1>7. Copy' /\ WholePets'
  BY <1>0, <1>1, <1>4, NothingInstalled
<1>8. QED  BY <1>4, <1>6, <1>7 DEF PetInv

\* The device loses its power, and with it what was on the wire.
LEMMA PowerStep ==
  ASSUME PetInv, DevicePowerLoss
  PROVE  PetInv'
<1>0. DeviceInv /\ HostInv /\ Order /\ Copy /\ WholePets
  BY DEF PetInv
<1>1. /\ (\E k \in 0 .. s_install_received : Boots(Torn(k), 1)) \/ EndCutShort
      /\ wire' = <<>> /\ UNCHANGED <<taskVars, txq, events, misled>>
  BY DEF DevicePowerLoss, hostVars
<1>2. DeviceInv' /\ NothingNew /\ s_install_file' = "none"
  BY <1>0, <1>1, PowerLossDevice
<1>3. /\ txq' \in Seq(Commands) /\ Len(txq') <= TxMax /\ wire' \in Seq(Commands)
      /\ events' \in Seq(Answered) /\ Heard' = Heard
  BY <1>0, <1>1, EmptySeq DEF HostInv, Heard
<1>4. Quiet
  BY <1>0, <1>1, LoseFacts, PairsEmpty DEF Quiet
<1>5. HostInv' /\ Order'
  BY <1>0, <1>1, <1>2, <1>3, <1>4, LinkKept
<1>6. Copy' /\ WholePets'
  BY <1>0, <1>1, <1>2, NothingInstalled
<1>7. QED  BY <1>2, <1>5, <1>6 DEF PetInv

-----------------------------------------------------------------------------
(* The theorems                                                            *)

\* Initially nothing is under way.
LEMMA PetInit == IInit => PetInv
<1> SUFFICES ASSUME IInit PROVE PetInv
  OBVIOUS
<1>1. DeviceInv
  BY InitDevice DEF IInit
<1>2. /\ pc = [t \in Tasks |-> "idle"] /\ ask = [t \in Tasks |-> NoAsk]
      /\ started = [t \in Tasks |-> "none"] /\ next = [t \in Tasks |-> 0]
      /\ acks = [t \in Tasks |-> <<>>]
      /\ txq = <<>> /\ wire = <<>> /\ events = <<>> /\ misled = FALSE
      /\ disk = Empty /\ s_install_file = "none"
  BY DEF IInit, Init
<1>3. HostInv
  <2>1. txq \in Seq(Commands) /\ Len(txq) <= TxMax /\ wire \in Seq(Commands) /\ events \in Seq(Answered)
    BY <1>2, EmptySeq, InstallAssumption
  <2>2. \A t \in Tasks : acks[t] = <<>> /\ Waiters(t, acks[t])
    BY <1>2, NoWaiters
  <2>3. \A t \in Tasks : pc[t] = "idle"
    BY <1>2
  <2>4. pc \in [Tasks -> Ways] /\ \A t \in Tasks : pc[t] \notin Busy /\ pc[t] # "full"
    BY <1>2, <2>3 DEF Ways, Busy
  <2>5. QED  BY <1>2, <2>1, <2>2, <2>4 DEF HostInv
<1>4. Under = {} /\ Heard = {}
  BY <1>2, PairsEmpty DEF Under, Heard
<1>5. Order
  BY <1>2, <1>4 DEF Order, Solo, Unsaid, Asked, Chunks, Busy
<1>6. Copy /\ WholePets
  BY <1>2, EmptyFacts DEF Copy, WholePets
<1>7. QED  BY <1>1, <1>3, <1>5, <1>6 DEF PetInv

\* The state of the device is not touched by the agent and by the link.
LEMMA DeviceAlone ==
  ASSUME PetInv, HostInv', Order', UNCHANGED <<disk, fs, session, look, answer, misled>>
  PROVE  PetInv'
<1>1. DeviceInv' /\ Copy'
  BY DEF PetInv, DeviceInv, Types, Session, Named, RebootShowsSame, Copy, session, look
<1>2. WholePets'
  BY DEF PetInv, WholePets
<1>3. QED  BY <1>1, <1>2 DEF PetInv

\* Every step keeps the invariant.
LEMMA PetStep == PetInv /\ [INext]_ivars => PetInv'
<1> SUFFICES ASSUME PetInv, [INext]_ivars PROVE PetInv'
  OBVIOUS
<1>0. HostInv /\ Order
  BY DEF PetInv
<1>1. ASSUME NEW t \in Tasks, UserAsks(t) \/ TaskStep(t) PROVE PetInv'
  <2>1. UNCHANGED <<disk, fs, session, look, answer, misled>>
    BY <1>1 DEF UserAsks, TaskStep, Elsewhere, petVars
  <2>2. HostInv' /\ Order'
    BY <1>0, <1>1, TaskOrder, AskOrder
  <2>3. QED  BY <2>1, <2>2, DeviceAlone
<1>2. CASE UserCmd \/ LinkSend \/ LinkConnect \/ LinkUp
  <2>1. UNCHANGED <<disk, fs, session, look, answer, misled>>
    BY <1>2 DEF UserCmd, LinkSend, LinkConnect, LinkUp, petVars
  <2>2. HostInv' /\ Order'
    BY <1>0, <1>2, UserOrder, SendOrder
  <2>3. QED  BY <2>1, <2>2, DeviceAlone
<1>3. CASE LinkDrop \/ LineLost \/ AgentCrash
  <2>1. UNCHANGED <<disk, fs, session, look, answer, misled>>
    BY <1>3 DEF LinkDrop, LineLost, AgentCrash, LinkFault
  <2>2. HostInv' /\ Order'
    BY <1>0, <1>3, LossOrder, CrashOrder
  <2>3. QED  BY <2>1, <2>2, DeviceAlone
<1>4. CASE LinkRead
  <2>1. /\ UNCHANGED <<disk, fs, session, look, answer>>
        /\ misled' = (misled \/ \E t \in Tasks : started'[t] # started[t] /\ Head(events).task # t)
    BY <1>4 DEF LinkRead, petVars
  <2>2. ~misled' => ~misled
    BY <2>1, Zenon DEF PetInv, HostInv
  <2>3. HostInv' /\ Order'
    BY <1>0, <1>4, ReadOrder
  <2>4. DeviceInv'
    BY <2>1 DEF PetInv, DeviceInv, Types, Session, Named, RebootShowsSame, session, look
  <2>5. Copy' /\ WholePets'
    BY <2>1, <2>2 DEF PetInv, Copy, WholePets, session
  <2>6. QED  BY <2>3, <2>4, <2>5 DEF PetInv
<1>5. CASE DeviceStep
  <2>1. Head(wire) \in Commands
    BY <1>0, <1>5, LessFacts DEF HostInv, DeviceStep
  <2>2. \/ Head(wire) \in StartCmds \/ Head(wire) \in ChunkCmds \/ Head(wire) \in UserCmds
        \/ \E t \in Tasks : Head(wire) = EndCmd(t)
    BY <2>1 DEF Commands
  <2>3. QED  BY <1>5, <2>2, StartStep, ChunkStep, UserStep, EndStep
<1>6. CASE DevicePowerLoss
  BY <1>6, PowerStep
<1>7. CASE UNCHANGED ivars
  <2>1. UNCHANGED <<disk, fs, session, look, answer, misled, taskVars, txq, wire, events>>
    BY <1>7 DEF ivars, petVars, hostVars, linkVars
  <2>2. Quiet /\ Heard' = Heard
    BY <1>0, <2>1, LoseFacts DEF Quiet, Heard
  <2>3. HostInv' /\ Order'
    BY <1>0, <2>1, <2>2, LinkKept DEF HostInv, session
  <2>4. QED  BY <2>1, <2>3, DeviceAlone
<1>8. QED  BY <1>1, <1>2, <1>3, <1>4, <1>5, <1>6, <1>7 DEF INext

\* The invariant gives the types.
LEMMA PetTypes == PetInv => ITypeOK
<1> SUFFICES ASSUME PetInv PROVE ITypeOK
  OBVIOUS
<1>0. DeviceInv /\ HostInv
  BY DEF PetInv
<1>1. \A n \in Names : disk.tmp[n] \in Files /\ disk.dpet[n] \in Files
  BY <1>0 DEF DeviceInv, Types, Disks
<1>2. \A f \in Files : f = NoFile \/ \A i \in DOMAIN f : f[i] \in Blocks
  BY DEF Files
<1>3. /\ s_install_file \in Names \cup {"none"}
      /\ s_install_received = s_install_expected_seq
      /\ s_install_active /\ s_install_file # "none"
           => Len(disk.tmp[s_install_file]) = s_install_received
      /\ s_active_slug \in Names \cup {"default"} /\ unread \in BOOLEAN
  BY <1>0, NamesFacts DEF DeviceInv, Types, Session
<1>4. /\ pc \in [Tasks -> Busy \cup {"idle", "unfetched", "failed", "complete", "gone"}]
      /\ Len(txq) <= TxMax
      /\ \A t \in Tasks : Waiters(t, acks[t])
  BY <1>0 DEF HostInv, Ways
<1>5. /\ \A t \in Tasks : Cardinality(Pending(t)) <= Window
      /\ \A t \in Tasks : \A s \in Pending(t) : acks[t][s] \in Results
  BY <1>4 DEF Waiters, Pending
<1>6. QED  BY <1>1, <1>2, <1>3, <1>4, <1>5 DEF ITypeOK

\* The invariant holds of every behaviour.
THEOREM InstallInvariant == ISpec => []PetInv
BY PetInit, PetStep, PTL DEF ISpec

\* Whatever is asked for, lost or late, every variable has its type, the window
\* and the queue keep their bounds, and an open file is as long as was counted.
THEOREM InstallTypes == ISpec => []ITypeOK
BY InstallInvariant, PetTypes, PTL

\* A .dpet on the device is the image of the pet it is named after, as long as no
\* task took the answer to an earlier install for its own.
THEOREM PetsAreWhole == ISpec => []WholePets
<1>1. PetInv => WholePets
  BY DEF PetInv
<1>2. QED  BY <1>1, InstallInvariant, PTL

\* Over every install, removal, flash error and power failure, a pet drawn from
\* its file is the one NVS names, and the built-in one is drawn only when NVS
\* names it, or a pet whose file does not load or could not be read when it was
\* last tried: a reboot that reads the file shows the same.
THEOREM SameAfterReboot == ISpec => []RebootShowsSame
<1>1. PetInv => RebootShowsSame
  BY DEF PetInv, DeviceInv
<1>2. QED  BY <1>1, InstallInvariant, PTL
=============================================================================
