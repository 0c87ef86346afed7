------------------------------ MODULE PetStore -------------------------------
(***************************************************************************)
(* The pets a device keeps: the install session, the files on LittleFS and *)
(* the pet that is drawn (pet_widget.cpp), under the commands apply_cmd    *)
(* passes on (usb_link.cpp), flash errors and power failures.              *)
(*                                                                         *)
(* A file is its sequence of blocks, one block is one chunk; the header is *)
(* in the first block.  The main loop runs each command to its end, except *)
(* that power may fail in the middle of the one that replaces a pet.       *)
(***************************************************************************)
EXTENDS Naturals, Sequences

CONSTANTS
  Pets,       \* slugs of the pets that can be asked for
  Names,      \* Pets, and what s_install_slug keeps of them
  Kept,       \* [Names -> Names]: the first 23 characters, never another pet's name
  Size,       \* [Pets -> Nat]: blocks of each pet
  NoFile,
  MaxFaults   \* bound: flash errors, power failures (each with what goes wrong at
              \* the boot after it) and what the link adds

ASSUME PetAssumption ==
  /\ Pets \subseteq Names
  /\ Names \cap {"default", "none", "embedded", "nothing"} = {}
  /\ Kept \in [Names -> Names]
  /\ \A p \in Pets : Kept[p] \in Pets => Kept[p] = p
  /\ Size \in [Pets -> Nat \ {0}]
  /\ MaxFaults \in Nat

VARIABLES
  disk,       \* /pets: the .tmp and the .dpet file of each name
  prefs,      \* "active" of dashd-pet in NVS
  fs,         \* "unmounted"; "ready": s_fs_ready; "broken": s_fs_unrecoverable
  s_install_active,
  s_install_slug,
  s_install_file,      \* whose .tmp is open, or "none"
  s_install_total,
  s_install_received,
  s_install_expected_seq,
  s_active_slug,
  s_src,      \* what is drawn: where it comes from, and what was loaded
  unread,     \* history: the last try to read the pet NVS names failed, its file whole
  answer,     \* what the last command was answered
  faults      \* faults so far

session == <<s_install_active, s_install_slug, s_install_file, s_install_total,
             s_install_received, s_install_expected_seq>>
look    == <<prefs, s_active_slug, s_src, unread>>
petVars == <<disk, fs, session, look, answer, faults>>

Blocks == [of : Pets, at : Nat \ {0}]
Image(p) == [i \in 1 .. Size[p] |-> [of |-> p, at |-> i]]

Embedded == [file |-> "embedded", image |-> <<>>]
Nothing  == [file |-> "nothing", image |-> <<>>]
Empty    == [tmp |-> [n \in Names |-> NoFile], dpet |-> [n \in Names |-> NoFile]]

Spend(n) == faults + n <= MaxFaults /\ faults' = faults + n
Answers(ok) == answer' = ok

-----------------------------------------------------------------------------
(* Files                                                                   *)

\* fs_ensure() on a file system in state f: mounted before or now, formatted
\* because it would not mount, or given up until the next reset.
MountResults(f) == IF f = "unmounted" THEN {"ready", "formatted", "broken"} ELSE {f}
MountFaults(f, r) == IF f = "unmounted" /\ r # "ready" THEN 1 ELSE 0
Mounted(r) == IF r = "formatted" THEN Empty ELSE disk
Ensured(r) == fs' = IF r = "broken" THEN "broken" ELSE "ready"

HasHeader(f) == f \notin {NoFile, <<>>} /\ f[1].at = 1

\* load_from_littlefs(): a header, and the length it says.
Loads(f) == HasHeader(f) /\ Len(f) = Size[f[1].of]

\* It may fail all the same: the file cannot be opened or its header not read,
\* before the old source is given up; the table of animations cannot be read,
\* or the frame buffers not allocated, after that.
Loadings == {"works", "unreadable", "lost"}
LoadFaults(load) == IF load = "works" THEN 0 ELSE 1

\* pet_set_active() of a slug, over disk d: what becomes of s_src and of the
\* slug, in RAM and in NVS.
Activated(d, slug, load) ==
  IF slug = "default"
    THEN [ok |-> TRUE, slug |-> slug, src |-> Embedded, unread |-> FALSE]
    ELSE IF Loads(d.dpet[slug]) /\ load = "works"
      THEN [ok |-> TRUE, slug |-> Kept[slug],
            src |-> [file |-> slug, image |-> d.dpet[slug]], unread |-> FALSE]
      ELSE [ok |-> FALSE, slug |-> s_active_slug,
            src |-> IF Loads(d.dpet[slug]) /\ load = "lost" THEN Nothing ELSE s_src,
            unread |-> unread \/ (slug = prefs /\ Loads(d.dpet[slug]))]

Mut_NotSaved(a) ==
  s_src' = a.src /\ s_active_slug' = a.slug /\ unread' = a.unread /\ UNCHANGED prefs
Shows(a) ==
  /\ s_src' = a.src
  /\ s_active_slug' = a.slug
  /\ unread' = a.unread
  /\ prefs' = IF a.ok THEN a.slug ELSE prefs

Init ==
  /\ disk = Empty /\ prefs = "default" /\ fs = "unmounted"
  /\ s_install_active = FALSE /\ s_install_slug = "" /\ s_install_file = "none"
  /\ s_install_total = 0 /\ s_install_received = 0 /\ s_install_expected_seq = 0
  /\ s_active_slug = "default" /\ s_src = Embedded
  /\ unread = FALSE /\ answer = TRUE /\ faults = 0

-----------------------------------------------------------------------------
(* pet_install_start                                                       *)

StartUnmounted ==
  \E r \in MountResults(fs) :
    /\ r = "broken"
    /\ Spend(MountFaults(fs, r))
    /\ Ensured(r)
    /\ Answers(FALSE)
    /\ UNCHANGED <<disk, session, look>>

\* An open that fails leaves s_install_active as it was, with no file.
StartMounted(slug, total) ==
  \E r \in MountResults(fs), opens \in BOOLEAN :
    /\ r # "broken"
    /\ Spend(MountFaults(fs, r) + IF opens THEN 0 ELSE 1)
    /\ Ensured(r)
    /\ s_install_slug' = Kept[slug]
    /\ s_install_total' = total
    /\ s_install_received' = 0
    /\ s_install_expected_seq' = 0
    /\ IF opens
         THEN /\ disk' = [Mounted(r) EXCEPT !.tmp[slug] = <<>>]
              /\ s_install_file' = slug
              /\ s_install_active' = TRUE
         ELSE /\ disk' = Mounted(r)
              /\ s_install_file' = "none"
              /\ UNCHANGED s_install_active
    /\ Answers(opens)
    /\ UNCHANGED look

PetInstallStart(slug, total) == StartUnmounted \/ StartMounted(slug, total)

-----------------------------------------------------------------------------
(* pet_install_chunk                                                       *)

SessionClosed ==
  /\ s_install_active' = FALSE
  /\ s_install_file' = "none"
  /\ UNCHANGED <<s_install_slug, s_install_total, s_install_received,
                 s_install_expected_seq>>

ChunkWithoutStart ==
  /\ ~s_install_active
  /\ Answers(FALSE)
  /\ UNCHANGED <<disk, fs, session, look, faults>>

OutOfOrder(seq) == seq # s_install_expected_seq

\* Out of order, or a short write: the session is over.
ChunkRefused(seq) ==
  /\ s_install_active
  /\ \/ (OutOfOrder(seq) \/ s_install_file = "none") /\ UNCHANGED faults
     \/ Spend(1)
  /\ SessionClosed
  /\ Answers(FALSE)
  /\ UNCHANGED <<disk, fs, look>>

ChunkWritten(seq, block) ==
  /\ s_install_active
  /\ ~OutOfOrder(seq)
  /\ s_install_file # "none"
  /\ disk' = [disk EXCEPT !.tmp[s_install_file] = Append(@, block)]
  /\ s_install_received' = s_install_received + 1
  /\ s_install_expected_seq' = s_install_expected_seq + 1
  /\ Answers(TRUE)
  /\ UNCHANGED <<fs, look, s_install_active, s_install_slug, s_install_file,
                 s_install_total, faults>>

PetInstallChunk(seq, block) ==
  ChunkWithoutStart \/ ChunkRefused(seq) \/ ChunkWritten(seq, block)

-----------------------------------------------------------------------------
(* pet_install_end                                                         *)

Complete == s_install_total = 0 \/ s_install_received = s_install_total

\* The file the end looks for has the name s_install_slug kept.
TmpFile == disk.tmp[s_install_slug]

EndWithoutStart ==
  /\ ~s_install_active
  /\ Answers(FALSE)
  /\ UNCHANGED <<disk, fs, session, look, faults>>

\* Short, gone, or no .dpet.
EndRefused ==
  /\ s_install_active
  /\ ~(Complete /\ HasHeader(TmpFile))
  /\ disk' = IF Complete THEN [disk EXCEPT !.tmp[s_install_slug] = NoFile] ELSE disk
  /\ SessionClosed
  /\ Answers(FALSE)
  /\ UNCHANGED <<fs, look, faults>>

Accepted == s_install_active /\ Complete /\ HasHeader(TmpFile)

\* remove(), and no rename() after it.
Removed == [disk EXCEPT !.dpet[s_install_slug] = NoFile]
Renamed ==
  [disk EXCEPT !.dpet[s_install_slug] = TmpFile, !.tmp[s_install_slug] = NoFile]

EndRenameFails ==
  /\ Accepted
  /\ Spend(1)
  /\ disk' = Removed
  /\ SessionClosed
  /\ Answers(FALSE)
  /\ UNCHANGED <<fs, look>>

\* The .tmp cannot be opened, and stays, or its header cannot be read.
EndUnreadable ==
  /\ Accepted
  /\ Spend(1)
  /\ disk' \in {disk, [disk EXCEPT !.tmp[s_install_slug] = NoFile]}
  /\ SessionClosed
  /\ Answers(FALSE)
  /\ UNCHANGED <<fs, look>>

\* The new pet is loaded at once, also when it replaces the one being drawn;
\* whether that succeeds does not change the answer.
EndInstalled ==
  \E load \in Loadings :
    /\ Accepted
    /\ Spend(LoadFaults(load))
    /\ disk' = Renamed
    /\ Shows(Activated(Renamed, s_install_slug, load))
    /\ SessionClosed
    /\ Answers(TRUE)
    /\ UNCHANGED fs

PetInstallEnd ==
  EndWithoutStart \/ EndRefused \/ EndUnreadable \/ EndRenameFails \/ EndInstalled

-----------------------------------------------------------------------------
(* pet_set_active, pet_remove                                              *)

SetDefault ==
  /\ Shows(Activated(disk, "default", "works"))
  /\ Answers(TRUE)
  /\ UNCHANGED <<disk, fs, session, faults>>

SetInstalled(slug) ==
  \E r \in MountResults(fs), load \in Loadings :
    /\ Spend(MountFaults(fs, r) + LoadFaults(load))
    /\ Ensured(r)
    /\ disk' = Mounted(r)
    /\ LET a == Activated(IF r = "broken" THEN Empty ELSE Mounted(r), slug, load)
       IN  Shows(a) /\ Answers(a.ok)
    /\ UNCHANGED session

PetSetActive(slug) == IF slug = "default" THEN SetDefault ELSE SetInstalled(slug)

PetRemove(slug) ==
  \E r \in MountResults(fs) :
    /\ Spend(MountFaults(fs, r))
    /\ Ensured(r)
    /\ disk' = IF r = "broken" THEN disk ELSE [Mounted(r) EXCEPT !.dpet[slug] = NoFile]
    /\ IF r # "broken" /\ s_active_slug = slug
         THEN Shows(Activated(disk, "default", "works"))
         ELSE UNCHANGED look
    /\ Answers(TRUE)
    /\ UNCHANGED session

-----------------------------------------------------------------------------
(* Power                                                                   *)

\* pet_begin() over disk d, where loading the pet of NVS mounts LittleFS and
\* may fail.
Boots(d, n) ==
  /\ s_install_active' = FALSE /\ s_install_slug' = "" /\ s_install_file' = "none"
  /\ s_install_total' = 0 /\ s_install_received' = 0 /\ s_install_expected_seq' = 0
  /\ answer' = TRUE
  /\ Spend(n)
  /\ UNCHANGED prefs
  /\ IF prefs = "default"
       THEN /\ fs' = "unmounted" /\ disk' = d
            /\ s_active_slug' = "default" /\ s_src' = Embedded /\ unread' = FALSE
       ELSE \E r \in MountResults("unmounted"), load \in Loadings :
              /\ Ensured(r)
              /\ disk' = IF r = "formatted" THEN Empty ELSE d
              /\ LET whole == r = "ready" /\ Loads(d.dpet[prefs])
                 IN  /\ IF whole /\ load = "works"
                          THEN /\ s_active_slug' = prefs
                               /\ s_src' = [file |-> prefs, image |-> d.dpet[prefs]]
                          ELSE s_active_slug' = "default" /\ s_src' = Embedded
                     /\ unread' = (whole /\ load # "works")

\* What was written to an open file and not closed may be lost.
Torn(k) ==
  IF s_install_file = "none"
    THEN disk
    ELSE [disk EXCEPT !.tmp[s_install_file] =
            IF @ = NoFile THEN @ ELSE SubSeq(@, 1, k)]

\* Power fails between the remove and the rename.
EndCutShort == Accepted /\ Boots(Removed, 1)

-----------------------------------------------------------------------------
\* README: "The active pet survives reboots": a pet drawn from its file is the
\* one NVS names, and the built-in one is drawn only when NVS names it, or
\* names a pet whose file does not load or could not be read when it was last tried.
RebootShowsSame ==
  /\ s_src.file \in Names => prefs = s_src.file
  /\ s_src = Embedded /\ fs # "broken" /\ ~unread
       => prefs = "default" \/ ~Loads(disk.dpet[prefs])
=============================================================================
