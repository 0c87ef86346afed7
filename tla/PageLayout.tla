----------------------------- MODULE PageLayout -----------------------------
(***************************************************************************)
(* Where the pages of the device draw: for every renderer of               *)
(* src/firmware/src/pages the rows it draws, top to bottom, with the frame *)
(* of theme.cpp (title bar, footer) and the pairing box of main.cpp.       *)
(*                                                                         *)
(* A row is a line of text or a bar: the element it belongs to, the gap    *)
(* above it, its height, and how far the next row starts below its top.    *)
(* Text is 8 (label), 16 (value) or 48 (big) pixels high, times the text   *)
(* scale; the two-column kv rows are not scaled.  Colours and wording are  *)
(* left out.  Of the data a page shows, the layout depends on how many     *)
(* entries its lists have (n) and on whether the optional values came      *)
(* (rich); both are the same here for all the lists and values of a page.  *)
(***************************************************************************)
EXTENDS Integers, SequencesExt

Pages == {"home", "tips", "ai", "dev", "calendar", "messages", "github",
          "cpu", "memory", "gpu", "network"}

\* A look: whether the bars are shown, the text scale, the rotation.
Looks == [title : BOOLEAN, footer : BOOLEAN, scale : 1 .. 4, rotation : 0 .. 3]

Height(look)  == IF look.rotation % 2 = 1 THEN 240 ELSE 320
TitleH(look)  == IF look.title THEN 22 ELSE 0
FooterH(look) == IF look.footer THEN 14 ELSE 0

\* The lists of a frame are cut to what the store has room for.
Mut_NoCap(d, most) == d.n
AtMost(d, most) == IF d.n < most THEN d.n ELSE most

Row(el, gap, h, step) == [what |-> el, gap |-> gap, h |-> h, step |-> step]
Kv(el, step) == Row(el, 0, 16, step)
Times(n, row) == [i \in 1 .. n |-> row]
If(cond, rows) == IF cond THEN rows ELSE <<>>

\* How far down the page is after its first i rows: a hidden row takes no room.
Cursor(top, rows, hid) ==
  LET at[i \in 0 .. Len(rows)] ==
        IF i = 0 THEN top
        ELSE IF rows[i].what \in hid THEN at[i - 1]
        ELSE at[i - 1] + rows[i].gap + rows[i].step
  IN  at

\* The rows that are not hidden, one below the other from top on.
Flow(top, rows, hid) ==
  LET Shown == {i \in 1 .. Len(rows) : rows[i].what \notin hid}
      above == Cursor(top, rows, hid)
  IN  {[what |-> rows[i].what, y |-> above[i - 1] + rows[i].gap, h |-> rows[i].h, at |-> "row"] :
         i \in Shown}

\* Cells two by two at fixed places: a hidden one leaves its place empty.
Grid(top, els, h, pitch, hid) ==
  {[what |-> els[i], y |-> top + pitch * ((i - 1) \div 2), h |-> h,
    at |-> IF i % 2 = 1 THEN "left" ELSE "right"] :
     i \in {j \in 1 .. Len(els) : els[j] \notin hid}}

-----------------------------------------------------------------------------
(* The pages                                                               *)

TopList(el, d, s) ==
  If(d.n > 0, <<Row(el, 4, 8 * s, 14)>> \o Times(AtMost(d, 3), Kv(el, 13)))

\* The percentage of a core stands two pixels above its bar.
Cpu(d, s) ==
  <<Row("cpu.cores", 0, 8 * s, 14)>>
  \o Times(AtMost(d, 8), Row("cpu.cores", -2, 8 * s + 2, 13))
  \o If(d.n > 0, <<Row("cpu.cores", 0, 8 * s + 2, 16)>>)
  \o <<Kv("cpu.load", 14), Kv("cpu.freq", 14), Kv("cpu.temp", 14)>>
  \o TopList("cpu.top", d, s)

Memory(d, s) ==
  <<Kv("memory.headline", 14), Row("memory.headline", 0, 10, 16)>>
  \o If(d.rich, <<Kv("memory.headline", 14)>>)
  \o <<Kv("memory.swap", 14)>>
  \o If(d.rich, <<Row("memory.swap", 0, 6, 10), Row("memory.breakdown", 4, 8 * s, 14)>>
                \o Times(3, Kv("memory.breakdown", 13)))
  \o TopList("memory.top", d, s)

\* Without a GPU three lines say so, and no element is asked about.
Gpu(d, s) ==
  IF ~d.rich
    THEN <<Row("gpu", 60, 8 * s, 20), Row("gpu", 0, 8 * s, 12), Row("gpu", 0, 8 * s, 0)>>
    ELSE <<Kv("gpu.headline", 14), Kv("gpu.headline", 16),
           Kv("gpu.util", 14), Row("gpu.util", 0, 10, 16), Kv("gpu.vram", 14)>>
         \o If(d.n > 0, <<Row("gpu.vram", 0, 8, 12)>>)
         \o <<Kv("gpu.thermals", 14), Kv("gpu.thermals", 14)>>

Network(d, s) ==
  (IF d.n > 0 THEN <<Kv("network.headline", 14), Kv("network.headline", 13),
                     Kv("network.headline", 13)>>
   ELSE IF d.rich THEN Times(2, Kv("network.headline", 13))
   ELSE <<Kv("network.headline", 14)>>)
  \o If(d.n > 0, <<Row("network.ifaces", 4, 8 * s, 14)>>
                 \o [i \in 1 .. 2 * AtMost(d, 3) |->
                       Row("network.ifaces", 0, 8 * s, IF i % 2 = 1 THEN 12 ELSE 14)])

\* A section is set off by a line when one above it is shown.
Tips(d, s, hid) ==
  LET Gap(above) == IF above \subseteq hid THEN 0 ELSE 8
      Section(el, above, head, most, step) ==
        <<Row(el, Gap(above), 8 * s, head)>>
        \o Times(IF d.n = 0 THEN 1 ELSE AtMost(d, most), Row(el, 0, 8 * s, step))
  IN Section("tips.suggestions", {}, 16, 5, IF d.n = 0 THEN 16 ELSE 15)
     \o Section("tips.top_cpu", {"tips.suggestions"}, 14, 3, 14)
     \o Section("tips.top_ram", {"tips.suggestions", "tips.top_cpu"}, 14, 3, 14)

AiSpend(d, s, hid) ==
  LET Claude(h, step) == Row("ai.claude", 0, h, step)
      Codex(h, step) == Row("ai.codex", 0, h, step)
  IN <<Claude(8 * s, 18), Claude(48 * s, 50), Claude(8 * s, 18), Claude(8 * s, 14),
       Claude(8 * s, 18), Claude(8 * s, 14), Claude(8, 12)>>
     \o If(d.rich, <<Claude(8 * s, 14), Claude(8, 12), Claude(8 * s, 16)>>)
     \o <<Row("ai.codex", IF "ai.claude" \in hid THEN 0 ELSE 4, 8 * s, 20),
          Codex(8 * s, 18), Codex(8 * s, 18), Codex(10, 14), Codex(8 * s, 0)>>

DevFlow(s) ==
  <<Row("dev.branch", 0, 8 * s, 12), Row("dev.branch", 0, 16 * s, 32),
    Row("dev.commits", 0, 8 * s, 0), Row("dev.commits", -2, 48 * s, 40),
    Row("dev.loc", 0, 8 * s, 18), Row("dev.loc", 0, 16 * s, 32),
    Row("dev.last_commit", 0, 8 * s, 18), Row("dev.last_commit", 0, 48 * s, 0)>>

Calendar(s) ==
  <<Row("cal.countdown", 0, 8 * s, 18), Row("cal.countdown", 0, 48 * s, 60),
    Row("cal.title", 0, 16 * s, 36),
    Row("cal.today_remaining", 0, 8 * s, 0), Row("cal.today_remaining", -4, 48 * s, 0)>>

Github(s) ==
  <<Row("github.prs", 0, 8 * s, 18), Row("github.prs", 0, 48 * s, 62),
    Row("github.ci", 0, 8 * s, 18), Row("github.ci", 0, 48 * s, 62),
    Row("github.notifs", 0, 8 * s, 18), Row("github.notifs", 0, 48 * s, 0)>>

HomeEls == <<"home.cpu", "home.ram", "home.ai", "home.git", "home.prs", "home.msgs">>
MsgEls  == <<"msgs.email", "msgs.imessage", "msgs.slack", "msgs.teams", "msgs.whatsapp">>

\* The number of a message cell reaches below its frame.
Content(page, d, look, hid) ==
  LET s   == look.scale
      top == TitleH(look)
  IN CASE page = "home" ->
            Grid(top + 8, HomeEls, IF 22 + 16 * s > 62 THEN 22 + 16 * s ELSE 62, 70, hid)
       [] page = "messages" -> Grid(top + 6, MsgEls, 16 + 48 * s, 62, hid)
       [] page = "cpu"      -> Flow(top + 4, Cpu(d, s), hid)
       [] page = "memory"   -> Flow(top + 6, Memory(d, s), hid)
       [] page = "gpu"      -> Flow(top + 8, Gpu(d, s), hid)
       [] page = "network"  -> Flow(top + 6, Network(d, s), hid)
       [] page = "tips"     -> Flow(top + 6, Tips(d, s, hid), hid)
       [] page = "ai"       -> Flow(top + 6, AiSpend(d, s, hid), hid)
       [] page = "dev"      -> Flow(top + 6, DevFlow(s), hid)
       [] page = "calendar" -> Flow(top + 8, Calendar(s), hid)
       [] page = "github"   -> Flow(top + 8, Github(s), hid)

Factory == [title |-> TRUE, footer |-> TRUE, scale |-> 1, rotation |-> 0]

ElementsOf(page) == {r.what : r \in Content(page, [n |-> 1, rich |-> TRUE], Factory, {})}

Elements == Range(HomeEls) \cup Range(MsgEls) \cup
  {"cpu.cores", "cpu.load", "cpu.freq", "cpu.temp", "cpu.top",
   "memory.headline", "memory.swap", "memory.breakdown", "memory.top",
   "gpu.headline", "gpu.util", "gpu.vram", "gpu.thermals",
   "network.headline", "network.ifaces",
   "tips.suggestions", "tips.top_cpu", "tips.top_ram",
   "ai.claude", "ai.codex",
   "dev.branch", "dev.commits", "dev.loc", "dev.last_commit",
   "cal.countdown", "cal.title", "cal.today_remaining",
   "github.prs", "github.ci", "github.notifs"}

-----------------------------------------------------------------------------
(* The frame and what lies over it                                         *)

Both(what, y, h) == [what |-> what, y |-> y, h |-> h, at |-> "row"]

TitleBar(page, look) == IF look.title THEN {Both(page, 0, 22)} ELSE {}

Footer(look) == IF look.footer THEN {Both("footer", Height(look) - 14, 14)} ELSE {}

\* The pairing box: a layer of its own, which covers no row entirely.
Box(pairing, look) ==
  IF pairing
    THEN {[what |-> "pairing", y |-> (Height(look) - 104) \div 2, h |-> 104, at |-> "box"]}
    ELSE {}

Screen(page, d, look, hid, pairing) ==
  UNION {Content(page, d, look, hid), TitleBar(page, look), Footer(look), Box(pairing, look)}

-----------------------------------------------------------------------------
(* Drawing over what is there: what is wholly covered is gone; the rest is *)
(* still to be seen.  A row is taken to cover its whole width, which is    *)
(* more than it does: what is left over here is left over on the panel.    *)

Columns == [row |-> {1, 2}, left |-> {1}, right |-> {2}, box |-> {3}]

Covers(rows, y, c) == \E m \in rows : m.y <= y /\ y < m.y + m.h /\ c \in Columns[m.at]

DrawnOver(old, new) ==
  new \cup {r \in old \ new :
              \E y \in r.y .. r.y + r.h - 1, c \in Columns[r.at] : ~Covers(new, y, c)}
=============================================================================
