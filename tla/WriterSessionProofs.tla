------------------------- MODULE WriterSessionProofs -------------------------
(***************************************************************************)
(* What is proved of WriterSession: for every writer and every network the *)
(* types and that nobody waits for nothing; for a writer who waits for     *)
(* answers, that texts stay in their chapter and, short of a mishap, that  *)
(* the reviewed generation is the head and that no text is lost.  Each has *)
(* an invariant of its own, inductive relative to those before it: TypeInv,*)
(* NobodyForgotten, HomeInv, ReviewInv, KeepInv.                           *)
(***************************************************************************)
EXTENDS WriterSession, TLAPS

(***************************************************************************)
(* TypeInv: every request on the wire is what its sender waits for.        *)
(***************************************************************************)
\* Who waits for the answer; of the saves of the page nobody does.
Role(r) ==
    CASE r.by \in {"task", "list", "gen", "tool"} -> "task"
      [] r.by = "open" -> "open"
      [] r.by = "undo" -> "undo"
      [] OTHER         -> "page"

\* A request is what its sender waits for.
Fits(r) ==
    /\ r.kind = "save" => r.by \in {"blur", "timer", "scan", "task", "review"} /\ r.text \in Texts
    /\ r.kind # "save" => r.by = IF r.kind = "revert" THEN "undo" ELSE r.kind
    /\ r.by = "task" => task.pc = "saving"
    /\ r.by = "list" => task.pc = "listing" /\ task.op # "tool"
    /\ r.by = "gen"  => task.pc = "sent" /\ task.op # "tool"
    /\ r.by = "tool" => task.pc = "sent" /\ task.op = "tool"
    /\ Role(r) = "task" => r.ch = task.ch
    /\ r.by = "open" => opening.pc = "sent" /\ r.ch = opening.ch
    /\ r.by = "undo" => undo.pc = "sent" /\ r.node \in DOMAIN nodes /\ nodes[r.node].ch = r.ch

\* Each of them waits for one request at a time.
Single(w) == \A i, j \in DOMAIN w : Role(w[i]) = Role(w[j]) /\ Role(w[i]) # "page" => i = j

Good   == {r \in Requests : Fits(r)}
WireOK == wire \in Seq(Good) /\ Single(wire)

NodeOf(v, c) == v = NoNode \/ (v \in DOMAIN nodes /\ nodes[v].ch = c)

\* The editor has a text and its timers run only while a chapter is open.
PageOK ==
    /\ active # NoChapter => opened \in Texts /\ text \in Texts
    /\ timer \/ scanTimer \/ focus => active # NoChapter
    /\ review.open => review.base \in Texts /\ review.out \in Texts /\ NodeOf(review.to, active)

\* What a handler captured before its await.
WaitsOK ==
    /\ task \in [pc : {"idle", "saving", "listing", "sent", "answered"},
                 op : GenModes \cup {"tool", "none"}, ch : Chapters \cup {NoChapter},
                 opened : AnyText, base : AnyText, to : Nat, out : AnyText]
    /\ task.pc # "idle" => /\ task.ch \in Chapters /\ task.op # "none"
                           /\ task.opened \in Texts /\ task.base \in Texts
                           /\ NodeOf(task.to, task.ch)
    /\ task.pc = "answered" /\ task.op # "tool" => task.out \in Texts
    /\ opening \in [pc : {"idle", "sent", "answered"}, ch : Chapters \cup {NoChapter}, text : AnyText]
    /\ opening.pc # "idle" => opening.ch \in Chapters
    /\ opening.pc = "answered" => opening.text \in Texts
    /\ undo \in [pc : {"idle", "sent", "answered"}, cancel : BOOLEAN, text : AnyText]
    /\ undo.pc # "idle" => active # NoChapter
    /\ undo.pc = "answered" => undo.text \in Texts

ServerT ==
    /\ nodes \in Seq([ch : Chapters, kind : {"draft", "manual", "polish", "expand"}, text : Texts])
    /\ head \in [Chapters -> DOMAIN nodes]
    /\ \A c \in Chapters : nodes[head[c]].ch = c
PageT ==
    /\ active \in Chapters \cup {NoChapter} /\ {opened, text, scanned} \subseteq AnyText
    /\ {focus, timer, scanTimer} \subseteq BOOLEAN
    /\ review \in [open : BOOLEAN, base : AnyText, out : AnyText, to : {NoNode} \cup DOMAIN nodes]
    /\ review.open => active # NoChapter /\ ~timer /\ ~focus
    /\ busy \in {"", "task", "analyze"}
    /\ latest \in [Chapters -> Texts] /\ acts \in 0 .. MaxActs
    /\ PageOK

TypeInv == ServerT /\ PageT /\ WaitsOK /\ WireOK

(***************************************************************************)
(* HomeInv, for a writer who waits for answers: texts are at home on the   *)
(* page, on the server, in the handlers that wait and on the wire.         *)
(***************************************************************************)
\* At most one handler waits; the chapter does not change under it.
OneWait ==
    /\ task.pc # "idle" => opening.pc = "idle" /\ undo.pc = "idle" /\ task.ch = active /\ ~review.open
    /\ opening.pc # "idle" => undo.pc = "idle"

PageHome ==
    /\ active # NoChapter => text[1] = active /\ opened[1] = active
    /\ review.open => review.base[1] = active /\ review.out[1] = active

ServerHome == \A v \in DOMAIN nodes : nodes[v].text[1] = nodes[v].ch

WaitsHome ==
    /\ task.pc # "idle" => task.opened[1] = task.ch /\ task.base[1] = task.ch
    /\ task.pc = "answered" /\ task.op # "tool" => task.out[1] = task.ch
    /\ opening.pc = "answered" => opening.text[1] = opening.ch
    /\ undo.pc = "answered" => undo.text[1] = active

Homely ==
    {r \in Requests : /\ r.kind = "save" => r.text[1] = r.ch
                      /\ r.kind = "revert" => r.ch = active}

HomeInv == OneWait /\ PageHome /\ ServerHome /\ WaitsHome /\ wire \in Seq(Homely)

(***************************************************************************)
(* ReviewInv: what holds short of a mishap until an answer is handled, and *)
(* that a generated text is the head until its review ends.                *)
(***************************************************************************)
IsSave(r, c) == r.kind = "save" /\ r.ch = c
NoSave(w, c) == \A i \in DOMAIN w : ~IsSave(w[i], c)

\* After whom no save of the same chapter is sent: a revert, the loading of another chapter.
Leaves(r) == r.kind = "revert" \/ (r.kind = "open" /\ r.ch # active)
Behind(w) == \A i, k \in DOMAIN w : Leaves(w[i]) /\ IsSave(w[k], w[i].ch) => k < i

Quiet ==
    /\ Waiting => ~focus
    /\ undo.pc # "idle" /\ review.open => undo.cancel

Generated ==
    /\ undo.pc = "answered" => NoSave(wire, active)
    /\ task.pc = "answered" /\ task.op # "tool" =>
           HeadText(task.ch) = task.out /\ NoSave(wire, task.ch)
    /\ review.open /\ review.to # NoNode /\ undo.pc # "answered" =>
           HeadText(active) = review.out /\ NoSave(wire, active)

Fresh     == Behind(wire) /\ Generated
ReviewInv == Quiet /\ (~mishap => Fresh)

(***************************************************************************)
(* KeepInv, short of a mishap too: what was last written in a chapter is   *)
(* in the editor and not yet sent, on the wire as its last save, or stored.*)
(***************************************************************************)
\* The last save of c on the wire carries t; every save of c carries t.
LastSave(w, c, t) ==
    \E i \in DOMAIN w : /\ IsSave(w[i], c) /\ w[i].text = t
                        /\ \A j \in DOMAIN w : j > i => ~IsSave(w[j], c)
Asks(w, c, t) == \A i \in DOMAIN w : IsSave(w[i], c) => w[i].text = t

\* What has been captured or answered agrees with the server.
Saved ==
    /\ focus => text = latest[active]
    /\ opening.pc = "answered" /\ opening.ch # active =>
           HeadText(opening.ch) = opening.text /\ NoSave(wire, opening.ch)
    /\ undo.pc = "answered" => HeadText(active) = undo.text
    /\ task.pc \in {"sent", "answered"} /\ task.op # "tool" => task.to # NoNode

\* Is the editor to show what the server will have once the saves are done?
Level ==
    /\ active # NoChapter /\ ~(review.open /\ review.to # NoNode)
    /\ undo.pc # "answered" /\ ~(task.pc = "answered" /\ task.op # "tool")
Settled(w)   == LastSave(w, active, text) \/ (NoSave(w, active) /\ HeadText(active) = text)
InStep(w, f) == Level /\ ~f => Settled(w)

\* latest[c], what was last written in c, is in a version, on its way or in the editor.
Stored(c) == \E v \in DOMAIN nodes : nodes[v].ch = c /\ nodes[v].text = latest[c]
Kept(w, f, c) ==
    \/ c = active /\ f
    \/ LastSave(w, c, latest[c])
    \/ Stored(c) /\ Asks(w, c, HeadText(c))

Safe    == Saved /\ InStep(wire, focus) /\ \A c \in Chapters : Kept(wire, focus, c)
KeepInv == ~mishap => Safe

-----------------------------------------------------------------------------
LEMMA Appended ==
    ASSUME NEW R, NEW w \in Seq(R), NEW q \in R
    PROVE  /\ Append(w, q) \in Seq(R) /\ Len(Append(w, q)) = Len(w) + 1
           /\ DOMAIN Append(w, q) = 1 .. Len(w) + 1 /\ DOMAIN w = 1 .. Len(w) /\ Len(w) \in Nat
           /\ \A i \in DOMAIN w : Append(w, q)[i] = w[i]
           /\ Append(w, q)[Len(w) + 1] = q
           /\ w \o << >> = w /\ w \o <<q>> = Append(w, q)
OBVIOUS

LEMMA Widened ==
    ASSUME NEW R, NEW S, NEW w \in Seq(R), \A i \in DOMAIN w : w[i] \in S
    PROVE  w \in Seq(S)
OBVIOUS

LEMMA Inside ==
    ASSUME NEW R, NEW w \in Seq(R), NEW i \in DOMAIN w
    PROVE  w[i] \in R
OBVIOUS

\* Where a request stands after the one at i has been taken out.
LEMMA Shifted ==
    ASSUME NEW R, wire \in Seq(R), NEW i \in DOMAIN wire
    PROVE  /\ Others(i) \in Seq(R) /\ Len(Others(i)) = Len(wire) - 1
           /\ Len(wire) \in Nat /\ i \in 1 .. Len(wire)
           /\ DOMAIN Others(i) = 1 .. Len(wire) - 1 /\ DOMAIN wire = 1 .. Len(wire)
           /\ \A k \in 1 .. Len(wire) - 1 : k < i => Others(i)[k] = wire[k]
           /\ \A k \in 1 .. Len(wire) - 1 : k >= i => Others(i)[k] = wire[k + 1]
BY DEF Others

(***************************************************************************)
(* Types.                                                                  *)
(***************************************************************************)
LEMMA Taken ==
    ASSUME WireOK, NEW i \in DOMAIN wire
    PROVE  /\ Others(i) \in Seq({x \in Good : Role(wire[i]) # "page" => Role(x) # Role(wire[i])})
           /\ Single(Others(i)) /\ wire[i] \in Good
<1>1. wire \in Seq(Good) /\ Single(wire) /\ wire[i] \in Good
  BY Inside DEF WireOK
<1>7. Others(i) \in Seq(Good)
  BY <1>1, Shifted
<1>2. /\ Len(wire) \in Nat /\ i \in 1 .. Len(wire)
      /\ DOMAIN Others(i) = 1 .. Len(wire) - 1 /\ DOMAIN wire = 1 .. Len(wire)
  BY <1>1, Shifted
<1>3. ASSUME NEW k \in DOMAIN Others(i)
      PROVE  Role(wire[i]) # "page" => Role(Others(i)[k]) # Role(wire[i])
  <2>1. CASE k < i
    <3>1. Others(i)[k] = wire[k] /\ k \in DOMAIN wire /\ k # i
      BY <1>2, <2>1 DEF Others
    <3> QED BY <1>1, <3>1 DEF Single
  <2>2. CASE ~(k < i)
    <3>1. Others(i)[k] = wire[k + 1] /\ k + 1 \in DOMAIN wire /\ k + 1 # i
      BY <1>2, <2>2 DEF Others
    <3> QED BY <1>1, <3>1 DEF Single
  <2> QED BY <2>1, <2>2
<1>4. \A k \in DOMAIN Others(i) : Others(i)[k] \in Good
  BY <1>7, Inside
<1>5. Single(Others(i))
  <2>1. SUFFICES ASSUME NEW k \in 1 .. Len(wire) - 1, NEW l \in 1 .. Len(wire) - 1, k < l,
                        Role(Others(i)[k]) = Role(Others(i)[l]), Role(Others(i)[k]) # "page"
                 PROVE  FALSE
    <3>1. \A k, l \in 1 .. Len(wire) - 1 :
             Role(Others(i)[k]) = Role(Others(i)[l]) /\ Role(Others(i)[k]) # "page" => ~(k < l)
      BY <2>1
    <3>2. \A k, l \in 1 .. Len(wire) - 1 : ~(k < l) /\ ~(l < k) => k = l
      BY <1>2
    <3> QED BY <1>2, <3>1, <3>2 DEF Single
  <2>2. CASE l < i
    <3>1. /\ Others(i)[k] = wire[k] /\ k \in DOMAIN wire /\ k # l
          /\ Others(i)[l] = wire[l] /\ l \in DOMAIN wire
      BY <1>2, <2>1, <2>2 DEF Others
    <3> QED BY <1>1, <2>1, <3>1 DEF Single
  <2>3. CASE ~(l < i) /\ k < i
    <3>1. /\ Others(i)[k] = wire[k] /\ k \in DOMAIN wire /\ k # l + 1
          /\ Others(i)[l] = wire[l + 1] /\ l + 1 \in DOMAIN wire
      BY <1>2, <2>1, <2>3 DEF Others
    <3> QED BY <1>1, <2>1, <3>1 DEF Single
  <2>4. CASE ~(k < i)
    <3>1. /\ Others(i)[k] = wire[k + 1] /\ k + 1 \in DOMAIN wire /\ k + 1 # l + 1
          /\ Others(i)[l] = wire[l + 1] /\ l + 1 \in DOMAIN wire
      BY <1>2, <2>1, <2>4 DEF Others
    <3> QED BY <1>1, <2>1, <3>1 DEF Single
  <2> QED BY <2>2, <2>3, <2>4
<1>6. Others(i) \in Seq({x \in Good : Role(wire[i]) # "page" => Role(x) # Role(wire[i])})
  BY <1>3, <1>4, <1>7, Widened
<1> QED BY <1>1, <1>5, <1>6

LEMMA Added ==
    ASSUME NEW S, NEW w \in Seq(S), Single(w), NEW q \in S,
           Role(q) = "page" \/ \A x \in S : x # q => Role(x) # Role(q),
           Role(q) = "page" \/ \A k \in DOMAIN w : Role(w[k]) # Role(q)
    PROVE  Append(w, q) \in Seq(S) /\ Single(Append(w, q))
BY Appended DEF Single

LEMMA SaveGood ==
    ASSUME WriterAssumption, active \in Chapters, NEW t \in Texts,
           NEW by \in {"blur", "timer", "scan", "review"}
    PROVE  Save(by, t) \in Good /\ Role(Save(by, t)) = "page"
BY DEF Save, Request, Good, Requests, Fits, Role, AnyText, NoNode

\* The types, taken apart and put together again.
LEMMA Parts ==
    ASSUME TypeInv
    PROVE  ServerT /\ PageT /\ WaitsOK /\ WireOK
BY DEF TypeInv

LEMMA Whole ==
    ASSUME ServerT', PageT', WaitsOK', WireOK'
    PROVE  TypeInv'
BY DEF TypeInv

LEMMA Together ==
    ASSUME TypeInv, mishap \in BOOLEAN
    PROVE  TypeOK
<1>1. /\ task.pc \in {"idle", "saving", "listing", "sent", "answered"}
      /\ opening.pc \in {"idle", "sent", "answered"}
      /\ undo.pc \in {"idle", "sent", "answered"}
  BY DEF TypeInv, WaitsOK
<1>2. wire \in Seq(Requests)
  <2>1. wire \in Seq(Good)
    BY DEF TypeInv, WireOK
  <2>2. \A i \in DOMAIN wire : wire[i] \in Requests
    BY <2>1, Inside DEF Good
  <2> QED BY <2>1, <2>2, Widened
<1> QED BY <1>1, <1>2 DEF TypeInv, TypeOK, ServerT, PageT

LEMMA Facts ==
    ASSUME WriterAssumption
    PROVE  /\ NoChapter \notin Chapters /\ NoText \in AnyText /\ Texts \subseteq AnyText
           /\ \A c \in Chapters, t \in Words : <<c, t>> \in Texts /\ <<c, t>>[1] = c
           /\ \A c \in Chapters : BlankOf(c) \in Texts
           /\ \A t \in Texts : t[1] \in Chapters
BY DEF WriterAssumption, NoChapter, Chapters, AnyText, Texts, BlankOf

LEMMA Blurring ==
    ASSUME WriterAssumption, TypeInv
    PROVE  /\ wire \o Blurred \in Seq(Good) /\ Single(wire \o Blurred)
           /\ \/ wire \o Blurred = wire /\ ~(focus /\ Editing)
              \/ focus /\ Editing /\ wire \o Blurred = Append(wire, Save("blur", text))
<1>1. wire \in Seq(Good) /\ Single(wire)
  BY DEF TypeInv, WireOK
<1>2. CASE focus /\ Editing
  <2>1. Save("blur", text) \in Good /\ Role(Save("blur", text)) = "page"
    BY <1>2, SaveGood DEF Editing, TypeInv, PageOK, PageT
  <2>2. wire \o Blurred = Append(wire, Save("blur", text))
    BY <1>1, <1>2, <2>1, Appended DEF Blurred
  <2> QED BY <1>1, <1>2, <2>1, <2>2, Added
<1>3. CASE ~(focus /\ Editing)
  <2>1. Blurred = << >>
    BY <1>3 DEF Blurred
  <2>2. wire \o << >> = wire
    BY <1>1
  <2> QED BY <1>1, <1>3, <2>1, <2>2
<1> QED BY <1>2, <1>3

LEMMA Timing ==
    ASSUME PageT, Effects, active' \in Chapters
    PROVE  /\ timer' \in BOOLEAN /\ scanTimer' \in BOOLEAN /\ scanned' = scanned
           /\ review'.open => ~timer'
BY DEF PageT, Effects, Rearm, RearmScan

\* The page sends no request, or saves.
LEMMA WireStays ==
    ASSUME WriterAssumption, TypeInv, UNCHANGED <<nodes, task, opening, undo>>,
           \/ wire' = wire
           \/ wire' = wire \o Blurred
           \/ \E by \in {"blur", "timer", "scan", "review"}, t \in Texts :
                 active \in Chapters /\ wire' = Append(wire, Save(by, t))
    PROVE  WireOK'
<1>1. Good' = Good
  BY DEF Good, Fits
<1>2. wire \in Seq(Good) /\ Single(wire)
  BY DEF TypeInv, WireOK
<1>3. CASE \E by \in {"blur", "timer", "scan", "review"}, t \in Texts :
              active \in Chapters /\ wire' = Append(wire, Save(by, t))
  <2>1. PICK by \in {"blur", "timer", "scan", "review"}, t \in Texts :
              active \in Chapters /\ wire' = Append(wire, Save(by, t))
    BY <1>3
  <2>2. Save(by, t) \in Good /\ Role(Save(by, t)) = "page"
    BY <2>1, SaveGood
  <2>3. wire' \in Seq(Good) /\ Single(wire')
    BY <1>2, <2>1, <2>2, Added
  <2> QED BY <1>1, <2>3 DEF WireOK, Single
<1>4. CASE wire' = wire \o Blurred \/ wire' = wire
  <2>1. wire' \in Seq(Good) /\ Single(wire')
    BY <1>2, <1>4, Blurring
  <2> QED BY <1>1, <2>1 DEF WireOK, Single
<1> QED BY <1>3, <1>4

\* No node leaves its chapter.
Keeps == \A v \in DOMAIN nodes : v \in DOMAIN nodes' /\ nodes'[v].ch = nodes[v].ch

LEMMA GoodKept ==
    ASSUME WriterAssumption, Keeps, NEW x \in Good,
           Role(x) = "task" => task' = task,
           Role(x) = "open" => opening' = opening,
           Role(x) = "undo" => undo' = undo
    PROVE  x \in Good'
<1>1. x \in Requests /\ Fits(x)
  BY DEF Good
<1>2. x.by \in {"blur", "timer", "scan", "task", "review", "open", "list", "gen", "tool", "undo", "analyze"}
  BY <1>1 DEF Requests
<1>3. Fits(x)'
  <2>1. CASE x.by \in {"task", "list", "gen", "tool"}
    BY <1>1, <2>1 DEF Fits, Role
  <2>2. CASE x.by = "open"
    BY <1>1, <2>2 DEF Fits, Role
  <2>3. CASE x.by = "undo"
    BY <1>1, <2>3 DEF Fits, Role, Keeps
  <2>4. CASE x.by \in {"blur", "timer", "scan", "review", "analyze"}
    BY <1>1, <2>4 DEF Fits, Role
  <2> QED BY <1>2, <2>1, <2>2, <2>3, <2>4
<1> QED BY <1>1, <1>3 DEF Good

LEMMA Roles ==
    ASSUME NEW x \in Good
    PROVE  /\ Role(x) = "task" => task.pc \in {"saving", "listing", "sent"}
           /\ Role(x) = "open" => opening.pc = "sent"
           /\ Role(x) = "undo" => undo.pc = "sent"
<1>1. Fits(x) /\ x.by \in {"blur", "timer", "scan", "task", "review", "open", "list", "gen", "tool", "undo", "analyze"}
  BY DEF Good, Requests
<1> QED BY <1>1 DEF Fits, Role

\* A request is sent that somebody waits for, who waited for none.
LEMMA WireSends ==
    ASSUME WriterAssumption, Keeps, NEW w, w \in Seq(Good), Single(w),
           NEW q, q \in Good', Role(q) # "page",
           Role(q) = "task" => task.pc = "idle",
           Role(q) = "open" => opening.pc = "idle",
           Role(q) = "undo" => undo.pc = "idle",
           Role(q) # "task" => task' = task,
           Role(q) # "open" => opening' = opening,
           Role(q) # "undo" => undo' = undo,
           wire' = Append(w, q) \/ wire' = w \o <<q>>
    PROVE  WireOK'
<1>1. ASSUME NEW k \in DOMAIN w PROVE w[k] \in Good' /\ Role(w[k]) # Role(q)
  <2>1. w[k] \in Good
    BY Inside
  <2>2. Role(w[k]) # Role(q)
    BY <2>1, Roles DEF Role
  <2> QED BY <2>1, <2>2, GoodKept DEF Role
<1>2. w \in Seq(Good')
  BY <1>1, Widened
<1>3. Append(w, q) \in Seq(Good') /\ Single(Append(w, q)) /\ w \o <<q>> = Append(w, q)
  BY <1>1, <1>2, Appended DEF Single
<1> QED BY <1>3 DEF WireOK, Single

\* A request has been served; another of the same sender may follow.
LEMMA WireTaken ==
    ASSUME WriterAssumption, Keeps, WireOK, NEW i \in DOMAIN wire,
           Role(wire[i]) # "task" => task' = task,
           Role(wire[i]) # "open" => opening' = opening,
           Role(wire[i]) # "undo" => undo' = undo,
           \/ wire' = Others(i)
           \/ \E q \in Good' : Role(q) = Role(wire[i]) /\ wire' = Append(Others(i), q)
    PROVE  WireOK'
<1>1. /\ Others(i) \in Seq({x \in Good : Role(wire[i]) # "page" => Role(x) # Role(wire[i])})
      /\ Single(Others(i)) /\ wire[i] \in Good
  BY Taken
<1>2. ASSUME NEW k \in DOMAIN Others(i)
      PROVE  Others(i)[k] \in Good' /\ (Role(wire[i]) # "page" => Role(Others(i)[k]) # Role(wire[i]))
  <2>1. Others(i)[k] \in Good /\ (Role(wire[i]) # "page" => Role(Others(i)[k]) # Role(wire[i]))
    BY <1>1, Inside
  <2>2. Role(wire[i]) = "page" => UNCHANGED <<task, opening, undo>>
    OBVIOUS
  <2> QED BY <2>1, <2>2, GoodKept
<1>3. Others(i) \in Seq(Good')
  BY <1>1, <1>2, Widened
<1>4. CASE wire' = Others(i)
  BY <1>1, <1>3, <1>4 DEF WireOK, Single
<1>5. CASE \E q \in Good' : Role(q) = Role(wire[i]) /\ wire' = Append(Others(i), q)
  <2>1. PICK q \in Good' : Role(q) = Role(wire[i]) /\ wire' = Append(Others(i), q)
    BY <1>5
  <2>2. wire' \in Seq(Good') /\ Single(wire')
    BY <1>1, <1>2, <1>3, <2>1, Appended DEF Single
  <2> QED BY <2>2 DEF WireOK, Single
<1> QED BY <1>4, <1>5

\* Nothing is sent, and who waits goes on waiting.
LEMMA WireHeld ==
    ASSUME WriterAssumption, Keeps, WireOK, wire' = wire,
           task' = task \/ task.pc \in {"idle", "answered"},
           opening' = opening \/ opening.pc # "sent",
           undo' = undo \/ undo.pc # "sent"
    PROVE  WireOK'
<1>1. wire \in Seq(Good) /\ Single(wire)
  BY DEF WireOK
<1>2. ASSUME NEW k \in DOMAIN wire PROVE wire[k] \in Good'
  <2>1. wire[k] \in Good
    BY <1>1, Inside
  <2> QED BY <2>1, Roles, GoodKept
<1>3. wire \in Seq(Good')
  BY <1>1, <1>2, Widened
<1> QED BY <1>1, <1>3 DEF WireOK, Single

LEMMA Acts ==
    ASSUME WriterAssumption, acts \in 0 .. MaxActs, Act
    PROVE  acts' \in 0 .. MaxActs
BY DEF WriterAssumption, Act


LEMMA TypeType ==
    ASSUME WriterAssumption, TypeInv, Type
    PROVE  TypeInv'
<1>1. /\ ServerT /\ PageT /\ WaitsOK /\ WireOK /\ UNCHANGED <<nodes, head, wire, task, opening, undo, busy>>
      /\ Effects /\ UNCHANGED <<active, opened, review>> /\ active \in Chapters /\ ~review.open
  BY Parts DEF Type, Editing, server, waits, PageT
<1>2. PICK word \in Words : /\ text' = <<active, word>>
                            /\ latest' = [latest EXCEPT ![active] = <<active, word>>]
  BY DEF Type
<1>3. <<active, word>> \in Texts /\ Texts \subseteq AnyText
  BY <1>1, Facts
<1>4. /\ timer' \in BOOLEAN /\ scanTimer' \in BOOLEAN /\ scanned' = scanned
      /\ focus' = TRUE
  BY <1>1, Timing DEF Type
<1>7. acts' \in 0 .. MaxActs
  BY <1>1, Acts DEF Type, PageT
<1>8. NoChapter \notin Chapters
  BY Facts
<1>9. latest' \in [Chapters -> Texts]
  BY <1>1, <1>2, <1>3 DEF PageT
<1>10. PageOK'
  BY <1>1, <1>2, <1>3, <1>8 DEF PageT, PageOK
<1>5. PageT'
  BY <1>1, <1>2, <1>3, <1>4, <1>7, <1>9, <1>10 DEF PageT
<1>6. ServerT' /\ WaitsOK' /\ WireOK'
  BY <1>1, WireStays DEF ServerT, WaitsOK, NodeOf
<1> QED BY <1>5, <1>6, Whole

LEMMA BlurType ==
    ASSUME WriterAssumption, TypeInv, Blur
    PROVE  TypeInv'
<1>1. /\ ServerT /\ PageT /\ WaitsOK
      /\ UNCHANGED <<nodes, head, task, opening, undo, busy, active, opened, text, review,
                     timer, scanTimer, scanned, latest, acts>>
      /\ focus' = FALSE /\ wire' = wire \o Blurred
  BY Parts DEF Blur, server, waits, timers
<1>2. PageT'
  BY <1>1 DEF PageT, PageOK, NodeOf
<1>3. ServerT' /\ WaitsOK' /\ WireOK'
  BY <1>1, WireStays DEF ServerT, WaitsOK, NodeOf
<1> QED BY <1>2, <1>3, Whole

LEMMA TimersType ==
    ASSUME WriterAssumption, TypeInv, TimerFires \/ ScanFires
    PROVE  TypeInv'
<1>1. /\ ServerT /\ PageT /\ WaitsOK /\ active \in Chapters /\ text \in Texts
      /\ UNCHANGED <<nodes, head, task, opening, undo, active, opened, text, focus, review, latest, acts>>
  BY Parts DEF TimerFires, ScanFires, server, waits, page, PageT, PageOK
<1>2. /\ timer' \in {timer, FALSE} /\ scanTimer' \in {scanTimer, FALSE} /\ scanned' \in {scanned, text}
      /\ busy' \in {busy, "analyze"}
  BY DEF TimerFires, ScanFires, waits
<1>7. NoChapter \notin Chapters
  BY Facts
<1>8. PageOK'
  BY <1>1, <1>7 DEF PageT, PageOK, NodeOf
<1>9. scanned' \in AnyText
  BY <1>1, <1>2, Facts DEF PageT
<1>10. {focus', timer', scanTimer'} \subseteq BOOLEAN
  BY <1>1, <1>2 DEF PageT
<1>11. busy' \in {"", "task", "analyze"} 
  BY <1>1, <1>2 DEF PageT
<1>12. review.open => ~timer'
  BY <1>1, <1>2 DEF PageT
<1>3. PageT'
  BY <1>1, <1>8, <1>9, <1>10, <1>11, <1>12 DEF PageT
<1>4. \/ wire' = wire
      \/ \E by \in {"blur", "timer", "scan", "review"} : wire' = Append(wire, Save(by, text))
  BY DEF TimerFires, ScanFires
<1>5. WireOK'
  <2>1. CASE wire' = wire
    BY <1>1, <2>1, WireStays
  <2>2. ASSUME NEW by \in {"blur", "timer", "scan", "review"}, wire' = Append(wire, Save(by, text))
        PROVE  WireOK'
    BY <1>1, <2>2, WireStays
  <2> QED BY <1>4, <2>1, <2>2
<1>6. ServerT' /\ WaitsOK'
  BY <1>1 DEF ServerT, WaitsOK, NodeOf
<1> QED BY <1>3, <1>5, <1>6, Whole

\* What comes on the page has been typed, or read from the server.
LEMMA ScreenType ==
    ASSUME WriterAssumption, TypeInv, UNCHANGED <<nodes, head>>, Effects,
           NEW c \in Chapters, active' = c, opened' \in Texts, text' \in Texts,
           busy' \in {"", "task", "analyze"}, latest' \in [Chapters -> Texts], acts' \in 0 .. MaxActs,
           focus' \in BOOLEAN,
           \/ review' = NoReview
           \/ review' = review /\ c = active /\ (focus' => focus)
           \/ /\ ~focus'
              /\ \E b \in Texts, o \in Texts, v \in {NoNode} \cup DOMAIN nodes :
                    NodeOf(v, c) /\ review' = [open |-> TRUE, base |-> b, out |-> o, to |-> v]
    PROVE  PageT' /\ ServerT'
<1>1. PageT /\ ServerT
  BY Parts
<1>2. /\ timer' \in BOOLEAN /\ scanTimer' \in BOOLEAN /\ scanned' = scanned /\ (review'.open => ~timer')
  BY <1>1, Timing
<1>4. NoChapter \notin Chapters /\ NoText \in AnyText /\ Texts \subseteq AnyText
  BY Facts
<1>3. /\ review' \in [open : BOOLEAN, base : AnyText, out : AnyText, to : {NoNode} \cup DOMAIN nodes]
      /\ review'.open => ~focus'
      /\ review'.open => review'.base \in Texts /\ review'.out \in Texts /\ NodeOf(review'.to, c)
  <2>1. CASE review' = NoReview
    BY <1>4, <2>1 DEF NoReview
  <2>2. CASE review' = review /\ c = active /\ (focus' => focus)
    <3>1. /\ review \in [open : BOOLEAN, base : AnyText, out : AnyText, to : {NoNode} \cup DOMAIN nodes]
          /\ review.open => ~focus
          /\ review.open => review.base \in Texts /\ review.out \in Texts /\ NodeOf(review.to, active)
      BY <1>1 DEF PageT, PageOK
    <3> QED BY <2>2, <3>1
  <2>3. ASSUME ~focus', NEW b \in Texts, NEW o \in Texts, NEW v \in {NoNode} \cup DOMAIN nodes,
               NodeOf(v, c), review' = [open |-> TRUE, base |-> b, out |-> o, to |-> v]
        PROVE  <1>3!:
    BY <1>4, <2>3
  <2> QED BY <2>1, <2>2, <2>3
<1>5. review'.open => NodeOf(review.to, active)'
  BY <1>3 DEF NodeOf
<1>6. PageOK'
  BY <1>3, <1>4, <1>5 DEF PageOK
<1>7. PageT'
  BY <1>1, <1>2, <1>3, <1>4, <1>6 DEF PageT
<1>8. ServerT'
  BY <1>1 DEF ServerT
<1> QED BY <1>7, <1>8

\* A click that leaves the page as it is.
LEMMA CalmType ==
    ASSUME WriterAssumption, TypeInv, focus' = FALSE, acts' \in 0 .. MaxActs,
           UNCHANGED <<nodes, head, active, opened, text, review, timer, scanTimer, scanned, latest>>,
           busy' \in {"", "task", "analyze"}
    PROVE  PageT' /\ ServerT'
<1>1. PageT /\ ServerT
  BY Parts
<1>2. PageOK'
  BY <1>1 DEF PageT, PageOK, NodeOf
<1>3. PageT'
  BY <1>1, <1>2 DEF PageT
<1> QED BY <1>1, <1>3 DEF ServerT

LEMMA OpenType ==
    ASSUME WriterAssumption, TypeInv, Open
    PROVE  TypeInv'
<1>1. ServerT /\ PageT /\ WaitsOK /\ WireOK
  BY Parts
<1>2. /\ focus' = FALSE /\ acts' \in 0 .. MaxActs
      /\ UNCHANGED <<nodes, head, active, opened, text, review, timer, scanTimer, scanned, latest>>
      /\ UNCHANGED <<busy, task, undo>> /\ opening.pc = "idle"
  BY <1>1, Acts DEF Open, PageT, server, timers
<1>3. PICK c \in Chapters :
         /\ wire' = wire \o Blurred \o <<Request("open", "open", c, NoText, NoNode)>>
         /\ opening' = [NoOpening EXCEPT !.pc = "sent", !.ch = c]
  BY DEF Open
<1>4. PageT' /\ ServerT'
  BY <1>1, <1>2, CalmType DEF PageT
<1>5. opening' = [pc |-> "sent", ch |-> c, text |-> NoText] /\ NoText \in AnyText
  BY <1>3, Facts DEF NoOpening
<1>6. WaitsOK'
  BY <1>1, <1>2, <1>5 DEF WaitsOK, NodeOf
<1>7. WireOK'
  <2> DEFINE q == Request("open", "open", c, NoText, NoNode)
  <2>1. q \in Good' /\ Role(q) = "open"
    BY <1>5 DEF Request, Good, Requests, Fits, Role, AnyText, NoNode
  <2>2. wire \o Blurred \in Seq(Good) /\ Single(wire \o Blurred)
    BY Blurring
  <2>3. Keeps /\ wire' = (wire \o Blurred) \o <<q>>
    BY <1>2, <1>3 DEF Keeps
  <2> QED BY <1>2, <2>1, <2>2, <2>3, WireSends
<1> QED BY <1>4, <1>6, <1>7, Whole

LEMMA StartTaskType ==
    ASSUME WriterAssumption, TypeInv, StartTask
    PROVE  TypeInv'
<1>1. ServerT /\ PageT /\ WaitsOK /\ WireOK
  BY Parts
<1>2. /\ focus' = FALSE /\ acts' \in 0 .. MaxActs
      /\ UNCHANGED <<nodes, head, active, opened, text, review, timer, scanTimer, scanned, latest>>
      /\ UNCHANGED <<opening, undo>> /\ task.pc = "idle" /\ busy' = "task" /\ active \in Chapters
      /\ wire' = wire \o Blurred \o <<Save("task", text)>>
  BY <1>1, Acts DEF StartTask, PageT, server, timers, Editing
<1>3. PICK op \in GenModes \cup {"tool"} :
         task' = [NoTask EXCEPT !.pc = "saving", !.op = op, !.ch = active, !.opened = opened, !.base = text]
  BY DEF StartTask
<1>4. PageT' /\ ServerT'
  BY <1>1, <1>2, CalmType
<1>5. /\ task' = [pc |-> "saving", op |-> op, ch |-> active, opened |-> opened, base |-> text,
                  to |-> 0, out |-> NoText]
      /\ NoText \in AnyText /\ opened \in Texts /\ text \in Texts /\ Texts \subseteq AnyText /\ op # "none"
      /\ NoChapter \notin Chapters
  BY <1>1, <1>2, <1>3, Facts DEF NoTask, NoNode, WriterAssumption, PageT, PageOK
<1>6. WaitsOK'
  BY <1>1, <1>2, <1>5 DEF WaitsOK, NodeOf, NoNode
<1>7. WireOK'
  <2> DEFINE q == Save("task", text)
  <2>1. q \in Good' /\ Role(q) = "task"
    BY <1>2, <1>5 DEF Save, Request, Good, Requests, Fits, Role, NoNode
  <2>2. wire \o Blurred \in Seq(Good) /\ Single(wire \o Blurred)
    BY Blurring
  <2>3. Keeps /\ wire' = (wire \o Blurred) \o <<q>>
    BY <1>2 DEF Keeps
  <2> QED BY <1>2, <2>1, <2>2, <2>3, WireSends
<1> QED BY <1>4, <1>6, <1>7, Whole

LEMMA RevertToType ==
    ASSUME WriterAssumption, TypeInv, RevertTo
    PROVE  TypeInv'
<1>1. ServerT /\ PageT /\ WaitsOK /\ WireOK
  BY Parts
<1>2. /\ focus' = FALSE /\ acts' \in 0 .. MaxActs
      /\ UNCHANGED <<nodes, head, active, opened, text, review, timer, scanTimer, scanned, latest>>
      /\ UNCHANGED <<busy, task, opening>> /\ undo.pc = "idle" /\ active \in Chapters
      /\ undo' = [pc |-> "sent", cancel |-> FALSE, text |-> NoText]
  BY <1>1, Acts DEF RevertTo, PageT, server, timers, Editing, NoUndo
<1>3. PICK v \in DOMAIN nodes : /\ nodes[v].ch = active
                                /\ wire' = wire \o Blurred \o <<Request("revert", "undo", active, NoText, v)>>
  BY DEF RevertTo
<1>4. PageT' /\ ServerT'
  BY <1>1, <1>2, CalmType DEF PageT
<1>5. NoText \in AnyText /\ NoChapter \notin Chapters /\ v \in Nat
  BY <1>1, <1>3, Facts DEF ServerT
<1>6. WaitsOK'
  BY <1>1, <1>2, <1>5 DEF WaitsOK, NodeOf
<1>7. WireOK'
  <2> DEFINE q == Request("revert", "undo", active, NoText, v)
  <2>1. q \in Good' /\ Role(q) = "undo"
    BY <1>2, <1>3, <1>5 DEF Request, Good, Requests, Fits, Role
  <2>2. wire \o Blurred \in Seq(Good) /\ Single(wire \o Blurred)
    BY Blurring
  <2>3. Keeps /\ wire' = (wire \o Blurred) \o <<q>>
    BY <1>2, <1>3 DEF Keeps
  <2> QED BY <1>2, <2>1, <2>2, <2>3, WireSends
<1> QED BY <1>4, <1>6, <1>7, Whole

LEMMA OpenAnsweredType ==
    ASSUME WriterAssumption, TypeInv, OpenAnswered
    PROVE  TypeInv'
<1>1. ServerT /\ PageT /\ WaitsOK /\ WireOK
  BY Parts
<1>2. /\ UNCHANGED <<nodes, head, wire, busy, task, undo, latest, acts, focus>> /\ Effects
      /\ opening.ch \in Chapters /\ opening.text \in Texts /\ opening' = NoOpening
      /\ active' = opening.ch /\ opened' = opening.text
      /\ \/ opening.ch # active /\ text' = opening.text /\ review' = NoReview
         \/ opening.ch = active /\ text' = text /\ review' = review
  BY <1>1 DEF OpenAnswered, Show, server, WaitsOK
<1>3. text' \in Texts /\ NoChapter \notin Chapters /\ NoText \in AnyText
  BY <1>1, <1>2, Facts DEF PageT, PageOK
<1>4. PageT' /\ ServerT'
  BY <1>1, <1>2, <1>3, ScreenType DEF PageT
<1>5. WaitsOK'
  BY <1>1, <1>2, <1>3 DEF WaitsOK, NodeOf, NoOpening
<1>6. WireOK'
  BY <1>1, <1>2, WireHeld DEF OpenAnswered, Keeps
<1> QED BY <1>4, <1>5, <1>6, Whole

LEMMA TaskAnsweredType ==
    ASSUME WriterAssumption, TypeInv, TaskAnswered
    PROVE  TypeInv'
<1>1. ServerT /\ PageT /\ WaitsOK /\ WireOK
  BY Parts
<1>2. /\ UNCHANGED <<nodes, head, wire, opening, undo, latest, acts>> /\ Effects
      /\ task.pc = "answered" /\ task' = NoTask /\ busy' = "" 
      /\ active' = task.ch /\ opened' = task.opened
      /\ focus' = (focus /\ ~review'.open)
  BY DEF TaskAnswered, server
<1>3. /\ task.ch \in Chapters /\ task.opened \in Texts /\ task.base \in Texts /\ NodeOf(task.to, task.ch)
      /\ task.op # "tool" => task.out \in Texts
      /\ task.op \in GenModes \cup {"tool", "none"}
  BY <1>1, <1>2 DEF WaitsOK
<1>4. NoChapter \notin Chapters /\ NoText \in AnyText
  BY Facts
<1>5. PageT' /\ ServerT'
  <2>5. CASE task.ch # active /\ text' = task.opened /\ review' = NoReview
    <3>1. PageT' /\ ServerT'
      BY <1>1, <1>2, <1>3, <2>5, ScreenType DEF PageT
    <3> QED BY <3>1
  <2>6. CASE /\ task.ch = active /\ UNCHANGED review
             /\ text' \in {text, task.out} /\ (task.op = "tool" => text' = text)
    <3>1. text' \in Texts
      BY <1>1, <1>3, <1>4, <2>6 DEF PageT, PageOK
    <3>2. focus' \in BOOLEAN /\ (focus' => focus)
      BY <1>1, <1>2 DEF PageT
    <3>3. PageT' /\ ServerT'
      BY <1>1, <1>2, <1>3, <2>6, <3>1, <3>2, ScreenType DEF PageT
    <3> QED BY <3>3
  <2>7. CASE /\ task.ch = active /\ task.op # "tool" /\ UNCHANGED text
             /\ review' = [open |-> TRUE, base |-> task.base, out |-> task.out, to |-> task.to]
    <3>1. text' \in Texts
      BY <1>1, <1>3, <1>4, <2>7 DEF PageT, PageOK
    <3>2. focus' = FALSE
      BY <1>2, <2>7
    <3>3. task.to \in {NoNode} \cup DOMAIN nodes
      BY <1>3 DEF NodeOf
    <3>4. /\ ~focus'
          /\ \E b \in Texts, o \in Texts, v \in {NoNode} \cup DOMAIN nodes :
                NodeOf(v, task.ch) /\ review' = [open |-> TRUE, base |-> b, out |-> o, to |-> v]
      BY <1>3, <2>7, <3>2, <3>3
    <3>5. PageT' /\ ServerT'
      BY <1>1, <1>2, <1>3, <3>1, <3>2, <3>4, ScreenType DEF PageT
    <3> QED BY <3>5
  <2> QED BY <2>5, <2>6, <2>7 DEF TaskAnswered
<1>9. WaitsOK'
  BY <1>1, <1>2, <1>3, <1>4 DEF WaitsOK, NodeOf, NoTask, NoNode
<1>10. WireOK'
  BY <1>1, <1>2, WireHeld DEF Keeps
<1> QED BY <1>5, <1>9, <1>10, Whole

LEMMA ReviewEditType ==
    ASSUME WriterAssumption, TypeInv, ReviewEdit
    PROVE  TypeInv'
<1>1. ServerT /\ PageT /\ WaitsOK /\ WireOK
  BY Parts
<1>2. /\ UNCHANGED <<nodes, head, busy, task, opening, undo, latest, active, opened, text>> /\ Effects
      /\ active \in Chapters /\ ~review.open /\ focus' = FALSE /\ wire' = wire \o Blurred
      /\ acts' \in 0 .. MaxActs
  BY <1>1, Acts DEF ReviewEdit, Editing, server, waits, PageT
<1>3. PICK word \in Words :
         review' = [open |-> TRUE, base |-> text, out |-> <<active, word>>, to |-> NoNode]
  BY DEF ReviewEdit
<1>4. NoChapter \notin Chapters /\ text \in Texts /\ opened \in Texts /\ <<active, word>> \in Texts
  BY <1>1, <1>2, Facts DEF PageT, PageOK
<1>5. NodeOf(NoNode, active)
  BY DEF NodeOf
<1>6. \E b \in Texts, o \in Texts, v \in {NoNode} \cup DOMAIN nodes :
         NodeOf(v, active) /\ review' = [open |-> TRUE, base |-> b, out |-> o, to |-> v]
  BY <1>3, <1>4, <1>5
<1>7. PageT' /\ ServerT'
  BY <1>1, <1>2, <1>4, <1>6, ScreenType DEF PageT
<1>8. WaitsOK' /\ WireOK'
  BY <1>1, <1>2, WireStays DEF WaitsOK, NodeOf
<1> QED BY <1>7, <1>8, Whole

LEMMA FinishReviewType ==
    ASSUME WriterAssumption, TypeInv, FinishReview
    PROVE  TypeInv'
<1>1. ServerT /\ PageT /\ WaitsOK /\ WireOK
  BY Parts
<1>2. /\ UNCHANGED <<nodes, head, busy, task, opening, undo, active, opened, focus>> /\ Effects
      /\ review.open /\ review' = NoReview /\ acts' \in 0 .. MaxActs
  BY <1>1, Acts DEF FinishReview, server, waits, PageT
<1>3. PICK m \in {review.base, review.out} :
         text' = m /\ wire' = Append(wire, Save("review", m)) /\ latest' = [latest EXCEPT ![active] = m]
  BY DEF FinishReview
<1>4. active \in Chapters /\ opened \in Texts /\ m \in Texts /\ latest' \in [Chapters -> Texts]
  BY <1>1, <1>2, <1>3 DEF PageT, PageOK
<1>5. PageT' /\ ServerT'
  BY <1>1, <1>2, <1>3, <1>4, ScreenType DEF PageT
<1>6. WaitsOK'
  BY <1>1, <1>2 DEF WaitsOK, NodeOf
<1>7. WireOK'
  BY <1>2, <1>3, <1>4, WireStays
<1> QED BY <1>5, <1>6, <1>7, Whole

LEMMA CancelReviewType ==
    ASSUME WriterAssumption, TypeInv, CancelReview
    PROVE  TypeInv'
<1>1. ServerT /\ PageT /\ WaitsOK /\ WireOK
  BY Parts
<1>2. /\ UNCHANGED <<nodes, head, busy, task, opening, latest, active, opened, text, focus>> /\ Effects
      /\ review.open /\ undo.pc = "idle" /\ acts' \in 0 .. MaxActs /\ review' \in {review, NoReview}
  BY <1>1, Acts DEF CancelReview, server, PageT
<1>3. active \in Chapters /\ opened \in Texts /\ text \in Texts /\ NodeOf(review.to, active)
  BY <1>1, <1>2 DEF PageT, PageOK
<1>4. PageT' /\ ServerT'
  BY <1>1, <1>2, <1>3, ScreenType DEF PageT
<1>5. CASE UNCHANGED <<wire, undo>>
  <2>1. WaitsOK' /\ WireOK'
    BY <1>1, <1>2, <1>5, WireStays DEF WaitsOK, NodeOf
  <2> QED BY <1>4, <2>1, Whole
<1>6. CASE /\ review.to # NoNode
           /\ wire' = Append(wire, Request("revert", "undo", active, NoText, review.to))
           /\ undo' = [NoUndo EXCEPT !.pc = "sent", !.cancel = TRUE]
  <2>1. undo' = [pc |-> "sent", cancel |-> TRUE, text |-> NoText] /\ NoText \in AnyText /\ NoChapter \notin Chapters
    BY <1>6, Facts DEF NoUndo
  <2>2. WaitsOK'
    BY <1>1, <1>2, <1>3, <2>1 DEF WaitsOK, NodeOf
  <2> DEFINE q == Request("revert", "undo", active, NoText, review.to)
  <2>3. review.to \in DOMAIN nodes /\ nodes[review.to].ch = active /\ review.to \in Nat
    BY <1>1, <1>3, <1>6 DEF NodeOf, ServerT
  <2>4. q \in Good' /\ Role(q) = "undo"
    BY <1>2, <1>3, <2>1, <2>3 DEF Request, Good, Requests, Fits, Role
  <2>5. Keeps /\ wire \in Seq(Good) /\ Single(wire)
    BY <1>1, <1>2 DEF Keeps, WireOK
  <2>6. WireOK'
    BY <1>2, <1>6, <2>4, <2>5, WireSends
  <2> QED BY <1>4, <2>2, <2>6, Whole
<1> QED BY <1>5, <1>6 DEF CancelReview

LEMMA UndoAnsweredType ==
    ASSUME WriterAssumption, TypeInv, UndoAnswered
    PROVE  TypeInv'
<1>1. ServerT /\ PageT /\ WaitsOK /\ WireOK
  BY Parts
<1>2. /\ UNCHANGED <<nodes, head, wire, busy, task, opening, latest, acts, active, opened, focus>> /\ Effects
      /\ undo.pc = "answered" /\ undo' = NoUndo /\ text' = undo.text /\ review' \in {review, NoReview}
  BY DEF UndoAnswered, server
<1>3. active \in Chapters /\ opened \in Texts /\ undo.text \in Texts
  BY <1>1, <1>2 DEF PageT, PageOK, WaitsOK
<1>4. PageT' /\ ServerT'
  BY <1>1, <1>2, <1>3, ScreenType DEF PageT
<1>5. WaitsOK'
  BY <1>1, <1>2, Facts DEF WaitsOK, NodeOf, NoUndo
<1>6. WireOK'
  BY <1>1, <1>2, WireHeld DEF Keeps
<1> QED BY <1>4, <1>5, <1>6, Whole

\* The page while the server works.
LEMMA PageServed ==
    ASSUME WriterAssumption, TypeInv, Keeps, ServerT', UNCHANGED <<page, timers, latest, acts>>,
           busy' \in {"", "task", "analyze"}
    PROVE  PageT'
<1>1. PageT /\ ServerT
  BY Parts
<1>2. UNCHANGED <<active, opened, text, focus, review, timer, scanTimer, scanned, latest, acts>>
  BY DEF page, timers
<1>3. DOMAIN nodes \subseteq DOMAIN nodes'
  BY DEF Keeps
<1>4. ASSUME NodeOf(review.to, active) PROVE NodeOf(review.to, active)'
  BY <1>2, <1>4 DEF Keeps, NodeOf
<1>5. PageOK'
  BY <1>1, <1>2, <1>4 DEF PageT, PageOK
<1>6. review \in [open : BOOLEAN, base : AnyText, out : AnyText, to : {NoNode} \cup DOMAIN nodes']
  BY <1>1, <1>3 DEF PageT
<1> QED BY <1>1, <1>2, <1>5, <1>6 DEF PageT

LEMMA AddNodeT ==
    ASSUME ServerT, NEW c \in Chapters, NEW t \in Texts,
           NEW kind \in {"draft", "manual", "polish", "expand"}, AddNode(c, kind, t)
    PROVE  /\ ServerT' /\ Keeps
           /\ head'[c] = Len(nodes) + 1 /\ nodes'[Len(nodes) + 1] = [ch |-> c, kind |-> kind, text |-> t]
           /\ DOMAIN nodes' = DOMAIN nodes \cup {Len(nodes) + 1} /\ Len(nodes) + 1 \notin DOMAIN nodes
           /\ \A v \in DOMAIN nodes : nodes'[v] = nodes[v]
           /\ \A d \in Chapters : d # c => head'[d] = head[d]
<1> DEFINE N == [ch : Chapters, kind : {"draft", "manual", "polish", "expand"}, text : Texts]
           n == [ch |-> c, kind |-> kind, text |-> t]
<1>1. n \in N /\ nodes \in Seq(N) /\ nodes' = Append(nodes, n)
      /\ head' = [head EXCEPT ![c] = Len(nodes) + 1] /\ head \in [Chapters -> DOMAIN nodes]
      /\ \A d \in Chapters : nodes[head[d]].ch = d
  BY DEF AddNode, ServerT
<1>2. /\ nodes' \in Seq(N) /\ DOMAIN nodes' = 1 .. Len(nodes) + 1 /\ DOMAIN nodes = 1 .. Len(nodes)
      /\ Len(nodes) \in Nat /\ nodes'[Len(nodes) + 1] = n /\ \A v \in DOMAIN nodes : nodes'[v] = nodes[v]
  <2> HIDE DEF N, n
  <2> QED BY <1>1, Appended
<1>3. head' \in [Chapters -> DOMAIN nodes']
  BY <1>1, <1>2
<1>4. \A d \in Chapters : nodes'[head'[d]].ch = d
  BY <1>1, <1>2
<1> QED BY <1>1, <1>2, <1>3, <1>4 DEF ServerT, Keeps

LEMMA NodeType ==
    ASSUME ServerT, NEW v \in DOMAIN nodes
    PROVE  /\ nodes[v] \in [ch : Chapters, kind : {"draft", "manual", "polish", "expand"}, text : Texts]
           /\ nodes[v].text \in Texts /\ v \in Nat
<1>1. nodes[v] \in [ch : Chapters, kind : {"draft", "manual", "polish", "expand"}, text : Texts]
  BY Inside DEF ServerT
<1>2. v \in Nat
  BY DEF ServerT
<1> QED BY <1>1, <1>2

LEMMA HeadTextType ==
    ASSUME ServerT, NEW c \in Chapters
    PROVE  HeadText(c) \in Texts /\ head[c] \in DOMAIN nodes /\ nodes[head[c]].ch = c
BY NodeType DEF ServerT, HeadText

LEMMA StoreT ==
    ASSUME ServerT, NEW c \in Chapters, NEW t \in Texts, Store(c, t)
    PROVE  /\ ServerT' /\ Keeps
           /\ HeadText(c)' = t
           /\ \A v \in DOMAIN nodes : v # head[c] => nodes'[v] = nodes[v]
           /\ \A v \in DOMAIN nodes' : v # head'[c] => v \in DOMAIN nodes /\ nodes'[v] = nodes[v]
           /\ \A d \in Chapters : d # c => head'[d] = head[d]
<1>1. CASE UNCHANGED server /\ HeadText(c) = t
  BY <1>1 DEF server, ServerT, Keeps, HeadText
<1>2. CASE nodes' = [nodes EXCEPT ![head[c]].text = t] /\ head' = head
  <2>1. head[c] \in DOMAIN nodes
    BY DEF ServerT
  <2>2. nodes' = [nodes EXCEPT ![head[c]] = [nodes[head[c]] EXCEPT !.text = t]]
    BY <1>2
  <2>6. nodes[head[c]] \in [ch : Chapters, kind : {"draft", "manual", "polish", "expand"}, text : Texts]
    BY <2>1, Inside DEF ServerT
  <2>3. [nodes[head[c]] EXCEPT !.text = t] \in [ch : Chapters, kind : {"draft", "manual", "polish", "expand"}, text : Texts]
    BY <2>6
  <2>4. /\ nodes' \in Seq([ch : Chapters, kind : {"draft", "manual", "polish", "expand"}, text : Texts])
        /\ DOMAIN nodes' = DOMAIN nodes
    BY <2>1, <2>2, <2>3 DEF ServerT
  <2>5. /\ \A v \in DOMAIN nodes : v # head[c] => nodes'[v] = nodes[v]
        /\ nodes'[head[c]].ch = nodes[head[c]].ch /\ nodes'[head[c]].text = t
    BY <2>1, <2>2, <2>6 DEF ServerT
  <2> QED BY <1>2, <2>1, <2>4, <2>5 DEF ServerT, Keeps, HeadText
<1>3. CASE AddNode(c, "manual", t)
  <2>1. /\ ServerT' /\ Keeps /\ head'[c] = Len(nodes) + 1
        /\ nodes'[Len(nodes) + 1] = [ch |-> c, kind |-> "manual", text |-> t]
        /\ \A v \in DOMAIN nodes : nodes'[v] = nodes[v]
        /\ DOMAIN nodes' = DOMAIN nodes \cup {Len(nodes) + 1}
        /\ \A d \in Chapters : d # c => head'[d] = head[d]
    BY <1>3, AddNodeT
  <2>2. HeadText(c)' = t
    BY <2>1 DEF HeadText
  <2> QED BY <2>1, <2>2
<1> QED BY <1>1, <1>2, <1>3 DEF Store, HeadText

\* What somebody waited for is over, or has come a step further.
LEMMA ServedType ==
    ASSUME WriterAssumption, TypeInv, UNCHANGED <<page, timers, latest, acts>>,
           ServerT', Keeps, WireOK', busy' \in {"", "task", "analyze"},
           task' \in [pc : {"idle", "saving", "listing", "sent", "answered"},
                      op : GenModes \cup {"tool", "none"}, ch : Chapters \cup {NoChapter},
                      opened : AnyText, base : AnyText, to : Nat, out : AnyText],
           task'.pc # "idle" => /\ task.pc # "idle" /\ task'.ch = task.ch /\ task'.op = task.op
                                /\ task'.opened = task.opened /\ task'.base = task.base
                                /\ task'.to = task.to \/ NodeOf(task'.to, task.ch),
           task'.pc = "answered" /\ task'.op # "tool" => task'.out \in Texts,
           opening' \in [pc : {"idle", "sent", "answered"}, ch : Chapters \cup {NoChapter}, text : AnyText],
           opening'.pc # "idle" => opening.pc # "idle" /\ opening'.ch = opening.ch,
           opening'.pc = "answered" => opening'.text \in Texts,
           undo' \in [pc : {"idle", "sent", "answered"}, cancel : BOOLEAN, text : AnyText],
           undo'.pc # "idle" => undo.pc # "idle",
           undo'.pc = "answered" => undo'.text \in Texts
    PROVE  TypeInv'
<1>1. WaitsOK /\ active' = active
  BY Parts DEF page
<1>3. task'.pc # "idle" => /\ task'.ch \in Chapters /\ task'.op # "none"
                           /\ task'.opened \in Texts /\ task'.base \in Texts
                           /\ NodeOf(task.to, task.ch)'
  <2> SUFFICES ASSUME task'.pc # "idle"
               PROVE  /\ task'.ch \in Chapters /\ task'.op # "none"
                      /\ task'.opened \in Texts /\ task'.base \in Texts
                      /\ NodeOf(task.to, task.ch)'
    OBVIOUS
  <2>1. /\ task'.ch \in Chapters /\ task'.op # "none" /\ task'.opened \in Texts /\ task'.base \in Texts
        /\ NodeOf(task.to, task.ch)
    BY <1>1 DEF WaitsOK
  <2>2. task'.to = NoNode \/ (task'.to \in DOMAIN nodes /\ nodes[task'.to].ch = task'.ch)
    BY <2>1 DEF NodeOf
  <2>3. task'.to = NoNode \/ (task'.to \in DOMAIN nodes' /\ nodes'[task'.to].ch = task'.ch)
    BY <2>2 DEF Keeps
  <2>4. NodeOf(task.to, task.ch)'
    BY <2>3 DEF NodeOf
  <2> QED BY <2>1, <2>4
<1>4. WaitsOK'
  BY <1>1, <1>3 DEF WaitsOK
<1>5. PageT'
  BY PageServed
<1> QED BY <1>4, <1>5, Whole

\* The request at i, from those in Good.
LEMMA Served ==
    ASSUME WriterAssumption, TypeInv, NEW i \in DOMAIN wire
    PROVE  /\ wire[i] \in Good /\ wire[i] \in Requests /\ Fits(wire[i])
           /\ wire[i].ch \in Chapters
           /\ wire[i].kind = "save" => wire[i].text \in Texts
BY Inside, Parts DEF WireOK, Good, Requests, Fits

TaskRange ==
    [pc : {"idle", "saving", "listing", "sent", "answered"},
     op : GenModes \cup {"tool", "none"}, ch : Chapters \cup {NoChapter},
     opened : AnyText, base : AnyText, to : Nat, out : AnyText]

\* A step of the task: the request after this one.
LEMMA TaskGoesOn ==
    ASSUME WriterAssumption, TypeInv, Keeps, UNCHANGED <<opening, undo>>,
           NEW i \in DOMAIN wire, Role(wire[i]) = "task", task' \in TaskRange, task'.ch = task.ch,
           NEW kind \in {"list", "gen", "tool"},
           task'.pc = (IF kind = "list" THEN "listing" ELSE "sent"), (kind = "tool") <=> (task'.op = "tool"),
           wire' = Append(Others(i), Request(kind, kind, wire[i].ch, NoText, NoNode))
    PROVE  WireOK'
<1>5. PICK q : q = Request(kind, kind, wire[i].ch, NoText, NoNode)
  OBVIOUS
<1>1. wire[i].ch = task.ch /\ wire[i].ch \in Chapters /\ NoText \in AnyText
  BY Served, Facts DEF Fits
<1>2. q \in Requests /\ Role(q) = "task" /\ q.by = kind /\ q.kind = kind /\ q.ch = task'.ch
  BY <1>1, <1>5 DEF Request, Requests, Role, NoNode
<1>3. Fits(q)'
  BY <1>2 DEF Fits, Role
<1>4. q \in Good'
  BY <1>2, <1>3 DEF Good
<1> QED BY <1>2, <1>4, <1>5, WireTaken, Parts

LEMMA OnwardType ==
    ASSUME WriterAssumption, TypeInv, Keeps, UNCHANGED <<opening, undo>>,
           NEW i \in DOMAIN wire, wire[i].kind = "save", Onward(i, wire[i])
    PROVE  /\ WireOK' /\ task' \in TaskRange
           /\ task' = task \/ /\ task.pc = "saving" /\ wire[i].by = "task" /\ wire[i].ch = task.ch
                              /\ task'.pc \in {"listing", "sent"}
                              /\ task'.pc = "listing" <=> task.op # "tool"
                              /\ task'.op = task.op /\ task'.ch = task.ch
                              /\ task'.opened = task.opened /\ task'.base = task.base
                              /\ task'.to = task.to /\ task'.out = task.out
<1>1. WaitsOK /\ WireOK /\ Fits(wire[i]) /\ wire[i] \in Requests
  BY Parts, Served
<1>2. task \in TaskRange
  BY <1>1 DEF WaitsOK, TaskRange
<1>3. CASE wire[i].by # "task" /\ wire' = Others(i) /\ UNCHANGED task
  <2>1. WireOK'
    BY <1>1, <1>3, WireTaken
  <2> QED BY <1>2, <1>3, <2>1
<1>5. CASE /\ wire[i].by = "scan" /\ UNCHANGED task
           /\ wire' = Append(Others(i), Request("analyze", "analyze", wire[i].ch, NoText, NoNode))
  <2> DEFINE q == Request("analyze", "analyze", wire[i].ch, NoText, NoNode)
  <2>1. q \in Good' /\ Role(q) = "page" /\ Role(wire[i]) = "page"
    BY <1>1, <1>5, Facts, Served DEF Request, Good, Requests, Fits, Role, NoNode
  <2>2. WireOK'
    BY <1>1, <1>5, <2>1, WireTaken
  <2> QED BY <1>2, <1>5, <2>2
<1>4. CASE wire[i].by = "task"
  <2>1. task.pc = "saving" /\ Role(wire[i]) = "task" /\ wire[i].ch = task.ch
    BY <1>1, <1>4 DEF Fits, Role
  <2>2. CASE /\ task.op = "tool"
             /\ wire' = Append(Others(i), Request("tool", "tool", wire[i].ch, NoText, NoNode))
             /\ task' = [task EXCEPT !.pc = "sent"]
    <3>1. /\ task' \in TaskRange /\ task'.pc = "sent" /\ task'.op = task.op /\ task'.ch = task.ch
          /\ task'.opened = task.opened /\ task'.base = task.base /\ task'.to = task.to /\ task'.out = task.out
      BY <1>2, <2>2 DEF TaskRange
    <3>2. WireOK'
      BY <2>1, <2>2, <3>1, TaskGoesOn
    <3> QED BY <1>4, <2>1, <2>2, <3>1, <3>2
  <2>3. CASE /\ task.op # "tool"
             /\ wire' = Append(Others(i), Request("list", "list", wire[i].ch, NoText, NoNode))
             /\ task' = [task EXCEPT !.pc = "listing"]
    <3>1. /\ task' \in TaskRange /\ task'.pc = "listing" /\ task'.op = task.op /\ task'.ch = task.ch
          /\ task'.opened = task.opened /\ task'.base = task.base /\ task'.to = task.to /\ task'.out = task.out
      BY <1>2, <2>3 DEF TaskRange
    <3>2. WireOK'
      BY <2>1, <2>3, <3>1, TaskGoesOn
    <3> QED BY <1>4, <2>1, <2>3, <3>1, <3>2
  <2> QED BY <1>4, <2>2, <2>3 DEF Onward
<1> QED BY <1>3, <1>4, <1>5 DEF Onward

LEMMA ServeSaveType ==
    ASSUME WriterAssumption, TypeInv, UNCHANGED <<page, timers, latest, acts>>,
           NEW i \in DOMAIN wire, ServeSave(i, wire[i])
    PROVE  TypeInv'
<1>1. ServerT /\ PageT /\ WaitsOK /\ wire[i].ch \in Chapters /\ wire[i].text \in Texts
      /\ UNCHANGED <<busy, opening, undo>>
  BY Parts, Served DEF ServeSave
<1>2. ServerT' /\ Keeps
  BY <1>1, StoreT DEF ServeSave
<1>3. /\ WireOK' /\ task' \in TaskRange
      /\ task' = task \/ /\ task.pc = "saving" /\ task'.pc \in {"listing", "sent"}
                         /\ task'.op = task.op /\ task'.ch = task.ch
                         /\ task'.opened = task.opened /\ task'.base = task.base /\ task'.to = task.to
  BY <1>1, <1>2, OnwardType DEF ServeSave
<1>4. busy' \in {"", "task", "analyze"}
  BY <1>1 DEF PageT
<1> QED BY <1>1, <1>2, <1>3, <1>4, ServedType DEF WaitsOK, TaskRange

LEMMA ServeAnalyzeType ==
    ASSUME WriterAssumption, TypeInv, UNCHANGED <<page, timers, latest, acts>>,
           NEW i \in DOMAIN wire, ServeAnalyze(i, wire[i])
    PROVE  TypeInv'
<1>1. /\ ServerT /\ PageT /\ WaitsOK /\ WireOK
      /\ UNCHANGED <<nodes, head, task, opening, undo>> /\ busy' = "" /\ wire' = Others(i)
  BY Parts DEF ServeAnalyze, server
<1>2. ServerT' /\ Keeps
  BY <1>1 DEF ServerT, Keeps
<1>3. WireOK'
  BY <1>1, <1>2, WireTaken
<1> QED BY <1>1, <1>2, <1>3, ServedType DEF WaitsOK

LEMMA ServeListType ==
    ASSUME WriterAssumption, TypeInv, UNCHANGED <<page, timers, latest, acts>>,
           NEW i \in DOMAIN wire, ServeList(i, wire[i])
    PROVE  TypeInv'
<1>1. /\ ServerT /\ PageT /\ WaitsOK /\ wire[i].ch \in Chapters /\ Fits(wire[i])
      /\ UNCHANGED <<nodes, head, busy, opening, undo>> /\ wire[i].kind = "list"
      /\ task' = [task EXCEPT !.pc = "sent", !.to = head[wire[i].ch]]
      /\ wire' = Append(Others(i), Request("gen", "gen", wire[i].ch, NoText, NoNode))
  BY Parts, Served DEF ServeList, server
<1>2. wire[i].by = "list" /\ task.pc = "listing" /\ wire[i].ch = task.ch /\ task.op # "tool" /\ Role(wire[i]) = "task"
  BY <1>1 DEF Fits, Role
<1>3. head[task.ch] \in DOMAIN nodes /\ nodes[head[task.ch]].ch = task.ch /\ head[task.ch] \in Nat
  BY <1>1, <1>2 DEF ServerT
<1>4. /\ task' \in TaskRange /\ task'.pc = "sent" /\ task'.op = task.op /\ task'.ch = task.ch
      /\ task'.opened = task.opened /\ task'.base = task.base /\ task'.to = head[task.ch]
  BY <1>1, <1>2, <1>3 DEF TaskRange, WaitsOK
<1>5. Keeps /\ ServerT' /\ NodeOf(head[task.ch], task.ch)
  BY <1>1, <1>3 DEF Keeps, ServerT, NodeOf
<1>6. WireOK'
  BY <1>1, <1>2, <1>4, <1>5, TaskGoesOn
<1>7. NodeOf(task'.to, task.ch)
  BY <1>4, <1>5
<1> QED BY <1>1, <1>2, <1>4, <1>5, <1>6, <1>7, ServedType DEF WaitsOK, TaskRange, PageT

LEMMA ServeGenType ==
    ASSUME WriterAssumption, TypeInv, UNCHANGED <<page, timers, latest, acts>>,
           NEW i \in DOMAIN wire, ServeGen(i, wire[i])
    PROVE  TypeInv'
<1>1. /\ ServerT /\ PageT /\ WaitsOK /\ WireOK /\ wire[i].ch \in Chapters /\ Fits(wire[i])
      /\ UNCHANGED <<busy, opening, undo>> /\ wire[i].kind = "gen" /\ wire' = Others(i)
  BY Parts, Served DEF ServeGen
<1>2. /\ wire[i].by = "gen" /\ task.pc = "sent" /\ wire[i].ch = task.ch /\ task.op # "tool"
      /\ Role(wire[i]) = "task"
  BY <1>1 DEF Fits, Role
<1>3. PICK word \in Words : /\ AddNode(wire[i].ch, task.op, <<wire[i].ch, word>>)
                            /\ task' = [task EXCEPT !.pc = "answered", !.out = <<wire[i].ch, word>>]
  BY DEF ServeGen
<1>4. <<wire[i].ch, word>> \in Texts /\ <<wire[i].ch, word>> \in AnyText
  BY <1>1, Facts
<1>5. task.op \in {"draft", "manual", "polish", "expand"}
  BY <1>1, <1>2 DEF WaitsOK, WriterAssumption
<1>6. ServerT' /\ Keeps
  BY <1>1, <1>3, <1>4, <1>5, AddNodeT
<1>7. /\ task' \in TaskRange /\ task'.pc = "answered" /\ task'.op = task.op /\ task'.ch = task.ch
      /\ task'.opened = task.opened /\ task'.base = task.base /\ task'.to = task.to
      /\ task'.out = <<wire[i].ch, word>>
  BY <1>1, <1>3, <1>4 DEF TaskRange, WaitsOK
<1>8. WireOK'
  BY <1>1, <1>2, <1>6, WireTaken
<1> QED BY <1>1, <1>2, <1>4, <1>6, <1>7, <1>8, ServedType DEF WaitsOK, TaskRange, PageT

LEMMA ServeToolType ==
    ASSUME WriterAssumption, TypeInv, UNCHANGED <<page, timers, latest, acts>>,
           NEW i \in DOMAIN wire, ServeTool(i, wire[i])
    PROVE  TypeInv'
<1>1. /\ ServerT /\ PageT /\ WaitsOK /\ WireOK /\ Fits(wire[i])
      /\ UNCHANGED <<nodes, head, busy, opening, undo>> /\ wire[i].kind = "tool" /\ wire' = Others(i)
      /\ task' = [task EXCEPT !.pc = "answered"]
  BY Parts, Served DEF ServeTool, server
<1>2. wire[i].by = "tool" /\ task.pc = "sent" /\ task.op = "tool" /\ Role(wire[i]) = "task"
  BY <1>1 DEF Fits, Role
<1>3. ServerT' /\ Keeps
  BY <1>1 DEF ServerT, Keeps
<1>4. /\ task' \in TaskRange /\ task'.pc = "answered" /\ task'.op = task.op /\ task'.ch = task.ch
      /\ task'.opened = task.opened /\ task'.base = task.base /\ task'.to = task.to
  BY <1>1 DEF TaskRange, WaitsOK
<1>5. WireOK'
  BY <1>1, <1>2, <1>3, WireTaken
<1> QED BY <1>1, <1>2, <1>3, <1>4, <1>5, ServedType DEF WaitsOK, TaskRange, PageT

LEMMA ServeOpenType ==
    ASSUME WriterAssumption, TypeInv, UNCHANGED <<page, timers, latest, acts>>,
           NEW i \in DOMAIN wire, ServeOpen(i, wire[i])
    PROVE  TypeInv'
<1>1. /\ ServerT /\ PageT /\ WaitsOK /\ WireOK /\ Fits(wire[i]) /\ wire[i].ch \in Chapters
      /\ UNCHANGED <<nodes, head, busy, task, undo>> /\ wire[i].kind = "open" /\ wire' = Others(i)
      /\ opening' = [opening EXCEPT !.pc = "answered", !.text = HeadText(wire[i].ch)]
  BY Parts, Served DEF ServeOpen, server
<1>2. wire[i].by = "open" /\ opening.pc = "sent" /\ Role(wire[i]) = "open"
  BY <1>1 DEF Fits, Role
<1>3. ServerT' /\ Keeps
  BY <1>1 DEF ServerT, Keeps
<1>4. HeadText(wire[i].ch) \in Texts /\ Texts \subseteq AnyText
  BY <1>1, HeadTextType DEF AnyText
<1>5. WireOK'
  BY <1>1, <1>2, <1>3, WireTaken
<1>6. /\ opening' \in [pc : {"idle", "sent", "answered"}, ch : Chapters \cup {NoChapter}, text : AnyText]
      /\ opening'.ch = opening.ch /\ opening'.text \in Texts
  BY <1>1, <1>4 DEF WaitsOK
<1> QED BY <1>1, <1>2, <1>3, <1>5, <1>6, ServedType DEF WaitsOK, PageT

LEMMA ServeRevertType ==
    ASSUME WriterAssumption, TypeInv, UNCHANGED <<page, timers, latest, acts>>,
           NEW i \in DOMAIN wire, ServeRevert(i, wire[i])
    PROVE  TypeInv'
<1>1. /\ ServerT /\ PageT /\ WaitsOK /\ WireOK /\ Fits(wire[i]) /\ wire[i].ch \in Chapters
      /\ UNCHANGED <<nodes, busy, task, opening>> /\ wire[i].kind = "revert" /\ wire' = Others(i)
      /\ head' = [head EXCEPT ![wire[i].ch] = wire[i].node]
      /\ undo' = [undo EXCEPT !.pc = "answered", !.text = nodes[wire[i].node].text]
  BY Parts, Served DEF ServeRevert
<1>2. /\ wire[i].by = "undo" /\ undo.pc = "sent" /\ Role(wire[i]) = "undo"
      /\ wire[i].node \in DOMAIN nodes /\ nodes[wire[i].node].ch = wire[i].ch
  BY <1>1 DEF Fits, Role
<1>3. ServerT' /\ Keeps
  BY <1>1, <1>2 DEF ServerT, Keeps
<1>4. nodes[wire[i].node].text \in Texts /\ Texts \subseteq AnyText
  BY <1>1, <1>2, NodeType DEF AnyText
<1>5. WireOK'
  BY <1>1, <1>2, <1>3, WireTaken
<1>6. /\ undo' \in [pc : {"idle", "sent", "answered"}, cancel : BOOLEAN, text : AnyText]
      /\ undo'.text \in Texts
  BY <1>1, <1>4 DEF WaitsOK
<1> QED BY <1>1, <1>2, <1>3, <1>5, <1>6, ServedType DEF WaitsOK, PageT

LEMMA FailType ==
    ASSUME WriterAssumption, TypeInv, Fail
    PROVE  TypeInv'
<1>1. ServerT /\ PageT /\ WaitsOK /\ WireOK /\ UNCHANGED <<nodes, head>> /\ UNCHANGED <<page, timers, latest, acts>>
  BY Parts DEF Fail, server
<1>2. PICK i \in DOMAIN wire :
         /\ \/ /\ wire[i].kind = "save"
               /\ Onward(i, wire[i])
            \/ /\ wire[i].kind # "save"
               /\ wire' = Others(i)
               /\ task' = IF wire[i].kind \in {"list", "gen", "tool"} THEN NoTask ELSE task
         /\ busy' = IF wire[i].kind \in {"analyze", "list", "gen", "tool"} THEN "" ELSE busy
         /\ opening' = IF wire[i].kind = "open" THEN NoOpening ELSE opening
         /\ undo' = IF wire[i].kind = "revert" THEN NoUndo ELSE undo
  BY DEF Fail
<1>3. ServerT' /\ Keeps /\ Fits(wire[i]) /\ wire[i] \in Requests /\ NoText \in AnyText
  BY <1>1, Served, Facts DEF ServerT, Keeps
<1>4. busy' \in {"", "task", "analyze"}
  BY <1>1, <1>2 DEF PageT
<1>5. CASE wire[i].kind = "save"
  <2>1. UNCHANGED <<opening, undo>> /\ Onward(i, wire[i])
    BY <1>2, <1>5
  <2>2. /\ WireOK' /\ task' \in TaskRange
        /\ task' = task \/ /\ task.pc = "saving" /\ task'.pc \in {"listing", "sent"}
                           /\ task'.op = task.op /\ task'.ch = task.ch
                           /\ task'.opened = task.opened /\ task'.base = task.base /\ task'.to = task.to
    BY <1>3, <1>5, <2>1, OnwardType
  <2> QED BY <1>1, <1>3, <1>4, <2>1, <2>2, ServedType DEF WaitsOK, TaskRange
<1>6. CASE wire[i].kind # "save"
  <2>1. /\ wire' = Others(i) /\ task' = (IF wire[i].kind \in {"list", "gen", "tool"} THEN NoTask ELSE task)
        /\ wire[i].by = (IF wire[i].kind = "revert" THEN "undo" ELSE wire[i].kind)
        /\ wire[i].kind \in {"open", "list", "gen", "tool", "revert", "analyze"}
    BY <1>2, <1>3, <1>6 DEF Fits, Requests
  <2>2. /\ Role(wire[i]) # "task" => task' = task
        /\ Role(wire[i]) # "open" => opening' = opening
        /\ Role(wire[i]) # "undo" => undo' = undo
    BY <1>2, <2>1 DEF Role
  <2>3. WireOK'
    BY <1>1, <1>3, <2>1, <2>2, WireTaken
  <2>4. /\ task' \in TaskRange /\ (task'.pc # "idle" => task' = task)
        /\ opening' \in [pc : {"idle", "sent", "answered"}, ch : Chapters \cup {NoChapter}, text : AnyText]
        /\ (opening'.pc # "idle" => opening' = opening)
        /\ undo' \in [pc : {"idle", "sent", "answered"}, cancel : BOOLEAN, text : AnyText]
        /\ (undo'.pc # "idle" => undo' = undo)
    BY <1>1, <1>2, <1>3, <2>1 DEF WaitsOK, TaskRange, NoTask, NoOpening, NoUndo, NoNode
  <2> QED BY <1>1, <1>3, <1>4, <2>3, <2>4, ServedType DEF WaitsOK, TaskRange
<1> QED BY <1>5, <1>6

LEMMA LoseType ==
    ASSUME WriterAssumption, TypeInv, AnswerLost
    PROVE  TypeInv'
<1>1. /\ ServerT /\ PageT /\ WaitsOK /\ WireOK
      /\ UNCHANGED <<page, timers, latest, acts>> /\ opening' = opening
  BY Parts DEF AnswerLost
<1>2. PICK i \in DOMAIN wire :
         /\ \/ /\ wire[i].kind = "gen"
               /\ \E word \in Words : AddNode(wire[i].ch, task.op, <<wire[i].ch, word>>)
               /\ task' = NoTask /\ busy' = ""
               /\ UNCHANGED undo
            \/ /\ wire[i].kind = "revert"
               /\ head' = [head EXCEPT ![wire[i].ch] = wire[i].node]
               /\ undo' = NoUndo
               /\ UNCHANGED <<nodes, task, busy>>
         /\ wire' = Others(i)
  BY DEF AnswerLost
<1>3. Fits(wire[i]) /\ wire[i].ch \in Chapters /\ NoText \in AnyText
  BY Served, Facts
<1>4. CASE wire[i].kind = "gen"
  <2>1. /\ wire[i].by = "gen" /\ task.pc = "sent" /\ task.op # "tool" /\ Role(wire[i]) = "task"
        /\ task' = NoTask /\ busy' = "" /\ UNCHANGED undo
    BY <1>2, <1>3, <1>4 DEF Fits, Role
  <2>2. PICK word \in Words : AddNode(wire[i].ch, task.op, <<wire[i].ch, word>>)
    BY <1>2, <1>4
  <2>3. <<wire[i].ch, word>> \in Texts
    BY <1>3, Facts
  <2>4. task.op \in {"draft", "manual", "polish", "expand"}
    BY <1>1, <2>1 DEF WaitsOK, WriterAssumption
  <2>5. ServerT' /\ Keeps
    BY <1>1, <1>3, <2>2, <2>3, <2>4, AddNodeT
  <2>6. task' \in TaskRange /\ task'.pc = "idle"
    BY <1>3, <2>1 DEF TaskRange, NoTask, NoNode
  <2>7. WireOK'
    BY <1>1, <1>2, <2>1, <2>5, WireTaken
  <2> QED BY <1>1, <2>1, <2>5, <2>6, <2>7, ServedType DEF WaitsOK, TaskRange
<1>5. CASE wire[i].kind = "revert"
  <2>1. /\ wire[i].by = "undo" /\ Role(wire[i]) = "undo"
        /\ wire[i].node \in DOMAIN nodes /\ nodes[wire[i].node].ch = wire[i].ch
        /\ head' = [head EXCEPT ![wire[i].ch] = wire[i].node]
        /\ undo' = NoUndo /\ UNCHANGED <<nodes, task, busy>>
    BY <1>2, <1>3, <1>5 DEF Fits, Role
  <2>2. ServerT' /\ Keeps
    BY <1>1, <2>1 DEF ServerT, Keeps
  <2>3. WireOK'
    BY <1>1, <1>2, <2>1, <2>2, WireTaken
  <2>4. undo' \in [pc : {"idle", "sent", "answered"}, cancel : BOOLEAN, text : AnyText] /\ undo'.pc = "idle"
    BY <1>3, <2>1 DEF NoUndo
  <2> QED BY <1>1, <2>1, <2>2, <2>3, <2>4, ServedType DEF WaitsOK, PageT
<1> QED BY <1>2, <1>4, <1>5

LEMMA InitType ==
    ASSUME WriterAssumption, Init
    PROVE  TypeInv
<1>1. /\ NoChapter \notin Chapters /\ NoText \in AnyText /\ \A c \in Chapters : BlankOf(c) \in Texts
      /\ "" \in {"", "task", "analyze"}
  BY Facts
<1>2. Chapters = 1 .. NChapters /\ NChapters \in Nat /\ MaxActs \in Nat
  BY DEF Chapters, WriterAssumption
<1>3. /\ nodes \in Seq([ch : Chapters, kind : {"draft", "manual", "polish", "expand"}, text : Texts])
      /\ DOMAIN nodes = Chapters
  <2> DEFINE N == [ch : Chapters, kind : {"draft", "manual", "polish", "expand"}, text : Texts]
  <2>1. ASSUME NEW c \in Chapters
        PROVE  [ch |-> c, kind |-> "draft", text |-> BlankOf(c)] \in N
    BY <1>1
  <2>2. nodes \in [Chapters -> N]
    BY <2>1 DEF Init
  <2> HIDE DEF N
  <2>3. nodes \in Seq(N)
    BY <1>2, <2>2
  <2> QED BY <2>2, <2>3 DEF N
<1>4. head \in [Chapters -> DOMAIN nodes] /\ \A c \in Chapters : nodes[head[c]].ch = c
  BY <1>3 DEF Init
<1>5. wire \in Seq(Requests) /\ WireOK
  <2>1. wire = << >>
    BY DEF Init
  <2>2. wire \in Seq(Requests) /\ wire \in Seq(Good) /\ DOMAIN wire = {}
    BY <2>1
  <2> QED BY <2>2 DEF WireOK, Single
<1>6. PageOK
  BY <1>1 DEF Init, PageOK, NoReview
<1>7. WaitsOK
  BY <1>1 DEF Init, WaitsOK, NoTask, NoOpening, NoUndo, NoNode
<1>9. /\ review \in [open : BOOLEAN, base : AnyText, out : AnyText, to : {NoNode} \cup DOMAIN nodes]
      /\ ~review.open
  BY <1>1 DEF Init, NoReview
<1>10. latest \in [Chapters -> Texts] /\ acts \in 0 .. MaxActs
  <2>1. latest = [c \in Chapters |-> BlankOf(c)] /\ acts = 0
    BY DEF Init
  <2> QED BY <1>1, <1>2, <2>1
<1>11. /\ active = NoChapter /\ opened = NoText /\ text = NoText /\ scanned = NoText /\ busy = ""
       /\ focus = FALSE /\ timer = FALSE /\ scanTimer = FALSE
       /\ task.pc = "idle" /\ opening.pc = "idle" /\ undo.pc = "idle"
  BY DEF Init, NoTask, NoOpening, NoUndo
<1>8. ServerT /\ PageT
  BY <1>1, <1>3, <1>4, <1>6, <1>9, <1>10, <1>11 DEF ServerT, PageT
<1> QED BY <1>5, <1>7, <1>8 DEF TypeInv

LEMMA ServeType ==
    ASSUME WriterAssumption, TypeInv, Serve
    PROVE  TypeInv'
BY ServeSaveType, ServeAnalyzeType, ServeListType, ServeGenType, ServeToolType, ServeOpenType, ServeRevertType DEF Serve

LEMMA StutterType ==
    ASSUME TypeInv, UNCHANGED vars
    PROVE  TypeInv'
<1>1. UNCHANGED <<nodes, head, wire, active, opened, text, focus, review, timer, scanTimer, scanned,
                  busy, task, opening, undo, latest, acts>>
  BY DEF vars, server, page, timers, waits
<1>2. Good' = Good
  BY <1>1 DEF Good, Fits
<1>6. PageOK'
  BY <1>1 DEF TypeInv, PageT, PageOK, NodeOf
<1>5. ServerT' /\ PageT'
  BY <1>1, <1>6 DEF TypeInv, ServerT, PageT
<1>3. WaitsOK'
  BY <1>1 DEF TypeInv, WaitsOK, NodeOf
<1>4. WireOK'
  BY <1>1, <1>2 DEF TypeInv, WireOK, Single
<1> QED BY <1>3, <1>4, <1>5 DEF TypeInv

LEMMA StepType ==
    ASSUME TypeInv, [Next]_vars
    PROVE  TypeInv'
BY WriterAssumption, TypeType, BlurType, OpenType, StartTaskType, ReviewEditType, FinishReviewType,
   CancelReviewType, RevertToType, TimersType, OpenAnsweredType, TaskAnsweredType, UndoAnsweredType,
   ServeType, FailType, LoseType, StutterType
   DEF Next, Writer, Timers, Answers

LEMMA MishapType ==
    ASSUME mishap \in BOOLEAN, [Next]_vars
    PROVE  mishap' \in BOOLEAN
<1>1. CASE Writer
  BY <1>1 DEF Writer, Type, Blur, Open, StartTask, ReviewEdit, FinishReview, CancelReview, RevertTo, Act
<1>2. CASE Timers
  BY <1>2 DEF Timers, TimerFires, ScanFires
<1>3. CASE Answers
  BY <1>3 DEF Answers, OpenAnswered, TaskAnswered, UndoAnswered
<1>4. CASE Serve \/ Fail \/ AnswerLost \/ UNCHANGED vars
  BY <1>4 DEF Serve, Fail, AnswerLost, vars
<1> QED BY <1>1, <1>2, <1>3, <1>4 DEF Next

\* Server, page, waiting handlers and wire keep their types: every answer finds the handler
\* that asked for it, whatever the writer does and the network reorders or loses
\* (WriterShell.tsx, useChapterDraft.ts, usePipeline.ts, useVersions.ts).
THEOREM WriterTypes == Spec => []TypeOK
<1>1. Init => TypeInv /\ mishap \in BOOLEAN
  BY InitType, WriterAssumption DEF Init
<1>2. TypeInv /\ mishap \in BOOLEAN /\ [Next]_vars => (TypeInv /\ mishap \in BOOLEAN)'
  BY StepType, MishapType
<1>3. TypeInv /\ mishap \in BOOLEAN => TypeOK
  BY Together
<1> QED BY <1>1, <1>2, <1>3, PTL DEF Spec

(***************************************************************************)
(* Nobody is forgotten.                                                    *)
(***************************************************************************)
Scanners       == {"scan", "analyze"}
Asked(w, role) == \E i \in DOMAIN w : Role(w[i]) = role
Scanning(w)    == \E i \in DOMAIN w : w[i].by \in Scanners
Extends(w)     == \A i \in DOMAIN wire : i \in DOMAIN w /\ w[i] = wire[i]

\* Whoever waits has a request on the wire, and while the busy flag is set there is somebody
\* left who will reset it.
NobodyForgotten ==
    /\ task.pc \in {"saving", "listing", "sent"} => Asked(wire, "task")
    /\ opening.pc = "sent" => Asked(wire, "open")
    /\ undo.pc = "sent" => Asked(wire, "undo")
    /\ busy = "task" => task.pc # "idle"
    /\ busy = "analyze" => Scanning(wire)

LEMMA NoneAsks == NoTask.pc = "idle" /\ NoOpening.pc = "idle" /\ NoUndo.pc = "idle"
BY DEF NoTask, NoOpening, NoUndo

LEMMA AskedOn ==
    ASSUME Extends(wire')
    PROVE  (\A role : Asked(wire, role) => Asked(wire', role)) /\ (Scanning(wire) => Scanning(wire'))
BY DEF Extends, Asked, Scanning

LEMMA SentOn ==
    ASSUME NEW R, NEW w \in Seq(R), Extends(w), wire \in Seq(R), NEW q
    PROVE  /\ wire' = Append(w, q) \/ wire' = w \o <<q>> => 
                  /\ Extends(wire') /\ Asked(wire', Role(q)) /\ (q.by \in Scanners => Scanning(wire'))
<1> SUFFICES ASSUME wire' = Append(w, q) \/ wire' = w \o <<q>>
             PROVE  Extends(wire') /\ Asked(wire', Role(q)) /\ (q.by \in Scanners => Scanning(wire'))
  OBVIOUS
<1>1. w \in Seq(R \cup {q}) /\ q \in R \cup {q}
  BY Inside, Widened
<1>2. wire' = Append(w, q)
  BY <1>1, Appended
<1>3. /\ \A i \in DOMAIN w : i \in DOMAIN wire' /\ wire'[i] = w[i]
      /\ Len(w) + 1 \in DOMAIN wire' /\ wire'[Len(w) + 1] = q
  BY <1>1, <1>2, Appended
<1>4. Extends(wire')
  BY <1>3 DEF Extends
<1>5. Asked(wire', Role(q)) /\ (q.by \in Scanners => Scanning(wire'))
  <2> DEFINE n == Len(w) + 1
  <2>1. n \in DOMAIN wire' /\ wire'[n] = q
    BY <1>3
  <2> HIDE DEF n
  <2> QED  BY <2>1 DEF Asked, Scanning, Role
<1> QED  BY <1>4, <1>5

LEMMA BlurredOn ==
    ASSUME WriterAssumption, TypeInv
    PROVE  /\ wire \in Seq(Good) /\ Extends(wire)
           /\ wire \o Blurred \in Seq(Good) /\ Extends(wire \o Blurred)
<1>1. wire \in Seq(Good) /\ wire \o Blurred \in Seq(Good)
  BY Blurring DEF TypeInv, WireOK
<1>2. CASE wire \o Blurred = wire
  BY <1>1, <1>2 DEF Extends
<1>3. CASE focus /\ Editing /\ wire \o Blurred = Append(wire, Save("blur", text))
  <2>1. Save("blur", text) \in Good
    BY <1>3, SaveGood DEF Editing, TypeInv, PageOK, PageT
  <2> QED  BY <1>1, <1>3, <2>1, Appended DEF Extends
<1> QED  BY <1>1, <1>2, <1>3, Blurring DEF Extends

\* The steps of the page by which nobody starts to wait.
LEMMA PageAsks ==
    ASSUME WriterAssumption, TypeInv, NobodyForgotten,
           Type \/ Blur \/ TimerFires \/ ReviewEdit \/ FinishReview
    PROVE  NobodyForgotten'
<1>1. UNCHANGED <<busy, task, opening, undo>>
  BY DEF Type, Blur, TimerFires, ReviewEdit, FinishReview, waits, server, timers
<1>2. Extends(wire')
  <2>1. CASE wire' = wire \/ wire' = wire \o Blurred
    BY <2>1, BlurredOn
  <2>2. CASE \E q : wire' = Append(wire, q)
    BY <2>2, BlurredOn, SentOn
  <2> QED  BY <2>1, <2>2 DEF Type, Blur, TimerFires, ReviewEdit, FinishReview, server, timers
<1> QED  BY <1>1, <1>2, AskedOn DEF NobodyForgotten

LEMMA ScanAsks ==
    ASSUME WriterAssumption, TypeInv, NobodyForgotten, ScanFires
    PROVE  NobodyForgotten'
<1>1. UNCHANGED <<task, opening, undo>>
  BY DEF ScanFires, server, timers
<1>2. CASE UNCHANGED <<busy, wire>>
  BY <1>1, <1>2 DEF NobodyForgotten, Asked, Scanning
<1>3. CASE busy' = "analyze" /\ wire' = Append(wire, Save("scan", text))
  <2>1. Extends(wire') /\ Scanning(wire')
    <3> DEFINE q == Save("scan", text)
    <3>1. q.by \in Scanners
      BY DEF Save, Request, Scanners
    <3> HIDE DEF q
    <3> QED  BY <1>3, <3>1, BlurredOn, SentOn DEF q
  <2> QED  BY <1>1, <1>3, <2>1, AskedOn DEF NobodyForgotten
<1> QED  BY <1>2, <1>3 DEF ScanFires, server, timers

\* Starting to wait puts the request on the wire in the same step.
LEMMA StartAsks ==
    ASSUME WriterAssumption, TypeInv, NobodyForgotten,
           Open \/ StartTask \/ CancelReview \/ RevertTo
    PROVE  NobodyForgotten'
<1>0. \A q : wire' = Append(wire, q) \/ wire' = (wire \o Blurred) \o <<q>>
               => Extends(wire') /\ Asked(wire', Role(q))
  <2>1. \A q : wire' = Append(wire, q) => Extends(wire') /\ Asked(wire', Role(q))
    BY BlurredOn, SentOn
  <2>2. \A q : wire' = (wire \o Blurred) \o <<q>> => Extends(wire') /\ Asked(wire', Role(q))
    BY BlurredOn, SentOn
  <2> QED  BY <2>1, <2>2
<1>1. CASE Open
  <2>1. PICK c \in Chapters :
           /\ wire' = wire \o Blurred \o <<Request("open", "open", c, NoText, NoNode)>>
           /\ opening' = [NoOpening EXCEPT !.pc = "sent", !.ch = c]
    BY <1>1 DEF Open, server, timers
  <2>2. Role(Request("open", "open", c, NoText, NoNode)) = "open"
    BY DEF Role, Request
  <2>3. Extends(wire') /\ Asked(wire', "open")
    BY <1>0, <2>1, <2>2
  <2>4. UNCHANGED <<busy, task, undo>>
    BY <1>1 DEF Open, server, timers
  <2> QED  BY <2>3, <2>4, AskedOn DEF NobodyForgotten
<1>2. CASE StartTask
  <2>1. /\ wire' = wire \o Blurred \o <<Save("task", text)>> /\ busy' = "task"
        /\ task'.pc = "saving" /\ UNCHANGED <<opening, undo>>
    BY <1>2 DEF StartTask, NoTask, server, timers
  <2>2. Role(Save("task", text)) = "task"
    BY DEF Role, Save, Request
  <2>3. Extends(wire') /\ Asked(wire', "task")
    BY <1>0, <2>1, <2>2
  <2> QED  BY <2>1, <2>3, AskedOn DEF NobodyForgotten
<1>3. CASE CancelReview
  <2>1. UNCHANGED <<busy, task, opening>>
    BY <1>3 DEF CancelReview, server, timers
  <2>2. CASE UNCHANGED <<wire, undo>>
    BY <2>1, <2>2 DEF NobodyForgotten, Asked, Scanning
  <2>3. CASE wire' = Append(wire, Request("revert", "undo", active, NoText, review.to))
    <3>1. Role(Request("revert", "undo", active, NoText, review.to)) = "undo"
      BY DEF Role, Request
    <3>2. Extends(wire') /\ Asked(wire', "undo")
      BY <1>0, <2>3, <3>1
    <3> QED  BY <2>1, <3>2, AskedOn DEF NobodyForgotten
  <2> QED  BY <1>3, <2>2, <2>3 DEF CancelReview, server, timers
<1>4. CASE RevertTo
  <2>1. PICK v \in DOMAIN nodes :
           wire' = wire \o Blurred \o <<Request("revert", "undo", active, NoText, v)>>
    BY <1>4 DEF RevertTo, server, timers
  <2>2. Role(Request("revert", "undo", active, NoText, v)) = "undo"
    BY DEF Role, Request
  <2>3. Extends(wire') /\ Asked(wire', "undo")
    BY <1>0, <2>1, <2>2
  <2>4. UNCHANGED <<busy, task, opening>>
    BY <1>4 DEF RevertTo, server, timers
  <2> QED  BY <2>3, <2>4, AskedOn DEF NobodyForgotten
<1> QED  BY <1>1, <1>2, <1>3, <1>4

LEMMA AnswerAsks ==
    ASSUME NobodyForgotten, OpenAnswered \/ TaskAnswered \/ UndoAnswered \/ UNCHANGED vars
    PROVE  NobodyForgotten'
<1>1. CASE OpenAnswered
  BY <1>1 DEF NobodyForgotten, Asked, Scanning, OpenAnswered, NoOpening, server, timers
<1>2. CASE TaskAnswered
  BY <1>2 DEF NobodyForgotten, Asked, Scanning, TaskAnswered, NoTask, server, timers
<1>3. CASE UndoAnswered
  BY <1>3 DEF NobodyForgotten, Asked, Scanning, UndoAnswered, NoUndo, server, timers
<1>4. CASE UNCHANGED vars
  BY <1>4 DEF NobodyForgotten, Asked, Scanning, vars, waits
<1> QED  BY <1>1, <1>2, <1>3, <1>4

\* Taking a request out leaves the others, and what follows it is on the wire.
LEMMA OthersAsk ==
    ASSUME WriterAssumption, TypeInv, NEW i \in DOMAIN wire
    PROVE  /\ wire' = Others(i) \/ (\E q : wire' = Append(Others(i), q)) =>
                 /\ \A role : role # Role(wire[i]) /\ Asked(wire, role) => Asked(wire', role)
                 /\ wire[i].by \notin Scanners /\ Scanning(wire) => Scanning(wire')
           /\ \A q : wire' = Append(Others(i), q) =>
                 Asked(wire', Role(q)) /\ (q.by \in Scanners => Scanning(wire'))
<1>1. wire \in Seq(Good) /\ Others(i) \in Seq(Good)
  BY Parts, Shifted DEF WireOK
<1>2. /\ Len(wire) \in Nat /\ i \in 1 .. Len(wire) /\ DOMAIN wire = 1 .. Len(wire)
      /\ DOMAIN Others(i) = 1 .. Len(wire) - 1
      /\ \A k \in 1 .. Len(wire) - 1 : k < i => Others(i)[k] = wire[k]
      /\ \A k \in 1 .. Len(wire) - 1 : k >= i => Others(i)[k] = wire[k + 1]
  BY <1>1, Shifted
<1>3. ASSUME NEW j \in DOMAIN wire, j # i
      PROVE  \E k \in DOMAIN Others(i) : Others(i)[k] = wire[j]
  <2>1. CASE j < i
    <3>1. j \in 1 .. Len(wire) - 1
      BY <1>2, <2>1
    <3> QED  BY <1>2, <2>1, <3>1
  <2>2. CASE j > i
    <3>1. j - 1 \in 1 .. Len(wire) - 1 /\ j - 1 >= i /\ (j - 1) + 1 = j
      BY <1>2, <2>2
    <3>2. Others(i)[j - 1] = wire[j]
      BY <1>2, <3>1
    <3> QED  BY <1>2, <3>1, <3>2
  <2> QED  BY <1>2, <1>3, <2>1, <2>2
<1>4. ASSUME NEW q, wire' = Append(Others(i), q)
      PROVE  /\ \A k \in DOMAIN Others(i) : k \in DOMAIN wire' /\ wire'[k] = Others(i)[k]
             /\ Asked(wire', Role(q)) /\ (q.by \in Scanners => Scanning(wire'))
  <2>1. Others(i) \in Seq(Good \cup {q}) /\ q \in Good \cup {q}
    BY <1>1, Inside, Widened
  <2> DEFINE n == Len(Others(i)) + 1
  <2>2. /\ \A k \in DOMAIN Others(i) : k \in DOMAIN wire' /\ wire'[k] = Others(i)[k]
        /\ n \in DOMAIN wire' /\ wire'[n] = q
    BY <1>4, <2>1, Appended
  <2> HIDE DEF n
  <2> QED  BY <2>2 DEF Asked, Scanning, Role
<1>5. ASSUME wire' = Others(i) \/ \E q : wire' = Append(Others(i), q),
             NEW j \in DOMAIN wire, j # i
      PROVE  \E k \in DOMAIN wire' : wire'[k] = wire[j]
  <2>1. \A k \in DOMAIN Others(i) : k \in DOMAIN wire' /\ wire'[k] = Others(i)[k]
    BY <1>4, <1>5
  <2> QED  BY <1>3, <1>5, <2>1
<1>6. ASSUME wire' = Others(i) \/ \E q : wire' = Append(Others(i), q)
      PROVE  /\ \A role : role # Role(wire[i]) /\ Asked(wire, role) => Asked(wire', role)
             /\ wire[i].by \notin Scanners /\ Scanning(wire) => Scanning(wire')
  <2>1. ASSUME NEW role, role # Role(wire[i]), Asked(wire, role) PROVE Asked(wire', role)
    <3>1. PICK j \in DOMAIN wire : Role(wire[j]) = role
      BY <2>1 DEF Asked
    <3>2. PICK k \in DOMAIN wire' : wire'[k] = wire[j]
      BY <1>5, <1>6, <2>1, <3>1
    <3> QED  BY <3>1, <3>2 DEF Asked, Role
  <2>2. ASSUME wire[i].by \notin Scanners, Scanning(wire) PROVE Scanning(wire')
    <3>1. PICK j \in DOMAIN wire : wire[j].by \in Scanners
      BY <2>2 DEF Scanning
    <3>2. PICK k \in DOMAIN wire' : wire'[k] = wire[j]
      BY <1>5, <1>6, <2>2, <3>1
    <3> QED  BY <3>1, <3>2 DEF Scanning
  <2> QED  BY <2>1, <2>2
<1> QED  BY <1>4, <1>6

\* A save is served or fails: the task or the analysis that began with it goes on.
LEMMA OnwardAsks ==
    ASSUME WriterAssumption, TypeInv, NobodyForgotten, UNCHANGED <<busy, opening, undo>>,
           NEW i \in DOMAIN wire, wire[i].kind = "save", Onward(i, wire[i])
    PROVE  NobodyForgotten'
<1>1. Fits(wire[i]) /\ wire[i].by \in {"blur", "timer", "scan", "task", "review"}
  BY Served DEF Fits
<1>2. CASE wire[i].by \notin {"task", "scan"} /\ wire' = Others(i) /\ UNCHANGED task
  <2>1. Role(wire[i]) = "page" /\ wire[i].by \notin Scanners
    BY <1>1, <1>2 DEF Role, Scanners
  <2>2. /\ \A role \in {"task", "open", "undo"} : Asked(wire, role) => Asked(wire', role)
        /\ Scanning(wire) => Scanning(wire')
    BY <1>2, <2>1, OthersAsk
  <2> QED  BY <1>2, <2>2 DEF NobodyForgotten
<1>4. CASE /\ wire[i].by = "scan" /\ UNCHANGED task
           /\ wire' = Append(Others(i), Request("analyze", "analyze", wire[i].ch, NoText, NoNode))
  <2>1. Role(wire[i]) = "page"
    BY <1>4 DEF Role
  <2>2. Request("analyze", "analyze", wire[i].ch, NoText, NoNode).by \in Scanners
    BY DEF Request, Scanners
  <2>3. /\ \A role \in {"task", "open", "undo"} : Asked(wire, role) => Asked(wire', role)
        /\ Scanning(wire')
    BY <1>4, <2>1, <2>2, OthersAsk
  <2> QED  BY <1>4, <2>3 DEF NobodyForgotten
<1>3. ASSUME NEW kind \in {"list", "tool"}, NEW pc \in {"listing", "sent"}, wire[i].by = "task",
             wire' = Append(Others(i), Request(kind, kind, wire[i].ch, NoText, NoNode)),
             task' = [task EXCEPT !.pc = pc]
      PROVE  NobodyForgotten'
  <2>1. Role(wire[i]) = "task" /\ Role(Request(kind, kind, wire[i].ch, NoText, NoNode)) = "task"
    BY <1>3 DEF Role, Request
  <2>2. /\ Asked(wire', "task")
        /\ \A role \in {"open", "undo"} : Asked(wire, role) => Asked(wire', role)
        /\ Scanning(wire) => Scanning(wire')
    BY <1>3, <2>1, OthersAsk DEF Scanners
  <2>3. task'.pc = pc
    BY <1>3, Parts DEF WaitsOK
  <2> QED  BY <1>3, <2>2, <2>3 DEF NobodyForgotten
<1> QED  BY <1>2, <1>3, <1>4 DEF Onward

\* Any other request is served.
LEMMA ServedAsks ==
    ASSUME WriterAssumption, TypeInv, NobodyForgotten, NEW i \in DOMAIN wire,
           \/ ServeList(i, wire[i]) \/ ServeGen(i, wire[i]) \/ ServeTool(i, wire[i])
           \/ ServeOpen(i, wire[i]) \/ ServeRevert(i, wire[i])
    PROVE  NobodyForgotten'
<1>0. Fits(wire[i]) /\ WaitsOK
  BY Served, Parts
<1>1. busy' = busy
  BY DEF ServeList, ServeGen, ServeTool, ServeOpen, ServeRevert, server, timers
<1>2. wire[i].by \notin Scanners
  BY <1>0 DEF Fits, Scanners, ServeList, ServeGen, ServeTool, ServeOpen, ServeRevert, server, timers
<1>3. wire' = Others(i) \/ \E q : wire' = Append(Others(i), q)
  BY DEF ServeList, ServeGen, ServeTool, ServeOpen, ServeRevert, server, timers
<1>4. /\ \A role : role # Role(wire[i]) /\ Asked(wire, role) => Asked(wire', role)
      /\ Scanning(wire) => Scanning(wire')
  BY <1>2, <1>3, OthersAsk
<1>5. CASE ServeList(i, wire[i])
  <2>1. Role(wire[i]) = "task"
    BY <1>0, <1>5 DEF Fits, Role, ServeList, server, timers
  <2>2. Role(Request("gen", "gen", wire[i].ch, NoText, NoNode)) = "task"
    BY DEF Role, Request
  <2>3. Asked(wire', "task")
    BY <1>5, <2>2, OthersAsk DEF ServeList, server, timers
  <2>4. task'.pc = "sent" /\ UNCHANGED <<opening, undo>>
    BY <1>0, <1>5 DEF ServeList, WaitsOK, server, timers
  <2> QED  BY <1>1, <1>4, <2>1, <2>3, <2>4 DEF NobodyForgotten
<1>6. CASE ServeGen(i, wire[i]) \/ ServeTool(i, wire[i])
  <2>1. Role(wire[i]) = "task"
    BY <1>0, <1>6 DEF Fits, Role, ServeGen, ServeTool, server, timers
  <2>2. task'.pc = "answered" /\ UNCHANGED <<opening, undo>>
    BY <1>0, <1>6 DEF ServeGen, ServeTool, WaitsOK, server, timers
  <2> QED  BY <1>1, <1>4, <2>1, <2>2 DEF NobodyForgotten
<1>7. CASE ServeOpen(i, wire[i])
  <2>1. Role(wire[i]) = "open"
    BY <1>0, <1>7 DEF Fits, Role, ServeOpen, server, timers
  <2>2. opening'.pc = "answered" /\ UNCHANGED <<task, undo>>
    BY <1>0, <1>7 DEF ServeOpen, WaitsOK, server, timers
  <2> QED  BY <1>1, <1>4, <2>1, <2>2 DEF NobodyForgotten
<1>8. CASE ServeRevert(i, wire[i])
  <2>1. Role(wire[i]) = "undo"
    BY <1>0, <1>8 DEF Fits, Role, ServeRevert, server, timers
  <2>2. undo'.pc = "answered" /\ UNCHANGED <<task, opening>>
    BY <1>0, <1>8 DEF ServeRevert, WaitsOK, server, timers
  <2> QED  BY <1>1, <1>4, <2>1, <2>2 DEF NobodyForgotten
<1> QED  BY <1>5, <1>6, <1>7, <1>8

LEMMA ServeAsks ==
    ASSUME WriterAssumption, TypeInv, NobodyForgotten, Serve
    PROVE  NobodyForgotten'
<1>1. ASSUME NEW i \in DOMAIN wire, ServeSave(i, wire[i]) PROVE NobodyForgotten'
  BY <1>1, OnwardAsks DEF ServeSave
<1>2. ASSUME NEW i \in DOMAIN wire, ServeAnalyze(i, wire[i]) PROVE NobodyForgotten'
  <2>1. Role(wire[i]) = "page" /\ wire' = Others(i) /\ busy' = "" /\ UNCHANGED <<task, opening, undo>>
    BY <1>2, Served DEF ServeAnalyze, Fits, Role
  <2>2. \A role \in {"task", "open", "undo"} : Asked(wire, role) => Asked(wire', role)
    BY <2>1, OthersAsk
  <2> QED  BY <2>1, <2>2 DEF NobodyForgotten
<1> QED  BY <1>1, <1>2, ServedAsks DEF Serve

\* A failure: the one who asked gives up, and resets the flag that was his.
LEMMA FailAsks ==
    ASSUME WriterAssumption, TypeInv, NobodyForgotten, Fail
    PROVE  NobodyForgotten'
<1>1. PICK i \in DOMAIN wire :
         /\ \/ /\ wire[i].kind = "save"
               /\ Onward(i, wire[i])
            \/ /\ wire[i].kind # "save"
               /\ wire' = Others(i)
               /\ task' = IF wire[i].kind \in {"list", "gen", "tool"} THEN NoTask ELSE task
         /\ busy' = IF wire[i].kind \in {"analyze", "list", "gen", "tool"} THEN "" ELSE busy
         /\ opening' = IF wire[i].kind = "open" THEN NoOpening ELSE opening
         /\ undo' = IF wire[i].kind = "revert" THEN NoUndo ELSE undo
  BY DEF Fail, server, timers
<1>2. Fits(wire[i]) /\ wire[i] \in Requests
  BY Served
<1>3. CASE wire[i].kind = "save"
  <2>1. UNCHANGED <<busy, opening, undo>>
    BY <1>1, <1>3
  <2> QED  BY <1>1, <1>3, <2>1, OnwardAsks
<1>4. CASE wire[i].kind # "save"
  <2>1. /\ wire[i].by = (IF wire[i].kind = "revert" THEN "undo" ELSE wire[i].kind)
        /\ wire[i].kind \in {"open", "list", "gen", "tool", "revert", "analyze"}
    BY <1>2, <1>4 DEF Fits, Requests
  <2>2. /\ \A role : role # Role(wire[i]) /\ Asked(wire, role) => Asked(wire', role)
        /\ wire[i].by \notin Scanners /\ Scanning(wire) => Scanning(wire')
    BY <1>1, <1>4, <2>1, OthersAsk
  <2>3. CASE wire[i].kind \in {"list", "gen", "tool"}
    <3>1. wire[i].by \in {"list", "gen", "tool"}
      BY <2>1, <2>3
    <3>2. Role(wire[i]) = "task" /\ busy' = ""
      BY <1>1, <2>3, <3>1 DEF Role
    <3>3. task'.pc = "idle" /\ UNCHANGED <<opening, undo>>
      BY <1>1, <1>4, <2>3, NoneAsks
    <3> QED  BY <2>2, <3>2, <3>3 DEF NobodyForgotten
  <2>4. CASE wire[i].kind = "open"
    <3>1. /\ Role(wire[i]) = "open" /\ opening'.pc = "idle" /\ busy' = busy
          /\ UNCHANGED <<task, undo>> /\ wire[i].by \notin Scanners
      BY <1>1, <1>4, <2>1, <2>4 DEF Role, NoOpening, Scanners
    <3> QED  BY <2>2, <3>1 DEF NobodyForgotten
  <2>5. CASE wire[i].kind = "revert"
    <3>1. /\ Role(wire[i]) = "undo" /\ undo'.pc = "idle" /\ busy' = busy
          /\ UNCHANGED <<task, opening>> /\ wire[i].by \notin Scanners
      BY <1>1, <1>4, <2>1, <2>5 DEF Role, NoUndo, Scanners
    <3> QED  BY <2>2, <3>1 DEF NobodyForgotten
  <2>6. CASE wire[i].kind = "analyze"
    <3>1. Role(wire[i]) = "page" /\ busy' = "" /\ UNCHANGED <<task, opening, undo>>
      BY <1>1, <1>4, <2>1, <2>6 DEF Role
    <3> QED  BY <2>2, <3>1 DEF NobodyForgotten
  <2> QED  BY <2>1, <2>3, <2>4, <2>5, <2>6
<1> QED  BY <1>3, <1>4

\* An answer is lost: the one who waited for it gives up.
LEMMA LoseAsks ==
    ASSUME WriterAssumption, TypeInv, NobodyForgotten, AnswerLost
    PROVE  NobodyForgotten'
<1>1. PICK i \in DOMAIN wire :
         /\ \/ wire[i].kind = "gen" /\ task' = NoTask /\ busy' = "" /\ UNCHANGED undo
            \/ wire[i].kind = "revert" /\ undo' = NoUndo /\ UNCHANGED <<task, busy>>
         /\ wire' = Others(i) /\ opening' = opening
  BY DEF AnswerLost
<1>2. /\ wire[i].kind = "gen" => Role(wire[i]) = "task"
      /\ wire[i].kind = "revert" => Role(wire[i]) = "undo" /\ wire[i].by \notin Scanners
  BY Served DEF Fits, Role, Scanners
<1>3. /\ \A role : role # Role(wire[i]) /\ Asked(wire, role) => Asked(wire', role)
      /\ wire[i].by \notin Scanners /\ Scanning(wire) => Scanning(wire')
  BY <1>1, OthersAsk
<1> QED  BY <1>1, <1>2, <1>3, NoneAsks DEF NobodyForgotten

\* Every handler that waits has its request on the wire and every busy flag has somebody who
\* will reset it (usePipeline.ts, its catches and finallys), whatever the writer does and the
\* network reorders or loses: the safety behind WaitsEnd.
THEOREM EveryWaitIsServed == Spec => []NobodyForgotten
<1>1. Init => TypeInv /\ NobodyForgotten
  <2>1. Init => NobodyForgotten
    <3>1. Init => busy = "" /\ task.pc = "idle" /\ opening.pc = "idle" /\ undo.pc = "idle"
      BY NoneAsks DEF Init
    <3> QED  BY <3>1 DEF NobodyForgotten
  <2> QED  BY <2>1, InitType, WriterAssumption
<1>2. TypeInv /\ NobodyForgotten /\ [Next]_vars => (TypeInv /\ NobodyForgotten)'
  BY WriterAssumption, StepType, PageAsks, ScanAsks, StartAsks, AnswerAsks, ServeAsks, FailAsks, LoseAsks
     DEF Next, Writer, Timers, Answers
<1> QED  BY <1>1, <1>2, PTL DEF Spec

(***************************************************************************)
(* Every text stays with its chapter, if the writer waits.                 *)
(***************************************************************************)
LEMMA NoneWaits ==
    ASSUME Patient, Act
    PROVE  task.pc = "idle" /\ opening.pc = "idle" /\ undo.pc = "idle"
BY DEF Act, Waiting

LEMMA HomelyBlurred ==
    ASSUME WriterAssumption, TypeInv, HomeInv
    PROVE  wire \o Blurred \in Seq(Homely)
<1>1. wire \in Seq(Homely)
  BY DEF HomeInv
<1>2. CASE focus /\ Editing
  <2>1. Save("blur", text) \in Homely
    BY <1>2, SaveGood, Parts DEF Homely, Save, Request, HomeInv, PageHome, Editing, PageT, PageOK, Good
  <2> QED BY <1>1, <1>2, <2>1 DEF Blurred
<1>3. CASE ~(focus /\ Editing)
  BY <1>1, <1>3 DEF Blurred
<1> QED BY <1>2, <1>3

\* A handler of the page: what it shows and sends is of the chapter it shows.
LEMMA PageHomely ==
    ASSUME HomeInv, active' = active, UNCHANGED nodes, NEW R, R = Homely,
           active # NoChapter => text'[1] = active /\ opened'[1] = active,
           \/ review' = review
           \/ review'.open => review'.base[1] = active /\ review'.out[1] = active,
           wire' \in Seq(R)
    PROVE  PageHome' /\ ServerHome' /\ wire' \in Seq(Homely')
<1>1. Homely' = Homely
  BY DEF Homely
<1>2. PageHome'
  BY DEF HomeInv, PageHome
<1>3. ServerHome'
  BY DEF HomeInv, ServerHome
<1> QED BY <1>1, <1>2, <1>3

LEMMA TypeHome ==
    ASSUME WriterAssumption, Patient, TypeInv, HomeInv, Type
    PROVE  HomeInv'
<1>1. /\ UNCHANGED <<nodes, wire, active, opened, review, task, opening, undo>> /\ active \in Chapters
  BY Parts DEF Type, Editing, server, waits, PageT
<1>2. text'[1] = active
  BY DEF Type
<1>3. opened[1] = active /\ wire \in Seq(Homely) /\ NoChapter \notin Chapters
  BY <1>1, Facts DEF HomeInv, PageHome
<1>4. PageHome' /\ ServerHome' /\ wire' \in Seq(Homely')
  BY <1>1, <1>2, <1>3, PageHomely
<1>5. OneWait' /\ WaitsHome'
  BY <1>1 DEF HomeInv, OneWait, WaitsHome
<1> QED BY <1>4, <1>5 DEF HomeInv

LEMMA BlurHome ==
    ASSUME WriterAssumption, Patient, TypeInv, HomeInv, Blur
    PROVE  HomeInv'
<1>1. /\ UNCHANGED <<nodes, active, opened, text, review, task, opening, undo>>
      /\ wire' = wire \o Blurred
  BY DEF Blur, server, waits
<1>2. wire' \in Seq(Homely)
  BY <1>1, HomelyBlurred
<1>4. PageHome' /\ ServerHome' /\ wire' \in Seq(Homely')
  BY <1>1, <1>2, PageHomely DEF HomeInv, PageHome
<1>5. OneWait' /\ WaitsHome'
  BY <1>1 DEF HomeInv, OneWait, WaitsHome
<1> QED BY <1>4, <1>5 DEF HomeInv

LEMMA TimersHome ==
    ASSUME WriterAssumption, Patient, TypeInv, HomeInv, TimerFires \/ ScanFires
    PROVE  HomeInv'
<1>1. /\ UNCHANGED <<nodes, active, opened, text, review, task, opening, undo>>
      /\ active \in Chapters /\ text \in Texts /\ wire \in Seq(Homely) /\ NoChapter \notin Chapters
  BY Parts, Facts DEF TimerFires, ScanFires, server, waits, page, PageT, PageOK, HomeInv
<1>2. \/ wire' = wire
      \/ \E by \in {"blur", "timer", "scan", "review"} : wire' = Append(wire, Save(by, text))
  BY DEF TimerFires, ScanFires
<1>3. ASSUME NEW by \in {"blur", "timer", "scan", "review"}
      PROVE  Save(by, text) \in Homely
  BY <1>1, SaveGood DEF Homely, Save, Request, HomeInv, PageHome, Good
<1>4. wire' \in Seq(Homely)
  <2>1. \A r \in Homely : Append(wire, r) \in Seq(Homely)
    BY <1>1, Appended
  <2>2. wire' = wire \/ \E r \in Homely : wire' = Append(wire, r)
    BY <1>2, <1>3
  <2> QED BY <1>1, <2>1, <2>2
<1>5. PageHome' /\ ServerHome' /\ wire' \in Seq(Homely')
  BY <1>1, <1>4, PageHomely DEF HomeInv, PageHome
<1>6. OneWait' /\ WaitsHome'
  BY <1>1 DEF HomeInv, OneWait, WaitsHome
<1> QED BY <1>5, <1>6 DEF HomeInv

LEMMA OpenHome ==
    ASSUME WriterAssumption, Patient, TypeInv, HomeInv, Open
    PROVE  HomeInv'
<1>1. /\ UNCHANGED <<nodes, active, opened, text, review, task, undo>>
      /\ task.pc = "idle" /\ undo.pc = "idle"
  BY NoneWaits DEF Open, server
<1>2. PICK c \in Chapters :
         /\ wire' = wire \o Blurred \o <<Request("open", "open", c, NoText, NoNode)>>
         /\ opening' = [NoOpening EXCEPT !.pc = "sent", !.ch = c]
  BY DEF Open
<1>3. Request("open", "open", c, NoText, NoNode) \in Homely
  BY Facts DEF Request, Homely, Requests, NoNode
<1>4. wire' \in Seq(Homely)
  BY <1>2, <1>3, HomelyBlurred, Appended
<1>5. PageHome' /\ ServerHome' /\ wire' \in Seq(Homely')
  BY <1>1, <1>4, PageHomely DEF HomeInv, PageHome
<1>6. OneWait' /\ WaitsHome'
  BY <1>1, <1>2 DEF HomeInv, OneWait, WaitsHome, NoOpening
<1> QED BY <1>5, <1>6 DEF HomeInv

LEMMA StartTaskHome ==
    ASSUME WriterAssumption, Patient, TypeInv, HomeInv, StartTask
    PROVE  HomeInv'
<1>1. /\ UNCHANGED <<nodes, active, opened, text, review, opening, undo>>
      /\ opening.pc = "idle" /\ undo.pc = "idle" /\ active \in Chapters /\ ~review.open
      /\ wire' = wire \o Blurred \o <<Save("task", text)>> /\ text \in Texts
  BY NoneWaits, Parts DEF StartTask, server, Editing, PageT, PageOK
<1>2. PICK op \in GenModes \cup {"tool"} :
         task' = [NoTask EXCEPT !.pc = "saving", !.op = op, !.ch = active, !.opened = opened, !.base = text]
  BY DEF StartTask
<1>3. text[1] = active /\ opened[1] = active
  BY <1>1, Facts DEF HomeInv, PageHome
<1>4. Save("task", text) \in Homely
  BY <1>1, <1>3, Facts DEF Request, Save, Homely, Requests, NoNode
<1>5. wire' \in Seq(Homely)
  BY <1>1, <1>4, HomelyBlurred, Appended
<1>6. PageHome' /\ ServerHome' /\ wire' \in Seq(Homely')
  BY <1>1, <1>5, PageHomely DEF HomeInv, PageHome
<1>7. OneWait' /\ WaitsHome'
  BY <1>1, <1>2, <1>3 DEF HomeInv, OneWait, WaitsHome, NoTask
<1> QED BY <1>6, <1>7 DEF HomeInv

LEMMA RevertToHome ==
    ASSUME WriterAssumption, Patient, TypeInv, HomeInv, RevertTo
    PROVE  HomeInv'
<1>1. /\ UNCHANGED <<nodes, active, opened, text, review, task, opening>>
      /\ task.pc = "idle" /\ opening.pc = "idle" /\ active \in Chapters
      /\ undo' = [NoUndo EXCEPT !.pc = "sent"] /\ ServerT
  BY NoneWaits, Parts DEF RevertTo, server, Editing, PageT
<1>2. PICK v \in DOMAIN nodes : wire' = wire \o Blurred \o <<Request("revert", "undo", active, NoText, v)>>
  BY DEF RevertTo
<1>3. Request("revert", "undo", active, NoText, v) \in Homely
  BY <1>1, NodeType, Facts DEF Request, Homely, Requests
<1>4. wire' \in Seq(Homely)
  BY <1>2, <1>3, HomelyBlurred, Appended
<1>5. PageHome' /\ ServerHome' /\ wire' \in Seq(Homely')
  BY <1>1, <1>4, PageHomely DEF HomeInv, PageHome
<1>6. OneWait' /\ WaitsHome'
  BY <1>1 DEF HomeInv, OneWait, WaitsHome, NoUndo
<1> QED BY <1>5, <1>6 DEF HomeInv

LEMMA OpenAnsweredHome ==
    ASSUME WriterAssumption, Patient, TypeInv, HomeInv, OpenAnswered
    PROVE  HomeInv'
<1>1. /\ UNCHANGED <<nodes, wire, task, undo>> /\ opening.pc = "answered" /\ opening' = NoOpening
      /\ active' = opening.ch /\ opened' = opening.text
      /\ \/ opening.ch # active /\ text' = opening.text /\ review' = NoReview
         \/ opening.ch = active /\ text' = text /\ review' = review
  BY DEF OpenAnswered, Show, server
<1>2. /\ task.pc = "idle" /\ undo.pc = "idle" /\ opening.text[1] = opening.ch /\ opening.ch \in Chapters
      /\ NoChapter \notin Chapters
  BY <1>1, Parts, Facts DEF HomeInv, OneWait, WaitsHome, WaitsOK
<1>3. PageHome'
  <2>1. CASE opening.ch # active /\ text' = opening.text /\ review' = NoReview
    BY <1>1, <1>2, <2>1 DEF PageHome, NoReview
  <2>2. CASE opening.ch = active /\ text' = text /\ review' = review
    BY <1>1, <1>2, <2>2 DEF HomeInv, PageHome
  <2> QED BY <1>1, <2>1, <2>2
<1>4. ServerHome' /\ OneWait' /\ WaitsHome'
  BY <1>1, <1>2 DEF HomeInv, ServerHome, OneWait, WaitsHome, NoOpening
<1>5. wire' \in Seq(Homely')
  <2>1. wire \in Seq(Good) /\ wire \in Seq(Homely)
    BY Parts DEF WireOK, HomeInv
  <2>2. ASSUME NEW k \in DOMAIN wire PROVE wire[k] \in Homely'
    <3>1. wire[k] \in Good /\ wire[k] \in Homely
      BY <2>1, Inside
    <3>2. wire[k].kind # "revert"
      BY <1>2, <3>1, Roles DEF Good, Fits, Role
    <3> QED BY <3>1, <3>2 DEF Homely
  <2> QED BY <1>1, <2>1, <2>2, Widened
<1> QED BY <1>3, <1>4, <1>5 DEF HomeInv

LEMMA TaskAnsweredHome ==
    ASSUME WriterAssumption, Patient, TypeInv, HomeInv, TaskAnswered
    PROVE  HomeInv'
<1>1. /\ UNCHANGED <<nodes, wire, opening, undo>> /\ task.pc = "answered" /\ task' = NoTask
      /\ active' = task.ch /\ opened' = task.opened
  BY DEF TaskAnswered, server
<1>2. /\ opening.pc = "idle" /\ undo.pc = "idle" /\ task.ch = active /\ ~review.open
      /\ task.opened[1] = active /\ task.base[1] = active /\ (task.op # "tool" => task.out[1] = active)
  BY <1>1 DEF HomeInv, OneWait, WaitsHome
<1>3. /\ text' = text \/ (text' = task.out /\ task.op # "tool")
      /\ \/ review' = review
         \/ task.op # "tool" /\ review'.base = task.base /\ review'.out = task.out
  <2>1. CASE UNCHANGED <<text, review>>
    BY <2>1
  <2>2. CASE task.op # "tool" /\ text' = task.out /\ UNCHANGED review
    BY <2>2
  <2>3. CASE /\ task.op # "tool" /\ UNCHANGED text
             /\ review' = [open |-> TRUE, base |-> task.base, out |-> task.out, to |-> task.to]
    BY <2>3
  <2> QED BY <1>2, <2>1, <2>2, <2>3 DEF TaskAnswered
<1>4. PageHome'
  BY <1>1, <1>2, <1>3 DEF HomeInv, PageHome
<1>5. ServerHome' /\ OneWait' /\ WaitsHome' /\ Homely' = Homely
  BY <1>1, <1>2 DEF HomeInv, ServerHome, OneWait, WaitsHome, NoTask, Homely
<1> QED BY <1>1, <1>4, <1>5 DEF HomeInv

LEMMA UndoAnsweredHome ==
    ASSUME WriterAssumption, Patient, TypeInv, HomeInv, UndoAnswered
    PROVE  HomeInv'
<1>1. /\ UNCHANGED <<nodes, wire, opening, task, active, opened>> /\ undo.pc = "answered"
      /\ undo' = NoUndo /\ text' = undo.text /\ review' \in {review, NoReview}
  BY DEF UndoAnswered, server
<1>2. undo.text[1] = active /\ task.pc = "idle" /\ opening.pc = "idle" /\ wire \in Seq(Homely)
  BY <1>1 DEF HomeInv, OneWait, WaitsHome
<1>3. PageHome' /\ ServerHome' /\ wire' \in Seq(Homely')
  BY <1>1, <1>2, PageHomely DEF HomeInv, PageHome, NoReview
<1>4. OneWait' /\ WaitsHome'
  BY <1>1, <1>2 DEF HomeInv, OneWait, WaitsHome, NoUndo
<1> QED BY <1>3, <1>4 DEF HomeInv

LEMMA ReviewEditHome ==
    ASSUME WriterAssumption, Patient, TypeInv, HomeInv, ReviewEdit
    PROVE  HomeInv'
<1>1. /\ UNCHANGED <<nodes, active, opened, text, task, opening, undo>> /\ active \in Chapters
      /\ task.pc = "idle" /\ opening.pc = "idle" /\ undo.pc = "idle" /\ wire' = wire \o Blurred
  BY NoneWaits, Parts DEF ReviewEdit, server, waits, Editing, PageT
<1>2. PICK word \in Words :
         review' = [open |-> TRUE, base |-> text, out |-> <<active, word>>, to |-> NoNode]
  BY DEF ReviewEdit
<1>3. text[1] = active /\ wire' \in Seq(Homely)
  BY <1>1, HomelyBlurred, Facts DEF HomeInv, PageHome
<1>4. PageHome' /\ ServerHome' /\ wire' \in Seq(Homely')
  BY <1>1, <1>2, <1>3, PageHomely DEF HomeInv, PageHome
<1>5. OneWait' /\ WaitsHome'
  BY <1>1 DEF HomeInv, OneWait, WaitsHome
<1> QED BY <1>4, <1>5 DEF HomeInv

LEMMA FinishReviewHome ==
    ASSUME WriterAssumption, Patient, TypeInv, HomeInv, FinishReview
    PROVE  HomeInv'
<1>1. /\ UNCHANGED <<nodes, active, opened, task, opening, undo>> /\ active \in Chapters
      /\ task.pc = "idle" /\ opening.pc = "idle" /\ undo.pc = "idle" /\ review.open /\ review' = NoReview
      /\ review.base \in Texts /\ review.out \in Texts
  BY NoneWaits, Parts DEF FinishReview, server, waits, PageT, PageOK
<1>2. PICK m \in {review.base, review.out} : text' = m /\ wire' = Append(wire, Save("review", m))
  BY DEF FinishReview
<1>3. m[1] = active /\ m \in Texts
  BY <1>1, <1>2 DEF HomeInv, PageHome
<1>4. Save("review", m) \in Homely
  BY <1>1, <1>3, SaveGood DEF Homely, Save, Request, Good
<1>5. wire' \in Seq(Homely)
  BY <1>2, <1>4, Appended DEF HomeInv
<1>6. PageHome' /\ ServerHome' /\ wire' \in Seq(Homely')
  BY <1>1, <1>2, <1>3, <1>5, PageHomely DEF HomeInv, PageHome, NoReview
<1>7. OneWait' /\ WaitsHome'
  BY <1>1 DEF HomeInv, OneWait, WaitsHome
<1> QED BY <1>6, <1>7 DEF HomeInv

LEMMA CancelReviewHome ==
    ASSUME WriterAssumption, Patient, TypeInv, HomeInv, CancelReview
    PROVE  HomeInv'
<1>1. /\ UNCHANGED <<nodes, active, opened, text, task, opening>> /\ active \in Chapters
      /\ task.pc = "idle" /\ opening.pc = "idle" /\ undo.pc = "idle" /\ review' \in {review, NoReview}
      /\ undo'.pc \in {"idle", "sent"} /\ ServerT /\ NodeOf(review.to, active)
  BY NoneWaits, Parts DEF CancelReview, server, PageT, PageOK, NoUndo
<1>2. \/ wire' = wire
      \/ /\ review.to # NoNode
         /\ wire' = Append(wire, Request("revert", "undo", active, NoText, review.to))
  BY DEF CancelReview
<1>3. ASSUME review.to # NoNode
      PROVE  Request("revert", "undo", active, NoText, review.to) \in Homely
  <2>1. review.to \in Nat
    BY <1>1, <1>3, NodeType DEF NodeOf
  <2> QED BY <1>1, <2>1, Facts DEF Request, Homely, Requests
<1>4. wire' \in Seq(Homely)
  BY <1>2, <1>3, Appended DEF HomeInv
<1>5. PageHome' /\ ServerHome' /\ wire' \in Seq(Homely')
  BY <1>1, <1>4, PageHomely DEF HomeInv, PageHome, NoReview
<1>6. OneWait' /\ WaitsHome'
  BY <1>1 DEF HomeInv, OneWait, WaitsHome
<1> QED BY <1>5, <1>6 DEF HomeInv

\* The server answers what it was asked, with a text of the chapter it was asked about.
LEMMA ServedHome ==
    ASSUME HomeInv, UNCHANGED page, ServerHome', wire' \in Seq(Homely),
           task'.pc # "idle" => /\ task.pc # "idle" /\ task'.ch = task.ch
                                /\ task'.opened = task.opened /\ task'.base = task.base,
           task'.pc = "answered" /\ task'.op # "tool" => task'.out[1] = task'.ch,
           opening'.pc # "idle" => opening.pc # "idle" /\ opening'.ch = opening.ch,
           opening'.pc = "answered" => opening'.text[1] = opening'.ch,
           undo'.pc # "idle" => undo.pc # "idle",
           undo'.pc = "answered" => undo'.text[1] = active,
           task.pc \in {"idle", "saving", "listing", "sent", "answered"},
           opening.pc \in {"idle", "sent", "answered"}, undo.pc \in {"idle", "sent", "answered"},
           opening'.pc \in {"idle", "sent", "answered"}, undo'.pc \in {"idle", "sent", "answered"}
    PROVE  HomeInv'
<1>1. UNCHANGED <<active, opened, text, review>> /\ Homely' = Homely
  BY DEF page, Homely
<1>2. PageHome'
  BY <1>1 DEF HomeInv, PageHome
<1>3. OneWait' /\ WaitsHome'
  BY <1>1 DEF HomeInv, OneWait, WaitsHome
<1> QED BY <1>1, <1>2, <1>3 DEF HomeInv

\* What goes out with a task's next request.
LEMMA HomelyTaken ==
    ASSUME WriterAssumption, TypeInv, HomeInv, NEW i \in DOMAIN wire,
           \/ wire' = Others(i)
           \/ \E kind \in {"list", "gen", "tool", "analyze"} :
                 wire' = Append(Others(i), Request(kind, kind, wire[i].ch, NoText, NoNode))
    PROVE  wire' \in Seq(Homely)
<1>1. wire \in Seq(Homely)
  BY DEF HomeInv
<1>2. Others(i) \in Seq(Homely)
  BY <1>1, Shifted
<1>3. \A kind \in {"list", "gen", "tool", "analyze"} : Request(kind, kind, wire[i].ch, NoText, NoNode) \in Homely
  BY Served, Facts DEF Request, Homely, Requests, NoNode
<1>4. \A r \in Homely : Append(Others(i), r) \in Seq(Homely)
  BY <1>2, Appended
<1>5. wire' = Others(i) \/ \E r \in Homely : wire' = Append(Others(i), r)
  BY <1>3
<1> QED BY <1>2, <1>4, <1>5

LEMMA ServeSaveHome ==
    ASSUME WriterAssumption, TypeInv, HomeInv, UNCHANGED <<page, timers, latest, acts>>,
           NEW i \in DOMAIN wire, ServeSave(i, wire[i])
    PROVE  HomeInv'
<1>1. /\ ServerT /\ PageT /\ WaitsOK /\ wire[i].ch \in Chapters /\ wire[i].text \in Texts
      /\ UNCHANGED <<opening, undo>> /\ Store(wire[i].ch, wire[i].text) /\ Onward(i, wire[i])
      /\ wire[i].kind = "save" /\ wire[i] \in Homely
  BY Parts, Served, Inside DEF ServeSave, HomeInv
<1>7. PICK c \in Chapters, t \in Texts : c = wire[i].ch /\ t = wire[i].text
  BY <1>1
<1>8. Store(c, t) /\ t[1] = c
  BY <1>1, <1>7 DEF Homely
<1>2. /\ ServerT' /\ Keeps /\ HeadText(c)' = t
      /\ \A v \in DOMAIN nodes' : v # head'[c] => v \in DOMAIN nodes /\ nodes'[v] = nodes[v]
  BY <1>1, <1>8, StoreT
<1>3. nodes'[head'[c]].ch = c /\ nodes'[head'[c]].text = t
  BY <1>2 DEF ServerT, HeadText
<1>4. ServerHome'
  BY <1>2, <1>3, <1>8 DEF HomeInv, ServerHome
<1>5. task' = task \/ /\ task.pc = "saving" /\ task'.pc \in {"listing", "sent"} /\ task'.ch = task.ch
                      /\ task'.opened = task.opened /\ task'.base = task.base
  BY <1>1, <1>2, OnwardType
<1>6. wire' \in Seq(Homely)
  BY <1>1, HomelyTaken DEF Onward
<1> QED BY <1>1, <1>4, <1>5, <1>6, ServedHome DEF HomeInv, WaitsHome, WaitsOK

LEMMA ServeAnalyzeHome ==
    ASSUME WriterAssumption, TypeInv, HomeInv, UNCHANGED <<page, timers, latest, acts>>,
           NEW i \in DOMAIN wire, ServeAnalyze(i, wire[i])
    PROVE  HomeInv'
<1>1. WaitsOK /\ UNCHANGED <<nodes, task, opening, undo>> /\ wire' = Others(i)
  BY Parts DEF ServeAnalyze, server
<1>2. wire' \in Seq(Homely) /\ ServerHome'
  BY <1>1, HomelyTaken DEF HomeInv, ServerHome
<1> QED BY <1>1, <1>2, ServedHome DEF HomeInv, WaitsHome, WaitsOK

LEMMA ServeListHome ==
    ASSUME WriterAssumption, TypeInv, HomeInv, UNCHANGED <<page, timers, latest, acts>>,
           NEW i \in DOMAIN wire, ServeList(i, wire[i])
    PROVE  HomeInv'
<1>1. /\ WaitsOK /\ UNCHANGED <<nodes, opening, undo>> /\ Fits(wire[i])
      /\ task' = [task EXCEPT !.pc = "sent", !.to = head[wire[i].ch]]
      /\ wire' = Append(Others(i), Request("gen", "gen", wire[i].ch, NoText, NoNode))
      /\ wire[i].kind = "list"
  BY Parts, Served DEF ServeList, server
<1>2. task'.pc = "sent" /\ task'.ch = task.ch /\ task'.opened = task.opened /\ task'.base = task.base
      /\ task.pc = "listing"
  BY <1>1 DEF WaitsOK, Fits
<1>3. wire' \in Seq(Homely) /\ ServerHome'
  BY <1>1, HomelyTaken DEF HomeInv, ServerHome
<1> QED BY <1>1, <1>2, <1>3, ServedHome DEF HomeInv, WaitsHome, WaitsOK

\* The generation is stored in the chapter it was asked for.
LEMMA GenHome ==
    ASSUME WriterAssumption, TypeInv, HomeInv, NEW i \in DOMAIN wire, wire[i].kind = "gen",
           NEW word \in Words, AddNode(wire[i].ch, task.op, <<wire[i].ch, word>>)
    PROVE  ServerHome' /\ wire[i].ch = task.ch /\ task.pc = "sent" /\ task.op # "tool"
<1>1. ServerT /\ WaitsOK /\ wire[i].ch \in Chapters /\ Fits(wire[i])
  BY Parts, Served
<1>2. wire[i].ch = task.ch /\ task.pc = "sent" /\ task.op # "tool"
  BY <1>1 DEF Fits, Role
<1>3. <<wire[i].ch, word>> \in Texts /\ task.op \in {"draft", "manual", "polish", "expand"}
  BY <1>1, <1>2, Facts DEF WaitsOK, WriterAssumption
<1>4. PICK c, t, kind : c = wire[i].ch /\ t = <<wire[i].ch, word>> /\ kind = task.op
  OBVIOUS
<1>5. c \in Chapters /\ t \in Texts /\ kind \in {"draft", "manual", "polish", "expand"} /\ AddNode(c, kind, t)
  BY <1>1, <1>3, <1>4
<1>6. /\ DOMAIN nodes' = DOMAIN nodes \cup {Len(nodes) + 1}
      /\ nodes'[Len(nodes) + 1] = [ch |-> c, kind |-> kind, text |-> t]
      /\ \A v \in DOMAIN nodes : nodes'[v] = nodes[v]
  BY <1>1, <1>5, AddNodeT
<1>7. ServerHome'
  BY <1>4, <1>6 DEF HomeInv, ServerHome
<1> QED BY <1>2, <1>7

LEMMA ServeGenHome ==
    ASSUME WriterAssumption, TypeInv, HomeInv, UNCHANGED <<page, timers, latest, acts>>,
           NEW i \in DOMAIN wire, ServeGen(i, wire[i])
    PROVE  HomeInv'
<1>1. /\ WaitsOK /\ UNCHANGED <<opening, undo>> /\ wire[i].kind = "gen" /\ wire' = Others(i)
  BY Parts DEF ServeGen
<1>2. PICK word \in Words : /\ AddNode(wire[i].ch, task.op, <<wire[i].ch, word>>)
                            /\ task' = [task EXCEPT !.pc = "answered", !.out = <<wire[i].ch, word>>]
  BY DEF ServeGen
<1>3. ServerHome' /\ wire[i].ch = task.ch /\ task.pc = "sent"
  BY <1>1, <1>2, GenHome
<1>4. /\ task'.pc = "answered" /\ task'.ch = task.ch /\ task'.opened = task.opened
      /\ task'.base = task.base /\ task'.out[1] = task.ch
  BY <1>1, <1>2, <1>3 DEF WaitsOK
<1>5. wire' \in Seq(Homely)
  BY <1>1, HomelyTaken
<1> QED BY <1>1, <1>3, <1>4, <1>5, ServedHome DEF HomeInv, WaitsHome, WaitsOK

LEMMA ServeToolHome ==
    ASSUME WriterAssumption, TypeInv, HomeInv, UNCHANGED <<page, timers, latest, acts>>,
           NEW i \in DOMAIN wire, ServeTool(i, wire[i])
    PROVE  HomeInv'
<1>1. /\ WaitsOK /\ UNCHANGED <<nodes, opening, undo>> /\ Fits(wire[i])
      /\ task' = [task EXCEPT !.pc = "answered"] /\ wire' = Others(i) /\ wire[i].kind = "tool"
  BY Parts, Served DEF ServeTool, server
<1>2. /\ task'.pc = "answered" /\ task'.ch = task.ch /\ task'.opened = task.opened /\ task'.base = task.base
      /\ task'.op = "tool" /\ task.pc = "sent"
  BY <1>1 DEF WaitsOK, Fits
<1>3. wire' \in Seq(Homely) /\ ServerHome'
  BY <1>1, HomelyTaken DEF HomeInv, ServerHome
<1> QED BY <1>1, <1>2, <1>3, ServedHome DEF HomeInv, WaitsHome, WaitsOK

LEMMA ServeOpenHome ==
    ASSUME WriterAssumption, TypeInv, HomeInv, UNCHANGED <<page, timers, latest, acts>>,
           NEW i \in DOMAIN wire, ServeOpen(i, wire[i])
    PROVE  HomeInv'
<1>1. /\ ServerT /\ WaitsOK /\ UNCHANGED <<nodes, task, undo>> /\ Fits(wire[i]) /\ wire[i].ch \in Chapters
      /\ opening' = [opening EXCEPT !.pc = "answered", !.text = HeadText(wire[i].ch)]
      /\ wire' = Others(i) /\ wire[i].kind = "open"
  BY Parts, Served DEF ServeOpen, server
<1>2. opening.pc = "sent" /\ wire[i].ch = opening.ch
  BY <1>1 DEF Fits
<1>3. HeadText(wire[i].ch)[1] = wire[i].ch
  BY <1>1, HeadTextType DEF HomeInv, ServerHome, HeadText
<1>4. opening'.pc = "answered" /\ opening'.ch = opening.ch /\ opening'.text[1] = opening.ch
  BY <1>1, <1>2, <1>3 DEF WaitsOK
<1>5. wire' \in Seq(Homely) /\ ServerHome'
  BY <1>1, HomelyTaken DEF HomeInv, ServerHome
<1> QED BY <1>1, <1>2, <1>4, <1>5, ServedHome DEF HomeInv, WaitsHome, WaitsOK

LEMMA ServeRevertHome ==
    ASSUME WriterAssumption, TypeInv, HomeInv, UNCHANGED <<page, timers, latest, acts>>,
           NEW i \in DOMAIN wire, ServeRevert(i, wire[i])
    PROVE  HomeInv'
<1>1. /\ ServerT /\ WaitsOK /\ UNCHANGED <<nodes, task, opening>> /\ Fits(wire[i])
      /\ undo' = [undo EXCEPT !.pc = "answered", !.text = nodes[wire[i].node].text]
      /\ wire' = Others(i) /\ wire[i].kind = "revert" /\ wire[i] \in Homely
  BY Parts, Served, Inside DEF ServeRevert, HomeInv
<1>2. /\ undo.pc = "sent" /\ wire[i].node \in DOMAIN nodes /\ nodes[wire[i].node].ch = wire[i].ch
      /\ wire[i].ch = active
  BY <1>1 DEF Fits, Homely
<1>3. nodes[wire[i].node].text[1] = active
  BY <1>2 DEF HomeInv, ServerHome
<1>4. undo'.pc = "answered" /\ undo'.text[1] = active
  BY <1>1, <1>3 DEF WaitsOK
<1>5. wire' \in Seq(Homely) /\ ServerHome'
  BY <1>1, HomelyTaken DEF HomeInv, ServerHome
<1> QED BY <1>1, <1>2, <1>4, <1>5, ServedHome DEF HomeInv, WaitsHome, WaitsOK

LEMMA FailHome ==
    ASSUME WriterAssumption, TypeInv, HomeInv, Fail
    PROVE  HomeInv'
<1>1. ServerT /\ PageT /\ WaitsOK /\ UNCHANGED <<nodes, head>> /\ UNCHANGED <<page, timers, latest, acts>>
  BY Parts DEF Fail, server
<1>2. PICK i \in DOMAIN wire :
         /\ \/ /\ wire[i].kind = "save"
               /\ Onward(i, wire[i])
            \/ /\ wire[i].kind # "save"
               /\ wire' = Others(i)
               /\ task' = IF wire[i].kind \in {"list", "gen", "tool"} THEN NoTask ELSE task
         /\ opening' = IF wire[i].kind = "open" THEN NoOpening ELSE opening
         /\ undo' = IF wire[i].kind = "revert" THEN NoUndo ELSE undo
  BY DEF Fail
<1>3. ServerHome' /\ Keeps
  BY <1>1 DEF HomeInv, ServerHome, Keeps
<1>4. wire' \in Seq(Homely)
  BY <1>2, HomelyTaken DEF Onward
<1>5. /\ opening' = opening \/ opening'.pc = "idle"
      /\ undo' = undo \/ undo'.pc = "idle"
  BY <1>2 DEF NoOpening, NoUndo
<1>6. \/ task' = task \/ task'.pc = "idle"
      \/ /\ task.pc = "saving" /\ task'.pc \in {"listing", "sent"} /\ task'.ch = task.ch
         /\ task'.opened = task.opened /\ task'.base = task.base
  <2>1. CASE wire[i].kind = "save"
    BY <1>2, <1>3, <2>1, OnwardType
  <2>2. CASE wire[i].kind # "save"
    BY <1>2, <2>2 DEF NoTask
  <2> QED BY <2>1, <2>2
<1> QED BY <1>1, <1>3, <1>4, <1>5, <1>6, ServedHome DEF HomeInv, WaitsHome, WaitsOK

LEMMA LoseHome ==
    ASSUME WriterAssumption, TypeInv, HomeInv, AnswerLost
    PROVE  HomeInv'
<1>1. /\ WaitsOK /\ UNCHANGED <<page, timers, latest, acts>> /\ opening' = opening
  BY Parts DEF AnswerLost
<1>2. PICK i \in DOMAIN wire :
         /\ \/ /\ wire[i].kind = "gen"
               /\ \E word \in Words : AddNode(wire[i].ch, task.op, <<wire[i].ch, word>>)
               /\ task' = NoTask /\ UNCHANGED undo
            \/ /\ wire[i].kind = "revert" /\ undo' = NoUndo
               /\ UNCHANGED <<nodes, task>>
         /\ wire' = Others(i)
  BY DEF AnswerLost
<1>3. ServerHome'
  BY <1>2, GenHome DEF HomeInv, ServerHome
<1>4. wire' \in Seq(Homely)
  BY <1>2, HomelyTaken
<1>5. task' = task \/ task'.pc = "idle"
  BY <1>2, NoneAsks
<1>6. undo' = undo \/ undo'.pc = "idle"
  BY <1>2, NoneAsks
<1> QED BY <1>1, <1>3, <1>4, <1>5, <1>6, ServedHome DEF HomeInv, WaitsHome, WaitsOK

LEMMA InitHome ==
    ASSUME WriterAssumption, Init
    PROVE  HomeInv
<1>1. OneWait /\ PageHome /\ WaitsHome
  BY DEF Init, OneWait, PageHome, WaitsHome, NoTask, NoOpening, NoUndo, NoReview
<1>2. ServerHome
  BY DEF Init, ServerHome, BlankOf
<1>3. wire \in Seq(Homely)
  <2>1. wire = << >>
    BY DEF Init
  <2> QED BY <2>1
<1> QED BY <1>1, <1>2, <1>3 DEF HomeInv

LEMMA ServeHome ==
    ASSUME WriterAssumption, TypeInv, HomeInv, Serve
    PROVE  HomeInv'
BY ServeSaveHome, ServeAnalyzeHome, ServeListHome, ServeGenHome, ServeToolHome, ServeOpenHome,
   ServeRevertHome DEF Serve

LEMMA StutterHome ==
    ASSUME HomeInv, UNCHANGED vars
    PROVE  HomeInv'
<1>1. UNCHANGED <<nodes, wire, active, opened, text, review, task, opening, undo>>
  BY DEF vars, server, page, waits
<1> QED BY <1>1 DEF HomeInv, OneWait, PageHome, ServerHome, WaitsHome, Homely

LEMMA StepHome ==
    ASSUME Patient, TypeInv, HomeInv, [Next]_vars
    PROVE  HomeInv'
BY WriterAssumption, TypeHome, BlurHome, OpenHome, StartTaskHome, ReviewEditHome, FinishReviewHome,
   CancelReviewHome, RevertToHome, TimersHome, OpenAnsweredHome, TaskAnsweredHome, UndoAnsweredHome,
   ServeHome, FailHome, LoseHome, StutterHome
   DEF Next, Writer, Timers, Answers

\* No text lands in another chapter, although the handlers of useChapterDraft.ts, usePipeline.ts
\* and useVersions.ts use after an await the chapter they captured before it: while the writer
\* waits, whatever fails, is reordered or saved by a timer.  The run writer_foreign shows that
\* the condition is needed.
THEOREM TextsAtHome ==
    ASSUME Patient
    PROVE  Spec => []HomeTexts
<1>1. Init => TypeInv /\ HomeInv
  BY InitType, InitHome, WriterAssumption
<1>2. TypeInv /\ HomeInv /\ [Next]_vars => (TypeInv /\ HomeInv)'
  BY StepType, StepHome
<1>3. TypeInv /\ HomeInv => HomeTexts
  BY DEF HomeInv, PageHome, ServerHome, HomeTexts
<1> QED BY <1>1, <1>2, <1>3, PTL DEF Spec

(***************************************************************************)
(* The reviewed generation is the head, short of a mishap.                 *)
(***************************************************************************)
\* A request is added that is no save.
LEMMA SavesAdded ==
    ASSUME NEW R, NEW w \in Seq(R), NEW q \in R, q.kind # "save"
    PROVE  /\ \A c, t : LastSave(w, c, t) => LastSave(Append(w, q), c, t)
           /\ \A c : NoSave(w, c) => NoSave(Append(w, q), c)
           /\ \A c, t : Asks(w, c, t) => Asks(Append(w, q), c, t)
           /\ Behind(w) => Behind(Append(w, q))
<1>1. /\ Len(w) \in Nat /\ DOMAIN Append(w, q) = 1 .. Len(w) + 1 /\ DOMAIN w = 1 .. Len(w)
      /\ \A i \in DOMAIN w : Append(w, q)[i] = w[i]
      /\ Append(w, q)[Len(w) + 1] = q
  BY Appended
<1>2. \A i \in DOMAIN Append(w, q) :
        (i \in DOMAIN w /\ Append(w, q)[i] = w[i]) \/ (i = Len(w) + 1 /\ Append(w, q)[i] = q)
  BY <1>1
<1>3. ASSUME NEW c, NEW t, LastSave(w, c, t) PROVE LastSave(Append(w, q), c, t)
  <2>1. PICK i \in DOMAIN w : /\ IsSave(w[i], c) /\ w[i].text = t
                              /\ \A j \in DOMAIN w : j > i => ~IsSave(w[j], c)
    BY <1>3 DEF LastSave
  <2>2. i \in DOMAIN Append(w, q) /\ Append(w, q)[i] = w[i]
    BY <1>1
  <2>3. \A j \in DOMAIN Append(w, q) : j > i => ~IsSave(Append(w, q)[j], c)
    BY <1>2, <2>1 DEF IsSave
  <2> QED BY <2>1, <2>2, <2>3 DEF LastSave
<1>4. \A c : NoSave(w, c) => NoSave(Append(w, q), c)
  BY <1>2 DEF NoSave, IsSave
<1>5. \A c, t : Asks(w, c, t) => Asks(Append(w, q), c, t)
  BY <1>2 DEF Asks, IsSave
<1>6. ASSUME Behind(w), NEW i \in DOMAIN Append(w, q), NEW k \in DOMAIN Append(w, q),
             Leaves(Append(w, q)[i]), IsSave(Append(w, q)[k], Append(w, q)[i].ch)
      PROVE  k < i
  <2>1. k \in DOMAIN w /\ Append(w, q)[k] = w[k]
    BY <1>2, <1>6 DEF IsSave
  <2>2. CASE i \in DOMAIN w /\ Append(w, q)[i] = w[i]
    BY <1>6, <2>1, <2>2 DEF Behind
  <2>3. CASE i = Len(w) + 1
    BY <1>1, <2>1, <2>3
  <2> QED BY <1>2, <2>2, <2>3
<1>7. Behind(w) => Behind(Append(w, q))
  BY <1>6 DEF Behind
<1> QED BY <1>3, <1>4, <1>5, <1>7

\* A save is sent.
LEMMA SaveAdded ==
    ASSUME NEW R, NEW w \in Seq(R), NEW q \in R, q.kind = "save"
    PROVE  /\ LastSave(Append(w, q), q.ch, q.text)
           /\ \A c, t : c # q.ch /\ LastSave(w, c, t) => LastSave(Append(w, q), c, t)
           /\ \A c : c # q.ch /\ NoSave(w, c) => NoSave(Append(w, q), c)
           /\ \A c, t : Asks(w, c, t) /\ (q.ch = c => q.text = t) => Asks(Append(w, q), c, t)
           /\ Behind(w) /\ q.ch = active /\ (\A i \in DOMAIN w : w[i].kind # "revert") => Behind(Append(w, q))
<1>1. /\ Len(w) \in Nat /\ DOMAIN Append(w, q) = 1 .. Len(w) + 1 /\ DOMAIN w = 1 .. Len(w)
      /\ \A i \in DOMAIN w : Append(w, q)[i] = w[i]
      /\ Append(w, q)[Len(w) + 1] = q
  BY Appended
<1>2. \A i \in DOMAIN Append(w, q) :
        (i \in DOMAIN w /\ Append(w, q)[i] = w[i]) \/ (i = Len(w) + 1 /\ Append(w, q)[i] = q)
  BY <1>1
<1>3. LastSave(Append(w, q), q.ch, q.text)
  <2>1. Len(w) + 1 \in DOMAIN Append(w, q) /\ \A j \in DOMAIN Append(w, q) : ~(j > Len(w) + 1)
    BY <1>1
  <2> QED BY <1>1, <2>1 DEF LastSave, IsSave
<1>4. ASSUME NEW c, NEW t, c # q.ch, LastSave(w, c, t) PROVE LastSave(Append(w, q), c, t)
  <2>1. PICK i \in DOMAIN w : /\ IsSave(w[i], c) /\ w[i].text = t
                              /\ \A j \in DOMAIN w : j > i => ~IsSave(w[j], c)
    BY <1>4 DEF LastSave
  <2>2. i \in DOMAIN Append(w, q) /\ Append(w, q)[i] = w[i]
    BY <1>1
  <2>3. \A j \in DOMAIN Append(w, q) : j > i => ~IsSave(Append(w, q)[j], c)
    BY <1>2, <1>4, <2>1 DEF IsSave
  <2> QED BY <2>1, <2>2, <2>3 DEF LastSave
<1>5. \A c : c # q.ch /\ NoSave(w, c) => NoSave(Append(w, q), c)
  BY <1>2 DEF NoSave, IsSave
<1>6. \A c, t : Asks(w, c, t) /\ (q.ch = c => q.text = t) => Asks(Append(w, q), c, t)
  BY <1>2 DEF Asks, IsSave
<1>7. ASSUME Behind(w), q.ch = active, \A i \in DOMAIN w : w[i].kind # "revert",
             NEW i \in DOMAIN Append(w, q), NEW k \in DOMAIN Append(w, q),
             Leaves(Append(w, q)[i]), IsSave(Append(w, q)[k], Append(w, q)[i].ch)
      PROVE  k < i
  <2>1. i \in DOMAIN w /\ Append(w, q)[i] = w[i] /\ w[i].ch # active
    BY <1>2, <1>7 DEF Leaves
  <2>2. k \in DOMAIN w /\ Append(w, q)[k] = w[k]
    BY <1>2, <1>7, <2>1 DEF IsSave
  <2> QED BY <1>7, <2>1, <2>2 DEF Behind
<1>8. Behind(w) /\ q.ch = active /\ (\A i \in DOMAIN w : w[i].kind # "revert") => Behind(Append(w, q))
  BY <1>7 DEF Behind
<1> QED BY <1>3, <1>4, <1>5, <1>6, <1>8

\* The wire after the request at i was taken, and perhaps followed by one that is no save.
After(i, w) ==
    \/ w = Others(i)
    \/ \E q \in Requests : q.kind # "save" /\ w = Append(Others(i), q)

LEMMA OthersLeft ==
    ASSUME NEW R, wire \in Seq(R), NEW i \in DOMAIN wire
    PROVE  /\ \A c : NoSave(wire, c) => NoSave(Others(i), c)
           /\ \A c, t : Asks(wire, c, t) => Asks(Others(i), c, t)
           /\ Behind(wire) => Behind(Others(i))
<1>1. /\ Len(wire) \in Nat /\ i \in 1 .. Len(wire)
      /\ DOMAIN Others(i) = 1 .. Len(wire) - 1 /\ DOMAIN wire = 1 .. Len(wire)
  BY Shifted
<1>2. ASSUME NEW k \in DOMAIN Others(i)
      PROVE  \/ k \in DOMAIN wire /\ Others(i)[k] = wire[k] /\ k < i
             \/ k + 1 \in DOMAIN wire /\ Others(i)[k] = wire[k + 1] /\ k >= i
  BY <1>1 DEF Others
<1>3. \A c : NoSave(wire, c) => NoSave(Others(i), c)
  BY <1>2 DEF NoSave
<1>4. \A c, t : Asks(wire, c, t) => Asks(Others(i), c, t)
  BY <1>2 DEF Asks
<1>5. ASSUME Behind(wire), NEW j \in DOMAIN Others(i), NEW k \in DOMAIN Others(i),
             Leaves(Others(i)[j]), IsSave(Others(i)[k], Others(i)[j].ch)
      PROVE  k < j
  <2>1. PICK J \in DOMAIN wire : Others(i)[j] = wire[J] /\ ((J = j /\ j < i) \/ (J = j + 1 /\ j >= i))
    BY <1>2
  <2>2. PICK K \in DOMAIN wire : Others(i)[k] = wire[K] /\ ((K = k /\ k < i) \/ (K = k + 1 /\ k >= i))
    BY <1>2
  <2>3. K < J
    BY <1>5, <2>1, <2>2 DEF Behind
  <2> QED BY <1>1, <2>1, <2>2, <2>3
<1>6. Behind(wire) => Behind(Others(i))
  BY <1>5 DEF Behind
<1> QED BY <1>3, <1>4, <1>6

\* The last save of c stays the last, unless it is the one that was taken.
LEMMA LastLeft ==
    ASSUME NEW R, wire \in Seq(R), NEW i \in DOMAIN wire, wire[i].kind # "save" \/ ~Overtakes(i),
           NEW c, NEW t, LastSave(wire, c, t)
    PROVE  \/ LastSave(Others(i), c, t)
           \/ IsSave(wire[i], c) /\ NoSave(Others(i), c) /\ wire[i].text = t
<1>1. /\ Len(wire) \in Nat /\ i \in 1 .. Len(wire)
      /\ DOMAIN Others(i) = 1 .. Len(wire) - 1 /\ DOMAIN wire = 1 .. Len(wire)
  BY Shifted
<1>2. ASSUME NEW k \in DOMAIN Others(i)
      PROVE  \/ k \in DOMAIN wire /\ Others(i)[k] = wire[k] /\ k < i
             \/ k + 1 \in DOMAIN wire /\ Others(i)[k] = wire[k + 1] /\ k >= i
  BY <1>1 DEF Others
<1>3. PICK j \in DOMAIN wire : /\ IsSave(wire[j], c) /\ wire[j].text = t
                               /\ \A l \in DOMAIN wire : l > j => ~IsSave(wire[l], c)
  BY DEF LastSave
<1>4. CASE j < i
  <2>1. j \in DOMAIN Others(i) /\ Others(i)[j] = wire[j]
    BY <1>1, <1>4 DEF Others
  <2>2. ASSUME NEW l \in DOMAIN Others(i), l > j PROVE ~IsSave(Others(i)[l], c)
    <3>1. CASE l \in DOMAIN wire /\ Others(i)[l] = wire[l]
      BY <1>3, <2>2, <3>1
    <3>2. CASE l + 1 \in DOMAIN wire /\ Others(i)[l] = wire[l + 1]
      BY <1>1, <1>3, <2>2, <3>2
    <3> QED BY <1>2, <3>1, <3>2
  <2> QED BY <1>3, <2>1, <2>2 DEF LastSave
<1>5. CASE j > i
  <2>1. j - 1 \in DOMAIN Others(i) /\ Others(i)[j - 1] = wire[j]
    BY <1>1, <1>5 DEF Others
  <2>2. ASSUME NEW l \in DOMAIN Others(i), l > j - 1 PROVE ~IsSave(Others(i)[l], c)
    <3>1. l + 1 \in DOMAIN wire /\ Others(i)[l] = wire[l + 1] /\ l + 1 > j
      BY <1>1, <1>5, <2>2 DEF Others
    <3> QED BY <1>3, <3>1
  <2> QED BY <1>3, <2>1, <2>2 DEF LastSave
<1>6. CASE j = i
  <2>1. ASSUME NEW k \in DOMAIN wire, k # i PROVE ~IsSave(wire[k], c)
    <3>1. CASE k < i
      BY <1>3, <1>6, <2>1, <3>1 DEF Overtakes, IsSave
    <3>2. CASE k > i
      BY <1>3, <1>6, <2>1, <3>2
    <3> QED BY <1>1, <2>1, <3>1, <3>2
  <2>2. ASSUME NEW k \in DOMAIN Others(i) PROVE ~IsSave(Others(i)[k], c)
    BY <1>1, <1>2, <2>1
  <2> QED BY <1>3, <1>6, <2>2 DEF NoSave
<1> QED BY <1>1, <1>3, <1>4, <1>5, <1>6

\* What a request that is taken leaves of the wire.
LEMMA Left ==
    ASSUME TypeInv, NEW i \in DOMAIN wire, NEW w, After(i, w)
    PROVE  /\ \A c : NoSave(wire, c) => NoSave(w, c)
           /\ \A c, t : Asks(wire, c, t) => Asks(w, c, t)
           /\ Behind(wire) => Behind(w)
           /\ wire[i].kind # "save" \/ ~Overtakes(i) =>
                \A c, t : LastSave(wire, c, t) =>
                   \/ LastSave(w, c, t)
                   \/ IsSave(wire[i], c) /\ NoSave(w, c) /\ wire[i].text = t
<1>1. wire \in Seq(Requests)
  <2>1. wire \in Seq(Good)
    BY Parts DEF WireOK
  <2> QED BY <2>1, Inside, Widened DEF Good
<1>2. Others(i) \in Seq(Requests)
  BY <1>1, Shifted
<1>3. CASE w = Others(i)
  BY <1>1, <1>3, OthersLeft, LastLeft
<1>4. ASSUME NEW q \in Requests, q.kind # "save", w = Append(Others(i), q)
      PROVE  /\ \A c, t : LastSave(Others(i), c, t) => LastSave(w, c, t)
             /\ \A c : NoSave(Others(i), c) => NoSave(w, c)
             /\ \A c, t : Asks(Others(i), c, t) => Asks(w, c, t)
             /\ Behind(Others(i)) => Behind(w)
  BY <1>2, <1>4, SavesAdded
<1>5. CASE \E q \in Requests : q.kind # "save" /\ w = Append(Others(i), q)
  BY <1>1, <1>4, <1>5, OthersLeft, LastLeft
<1> QED BY <1>3, <1>5 DEF After

LEMMA OnwardLeft ==
    ASSUME WriterAssumption, TypeInv, NEW i \in DOMAIN wire, Onward(i, wire[i])
    PROVE  After(i, wire')
<1>1. ASSUME NEW kind \in {"list", "tool", "analyze"}
      PROVE  Request(kind, kind, wire[i].ch, NoText, NoNode) \in Requests
             /\ Request(kind, kind, wire[i].ch, NoText, NoNode).kind # "save"
  BY Served, Facts DEF Request, Requests, NoNode
<1> QED BY <1>1 DEF Onward, After

LEMMA NoneSent ==
    ASSUME TypeInv
    PROVE  /\ undo.pc # "sent" => \A i \in DOMAIN wire : wire[i].kind # "revert"
           /\ opening.pc # "sent" => \A i \in DOMAIN wire : wire[i].kind # "open"
<1>1. ASSUME NEW i \in DOMAIN wire
      PROVE  /\ wire[i].kind = "revert" => undo.pc = "sent"
             /\ wire[i].kind = "open" => opening.pc = "sent"
  <2>1. wire[i] \in Good
    BY Parts, Inside DEF WireOK
  <2> QED BY <2>1 DEF Good, Fits
<1> QED BY <1>1

\* Who leaves a chapter and overtakes nobody leaves no save of it behind.
LEMMA LeftBehind ==
    ASSUME Behind(wire), NEW i \in DOMAIN wire, ~Overtakes(i), Leaves(wire[i]), TypeInv
    PROVE  NoSave(wire, wire[i].ch)
<1> SUFFICES ASSUME NEW k \in DOMAIN wire, IsSave(wire[k], wire[i].ch) PROVE FALSE
  BY DEF NoSave
<1>1. k < i
  BY DEF Behind
<1>2. i \in Nat /\ k \in Nat
  BY Parts DEF WireOK
<1>3. wire[i].kind \in {"open", "revert"}
  BY DEF Leaves
<1> QED BY <1>1, <1>2, <1>3 DEF Overtakes, IsSave

\* A generation that overtakes nobody finds no save of its chapter.
LEMMA NoneBeside ==
    ASSUME NEW i \in DOMAIN wire, ~Overtakes(i), wire[i].kind = "gen"
    PROVE  NoSave(wire, wire[i].ch)
BY DEF Overtakes, NoSave, IsSave

\* A save changes the text of no other chapter.
LEMMA HeadKept ==
    ASSUME ServerT, NEW c \in Chapters, NEW t \in Texts, Store(c, t), NEW d \in Chapters, d # c
    PROVE  HeadText(d)' = HeadText(d)
<1>1. head[d] \in DOMAIN nodes /\ head[d] # head[c]
  BY DEF ServerT
<1>2. head'[d] = head[d] /\ nodes'[head[d]] = nodes[head[d]]
  BY <1>1, StoreT
<1> QED BY <1>2 DEF HeadText

\* What is sent when the text area loses the focus.
LEMMA BlurredBehind ==
    ASSUME WriterAssumption, TypeInv, undo.pc # "sent", Behind(wire)
    PROVE  /\ wire \o Blurred \in Seq(Good) /\ Behind(wire \o Blurred)
           /\ review.open => wire \o Blurred = wire
<1>1. wire \o Blurred \in Seq(Good) /\ wire \in Seq(Good)
  BY Blurring, Parts DEF WireOK
<1>2. CASE wire \o Blurred = wire
  BY <1>1, <1>2
<1>3. CASE focus /\ Editing /\ wire \o Blurred = Append(wire, Save("blur", text))
  <2>1. PICK q : q = Save("blur", text)
    OBVIOUS
  <2>2. q \in Good /\ q.kind = "save" /\ q.ch = active
    BY <1>3, <2>1, SaveGood, Parts DEF Editing, PageT, PageOK, Save, Request
  <2>3. Behind(Append(wire, q))
    BY <1>1, <2>2, SaveAdded, NoneSent
  <2> QED BY <1>1, <1>3, <2>1, <2>3 DEF Editing
<1> QED BY <1>2, <1>3, Blurring

\* What the handlers may count on short of a mishap.
Calm == Patient /\ TypeInv /\ HomeInv /\ Quiet /\ Fresh

\* A click of the writer, who waits for nothing.
LEMMA ActFresh ==
    ASSUME Calm, Act, UNCHANGED <<nodes, head, active>>, NEW w, Behind(w), wire' = w,
           task'.pc # "answered", undo'.pc # "answered",
           review'.open /\ review'.to # NoNode =>
               review' = review /\ (NoSave(wire, active) => NoSave(w, active))
    PROVE  Fresh'
<1>1. undo.pc = "idle"
  BY NoneWaits DEF Calm
<1>2. Behind(wire)'
  BY DEF Behind, Leaves
<1>3. Generated'
  BY <1>1 DEF Calm, Fresh, Generated, HeadText, NoSave
<1> QED BY <1>2, <1>3 DEF Fresh

LEMMA TypeFresh ==
    ASSUME WriterAssumption, Calm, Type
    PROVE  Fresh'
<1>1. /\ UNCHANGED <<nodes, head, active, wire, review, task, opening, undo>> /\ Act
      /\ task.pc = "idle" /\ undo.pc = "idle" /\ Behind(wire)
  BY NoneWaits DEF Type, server, waits, Calm, Fresh
<1> QED BY <1>1, ActFresh

\* A click that asks the server for something besides a save.
LEMMA AskFresh ==
    ASSUME WriterAssumption, Calm, Act, UNCHANGED <<nodes, head, active, review>>,
           NEW q \in Requests, q.kind # "save", wire' = (wire \o Blurred) \o <<q>>,
           task'.pc # "answered", undo'.pc # "answered"
    PROVE  Fresh'
<1>1. undo.pc = "idle" /\ TypeInv /\ Behind(wire)
  BY NoneWaits DEF Calm, Fresh
<1>2. wire \o Blurred \in Seq(Requests) /\ Behind(wire \o Blurred) /\ (review.open => wire \o Blurred = wire)
  <2>1. wire \o Blurred \in Seq(Good) /\ Behind(wire \o Blurred) /\ (review.open => wire \o Blurred = wire)
    BY <1>1, BlurredBehind
  <2> QED BY <2>1, Inside, Widened DEF Good
<1>3. PICK v, w : v = wire \o Blurred /\ w = Append(v, q)
  OBVIOUS
<1>4. wire' = w
  BY <1>2, <1>3, Appended
<1>5. Behind(w) /\ (NoSave(v, active) => NoSave(w, active))
  BY <1>2, <1>3, SavesAdded
<1>6. review.open => (NoSave(wire, active) => NoSave(w, active))
  BY <1>2, <1>3, <1>5
<1> QED BY <1>4, <1>5, <1>6, ActFresh

LEMMA OpenFresh ==
    ASSUME WriterAssumption, Calm, Open
    PROVE  Fresh'
<1>1. /\ UNCHANGED <<nodes, head, active, review, task, undo>> /\ Act
      /\ task.pc = "idle" /\ undo.pc = "idle"
  BY NoneWaits DEF Open, server, Calm
<1>2. PICK c \in Chapters : wire' = wire \o Blurred \o <<Request("open", "open", c, NoText, NoNode)>>
  BY DEF Open
<1>3. PICK q : q = Request("open", "open", c, NoText, NoNode)
  OBVIOUS
<1>4. q \in Requests /\ q.kind # "save"
  BY <1>3, Facts DEF Request, Requests, NoNode
<1> QED BY <1>1, <1>2, <1>3, <1>4, AskFresh

LEMMA RevertToFresh ==
    ASSUME WriterAssumption, Calm, RevertTo
    PROVE  Fresh'
<1>1. /\ UNCHANGED <<nodes, head, active, review, task>> /\ Act /\ undo'.pc = "sent"
      /\ task.pc = "idle" /\ active \in Chapters /\ ServerT
  BY NoneWaits, Parts DEF RevertTo, server, Calm, NoUndo, Editing, PageT
<1>2. PICK v \in DOMAIN nodes : wire' = wire \o Blurred \o <<Request("revert", "undo", active, NoText, v)>>
  BY DEF RevertTo
<1>3. PICK q : q = Request("revert", "undo", active, NoText, v)
  OBVIOUS
<1>4. q \in Requests /\ q.kind # "save"
  BY <1>1, <1>3, NodeType, Facts DEF Request, Requests
<1> QED BY <1>1, <1>2, <1>3, <1>4, AskFresh

LEMMA StartTaskFresh ==
    ASSUME WriterAssumption, Calm, StartTask
    PROVE  Fresh'
<1>1. /\ UNCHANGED <<nodes, head, active, review, undo>> /\ Act /\ TypeInv /\ Behind(wire)
      /\ undo.pc = "idle" /\ ~review.open /\ active \in Chapters /\ text \in Texts
      /\ wire' = wire \o Blurred \o <<Save("task", text)>> /\ task'.pc = "saving"
  BY NoneWaits, Parts DEF StartTask, server, Calm, Editing, NoTask, PageT, PageOK, Fresh
<1>2. wire \o Blurred \in Seq(Requests) /\ Behind(wire \o Blurred)
  <2>1. wire \o Blurred \in Seq(Good) /\ Behind(wire \o Blurred)
    BY <1>1, BlurredBehind
  <2> QED BY <2>1, Inside, Widened DEF Good
<1>3. PICK v, q : v = wire \o Blurred /\ q = Save("task", text)
  OBVIOUS
<1>4. q \in Requests /\ q.kind = "save" /\ q.ch = active
  BY <1>1, <1>3, Facts DEF Save, Request, Requests, NoNode
<1>5. wire' = Append(v, q)
  BY <1>1, <1>2, <1>3, <1>4, Appended
<1>6. \A i \in DOMAIN v : v[i].kind # "revert"
  <2>1. \A i \in DOMAIN wire : wire[i].kind # "revert"
    BY <1>1, NoneSent
  <2>2. CASE v = wire
    BY <2>1, <2>2
  <2>3. CASE v = Append(wire, Save("blur", text))
    <3>1. Save("blur", text) \in Good /\ Save("blur", text).kind # "revert" /\ wire \in Seq(Good)
      BY <1>1, SaveGood, Parts DEF Save, Request, WireOK
    <3> QED BY <2>1, <2>3, <3>1, Appended
  <2> QED BY <1>1, <1>3, <2>2, <2>3, Blurring
<1>7. PICK w : w = Append(v, q)
  OBVIOUS
<1>8. Behind(w)
  BY <1>2, <1>3, <1>4, <1>6, <1>7, SaveAdded
<1> QED BY <1>1, <1>5, <1>7, <1>8, ActFresh

LEMMA ReviewEditFresh ==
    ASSUME WriterAssumption, Calm, ReviewEdit
    PROVE  Fresh'
<1>1. /\ UNCHANGED <<nodes, head, active, task, undo>> /\ Act /\ TypeInv /\ Behind(wire)
      /\ task.pc = "idle" /\ undo.pc = "idle" /\ wire' = wire \o Blurred /\ review'.to = NoNode
  BY NoneWaits DEF ReviewEdit, server, waits, Calm, Fresh
<1>2. Behind(wire \o Blurred)
  BY <1>1, BlurredBehind
<1> QED BY <1>1, <1>2, ActFresh

LEMMA FinishReviewFresh ==
    ASSUME WriterAssumption, Calm, FinishReview
    PROVE  Fresh'
<1>1. /\ UNCHANGED <<nodes, head, active, task, undo>> /\ Act /\ TypeInv /\ Behind(wire)
      /\ task.pc = "idle" /\ undo.pc = "idle" /\ ~review'.open
      /\ active \in Chapters /\ review.base \in Texts /\ review.out \in Texts /\ wire \in Seq(Good)
  BY NoneWaits, Parts DEF FinishReview, server, waits, Calm, Fresh, PageT, PageOK, WireOK, NoReview
<1>2. PICK m \in {review.base, review.out} : wire' = Append(wire, Save("review", m))
  BY DEF FinishReview
<1>3. PICK q, w : q = Save("review", m) /\ w = Append(wire, q)
  OBVIOUS
<1>4. q \in Good /\ q.kind = "save" /\ q.ch = active
  BY <1>1, <1>2, <1>3, SaveGood DEF Save, Request
<1>5. Behind(w)
  BY <1>1, <1>3, <1>4, SaveAdded, NoneSent
<1> QED BY <1>1, <1>2, <1>3, <1>5, ActFresh

LEMMA CancelReviewFresh ==
    ASSUME WriterAssumption, Calm, CancelReview
    PROVE  Fresh'
<1>1. /\ UNCHANGED <<nodes, head, active, task>> /\ Act /\ TypeInv /\ Behind(wire)
      /\ task.pc = "idle" /\ undo.pc = "idle"
      /\ active \in Chapters /\ NodeOf(review.to, active) /\ ServerT /\ wire \in Seq(Good)
  BY NoneWaits, Parts DEF CancelReview, server, Calm, Fresh, PageT, PageOK, WireOK
<1>2. CASE review' = NoReview /\ UNCHANGED <<wire, undo>>
  <2>1. ~review'.open
    BY <1>2 DEF NoReview
  <2> QED BY <1>1, <1>2, <2>1, ActFresh
<1>3. CASE /\ review.to # NoNode /\ UNCHANGED review
           /\ wire' = Append(wire, Request("revert", "undo", active, NoText, review.to))
           /\ undo' = [NoUndo EXCEPT !.pc = "sent", !.cancel = TRUE]
  <2>1. PICK q, w : q = Request("revert", "undo", active, NoText, review.to) /\ w = Append(wire, q)
    OBVIOUS
  <2>2. review.to \in Nat /\ undo'.pc = "sent"
    BY <1>1, <1>3, NodeType DEF NodeOf, NoUndo
  <2>3. wire \in Seq(Requests)
    BY <1>1, Inside, Widened DEF Good
  <2>4. q \in Requests /\ q.kind # "save"
    BY <1>1, <2>1, <2>2, Facts DEF Request, Requests
  <2>5. Behind(w) /\ (NoSave(wire, active) => NoSave(w, active))
    BY <1>1, <2>1, <2>3, <2>4, SavesAdded
  <2> QED BY <1>1, <1>3, <2>1, <2>2, <2>5, ActFresh
<1> QED BY <1>2, <1>3 DEF CancelReview

LEMMA BlurFresh ==
    ASSUME WriterAssumption, Calm, Blur
    PROVE  Fresh'
<1>1. /\ UNCHANGED <<nodes, head, active, review, task, opening, undo>> /\ focus
      /\ wire' = wire \o Blurred /\ TypeInv /\ Behind(wire)
  BY DEF Blur, server, waits, Calm, Fresh
<1>2. task.pc = "idle" /\ undo.pc = "idle" /\ ~review.open
  BY <1>1, Parts DEF Calm, Quiet, Waiting, PageT
<1>3. PICK w : w = wire \o Blurred
  OBVIOUS
<1>4. Behind(w)
  BY <1>1, <1>2, <1>3, BlurredBehind
<1>5. Behind(wire)'
  BY <1>1, <1>3, <1>4 DEF Behind, Leaves
<1>6. Generated'
  BY <1>1, <1>2 DEF Generated
<1> QED BY <1>5, <1>6 DEF Fresh

\* A timer that goes off while no answer is going to replace the text.
LEMMA TimersFresh ==
    ASSUME WriterAssumption, Calm, ~mishap', TimerFires \/ ScanFires
    PROVE  Fresh'
<1>1. /\ UNCHANGED <<nodes, head, active, text, review, task, undo>> /\ TypeInv /\ Behind(wire)
      /\ active \in Chapters /\ text \in Texts /\ wire \in Seq(Good)
  BY Parts DEF TimerFires, ScanFires, server, page, waits, Calm, Fresh, PageT, PageOK, WireOK
<1>2. CASE wire' = wire
  <2>1. Behind(wire)'
    BY <1>1, <1>2 DEF Behind, Leaves
  <2>2. Generated'
    BY <1>1, <1>2 DEF Calm, Fresh, Generated, HeadText, NoSave
  <2> QED BY <2>1, <2>2 DEF Fresh
<1>3. ASSUME NEW by \in {"timer", "scan"}, wire' = Append(wire, Save(by, text)),
             ~Replacing, ~(review.open /\ review.to # NoNode)
      PROVE  Fresh'
  <2>1. PICK q, w : q = Save(by, text) /\ w = Append(wire, q)
    OBVIOUS
  <2>2. q \in Good /\ q.kind = "save" /\ q.ch = active
    BY <1>1, <2>1, SaveGood DEF Save, Request
  <2>3. undo.pc = "idle" /\ ~(task.pc = "answered" /\ task.op # "tool")
    BY <1>3 DEF Replacing
  <2>4. Behind(w)
    BY <1>1, <2>1, <2>2, <2>3, SaveAdded, NoneSent
  <2>5. Behind(wire)'
    BY <1>1, <1>3, <2>1, <2>4 DEF Behind, Leaves
  <2>6. Generated'
    BY <1>1, <1>3, <2>3 DEF Generated
  <2> QED BY <2>5, <2>6 DEF Fresh
<1>4. \/ wire' = wire
      \/ \E by \in {"timer", "scan"} :
            /\ wire' = Append(wire, Save(by, text))
            /\ ~Replacing /\ ~(review.open /\ review.to # NoNode)
  <2>1. timer => ~review.open
    BY <1>1, Parts DEF PageT
  <2>2. CASE TimerFires
    BY <2>1, <2>2 DEF TimerFires
  <2>3. CASE ScanFires
    BY <2>3 DEF ScanFires
  <2> QED BY <2>2, <2>3
<1> QED BY <1>2, <1>3, <1>4

LEMMA OpenAnsweredFresh ==
    ASSUME WriterAssumption, Calm, OpenAnswered
    PROVE  Fresh'
<1>1. /\ UNCHANGED <<nodes, head, wire, task, undo>> /\ opening.pc = "answered"
      /\ \/ opening.ch # active /\ ~review'.open
         \/ opening.ch = active /\ review' = review /\ active' = active
  BY DEF OpenAnswered, Show, server, NoReview
<1>2. task.pc = "idle" /\ undo.pc = "idle" /\ TypeInv
  BY <1>1 DEF Calm, HomeInv, OneWait
<1>3. \A i \in DOMAIN wire : wire[i].kind \notin {"open", "revert"}
  BY <1>1, <1>2, NoneSent
<1>4. Behind(wire)'
  BY <1>1, <1>3 DEF Behind, Leaves
<1>5. Generated'
  BY <1>1, <1>2 DEF Calm, Fresh, Generated, HeadText, NoSave
<1> QED BY <1>4, <1>5 DEF Fresh

LEMMA TaskAnsweredFresh ==
    ASSUME WriterAssumption, Calm, TaskAnswered
    PROVE  Fresh'
<1>1. /\ UNCHANGED <<nodes, head, wire, undo>> /\ task.pc = "answered" /\ task'.pc = "idle"
      /\ active' = task.ch
  BY DEF TaskAnswered, server, NoTask
<1>2. /\ undo.pc = "idle" /\ task.ch = active /\ ~review.open
      /\ task.op # "tool" => HeadText(active) = task.out /\ NoSave(wire, active)
  BY <1>1 DEF Calm, HomeInv, OneWait, Fresh, Generated
<1>3. ~review'.open \/ (task.op # "tool" /\ review'.out = task.out)
  <2>1. CASE UNCHANGED review
    BY <1>2, <2>1
  <2>2. CASE /\ task.op # "tool"
             /\ review' = [open |-> TRUE, base |-> task.base, out |-> task.out, to |-> task.to]
    BY <2>2
  <2> QED BY <1>2, <2>1, <2>2 DEF TaskAnswered
<1>4. Behind(wire)'
  BY <1>1, <1>2 DEF Calm, Fresh, Behind, Leaves
<1>5. Generated'
  BY <1>1, <1>2, <1>3 DEF Generated, HeadText, NoSave
<1> QED BY <1>4, <1>5 DEF Fresh

LEMMA UndoAnsweredFresh ==
    ASSUME WriterAssumption, Calm, UndoAnswered
    PROVE  Fresh'
<1>1. /\ UNCHANGED <<nodes, head, wire, active, task>> /\ undo.pc = "answered" /\ undo'.pc = "idle"
      /\ review' = IF undo.cancel THEN NoReview ELSE review
  BY DEF UndoAnswered, server, NoUndo
<1>2. task.pc = "idle" /\ ~review'.open
  BY <1>1 DEF Calm, HomeInv, OneWait, Quiet, NoReview
<1>3. Behind(wire)'
  BY <1>1 DEF Calm, Fresh, Behind, Leaves
<1>4. Generated'
  BY <1>1, <1>2 DEF Generated
<1> QED BY <1>3, <1>4 DEF Fresh

\* The server takes a request and changes nothing, or a request fails.
LEMMA OtherFresh ==
    ASSUME Calm, UNCHANGED <<page, nodes, head>>, NEW i \in DOMAIN wire, NEW w, After(i, w), wire' = w,
           task' = task \/ task'.pc # "answered" \/ task'.op = "tool",
           undo' = undo \/ (undo.pc # "answered" /\ undo'.pc # "answered")
    PROVE  Fresh'
<1>1. (\A c : NoSave(wire, c) => NoSave(w, c)) /\ Behind(w) /\ UNCHANGED <<active, review>>
  BY Left DEF Calm, Fresh, page
<1>2. Behind(wire)'
  BY <1>1 DEF Behind, Leaves
<1>3. Generated'
  <2>1. undo'.pc = "answered" => NoSave(w, active)
    BY <1>1 DEF Calm, Fresh, Generated
  <2>2. task'.pc = "answered" /\ task'.op # "tool" => HeadText(task'.ch) = task'.out /\ NoSave(w, task'.ch)
    BY <1>1 DEF Calm, Fresh, Generated
  <2>3. review.open /\ review.to # NoNode /\ undo'.pc # "answered" =>
            HeadText(active) = review.out /\ NoSave(w, active)
    BY <1>1 DEF Calm, Fresh, Generated
  <2> QED BY <1>1, <2>1, <2>2, <2>3 DEF Generated, HeadText, NoSave
<1> QED BY <1>2, <1>3 DEF Fresh

LEMMA ServeSaveFresh ==
    ASSUME WriterAssumption, Calm, UNCHANGED page, NEW i \in DOMAIN wire, ServeSave(i, wire[i])
    PROVE  Fresh'
<1>1. /\ ServerT /\ WaitsOK /\ TypeInv /\ UNCHANGED <<undo, opening, active, review>>
      /\ wire[i].kind = "save" /\ Onward(i, wire[i])
      /\ wire[i].ch \in Chapters /\ wire[i].text \in Texts /\ Store(wire[i].ch, wire[i].text)
      /\ active \in Chapters \cup {NoChapter} /\ (review.open => active # NoChapter)
  BY Parts, Served DEF Calm, ServeSave, page, PageT
<1>2. PICK c, t, w : c = wire[i].ch /\ t = wire[i].text /\ w = wire'
  OBVIOUS
<1>3. c \in Chapters /\ t \in Texts /\ Store(c, t) /\ IsSave(wire[i], c)
  BY <1>1, <1>2 DEF IsSave
<1>4. \A d \in Chapters : NoSave(wire, d) => HeadText(d)' = HeadText(d) /\ NoSave(w, d)
  <2>1. \A d : NoSave(wire, d) => NoSave(w, d) /\ d # c
    <3>1. After(i, w)
      BY <1>1, <1>2, OnwardLeft
    <3> QED BY <1>1, <1>3, <3>1, Left DEF NoSave
  <2> QED BY <1>1, <1>3, <2>1, HeadKept
<1>5. Behind(wire)'
  <2>1. After(i, w)
    BY <1>1, <1>2, OnwardLeft
  <2>2. Behind(w)
    BY <1>1, <2>1, Left DEF Calm, Fresh
  <2> QED BY <1>1, <1>2, <2>2 DEF Behind, Leaves
<1>6. task' = task \/ (task.pc = "saving" /\ task'.pc \in {"listing", "sent"})
  <2>1. Keeps
    BY <1>1, <1>3, StoreT
  <2> QED BY <1>1, <2>1, OnwardType
<1>7. undo.pc = "answered" => NoSave(w, active)
  <2>1. undo.pc = "answered" => active \in Chapters
    BY <1>1 DEF WaitsOK
  <2> QED BY <1>4, <2>1 DEF Calm, Fresh, Generated
<1>8. task'.pc = "answered" /\ task'.op # "tool" => HeadText(task.ch)' = task'.out /\ NoSave(w, task'.ch)
  <2> SUFFICES ASSUME task'.pc = "answered", task'.op # "tool"
               PROVE  HeadText(task.ch)' = task'.out /\ NoSave(w, task'.ch)
    OBVIOUS
  <2>1. task' = task /\ task.ch \in Chapters
    BY <1>1, <1>6 DEF WaitsOK
  <2>2. HeadText(task.ch) = task.out /\ NoSave(wire, task.ch)
    BY <2>1 DEF Calm, Fresh, Generated
  <2>3. PICK d : d = task.ch
    OBVIOUS
  <2>4. HeadText(d)' = HeadText(d) /\ NoSave(w, d)
    BY <1>4, <2>1, <2>2, <2>3
  <2> QED BY <2>1, <2>2, <2>3, <2>4 DEF HeadText
<1>9. review.open /\ review.to # NoNode /\ undo.pc # "answered" =>
          HeadText(active)' = review.out /\ NoSave(w, active)
  <2> SUFFICES ASSUME review.open, review.to # NoNode, undo.pc # "answered"
               PROVE  HeadText(active)' = review.out /\ NoSave(w, active)
    OBVIOUS
  <2>1. HeadText(active) = review.out /\ NoSave(wire, active) /\ active \in Chapters
    BY <1>1 DEF Calm, Fresh, Generated
  <2>2. PICK d : d = active
    OBVIOUS
  <2>3. HeadText(d)' = HeadText(d) /\ NoSave(w, d)
    BY <1>4, <2>1, <2>2
  <2> QED BY <1>1, <2>1, <2>2, <2>3 DEF HeadText
<1>10. Generated'
  BY <1>1, <1>2, <1>7, <1>8, <1>9 DEF Generated, NoSave
<1> QED BY <1>5, <1>10 DEF Fresh

LEMMA ServeAnalyzeFresh ==
    ASSUME WriterAssumption, Calm, UNCHANGED page, NEW i \in DOMAIN wire, ServeAnalyze(i, wire[i])
    PROVE  Fresh'
<1>1. UNCHANGED <<nodes, head, task, undo>> /\ After(i, wire')
  BY DEF ServeAnalyze, server, After
<1>2. PICK w : w = wire'
  OBVIOUS
<1> QED BY <1>1, <1>2, OtherFresh

LEMMA ServeListFresh ==
    ASSUME WriterAssumption, Calm, UNCHANGED page, NEW i \in DOMAIN wire, ServeList(i, wire[i])
    PROVE  Fresh'
<1>1. /\ UNCHANGED <<nodes, head, undo>> /\ WaitsOK
      /\ task' = [task EXCEPT !.pc = "sent", !.to = head[wire[i].ch]]
      /\ wire' = Append(Others(i), Request("gen", "gen", wire[i].ch, NoText, NoNode))
  BY Parts DEF ServeList, server, Calm
<1>2. Request("gen", "gen", wire[i].ch, NoText, NoNode) \in Requests
      /\ Request("gen", "gen", wire[i].ch, NoText, NoNode).kind # "save"
  BY Served, Facts DEF Calm, Request, Requests, NoNode
<1>3. task'.pc = "sent"
  BY <1>1 DEF WaitsOK
<1>4. PICK w : w = wire'
  OBVIOUS
<1>5. After(i, w)
  BY <1>1, <1>2, <1>4 DEF After
<1> QED BY <1>1, <1>3, <1>4, <1>5, OtherFresh

LEMMA ServeGenFresh ==
    ASSUME WriterAssumption, Calm, UNCHANGED page, NEW i \in DOMAIN wire, ~Overtakes(i),
           ServeGen(i, wire[i])
    PROVE  Fresh'
<1>1. /\ ServerT /\ WaitsOK /\ TypeInv /\ UNCHANGED <<opening, undo, review, active>> /\ wire[i].kind = "gen"
      /\ wire' = Others(i) /\ Fits(wire[i]) /\ wire[i].ch \in Chapters
  BY Parts, Served DEF ServeGen, page, Calm
<1>2. task.pc = "sent" /\ wire[i].ch = task.ch /\ task.op # "tool"
  BY <1>1 DEF Fits, Role
<1>3. PICK word \in Words : /\ AddNode(wire[i].ch, task.op, <<wire[i].ch, word>>)
                            /\ task' = [task EXCEPT !.pc = "answered", !.out = <<wire[i].ch, word>>]
  BY DEF ServeGen
<1>4. PICK c, t, kind, w :
         c = wire[i].ch /\ t = <<wire[i].ch, word>> /\ kind = task.op /\ w = Others(i)
  OBVIOUS
<1>5. c \in Chapters /\ t \in Texts /\ kind \in {"draft", "manual", "polish", "expand"} /\ AddNode(c, kind, t)
  BY <1>1, <1>2, <1>3, <1>4, Facts DEF WaitsOK, WriterAssumption
<1>6. nodes'[head'[c]].text = t
  <2>1. head'[c] = Len(nodes) + 1 /\ nodes'[Len(nodes) + 1] = [ch |-> c, kind |-> kind, text |-> t]
    BY <1>1, <1>5, AddNodeT
  <2> QED BY <2>1
<1>7. task'.pc = "answered" /\ task'.ch = c /\ task'.out = t
  BY <1>1, <1>2, <1>3, <1>4 DEF WaitsOK
<1>8. NoSave(w, c) /\ Behind(w)
  <2>1. NoSave(wire, c)
    BY <1>1, <1>4, NoneBeside
  <2>2. After(i, w)
    BY <1>4 DEF After
  <2> QED BY <1>1, <2>1, <2>2, Left DEF Calm, Fresh
<1>9. ~review.open /\ undo.pc = "idle"
  BY <1>2 DEF Calm, HomeInv, OneWait
<1>10. Generated'
  BY <1>1, <1>4, <1>6, <1>7, <1>8, <1>9 DEF Generated, HeadText, NoSave
<1>11. Behind(wire)'
  BY <1>1, <1>4, <1>8 DEF Behind, Leaves
<1> QED BY <1>10, <1>11 DEF Fresh

LEMMA ServeToolFresh ==
    ASSUME WriterAssumption, Calm, UNCHANGED page, NEW i \in DOMAIN wire, ServeTool(i, wire[i])
    PROVE  Fresh'
<1>1. /\ WaitsOK /\ UNCHANGED <<nodes, head, undo>> /\ wire[i].kind = "tool"
      /\ wire' = Others(i) /\ Fits(wire[i]) /\ task' = [task EXCEPT !.pc = "answered"]
  BY Parts, Served DEF ServeTool, server, Calm
<1>2. task'.op = "tool"
  BY <1>1 DEF Fits, WaitsOK
<1>3. PICK w : w = wire'
  OBVIOUS
<1>4. After(i, w)
  BY <1>1, <1>3 DEF After
<1> QED BY <1>1, <1>2, <1>3, <1>4, OtherFresh

LEMMA ServeOpenFresh ==
    ASSUME WriterAssumption, Calm, UNCHANGED page, NEW i \in DOMAIN wire, ServeOpen(i, wire[i])
    PROVE  Fresh'
<1>1. UNCHANGED <<nodes, head, task, undo>> /\ After(i, wire')
  BY DEF ServeOpen, server, After
<1>2. PICK w : w = wire'
  OBVIOUS
<1> QED BY <1>1, <1>2, OtherFresh

LEMMA ServeRevertFresh ==
    ASSUME WriterAssumption, Calm, UNCHANGED page, NEW i \in DOMAIN wire, ~Overtakes(i),
           ServeRevert(i, wire[i])
    PROVE  Fresh'
<1>1. /\ WaitsOK /\ TypeInv /\ UNCHANGED <<task, opening, review, active>> /\ wire[i].kind = "revert"
      /\ wire' = Others(i) /\ Fits(wire[i]) /\ wire[i] \in Homely
      /\ undo' = [undo EXCEPT !.pc = "answered", !.text = nodes[wire[i].node].text]
  BY Parts, Served, Inside DEF ServeRevert, page, Calm, HomeInv
<1>2. undo.pc = "sent" /\ undo'.pc = "answered" /\ wire[i].ch = active
  BY <1>1 DEF Fits, WaitsOK, Homely
<1>3. task.pc = "idle"
  BY <1>2 DEF Calm, HomeInv, OneWait
<1>4. PICK w : w = wire'
  OBVIOUS
<1>5. After(i, w) /\ Leaves(wire[i])
  BY <1>1, <1>4 DEF After, Leaves
<1>6. NoSave(w, active) /\ Behind(w)
  BY <1>1, <1>2, <1>5, LeftBehind, Left DEF Calm, Fresh
<1>7. Generated'
  BY <1>1, <1>2, <1>3, <1>4, <1>6 DEF Generated, NoSave
<1>8. Behind(wire)'
  BY <1>1, <1>4, <1>6 DEF Behind, Leaves
<1> QED BY <1>7, <1>8 DEF Fresh

\* No request overtakes a save, or there was a mishap.
LEMMA ServeFresh ==
    ASSUME WriterAssumption, Calm, ~mishap', Serve
    PROVE  Fresh'
BY ServeSaveFresh, ServeAnalyzeFresh, ServeListFresh, ServeGenFresh, ServeToolFresh, ServeOpenFresh,
   ServeRevertFresh DEF Serve

\* What fails is no save, or there was a mishap.
LEMMA FailFresh ==
    ASSUME WriterAssumption, Calm, ~mishap', Fail
    PROVE  Fresh'
<1>1. UNCHANGED <<page, nodes, head>>
  BY DEF Fail, server
<1>2. PICK i \in DOMAIN wire :
         /\ wire[i].kind # "save" /\ wire' = Others(i)
         /\ task' = IF wire[i].kind \in {"list", "gen", "tool"} THEN NoTask ELSE task
         /\ undo' = IF wire[i].kind = "revert" THEN NoUndo ELSE undo
  BY DEF Fail
<1>3. wire[i].kind = "revert" => undo.pc = "sent"
  BY Served DEF Calm, Fits
<1>4. (task' = task \/ task'.pc # "answered") /\ (undo' = undo \/ (undo.pc # "answered" /\ undo'.pc # "answered"))
  BY <1>2, <1>3 DEF NoTask, NoUndo
<1>5. PICK w : w = wire'
  OBVIOUS
<1>6. After(i, w)
  BY <1>2, <1>5 DEF After
<1> QED BY <1>1, <1>4, <1>5, <1>6, OtherFresh

\* A mishap is never forgotten, and a lost answer is one.
LEMMA NoMishap ==
    ASSUME [Next]_vars, ~mishap'
    PROVE  ~mishap /\ ~AnswerLost
<1>1. ~AnswerLost
  BY DEF AnswerLost
<1>2. CASE Type \/ Open \/ StartTask \/ ReviewEdit \/ FinishReview \/ CancelReview \/ RevertTo
  <2>1. Act
    BY <1>2 DEF Type, Open, StartTask, ReviewEdit, FinishReview, CancelReview, RevertTo
  <2> QED BY <1>1, <2>1 DEF Act
<1>3. CASE Blur \/ OpenAnswered \/ TaskAnswered \/ UndoAnswered
  <2>1. UNCHANGED mishap
    BY <1>3 DEF Blur, OpenAnswered, TaskAnswered, UndoAnswered
  <2> QED BY <1>1, <2>1
<1>4. CASE TimerFires \/ ScanFires \/ Serve \/ Fail \/ UNCHANGED vars
  <2>1. ~mishap
    <3>1. CASE TimerFires
      BY <3>1 DEF TimerFires
    <3>2. CASE ScanFires
      BY <3>2 DEF ScanFires
    <3>3. CASE Serve
      BY <3>3 DEF Serve
    <3>4. CASE Fail
      BY <3>4 DEF Fail
    <3>5. CASE UNCHANGED vars
      BY <3>5 DEF vars
    <3> QED BY <1>4, <3>1, <3>2, <3>3, <3>4, <3>5
  <2> QED BY <1>1, <2>1
<1> QED BY <1>1, <1>2, <1>3, <1>4 DEF Next, Writer, Timers, Answers

\* Whoever waits has waited before the server came to his request.
LEMMA ServedQuiet ==
    ASSUME Quiet, UNCHANGED page, task'.pc # "idle" => task.pc # "idle",
           opening'.pc # "idle" => opening.pc # "idle",
           undo'.pc # "idle" => undo.pc # "idle" /\ undo'.cancel = undo.cancel
    PROVE  Quiet'
BY DEF Quiet, Waiting, page

LEMMA TakenQuiet ==
    ASSUME WriterAssumption, TypeInv, Quiet, Serve \/ Fail \/ AnswerLost
    PROVE  Quiet'
<1>1. UNCHANGED page /\ WaitsOK
  BY Parts DEF Serve, Fail, AnswerLost
<1> DEFINE Mover(i) ==
             /\ task' = task \/ task'.pc = "idle" \/ wire[i].by \in {"task", "list", "gen", "tool"}
             /\ opening' = opening \/ opening'.pc = "idle" \/ wire[i].by = "open"
             /\ undo' = undo \/ undo'.pc = "idle" \/ (wire[i].by = "undo" /\ undo'.cancel = undo.cancel)
<1>2. PICK i \in DOMAIN wire : Mover(i)
  <2>1. ASSUME NEW i \in DOMAIN wire, wire[i].kind \in {"save", "list", "gen", "tool", "analyze"},
               UNCHANGED <<opening, undo>>, task' = task \/ wire[i].by = "task" \/ wire[i].kind \in {"list", "gen", "tool"}
        PROVE  Mover(i)
    <3>1. wire[i].kind \in {"list", "gen", "tool"} => wire[i].by = wire[i].kind
      BY <2>1, Served DEF Fits
    <3> QED BY <2>1, <3>1
  <2>2. ASSUME Serve PROVE \E i \in DOMAIN wire : Mover(i)
    <3>1. PICK i \in DOMAIN wire :
             \/ ServeSave(i, wire[i]) \/ ServeAnalyze(i, wire[i]) \/ ServeList(i, wire[i]) \/ ServeGen(i, wire[i])
             \/ ServeTool(i, wire[i]) \/ ServeOpen(i, wire[i]) \/ ServeRevert(i, wire[i])
      BY <2>2 DEF Serve
    <3>2. Fits(wire[i])
      BY Served
    <3>3. CASE ServeSave(i, wire[i])
      BY <2>1, <3>3 DEF ServeSave, Onward
    <3>4. CASE ServeAnalyze(i, wire[i]) \/ ServeList(i, wire[i]) \/ ServeGen(i, wire[i]) \/ ServeTool(i, wire[i])
      BY <2>1, <3>4 DEF ServeAnalyze, ServeList, ServeGen, ServeTool
    <3>5. CASE ServeOpen(i, wire[i])
      <4>1. UNCHANGED <<task, undo>> /\ wire[i].by = "open"
        BY <3>2, <3>5 DEF ServeOpen, Fits
      <4> QED BY <4>1
    <3>6. CASE ServeRevert(i, wire[i])
      <4>1. undo'.cancel = undo.cancel /\ UNCHANGED <<task, opening>>
        BY <1>1, <3>6 DEF ServeRevert, WaitsOK
      <4>2. wire[i].by = "undo"
        BY <3>2, <3>6 DEF ServeRevert, Fits
      <4> QED BY <4>1, <4>2
    <3> QED BY <3>1, <3>3, <3>4, <3>5, <3>6
  <2>3. ASSUME Fail PROVE \E i \in DOMAIN wire : Mover(i)
    <3>1. PICK i \in DOMAIN wire :
             /\ \/ Onward(i, wire[i])
                \/ task' = IF wire[i].kind \in {"list", "gen", "tool"} THEN NoTask ELSE task
             /\ opening' = IF wire[i].kind = "open" THEN NoOpening ELSE opening
             /\ undo' = IF wire[i].kind = "revert" THEN NoUndo ELSE undo
      BY <2>3 DEF Fail
    <3>2. opening' = opening \/ opening'.pc = "idle"
      BY <3>1 DEF NoOpening
    <3>3. undo' = undo \/ undo'.pc = "idle"
      BY <3>1 DEF NoUndo
    <3>4. task' = task \/ task'.pc = "idle" \/ wire[i].by = "task"
      BY <3>1 DEF NoTask, Onward
    <3>5. Mover(i)
      BY <3>2, <3>3, <3>4
    <3> QED BY <3>5
  <2>4. ASSUME AnswerLost PROVE \E i \in DOMAIN wire : Mover(i)
    <3>1. PICK i \in DOMAIN wire : /\ task' = task \/ task' = NoTask
                                   /\ undo' = undo \/ undo' = NoUndo
      BY <2>4 DEF AnswerLost
    <3>2. UNCHANGED opening
      BY <2>4 DEF AnswerLost
    <3>3. Mover(i)
      BY <3>1, <3>2 DEF NoTask, NoUndo
    <3> QED BY <3>3
  <2> HIDE DEF Mover
  <2> QED BY <2>2, <2>3, <2>4
<1>3. Fits(wire[i])
  BY Served
<1> QED BY <1>1, <1>2, <1>3, ServedQuiet DEF Fits

LEMMA StepQuiet ==
    ASSUME Patient, TypeInv, HomeInv, Quiet, [Next]_vars
    PROVE  Quiet'
<1>1. review.open => ~focus
  BY Parts DEF PageT
<1>2. CASE Type
  BY <1>2, NoneWaits DEF Type, waits, Quiet, Waiting
<1>3. CASE Blur
  BY <1>3 DEF Blur, waits, Quiet
<1>4. CASE Open \/ StartTask \/ ReviewEdit
  <2>1. focus' = FALSE /\ undo'.pc = "idle"
    BY <1>4, NoneWaits DEF Open, StartTask, ReviewEdit, waits
  <2> QED BY <2>1 DEF Quiet
<1>5. CASE RevertTo
  BY <1>5 DEF RevertTo, Quiet, Editing
<1>6. CASE FinishReview
  <2>1. UNCHANGED <<task, opening, undo, focus>> /\ review.open
    BY <1>6 DEF FinishReview, waits
  <2>2. ~focus /\ undo.pc = "idle"
    BY <1>1, <1>6, <2>1 DEF FinishReview
  <2> QED BY <2>1, <2>2 DEF Quiet
<1>7. CASE CancelReview
  <2>1. focus' = FALSE /\ (undo'.pc = "idle" \/ undo'.cancel)
    BY <1>1, <1>7, Parts DEF CancelReview, NoUndo, PageT
  <2> QED BY <2>1 DEF Quiet
<1>8. CASE Timers
  BY <1>8 DEF Timers, TimerFires, ScanFires, waits, page, Quiet, Waiting
<1>9. CASE Answers
  <2>1. Waiting
    BY <1>9 DEF Answers, OpenAnswered, TaskAnswered, UndoAnswered, Waiting
  <2>2. ~focus'
    BY <1>9, <2>1 DEF Answers, OpenAnswered, TaskAnswered, UndoAnswered, Quiet
  <2>3. CASE OpenAnswered \/ TaskAnswered
    <3>1. UNCHANGED undo /\ (opening.pc = "answered" \/ task.pc = "answered")
      BY <2>3 DEF OpenAnswered, TaskAnswered
    <3>2. undo.pc = "idle"
      BY <3>1 DEF HomeInv, OneWait
    <3> QED BY <2>2, <3>1, <3>2 DEF Quiet
  <2>4. CASE UndoAnswered
    BY <2>2, <2>4 DEF UndoAnswered, NoUndo, Quiet
  <2> QED BY <1>9, <2>3, <2>4 DEF Answers
<1>10. CASE Serve \/ Fail \/ AnswerLost
  BY <1>10, TakenQuiet, WriterAssumption
<1>11. CASE UNCHANGED vars
  BY <1>11 DEF vars, page, waits, Quiet, Waiting
<1> QED BY <1>2, <1>3, <1>4, <1>5, <1>6, <1>7, <1>8, <1>9, <1>10, <1>11 DEF Next, Writer

LEMMA StutterFresh ==
    ASSUME Fresh, UNCHANGED vars
    PROVE  Fresh'
<1>1. UNCHANGED <<nodes, head, wire, active, review, task, undo>>
  BY DEF vars, server, page, waits
<1> QED BY <1>1 DEF Fresh, Generated, Behind, Leaves, NoSave, HeadText

LEMMA StepReview ==
    ASSUME Patient, TypeInv, HomeInv, ReviewInv, [Next]_vars
    PROVE  ReviewInv'
<1>1. Quiet'
  BY StepQuiet DEF ReviewInv
<1>2. ASSUME ~mishap' PROVE Fresh'
  <2>1. Calm /\ ~AnswerLost
    BY <1>2, NoMishap DEF Calm, ReviewInv
  <2> QED
    BY <1>2, <2>1, WriterAssumption, TypeFresh, BlurFresh, OpenFresh, StartTaskFresh, ReviewEditFresh,
       FinishReviewFresh, CancelReviewFresh, RevertToFresh, TimersFresh, OpenAnsweredFresh,
       TaskAnsweredFresh, UndoAnsweredFresh, ServeFresh, FailFresh, StutterFresh
       DEF Next, Writer, Timers, Answers, Calm
<1> QED BY <1>1, <1>2 DEF ReviewInv

LEMMA InitReview ==
    ASSUME Init
    PROVE  ReviewInv
<1>1. wire = << >> /\ ~review.open /\ focus = FALSE
      /\ task.pc = "idle" /\ opening.pc = "idle" /\ undo.pc = "idle"
  BY DEF Init, NoReview, NoTask, NoOpening, NoUndo
<1> QED BY <1>1 DEF ReviewInv, Quiet, Fresh, Generated, Behind

\* While a generation is reviewed it is the head of its chapter, so that finishing the review
\* (applyMerged of WriterShell.tsx) rewrites no other version: for a writer who waits for answers,
\* with timers, automatic analysis, failures and any order of the requests, until a mishap.
THEOREM GenerationIsHead ==
    ASSUME Patient
    PROVE  Spec => []ReviewedIsHead
<1>1. Init => TypeInv /\ HomeInv /\ ReviewInv
  BY InitType, InitHome, InitReview, WriterAssumption
<1>2. TypeInv /\ HomeInv /\ ReviewInv /\ [Next]_vars => (TypeInv /\ HomeInv /\ ReviewInv)'
  BY StepType, StepHome, StepReview
<1>3. ReviewInv => ReviewedIsHead
  BY DEF ReviewInv, Fresh, Generated, ReviewedIsHead
<1> QED BY <1>1, <1>2, <1>3, PTL DEF Spec

(***************************************************************************)
(* Nothing is lost, short of a mishap.                                     *)
(***************************************************************************)
LEMMA LastUnique ==
    ASSUME NEW R, NEW w \in Seq(R), NEW c, NEW s, NEW t, LastSave(w, c, s)
    PROVE  /\ ~NoSave(w, c) /\ (LastSave(w, c, t) => s = t)
           /\ Asks(w, c, t) => s = t
<1>1. PICK i \in DOMAIN w : /\ IsSave(w[i], c) /\ w[i].text = s
                            /\ \A j \in DOMAIN w : j > i => ~IsSave(w[j], c)
  BY DEF LastSave
<1>2. ~NoSave(w, c) /\ (Asks(w, c, t) => s = t)
  BY <1>1 DEF NoSave, Asks
<1>3. ASSUME LastSave(w, c, t) PROVE s = t
  <2>1. PICK k \in DOMAIN w : /\ IsSave(w[k], c) /\ w[k].text = t
                              /\ \A j \in DOMAIN w : j > k => ~IsSave(w[j], c)
    BY <1>3 DEF LastSave
  <2>2. i \in Nat /\ k \in Nat
    OBVIOUS
  <2>3. ~(k > i) /\ ~(i > k)
    BY <1>1, <2>1
  <2>4. i = k
    BY <2>2, <2>3
  <2> QED BY <1>1, <2>1, <2>4
<1> QED BY <1>2, <1>3

\* The editor's text goes out in a save: by the timer, an analysis, before a task, or when the
\* text area loses the focus.
LEMMA SaveKeeps ==
    ASSUME WriterAssumption, TypeInv, active \in Chapters, NEW w, w \in Seq(Requests),
           NEW f \in BOOLEAN, \A c \in Chapters : Kept(w, f, c), f \/ Settled(w),
           NEW by \in {"blur", "timer", "scan", "task"}
    PROVE  /\ Append(w, Save(by, text)) \in Seq(Requests)
           /\ \A c \in Chapters : Kept(Append(w, Save(by, text)), f, c)
           /\ LastSave(Append(w, Save(by, text)), active, text)
           /\ \A c : c # active /\ NoSave(w, c) => NoSave(Append(w, Save(by, text)), c)
<1>1. PICK q, v : q = Save(by, text) /\ v = Append(w, q)
  OBVIOUS
<1>2. q.kind = "save" /\ q.ch = active /\ q.text = text /\ q \in Requests
  BY <1>1, Parts, Facts DEF Save, Request, Requests, PageT, PageOK, NoNode
<1>3. v \in Seq(Requests)
  BY <1>1, <1>2
<1>4. /\ LastSave(v, active, text)
      /\ \A c, t : c # active /\ LastSave(w, c, t) => LastSave(v, c, t)
      /\ \A c : c # active /\ NoSave(w, c) => NoSave(v, c)
      /\ \A c, t : Asks(w, c, t) /\ (active = c => text = t) => Asks(v, c, t)
  BY <1>1, <1>2, SaveAdded
<1>5. ASSUME NEW c \in Chapters PROVE Kept(v, f, c)
  <2>1. CASE c # active
    BY <1>4, <2>1 DEF Kept
  <2>2. CASE c = active /\ f
    BY <2>2 DEF Kept
  <2>3. CASE c = active /\ ~f /\ LastSave(w, c, latest[c])
    <3>1. LastSave(w, c, text)
      BY <2>3, LastUnique DEF Settled
    <3>2. latest[c] = text
      BY <2>3, <3>1, LastUnique
    <3> QED BY <1>4, <2>3, <3>2 DEF Kept
  <2>4. CASE c = active /\ ~f /\ Stored(c) /\ Asks(w, c, HeadText(c))
    <3>1. text = HeadText(c)
      BY <2>4, LastUnique DEF Settled
    <3> QED BY <1>4, <2>4, <3>1 DEF Kept
  <2> QED BY <2>1, <2>2, <2>3, <2>4 DEF Kept
<1> QED BY <1>1, <1>3, <1>4, <1>5

LEMMA OtherKeeps ==
    ASSUME NEW w, w \in Seq(Requests), NEW f, \A c \in Chapters : Kept(w, f, c),
           NEW q \in Requests, q.kind # "save"
    PROVE  /\ Settled(w) => Settled(Append(w, q))
           /\ \A c \in Chapters : Kept(Append(w, q), f, c)
           /\ \A c : NoSave(w, c) => NoSave(Append(w, q), c)
<1>1. Settled(w) => Settled(Append(w, q))
  BY SavesAdded DEF Settled
<1>2. ASSUME NEW c \in Chapters PROVE Kept(Append(w, q), f, c)
  BY SavesAdded DEF Kept
<1> QED BY <1>1, <1>2, SavesAdded

\* The text area loses the focus.
LEMMA BlurKeeps ==
    ASSUME WriterAssumption, TypeInv, Safe, NEW w, w = wire \o Blurred
    PROVE  /\ w \in Seq(Requests) /\ (Level => Settled(w))
           /\ \A c \in Chapters : Kept(w, FALSE, c)
<1>1. /\ wire \in Seq(Good) /\ wire \in Seq(Requests) /\ focus \in BOOLEAN
      /\ (focus => active \in Chapters) /\ (review.open => ~focus)
  <2>1. wire \in Seq(Good)
    BY Parts DEF WireOK
  <2>2. wire \in Seq(Requests)
    BY <2>1, Inside, Widened DEF Good
  <2> QED BY <2>1, <2>2, Parts DEF PageT, PageOK
<1>2. /\ \A c \in Chapters : Kept(wire, focus, c)
      /\ (focus => text = latest[active]) /\ (Level /\ ~focus => Settled(wire))
  BY DEF Safe, Saved, InStep
<1>3. CASE ~(focus /\ Editing) /\ w = wire
  <2>1. focus = FALSE
    BY <1>1, <1>3, Facts DEF Editing
  <2> QED BY <1>1, <1>2, <1>3, <2>1
<1>4. CASE focus /\ Editing /\ w = Append(wire, Save("blur", text))
  <2>1. /\ w \in Seq(Requests) /\ LastSave(w, active, text)
        /\ \A c \in Chapters : Kept(w, focus, c)
    BY <1>1, <1>2, <1>4, SaveKeeps
  <2>2. ASSUME NEW c \in Chapters PROVE Kept(w, FALSE, c)
    BY <1>2, <1>4, <2>1 DEF Kept
  <2> QED BY <1>4, <2>1, <2>2 DEF Settled
<1> QED BY <1>3, <1>4, Blurring

\* A handler of the page that leaves the chapter and its text as they are.
LEMMA ActKeeps ==
    ASSUME Safe, UNCHANGED <<nodes, head, active, text, latest>>, NEW w, wire' = w,
           NEW f, focus' = f, \A c \in Chapters : Kept(w, f, c),
           Level' /\ ~f => Settled(w), f => text = latest[active],
           opening'.pc = "answered" /\ opening'.ch # active =>
               opening' = opening /\ (NoSave(wire, opening.ch) => NoSave(w, opening.ch)),
           undo'.pc # "answered",
           task' = task \/ task'.pc \notin {"sent", "answered"}
    PROVE  Safe'
<1>1. opening'.pc = "answered" /\ opening'.ch # active =>
          HeadText(opening.ch)' = opening'.text /\ NoSave(w, opening'.ch)
  BY DEF Safe, Saved, HeadText
<1>2. Saved'
  BY <1>1 DEF Safe, Saved, NoSave
<1>3. InStep(wire, focus)'
  BY DEF InStep, Settled, LastSave, NoSave, HeadText
<1>4. ASSUME NEW c \in Chapters PROVE Kept(wire, focus, c)'
  BY DEF Kept, Stored, LastSave, Asks, HeadText
<1> QED BY <1>2, <1>3, <1>4 DEF Safe

LEMMA TypeKeep ==
    ASSUME WriterAssumption, Calm, Safe, Type
    PROVE  Safe'
<1>1. /\ UNCHANGED <<nodes, head, active, wire, task, opening, undo>> /\ focus' = TRUE
      /\ opening.pc = "idle" /\ undo.pc = "idle" /\ active \in Chapters /\ latest \in [Chapters -> Texts]
  BY NoneWaits, Parts DEF Type, server, waits, Editing, Calm, PageT
<1>2. PICK word \in Words : /\ text' = <<active, word>>
                            /\ latest' = [latest EXCEPT ![active] = <<active, word>>]
  BY DEF Type
<1>3. Saved'
  BY <1>1, <1>2 DEF Safe, Saved
<1>4. InStep(wire, focus)'
  BY <1>1 DEF InStep
<1>5. ASSUME NEW c \in Chapters PROVE Kept(wire, focus, c)'
  <2>1. CASE c = active
    BY <1>1, <2>1 DEF Kept
  <2>2. CASE c # active
    <3>1. latest'[c] = latest[c]
      BY <1>1, <1>2, <2>2
    <3>2. CASE LastSave(wire, c, latest[c])
      BY <1>1, <3>1, <3>2 DEF Kept, LastSave
    <3>3. CASE Stored(c) /\ Asks(wire, c, HeadText(c))
      <4>1. Stored(c)' /\ Asks(wire, c, HeadText(c))'
        BY <1>1, <3>1, <3>3 DEF Stored, Asks, HeadText
      <4> QED BY <4>1 DEF Kept
    <3> QED BY <2>2, <3>2, <3>3 DEF Safe, Kept
  <2> QED BY <2>1, <2>2
<1> QED BY <1>3, <1>4, <1>5 DEF Safe

LEMMA BlurKeep ==
    ASSUME WriterAssumption, Calm, Safe, Blur
    PROVE  Safe'
<1>1. /\ UNCHANGED <<nodes, head, active, text, latest, review, task, opening, undo>> /\ focus' = FALSE
      /\ focus
  BY DEF Blur, server, waits
<1>2. opening.pc # "answered" /\ undo.pc # "answered"
  BY <1>1 DEF Calm, Quiet, Waiting
<1>3. PICK w : w = wire \o Blurred
  OBVIOUS
<1>4. /\ Level => Settled(w)
      /\ wire' = w /\ \A c \in Chapters : Kept(w, FALSE, c)
  BY <1>3, BlurKeeps DEF Blur, Calm
<1>5. Level' => Level
  BY <1>1 DEF Level
<1> QED BY <1>1, <1>2, <1>4, <1>5, ActKeeps

LEMMA TimersKeep ==
    ASSUME WriterAssumption, Calm, Safe, ~mishap', TimerFires \/ ScanFires
    PROVE  Safe'
<1>1. /\ UNCHANGED <<nodes, head, active, text, latest, review, task, opening, undo, focus>>
  BY DEF TimerFires, ScanFires, server, page, waits
<1>2. /\ active \in Chapters /\ focus \in BOOLEAN /\ wire \in Seq(Good) /\ wire \in Seq(Requests)
  <2>1. wire \in Seq(Good)
    BY Parts DEF WireOK, Calm
  <2>2. wire \in Seq(Requests)
    BY <2>1, Inside, Widened DEF Good
  <2> QED BY <1>1, <2>1, <2>2, Parts DEF PageT, PageOK, TimerFires, ScanFires, Calm
<1>3. PICK f : f = focus
  OBVIOUS
<1>4. /\ \A c \in Chapters : Kept(wire, f, c)
      /\ (f => text = latest[active]) /\ (Level /\ ~f => Settled(wire))
  BY <1>3 DEF Safe, Saved, InStep
<1>5. Level' = Level
  BY <1>1 DEF Level
<1>6. CASE wire' = wire
  <2>1. Saved'
    BY <1>1, <1>6 DEF Safe, Saved, HeadText, NoSave
  <2>2. InStep(wire, focus)'
    BY <1>1, <1>6 DEF Safe, InStep, Level, Settled, LastSave, NoSave, HeadText
  <2>3. ASSUME NEW c \in Chapters PROVE Kept(wire, focus, c)'
    BY <1>1, <1>6 DEF Safe, Kept, Stored, LastSave, Asks, HeadText
  <2> QED BY <2>1, <2>2, <2>3 DEF Safe
<1>7. ASSUME NEW by \in {"timer", "scan"}, wire' = Append(wire, Save(by, text)),
             ~Replacing, ~(review.open /\ review.to # NoNode)
      PROVE  Safe'
  <2>1. PICK w : w = Append(wire, Save(by, text))
    OBVIOUS
  <2>2. Level /\ undo.pc = "idle"
    BY <1>2, <1>7, Facts DEF Level, Replacing
  <2>3. /\ LastSave(w, active, text) /\ \A c \in Chapters : Kept(w, f, c)
        /\ \A c : c # active /\ NoSave(wire, c) => NoSave(w, c)
    BY <1>2, <1>3, <1>4, <2>1, <2>2, SaveKeeps DEF Calm
  <2>4. Settled(w)
    BY <2>3 DEF Settled
  <2> QED BY <1>1, <1>3, <1>4, <1>7, <2>1, <2>2, <2>3, <2>4, ActKeeps
<1>8. \/ wire' = wire
      \/ \E by \in {"timer", "scan"} :
            /\ wire' = Append(wire, Save(by, text))
            /\ ~Replacing /\ ~(review.open /\ review.to # NoNode)
  <2>1. timer => ~review.open
    BY Parts DEF PageT, Calm
  <2>2. CASE TimerFires
    BY <2>1, <2>2 DEF TimerFires
  <2>3. CASE ScanFires
    BY <2>3 DEF ScanFires
  <2> QED BY <2>2, <2>3
<1> QED BY <1>6, <1>7, <1>8

\* A click that asks the server for something besides a save.
LEMMA AskKeeps ==
    ASSUME WriterAssumption, Calm, Safe, UNCHANGED <<nodes, head, active, text, latest>>, focus' = FALSE,
           NEW q \in Requests, q.kind # "save", wire' = (wire \o Blurred) \o <<q>>,
           Level' => Level, opening'.pc # "answered", undo'.pc # "answered",
           task' = task \/ task'.pc \notin {"sent", "answered"}
    PROVE  Safe'
<1>1. PICK w : w = wire \o Blurred
  OBVIOUS
<1>2. /\ (Level => Settled(w)) /\ w \in Seq(Requests)
      /\ \A c \in Chapters : Kept(w, FALSE, c)
  BY <1>1, BlurKeeps DEF Calm
<1>3. PICK v : v = Append(w, q)
  OBVIOUS
<1>4. wire' = v
  BY <1>1, <1>2, <1>3, Appended
<1>5. /\ Settled(w) => Settled(v)
      /\ \A c \in Chapters : Kept(v, FALSE, c)
  BY <1>2, <1>3, OtherKeeps
<1> QED BY <1>2, <1>4, <1>5, ActKeeps

LEMMA OpenKeep ==
    ASSUME WriterAssumption, Calm, Safe, Open
    PROVE  Safe'
<1>1. /\ UNCHANGED <<nodes, head, active, text, latest, review, task, undo>> /\ focus' = FALSE
      /\ undo.pc = "idle"
  BY NoneWaits DEF Open, server, Calm
<1>2. PICK c \in Chapters :
         /\ wire' = wire \o Blurred \o <<Request("open", "open", c, NoText, NoNode)>>
         /\ opening' = [NoOpening EXCEPT !.pc = "sent", !.ch = c]
  BY DEF Open
<1>3. PICK q : q = Request("open", "open", c, NoText, NoNode)
  OBVIOUS
<1>4. q \in Requests /\ q.kind # "save"
  BY <1>3, Facts DEF Request, Requests, NoNode
<1>5. opening'.pc # "answered" /\ (Level' => Level)
  BY <1>1, <1>2 DEF NoOpening, Level
<1> QED BY <1>1, <1>2, <1>3, <1>4, <1>5, AskKeeps

LEMMA RevertToKeep ==
    ASSUME WriterAssumption, Calm, Safe, RevertTo
    PROVE  Safe'
<1>1. /\ UNCHANGED <<nodes, head, active, text, latest, review, task, opening>> /\ focus' = FALSE
      /\ opening.pc = "idle" /\ undo.pc = "idle" /\ undo'.pc = "sent" /\ active \in Chapters /\ ServerT
  BY NoneWaits, Parts DEF RevertTo, server, Calm, NoUndo, Editing, PageT
<1>2. PICK v \in DOMAIN nodes : wire' = wire \o Blurred \o <<Request("revert", "undo", active, NoText, v)>>
  BY DEF RevertTo
<1>3. PICK q : q = Request("revert", "undo", active, NoText, v)
  OBVIOUS
<1>4. q \in Requests /\ q.kind # "save"
  BY <1>1, <1>3, NodeType, Facts DEF Request, Requests
<1>5. Level' => Level
  BY <1>1 DEF Level
<1> QED BY <1>1, <1>2, <1>3, <1>4, <1>5, AskKeeps

LEMMA StartTaskKeep ==
    ASSUME WriterAssumption, Calm, Safe, StartTask
    PROVE  Safe'
<1>1. /\ UNCHANGED <<nodes, head, active, text, latest, review, opening, undo>> /\ focus' = FALSE
      /\ task.pc = "idle" /\ opening.pc = "idle" /\ undo.pc = "idle" /\ ~review.open /\ active \in Chapters
      /\ wire' = wire \o Blurred \o <<Save("task", text)>> /\ task'.pc = "saving" /\ text \in Texts
  BY NoneWaits, Parts DEF StartTask, server, Calm, Editing, NoTask, PageT, PageOK
<1>2. PICK w : w = wire \o Blurred
  OBVIOUS
<1>3. Level
  BY <1>1, Facts DEF Level
<1>4. /\ Settled(w) /\ w \in Seq(Requests)
      /\ \A c \in Chapters : Kept(w, FALSE, c)
  BY <1>2, <1>3, BlurKeeps DEF Calm
<1>5. PICK v : v = Append(w, Save("task", text))
  OBVIOUS
<1>6. wire' = v
  <2>1. Save("task", text) \in Requests
    BY <1>1, Facts DEF Save, Request, Requests, NoNode
  <2> QED BY <1>1, <1>2, <1>4, <1>5, <2>1, Appended
<1>7. LastSave(v, active, text) /\ \A c \in Chapters : Kept(v, FALSE, c)
  BY <1>1, <1>4, <1>5, SaveKeeps DEF Calm
<1>8. Settled(v)
  BY <1>7 DEF Settled
<1> QED BY <1>1, <1>6, <1>7, <1>8, ActKeeps

LEMMA ReviewEditKeep ==
    ASSUME WriterAssumption, Calm, Safe, ReviewEdit
    PROVE  Safe'
<1>1. /\ UNCHANGED <<nodes, head, active, text, latest, task, opening, undo>> /\ focus' = FALSE
      /\ opening.pc = "idle" /\ undo.pc = "idle" /\ ~review.open /\ wire' = wire \o Blurred
  BY NoneWaits DEF ReviewEdit, server, waits, Calm, Editing
<1>2. PICK w : w = wire \o Blurred
  OBVIOUS
<1>3. (Level => Settled(w)) /\ \A c \in Chapters : Kept(w, FALSE, c)
  BY <1>2, BlurKeeps DEF Calm
<1>4. Level' => Level
  BY <1>1 DEF Level
<1> QED BY <1>1, <1>2, <1>3, <1>4, ActKeeps

LEMMA CancelReviewKeep ==
    ASSUME WriterAssumption, Calm, Safe, CancelReview
    PROVE  Safe'
<1>1. /\ UNCHANGED <<nodes, head, active, text, latest, task, opening, focus>>
      /\ opening.pc = "idle" /\ undo.pc = "idle" /\ review.open /\ focus = FALSE
      /\ active \in Chapters /\ NodeOf(review.to, active) /\ ServerT
      /\ wire \in Seq(Good) /\ wire \in Seq(Requests)
  <2>1. wire \in Seq(Good)
    BY Parts DEF WireOK, Calm
  <2>2. wire \in Seq(Requests)
    BY <2>1, Inside, Widened DEF Good
  <2> QED BY <2>1, <2>2, NoneWaits, Parts DEF CancelReview, server, Calm, PageT, PageOK
<1>2. (\A c \in Chapters : Kept(wire, FALSE, c)) /\ (Level => Settled(wire))
  BY <1>1 DEF Safe, InStep
<1>3. CASE review.to = NoNode /\ UNCHANGED <<wire, undo>>
  <2>1. Level' => Level
    BY <1>1, <1>3 DEF Level
  <2>2. PICK w : w = wire
    OBVIOUS
  <2> QED BY <1>1, <1>2, <1>3, <2>1, <2>2, ActKeeps
<1>4. CASE /\ review.to # NoNode /\ UNCHANGED review
           /\ wire' = Append(wire, Request("revert", "undo", active, NoText, review.to))
           /\ undo' = [NoUndo EXCEPT !.pc = "sent", !.cancel = TRUE]
  <2>1. PICK q, w : q = Request("revert", "undo", active, NoText, review.to) /\ w = Append(wire, q)
    OBVIOUS
  <2>2. review.to \in Nat
    BY <1>1, <1>4, NodeType DEF NodeOf
  <2>3. q \in Requests /\ q.kind # "save"
    BY <1>1, <2>1, <2>2, Facts DEF Request, Requests
  <2>4. \A c \in Chapters : Kept(w, FALSE, c)
    BY <1>1, <1>2, <2>1, <2>3, OtherKeeps
  <2>5. ~Level' /\ undo'.pc # "answered"
    BY <1>1, <1>4 DEF Level, NoUndo
  <2> QED BY <1>1, <1>4, <2>1, <2>4, <2>5, ActKeeps
<1> QED BY <1>3, <1>4 DEF CancelReview

LEMMA FinishReviewKeep ==
    ASSUME WriterAssumption, Calm, Safe, FinishReview
    PROVE  Safe'
<1>1. /\ UNCHANGED <<nodes, head, active, task, opening, undo, focus>>
      /\ opening.pc = "idle" /\ undo.pc = "idle" /\ review.open /\ focus = FALSE /\ active \in Chapters
      /\ review.base \in Texts /\ review.out \in Texts /\ latest \in [Chapters -> Texts]
      /\ wire \in Seq(Good)
  BY NoneWaits, Parts DEF FinishReview, server, waits, Calm, PageT, PageOK, WireOK
<1>2. PICK m \in {review.base, review.out} :
         text' = m /\ wire' = Append(wire, Save("review", m)) /\ latest' = [latest EXCEPT ![active] = m]
  BY DEF FinishReview
<1>3. PICK q, w : q = Save("review", m) /\ w = Append(wire, q)
  OBVIOUS
<1>4. q \in Good /\ q.kind = "save" /\ q.ch = active /\ q.text = m
  BY <1>1, <1>2, <1>3, SaveGood DEF Save, Request
<1>5. /\ LastSave(w, active, m)
      /\ \A c, t : c # active /\ LastSave(wire, c, t) => LastSave(w, c, t)
      /\ \A c, t : Asks(wire, c, t) /\ c # active => Asks(w, c, t)
  BY <1>1, <1>3, <1>4, SaveAdded
<1>6. wire' = w
  BY <1>2, <1>3
<1>7. Saved'
  BY <1>1 DEF Safe, Saved
<1>8. Settled(wire)'
  BY <1>1, <1>2, <1>5, <1>6 DEF Settled, LastSave
<1>9. ASSUME NEW c \in Chapters PROVE Kept(wire, focus, c)'
  <2>1. CASE c = active
    <3>1. latest'[c] = m
      BY <1>1, <1>2, <2>1
    <3> QED BY <1>5, <1>6, <2>1, <3>1 DEF Kept, LastSave
  <2>2. CASE c # active
    <3>1. latest'[c] = latest[c]
      BY <1>1, <1>2, <2>2
    <3>2. CASE LastSave(wire, c, latest[c])
      <4>1. LastSave(w, c, latest[c])
        BY <1>5, <2>2, <3>2
      <4> QED BY <1>6, <3>1, <4>1 DEF Kept, LastSave
    <3>3. CASE Stored(c) /\ Asks(wire, c, HeadText(c))
      <4>1. Asks(w, c, HeadText(c))
        BY <1>5, <2>2, <3>3
      <4>2. Stored(c)' /\ Asks(wire, c, HeadText(c))'
        BY <1>1, <1>6, <3>1, <3>3, <4>1 DEF Stored, Asks, HeadText
      <4> QED BY <4>2 DEF Kept
    <3> QED BY <2>2, <3>2, <3>3 DEF Safe, Kept
  <2> QED BY <2>1, <2>2
<1> QED BY <1>7, <1>8, <1>9 DEF Safe, InStep

\* An answer is handled.
LEMMA AnswerKeeps ==
    ASSUME Safe, UNCHANGED <<nodes, head, latest, wire>>, ~focus, ~focus',
           opening'.pc = "idle", undo'.pc = "idle", task'.pc = "idle",
           Level' => Settled(wire)'
    PROVE  Safe'
<1>1. Saved'
  BY DEF Saved
<1>2. InStep(wire, focus)'
  BY DEF InStep
<1>3. ASSUME NEW c \in Chapters PROVE Kept(wire, focus, c)'
  BY DEF Safe, Kept, Stored, LastSave, Asks, HeadText
<1> QED BY <1>1, <1>2, <1>3 DEF Safe

LEMMA OpenAnsweredKeep ==
    ASSUME WriterAssumption, Calm, Safe, OpenAnswered
    PROVE  Safe'
<1>1. /\ UNCHANGED <<nodes, head, wire, task, undo, latest, focus>> /\ opening.pc = "answered" /\ opening'.pc = "idle"
      /\ active' = opening.ch
      /\ \/ opening.ch # active /\ text' = opening.text
         \/ opening.ch = active /\ text' = text /\ review' = review
  BY DEF OpenAnswered, Show, server, NoOpening
<1>2. task.pc = "idle" /\ undo.pc = "idle" /\ ~focus
  BY <1>1 DEF Calm, HomeInv, OneWait, Quiet, Waiting
<1>3. CASE opening.ch # active /\ text' = opening.text
  <2>1. HeadText(opening.ch) = opening.text /\ NoSave(wire, opening.ch)
    BY <1>1, <1>3 DEF Safe, Saved
  <2>2. Settled(wire)'
    BY <1>1, <1>3, <2>1 DEF HeadText, Settled, NoSave
  <2> QED BY <1>1, <1>2, <2>2, AnswerKeeps
<1>4. CASE opening.ch = active /\ text' = text /\ review' = review
  <2>1. Level' => Level
    BY <1>1, <1>2, <1>4 DEF Level
  <2>2. Level' => Settled(wire)'
    BY <1>1, <1>2, <1>4, <2>1 DEF Safe, InStep, HeadText, Settled, NoSave, LastSave
  <2> QED BY <1>1, <1>2, <2>2, AnswerKeeps
<1> QED BY <1>1, <1>3, <1>4

LEMMA TaskAnsweredKeep ==
    ASSUME WriterAssumption, Calm, Safe, TaskAnswered
    PROVE  Safe'
<1>1. /\ UNCHANGED <<nodes, head, wire, opening, undo, latest>> /\ task.pc = "answered" /\ task'.pc = "idle"
      /\ active' = task.ch /\ focus' = (focus /\ ~review'.open)
  BY DEF TaskAnswered, server, NoTask
<1>2. /\ opening.pc = "idle" /\ undo.pc = "idle" /\ task.ch = active /\ ~review.open /\ ~focus
      /\ active # NoChapter
      /\ task.op # "tool" => HeadText(active) = task.out /\ NoSave(wire, active) /\ task.to # NoNode
  BY <1>1, Parts, Facts DEF Calm, HomeInv, OneWait, Quiet, Fresh, Generated, Waiting, Safe, Saved, WaitsOK
<1>3. CASE task.op = "tool" /\ UNCHANGED <<text, review>>
  <2>1. Level
    BY <1>2, <1>3 DEF Level
  <2>2. Settled(wire)'
    BY <1>1, <1>2, <1>3, <2>1 DEF Safe, InStep, HeadText, Settled, NoSave, LastSave
  <2> QED BY <1>1, <1>2, <2>2, AnswerKeeps
<1>4. CASE task.op # "tool" /\ text' = task.out
  <2>1. Settled(wire)'
    BY <1>1, <1>2, <1>4 DEF HeadText, Settled, NoSave
  <2> QED BY <1>1, <1>2, <2>1, AnswerKeeps
<1>5. CASE /\ task.op # "tool" 
           /\ review' = [open |-> TRUE, base |-> task.base, out |-> task.out, to |-> task.to]
  <2>1. ~Level'
    BY <1>2, <1>5 DEF Level
  <2> QED BY <1>1, <1>2, <2>1, AnswerKeeps
<1> QED BY <1>2, <1>3, <1>4, <1>5 DEF TaskAnswered

LEMMA UndoAnsweredKeep ==
    ASSUME WriterAssumption, Calm, Safe, UndoAnswered
    PROVE  Safe'
<1>1. /\ UNCHANGED <<nodes, head, wire, opening, task, latest, active, focus>> /\ undo.pc = "answered"
      /\ undo'.pc = "idle" /\ text' = undo.text
  BY DEF UndoAnswered, server, NoUndo
<1>2. /\ opening.pc = "idle" /\ task.pc = "idle" /\ ~focus /\ HeadText(active) = undo.text
      /\ NoSave(wire, active)
  BY <1>1 DEF Calm, HomeInv, OneWait, Quiet, Waiting, Fresh, Generated, Safe, Saved
<1>3. Settled(wire)'
  BY <1>1, <1>2 DEF HeadText, Settled, NoSave
<1> QED BY <1>1, <1>2, <1>3, AnswerKeeps

\* A request that is no save is served without a change of the server, or fails.
LEMMA OtherServed ==
    ASSUME Calm, Safe, UNCHANGED <<page, latest, nodes, head>>, NEW i \in DOMAIN wire, NEW w, After(i, w),
           wire' = w, wire[i].kind # "save", Level' => Level,
           opening'.pc = "answered" /\ opening'.ch # active =>
               HeadText(opening'.ch) = opening'.text /\ NoSave(wire, opening'.ch),
           undo'.pc = "answered" => undo' = undo,
           task'.pc \in {"sent", "answered"} /\ task'.op # "tool" => task'.to # NoNode
    PROVE  Safe'
<1>1. /\ \A c : NoSave(wire, c) => NoSave(w, c)
      /\ \A c, t : Asks(wire, c, t) => Asks(w, c, t)
      /\ \A c, t : LastSave(wire, c, t) => LastSave(w, c, t)
      /\ UNCHANGED <<active, text, focus>>
  BY Left DEF Calm, IsSave, page
<1>2. Saved'
  <2>1. opening'.pc = "answered" /\ opening'.ch # active =>
            HeadText(opening'.ch) = opening'.text /\ NoSave(w, opening'.ch)
    BY <1>1
  <2> QED BY <1>1, <2>1 DEF Safe, Saved, HeadText, NoSave
<1>3. InStep(wire, focus)'
  <2>1. Level' /\ ~focus => Settled(w)
    BY <1>1 DEF Safe, InStep, Settled
  <2> QED BY <1>1, <2>1 DEF InStep, Settled, LastSave, NoSave, HeadText
<1>4. ASSUME NEW c \in Chapters PROVE Kept(wire, focus, c)'
  <2>1. Kept(w, focus, c)
    BY <1>1 DEF Safe, Kept
  <2> QED BY <1>1, <2>1 DEF Kept, Stored, LastSave, Asks, HeadText
<1> QED BY <1>2, <1>3, <1>4 DEF Safe

\* The head of the open chapter moves while no save of it is on its way.
LEMMA HeadMoves ==
    ASSUME Calm, Safe, UNCHANGED <<page, latest>>, NEW i \in DOMAIN wire, NEW w, w = Others(i), wire' = w,
           wire[i].kind # "save", NoSave(wire, active),
           \A c \in Chapters : /\ Stored(c) => Stored(c)'
                               /\ c # active => HeadText(c)' = HeadText(c),
           ~focus, ~Level', opening'.pc # "answered", undo'.pc = "answered" => HeadText(active)' = undo'.text,
           task'.pc \in {"sent", "answered"} /\ task'.op # "tool" => task'.to # NoNode
    PROVE  Safe'
<1>1. /\ \A c : NoSave(wire, c) => NoSave(w, c)
      /\ \A c, t : Asks(wire, c, t) => Asks(w, c, t)
      /\ \A c, t : LastSave(wire, c, t) => LastSave(w, c, t)
      /\ UNCHANGED <<active, text, focus>>
  <2>1. After(i, w)
    BY DEF After
  <2> QED BY <2>1, Left DEF Calm, IsSave, page
<1>2. Saved'
  BY <1>1 DEF Saved, HeadText
<1>3. InStep(wire, focus)'
  BY DEF InStep
<1>4. ASSUME NEW c \in Chapters PROVE Kept(wire, focus, c)'
  <2>1. CASE LastSave(wire, c, latest[c])
    <3>1. LastSave(w, c, latest[c])
      BY <1>1, <2>1
    <3> QED BY <3>1 DEF Kept, LastSave
  <2>2. CASE Stored(c) /\ Asks(wire, c, HeadText(c)) /\ c # active
    <3>1. Asks(w, c, HeadText(c)) /\ Stored(c)' /\ HeadText(c)' = HeadText(c)
      BY <1>1, <2>2
    <3>2. Asks(wire, c, HeadText(c))'
      BY <3>1 DEF Asks
    <3> QED BY <3>1, <3>2 DEF Kept
  <2>3. CASE Stored(c) /\ c = active
    <3>1. NoSave(w, c) /\ Stored(c)'
      BY <1>1, <2>3
    <3>2. Asks(wire, c, HeadText(c))'
      BY <3>1 DEF Asks, NoSave
    <3> QED BY <3>1, <3>2 DEF Kept
  <2> QED BY <2>1, <2>2, <2>3 DEF Safe, Kept
<1> QED BY <1>2, <1>3, <1>4 DEF Safe

LEMMA ServeSaveKeep ==
    ASSUME WriterAssumption, Calm, Safe, UNCHANGED <<page, latest>>, NEW i \in DOMAIN wire, ~Overtakes(i),
           ServeSave(i, wire[i])
    PROVE  Safe'
<1>1. /\ ServerT /\ WaitsOK /\ TypeInv /\ UNCHANGED <<opening, undo, active, text, focus, review>>
      /\ wire[i].kind = "save" /\ Onward(i, wire[i])
      /\ wire[i].ch \in Chapters /\ wire[i].text \in Texts /\ Store(wire[i].ch, wire[i].text)
      /\ active \in Chapters \cup {NoChapter}
  BY Parts, Served DEF ServeSave, page, Calm, PageT
<1>2. PICK c, t, w : c = wire[i].ch /\ t = wire[i].text /\ w = wire'
  OBVIOUS
<1>3. c \in Chapters /\ t \in Texts /\ Store(c, t) /\ IsSave(wire[i], c) /\ ~NoSave(wire, c)
  BY <1>1, <1>2 DEF IsSave, NoSave
<1>4. /\ ServerT' /\ Keeps /\ HeadText(c)' = t
      /\ \A v \in DOMAIN nodes : v # head[c] => nodes'[v] = nodes[v]
      /\ \A d \in Chapters : d # c => HeadText(d)' = HeadText(d)
  BY <1>1, <1>3, StoreT, HeadKept
<1>5. /\ \A d, s : LastSave(wire, d, s) => LastSave(w, d, s) \/ (d = c /\ NoSave(w, d) /\ s = t)
      /\ \A d, s : Asks(wire, d, s) => Asks(w, d, s)
      /\ \A d : NoSave(wire, d) => NoSave(w, d) /\ d # c
  <2>1. After(i, w)
    BY <1>1, <1>2, OnwardLeft
  <2> QED BY <1>1, <1>2, <1>3, <2>1, Left DEF IsSave
<1>6. task' = task \/ (task.pc = "saving" /\ task'.pc \in {"listing", "sent"}
                       /\ (task'.pc = "listing" <=> task'.op # "tool"))
  BY <1>1, <1>4, OnwardType
<1>7. Saved'
  <2>1. opening.pc = "answered" /\ opening.ch # active => HeadText(opening.ch)' = opening.text /\ NoSave(w, opening.ch)
    <3> SUFFICES ASSUME opening.pc = "answered", opening.ch # active
                 PROVE  HeadText(opening.ch)' = opening.text /\ NoSave(w, opening.ch)
      OBVIOUS
    <3>1. PICK d : d = opening.ch
      OBVIOUS
    <3>2. HeadText(d) = opening.text /\ NoSave(wire, d) /\ d \in Chapters
      BY <1>1, <3>1 DEF Safe, Saved, WaitsOK
    <3>3. HeadText(d)' = opening.text /\ NoSave(w, d)
      BY <1>4, <1>5, <3>2
    <3> QED BY <1>1, <3>1, <3>3 DEF HeadText
  <2>2. undo.pc = "answered" => HeadText(active)' = undo.text
    <3> SUFFICES ASSUME undo.pc = "answered" PROVE HeadText(active)' = undo.text
      OBVIOUS
    <3>1. PICK d : d = active
      OBVIOUS
    <3>2. HeadText(d) = undo.text /\ NoSave(wire, d) /\ d \in Chapters
      BY <1>1, <3>1 DEF Safe, Saved, WaitsOK, Calm, Fresh, Generated
    <3>3. HeadText(d)' = undo.text
      BY <1>4, <1>5, <3>2
    <3> QED BY <1>1, <3>1, <3>3 DEF HeadText
  <2> QED BY <1>1, <1>2, <1>6, <2>1, <2>2 DEF Safe, Saved, NoSave
<1>8. InStep(wire, focus)'
  <2> SUFFICES ASSUME Level', ~focus PROVE Settled(wire)'
    BY <1>1 DEF InStep
  <2>1. Level /\ active \in Chapters
    BY <1>1, <1>6 DEF Level
  <2>2. PICK d : d = active
    OBVIOUS
  <2>3. LastSave(wire, d, text) \/ (NoSave(wire, d) /\ HeadText(d) = text)
    BY <2>1, <2>2 DEF Safe, InStep, Settled
  <2>4. LastSave(w, d, text) \/ (NoSave(w, d) /\ HeadText(d)' = text)
    BY <1>4, <1>5, <2>1, <2>2, <2>3
  <2> QED BY <1>1, <1>2, <2>2, <2>4 DEF Settled, LastSave, NoSave, HeadText
<1>9. ASSUME NEW d \in Chapters PROVE Kept(wire, focus, d)'
  <2>1. CASE d = active /\ focus
    BY <1>1, <2>1 DEF Kept
  <2>2. CASE LastSave(w, d, latest[d])
    BY <1>2, <2>2 DEF Kept, LastSave
  <2>3. CASE d = c /\ NoSave(w, d) /\ latest[d] = t
    <3>1. head'[c] \in DOMAIN nodes' /\ nodes'[head'[c]].ch = c /\ nodes'[head'[c]].text = t
      BY <1>3, <1>4 DEF ServerT, HeadText
    <3>2. Stored(d)'
      BY <2>3, <3>1 DEF Stored
    <3>3. Asks(wire, d, HeadText(d))'
      BY <1>2, <2>3 DEF Asks, NoSave
    <3> QED BY <3>2, <3>3 DEF Kept
  <2>4. CASE Stored(d) /\ Asks(wire, d, HeadText(d)) /\ d = c
    <3>1. HeadText(c) = t
      BY <1>2, <1>3, <2>4 DEF Asks
    <3>2. UNCHANGED <<nodes, head>>
      BY <1>3, <3>1 DEF Store, HeadText, server
    <3>3. Asks(w, d, HeadText(d))
      BY <1>5, <2>4
    <3>4. Stored(d)' /\ Asks(wire, d, HeadText(d))'
      BY <1>2, <2>4, <3>2, <3>3 DEF Stored, Asks, HeadText
    <3> QED BY <3>4 DEF Kept
  <2>5. CASE Stored(d) /\ Asks(wire, d, HeadText(d)) /\ d # c
    <3>1. PICK v \in DOMAIN nodes : nodes[v].ch = d /\ nodes[v].text = latest[d]
      BY <2>5 DEF Stored
    <3>2. v # head[c]
      BY <1>1, <1>3, <2>5, <3>1 DEF ServerT
    <3>3. Stored(d)'
      BY <1>4, <3>1, <3>2 DEF Stored, Keeps
    <3>4. Asks(w, d, HeadText(d)) /\ HeadText(d)' = HeadText(d)
      BY <1>4, <1>5, <2>5
    <3>5. Asks(wire, d, HeadText(d))'
      BY <1>2, <3>4 DEF Asks
    <3> QED BY <3>3, <3>5 DEF Kept
  <2> QED BY <1>5, <2>1, <2>2, <2>3, <2>4, <2>5 DEF Safe, Kept
<1> QED BY <1>7, <1>8, <1>9 DEF Safe

LEMMA ServeAnalyzeKeep ==
    ASSUME WriterAssumption, Calm, Safe, UNCHANGED <<page, latest>>, NEW i \in DOMAIN wire, ~Overtakes(i),
           ServeAnalyze(i, wire[i])
    PROVE  Safe'
<1>1. UNCHANGED <<nodes, head, opening, undo, task, active, review>> /\ wire[i].kind # "save"
  BY DEF ServeAnalyze, page, server
<1>2. PICK w : w = wire'
  OBVIOUS
<1>3. After(i, w)
  BY <1>2 DEF ServeAnalyze, After
<1>4. Level' => Level
  BY <1>1 DEF Level
<1> QED BY <1>1, <1>2, <1>3, <1>4, OtherServed DEF Safe, Saved

LEMMA ServeListKeep ==
    ASSUME WriterAssumption, Calm, Safe, UNCHANGED <<page, latest>>, NEW i \in DOMAIN wire, ~Overtakes(i),
           ServeList(i, wire[i])
    PROVE  Safe'
<1>1. /\ ServerT /\ WaitsOK /\ UNCHANGED <<nodes, head, opening, undo, active, review>>
      /\ wire[i].kind = "list" /\ wire[i].ch \in Chapters /\ Fits(wire[i])
      /\ task' = [task EXCEPT !.pc = "sent", !.to = head[wire[i].ch]]
      /\ wire' = Append(Others(i), Request("gen", "gen", wire[i].ch, NoText, NoNode))
  BY Parts, Served DEF ServeList, page, server, Calm
<1>2. PICK q, w : q = Request("gen", "gen", wire[i].ch, NoText, NoNode) /\ w = wire'
  OBVIOUS
<1>3. q \in Requests /\ q.kind # "save" /\ w = Append(Others(i), q)
  BY <1>1, <1>2, Facts DEF Request, Requests, NoNode
<1>4. task'.pc = "sent" /\ task'.to # NoNode /\ task.pc = "listing"
  BY <1>1 DEF WaitsOK, ServerT, NoNode, Fits
<1>5. Level' => Level
  BY <1>1, <1>4 DEF Level
<1>6. After(i, w)
  BY <1>3 DEF After
<1> QED BY <1>1, <1>2, <1>4, <1>5, <1>6, OtherServed DEF Safe, Saved

LEMMA ServeGenKeep ==
    ASSUME WriterAssumption, Calm, Safe, UNCHANGED <<page, latest>>, NEW i \in DOMAIN wire, ~Overtakes(i),
           ServeGen(i, wire[i])
    PROVE  Safe'
<1>1. /\ ServerT /\ WaitsOK /\ UNCHANGED <<opening, undo, review, active>> /\ wire[i].kind = "gen"
      /\ wire' = Others(i) /\ Fits(wire[i]) /\ wire[i].ch \in Chapters
  BY Parts, Served DEF ServeGen, page, Calm
<1>2. task.pc = "sent" /\ wire[i].ch = task.ch /\ task.op # "tool"
  BY <1>1 DEF Fits, Role
<1>3. PICK word \in Words : /\ AddNode(wire[i].ch, task.op, <<wire[i].ch, word>>)
                            /\ task' = [task EXCEPT !.pc = "answered", !.out = <<wire[i].ch, word>>]
  BY DEF ServeGen
<1>4. PICK c, t, kind, w : c = wire[i].ch /\ t = <<wire[i].ch, word>> /\ kind = task.op /\ w = Others(i)
  OBVIOUS
<1>5. c \in Chapters /\ t \in Texts /\ kind \in {"draft", "manual", "polish", "expand"} /\ AddNode(c, kind, t)
  BY <1>1, <1>2, <1>3, <1>4, Facts DEF WaitsOK, WriterAssumption
<1>6. /\ Keeps /\ \A v \in DOMAIN nodes : nodes'[v] = nodes[v]
      /\ \A d \in Chapters : d # c => head'[d] = head[d]
  BY <1>1, <1>5, AddNodeT
<1>7. /\ task.ch = active /\ opening.pc = "idle" /\ undo.pc = "idle" /\ ~focus
  BY <1>2 DEF Calm, HomeInv, OneWait, Quiet, Waiting
<1>8. \A d \in Chapters : (Stored(d) => Stored(d)') /\ (d # active => HeadText(d)' = HeadText(d))
  BY <1>1, <1>2, <1>4, <1>6, <1>7 DEF Stored, Keeps, HeadText, ServerT
<1>9. task'.pc = "answered" /\ task'.op = task.op /\ task'.to = task.to
  BY <1>1, <1>3 DEF WaitsOK
<1>10. ~Level'
  BY <1>2, <1>9 DEF Level
<1>11. NoSave(wire, active)
  BY <1>1, <1>2, <1>7, NoneBeside
<1>12. task'.to # NoNode
  BY <1>2, <1>9 DEF Safe, Saved
<1> QED BY <1>1, <1>4, <1>7, <1>8, <1>10, <1>11, <1>12, HeadMoves

LEMMA ServeToolKeep ==
    ASSUME WriterAssumption, Calm, Safe, UNCHANGED <<page, latest>>, NEW i \in DOMAIN wire, ~Overtakes(i),
           ServeTool(i, wire[i])
    PROVE  Safe'
<1>1. /\ WaitsOK /\ UNCHANGED <<nodes, head, opening, undo, active, review>> /\ wire[i].kind = "tool"
      /\ wire' = Others(i) /\ Fits(wire[i]) /\ task' = [task EXCEPT !.pc = "answered"]
  BY Parts, Served DEF ServeTool, page, server, Calm
<1>2. task.op = "tool" /\ task'.op = "tool"
  BY <1>1 DEF Fits, WaitsOK
<1>3. Level' => Level
  BY <1>1, <1>2 DEF Level
<1>4. PICK w : w = wire'
  OBVIOUS
<1>5. After(i, w)
  BY <1>1, <1>4 DEF After
<1> QED BY <1>1, <1>2, <1>3, <1>4, <1>5, OtherServed DEF Safe, Saved

LEMMA ServeOpenKeep ==
    ASSUME WriterAssumption, Calm, Safe, UNCHANGED <<page, latest>>, NEW i \in DOMAIN wire, ~Overtakes(i),
           ServeOpen(i, wire[i])
    PROVE  Safe'
<1>1. /\ WaitsOK /\ UNCHANGED <<nodes, head, task, undo, active, review>> /\ wire[i].kind = "open"
      /\ wire' = Others(i) /\ Fits(wire[i])
      /\ opening' = [opening EXCEPT !.pc = "answered", !.text = HeadText(wire[i].ch)]
  BY Parts, Served DEF ServeOpen, page, server, Calm
<1>2. opening'.ch = opening.ch /\ opening'.text = HeadText(opening.ch) /\ wire[i].ch = opening.ch
  BY <1>1 DEF Fits, WaitsOK
<1>3. opening'.ch # active => NoSave(wire, opening'.ch)
  <2>1. opening.ch # active => Leaves(wire[i])
    BY <1>1, <1>2 DEF Leaves
  <2> QED BY <1>2, <2>1, LeftBehind DEF Calm, Fresh
<1>4. Level' => Level
  BY <1>1 DEF Level
<1>5. PICK w : w = wire'
  OBVIOUS
<1>6. After(i, w)
  BY <1>1, <1>5 DEF After
<1> QED BY <1>1, <1>2, <1>3, <1>4, <1>5, <1>6, OtherServed DEF Safe, Saved

LEMMA ServeRevertKeep ==
    ASSUME WriterAssumption, Calm, Safe, UNCHANGED <<page, latest>>, NEW i \in DOMAIN wire, ~Overtakes(i),
           ServeRevert(i, wire[i])
    PROVE  Safe'
<1>1. /\ ServerT /\ WaitsOK /\ TypeInv /\ UNCHANGED <<nodes, task, opening, active>> /\ wire[i].kind = "revert"
      /\ wire' = Others(i) /\ Fits(wire[i]) /\ wire[i] \in Homely /\ wire[i].ch \in Chapters
      /\ head' = [head EXCEPT ![wire[i].ch] = wire[i].node]
      /\ undo' = [undo EXCEPT !.pc = "answered", !.text = nodes[wire[i].node].text]
  BY Parts, Served, Inside DEF ServeRevert, page, Calm, HomeInv
<1>2. undo.pc = "sent" /\ undo'.pc = "answered" /\ undo'.text = nodes[wire[i].node].text /\ wire[i].ch = active
  BY <1>1 DEF Fits, WaitsOK, Homely
<1>3. HeadText(active)' = undo'.text
  BY <1>1, <1>2 DEF HeadText, ServerT
<1>4. ~focus /\ task.pc = "idle" /\ opening.pc = "idle"
  BY <1>2 DEF Calm, Quiet, Waiting, HomeInv, OneWait
<1>5. ~Level'
  BY <1>2 DEF Level
<1>6. \A c \in Chapters : (Stored(c) => Stored(c)') /\ (c # active => HeadText(c)' = HeadText(c))
  BY <1>1, <1>2 DEF Stored, HeadText, ServerT
<1>7. NoSave(wire, active)
  <2>1. Leaves(wire[i])
    BY <1>1 DEF Leaves
  <2> QED BY <1>1, <1>2, <2>1, LeftBehind DEF Calm, Fresh
<1>8. PICK w : w = wire'
  OBVIOUS
<1> QED BY <1>1, <1>3, <1>4, <1>5, <1>6, <1>7, <1>8, HeadMoves

LEMMA ServeKeep ==
    ASSUME WriterAssumption, Calm, Safe, ~mishap', Serve
    PROVE  Safe'
BY ServeSaveKeep, ServeAnalyzeKeep, ServeListKeep, ServeGenKeep, ServeToolKeep, ServeOpenKeep,
   ServeRevertKeep DEF Serve

LEMMA FailKeep ==
    ASSUME WriterAssumption, Calm, Safe, ~mishap', Fail
    PROVE  Safe'
<1>1. UNCHANGED <<page, latest, nodes, head, active, review>>
  BY DEF Fail, server, page
<1>2. PICK i \in DOMAIN wire :
         /\ wire[i].kind # "save" /\ wire' = Others(i)
         /\ task' = IF wire[i].kind \in {"list", "gen", "tool"} THEN NoTask ELSE task
         /\ opening' = IF wire[i].kind = "open" THEN NoOpening ELSE opening
         /\ undo' = IF wire[i].kind = "revert" THEN NoUndo ELSE undo
  BY DEF Fail
<1>3. Fits(wire[i])
  BY Served DEF Calm
<1>4. /\ task' = task \/ (task'.pc = "idle" /\ task.pc # "answered")
      /\ opening' = opening \/ opening'.pc = "idle"
      /\ undo' = undo \/ (undo'.pc = "idle" /\ undo.pc # "answered")
  BY <1>2, <1>3 DEF NoTask, NoOpening, NoUndo, Fits
<1>5. PICK w : w = wire'
  OBVIOUS
<1>6. After(i, w)
  BY <1>2, <1>5 DEF After
<1>7. Level' => Level
  BY <1>1, <1>4 DEF Level
<1>8. opening'.pc = "answered" /\ opening'.ch # active =>
          HeadText(opening'.ch) = opening'.text /\ NoSave(wire, opening'.ch)
  BY <1>4 DEF Safe, Saved
<1>9. task'.pc \in {"sent", "answered"} /\ task'.op # "tool" => task'.to # NoNode
  BY <1>4 DEF Safe, Saved
<1> QED BY <1>1, <1>2, <1>4, <1>5, <1>6, <1>7, <1>8, <1>9, OtherServed

LEMMA StutterKeep ==
    ASSUME Safe, UNCHANGED vars
    PROVE  Safe'
<1>1. UNCHANGED <<nodes, head, wire, active, text, focus, review, task, opening, undo, latest>>
  BY DEF vars, server, page, timers, waits
<1>2. Saved'
  BY <1>1 DEF Safe, Saved, HeadText, NoSave
<1>3. InStep(wire, focus)'
  BY <1>1 DEF Safe, InStep, Level, Settled, LastSave, NoSave, HeadText
<1>4. ASSUME NEW c \in Chapters PROVE Kept(wire, focus, c)'
  BY <1>1 DEF Safe, Kept, Stored, LastSave, Asks, HeadText
<1> QED BY <1>2, <1>3, <1>4 DEF Safe

LEMMA StepKeep ==
    ASSUME Patient, TypeInv, HomeInv, ReviewInv, KeepInv, [Next]_vars
    PROVE  KeepInv'
<1> SUFFICES ASSUME ~mishap' PROVE Safe'
  BY DEF KeepInv
<1>1. Calm /\ Safe /\ ~AnswerLost
  BY NoMishap DEF Calm, ReviewInv, KeepInv
<1> QED
  BY <1>1, WriterAssumption, TypeKeep, BlurKeep, OpenKeep, StartTaskKeep, ReviewEditKeep,
     FinishReviewKeep, CancelReviewKeep, RevertToKeep, TimersKeep, OpenAnsweredKeep,
     TaskAnsweredKeep, UndoAnsweredKeep, ServeKeep, FailKeep, StutterKeep
     DEF Next, Writer, Timers, Answers

LEMMA InitKeep ==
    ASSUME WriterAssumption, Init
    PROVE  KeepInv
<1>1. wire = << >> /\ focus = FALSE /\ active = NoChapter
      /\ task.pc = "idle" /\ opening.pc = "idle" /\ undo.pc = "idle"
  BY DEF Init, NoTask, NoOpening, NoUndo
<1>2. Saved /\ InStep(wire, focus)
  BY <1>1 DEF Saved, InStep, Level
<1>3. ASSUME NEW c \in Chapters PROVE Kept(wire, focus, c)
  <2>1. c \in DOMAIN nodes /\ nodes[c].ch = c /\ nodes[c].text = latest[c]
    BY DEF Init
  <2> QED BY <1>1, <2>1 DEF Kept, Stored, Asks
<1> QED BY <1>2, <1>3 DEF Safe, KeepInv

\* What was last written in a chapter is in the editor, on its way or in a version
\* (useChapterDraft.ts, blur and timer; version.py, save and revert): for a writer who waits for
\* answers, whatever fails besides a save, until a mishap.
THEOREM NothingIsLost ==
    ASSUME Patient
    PROVE  Spec => []NothingLost
<1>1. Init => TypeInv /\ HomeInv /\ ReviewInv /\ KeepInv
  BY InitType, InitHome, InitReview, InitKeep, WriterAssumption
<1>2. TypeInv /\ HomeInv /\ ReviewInv /\ KeepInv /\ [Next]_vars => (TypeInv /\ HomeInv /\ ReviewInv /\ KeepInv)'
  BY StepType, StepHome, StepReview, StepKeep
<1>3. KeepInv => NothingLost
  <2> SUFFICES ASSUME Safe, NEW c \in Chapters
               PROVE  \/ active = c /\ text = latest[c]
                      \/ \E i \in DOMAIN wire : wire[i].kind = "save" /\ wire[i].ch = c /\ wire[i].text = latest[c]
                      \/ \E v \in DOMAIN nodes : nodes[v].ch = c /\ nodes[v].text = latest[c]
    BY DEF NothingLost, KeepInv
  <2>1. CASE c = active /\ focus
    BY <2>1 DEF Safe, Saved
  <2>2. CASE LastSave(wire, c, latest[c])
    BY <2>2 DEF LastSave, IsSave
  <2>3. CASE Stored(c)
    BY <2>3 DEF Stored
  <2> QED BY <2>1, <2>2, <2>3 DEF Safe, Kept
<1> QED BY <1>1, <1>2, <1>3, PTL DEF Spec
=============================================================================
