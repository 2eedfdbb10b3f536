--------------------------- MODULE WriterSession ----------------------------
(***************************************************************************)
(* One writer at the builder's page (builder/frontend/src/app): the open   *)
(* chapter and its text (useChapterDraft.ts), the paragraph review         *)
(* (useDiffReview.ts), generation and tools (usePipeline.ts), the version  *)
(* list's revert (useVersions.ts) and the shell that joins them            *)
(* (WriterShell.tsx).                                                      *)
(*                                                                         *)
(* JavaScript runs one handler at a time, up to its next await.  An action *)
(* is such a stretch together with the effects React runs after it.  What  *)
(* a handler captured when it started it still uses when the answer        *)
(* comes, whatever the page shows by then.  The server is the chapter      *)
(* store with each request in one step (ChapterStore splits them).  Every  *)
(* text carries the chapter it was written for.                            *)
(***************************************************************************)
EXTENDS Integers, Sequences

CONSTANTS
    NChapters,    \* chapters are 1 .. NChapters
    Words,        \* what the writer may type and the model may answer
    Blank,        \* what a chapter holds at first
    GenModes,     \* the generation modes the writer uses
    AutoAnalyze,  \* is automatic analysis switched on?
    Patient,      \* does the writer wait while an answer is outstanding?
    Failures,     \* may requests fail?
    MaxActs,      \* bound of the explored instance: acts of the writer in all
    MaxWire       \* bound of the explored instance: a timer fires with fewer requests under way

ASSUME WriterAssumption ==
    /\ {NChapters, MaxActs, MaxWire} \subseteq Nat
    /\ Blank \in Words
    /\ GenModes \subseteq {"draft", "polish", "expand"}
    /\ {AutoAnalyze, Patient, Failures} \subseteq BOOLEAN

NoChapter == 0
NoNode    == 0
Chapters  == 1 .. NChapters
Texts     == Chapters \X Words
Editable  == {"draft", "manual"}

VARIABLES
    nodes,      \* server: all version nodes, [ch, kind, text]
    head,       \* server: chapter -> its head node
    wire,       \* requests sent and not served yet, oldest first
    active,     \* the chapter on the page, or NoChapter
    opened,     \* the text that came with it when it was loaded
    text,       \* the editor's text
    focus,      \* has the text area the focus since the writer typed?
    timer,      \* is the autosave timer running?
    scanTimer,  \* is the analysis timer running?
    scanned,    \* the text of the last automatic analysis
    review,     \* the review that replaces the editor, if any
    busy,       \* the busy flag of usePipeline
    task,       \* the generation or tool under way
    opening,    \* the chapter being loaded
    undo,       \* the revert under way
    latest,     \* history: chapter -> what the writer made of it last
    mishap,     \* history: has a save been overtaken or lost, the answer to a revert or a
                \* generation been lost, or a timer saved a text that an answer is going to
                \* replace or a review has put aside?
    acts        \* history: acts of the writer so far

server == <<nodes, head>>
page   == <<active, opened, text, focus, review>>
timers == <<timer, scanTimer, scanned>>
waits  == <<busy, task, opening, undo>>
vars   == <<server, wire, page, timers, waits, latest, mishap, acts>>

BlankOf(c) == <<c, Blank>>
NoText     == <<NoChapter, Blank>>
NoReview   == [open |-> FALSE, base |-> NoText, out |-> NoText, to |-> NoNode]
NoTask     == [pc |-> "idle", op |-> "none", ch |-> NoChapter, opened |-> NoText,
               base |-> NoText, to |-> NoNode, out |-> NoText]
NoOpening  == [pc |-> "idle", ch |-> NoChapter, text |-> NoText]
NoUndo     == [pc |-> "idle", cancel |-> FALSE, text |-> NoText]

Request(kind, by, c, t, v) == [kind |-> kind, by |-> by, ch |-> c, text |-> t, node |-> v]

HeadText(c) == nodes[head[c]].text

Init ==
    /\ nodes = [c \in Chapters |-> [ch |-> c, kind |-> "draft", text |-> BlankOf(c)]]
    /\ head = [c \in Chapters |-> c]
    /\ wire = << >>
    /\ active = NoChapter /\ opened = NoText /\ text = NoText /\ focus = FALSE
    /\ review = NoReview
    /\ timer = FALSE /\ scanTimer = FALSE /\ scanned = NoText
    /\ busy = "" /\ task = NoTask /\ opening = NoOpening /\ undo = NoUndo
    /\ latest = [c \in Chapters |-> BlankOf(c)]
    /\ mishap = FALSE /\ acts = 0

-----------------------------------------------------------------------------
\* The effects that run after a handler has changed the page.

\* Seeded fault: the autosave timer does not stop for a review.
RearmUnpaused ==
    timer' = (active' # NoChapter
              /\ (timer \/ text' # text \/ active' # active \/ review' # review))

\* The autosave timer starts anew when the text, the chapter or the review
\* changes; it does not run while there is no chapter or a review is open.
Rearm ==
    timer' = (/\ active' # NoChapter /\ ~review'.open
              /\ timer \/ text' # text \/ active' # active \/ review'.open # review.open)

\* The analysis timer starts anew when the text or the chapter changes; it knows
\* nothing of reviews.
RearmScan ==
    /\ scanTimer' = (/\ AutoAnalyze /\ active' # NoChapter
                     /\ scanTimer \/ text' # text \/ active' # active)
    /\ UNCHANGED scanned

Effects == Rearm /\ RearmScan

\* Seeded fault: a chapter that comes on screen leaves the editor as it is.
ShowKeepingText(c, t) ==
    /\ active' = c /\ opened' = t
    /\ UNCHANGED <<text, review>>

\* setActive(detail) and the effects of another chapter id: the editor takes the
\* text that came with the chapter, and a review is dropped.
Show(c, t) ==
    /\ active' = c /\ opened' = t
    /\ \/ /\ c # active
          /\ text' = t /\ review' = NoReview
       \/ /\ c = active
          /\ UNCHANGED <<text, review>>

-----------------------------------------------------------------------------
Waiting == task.pc # "idle" \/ opening.pc # "idle" \/ undo.pc # "idle"

\* The writer acts.
Act ==
    /\ acts < MaxActs /\ acts' = acts + 1 /\ UNCHANGED mishap
    /\ Patient => ~Waiting

\* doSave: the chapter as captured, the text as it is.
Save(by, t) == Request("save", by, active, t, NoNode)

Editing == active # NoChapter /\ ~review.open

\* Any click takes the focus from the text area, whose onBlur saves.
Blurred == IF focus /\ Editing THEN <<Save("blur", text)>> ELSE << >>

Type ==
    /\ Act /\ Editing
    /\ \E word \in Words :
         /\ <<active, word>> # text
         /\ text' = <<active, word>>
         /\ latest' = [latest EXCEPT ![active] = <<active, word>>]
    /\ focus' = TRUE
    /\ UNCHANGED <<active, opened, review>>
    /\ Effects
    /\ UNCHANGED <<server, wire, waits>>

\* Clicking somewhere else.
Blur ==
    /\ focus
    /\ wire' = wire \o Blurred
    /\ focus' = FALSE
    /\ UNCHANGED <<server, active, opened, text, review, timers, waits, latest, mishap, acts>>

\* Is an answer going to replace the text of the open chapter?
Replacing == undo.pc # "idle" \/ (task.pc = "answered" /\ task.op # "tool")

\* Ten seconds without a change.
TimerFires ==
    /\ timer /\ Len(wire) < MaxWire
    /\ wire' = Append(wire, Save("timer", text))
    /\ timer' = FALSE
    /\ mishap' = (mishap \/ Replacing)
    /\ UNCHANGED <<server, page, scanTimer, scanned, waits, latest, acts>>

\* Twelve seconds without a change: analyzeNow, unless this text was analysed.
ScanFires ==
    /\ scanTimer /\ Len(wire) < MaxWire
    /\ scanTimer' = FALSE
    /\ \/ /\ text # scanned
          /\ scanned' = text
          /\ busy' = "analyze"
          /\ wire' = Append(wire, Save("scan", text))
          /\ mishap' = (mishap \/ Replacing \/ (review.open /\ review.to # NoNode))
       \/ /\ text = scanned
          /\ UNCHANGED <<scanned, busy, wire, mishap>>
    /\ UNCHANGED <<server, page, timer, task, opening, undo, latest, acts>>

-----------------------------------------------------------------------------
\* openChapter: the page changes when the answer is there.  One load at a time
\* (bound of the explored instance).
Open ==
    /\ Act /\ opening.pc = "idle"
    /\ \E c \in Chapters :
         /\ wire' = wire \o Blurred \o <<Request("open", "open", c, NoText, NoNode)>>
         /\ opening' = [NoOpening EXCEPT !.pc = "sent", !.ch = c]
    /\ focus' = FALSE
    /\ UNCHANGED <<server, active, opened, text, review, timers, busy, task, undo, latest>>

OpenAnswered ==
    /\ opening.pc = "answered"
    /\ Show(opening.ch, opening.text)
    /\ opening' = NoOpening
    /\ UNCHANGED focus /\ Effects
    /\ UNCHANGED <<server, wire, busy, task, undo, latest, mishap, acts>>

\* onToggle, onDetect and onCanonDiff begin with doSave.  The chapter as it was
\* loaded and the text of this moment are captured.
StartTask ==
    /\ Act /\ Editing /\ busy = "" /\ task.pc = "idle"
    /\ \E op \in GenModes \cup {"tool"} :
         task' = [NoTask EXCEPT !.pc = "saving", !.op = op, !.ch = active,
                                !.opened = opened, !.base = text]
    /\ busy' = "task"
    /\ wire' = wire \o Blurred \o <<Save("task", text)>>
    /\ focus' = FALSE
    /\ UNCHANGED <<server, active, opened, text, review, timers, opening, undo, latest>>

\* The generation is there.  The captured chapter is put on the page again; the
\* review of what was captured against what came opens, unless they are equal.
\* If that changed the chapter, its effects end the review again.
TaskAnswered ==
    /\ task.pc = "answered"
    /\ active' = task.ch /\ opened' = task.opened
    /\ \/ /\ task.ch # active
          /\ text' = task.opened /\ review' = NoReview
       \/ /\ task.ch = active /\ task.op = "tool"
          /\ UNCHANGED <<text, review>>
       \/ /\ task.ch = active /\ task.op # "tool" /\ task.base = task.out
          /\ text' = task.out
          /\ UNCHANGED review
       \/ /\ task.ch = active /\ task.op # "tool" /\ task.base # task.out
          /\ review' = [open |-> TRUE, base |-> task.base, out |-> task.out, to |-> task.to]
          /\ UNCHANGED text
    /\ focus' = (focus /\ ~review'.open)
    /\ task' = NoTask /\ busy' = ""
    /\ Effects
    /\ UNCHANGED <<server, wire, opening, undo, latest, mishap, acts>>

-----------------------------------------------------------------------------
\* reviewReplace and reviewInsert: an edit of the selection is reviewed like a
\* generation, with no version to go back to.
ReviewEdit ==
    /\ Act /\ Editing
    /\ \E word \in Words :
         /\ <<active, word>> # text
         /\ review' = [open |-> TRUE, base |-> text, out |-> <<active, word>>, to |-> NoNode]
    /\ wire' = wire \o Blurred
    /\ focus' = FALSE
    /\ UNCHANGED <<active, opened, text>>
    /\ Effects
    /\ UNCHANGED <<server, waits, latest>>

\* Seeded fault: the merged text is not saved.
FinishUnsaved ==
    /\ Act /\ review.open /\ undo.pc = "idle"
    /\ \E m \in {review.base, review.out} :
         /\ text' = m
         /\ latest' = [latest EXCEPT ![active] = m]
    /\ timer' = FALSE
    /\ review' = NoReview
    /\ UNCHANGED <<server, wire, active, opened, focus, waits>>
    /\ RearmScan

\* Finish or accept all: what was decided becomes the text and is saved.  Of the
\* merges of the paragraphs, the two extreme ones stand for all.
FinishReview ==
    /\ Act /\ review.open /\ undo.pc = "idle"
    /\ \E m \in {review.base, review.out} :
         /\ text' = m
         /\ wire' = Append(wire, Save("review", m))
         /\ latest' = [latest EXCEPT ![active] = m]
    /\ review' = NoReview
    /\ UNCHANGED <<active, opened, focus>>
    /\ Effects
    /\ UNCHANGED <<server, waits>>

\* Cancel all: back to the version before the generation, or just drop the edit.
CancelReview ==
    /\ Act /\ review.open /\ undo.pc = "idle"
    /\ \/ /\ review.to = NoNode
          /\ review' = NoReview
          /\ UNCHANGED <<wire, undo>>
       \/ /\ review.to # NoNode
          /\ wire' = Append(wire, Request("revert", "undo", active, NoText, review.to))
          /\ undo' = [NoUndo EXCEPT !.pc = "sent", !.cancel = TRUE]
          /\ UNCHANGED review
    /\ UNCHANGED <<active, opened, text, focus>>
    /\ Effects
    /\ UNCHANGED <<server, busy, task, opening, latest>>

\* The version list's revert.
RevertTo ==
    /\ Act /\ Editing /\ undo.pc = "idle"
    /\ \E v \in DOMAIN nodes :
         /\ nodes[v].ch = active
         /\ wire' = wire \o Blurred \o <<Request("revert", "undo", active, NoText, v)>>
    /\ undo' = [NoUndo EXCEPT !.pc = "sent"]
    /\ focus' = FALSE
    /\ UNCHANGED <<server, active, opened, text, review, timers, busy, task, opening, latest>>

\* The head has moved: its text goes into the editor, whichever chapter is there.
UndoAnswered ==
    /\ undo.pc = "answered"
    /\ text' = undo.text
    /\ review' = IF undo.cancel THEN NoReview ELSE review
    /\ undo' = NoUndo
    /\ UNCHANGED <<active, opened, focus>>
    /\ Effects
    /\ UNCHANGED <<server, wire, busy, task, opening, latest, mishap, acts>>

-----------------------------------------------------------------------------
\* The server.
AddNode(c, kind, t) ==
    /\ nodes' = Append(nodes, [ch |-> c, kind |-> kind, text |-> t])
    /\ head' = [head EXCEPT ![c] = Len(nodes) + 1]

\* update_head_text: see ChapterStore.
Store(c, t) ==
    LET node == nodes[head[c]]
    IN  \/ /\ node.text = t
           /\ UNCHANGED server
        \/ /\ node.text # t /\ node.kind \in Editable
           /\ nodes' = [nodes EXCEPT ![head[c]].text = t]
           /\ UNCHANGED head
        \/ /\ node.text # t /\ node.kind \notin Editable
           /\ AddNode(c, "manual", t)

Others(i) == [k \in 1 .. Len(wire) - 1 |-> IF k < i THEN wire[k] ELSE wire[k + 1]]

\* The next request of a task or an analysis, once its save is done or has failed
\* (doSave catches).
Onward(i, r) ==
    \/ /\ r.by \notin {"task", "scan"}
       /\ wire' = Others(i)
       /\ UNCHANGED task
    \/ /\ r.by = "scan"
       /\ wire' = Append(Others(i), Request("analyze", "analyze", r.ch, NoText, NoNode))
       /\ UNCHANGED task
    \/ /\ r.by = "task" /\ task.op = "tool"
       /\ wire' = Append(Others(i), Request("tool", "tool", r.ch, NoText, NoNode))
       /\ task' = [task EXCEPT !.pc = "sent"]
    \/ /\ r.by = "task" /\ task.op # "tool"
       /\ wire' = Append(Others(i), Request("list", "list", r.ch, NoText, NoNode))
       /\ task' = [task EXCEPT !.pc = "listing"]

ServeSave(i, r) ==
    /\ r.kind = "save"
    /\ Store(r.ch, r.text)
    /\ Onward(i, r)
    /\ UNCHANGED <<busy, opening, undo>>

\* The end of an analysis clears the busy flag, whose ever it is.
ServeAnalyze(i, r) ==
    /\ r.kind = "analyze"
    /\ busy' = ""
    /\ wire' = Others(i)
    /\ UNCHANGED <<server, task, opening, undo>>

ServeList(i, r) ==
    /\ r.kind = "list"
    /\ task' = [task EXCEPT !.pc = "sent", !.to = head[r.ch]]
    /\ wire' = Append(Others(i), Request("gen", "gen", r.ch, NoText, NoNode))
    /\ UNCHANGED <<server, busy, opening, undo>>

ServeGen(i, r) ==
    /\ r.kind = "gen"
    /\ \E word \in Words :
         /\ AddNode(r.ch, task.op, <<r.ch, word>>)
         /\ task' = [task EXCEPT !.pc = "answered", !.out = <<r.ch, word>>]
    /\ wire' = Others(i)
    /\ UNCHANGED <<busy, opening, undo>>

ServeTool(i, r) ==
    /\ r.kind = "tool"
    /\ task' = [task EXCEPT !.pc = "answered"]
    /\ wire' = Others(i)
    /\ UNCHANGED <<server, busy, opening, undo>>

ServeOpen(i, r) ==
    /\ r.kind = "open"
    /\ opening' = [opening EXCEPT !.pc = "answered", !.text = HeadText(r.ch)]
    /\ wire' = Others(i)
    /\ UNCHANGED <<server, busy, task, undo>>

\* Seeded fault: the answer carries the text of the head before the revert.
ServeRevertLate(i, r) ==
    /\ r.kind = "revert"
    /\ head' = [head EXCEPT ![r.ch] = r.node]
    /\ undo' = [undo EXCEPT !.pc = "answered", !.text = HeadText(r.ch)]
    /\ wire' = Others(i)
    /\ UNCHANGED <<nodes, busy, task, opening>>

ServeRevert(i, r) ==
    /\ r.kind = "revert"
    /\ head' = [head EXCEPT ![r.ch] = r.node]
    /\ undo' = [undo EXCEPT !.pc = "answered", !.text = nodes[r.node].text]
    /\ wire' = Others(i)
    /\ UNCHANGED <<nodes, busy, task, opening>>

\* Does this request get to the server before a save of its chapter that was sent earlier, or,
\* a generation, before any save of its chapter?
Overtakes(i) ==
    \E k \in DOMAIN wire \ {i} :
      /\ wire[k].kind = "save" /\ wire[k].ch = wire[i].ch
      /\ wire[i].kind = "gen" \/ (k < i /\ wire[i].kind \in {"save", "open", "revert"})

Serve ==
    /\ \E i \in DOMAIN wire :
         /\ mishap' = (mishap \/ Overtakes(i))
         /\ LET r == wire[i]
            IN  \/ ServeSave(i, r) \/ ServeAnalyze(i, r) \/ ServeList(i, r) \/ ServeGen(i, r)
                \/ ServeTool(i, r) \/ ServeOpen(i, r) \/ ServeRevert(i, r)
    /\ UNCHANGED <<page, timers, latest, acts>>

\* Seeded fault: a failed generation or analysis leaves the busy flag set.
FailBusy ==
    /\ Failures
    /\ \E i \in DOMAIN wire :
         LET r == wire[i]
         IN  /\ r.kind # "save"
             /\ wire' = Others(i)
             /\ task' = IF r.kind \in {"list", "gen", "tool"} THEN NoTask ELSE task
             /\ opening' = IF r.kind = "open" THEN NoOpening ELSE opening
             /\ undo' = IF r.kind = "revert" THEN NoUndo ELSE undo
    /\ UNCHANGED <<server, page, timers, busy, latest, mishap, acts>>

\* A request fails: what waited for it gives up.
Fail ==
    /\ Failures
    /\ \E i \in DOMAIN wire :
         LET r == wire[i]
         IN  /\ \/ /\ r.kind = "save"
                   /\ Onward(i, r)
                \/ /\ r.kind # "save"
                   /\ wire' = Others(i)
                   /\ task' = IF r.kind \in {"list", "gen", "tool"} THEN NoTask ELSE task
             /\ busy' = IF r.kind \in {"analyze", "list", "gen", "tool"} THEN "" ELSE busy
             /\ opening' = IF r.kind = "open" THEN NoOpening ELSE opening
             /\ undo' = IF r.kind = "revert" THEN NoUndo ELSE undo
             /\ mishap' = (mishap \/ r.kind = "save")
    /\ UNCHANGED <<server, page, timers, latest, acts>>

\* The server has stored a generation or moved the head, and the answer is lost.  (Of the other
\* requests an answer that is lost does what Fail does, or for a save ServeSave.)
AnswerLost ==
    /\ Failures
    /\ \E i \in DOMAIN wire :
         LET r == wire[i]
         IN  /\ \/ /\ r.kind = "gen"
                   /\ \E word \in Words : AddNode(r.ch, task.op, <<r.ch, word>>)
                   /\ task' = NoTask /\ busy' = ""
                   /\ UNCHANGED undo
                \/ /\ r.kind = "revert"
                   /\ head' = [head EXCEPT ![r.ch] = r.node]
                   /\ undo' = NoUndo
                   /\ UNCHANGED <<nodes, task, busy>>
             /\ wire' = Others(i)
    /\ mishap' = TRUE
    /\ UNCHANGED <<opening, page, timers, latest, acts>>

Timers  == TimerFires \/ ScanFires
Answers == OpenAnswered \/ TaskAnswered \/ UndoAnswered
Writer  == Type \/ Blur \/ Open \/ StartTask \/ ReviewEdit \/ FinishReview \/ CancelReview \/ RevertTo

Next == Writer \/ Timers \/ Answers \/ Serve \/ Fail \/ AnswerLost

\* Timers fire, requests are served and answers handled; the writer may stop.
Spec ==
    /\ Init /\ [][Next]_vars
    /\ WF_vars(TimerFires) /\ WF_vars(Serve) /\ WF_vars(Answers)

-----------------------------------------------------------------------------
AnyText == Texts \cup {NoText}
Requests ==
    [kind : {"save", "open", "list", "gen", "tool", "revert", "analyze"},
     by   : {"blur", "timer", "scan", "task", "review", "open", "list", "gen", "tool", "undo",
             "analyze"},
     ch : Chapters, text : AnyText, node : Nat]

\* Types; and what the page keeps together: a review has a chapter under it and
\* stops the autosave timer, and every chapter of the server has a node of its
\* own as its head.
TypeOK ==
    /\ nodes \in Seq([ch : Chapters, kind : {"draft", "manual", "polish", "expand"}, text : Texts])
    /\ head \in [Chapters -> DOMAIN nodes]
    /\ \A c \in Chapters : nodes[head[c]].ch = c
    /\ wire \in Seq(Requests)
    /\ active \in Chapters \cup {NoChapter} /\ {opened, text, scanned} \subseteq AnyText
    /\ {focus, timer, scanTimer} \subseteq BOOLEAN
    /\ review \in [open : BOOLEAN, base : AnyText, out : AnyText, to : {NoNode} \cup DOMAIN nodes]
    /\ review.open => active # NoChapter /\ ~timer /\ ~focus
    /\ busy \in {"", "task", "analyze"}
    /\ task.pc \in {"idle", "saving", "listing", "sent", "answered"}
    /\ opening.pc \in {"idle", "sent", "answered"}
    /\ undo.pc \in {"idle", "sent", "answered"}
    /\ latest \in [Chapters -> Texts] /\ mishap \in BOOLEAN /\ acts \in 0 .. MaxActs

\* Short of a mishap, what the writer made of a chapter last is never lost: it is in the editor,
\* in a save on its way, or in a version of the chapter (useChapterDraft.ts: blur, the timer and
\* the flush before a generation save it; version.py keeps it).
NothingLost ==
    ~mishap =>
      \A c \in Chapters :
        \/ active = c /\ text = latest[c]
        \/ \E i \in DOMAIN wire : wire[i].kind = "save" /\ wire[i].ch = c /\ wire[i].text = latest[c]
        \/ \E v \in DOMAIN nodes : nodes[v].ch = c /\ nodes[v].text = latest[c]

\* The editor shows a text of the open chapter, and every version of a chapter
\* holds a text of that chapter: nothing written in one chapter gets into another
\* (WriterShell.tsx and useVersions.ts put answers into whatever is open).
HomeTexts ==
    /\ active # NoChapter => text[1] = active
    /\ \A v \in DOMAIN nodes : nodes[v].text[1] = nodes[v].ch

\* While a generation is under review it is, short of a mishap, the head of its chapter, so that
\* accepting all of it changes nothing and leaving the review loses nothing.
ReviewedIsHead ==
    ~mishap /\ review.open /\ review.to # NoNode /\ undo.pc = "idle" =>
        HeadText(active) = review.out

\* Once the writer stops (acts are bounded), the editor comes to show the head of the open
\* chapter and stays so, whatever was typed, generated or reverted before, short of a mishap.
EditorShowsHead ==
    <>[](~mishap /\ active # NoChapter /\ ~review.open => text = HeadText(active))

\* Everything asked of the server is answered and handled in the end.
WaitsEnd == <>[](~Waiting /\ busy = "" /\ wire = << >>)
=============================================================================
