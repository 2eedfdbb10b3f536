---------------------------- MODULE ChapterStore ----------------------------
(***************************************************************************)
(* The chapter store of the builder: the tables versions, pipeline_runs,   *)
(* manuscripts and autosaves, and the request handlers that write them     *)
(* (builder/src/builder/store/version.py, store/repo.py, store/db.py and   *)
(* the routers in api/).                                                   *)
(*                                                                         *)
(* Handlers are synchronous functions that a thread pool runs side by      *)
(* side.  Every `with get_conn()` block is a connection of its own: a      *)
(* SELECT runs outside any transaction and the block's first write opens   *)
(* one that commits when the block ends.  One action below is therefore    *)
(* one read or one write transaction; a handler is a chain of them, and    *)
(* other workers, an exception or a crash of the process may come between  *)
(* any two.                                                                *)
(***************************************************************************)
EXTENDS Integers, Sequences, FiniteSets, Pipeline

CONSTANTS
    Workers,        \* threads of the pool: requests in flight
    Texts,          \* chapter contents
    Answers,        \* the contents the language model may answer with
    GenModes,       \* the generation modes clients ask for
    Empty,          \* the empty content of a new chapter
    KEEP,           \* const.AUTOSAVE_KEEP
    Ops,            \* the kinds of requests clients send
    ForeignRevert,  \* may a revert name a version of another chapter?
    MaxRequests     \* bound of the explored instance: requests in all

AllOps == {"create", "save", "gen", "polishTool", "canon", "promote", "advance",
           "revert", "delete", "crash"}

ASSUME ConstantsAssumption ==
    /\ Empty \in Texts /\ Answers \subseteq Texts
    /\ GenModes \subseteq {"draft", "polish", "expand"}
    /\ KEEP \in Nat \ {0}
    /\ Ops \subseteq AllOps
    /\ ForeignRevert \in BOOLEAN
    /\ MaxRequests \in Nat

NoVersion == 0                          \* a NULL head or parent; ids start at 1
Kinds     == {"draft", "polish", "expand", "manual"}   \* versions.kind
Editable  == {"draft", "manual"}       \* nodes an autosave rewrites in place
RowKinds  == {"redraft", "polish", "expand", "final"}   \* manuscripts.kind
Steps     == {"idle", "head", "row", "update", "parent", "insert", "llm", "number",
              "row.insert", "state", "set"}

VARIABLES
    versions,     \* live version id -> [chapter, parent, kind, text]
    run,          \* live chapter id -> [state, head]: its pipeline_runs row
    manuscripts,  \* live chapter id -> [draft, rows]: draft row, generated rows
    autosaves,    \* issued chapter id -> snapshots, oldest first (no foreign key)
    nextVid, nextChapter,   \* AUTOINCREMENT: an id is never issued twice
    up,           \* FALSE while init_db migrates after a restart
    req,          \* worker -> the request it handles
    reached,      \* history: live chapter id -> pipeline states it has been in
    bootChapter,  \* history: nextChapter when the process last came up
    started       \* history: how many requests have begun

storage == <<versions, run, manuscripts, autosaves, nextVid, nextChapter>>
history == <<reached, bootChapter>>
vars    == <<storage, up, req, history, started>>

Chapters   == DOMAIN run
Issued     == 1 .. nextChapter - 1
NodesOf(c) == {v \in DOMAIN versions : versions[v].chapter = c}
HeadOf(c)  == IF c \in Chapters THEN run[c].head ELSE NoVersion
StateOf(c) == IF c \in Chapters THEN run[c].state ELSE "DRAFT"

With(f, k, x) == [i \in DOMAIN f \cup {k} |-> IF i = k THEN x ELSE f[i]]
Without(f, S) == [i \in DOMAIN f \ S |-> f[i]]

\* What a worker remembers: the request, the step it is at, and the last value
\* it read (a version id, or the number of a new manuscript row).
Begin(op, pc, c, kind, text, to) ==
    [op |-> op, pc |-> pc, ch |-> c, kind |-> kind, text |-> text, to |-> to, read |-> 0]

Idle == Begin("none", "idle", 0, "none", Empty, "DRAFT")

Admit(op)      == up /\ op \in Ops /\ started < MaxRequests /\ started' = started + 1
Accepts(p, op) == Admit(op) /\ req[p] = Idle
At(p, pc)      == up /\ req[p].pc = pc
Becomes(p, r)  == req' = [req EXCEPT ![p] = r]
Finish(p)      == Becomes(p, Idle)
Goto(p, pc)    == Becomes(p, [req[p] EXCEPT !.pc = pc])

\* The step after a node has been created: only /gen has more to do.
Created(p) == IF req[p].op = "gen" THEN Goto(p, "state") ELSE Finish(p)

-----------------------------------------------------------------------------
Init ==
    /\ versions = [v \in {} |-> v]
    /\ run = [c \in {} |-> c]
    /\ manuscripts = [c \in {} |-> c]
    /\ autosaves = << >>
    /\ nextVid = 1 /\ nextChapter = 1
    /\ up = TRUE
    /\ req = [p \in Workers |-> Idle]
    /\ reached = [c \in {} |-> c]
    /\ bootChapter = 1
    /\ started = 0

\* Seeded fault: the head is the newest row of the table, whoever's it is.
AddNodeHeadOfTable(c, parent, kind, text) ==
    /\ versions' = With(versions, nextVid,
                        [chapter |-> c, parent |-> parent, kind |-> kind, text |-> text])
    /\ run' = [run EXCEPT ![c].head = nextVid - 1]
    /\ nextVid' = nextVid + 1

\* Seeded fault: the second statement of the transaction is missing.
AddNodeOnly(c, parent, kind, text) ==
    /\ versions' = With(versions, nextVid,
                        [chapter |-> c, parent |-> parent, kind |-> kind, text |-> text])
    /\ nextVid' = nextVid + 1
    /\ UNCHANGED run

\* The transaction of version.create: the node and the head move together.
AddNode(c, parent, kind, text) ==
    /\ versions' = With(versions, nextVid,
                        [chapter |-> c, parent |-> parent, kind |-> kind, text |-> text])
    /\ run' = [run EXCEPT ![c].head = nextVid]
    /\ nextVid' = nextVid + 1

-----------------------------------------------------------------------------
\* POST /chapters: the first transaction of repo.create_chapter.  The chapter
\* has no head until the second one, version.create, commits.
CreateChapter(p) ==
    /\ Accepts(p, "create")
    /\ run' = With(run, nextChapter, [state |-> "DRAFT", head |-> NoVersion])
    /\ manuscripts' = With(manuscripts, nextChapter, [draft |-> Empty, rows |-> << >>])
    /\ autosaves' = Append(autosaves, << >>)
    /\ reached' = With(reached, nextChapter, {"DRAFT"})
    /\ nextChapter' = nextChapter + 1
    /\ Becomes(p, Begin("create", "parent", nextChapter, "draft", Empty, "DRAFT"))
    /\ UNCHANGED <<versions, nextVid, up, bootChapter>>

\* Seeded fault: the parent is the newest row of the table.
ReadNewest(p) ==
    /\ At(p, "parent")
    /\ Becomes(p, [req[p] EXCEPT !.read = nextVid - 1, !.pc = "insert"])
    /\ UNCHANGED <<storage, up, history, started>>

\* version.create with no parent given: the head is read on a connection of its own...
ReadParent(p) ==
    /\ At(p, "parent")
    /\ Becomes(p, [req[p] EXCEPT !.read = HeadOf(req[p].ch), !.pc = "insert"])
    /\ UNCHANGED <<storage, up, history, started>>

\* ...and the node is inserted below it.  The foreign key refuses a node of a
\* chapter deleted meanwhile.
InsertVersion(p) ==
    /\ At(p, "insert")
    /\ \/ /\ req[p].ch \in Chapters
          /\ AddNode(req[p].ch, req[p].read, req[p].kind, req[p].text)
          /\ Created(p)
       \/ /\ req[p].ch \notin Chapters
          /\ Finish(p)
          /\ UNCHANGED <<versions, run, nextVid>>
    /\ UNCHANGED <<manuscripts, autosaves, nextChapter, up, history, started>>

-----------------------------------------------------------------------------
\* Seeded fault: the pruning keeps the oldest snapshots.
Oldest(s, n) == IF Len(s) <= n THEN s ELSE SubSeq(s, 1, n)

Newest(s, n) == IF Len(s) <= n THEN s ELSE SubSeq(s, Len(s) - n + 1, Len(s))

\* PUT /chapter/{id}/text: the transaction of repo.save_draft_text.  The writer's
\* chapter may be gone; the autosave row is stored all the same.
SaveDraft(p) ==
    /\ Accepts(p, "save")
    /\ \E c \in Issued, text \in Texts :
         /\ manuscripts' = IF c \in Chapters
                           THEN [manuscripts EXCEPT ![c].draft = text] ELSE manuscripts
         /\ autosaves' = [autosaves EXCEPT ![c] = Newest(Append(@, text), KEEP)]
         /\ Becomes(p, Begin("save", "head", c, "manual", text, "DRAFT"))
    /\ UNCHANGED <<versions, run, nextVid, nextChapter, up, history>>

\* version.update_head_text: which node is the head...
ReadHead(p) ==
    /\ At(p, "head")
    /\ LET hid == HeadOf(req[p].ch)
       IN  Becomes(p, [req[p] EXCEPT !.read = hid,
                                     !.pc = IF hid = NoVersion THEN "parent" ELSE "row"])
    /\ UNCHANGED <<storage, up, history, started>>

\* ...what it holds: the same text needs nothing, a draft or manual node is
\* rewritten, anything else (or a node that is gone) gets a manual child.
ReadRow(p) ==
    /\ At(p, "row")
    /\ LET hid   == req[p].read
           found == hid \in DOMAIN versions
       IN  \/ /\ found /\ versions[hid].text = req[p].text
              /\ Finish(p)
           \/ /\ found /\ versions[hid].text # req[p].text
              /\ versions[hid].kind \in Editable
              /\ Goto(p, "update")
           \/ /\ found => versions[hid].text # req[p].text /\ versions[hid].kind \notin Editable
              /\ Goto(p, "parent")
    /\ UNCHANGED <<storage, up, history, started>>

\* Seeded fault: the rewrite also relabels the node.
RewriteAsManual(p) ==
    /\ At(p, "update")
    /\ versions' = IF req[p].read \in DOMAIN versions
                   THEN [versions EXCEPT ![req[p].read].text = req[p].text,
                                         ![req[p].read].kind = "manual"]
                   ELSE versions
    /\ Finish(p)
    /\ UNCHANGED <<run, manuscripts, autosaves, nextVid, nextChapter, up, history, started>>

\* ...and the rewrite itself, by node id, in a transaction of its own.
RewriteNode(p) ==
    /\ At(p, "update")
    /\ versions' = IF req[p].read \in DOMAIN versions
                   THEN [versions EXCEPT ![req[p].read].text = req[p].text] ELSE versions
    /\ Finish(p)
    /\ UNCHANGED <<run, manuscripts, autosaves, nextVid, nextChapter, up, history, started>>

-----------------------------------------------------------------------------
Target(mode) == IF mode = "expand" THEN "EXPAND" ELSE "POLISH"

\* POST /gen, POST /postprocess/polish and POST /canon/diff: the chapter exists,
\* its text goes to the language model.  The answer may be any text.
Generate(p) ==
    /\ Accepts(p, "gen")
    /\ \E c \in Chapters, mode \in GenModes :
         Becomes(p, Begin("gen", "llm", c, mode, Empty, Target(mode)))
    /\ UNCHANGED <<storage, up, history>>

PolishTool(p) ==
    /\ Accepts(p, "polishTool")
    /\ \E c \in Chapters :
         Becomes(p, Begin("polishTool", "llm", c, "final", Empty, "DRAFT"))
    /\ UNCHANGED <<storage, up, history>>

CanonDiff(p) ==
    /\ Accepts(p, "canon")
    /\ \E c \in Chapters :
         Becomes(p, Begin("canon", "llm", c, "none", Empty, "EXTRACT"))
    /\ UNCHANGED <<storage, up, history>>

\* The model answers.  /canon/diff only reads on before it sets the state; the
\* generators store the text, first as a manuscript row.
Answer(p) ==
    /\ At(p, "llm")
    /\ \/ /\ req[p].op = "canon"
          /\ Goto(p, "set")
       \/ /\ req[p].op # "canon"
          /\ \E text \in Answers :
               Becomes(p, [req[p] EXCEPT !.text = text, !.pc = "number"])
    /\ UNCHANGED <<storage, up, history, started>>

\* Seeded fault: a generated draft is stored under the name of the draft row.
RowKindAsAsked(kind) == kind

RowKind(kind) == IF kind = "draft" THEN "redraft" ELSE kind
Numbers(c, kind) ==
    {manuscripts[c].rows[i].version :
       i \in {j \in DOMAIN manuscripts[c].rows : manuscripts[c].rows[j].kind = kind}}

\* repo.add_manuscript: MAX(version)+1 is read before the insert's transaction.
ReadNumber(p) ==
    /\ At(p, "number")
    /\ LET used == IF req[p].ch \in Chapters
                   THEN Numbers(req[p].ch, RowKind(req[p].kind)) ELSE {}
       IN  \E top \in used \cup {0} :
             /\ \A n \in used : n <= top
             /\ Becomes(p, [req[p] EXCEPT !.read = top + 1, !.pc = "row.insert"])
    /\ UNCHANGED <<storage, up, history, started>>

InsertRow(p) ==
    /\ At(p, "row.insert")
    /\ LET c == req[p].ch
           row == [kind |-> RowKind(req[p].kind), text |-> req[p].text,
                   version |-> req[p].read]
       IN  \/ /\ c \in Chapters
              /\ manuscripts' = [manuscripts EXCEPT ![c].rows = Append(@, row)]
              /\ IF req[p].op = "gen" THEN Goto(p, "parent") ELSE Finish(p)
           \/ /\ c \notin Chapters
              /\ Finish(p)
              /\ UNCHANGED manuscripts
    /\ UNCHANGED <<versions, run, autosaves, nextVid, nextChapter, up, history, started>>

-----------------------------------------------------------------------------
\* POST /canon/promote after the graph has been written, and
\* POST /run/{id}/advance: both look at the state before they set it.
Promote(p) ==
    /\ Accepts(p, "promote")
    /\ \E c \in Issued :
         Becomes(p, Begin("promote", "state", c, "none", Empty, "PROMOTE"))
    /\ UNCHANGED <<storage, up, history>>

Advance(p) ==
    /\ Accepts(p, "advance")
    /\ \E c \in Issued, to \in States :
         Becomes(p, Begin("advance", "state", c, "none", Empty, to))
    /\ UNCHANGED <<storage, up, history>>

\* Seeded fault: the state machine is not asked.
ReadStateUnasked(p) ==
    /\ At(p, "state")
    /\ Goto(p, "set")
    /\ UNCHANGED <<storage, up, history, started>>

ReadState(p) ==
    /\ At(p, "state")
    /\ IF CanAdvance(StateOf(req[p].ch), req[p].to) THEN Goto(p, "set") ELSE Finish(p)
    /\ UNCHANGED <<storage, up, history, started>>

\* repo.set_state: an UPDATE that asks nothing about the state it replaces.
SetState(p) ==
    /\ At(p, "set")
    /\ LET c == req[p].ch
       IN  IF c \in Chapters
           THEN /\ run' = [run EXCEPT ![c].state = req[p].to]
                /\ reached' = [reached EXCEPT ![c] = @ \cup {req[p].to}]
           ELSE UNCHANGED <<run, reached>>
    /\ Finish(p)
    /\ UNCHANGED <<versions, manuscripts, autosaves, nextVid, nextChapter, up, bootChapter, started>>

-----------------------------------------------------------------------------
\* POST /version/revert: the head moves to a node the client's list shows.  The
\* UPDATE does not ask whose node it is; with ForeignRevert the client's list is
\* one of another chapter, or out of date.
Revert(c, v) ==
    /\ Admit("revert")
    /\ v \in NodesOf(c) \/ ForeignRevert
    /\ run' = [run EXCEPT ![c].head = v]
    /\ UNCHANGED <<versions, manuscripts, autosaves, nextVid, nextChapter, up, req, history>>

\* DELETE /chapters/{id}: _wipe_chapters in one transaction.
DeleteChapter(c) ==
    /\ Admit("delete")
    /\ versions' = Without(versions, NodesOf(c))
    /\ run' = Without(run, {c})
    /\ manuscripts' = Without(manuscripts, {c})
    /\ autosaves' = [autosaves EXCEPT ![c] = << >>]
    /\ reached' = Without(reached, {c})
    /\ UNCHANGED <<nextVid, nextChapter, up, req, bootChapter>>

-----------------------------------------------------------------------------
\* A step raises: the language model fails or times out, the database is locked.
\* What the handler committed before stays.
Abort(p) ==
    /\ up /\ req[p] # Idle
    /\ Finish(p)
    /\ UNCHANGED <<storage, up, history, started>>

\* The process stops: requests are forgotten, an open transaction rolls back.
Crash ==
    /\ up /\ "crash" \in Ops
    /\ up' = FALSE
    /\ req' = [p \in Workers |-> Idle]
    /\ UNCHANGED <<storage, history, started>>

Headless == {c \in Chapters : run[c].head = NoVersion}

\* The newest row of a kind, or Empty; rows with the same number are a tie.
NewestText(c, kind) ==
    LET rows == manuscripts[c].rows
        mine == {i \in DOMAIN rows : rows[i].kind = kind}
        top  == {i \in mine : \A j \in mine : rows[j].version <= rows[i].version}
    IN  IF mine = {} THEN {Empty} ELSE {rows[i].text : i \in top}

\* db._migrate_seed_versions' choice: final > expand > polish > draft, empty
\* texts passed over.
FirstWritten(final, expand, polish, draft) ==
    IF final # Empty THEN final
    ELSE IF expand # Empty THEN expand
    ELSE IF polish # Empty THEN polish
    ELSE draft

SeedTexts(c) ==
    {FirstWritten(final, expand, polish, manuscripts[c].draft) :
       final \in NewestText(c, "final"), expand \in NewestText(c, "expand"),
       polish \in NewestText(c, "polish")}

\* Start-up migration: one turn of its loop, in the order of the runs.  No
\* request is served before it has committed.
SeedHead(c) ==
    /\ ~up
    /\ c \in Headless /\ \A d \in Headless : c <= d
    /\ \E text \in SeedTexts(c) : AddNode(c, NoVersion, "draft", text)
    /\ UNCHANGED <<manuscripts, autosaves, nextChapter, up, req, history, started>>

\* Seeded fault: the start-up migration seeds no heads.
ServeUnseeded ==
    /\ ~up
    /\ up' = TRUE
    /\ bootChapter' = nextChapter
    /\ UNCHANGED <<storage, req, reached, started>>

ServeAgain ==
    /\ ~up /\ Headless = {}
    /\ up' = TRUE
    /\ bootChapter' = nextChapter
    /\ UNCHANGED <<storage, req, reached, started>>

-----------------------------------------------------------------------------
Step(p) ==
    \/ CreateChapter(p) \/ ReadParent(p) \/ InsertVersion(p)
    \/ SaveDraft(p) \/ ReadHead(p) \/ ReadRow(p) \/ RewriteNode(p)
    \/ Generate(p) \/ PolishTool(p) \/ CanonDiff(p) \/ Answer(p)
    \/ ReadNumber(p) \/ InsertRow(p)
    \/ Promote(p) \/ Advance(p) \/ ReadState(p) \/ SetState(p)
    \/ Abort(p)

Next ==
    \/ \E p \in Workers : Step(p)
    \/ \E c \in Chapters, v \in 1 .. nextVid - 1 : Revert(c, v)
    \/ \E c \in Issued : DeleteChapter(c)
    \/ Crash
    \/ \E c \in Chapters : SeedHead(c)
    \/ ServeAgain

Spec == Init /\ [][Next]_vars

-----------------------------------------------------------------------------
VersionRow  == [chapter : Nat, parent : Nat, kind : Kinds, text : Texts]
RunRow      == [state : States, head : Nat]
Row         == [kind : RowKinds, text : Texts, version : Nat]
Manuscripts == [draft : Texts, rows : Seq(Row)]
Request     == [op : AllOps \cup {"none"}, pc : Steps, ch : Nat, text : Texts,
                kind : Kinds \cup {"final", "none"}, read : Nat, to : States]

\* What a request carries at each step: what a node or a row is made of is
\* settled before the step that stores it.
FitsStep(r) ==
    /\ r.pc \in {"head", "row", "update"} => r.kind = "manual"
    /\ r.pc \in {"parent", "insert"} => r.kind \in Kinds
    /\ r.pc \in {"llm", "number", "row.insert"} =>
          \/ r.op = "gen" /\ r.kind \in {"draft", "polish", "expand"}
          \/ r.op = "polishTool" /\ r.kind = "final"
          \/ r.op = "canon" /\ r.pc = "llm" /\ r.to = "EXTRACT"

StoreTypes ==
    /\ DOMAIN versions \subseteq 1 .. nextVid - 1
    /\ versions \in [DOMAIN versions -> VersionRow]
    /\ Chapters \subseteq Issued
    /\ run \in [Chapters -> RunRow] /\ \A c \in Chapters : run[c].head < nextVid
    /\ manuscripts \in [Chapters -> Manuscripts]
    /\ autosaves \in Seq(Seq(Texts)) /\ Len(autosaves) = nextChapter - 1
    /\ nextVid \in Nat \ {0} /\ nextChapter \in Nat \ {0}

RequestTypes ==
    /\ req \in [Workers -> Request]
    /\ \A p \in Workers :
         /\ FitsStep(req[p])
         /\ req[p].ch < nextChapter
         /\ req[p].pc \in {"row", "update", "insert"} => req[p].read < nextVid

\* Types, and which tables share their keys.
TypeOK ==
    /\ StoreTypes
    /\ RequestTypes
    /\ up \in BOOLEAN
    /\ reached \in [Chapters -> SUBSET States]
    /\ bootChapter \in Nat /\ started \in Nat

\* A chapter's head, when it has one, is a node of its own tree
\* (schema.sql: versions, pipeline_runs.head_version_id has no foreign key).
HeadInTree ==
    \A c \in Chapters : run[c].head # NoVersion => run[c].head \in NodesOf(c)

\* Every node belongs to a live chapter and hangs below an older node of that
\* chapter that still exists: the history of a chapter is a forest without
\* cycles, whatever requests overlapped (version.create reads the parent early).
ParentsOlder ==
    \A v \in DOMAIN versions :
        /\ versions[v].chapter \in Chapters
        /\ versions[v].parent # NoVersion =>
              /\ versions[v].parent < v
              /\ versions[v].parent \in NodesOf(versions[v].chapter)

\* A version id a worker read stays good to write to although transactions of
\* other workers came between (version.py reads on one connection and writes on
\* another): while its chapter lives the node is there, it is the chapter's
\* own, and a node about to be rewritten is still one a writer may retype.
ReadStaysValid ==
    \A p \in Workers :
        req[p].pc \in {"row", "update", "insert"} =>
            LET c == req[p].ch
                v == req[p].read
            IN  /\ c \in Chapters /\ v # NoVersion => v \in NodesOf(c)
                /\ v \in DOMAIN versions =>
                     /\ versions[v].chapter = c
                     /\ req[p].pc = "update" => versions[v].kind \in Editable

NodesKept ==
    \A v \in DOMAIN versions :
        /\ v \notin DOMAIN versions' => versions[v].chapter \notin DOMAIN run'
        /\ v \in DOMAIN versions' =>
              \/ versions'[v] = versions[v]
              \/ /\ versions[v].kind \in Editable
                 /\ versions'[v] = [versions[v] EXCEPT !.text = versions'[v].text]

\* Nothing a request does removes a node, moves it in the tree or touches a
\* generated text; nodes go only together with their chapter.
HistoryKept == [][NodesKept]_vars

Earned(states) ==
    /\ "SHIP" \in states => "PROMOTE" \in states
    /\ "PROMOTE" \in states => "EXTRACT" \in states
    /\ "EXPAND" \in states => "POLISH" \in states

\* However advance, /gen, /canon/diff and /canon/promote interleave, a chapter
\* never gets to a late stage without the stage that earns it.
MilestonesInOrder == \A c \in Chapters : Earned(reached[c])

\* A chapter whose creation broke off between its two transactions lacks a head
\* only until the next start: every chapter older than the start has one.
HeadlessOnlySinceBoot ==
    up => \A c \in Headless : c >= bootChapter

\* The snapshots of a chapter stay within the limit, and the newest of them is
\* the draft row's text: the two are written and pruned in one transaction.
AutosaveWindow ==
    \A c \in Issued :
        /\ Len(autosaves[c]) <= KEEP
        /\ c \in Chapters /\ autosaves[c] # << >> =>
              autosaves[c][Len(autosaves[c])] = manuscripts[c].draft

\* The store implements the version tree it promises.
Tree == INSTANCE VersionTree
          WITH nodes <- versions, head <- [c \in Chapters |-> run[c].head],
               nextNode <- nextVid, nextChapter <- nextChapter
ImplementsTree == Tree!Spec
=============================================================================
