# Storybuilder in TLA+

The repository holds two programs. **editor/** (Go) is a web editor for the cards of a
story world: people, factions, places, with relations, a timeline, secrets and an edit log, in
SQLite or MySQL. **builder/** is a workshop for web novels: a FastAPI back end in Python over
SQLite, a language model behind it, and a React page on which a writer writes chapters, lets the
model draft, polish and expand them, reviews what came back paragraph by paragraph and goes back
to earlier versions. They share no process and no database.

This directory models the parts of both where the order of events matters.

## 1. Inventory

| Component | State | Operations | What is hard | What makes it correct |
|---|---|---|---|---|
| builder: chapter FSM (`domain/pipeline.py`) | none, a table | `can_advance` | callers read, then set | late stages only after those that earn them |
| builder: version tree (`store/version.py`, `store/repo.py`, routers) | `versions`, `pipeline_runs`, `manuscripts`, `autosaves` | create, save, /gen, tools, revert, delete, advance | each handler is a chain of short transactions on a thread pool; crash between two | one forest per chapter, head inside it, generated texts immutable |
| builder: schema and migrations (`store/db.py`) | the database file | `init_db` at start | heals what a crash left | after a start every chapter has a head |
| builder: projects, seasons, moves (`store/repo.py`) | `projects`, `seasons`, `chapters` | CRUD, move | ids read in one transaction, rows wiped in another | no chapter without its season |
| builder: entity and relation store (`store/entity.py`, `store/graph.py`) | `entities`, `relations`, `timeline`, ... | save, delete, set_relation, upsert | no version test; pairs of rows; protected tier | pairs complete, confirmed facts not overwritten by drafts |
| builder: canon (`canon/diff.py`) | none | stage_draft, promote | many small writes | a part may fail, a second call repeats |
| builder: services around the model (`gen`, `extract`, `chars`, `postproc`, `llm`) | none | ask the model | slow, may fail | - |
| builder page (`frontend/src/app`) | React state of one tab | open, type, blur, timers, generate, review, revert | an answer comes when the page shows something else | no text lost, none in the wrong chapter |
| builder page: paragraph diff and partial edit (`lib/paraDiff.ts`, `app/review`, `app/PartialEditBar.tsx`) | review, selection, offers | diff, decide, merge, edit a selection, preview, revert | runs of unequal length are paired; pane and merge count apart | accepting all gives the new text, rejecting all the old paragraphs |
| builder page: explorer tree (`app/explorer`) | lists, what is unfolded, the open chapter | CRUD and moves of works, seasons, chapters | each handler must reload every list it changed | the tree shows the tables; a deletion closes the open chapter when it takes it along |
| builder page: entity editor, canvas | React state | CRUD | stale cards | - |
| editor: cards (`entity/repo.go`) | `entities`, `sys_edit_log` | get, create, update, delete | row read outside the transaction that writes | nobody overwrites what he has not seen; the log tells of no change that was not made |
| editor: HTTP API (`server/api.go`) | sessions, locks in memory | login, logout, lock, inline patch, ... | goroutine per request, one mutex | a lock stays with its token |
| editor: page (`server/static/app.js`) | a dozen globals, the DOM | login, list, card, form, inline edit, delete, relation dialog, dock | every handler reads globals that another answer may have changed | what was typed for a card is stored as that card |
| editor: relations, timeline, secrets, stories | tables | add, delete, list | entries outlive cards | - |
| editor: accounts (`auth`) | `sys_users` | register, PIN | - | - |
| editor: data migration (`migrate`) | all tables | one batch | not one transaction | a failed batch can be run again |
| editor: schema registry, DDL, export | none | text generation | - | - |

`PROJECT.json` lists the components with their files, and under "hazards" each place of the code
where something hard to test can go wrong, with the property that watches it or the reason why
none does.

## 2. What each module models

| Module | Of | Kind |
|---|---|---|
| `Pipeline` | `domain/pipeline.py` | the transition table, pure |
| `ChapterStore` | `store/version.py`, `store/repo.py`, `store/db.py`, the routers | detailed state machine, EXTENDS `Pipeline` |
| `VersionTree` | what the version history promises | abstract specification |
| `ProjectTree` | works, seasons and chapters of `store/repo.py`, and the explorer that edits them | detailed state machine |
| `CanonGraph` | `store/entity.py`, `store/graph.py`, `canon/diff.py` and their routers | detailed state machine |
| `WriterSession` | the builder page over the chapter store | detailed state machine |
| `ParaReview` | the paragraph diff, the review, the partial edit | pure functions and a state machine over them |
| `AssetEditor` | `server/api.go` over `entity/repo.go`, and the browser's side | detailed state machine |
| `CardTable` | what the asset editor promises its users | abstract specification |
| `CardPage` | the asset editor's page over its server | detailed state machine |
| `ChapterStoreProofs`, `ParaReviewProofs`, `ProjectTreeProofs`, `ProjectPageProofs`, `CanonGraphProofs`, `WriterSessionProofs`, `AssetEditorProofs`, `CardPageProofs` | | theorems |
| `MCChapterStore`, `MCProjectTree`, `MCCanonGraph`, `MCParaReview`, `MCAssetEditor`, `MCCardPage` | | symmetry, a registry of relations, sets of failing requests, for TLC |

Between them the components meet as follows. `WriterSession` uses the chapter store with each request in one step;
`ChapterStore` says what those steps are made of. `ProjectTree` deletes and moves chapters whose versions
`ChapterStore` keeps. `ParaReview` is the review of which `WriterSession` sees only the two extremes. `CardPage` has
the server of `AssetEditor` as one step per request and without locks, because this page never takes one.

Definitions commented *Seeded fault* stand before the definition they would replace. No
specification uses them; each shows a property failing when the code has that bug.

### ChapterStore

A handler is a synchronous Python function on FastAPI's thread pool. `get_conn()` gives every `with`
block a connection of its own; under Python's sqlite3 a SELECT runs outside any transaction and the
first write of the block opens one that commits at its end. So one action is one read or one write
transaction, `req[p].pc` is the point the handler of thread `p` has reached, and other threads, an
exception (`Abort`) or a crash come between any two. For example `PUT /chapter/{id}/text`
is `SaveDraft` (draft row and autosave, one transaction), `ReadHead`, `ReadRow`, then either nothing,
`RewriteNode`, or `ReadParent` and `InsertVersion`. `/gen` is `Generate`, `Answer`, `ReadNumber`,
`InsertRow`, `ReadParent`, `InsertVersion`, `ReadState`, `SetState`. After `Crash` the migration
`SeedHead` gives a head to each chapter that lacks one before requests are served (`ServeAgain`).
The contents are members of a small set; the language model may answer with any of them.

`ForeignRevert` says whether a client may send a version of another chapter: the server does not
check (version.py:26). The runs and the proofs about the tree assume it does not.

### AssetEditor

A client has a card on screen (`shown`) and at most one request in flight. Each handler is split at
the mutex, at each query and at the transaction: for an inline patch `Who` (getWho), `CanEdit`,
`ReadPatched` (the handler's Get), `ReadOld` (Update's Get), `UpdateTx`. `Restart` forgets sessions,
locks and requests but not screens. `ReuseIds` says whether a deleted id may be chosen again. A
version can be only as large as the log allows (`MaxLog` is a bound of the instance).

A card has data keys, which a patch may name (`Keys`), and columns. `diffEntities` compares the name and the data keys
(`Tracked`); the entry of a creation has the type besides (`Announced`). In the run `tags` is a field that is saved and never
logged. `Forms` are the contents people send.

What the log holds is less than what src/README.md:19 says of it, "every creation, change and deletion (who, when, what, before
-> after)": a change of type, tags or provenance is in no entry (repo.go:141), and the entry of a deletion is
`{"deleted":true}` (repo.go:174). The model has both so. `LogTellsTheChange` and `LogReplays` are about what the code does log: a
creation's values, the differences of the tracked fields, which come from a row read before the transaction, and that the
last value the log names of a tracked field is that of the table. The second means that the values a deletion takes along can be
found in earlier entries, for these fields and no others.

### WriterSession

One tab. JavaScript runs one handler up to its next `await`, followed by React's effects; that is one
action. What a handler captured stays in `task`, `opening` or `undo` and is used when the answer comes
(`TaskAnswered`, `OpenAnswered`, `UndoAnswered`), whatever the page shows by then. `wire` holds the
requests sent and not served; the server's part is one step per request (`ChapterStore` splits them). A text is
a pair of the chapter it was written for and a word, so a text in the wrong chapter can be seen. A
review's merge is one of the two extremes, all rejected or all accepted (`ParaReview` has the rest). `analyzeNow` is
two requests, the save and `/analyze` (usePipeline.ts:49): the second is sent when the first is answered, and not when it failed. A
request that fails may not have got to the server (`Fail`) or have been served with its answer lost (`AnswerLost`). The
network serves requests in any order. Constants choose the world: `Patient` (the writer waits for answers), `Failures` and
`AutoAnalyze` (both on in the runs); `MaxActs` and `MaxWire`, the number of requests on the way at which the timers
hold still, bound the instance.

The page does lose texts, in a handful of ways, and the history variable `mishap` becomes true when one of them happens. No
step is kept from happening by it; three properties say what holds short of it:

* a save is overtaken by a later save, load or revert of its chapter, or by a generation (`Overtakes`): each request has a connection of
  its own, and nothing on the page waits for a blur's save;
* a save fails: `useChapterDraft` does not try again until the text changes;
* the answer to a revert or a generation is lost after the server has moved the head: the page goes on showing the old text and
  its next autosave stores that over the new head;
* the autosave or analysis timer fires while a revert is under way, or between the answer of a generation and its handling
  (useChapterDraft.ts:52): the old text rewrites the new head in place;
* the analysis timer fires during the review of a generation (usePipeline.ts:66): it saves the text from before.

Leaving out any of these lets TLC find `NothingLost`, `ReviewedIsHead` or `EditorShowsHead` violated, so each
names a loss of the code. The properties say that there is no other one, for a patient writer.

### CanonGraph

As in `ChapterStore` a request has a thread, and one action is one read or one write transaction. A
request that stages an analysis or promotes a chapter carries sets of entities, events and relations, and
`done` holds those it has gone through; `stage_draft` takes entities, events, relations in this order,
`promote` entities, relations, events, and within a list the order is the language model's. So an
exception (`Fail`) or another request comes between any two items, and between the read and the write
of one. `POST /relation` and `DELETE /relation/{pair_id}` are one transaction that no read decides: `Relate` and
`Unrelate` need no thread.

Status and source of a row are one value, its tier, because every statement that writes one writes the other
("confirmed" with canon or authored, "pending" with draft or fan). The page's form sends
neither (EntityEditor.tsx:52), so a save keeps what it read. `Inverse` is the inverse relation of
`_relations.json`; `GraphAssumption` asks that the inverse of an inverse be the relation itself or
missing. The variable `overlapped` is a history variable: the properties about the order of
requests are claims only while no two requests were in flight together, since the code reads, leaves the
transaction and writes, and two threads do lose each other's changes there. Left out: the contents of rows,
aliases, the edit log, hand-written timeline entries, secrets, places on the map.

One thing the runs do not show because no property of theirs is broken by it: `/canon/diff` sets the stage
EXTRACT whatever the stage was (canon_routes.py:78), past the transition table that the other routes ask. `ChapterStore`
has it so, and `MilestonesInOrder` is about the stages after it.

### ProjectTree

The tables hold, of each season, its project and, of each chapter, its season and its project: the code stores both.
A request is `sent`, perhaps `read` (the SELECTs before the first write, outside its transaction), and then commits or
fails; foreign keys are on, so a transaction that would leave a dangling row fails as a whole (`Commit`, `KeysHold`). That
is what happens to `delete_season` and `delete_project` when a chapter is created between their SELECT and their
DELETEs: nothing is deleted and the user sees an error. Another client sends any edit (`OtherAsks`).

The page is `useProjectTree`: a click (`Click`) is possible only on a row that is displayed (`SeasonRows`,
`ChapterRows`), the request carries what the handler captured (`up`, `top`, `was`), and `Answered` is the rest of
the handler with the reloads it asks for. Ids are issued once (uuids).

`moved` is a history variable, set when a season is moved of which the page lists chapters or has one open.
`onMoveSeason` updates neither: the open chapter's copy and the listed chapters keep the old `project_id`. So a deletion
of the old work closes a chapter that is no longer in it, and one of the new work leaves open a chapter that is gone. And
because "다른 시즌으로 이동" (ExplorerTree.tsx:78) offers `seasonsByProj[c.project_id]`, a listed chapter of the moved season
can be sent to a season of the old work, which takes it out of the new one without the user having named a work.
`ActiveIsLive` and `LiveStaysOpen` are claims about a page to which this has not happened. `ShowsTables` holds regardless.

The docstrings of `move_chapter` and `move_season` (repo.py:83, :136) say that a chapter's two columns stay together. They do
not (run project_moves): `move_chapter` reads the project of the target season, `move_season` moves that season, and the
chapter ends with the season in one work and the `project_id` of another; `create_chapter` can do the same. `passed` is a history
variable that keeps no step from happening: a season is in it when it was last moved while a chapter was about to enter it, between the
SELECT and the write. `AgreeUnlessPassed` says that the two columns agree in every other season, whatever else overlaps, and that
moving such a season once more repairs it. `delete_project` reads the seasons and the chapters in two SELECTs outside a
transaction, so another client's commit may come between them (`ServeSelect`, `ServeSelectMore`).

### ParaReview

`Scripts` is the external diff library: a script is a sequence of steps "same", "removed", "added", it `Leads` from the old
paragraphs to the new ones, and none that does is shorter. `Segments` is `diffParas`: every place of the script has a segment,
but an added paragraph that `Pairs` with a removed one goes into the segment of that. `Merge` is `merge`, and `Shown` what
`DiffReviewPane` renders as active, with the counter that it runs along. The text is any text of the instance, and
the review (`Enter`, `Decide`, `Finish`, `FinishAll`, `Discard`), the partial edit (`Select`, `AskEdit`, `AskTranslation`,
`Answer`, `Apply`) and the preview with its revert act on it. Lines are model values; white space other than blank lines is left
out. Rejecting everything gives back the old paragraphs and not always the old text: when one text separates paragraphs by
line ends and the other by blank lines, `merge` joins with the separator of the proposed one, and the property says so. The offsets
of a selection are kept as numbers while a revert or a generation may change the text under them, and a late offer is
applied to whatever is selected by then; so `Apply` splices at any place. A preview asked for before a review opens during
it.

### CardPage

One tab of `app.js` and another user. The page's globals are variables (`cur`, `ver`, `cache`), the DOM is reduced to which
views are displayed, which card the panel and the dock draw, and for which card the form was filled (`home`). A click is one action up to
the first await; its request is served by `Serve*`, lost by `Fail` if its kind is in `Fallible`, and the rest of
the handler is `Answer*`, which uses `cur` as it is by then wherever the code does. `Restart` forgets the session; the next
request shows the PIN overlay over the page (it stays up until the page is loaded anew when the session is unknown to the
server; loading anew is `Init`). Ids are never registered twice here, since `AssetEditor` is about that case. Identical requests
under way at once count as one. Drawing is left out. A form that is saved inline needs the loaded schema; the relation chips,
the deletion of a tie and the graph do not, since app.js starts with an empty one and draws them all the same.

`Patient` is the condition of what is promised: the user waits for the answer to a click. Without it `HomeCards`,
`TiesHome`, `NothingUnseen` and `OnePanel` fail. For one, the graph dock floats above the relation dialog, so a click on a node changes the card
from which the dialog will draw its relation, even to the chosen target, although the search leaves out the card itself; the
comment at app.js:828 says that the dock stays only with the panel. Also in the model, and harmless to the properties: the
cached list is not fetched again after a card is created or deleted; a card that was registered but did not load leaves the New form up
with the card current, so that registering the next one overwrites the first; a save from the form drops the tags, which it
does not show.

## 3. Runs

| Run | Instance | Result |
|---|---|---|
| chapter_store | 2 threads, 2 texts, KEEP 2, 4 requests of all kinds, crashes | 8 properties hold, refinement of `VersionTree` included |
| project_tree | 2 works, 2 seasons, 2 chapters in any tree; 7 clicks, or 3 with 1 request of another client | no orphans; chapter and season agree unless the season was moved past one entering it; the explorer shows the tables and keeps the right chapter open |
| project_moves | the same | **violated**: a chapter moved or created while its season moves is left with the old work (repo.py:83, :136) |
| canon_graph | 2 threads, 2 entities, 1 event, relations symmetric, with an inverse and with an inverse that does not point back; 3 items in all | 6 properties hold |
| canon_protect | the same | **violated**: staging checks only the direction it was given and overwrites a confirmed relation through its inverse (entity.py:125) |
| writer_session | 2 chapters, 2 words, 4 acts, patient writer; failures, lost answers, any order of requests, all timers, automatic analysis | short of a mishap nothing is lost, what is reviewed is the head and the editor comes to show it; always, texts stay in their chapter and every wait ends |
| writer_foreign | impatient writer | **violated**: the answer to a revert fills another chapter's editor (useVersions.ts:23) |
| para_review | all pairs of texts of up to 3 lines over 2, every shortest script | accepting all, rejecting all, and what the pane shows |
| asset_editor | 2 browsers, 2 tokens, a column, a data key and an unlogged field, 3 log entries | 6 properties hold, refinement of `CardTable` included |
| asset_reuse | ids reused | **violated**: a card created again starts at version 1, an old screen overwrites it (repo.go:57) |
| card_page | 2 cards, 5 acts, 1 act of another user, patient user; schema, form loads and saves may fail | what was typed for a card is stored as that card, over the version seen; one panel at a time |
| card_page_detail | the same, but loads of the clicked card fail | **violated**: the form of one card is saved as another (app.js:706) |

Why the bounds are enough for what they are meant to show. Every race of the server code is between
a read and a write of one handler and one transaction of another, so two threads meet them all; four
requests are a creation, two overlapping requests and one more (a deletion, a crash, a second
generation). Two contents tell "the same text" from "another". KEEP = 2 is reached by three saves. In
the editor two browsers and one card meet every pair of handlers, and the log bound lets a card be
created, changed and deleted. In `WriterSession` four acts are an opening and three of
typing, generating, finishing or cancelling a review, reverting and opening another chapter, with timers, failures and reordering
at any point between them; two requests on the way are enough for one to overtake the other (`MaxWire` only holds the timers
back, a click sends what it sends). In `CanonGraph` three items are a
confirmation, a staging that meets it and one more, or one promotion that goes through its three lists and fails anywhere.
In `ProjectTree` seven clicks unfold two works and a season, open a chapter, move what holds it and delete something (fewer
do not reach the stale menu described in section 2); with another client (`MaxBeside`) three are a row unfolded and two edits
that its one request may cut in two. In `ParaReview` three lines
hold a run of two against a run of one on either side of a common paragraph, the smallest case in which pairing may go wrong. In
`CardPage` five acts are a login, a card, a form or dialog, a change and a save. The proofs then remove the bounds for most of
these.

`CHECK_DEADLOCK FALSE` where it stands: acts, requests and log entries are bounded, and people may stop.

Fairness. Only `WriterSession` has liveness. The autosave timer fires (a browser timer that is not
cleared), requests are served or fail (HTTP), answers are handled (the event loop); nothing is assumed of the
writer, whose number of acts is bounded, so that the properties speak of what happens once he stops.

What the claims of `writer_session` leave open, so that nobody reads more into them: with `Patient = FALSE` `HomeTexts` fails
(writer_foreign), and the losses listed under `mishap` in section 2 do happen.

## 4. Theorems

All are of the form "for every value of the constants"; the thread pool, the set of texts, the number of
requests, cards, clients and log entries are unbounded.

*ChapterStoreProofs.* `ChapterStoreTypes`: `Spec => []TypeOK`. The rest assumes `~ForeignRevert`. The inductive
invariant is `TypeOK /\ HeadInTree /\ ParentsOlder /\ ReadStaysValid`: that a new node has its parent in its own
chapter follows only from what the *reader* saw some transactions ago, so the invariant must say
what a version id held by a worker is still worth (`ReadStaysValid`). From it come
`HeadsStayInTree`, `TreesStayAcyclic`, `ReadsStayValid`, the action property `HistoryIsKept` and the
refinement `StoreImplementsTree`. `ParentsLeadToRoots` draws from `ParentsOlder` what the version panel relies on: parents
never run in a circle. Of the life of a chapter, without that condition: `MilestonesAreEarned` (stages), where the
invariant says of every worker between the test and the update that the stage it was allowed is still earned; `reached`
only grows, so a stale test stays true. `HeadlessChaptersAreRecent` (restart) and `AutosavesStayBounded`.

*ParaReviewProofs.* `ReviewTypes`, `AcceptsOrKeeps` and `StoresWhatIsShown`, for any set of lines, texts of any length and any
edit script that `Leads` from one text to the other; that it is a shortest one is not used. The state machine contributes
the invariant `IndInv`: an open review is made of two texts and a diff of them, with as many decisions as there are
differences. The rest is about the functions. (1) Which paragraph of a text a place of the script stands for is its rank among
the places that keep a paragraph of that text (`UptoCounts`). (2) A map between finite sets of numbers that is onto and keeps the
order keeps ranks (`OrderKeepsCount`). (3) Each place of a removed paragraph is sent to the added one it pairs with, any other to
itself; on the segments that show something new, this keeps the order and reaches each added or common place
once (`PairOrder`, `TargetOrder`, `TargetOnto`), because a pair lies within one run of removed and one of added paragraphs,
equally far into both. So the new sides of the segments are the new paragraphs in order (`AllAcceptedIsNew`), the old sides the old ones
(`AllRejectedIsOld`), and joining undoes splitting (`ParasJoin`). (4) What the pane has counted and listed after i segments is
what `merge` numbers and chooses (`ShownIsChosen`). Where this needs induction on a length, it takes the least number at
which the claim fails (`LeastElement`, from the library's `WFMin`, which is of first order).

*AssetEditorProofs.* `EditorTypes` and `LocksAreKept` without assumptions. Under `~ReuseIds` the inductive
invariant is `TypeOK /\ ScreensAge`: while a row has the version a client loaded, the card on screen,
the row read for the log and the base of a patch are the row itself. From it `ScreensStayHonest`, `LogIsTrue`, `LogHoldsTheTable`,
`PatchesKeepTheRest`, `NobodyOverwritesBlindly` and the refinement `EditorImplementsCards`. That the assumption is needed is
what the run asset_reuse shows.

*CanonGraphProofs.* Under `GraphAssumption`, which is about the registry of relations, `TypeOK`, `PairsStayClosed` and
`PairsAreOfOneTier` hold whatever overlaps or fails, because both rows of a pair are written in one transaction. The others
need that no two requests overlapped, and an invariant that says what this buys: while `overlapped` is false at
most one request is in flight, the row it read is still the row in the table, the snapshot it did not find is still
missing, and what a promotion has gone through is confirmed. From it `SnapshotsAreUnique`, `PromotionsHold` and
`DraftsYieldToCanon`.

*ProjectTreeProofs.* `TreeTypes`, `NothingOrphaned` and `ChaptersFollow` (`AgreeUnlessPassed`), all without conditions, for any number of
clients' requests. The invariant of the last adds that the project a request has read between SELECT and write is still that
of the season it will put a chapter in, unless that season is gone or in `passed`, and that this season has been issued, so that no new one takes its id.

*ProjectPageProofs.* `ExplorerShowsTables`, `OpenIsLive` and `OpenStaysOpen` for a user who waits for the page (`Patient`) and
as long as nobody else has sent anything, for any number of works, seasons, chapters and clicks. The invariant `PageInv`: one edit
is under way and nothing else, or there are only reads (`Serial`); hence what a request has read is what the tables hold (`Told`) and
what was clicked is where it was shown (`Clicked`); each list that is displayed is that of the table or is due to be
loaded again by something under way (`ListsOK`); and the open chapter is live exactly when nothing under way has taken it
(`OpenOK`). A click finds nothing under way, and then all of it is clean. `Patient` is needed: answers to two loads of one list may
come in either order, and the older one then stays (with `Patient = FALSE` TLC finds it for the list of works in nine steps).

*WriterSessionProofs.* Five theorems; each of the last three adds a layer of the invariant. `WriterTypes`, always:
every request on the wire is the one its sender waits for, one per sender. `EveryWaitIsServed`, also always, is the converse and the
safety half of `WaitsEnd`: who waits has a request on the wire, and while the busy flag is set, by a task or by the analysis, somebody is left who will
reset it, although failures and the end of an analysis reset flags that are not theirs. `TextsAtHome`, `HomeTexts` for a patient writer
and any network: at most one handler waits and the open chapter does not change under it, so texts are at home on the page, on the server, in
the handlers and on the wire. `GenerationIsHead` (`ReviewedIsHead`) and `NothingIsLost` (`NothingLost`) also need only `Patient`: timers, analysis, failures, lost answers and
any order of the requests are part of the system, and both claims are "short of a mishap". For the first the invariant says of every
request on the wire beside a generation or a review that it cannot rewrite the new head; for the second, that the last save on the wire
carries the editor's text, or the newest text is stored and nothing on the wire overwrites it.

*CardPageProofs.* `CardTypes` without conditions. Under `Patient`, and if the load of a clicked card does not fail (the run
card_page_detail shows what happens otherwise; everything else may fail), `OneView`, `CardsAtHome`, `TiesAtHome` and
`SeenFirst`. The invariant `CardInv`: at most one request that is not in the background is under way, it is about the
current card and what it has read agrees with the server unless the version has moved on; and when none is under way panel,
form and current card are the same card.

Only model-checked: liveness (`EditorShowsHead`, `WaitsEnd`), which is out of the prover's reach. Every other property of a
passing run is also a theorem, under the conditions named above.

## 5. Not modelled

* The entity editor page and the lane canvas of the builder: one form and one canvas, a single request at a time; the tables
  behind them are in `CanonGraph`.
* Registration of the entities that a partial edit finds, titles, the panels of candidates and canon (they only hide the editor).
* The language model, its prompts and grammars: any answer or an exception, at any later time.
* Pair generation, plots, corpus, validation, export, command line: stateless functions and read-only queries.
* Timeline, secret and story lists of the Go editor, its 3D view and other drawing: read-only.
* Accounts and PINs: single-row reads and writes. Hashing is out of scope.
* The data migration, run by hand once: a series of writes without a transaction around them, so that a failure leaves
  what was written before it.
* Start-up migrations of the builder other than the seeding of heads; schema registries, DDL, export: pure generation of text.

Known limits of what is modelled. Two overlapping saves of one chapter may be stored in either order (`ChapterStore` has this,
no property forbids it). A failed autosave is not retried before the text changes; it counts as a
mishap of `WriterSession`. `POST /graph/entity` registers a character without the protection that staging has, and deleting an entity leaves its
timeline entries: `CanonGraph` has both and claims nothing against them. Logging out of the Go editor keeps the locks of the session,
which do not expire, until the server restarts.
