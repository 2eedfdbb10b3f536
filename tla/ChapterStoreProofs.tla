------------------------- MODULE ChapterStoreProofs -------------------------
(***************************************************************************)
(* Proofs about ChapterStore for any number of workers, texts, chapters    *)
(* and requests.  The invariant that carries them is IndInv: the types,    *)
(* the shape of the tree, and what a worker may rely on between the step   *)
(* that reads a version id and the step that writes with it.               *)
(***************************************************************************)
EXTENDS ChapterStore, SequenceTheorems, WellFoundedInduction, TLAPS

TreeInv == HeadInTree /\ ParentsOlder /\ ReadStaysValid
IndInv  == TypeOK /\ TreeInv

Holding == {"row", "update", "insert"}     \* steps that use a version id read before

-----------------------------------------------------------------------------
\* Requests.  A step of a worker replaces that worker's record and no other,
\* and the counters only grow.
LEMMA IdleFits == Idle \in Request /\ FitsStep(Idle) /\ Idle.ch = 0 /\ Idle.pc = "idle"
BY ConstantsAssumption DEF Idle, Begin, Request, FitsStep, AllOps, Steps, Kinds, States

LEMMA OneRequest ==
    ASSUME TypeOK, StoreTypes', nextVid <= nextVid', nextChapter <= nextChapter',
           NEW p \in Workers, NEW r \in Request, Becomes(p, r),
           FitsStep(r), r.ch < nextChapter', r.pc \in Holding => r.read < nextVid'
    PROVE  RequestTypes'
<1>1. req' \in [Workers -> Request]
  BY DEF TypeOK, RequestTypes, Becomes
<1>2. ASSUME NEW q \in Workers
      PROVE  /\ FitsStep(req'[q])
             /\ req'[q].ch < nextChapter'
             /\ req'[q].pc \in Holding => req'[q].read < nextVid'
  <2>1. CASE q = p
    <3>1. req'[q] = r
      BY <2>1 DEF TypeOK, RequestTypes, Becomes
    <3> QED  BY <3>1
  <2>2. CASE q # p
    <3>1. /\ req'[q] = req[q] /\ req[q] \in Request
          /\ FitsStep(req[q]) /\ req[q].ch < nextChapter
          /\ req[q].pc \in Holding => req[q].read < nextVid
      BY <2>2 DEF TypeOK, RequestTypes, Becomes, Holding
    <3>2. req[q].ch \in Nat /\ req[q].read \in Nat
      BY <3>1 DEF Request
    <3> QED  BY <3>1, <3>2 DEF TypeOK, StoreTypes
  <2> QED  BY <2>1, <2>2
<1> QED
  BY <1>1, <1>2 DEF RequestTypes, Holding

-----------------------------------------------------------------------------
LEMMA InitType == Init => TypeOK
<1> SUFFICES ASSUME Init PROVE TypeOK
  OBVIOUS
<1>1. Chapters = {} /\ DOMAIN versions = {} /\ DOMAIN manuscripts = {} /\ DOMAIN reached = {}
  BY DEF Init, Chapters
<1>2. /\ versions \in [DOMAIN versions -> VersionRow] /\ run \in [Chapters -> RunRow]
      /\ manuscripts \in [Chapters -> Manuscripts] /\ reached \in [Chapters -> SUBSET States]
  BY <1>1 DEF Init, Chapters
<1>3. req \in [Workers -> Request] /\ \A p \in Workers : req[p] = Idle
  BY IdleFits DEF Init
<1>4. RequestTypes
  BY <1>3, IdleFits DEF Init, RequestTypes
<1>5. StoreTypes
  BY <1>1, <1>2 DEF Init, StoreTypes, Issued
<1> QED
  BY <1>2, <1>4, <1>5 DEF Init, TypeOK

LEMMA InitTree == Init => TreeInv
BY DEF Init, TreeInv, HeadInTree, ParentsOlder, ReadStaysValid, Chapters, Idle, Begin

\* A step that only changes what its worker remembers.
LEMMA QuietStep ==
    ASSUME TypeOK, UNCHANGED <<storage, up, history>>, started' \in Nat,
           NEW p \in Workers, NEW r \in Request, Becomes(p, r),
           FitsStep(r), r.ch < nextChapter, r.pc \in Holding => r.read < nextVid
    PROVE  TypeOK'
<1>1. StoreTypes'
  BY DEF TypeOK, StoreTypes, storage, Chapters, Issued
<1>2. /\ nextVid <= nextVid' /\ nextChapter <= nextChapter'
      /\ r.ch < nextChapter' /\ (r.pc \in Holding => r.read < nextVid')
  BY DEF TypeOK, StoreTypes, storage
<1>3. RequestTypes'
  BY <1>1, <1>2, OneRequest
<1> QED
  BY <1>1, <1>3 DEF TypeOK, history, storage, Chapters

\* What a started request carries.
LEMMA RecordTypes ==
    ASSUME NEW r \in Request
    PROVE  /\ \A s \in Steps : [r EXCEPT !.pc = s] \in Request
           /\ \A n \in Nat, s \in Steps : [r EXCEPT !.read = n, !.pc = s] \in Request
           /\ \A t \in Texts, s \in Steps : [r EXCEPT !.text = t, !.pc = s] \in Request
BY DEF Request

LEMMA HeadType == TypeOK => \A c : HeadOf(c) \in Nat /\ HeadOf(c) < nextVid /\ StateOf(c) \in States
BY DEF TypeOK, StoreTypes, HeadOf, StateOf, RunRow, NoVersion, States

LEMMA AdmitCounts == ASSUME TypeOK, NEW op, Admit(op) PROVE started' \in Nat
BY DEF Admit, TypeOK

LEMMA ChapterNumbers ==
    ASSUME TypeOK
    PROVE  Chapters \subseteq Issued /\ \A c \in Issued : c \in Nat /\ c < nextChapter
BY DEF Issued, TypeOK, StoreTypes

\* What a request in hand tells.
LEMMA RunningTypes ==
    ASSUME TypeOK, NEW p \in Workers
    PROVE  /\ req[p] \in Request
           /\ FitsStep(req[p])
           /\ req[p].ch \in Nat /\ req[p].ch < nextChapter
           /\ req[p].read \in Nat
           /\ req[p].pc \in Holding => req[p].read < nextVid
BY DEF TypeOK, RequestTypes, Request, Holding

\* A request whose handler starts by reading or by calling the model.
LEMMA StartTypes ==
    ASSUME TypeOK, NEW p \in Workers, UNCHANGED <<storage, up, history>>, started' \in Nat,
           NEW op \in AllOps, NEW pc \in {"llm", "state"}, NEW c \in Issued,
           NEW kind \in Kinds \cup {"final", "none"}, NEW to \in States,
           Becomes(p, Begin(op, pc, c, kind, Empty, to)),
           FitsStep(Begin(op, pc, c, kind, Empty, to))
    PROVE  TypeOK'
<1> DEFINE r == Begin(op, pc, c, kind, Empty, to)
<1>1. c \in Nat /\ c < nextChapter
  BY ChapterNumbers
<1>2. r \in Request /\ r.ch = c /\ r.pc = pc
  BY <1>1, ConstantsAssumption DEF Begin, Request, Steps
<1> HIDE DEF r
<1> QED
  BY <1>1, <1>2, QuietStep DEF Holding, r

LEMMA BeginningTypes ==
    ASSUME TypeOK, NEW p \in Workers,
           Generate(p) \/ PolishTool(p) \/ CanonDiff(p) \/ Promote(p) \/ Advance(p)
    PROVE  TypeOK'
<1>1. started' \in Nat /\ UNCHANGED <<storage, up, history>>
  BY AdmitCounts DEF Generate, PolishTool, CanonDiff, Promote, Advance, Accepts
<1>3. Chapters \subseteq Issued
  BY ChapterNumbers
<1>4. CASE Generate(p)
  <2>1. PICK c \in Chapters, mode \in GenModes :
          Becomes(p, Begin("gen", "llm", c, mode, Empty, Target(mode)))
    BY <1>4 DEF Generate
  <2>2. mode \in {"draft", "polish", "expand"} /\ Target(mode) \in States
    BY ConstantsAssumption DEF Target, States
  <2>3. FitsStep(Begin("gen", "llm", c, mode, Empty, Target(mode)))
    BY <2>2 DEF FitsStep, Begin
  <2> QED
    BY <1>1, <1>3, <2>1, <2>2, <2>3, StartTypes DEF AllOps, Kinds
<1>5. CASE PolishTool(p)
  <2>1. PICK c \in Chapters : Becomes(p, Begin("polishTool", "llm", c, "final", Empty, "DRAFT"))
    BY <1>5 DEF PolishTool
  <2>2. FitsStep(Begin("polishTool", "llm", c, "final", Empty, "DRAFT"))
    BY DEF FitsStep, Begin
  <2> QED
    BY <1>1, <1>3, <2>1, <2>2, StartTypes DEF AllOps, States
<1>6. CASE CanonDiff(p)
  <2>1. PICK c \in Chapters : Becomes(p, Begin("canon", "llm", c, "none", Empty, "EXTRACT"))
    BY <1>6 DEF CanonDiff
  <2>2. FitsStep(Begin("canon", "llm", c, "none", Empty, "EXTRACT"))
    BY DEF FitsStep, Begin
  <2> QED
    BY <1>1, <1>3, <2>1, <2>2, StartTypes DEF AllOps, States
<1>7. CASE Promote(p)
  <2>1. PICK c \in Issued : Becomes(p, Begin("promote", "state", c, "none", Empty, "PROMOTE"))
    BY <1>7 DEF Promote
  <2>2. FitsStep(Begin("promote", "state", c, "none", Empty, "PROMOTE"))
    BY DEF FitsStep, Begin
  <2> QED
    BY <1>1, <2>1, <2>2, StartTypes DEF AllOps, States
<1>8. CASE Advance(p)
  <2>1. PICK c \in Issued, to \in States : Becomes(p, Begin("advance", "state", c, "none", Empty, to))
    BY <1>8 DEF Advance
  <2>2. FitsStep(Begin("advance", "state", c, "none", Empty, to))
    BY DEF FitsStep, Begin
  <2> QED
    BY <1>1, <2>1, <2>2, StartTypes DEF AllOps
<1> QED
  BY <1>4, <1>5, <1>6, <1>7, <1>8

\* Steps that only read, and a step that raises.
LEMMA ReadingTypes ==
    ASSUME TypeOK, NEW p \in Workers,
           ReadParent(p) \/ ReadHead(p) \/ ReadRow(p) \/ Answer(p) \/ ReadNumber(p)
             \/ ReadState(p) \/ Abort(p)
    PROVE  TypeOK'
<1>1. UNCHANGED <<storage, up, history>> /\ started' \in Nat
  BY DEF ReadParent, ReadHead, ReadRow, Answer, ReadNumber, ReadState, Abort, TypeOK
<1>2. /\ req[p] \in Request /\ FitsStep(req[p])
      /\ req[p].ch \in Nat /\ req[p].ch < nextChapter /\ req[p].read \in Nat
      /\ req[p].pc \in Holding => req[p].read < nextVid
  BY RunningTypes
<1>3. ASSUME Finish(p) PROVE TypeOK'
  <2>1. Idle \in Request /\ FitsStep(Idle) /\ Idle.ch < nextChapter /\ Idle.pc \notin Holding
    BY IdleFits DEF Holding, TypeOK, StoreTypes
  <2> QED  BY <1>1, <1>3, <2>1, QuietStep DEF Finish
<1>4. ASSUME NEW s \in Steps, Goto(p, s), FitsStep([req[p] EXCEPT !.pc = s]),
             s \in Holding => req[p].read < nextVid
      PROVE  TypeOK'
  <2> DEFINE r == [req[p] EXCEPT !.pc = s]
  <2>1. r \in Request /\ r.ch = req[p].ch /\ r.read = req[p].read /\ r.pc = s
    BY <1>2, RecordTypes DEF Request
  <2> HIDE DEF r
  <2> QED  BY <1>1, <1>2, <1>4, <2>1, QuietStep DEF Goto, r
<1>5. ASSUME NEW s \in Steps, NEW n \in Nat, Becomes(p, [req[p] EXCEPT !.read = n, !.pc = s]),
             FitsStep([req[p] EXCEPT !.read = n, !.pc = s]), s \in Holding => n < nextVid
      PROVE  TypeOK'
  <2> DEFINE r == [req[p] EXCEPT !.read = n, !.pc = s]
  <2>1. r \in Request /\ r.ch = req[p].ch /\ r.read = n /\ r.pc = s
    BY <1>2, RecordTypes DEF Request
  <2> HIDE DEF r
  <2> QED  BY <1>1, <1>2, <1>5, <2>1, QuietStep DEF r
<1>6. CASE ReadParent(p)
  <2>1. FitsStep([req[p] EXCEPT !.read = HeadOf(req[p].ch), !.pc = "insert"])
    BY <1>2, <1>6 DEF ReadParent, At, FitsStep, Request
  <2> QED  BY <1>5, <1>6, <2>1, HeadType DEF ReadParent, Steps
<1>7. CASE ReadHead(p)
  <2>1. \A s \in {"parent", "row"} :
          FitsStep([req[p] EXCEPT !.read = HeadOf(req[p].ch), !.pc = s])
    BY <1>2, <1>7 DEF ReadHead, At, FitsStep, Request, Kinds
  <2> QED  BY <1>5, <1>7, <2>1, HeadType DEF ReadHead, Steps
<1>8. CASE ReadRow(p)
  <2>1. req[p].pc = "row" /\ (Finish(p) \/ Goto(p, "update") \/ Goto(p, "parent"))
    BY <1>8 DEF ReadRow, At
  <2>2. \A s \in {"update", "parent"} : FitsStep([req[p] EXCEPT !.pc = s])
    BY <1>2, <2>1 DEF FitsStep, Request, Kinds
  <2> QED  BY <1>2, <1>3, <1>4, <2>1, <2>2 DEF Steps, Holding
<1>9. CASE Answer(p)
  <2>1. req[p].pc = "llm"
    BY <1>9 DEF Answer, At
  <2>2. CASE Goto(p, "set")
    <3>1. FitsStep([req[p] EXCEPT !.pc = "set"])
      BY <1>2 DEF FitsStep, Request
    <3> QED  BY <1>4, <2>2, <3>1 DEF Steps, Holding
  <2>3. ASSUME req[p].op # "canon", NEW text \in Answers,
               Becomes(p, [req[p] EXCEPT !.text = text, !.pc = "number"])
        PROVE  TypeOK'
    <3> DEFINE r == [req[p] EXCEPT !.text = text, !.pc = "number"]
    <3>1. r \in Request
      BY <1>2, <2>3, RecordTypes, ConstantsAssumption DEF Steps
    <3>2. r.ch = req[p].ch /\ r.pc = "number" /\ r.op = req[p].op /\ r.kind = req[p].kind
      BY <1>2 DEF Request
    <3>3. FitsStep(r)
      BY <1>2, <2>1, <2>3, <3>2 DEF FitsStep
    <3> HIDE DEF r
    <3> QED  BY <1>1, <1>2, <2>3, <3>1, <3>2, <3>3, QuietStep DEF r, Holding
  <2> QED  BY <1>9, <2>2, <2>3 DEF Answer
<1>10. CASE ReadNumber(p)
  <2>1. \A n : FitsStep([req[p] EXCEPT !.read = n, !.pc = "row.insert"])
    BY <1>2, <1>10 DEF ReadNumber, At, FitsStep, Request
  <2>2. PICK top \in (IF req[p].ch \in Chapters
                      THEN Numbers(req[p].ch, RowKind(req[p].kind)) ELSE {}) \cup {0} :
          Becomes(p, [req[p] EXCEPT !.read = top + 1, !.pc = "row.insert"])
    BY <1>10 DEF ReadNumber
  <2>3. ASSUME req[p].ch \in Chapters PROVE Numbers(req[p].ch, RowKind(req[p].kind)) \subseteq Nat
    <3> DEFINE rows == manuscripts[req[p].ch].rows
    <3>1. rows \in Seq(Row)
      BY <2>3 DEF TypeOK, StoreTypes, Manuscripts
    <3>2. \A i \in DOMAIN rows : rows[i] \in Row
      BY <3>1
    <3>3. \A i \in DOMAIN rows : rows[i].version \in Nat
      BY <3>2 DEF Row
    <3> QED  BY <3>3 DEF Numbers
  <2>4. top + 1 \in Nat
    BY <2>2, <2>3
  <2> QED  BY <1>5, <2>1, <2>2, <2>4 DEF Steps, Holding
<1>11. CASE ReadState(p)
  <2>1. FitsStep([req[p] EXCEPT !.pc = "set"])
    BY <1>2 DEF FitsStep, Request
  <2> QED  BY <1>3, <1>4, <1>11, <2>1 DEF ReadState, Steps, Holding
<1>12. CASE Abort(p)
  BY <1>3, <1>12 DEF Abort
<1> QED
  BY <1>6, <1>7, <1>8, <1>9, <1>10, <1>11, <1>12

\* The steps that write.  First what each does to the tables.
LEMMA AddNodeTypes ==
    ASSUME TypeOK, NEW c \in Chapters, NEW parent \in Nat, NEW kind \in Kinds, NEW text \in Texts,
           AddNode(c, parent, kind, text), UNCHANGED <<manuscripts, autosaves, nextChapter>>
    PROVE  StoreTypes' /\ Chapters' = Chapters /\ nextVid' = nextVid + 1
<1> DEFINE row == [chapter |-> c, parent |-> parent, kind |-> kind, text |-> text]
<1>1. c \in Nat /\ nextVid \in Nat \ {0} /\ nextVid' = nextVid + 1
  BY ChapterNumbers DEF AddNode, TypeOK, StoreTypes
<1>2. row \in VersionRow
  BY <1>1 DEF VersionRow
<1>3. /\ DOMAIN versions' = DOMAIN versions \cup {nextVid}
      /\ \A v \in DOMAIN versions' : versions'[v] = IF v = nextVid THEN row ELSE versions[v]
      /\ versions' = [v \in DOMAIN versions' |-> versions'[v]]
  BY DEF AddNode, With
<1> HIDE DEF row
<1>4. \A v \in DOMAIN versions' : versions'[v] \in VersionRow
  BY <1>2, <1>3 DEF TypeOK, StoreTypes
<1>5. versions' \in [DOMAIN versions' -> VersionRow]
  BY <1>3, <1>4
<1>6. DOMAIN versions' \subseteq 1 .. nextVid' - 1
  BY <1>1, <1>3 DEF TypeOK, StoreTypes
<1>7. Chapters' = Chapters
  BY DEF AddNode, Chapters, TypeOK, StoreTypes
<1>8. run' \in [Chapters' -> RunRow] /\ \A d \in Chapters' : run'[d].head < nextVid'
  BY <1>1, <1>7 DEF AddNode, TypeOK, StoreTypes, RunRow
<1> QED
  BY <1>1, <1>5, <1>6, <1>7, <1>8 DEF TypeOK, StoreTypes, Issued

LEMMA InsertVersionTypes == ASSUME TypeOK, NEW p \in Workers, InsertVersion(p) PROVE TypeOK'
<1>1. /\ req[p] \in Request /\ FitsStep(req[p]) /\ req[p].pc = "insert"
      /\ req[p].ch \in Nat /\ req[p].ch < nextChapter /\ req[p].read \in Nat
  BY RunningTypes DEF InsertVersion, At
<1>2. req[p].kind \in Kinds /\ req[p].text \in Texts
  BY <1>1 DEF FitsStep, Request
<1>3. StoreTypes' /\ Chapters' = Chapters /\ nextVid <= nextVid' /\ nextChapter' = nextChapter
  <2>1. CASE req[p].ch \in Chapters
    BY <1>1, <1>2, <2>1, AddNodeTypes DEF InsertVersion, TypeOK, StoreTypes
  <2>2. CASE req[p].ch \notin Chapters
    BY <2>2 DEF InsertVersion, TypeOK, StoreTypes, Chapters, Issued
  <2> QED  BY <2>1, <2>2
<1>4. \E r \in {Idle, [req[p] EXCEPT !.pc = "state"]} : Becomes(p, r)
  BY DEF InsertVersion, Created, Finish, Goto
<1>5. \A r \in {Idle, [req[p] EXCEPT !.pc = "state"]} :
        /\ r \in Request /\ FitsStep(r) /\ r.ch < nextChapter' /\ r.pc \notin Holding
  <2> DEFINE r == [req[p] EXCEPT !.pc = "state"]
  <2>1. r \in Request
    BY <1>1, RecordTypes DEF Steps
  <2>2. r.ch = req[p].ch /\ r.pc = "state"
    BY <1>1 DEF Request
  <2>3. FitsStep(r) /\ r.ch < nextChapter' /\ r.pc \notin Holding
    BY <1>1, <1>3, <2>2 DEF FitsStep, Holding
  <2>4. /\ Idle \in Request /\ FitsStep(Idle) /\ Idle.ch < nextChapter' /\ Idle.pc \notin Holding
    BY <1>3, IdleFits DEF TypeOK, StoreTypes, Holding
  <2> HIDE DEF r
  <2> QED  BY <2>1, <2>3, <2>4 DEF r
<1>6. RequestTypes'
  <2>1. nextChapter <= nextChapter'
    BY <1>3 DEF TypeOK, StoreTypes
  <2> QED  BY <1>3, <1>4, <1>5, <2>1, OneRequest
<1> QED
  BY <1>3, <1>6 DEF InsertVersion, TypeOK, history

LEMMA RewriteNodeTypes == ASSUME TypeOK, NEW p \in Workers, RewriteNode(p) PROVE TypeOK'
<1>1. /\ Idle \in Request /\ FitsStep(Idle) /\ Idle.ch < nextChapter /\ Idle.pc \notin Holding
      /\ nextVid <= nextVid /\ nextChapter <= nextChapter
  BY IdleFits DEF TypeOK, StoreTypes, Holding
<1>2. req[p].text \in Texts
  BY RunningTypes DEF Request
<1>3. versions' \in [DOMAIN versions -> VersionRow] /\ DOMAIN versions' = DOMAIN versions
  BY <1>2 DEF RewriteNode, TypeOK, StoreTypes, VersionRow
<1>4. StoreTypes'
  BY <1>3 DEF RewriteNode, TypeOK, StoreTypes, Chapters, Issued
<1>5. RequestTypes'
  BY <1>1, <1>4, OneRequest DEF RewriteNode, Finish
<1> QED
  BY <1>4, <1>5 DEF RewriteNode, TypeOK, history, Chapters

LEMMA NewestTypes ==
    ASSUME NEW S, NEW s \in Seq(S), NEW n \in Nat \ {0}
    PROVE  /\ Newest(s, n) \in Seq(S)
           /\ Len(Newest(s, n)) <= n
           /\ s # << >> => /\ Newest(s, n) # << >>
                          /\ Newest(s, n)[Len(Newest(s, n))] = s[Len(s)]
<1>1. CASE Len(s) <= n
  BY <1>1 DEF Newest
<1>2. CASE Len(s) > n
  <2> DEFINE m == Len(s) - n + 1
             t == SubSeq(s, m, Len(s))
  <2>1. m \in 1 .. Len(s) + 1 /\ Len(s) \in m - 1 .. Len(s) /\ Len(s) \in Nat /\ Len(s) - m + 1 = n
    BY <1>2
  <2>2. /\ t \in Seq(S) /\ Len(t) = Len(s) - m + 1
        /\ \A i \in 1 .. Len(s) - m + 1 : t[i] = s[m + i - 1]
    BY <2>1, SubSeqProperties
  <2>3. Len(t) = n /\ t[n] = s[m + n - 1] /\ m + n - 1 = Len(s)
    BY <2>1, <2>2
  <2>4. Newest(s, n) = t
    BY <1>2 DEF Newest
  <2> HIDE DEF t, m
  <2> QED  BY <2>2, <2>3, <2>4
<1> QED
  BY <1>1, <1>2

LEMMA SaveDraftTypes == ASSUME TypeOK, NEW p \in Workers, SaveDraft(p) PROVE TypeOK'
<1>1. started' \in Nat
  BY AdmitCounts DEF SaveDraft, Accepts
<1>2. PICK c \in Issued, text \in Texts :
         /\ manuscripts' = IF c \in Chapters
                           THEN [manuscripts EXCEPT ![c].draft = text] ELSE manuscripts
         /\ autosaves' = [autosaves EXCEPT ![c] = Newest(Append(@, text), KEEP)]
         /\ Becomes(p, Begin("save", "head", c, "manual", text, "DRAFT"))
  BY DEF SaveDraft
<1>3. UNCHANGED <<versions, run, nextVid, nextChapter, up, history>> /\ Chapters' = Chapters
  BY DEF SaveDraft, Chapters
<1>4. manuscripts' \in [Chapters -> Manuscripts]
  BY <1>2 DEF TypeOK, StoreTypes, Manuscripts
<1>5. autosaves' \in Seq(Seq(Texts)) /\ Len(autosaves') = Len(autosaves)
  <2>1. c \in 1 .. Len(autosaves) /\ autosaves \in Seq(Seq(Texts))
    BY DEF Issued, TypeOK, StoreTypes
  <2>2. autosaves[c] \in Seq(Texts)
    BY <2>1
  <2>3. Newest(Append(autosaves[c], text), KEEP) \in Seq(Texts)
    <3>1. Append(autosaves[c], text) \in Seq(Texts)
      BY <2>2
    <3> HIDE DEF Issued
    <3> QED  BY <3>1, NewestTypes, ConstantsAssumption
  <2> QED  BY <1>2, <2>1, <2>3
<1>6. StoreTypes'
  BY <1>3, <1>4, <1>5 DEF TypeOK, StoreTypes, Issued
<1> DEFINE r == Begin("save", "head", c, "manual", text, "DRAFT")
<1>7. c \in Nat /\ c < nextChapter' /\ nextVid <= nextVid' /\ nextChapter <= nextChapter'
  BY <1>3, ChapterNumbers DEF TypeOK, StoreTypes
<1>8. r \in Request /\ FitsStep(r) /\ r.ch = c /\ r.pc \notin Holding
  BY <1>7 DEF Begin, Request, FitsStep, AllOps, Steps, Kinds, States, Holding
<1> HIDE DEF r
<1>9. RequestTypes'
  BY <1>2, <1>6, <1>7, <1>8, OneRequest DEF r
<1> QED
  BY <1>1, <1>3, <1>6, <1>9 DEF TypeOK, history

LEMMA CreateChapterTypes == ASSUME TypeOK, NEW p \in Workers, CreateChapter(p) PROVE TypeOK'
<1>1. started' \in Nat
  BY AdmitCounts DEF CreateChapter, Accepts
<1>2. /\ nextVid' = nextVid /\ nextChapter' = nextChapter + 1
      /\ nextVid \in Nat \ {0} /\ nextChapter \in Nat \ {0}
      /\ Chapters' = Chapters \cup {nextChapter} /\ nextChapter \notin Chapters
  BY DEF CreateChapter, With, TypeOK, StoreTypes, Issued, Chapters
<1>3. run' \in [Chapters' -> RunRow] /\ \A c \in Chapters' : run'[c].head < nextVid'
  <2>1. [state |-> "DRAFT", head |-> NoVersion] \in RunRow
    BY DEF RunRow, States, NoVersion
  <2>2. /\ run' = [c \in Chapters' |-> IF c = nextChapter
                                      THEN [state |-> "DRAFT", head |-> NoVersion] ELSE run[c]]
    BY <1>2 DEF CreateChapter, With, Chapters
  <2> QED  BY <1>2, <2>1, <2>2 DEF TypeOK, StoreTypes, NoVersion
<1>4. manuscripts' \in [Chapters' -> Manuscripts]
  <2>1. [draft |-> Empty, rows |-> << >>] \in Manuscripts
    BY ConstantsAssumption DEF Manuscripts
  <2>2. DOMAIN manuscripts = Chapters
    BY DEF TypeOK, StoreTypes
  <2>3. manuscripts' = [c \in Chapters' |-> IF c = nextChapter
                          THEN [draft |-> Empty, rows |-> << >>] ELSE manuscripts[c]]
    BY <1>2, <2>2 DEF CreateChapter, With
  <2> QED  BY <1>2, <2>1, <2>3 DEF TypeOK, StoreTypes
<1>5. autosaves' \in Seq(Seq(Texts)) /\ Len(autosaves') = nextChapter' - 1
  BY <1>2 DEF CreateChapter, TypeOK, StoreTypes
<1>6. Chapters' \subseteq Issued'
  BY <1>2 DEF TypeOK, StoreTypes, Issued
<1>7. StoreTypes'
  BY <1>2, <1>3, <1>4, <1>5, <1>6 DEF CreateChapter, TypeOK, StoreTypes
<1>8. reached' \in [Chapters' -> SUBSET States]
  <2>1. reached' = [c \in Chapters' |-> IF c = nextChapter THEN {"DRAFT"} ELSE reached[c]]
    BY <1>2 DEF CreateChapter, With, TypeOK
  <2> QED  BY <1>2, <2>1 DEF TypeOK, States
<1> DEFINE r == Begin("create", "parent", nextChapter, "draft", Empty, "DRAFT")
<1>9. r \in Request /\ FitsStep(r) /\ r.ch = nextChapter /\ r.pc \notin Holding
  BY <1>2, ConstantsAssumption DEF Begin, Request, FitsStep, AllOps, Steps, Kinds, States, Holding
<1> HIDE DEF r
<1>10. RequestTypes'
  BY <1>2, <1>7, <1>9, OneRequest DEF CreateChapter, r
<1> QED
  BY <1>1, <1>7, <1>8, <1>10 DEF CreateChapter, TypeOK

LEMMA InsertRowTypes == ASSUME TypeOK, NEW p \in Workers, InsertRow(p) PROVE TypeOK'
<1>1. /\ req[p] \in Request /\ FitsStep(req[p]) /\ req[p].pc = "row.insert"
      /\ req[p].ch \in Nat /\ req[p].ch < nextChapter /\ req[p].read \in Nat
  BY RunningTypes DEF InsertRow, At
<1> DEFINE row == [kind |-> RowKind(req[p].kind), text |-> req[p].text, version |-> req[p].read]
<1>2. row \in Row
  BY <1>1 DEF FitsStep, Request, Row, RowKind, RowKinds
<1> HIDE DEF row
<1>3. manuscripts' \in [Chapters -> Manuscripts]
  <2>1. CASE req[p].ch \in Chapters
    <3>1. Append(manuscripts[req[p].ch].rows, row) \in Seq(Row)
      BY <1>2, <2>1 DEF TypeOK, StoreTypes, Manuscripts
    <3>2. manuscripts' = [manuscripts EXCEPT ![req[p].ch].rows = Append(@, row)]
      BY <2>1 DEF InsertRow, row
    <3> QED  BY <2>1, <3>1, <3>2 DEF TypeOK, StoreTypes, Manuscripts
  <2>2. CASE req[p].ch \notin Chapters
    BY <2>2 DEF InsertRow, TypeOK, StoreTypes
  <2> QED  BY <2>1, <2>2
<1>4. StoreTypes'
  BY <1>3 DEF InsertRow, TypeOK, StoreTypes, Chapters, Issued
<1>5. \E r \in {Idle, [req[p] EXCEPT !.pc = "parent"]} :
        Becomes(p, r) /\ (r # Idle => req[p].op = "gen")
  BY DEF InsertRow, Finish, Goto
<1>6. /\ nextVid <= nextVid' /\ nextChapter <= nextChapter' /\ nextChapter' = nextChapter
  BY DEF InsertRow, TypeOK, StoreTypes
<1>7. ASSUME req[p].op = "gen"
      PROVE  LET r == [req[p] EXCEPT !.pc = "parent"]
             IN  r \in Request /\ FitsStep(r) /\ r.ch = req[p].ch /\ r.pc \notin Holding
  <2>1. [req[p] EXCEPT !.pc = "parent"] \in Request
    BY <1>1, RecordTypes DEF Steps
  <2>2. req[p].kind \in {"draft", "polish", "expand"}
    BY <1>1, <1>7 DEF FitsStep
  <2> QED  BY <1>1, <2>1, <2>2 DEF Request, FitsStep, Holding, Kinds
<1>8. RequestTypes'
  <2>1. CASE Becomes(p, Idle)
    <3>1. 0 < nextChapter'
      BY <1>6 DEF TypeOK, StoreTypes
    <3> QED  BY <1>4, <1>6, <2>1, <3>1, IdleFits, OneRequest DEF Holding
  <2>2. CASE req[p].op = "gen" /\ Becomes(p, [req[p] EXCEPT !.pc = "parent"])
    BY <1>1, <1>4, <1>6, <1>7, <2>2, OneRequest
  <2> QED  BY <1>5, <2>1, <2>2
<1> QED
  BY <1>4, <1>8 DEF InsertRow, TypeOK, history, Chapters

LEMMA SetStateTypes == ASSUME TypeOK, NEW p \in Workers, SetState(p) PROVE TypeOK'
<1>1. req[p].to \in States
  BY RunningTypes DEF Request
<1>2. Chapters' = Chapters
  BY DEF SetState, Chapters, TypeOK, StoreTypes
<1>3. run' \in [Chapters' -> RunRow] /\ \A d \in Chapters' : run'[d].head < nextVid'
  <2> DEFINE c == req[p].ch
             to == req[p].to
  <2>1. /\ run' = IF c \in Chapters THEN [run EXCEPT ![c].state = to] ELSE run
        /\ nextVid' = nextVid /\ to \in States
    BY <1>1 DEF SetState
  <2> HIDE DEF c, to
  <2>2. run \in [Chapters -> RunRow] /\ \A d \in Chapters : run[d].head < nextVid
    BY DEF TypeOK, StoreTypes
  <2> QED  BY <1>2, <2>1, <2>2 DEF RunRow
<1>4. StoreTypes'
  BY <1>2, <1>3 DEF SetState, TypeOK, StoreTypes, Issued
<1>5. reached' \in [Chapters' -> SUBSET States]
  BY <1>1, <1>2 DEF SetState, TypeOK
<1>6. nextVid <= nextVid' /\ nextChapter <= nextChapter' /\ 0 < nextChapter'
  BY DEF SetState, TypeOK, StoreTypes
<1>7. RequestTypes'
  BY <1>4, <1>6, IdleFits, OneRequest DEF SetState, Finish, Holding
<1> QED
  BY <1>4, <1>5, <1>7 DEF SetState, TypeOK

\* Steps outside the workers' requests leave every request as it is, or end them all.
LEMMA KeptRequests ==
    ASSUME TypeOK, StoreTypes', nextVid <= nextVid', nextChapter' = nextChapter, req' = req
    PROVE  RequestTypes'
<1> SUFFICES ASSUME NEW p \in Workers
             PROVE  req[p].pc \in Holding => req[p].read < nextVid'
  BY DEF TypeOK, RequestTypes, Holding
<1> QED
  BY RunningTypes DEF TypeOK, StoreTypes

LEMMA RevertTypes ==
    ASSUME TypeOK, NEW c \in Chapters, NEW v \in 1 .. nextVid - 1, Revert(c, v) PROVE TypeOK'
<1>1. Chapters' = Chapters /\ v \in Nat /\ v < nextVid /\ nextVid <= nextVid'
  BY DEF Revert, Chapters, TypeOK, StoreTypes
<1>2. run' \in [Chapters' -> RunRow] /\ \A d \in Chapters' : run'[d].head < nextVid'
  BY <1>1 DEF Revert, TypeOK, StoreTypes, RunRow
<1>3. StoreTypes'
  BY <1>1, <1>2 DEF Revert, TypeOK, StoreTypes, Issued
<1>4. RequestTypes'
  BY <1>1, <1>3, KeptRequests DEF Revert
<1>5. started' \in Nat
  BY AdmitCounts DEF Revert
<1> QED
  BY <1>1, <1>3, <1>4, <1>5 DEF Revert, TypeOK, history

LEMMA DeleteChapterTypes ==
    ASSUME TypeOK, NEW c \in Issued, DeleteChapter(c) PROVE TypeOK'
<1>1. Chapters' = Chapters \ {c} /\ nextVid <= nextVid'
  BY DEF DeleteChapter, Without, Chapters, TypeOK, StoreTypes
<1>2. /\ versions' = [v \in DOMAIN versions \ NodesOf(c) |-> versions[v]]
      /\ run' = [d \in Chapters' |-> run[d]]
      /\ manuscripts' = [d \in Chapters' |-> manuscripts[d]]
      /\ reached' = [d \in Chapters' |-> reached[d]]
  BY <1>1 DEF DeleteChapter, Without, Chapters, TypeOK, StoreTypes
<1>3. /\ versions' \in [DOMAIN versions' -> VersionRow]
      /\ DOMAIN versions' \subseteq 1 .. nextVid' - 1
  BY <1>2 DEF DeleteChapter, TypeOK, StoreTypes
<1>4. run' \in [Chapters' -> RunRow] /\ \A d \in Chapters' : run'[d].head < nextVid'
  BY <1>1, <1>2 DEF DeleteChapter, TypeOK, StoreTypes
<1>5. manuscripts' \in [Chapters' -> Manuscripts] /\ reached' \in [Chapters' -> SUBSET States]
  BY <1>1, <1>2 DEF TypeOK, StoreTypes
<1>6. autosaves' \in Seq(Seq(Texts)) /\ Len(autosaves') = nextChapter' - 1
  <2>1. c \in 1 .. Len(autosaves) /\ autosaves \in Seq(Seq(Texts)) /\ << >> \in Seq(Texts)
    BY DEF TypeOK, StoreTypes, Issued
  <2>2. autosaves' = [autosaves EXCEPT ![c] = << >>] /\ nextChapter' = nextChapter
    BY DEF DeleteChapter
  <2>3. autosaves' \in Seq(Seq(Texts)) /\ Len(autosaves') = Len(autosaves)
    BY <2>1, <2>2
  <2> QED  BY <2>2, <2>3 DEF TypeOK, StoreTypes
<1>7. StoreTypes'
  BY <1>1, <1>3, <1>4, <1>5, <1>6 DEF DeleteChapter, TypeOK, StoreTypes, Issued
<1>8. RequestTypes'
  BY <1>1, <1>7, KeptRequests DEF DeleteChapter
<1>9. started' \in Nat
  BY AdmitCounts DEF DeleteChapter
<1> QED
  BY <1>5, <1>7, <1>8, <1>9 DEF DeleteChapter, TypeOK

LEMMA SeedTextTypes == ASSUME TypeOK, NEW c \in Chapters PROVE SeedTexts(c) \subseteq Texts
<1> DEFINE rows == manuscripts[c].rows
<1>1. rows \in Seq(Row) /\ manuscripts[c].draft \in Texts
  BY DEF TypeOK, StoreTypes, Manuscripts
<1>2. \A i \in DOMAIN rows : rows[i] \in Row
  BY <1>1
<1>3. \A i \in DOMAIN rows : rows[i].text \in Texts
  BY <1>2 DEF Row
<1>4. \A kind : NewestText(c, kind) \subseteq Texts
  BY <1>3, ConstantsAssumption DEF NewestText
<1> QED
  BY <1>1, <1>4 DEF SeedTexts, FirstWritten

LEMMA RestartTypes ==
    ASSUME TypeOK, Crash \/ ServeAgain \/ \E c \in Chapters : SeedHead(c)
    PROVE  TypeOK'
<1>1. CASE Crash
  <2>1. StoreTypes' /\ nextChapter' = nextChapter /\ req' = [p \in Workers |-> Idle]
    BY <1>1 DEF Crash, storage, TypeOK, StoreTypes, Chapters, Issued
  <2>2. RequestTypes'
    BY <2>1, IdleFits DEF RequestTypes, TypeOK, StoreTypes
  <2> QED  BY <1>1, <2>1, <2>2 DEF Crash, storage, history, TypeOK, Chapters
<1>2. CASE ServeAgain
  <2>1. StoreTypes' /\ nextVid <= nextVid' /\ nextChapter' = nextChapter
    BY <1>2 DEF ServeAgain, storage, TypeOK, StoreTypes, Chapters, Issued
  <2>2. RequestTypes'
    BY <1>2, <2>1, KeptRequests DEF ServeAgain
  <2> QED  BY <1>2, <2>1, <2>2 DEF ServeAgain, storage, TypeOK, StoreTypes, Chapters
<1>3. ASSUME NEW c \in Chapters, SeedHead(c) PROVE TypeOK'
  <2>1. PICK text \in SeedTexts(c) : AddNode(c, NoVersion, "draft", text)
    BY <1>3 DEF SeedHead
  <2>2. text \in Texts
    BY <2>1, SeedTextTypes
  <2>3. StoreTypes' /\ Chapters' = Chapters /\ nextVid' = nextVid + 1
    BY <1>3, <2>1, <2>2, AddNodeTypes DEF SeedHead, NoVersion, Kinds
  <2>4. RequestTypes'
    BY <1>3, <2>3, KeptRequests DEF SeedHead, TypeOK, StoreTypes
  <2> QED  BY <1>3, <2>3, <2>4 DEF SeedHead, history, TypeOK
<1> QED
  BY <1>1, <1>2, <1>3

LEMMA NextTypes == TypeOK /\ [Next]_vars => TypeOK'
<1> SUFFICES ASSUME TypeOK, [Next]_vars PROVE TypeOK'
  OBVIOUS
<1>1. ASSUME NEW p \in Workers, Step(p) PROVE TypeOK'
  BY <1>1, CreateChapterTypes, SaveDraftTypes, InsertVersionTypes, RewriteNodeTypes,
     BeginningTypes, ReadingTypes, InsertRowTypes, SetStateTypes DEF Step
<1>2. ASSUME NEW c \in Chapters, NEW v \in 1 .. nextVid - 1, Revert(c, v) PROVE TypeOK'
  BY <1>2, RevertTypes
<1>3. ASSUME NEW c \in Issued, DeleteChapter(c) PROVE TypeOK'
  BY <1>3, DeleteChapterTypes
<1>4. CASE Crash \/ ServeAgain \/ \E c \in Chapters : SeedHead(c)
  BY <1>4, RestartTypes
<1>5. CASE UNCHANGED vars
  BY <1>5 DEF vars, storage, history, TypeOK, StoreTypes, RequestTypes, Chapters, Issued
<1> QED
  BY <1>1, <1>2, <1>3, <1>4, <1>5 DEF Next

\* Every table keeps its types and its keys, and every request in hand carries
\* what its next step needs, whatever the handlers' steps do to each other
\* (store/repo.py, store/version.py).
THEOREM ChapterStoreTypes == Spec => []TypeOK
<1>1. Init => TypeOK
  BY InitType
<1>2. TypeOK /\ [Next]_vars => TypeOK'
  BY NextTypes
<1> QED
  BY <1>1, <1>2, PTL DEF Spec

-----------------------------------------------------------------------------
\* The tree.  What ReadStaysValid says of one request.
Good(r) ==
    /\ r.ch \in Chapters /\ r.read # NoVersion => r.read \in NodesOf(r.ch)
    /\ r.read \in DOMAIN versions =>
         /\ versions[r.read].chapter = r.ch
         /\ r.pc = "update" => versions[r.read].kind \in Editable

LEMMA GoodRequests == ReadStaysValid <=> \A p \in Workers : req[p].pc \in Holding => Good(req[p])
BY DEF ReadStaysValid, Good, Holding

\* Most steps leave nodes and heads alone: only a request that now holds a
\* version id has to be looked at.
LEMMA TreeSame ==
    ASSUME IndInv, versions' = versions, Chapters' = Chapters,
           \A c \in Chapters : run'[c].head = run[c].head,
           \A q \in Workers : \/ req'[q] = req[q]
                             \/ req'[q].pc \notin Holding
                             \/ Good(req'[q])
    PROVE  TreeInv'
<1>1. HeadInTree'
  BY DEF IndInv, TreeInv, HeadInTree, NodesOf
<1>2. ParentsOlder'
  BY DEF IndInv, TreeInv, ParentsOlder, NodesOf
<1>3. ReadStaysValid'
  <2> SUFFICES ASSUME NEW q \in Workers, req'[q].pc \in Holding
               PROVE  /\ req'[q].ch \in Chapters /\ req'[q].read # NoVersion =>
                           req'[q].read \in NodesOf(req'[q].ch)
                      /\ req'[q].read \in DOMAIN versions =>
                           /\ versions[req'[q].read].chapter = req'[q].ch
                           /\ req'[q].pc = "update" => versions[req'[q].read].kind \in Editable
    BY DEF ReadStaysValid, NodesOf, Holding
  <2>1. Good(req'[q])
    BY GoodRequests DEF IndInv, TreeInv
  <2> QED  BY <2>1 DEF Good
<1> QED
  BY <1>1, <1>2, <1>3 DEF TreeInv

\* Of the steps that read, three put a version id into a worker's hands.
LEMMA ReadingTree ==
    ASSUME IndInv, NEW p \in Workers,
           ReadParent(p) \/ ReadHead(p) \/ ReadRow(p) \/ Answer(p) \/ ReadNumber(p)
             \/ ReadState(p) \/ Abort(p)
    PROVE  TreeInv'
<1>1. UNCHANGED storage /\ Chapters' = Chapters
  BY DEF ReadParent, ReadHead, ReadRow, Answer, ReadNumber, ReadState, Abort, storage, Chapters
<1>2. req[p] \in Request /\ req \in [Workers -> Request]
  BY DEF IndInv, TypeOK, RequestTypes
<1>3. ASSUME NEW r, Becomes(p, r), r.pc \in Holding => Good(r) PROVE TreeInv'
  <2>1. \A q \in Workers : req'[q] = IF q = p THEN r ELSE req[q]
    BY <1>2, <1>3 DEF Becomes
  <2> QED  BY <1>1, <1>3, <2>1, TreeSame DEF storage
<1>4. ASSUME Finish(p) PROVE TreeInv'
  BY <1>3, <1>4, IdleFits DEF Finish, Holding
<1>5. ASSUME NEW s \in Steps \ Holding, Goto(p, s) PROVE TreeInv'
  BY <1>2, <1>3, <1>5 DEF Goto, Request
<1>6. HeadOf(req[p].ch) \in NodesOf(req[p].ch) \/ HeadOf(req[p].ch) = NoVersion
  BY DEF HeadOf, IndInv, TreeInv, HeadInTree
<1>7. NoVersion \notin DOMAIN versions
  BY DEF NoVersion, IndInv, TypeOK, StoreTypes
<1>8. ASSUME NEW s \in Steps \ {"update"}
      PROVE  Good([req[p] EXCEPT !.read = HeadOf(req[p].ch), !.pc = s])
  BY <1>2, <1>6, <1>7 DEF Good, Request, NodesOf
<1>9. CASE ReadParent(p)
  BY <1>3, <1>8, <1>9 DEF ReadParent, Steps
<1>10. CASE ReadHead(p)
  BY <1>3, <1>8, <1>10 DEF ReadHead, Steps
<1>11. CASE ReadRow(p)
  <2>1. req[p].pc = "row" /\ Good(req[p])
    BY <1>11, GoodRequests DEF ReadRow, At, IndInv, TreeInv, Holding
  <2>2. CASE Goto(p, "update") /\ versions[req[p].read].kind \in Editable
    <3>1. Good([req[p] EXCEPT !.pc = "update"])
      BY <1>2, <2>1, <2>2 DEF Good, Request
    <3> QED  BY <1>3, <2>2, <3>1 DEF Goto
  <2> QED  BY <1>4, <1>5, <1>11, <2>2 DEF ReadRow, Steps, Holding
<1>12. CASE Answer(p)
  <2>1. \A text : [req[p] EXCEPT !.text = text, !.pc = "number"].pc = "number"
    BY <1>2 DEF Request
  <2> QED  BY <1>3, <1>5, <1>12, <2>1 DEF Answer, Steps, Holding
<1>13. CASE ReadNumber(p)
  <2>1. \A n : [req[p] EXCEPT !.read = n, !.pc = "row.insert"].pc = "row.insert"
    BY <1>2 DEF Request
  <2> QED  BY <1>3, <1>13, <2>1 DEF ReadNumber, Holding
<1>14. CASE ReadState(p)
  BY <1>4, <1>5, <1>14 DEF ReadState, Steps, Holding
<1>15. CASE Abort(p)
  BY <1>4, <1>15 DEF Abort
<1> QED
  BY <1>9, <1>10, <1>11, <1>12, <1>13, <1>14, <1>15

\* Steps that begin a request or leave nodes and heads alone hold no version id.
LEMMA BeginTree == ASSUME NEW op, NEW pc, NEW c, NEW k, NEW t, NEW to
                   PROVE  Begin(op, pc, c, k, t, to).pc = pc
BY DEF Begin

LEMMA OtherSteps ==
    ASSUME IndInv, NEW p \in Workers,
           Generate(p) \/ PolishTool(p) \/ CanonDiff(p) \/ Promote(p) \/ Advance(p)
             \/ SaveDraft(p) \/ InsertRow(p) \/ SetState(p)
    PROVE  TreeInv'
<1>1. versions' = versions
  BY DEF Generate, PolishTool, CanonDiff, Promote, Advance, SaveDraft, InsertRow, SetState, storage
<1>2. Chapters' = Chapters /\ \A c \in Chapters : run'[c].head = run[c].head
  <2>1. CASE run' = run
    BY <2>1 DEF Chapters
  <2>2. CASE SetState(p)
    <3> DEFINE d == req[p].ch
               to == req[p].to
    <3>1. run' = IF d \in Chapters THEN [run EXCEPT ![d].state = to] ELSE run
      BY <2>2 DEF SetState
    <3> HIDE DEF d, to
    <3>2. run \in [Chapters -> RunRow]
      BY DEF IndInv, TypeOK, StoreTypes
    <3> QED  BY <3>1, <3>2 DEF Chapters, RunRow
  <2> QED
    BY <2>1, <2>2 DEF Generate, PolishTool, CanonDiff, Promote, Advance, SaveDraft, InsertRow, storage
<1>3. \E r : Becomes(p, r) /\ r.pc \notin Holding
  <2>1. req[p] \in Request
    BY RunningTypes DEF IndInv
  <2>2. [req[p] EXCEPT !.pc = "parent"].pc = "parent" /\ Idle.pc = "idle"
    BY <2>1, IdleFits DEF Request
  <2>3. CASE InsertRow(p) \/ SetState(p)
    BY <2>2, <2>3 DEF InsertRow, SetState, Finish, Goto, Holding
  <2>4. CASE Generate(p)
    BY <2>4, BeginTree DEF Generate, Holding
  <2>5. CASE PolishTool(p)
    BY <2>5, BeginTree DEF PolishTool, Holding
  <2>6. CASE CanonDiff(p)
    BY <2>6, BeginTree DEF CanonDiff, Holding
  <2>7. CASE Promote(p)
    BY <2>7, BeginTree DEF Promote, Holding
  <2>8. CASE Advance(p)
    BY <2>8, BeginTree DEF Advance, Holding
  <2>9. CASE SaveDraft(p)
    BY <2>9, BeginTree DEF SaveDraft, Holding
  <2> QED
    BY <2>3, <2>4, <2>5, <2>6, <2>7, <2>8, <2>9
<1>4. \A q \in Workers : req'[q] = req[q] \/ req'[q].pc \notin Holding
  BY <1>3 DEF Becomes, IndInv, TypeOK, RequestTypes
<1> QED
  BY <1>1, <1>2, <1>4, TreeSame

\* The new node is younger than every id a worker holds, so it is nobody's.
LEMMA AddNodeTree ==
    ASSUME IndInv, NEW c \in Chapters, NEW parent \in NodesOf(c) \cup {NoVersion},
           NEW kind, NEW text, AddNode(c, parent, kind, text),
           \A q \in Workers : req'[q] = req[q] \/ req'[q].pc \notin Holding
    PROVE  TreeInv'
<1> DEFINE row == [chapter |-> c, parent |-> parent, kind |-> kind, text |-> text]
<1>1. /\ nextVid \in Nat \ {0} /\ nextVid \notin DOMAIN versions
      /\ \A v \in DOMAIN versions : v \in Nat /\ v < nextVid
  BY DEF IndInv, TypeOK, StoreTypes
<1>2. /\ DOMAIN versions' = DOMAIN versions \cup {nextVid}
      /\ versions'[nextVid] = row
      /\ \A v \in DOMAIN versions : versions'[v] = versions[v]
  BY <1>1 DEF AddNode, With
<1>3. row.chapter = c /\ row.parent = parent
  OBVIOUS
<1> HIDE DEF row
<1>4. /\ NodesOf(c)' = NodesOf(c) \cup {nextVid}
      /\ \A d : d # c => NodesOf(d)' = NodesOf(d)
  BY <1>1, <1>2, <1>3 DEF NodesOf
<1>5. /\ Chapters' = Chapters /\ run'[c].head = nextVid
      /\ \A d \in Chapters : d # c => run'[d] = run[d]
  BY DEF AddNode, Chapters, IndInv, TypeOK, StoreTypes, RunRow
<1>6. HeadInTree'
  BY <1>4, <1>5 DEF HeadInTree, IndInv, TreeInv
<1>7. ParentsOlder'
  <2>1. ASSUME NEW v \in DOMAIN versions
        PROVE  /\ versions[v].chapter \in Chapters
               /\ versions[v].parent # NoVersion =>
                     versions[v].parent < v /\ versions[v].parent \in NodesOf(versions[v].chapter)'
    <3>1. NodesOf(versions[v].chapter) \subseteq NodesOf(versions[v].chapter)'
      BY <1>2 DEF NodesOf
    <3> QED  BY <3>1 DEF IndInv, TreeInv, ParentsOlder
  <2>2. parent # NoVersion => parent < nextVid /\ parent \in NodesOf(c)'
    BY <1>1, <1>4 DEF NodesOf
  <2> QED  BY <1>2, <1>3, <1>5, <2>1, <2>2 DEF ParentsOlder, NodesOf
<1>8. ReadStaysValid'
  <2> SUFFICES ASSUME NEW q \in Workers, req'[q] = req[q], req[q].pc \in Holding
               PROVE  /\ req[q].ch \in Chapters /\ req[q].read # NoVersion =>
                           req[q].read \in NodesOf(req[q].ch)'
                      /\ req[q].read \in DOMAIN versions' =>
                           /\ versions'[req[q].read].chapter = req[q].ch
                           /\ req[q].pc = "update" => versions'[req[q].read].kind \in Editable
    BY <1>5 DEF ReadStaysValid, NodesOf, Holding
  <2>1. Good(req[q]) /\ req[q].read # nextVid
    BY <1>1, GoodRequests, RunningTypes DEF IndInv, TreeInv
  <2>2. NodesOf(req[q].ch) \subseteq NodesOf(req[q].ch)'
    BY <1>4
  <2> QED  BY <1>2, <2>1, <2>2 DEF Good
<1> QED
  BY <1>6, <1>7, <1>8 DEF TreeInv

LEMMA InsertVersionTree == ASSUME IndInv, NEW p \in Workers, InsertVersion(p) PROVE TreeInv'
<1>1. req[p].pc = "insert" /\ req[p] \in Request /\ Good(req[p])
  BY RunningTypes, GoodRequests DEF InsertVersion, At, Holding, IndInv, TreeInv
<1>2. \A q \in Workers : req'[q] = req[q] \/ req'[q].pc \notin Holding
  <2>1. \E r : Becomes(p, r) /\ r.pc \notin Holding
    BY <1>1, IdleFits DEF InsertVersion, Created, Finish, Goto, Request, Holding
  <2> QED  BY <2>1 DEF Becomes, IndInv, TypeOK, RequestTypes
<1>3. CASE req[p].ch \in Chapters
  <2>1. req[p].read \in NodesOf(req[p].ch) \cup {NoVersion}
    BY <1>1, <1>3 DEF Good
  <2>2. AddNode(req[p].ch, req[p].read, req[p].kind, req[p].text)
    BY <1>3 DEF InsertVersion
  <2> QED  BY <1>2, <1>3, <2>1, <2>2, AddNodeTree
<1>4. CASE req[p].ch \notin Chapters
  BY <1>2, <1>4, TreeSame DEF InsertVersion, Chapters
<1> QED
  BY <1>3, <1>4

\* A new chapter has no node and its number is in no worker's hands.
LEMMA CreateChapterTree == ASSUME IndInv, NEW p \in Workers, CreateChapter(p) PROVE TreeInv'
<1>1. /\ Chapters' = Chapters \cup {nextChapter} /\ nextChapter \notin Chapters
      /\ run'[nextChapter].head = NoVersion
      /\ \A c \in Chapters : run'[c] = run[c]
      /\ versions' = versions
  BY DEF CreateChapter, With, Chapters, IndInv, TypeOK, StoreTypes, Issued
<1>2. HeadInTree'
  BY <1>1 DEF HeadInTree, NodesOf, IndInv, TreeInv
<1>3. ParentsOlder'
  BY <1>1 DEF ParentsOlder, NodesOf, IndInv, TreeInv
<1>4. ReadStaysValid'
  <2> SUFFICES ASSUME NEW q \in Workers, req'[q].pc \in Holding
               PROVE  /\ req'[q].ch \in Chapters' /\ req'[q].read # NoVersion =>
                           req'[q].read \in NodesOf(req'[q].ch)
                      /\ req'[q].read \in DOMAIN versions =>
                           /\ versions[req'[q].read].chapter = req'[q].ch
                           /\ req'[q].pc = "update" => versions[req'[q].read].kind \in Editable
    BY <1>1 DEF ReadStaysValid, NodesOf, Holding
  <2>1. \E r : Becomes(p, r) /\ r.pc \notin Holding
    BY BeginTree DEF CreateChapter, Holding
  <2>2. req'[q] = req[q]
    BY <2>1 DEF Becomes, IndInv, TypeOK, RequestTypes
  <2>3. Good(req[q]) /\ req[q].ch < nextChapter /\ req[q].ch \in Nat
    BY <2>2, GoodRequests, RunningTypes DEF IndInv, TreeInv
  <2>4. req[q].ch # nextChapter
    BY <2>3 DEF IndInv, TypeOK, StoreTypes
  <2> QED  BY <1>1, <2>2, <2>3, <2>4 DEF Good
<1> QED
  BY <1>2, <1>3, <1>4 DEF TreeInv

LEMMA RewriteNodeTree == ASSUME IndInv, NEW p \in Workers, RewriteNode(p) PROVE TreeInv'
<1>1. /\ DOMAIN versions' = DOMAIN versions
      /\ \A v \in DOMAIN versions : /\ versions'[v].chapter = versions[v].chapter
                                   /\ versions'[v].parent = versions[v].parent
                                   /\ versions'[v].kind = versions[v].kind
  BY DEF RewriteNode, IndInv, TypeOK, StoreTypes, VersionRow
<1>2. \A c : NodesOf(c)' = NodesOf(c)
  BY <1>1 DEF NodesOf
<1>3. run' = run /\ Chapters' = Chapters
  BY DEF RewriteNode, Chapters
<1>4. HeadInTree'
  BY <1>2, <1>3 DEF HeadInTree, IndInv, TreeInv
<1>5. ParentsOlder'
  <2> SUFFICES ASSUME NEW v \in DOMAIN versions
               PROVE  /\ versions'[v].chapter \in Chapters
                      /\ versions'[v].parent # NoVersion =>
                           /\ versions'[v].parent < v
                           /\ versions'[v].parent \in NodesOf(versions[v].chapter)
    BY <1>1, <1>3 DEF ParentsOlder, NodesOf
  <2> QED  BY <1>1 DEF ParentsOlder, IndInv, TreeInv
<1>6. ReadStaysValid'
  <2>1. \A q \in Workers : req'[q] = req[q] \/ req'[q].pc \notin Holding
    BY IdleFits DEF RewriteNode, Finish, Becomes, Holding, IndInv, TypeOK, RequestTypes
  <2> SUFFICES ASSUME NEW q \in Workers, req'[q] = req[q], req[q].pc \in Holding
               PROVE  /\ req[q].ch \in Chapters /\ req[q].read # NoVersion =>
                           req[q].read \in NodesOf(req[q].ch)
                      /\ req[q].read \in DOMAIN versions =>
                           /\ versions'[req[q].read].chapter = req[q].ch
                           /\ req[q].pc = "update" => versions'[req[q].read].kind \in Editable
    BY <1>1, <1>3, <2>1 DEF ReadStaysValid, NodesOf, Holding
  <2>2. Good(req[q])
    BY GoodRequests DEF IndInv, TreeInv
  <2> QED  BY <1>1, <2>2 DEF Good
<1> QED
  BY <1>4, <1>5, <1>6 DEF TreeInv

\* The only step whose harmlessness depends on what clients send.
LEMMA RevertTree ==
    ASSUME IndInv, ~ForeignRevert, NEW c \in Chapters, NEW v, Revert(c, v)
    PROVE  TreeInv'
<1>1. /\ v \in NodesOf(c) /\ versions' = versions /\ req' = req /\ Chapters' = Chapters
      /\ \A d \in Chapters : run'[d].head = IF d = c THEN v ELSE run[d].head
  BY DEF Revert, Chapters, IndInv, TypeOK, StoreTypes, RunRow
<1>2. HeadInTree'
  BY <1>1 DEF HeadInTree, NodesOf, IndInv, TreeInv
<1>3. ParentsOlder' /\ ReadStaysValid'
  BY <1>1 DEF ParentsOlder, ReadStaysValid, NodesOf, IndInv, TreeInv
<1> QED
  BY <1>2, <1>3 DEF TreeInv

LEMMA DeleteChapterTree ==
    ASSUME IndInv, NEW c \in Issued, DeleteChapter(c)
    PROVE  TreeInv'
<1>1. /\ Chapters' = Chapters \ {c}
      /\ \A d \in Chapters' : run'[d] = run[d]
      /\ req' = req
  BY DEF DeleteChapter, Without, Chapters
<1>2. /\ DOMAIN versions' = DOMAIN versions \ NodesOf(c)
      /\ \A v \in DOMAIN versions' : versions'[v] = versions[v]
  BY DEF DeleteChapter, Without
<1>3. \A d : d # c => NodesOf(d)' = NodesOf(d)
  BY <1>2 DEF NodesOf
<1>4. HeadInTree'
  BY <1>1, <1>3 DEF HeadInTree, IndInv, TreeInv
<1>5. ParentsOlder'
  <2> SUFFICES ASSUME NEW v \in DOMAIN versions'
               PROVE  /\ versions[v].chapter \in Chapters'
                      /\ versions[v].parent # NoVersion =>
                           /\ versions[v].parent < v
                           /\ versions[v].parent \in NodesOf(versions[v].chapter)'
    BY <1>2 DEF ParentsOlder, NodesOf
  <2>1. versions[v].chapter # c /\ v \in DOMAIN versions /\ versions'[v] = versions[v]
    BY <1>2 DEF NodesOf
  <2>2. /\ versions[v].chapter \in Chapters
        /\ versions[v].parent # NoVersion =>
             versions[v].parent < v /\ versions[v].parent \in NodesOf(versions[v].chapter)
    BY <2>1 DEF ParentsOlder, IndInv, TreeInv
  <2>3. NodesOf(versions[v].chapter)' = NodesOf(versions[v].chapter)
    BY <1>2, <2>1 DEF NodesOf
  <2> QED  BY <1>1, <2>1, <2>2, <2>3
<1>6. ReadStaysValid'
  <2> SUFFICES ASSUME NEW q \in Workers, req[q].pc \in Holding
               PROVE  /\ req[q].ch \in Chapters' /\ req[q].read # NoVersion =>
                           req[q].read \in NodesOf(req[q].ch)'
                      /\ req[q].read \in DOMAIN versions' =>
                           /\ versions'[req[q].read].chapter = req[q].ch
                           /\ req[q].pc = "update" => versions'[req[q].read].kind \in Editable
    BY <1>1 DEF ReadStaysValid, Holding
  <2>1. Good(req[q])
    BY GoodRequests DEF IndInv, TreeInv
  <2>2. req[q].ch \in Chapters' => NodesOf(req[q].ch)' = NodesOf(req[q].ch)
    BY <1>1, <1>2 DEF NodesOf
  <2> QED  BY <1>1, <1>2, <2>1, <2>2 DEF Good
<1> QED
  BY <1>4, <1>5, <1>6 DEF TreeInv

LEMMA RestartTree ==
    ASSUME IndInv, Crash \/ ServeAgain \/ \E c \in Chapters : SeedHead(c)
    PROVE  TreeInv'
<1>1. CASE Crash
  BY <1>1, TreeSame, IdleFits DEF Crash, storage, Chapters, Holding
<1>2. CASE ServeAgain
  BY <1>2, TreeSame DEF ServeAgain, storage, Chapters
<1>3. ASSUME NEW c \in Chapters, SeedHead(c) PROVE TreeInv'
  BY <1>3, AddNodeTree DEF SeedHead
<1> QED
  BY <1>1, <1>2, <1>3

LEMMA NextTree == ASSUME ~ForeignRevert PROVE IndInv /\ [Next]_vars => IndInv'
<1> SUFFICES ASSUME IndInv, [Next]_vars PROVE TreeInv'
  BY NextTypes DEF IndInv
<1>1. ASSUME NEW p \in Workers, Step(p) PROVE TreeInv'
  BY <1>1, CreateChapterTree, InsertVersionTree, RewriteNodeTree, ReadingTree, OtherSteps DEF Step
<1>2. ASSUME NEW c \in Chapters, NEW v \in 1 .. nextVid - 1, Revert(c, v) PROVE TreeInv'
  BY <1>2, RevertTree
<1>3. ASSUME NEW c \in Issued, DeleteChapter(c) PROVE TreeInv'
  BY <1>3, DeleteChapterTree
<1>4. CASE Crash \/ ServeAgain \/ \E c \in Chapters : SeedHead(c)
  BY <1>4, RestartTree
<1>5. CASE UNCHANGED vars
  BY <1>5, TreeSame DEF vars, storage, Chapters
<1> QED
  BY <1>1, <1>2, <1>3, <1>4, <1>5 DEF Next

LEMMA Inductive == ASSUME ~ForeignRevert PROVE Spec => []IndInv
<1>1. Init => IndInv
  BY InitType, InitTree DEF IndInv
<1>2. IndInv /\ [Next]_vars => IndInv'
  BY NextTree
<1> QED
  BY <1>1, <1>2, PTL DEF Spec

-----------------------------------------------------------------------------
\* As long as clients revert a chapter to versions of its own, its head is a
\* node of its own tree at every moment (store/version.py set_head, create).
THEOREM HeadsStayInTree == ASSUME ~ForeignRevert PROVE Spec => []HeadInTree
<1>1. IndInv => HeadInTree
  BY DEF IndInv, TreeInv
<1> QED
  BY <1>1, Inductive, PTL

\* Under the same condition the nodes of a chapter form a forest without cycles,
\* however many version.create calls read their parent at the same time.
THEOREM TreesStayAcyclic == ASSUME ~ForeignRevert PROVE Spec => []ParentsOlder
<1>1. IndInv => ParentsOlder
  BY DEF IndInv, TreeInv
<1> QED
  BY <1>1, Inductive, PTL

\* Hence following parents ends at a version without one: no set of nodes holds the parents of
\* all its nodes.  The version panel (treeRows) starts from those and comes to every node.
NoCycles == \A S \in SUBSET DOMAIN versions : S # {} => \E v \in S : versions[v].parent \notin S

THEOREM ParentsLeadToRoots == ASSUME ~ForeignRevert PROVE Spec => []NoCycles
<1>1. IndInv => NoCycles
  <2> SUFFICES ASSUME IndInv, NEW S \in SUBSET DOMAIN versions, S # {},
                      \A v \in S : versions[v].parent \in S
               PROVE  FALSE
    BY DEF NoCycles
  <2> DEFINE R == OpToRel(<, Nat)
  <2>1. /\ \A v \in S : v \in Nat /\ v # NoVersion
        /\ \A v \in S : versions[v].parent < v
    <3>1. \A v \in S : v \in Nat /\ v # NoVersion
      BY DEF IndInv, TypeOK, StoreTypes, NoVersion
    <3>2. \A v \in S : versions[v].parent < v
      BY <3>1 DEF IndInv, TreeInv, ParentsOlder
    <3> QED  BY <3>1, <3>2
  <2>2. \A x, y \in Nat : x < y => <<x, y>> \in R
    BY DEF OpToRel
  <2> HIDE DEF R
  <2>3. PICK v \in S : \A u \in S : ~(<<u, v>> \in R)
    <3>1. S \subseteq Nat /\ IsWellFoundedOn(R, Nat)
      BY <2>1, NatLessThanWellFounded DEF R
    <3> QED  BY <3>1, WFMin
  <2> QED  BY <2>1, <2>2, <2>3
<1> QED
  BY <1>1, Inductive, PTL

\* Under the same condition no step of another worker, no deletion and no restart
\* makes a version id a worker read the wrong one to write with: what
\* version.update_head_text reads on one connection it may rewrite on another.
THEOREM ReadsStayValid == ASSUME ~ForeignRevert PROVE Spec => []ReadStaysValid
<1>1. IndInv => ReadStaysValid
  BY DEF IndInv, TreeInv
<1> QED
  BY <1>1, Inductive, PTL

-----------------------------------------------------------------------------
\* Most steps do not touch the nodes at all.
LEMMA SameNodes == ASSUME versions' = versions PROVE NodesKept
BY DEF NodesKept

LEMMA AddNodeKeeps ==
    ASSUME TypeOK, NEW c, NEW parent, NEW kind, NEW text, AddNode(c, parent, kind, text)
    PROVE  NodesKept
<1>1. nextVid \notin DOMAIN versions
  BY DEF TypeOK, StoreTypes
<1> QED
  BY <1>1 DEF AddNode, With, NodesKept

LEMMA StepKeeps == IndInv /\ [Next]_vars => NodesKept
<1> SUFFICES ASSUME IndInv, [Next]_vars PROVE NodesKept
  OBVIOUS
<1> USE SameNodes
<1>1. ASSUME NEW p \in Workers, Step(p) PROVE NodesKept
  <2>1. CASE InsertVersion(p)
    BY <2>1, AddNodeKeeps DEF InsertVersion, IndInv
  <2>2. CASE RewriteNode(p)
    <3>1. req[p].pc = "update" /\ Good(req[p])
      BY <2>2, GoodRequests DEF RewriteNode, At, Holding, IndInv, TreeInv
    <3>2. req[p].read \in DOMAIN versions => versions[req[p].read].kind \in Editable
      BY <3>1 DEF Good
    <3>3. versions \in [DOMAIN versions -> VersionRow]
      BY DEF IndInv, TypeOK, StoreTypes
    <3>4. \A v \in DOMAIN versions :
            /\ v \in DOMAIN versions'
            /\ v # req[p].read => versions'[v] = versions[v]
            /\ v = req[p].read => versions'[v] = [versions[v] EXCEPT !.text = req[p].text]
      BY <2>2 DEF RewriteNode
    <3>5. \A v \in DOMAIN versions : v = req[p].read => versions'[v].text = req[p].text
      BY <3>3, <3>4 DEF VersionRow
    <3> QED  BY <3>2, <3>4, <3>5 DEF NodesKept
  <2>3. CASE ~InsertVersion(p) /\ ~RewriteNode(p)
    BY <1>1, <2>3 DEF Step, CreateChapter, ReadParent, SaveDraft, ReadHead, ReadRow, Generate,
       PolishTool, CanonDiff, Answer, ReadNumber, InsertRow, Promote, Advance, ReadState,
       SetState, Abort, storage
  <2> QED  BY <2>1, <2>2, <2>3
<1>2. ASSUME NEW c \in Chapters, NEW v \in 1 .. nextVid - 1, Revert(c, v) PROVE NodesKept
  BY <1>2 DEF Revert
<1>3. ASSUME NEW c \in Issued, DeleteChapter(c) PROVE NodesKept
  BY <1>3 DEF DeleteChapter, Without, NodesOf, NodesKept
<1>4. CASE Crash \/ ServeAgain
  BY <1>4 DEF Crash, ServeAgain, storage
<1>5. ASSUME NEW c \in Chapters, SeedHead(c) PROVE NodesKept
  BY <1>5, AddNodeKeeps DEF SeedHead, IndInv
<1>6. CASE UNCHANGED vars
  BY <1>6 DEF vars, storage
<1> QED
  BY <1>1, <1>2, <1>3, <1>4, <1>5, <1>6 DEF Next

\* No step loses a node of a chapter that lives on, moves one in the tree or
\* changes a text the model wrote (store/version.py: only the head moves).
THEOREM HistoryIsKept == ASSUME ~ForeignRevert PROVE Spec => HistoryKept
<1>1. IndInv /\ [Next]_vars => [NodesKept]_vars
  BY StepKeeps
<1> QED
  BY <1>1, Inductive, PTL DEF Spec, HistoryKept

-----------------------------------------------------------------------------
\* The refinement: each step of the store is a step of the version tree or none.
LEMMA AddNodeGrows ==
    ASSUME IndInv, NEW c \in Chapters, NEW parent \in NodesOf(c) \cup {NoVersion},
           NEW kind \in Kinds, NEW text \in Texts, AddNode(c, parent, kind, text),
           nextChapter' = nextChapter
    PROVE  Tree!Next
<1>1. /\ Chapters' = Chapters /\ run'[c].head = nextVid
      /\ \A d \in Chapters : d # c => run'[d] = run[d]
  BY DEF AddNode, Chapters, IndInv, TypeOK, StoreTypes, RunRow
<1>2. [d \in Chapters' |-> run'[d].head] = [[d \in Chapters |-> run[d].head] EXCEPT ![c] = nextVid]
  BY <1>1
<1>3. Tree!Grow(c, parent, kind, text)
  BY <1>2 DEF Tree!Grow, Tree!NodesOf, Tree!NoVersion, NodesOf, NoVersion, AddNode, With
<1> QED
  BY <1>3 DEF Tree!Next, Tree!Chapters, Tree!NodesOf, Tree!NoVersion, NodesOf, NoVersion

LEMMA SameTree ==
    ASSUME UNCHANGED <<versions, nextVid, nextChapter>>, Chapters' = Chapters,
           \A c \in Chapters : run'[c].head = run[c].head
    PROVE  UNCHANGED Tree!vars
BY DEF Tree!vars

LEMMA WorkerRefines ==
    ASSUME IndInv, NEW p \in Workers, Step(p)
    PROVE  Tree!Next \/ UNCHANGED Tree!vars
<1>1. req[p] \in Request /\ FitsStep(req[p])
  BY RunningTypes DEF IndInv
<1>2. CASE CreateChapter(p)
  <2>1. /\ Chapters' = Chapters \cup {nextChapter} /\ nextChapter \notin Chapters
        /\ run'[nextChapter].head = NoVersion /\ \A c \in Chapters : run'[c] = run[c]
    BY <1>2 DEF CreateChapter, With, Chapters, IndInv, TypeOK, StoreTypes, Issued
  <2>2. [c \in Chapters' |-> run'[c].head] =
           [c \in Chapters \cup {nextChapter} |-> IF c = nextChapter THEN NoVersion ELSE run[c].head]
    BY <2>1
  <2>3. Tree!Open
    BY <1>2, <2>2 DEF Tree!Open, Tree!Chapters, Tree!NoVersion, NoVersion, CreateChapter
  <2> QED  BY <2>3 DEF Tree!Next
<1>3. CASE InsertVersion(p)
  <2>1. req[p].pc = "insert" /\ Good(req[p]) /\ req[p].kind \in Kinds /\ req[p].text \in Texts
    BY <1>1, <1>3, GoodRequests DEF InsertVersion, At, Holding, IndInv, TreeInv, FitsStep, Request
  <2>2. CASE req[p].ch \in Chapters
    <3>1. req[p].read \in NodesOf(req[p].ch) \cup {NoVersion}
      BY <2>1, <2>2 DEF Good
    <3>2. AddNode(req[p].ch, req[p].read, req[p].kind, req[p].text) /\ nextChapter' = nextChapter
      BY <1>3, <2>2 DEF InsertVersion
    <3> QED  BY <2>1, <2>2, <3>1, <3>2, AddNodeGrows
  <2>3. CASE req[p].ch \notin Chapters
    BY <1>3, <2>3, SameTree DEF InsertVersion, Chapters
  <2> QED  BY <2>2, <2>3
<1>4. CASE RewriteNode(p)
  <2>1. /\ req[p].read \in DOMAIN versions => versions[req[p].read].kind \in Editable
        /\ req[p].text \in Texts
    BY <1>1, <1>4, GoodRequests DEF RewriteNode, At, Holding, Good, IndInv, TreeInv, Request
  <2>2. UNCHANGED <<run, nextVid, nextChapter>> /\ Chapters' = Chapters
    BY <1>4 DEF RewriteNode, Chapters
  <2>3. CASE req[p].read \in DOMAIN versions
    <3>1. versions' = [versions EXCEPT ![req[p].read].text = req[p].text]
      BY <1>4, <2>3 DEF RewriteNode
    <3>2. Tree!Retype(req[p].read, req[p].text)
      BY <2>1, <2>2, <2>3, <3>1 DEF Tree!Retype
    <3> QED  BY <2>1, <2>3, <3>2 DEF Tree!Next
  <2>4. CASE req[p].read \notin DOMAIN versions
    BY <1>4, <2>2, <2>4, SameTree DEF RewriteNode
  <2> QED  BY <2>3, <2>4
<1>5. CASE SetState(p)
  <2> DEFINE d == req[p].ch
             to == req[p].to
  <2>1. /\ run' = IF d \in Chapters THEN [run EXCEPT ![d].state = to] ELSE run
        /\ UNCHANGED <<versions, nextVid, nextChapter>>
    BY <1>5 DEF SetState
  <2> HIDE DEF d, to
  <2>2. run \in [Chapters -> RunRow]
    BY DEF IndInv, TypeOK, StoreTypes
  <2>3. Chapters' = Chapters /\ \A c \in Chapters : run'[c].head = run[c].head
    BY <2>1, <2>2 DEF Chapters, RunRow
  <2> QED  BY <2>1, <2>3, SameTree
<1>6. CASE ~CreateChapter(p) /\ ~InsertVersion(p) /\ ~RewriteNode(p) /\ ~SetState(p)
  <2>1. UNCHANGED <<versions, run, nextVid, nextChapter>>
    BY <1>6 DEF Step, ReadParent, SaveDraft, ReadHead, ReadRow, Generate, PolishTool, CanonDiff,
       Answer, ReadNumber, InsertRow, Promote, Advance, ReadState, Abort, storage
  <2> QED  BY <2>1, SameTree DEF Chapters
<1> QED
  BY <1>2, <1>3, <1>4, <1>5, <1>6

LEMMA DeleteRefines ==
    ASSUME IndInv, NEW c \in Issued, DeleteChapter(c)
    PROVE  Tree!Next \/ UNCHANGED Tree!vars
<1>1. /\ Chapters' = Chapters \ {c} /\ \A d \in Chapters' : run'[d] = run[d]
      /\ UNCHANGED <<nextVid, nextChapter>>
      /\ versions' = [v \in DOMAIN versions \ NodesOf(c) |-> versions[v]]
  BY DEF DeleteChapter, Without, Chapters
<1>2. CASE c \in Chapters
  <2>1. [d \in Chapters' |-> run'[d].head] = [d \in Chapters \ {c} |-> run[d].head]
    BY <1>1
  <2>2. Tree!Drop(c)
    BY <1>1, <2>1 DEF Tree!Drop, Tree!NodesOf, Tree!Chapters, NodesOf
  <2> QED  BY <1>2, <2>2 DEF Tree!Next, Tree!Chapters
<1>3. CASE c \notin Chapters
  <2>1. NodesOf(c) = {}
    BY <1>3 DEF NodesOf, IndInv, TreeInv, ParentsOlder
  <2>2. versions' = versions
    BY <1>1, <2>1 DEF IndInv, TypeOK, StoreTypes
  <2>3. Chapters' = Chapters /\ \A d \in Chapters : run'[d].head = run[d].head
    BY <1>1, <1>3
  <2> QED  BY <1>1, <2>2, <2>3, SameTree
<1> QED
  BY <1>2, <1>3

LEMMA NextRefines ==
    ASSUME ~ForeignRevert
    PROVE  IndInv /\ [Next]_vars => [Tree!Next]_(Tree!vars)
<1> SUFFICES ASSUME IndInv, [Next]_vars PROVE Tree!Next \/ UNCHANGED Tree!vars
  OBVIOUS
<1>1. ASSUME NEW p \in Workers, Step(p) PROVE Tree!Next \/ UNCHANGED Tree!vars
  BY <1>1, WorkerRefines
<1>2. ASSUME NEW c \in Chapters, NEW v \in 1 .. nextVid - 1, Revert(c, v) PROVE Tree!Next
  <2>1. /\ v \in NodesOf(c) /\ UNCHANGED <<versions, nextVid, nextChapter>>
        /\ Chapters' = Chapters
        /\ \A d \in Chapters : run'[d].head = IF d = c THEN v ELSE run[d].head
    BY <1>2 DEF Revert, Chapters, IndInv, TypeOK, StoreTypes, RunRow
  <2>2. [d \in Chapters' |-> run'[d].head] = [[d \in Chapters |-> run[d].head] EXCEPT ![c] = v]
    BY <2>1
  <2>3. Tree!MoveHead(c, v)
    BY <2>1, <2>2 DEF Tree!MoveHead, Tree!NodesOf, NodesOf
  <2> QED  BY <2>1, <2>3 DEF Tree!Next, Tree!Chapters, NodesOf
<1>3. ASSUME NEW c \in Issued, DeleteChapter(c) PROVE Tree!Next \/ UNCHANGED Tree!vars
  BY <1>3, DeleteRefines
<1>4. CASE Crash \/ ServeAgain \/ UNCHANGED vars
  <2>1. UNCHANGED <<versions, run, nextVid, nextChapter>>
    BY <1>4 DEF Crash, ServeAgain, vars, storage
  <2> QED  BY <2>1, SameTree DEF Chapters
<1>5. ASSUME NEW c \in Chapters, SeedHead(c) PROVE Tree!Next
  <2>1. PICK text \in SeedTexts(c) : AddNode(c, NoVersion, "draft", text)
    BY <1>5 DEF SeedHead
  <2>2. text \in Texts
    BY <2>1, SeedTextTypes DEF IndInv
  <2> QED  BY <1>5, <2>1, <2>2, AddNodeGrows DEF SeedHead, Kinds
<1> QED
  BY <1>1, <1>2, <1>3, <1>4, <1>5 DEF Next

\* The store, with its split transactions, crashes and start-up migration,
\* implements the version tree: every step is a step of VersionTree or none.
THEOREM StoreImplementsTree == ASSUME ~ForeignRevert PROVE Spec => ImplementsTree
<1>1. Init => Tree!Init
  BY DEF Init, Tree!Init, Chapters
<1>2. IndInv /\ [Next]_vars => [Tree!Next]_(Tree!vars)
  BY NextRefines
<1> QED
  BY <1>1, <1>2, Inductive, PTL DEF Spec, ImplementsTree, Tree!Spec

-----------------------------------------------------------------------------
(***************************************************************************)
(* A chapter's life rather than its tree: the pipeline states it earns,    *)
(* the head a start-up gives it, the autosaves kept of it.  These theorems *)
(* hold whatever versions clients revert to.                               *)
(***************************************************************************)
\* Pipeline states.  ReadState looks at a state that SetState may find replaced;
\* what survives is that the state looked at has been reached.
PendingEarned ==
    \A p \in Workers :
        req[p].pc = "set" /\ req[p].ch \in Chapters =>
            Earned(reached[req[p].ch] \cup {req[p].to})

StateReached == \A c \in Chapters : run[c].state \in reached[c]

LifeInv == TypeOK /\ MilestonesInOrder /\ StateReached /\ PendingEarned

LEMMA EarnedUnion ==
    ASSUME NEW S, NEW T, Earned(S), Earned(T) PROVE Earned(S \cup T)
BY DEF Earned

\* Only three kinds of steps matter to the states reached.
LEMMA SameReached ==
    ASSUME LifeInv, Chapters' = Chapters, reached' = reached,
           \A c \in Chapters : run'[c].state = run[c].state,
           \A q \in Workers : \/ req'[q] = req[q]
                              \/ req'[q].pc # "set"
                              \/ /\ req'[q].ch \in Chapters =>
                                      Earned(reached[req'[q].ch] \cup {req'[q].to})
    PROVE  (MilestonesInOrder /\ StateReached /\ PendingEarned)'
<1>1. MilestonesInOrder' /\ StateReached'
  BY DEF LifeInv, MilestonesInOrder, StateReached
<1>2. ASSUME NEW q \in Workers, req'[q].pc = "set", req'[q].ch \in Chapters
      PROVE  Earned(reached[req'[q].ch] \cup {req'[q].to})
  BY <1>2 DEF LifeInv, PendingEarned
<1> QED
  BY <1>1, <1>2 DEF PendingEarned

LEMMA CanAdvanceEarned ==
    ASSUME NEW S, NEW frm \in S \cap States, NEW to \in States, Earned(S), CanAdvance(frm, to)
    PROVE  Earned(S \cup {to})
BY DEF Earned, CanAdvance, Transitions, States

LEMMA ReadStateLife ==
    ASSUME LifeInv, NEW p \in Workers, ReadState(p) PROVE (MilestonesInOrder /\ StateReached /\ PendingEarned)'
<1>1. req[p] \in Request /\ req \in [Workers -> Request]
  BY DEF LifeInv, TypeOK, RequestTypes
<1>2. Chapters' = Chapters /\ reached' = reached /\ run' = run
  BY DEF ReadState, storage, history, Chapters
<1>3. CASE Finish(p)
  BY <1>1, <1>2, <1>3, IdleFits, SameReached DEF Finish, Becomes
<1>4. CASE Goto(p, "set") /\ CanAdvance(StateOf(req[p].ch), req[p].to)
  <2> DEFINE r == [req[p] EXCEPT !.pc = "set"]
  <2>1. r.ch = req[p].ch /\ r.to = req[p].to /\ r.to \in States
    BY <1>1 DEF Request
  <2>2. ASSUME r.ch \in Chapters PROVE Earned(reached[r.ch] \cup {r.to})
    <3>1. run[r.ch].state \in reached[r.ch] \cap States /\ Earned(reached[r.ch])
      BY <2>2 DEF LifeInv, StateReached, MilestonesInOrder, TypeOK
    <3>2. CanAdvance(run[r.ch].state, r.to)
      BY <1>4, <2>1, <2>2 DEF StateOf
    <3> HIDE DEF r
    <3> QED  BY <2>1, <3>1, <3>2, CanAdvanceEarned
  <2>3. \A q \in Workers : req'[q] = IF q = p THEN r ELSE req[q]
    BY <1>1, <1>4 DEF Goto, Becomes
  <2> HIDE DEF r
  <2> QED  BY <1>2, <2>2, <2>3, SameReached
<1> QED
  BY <1>3, <1>4 DEF ReadState

LEMMA SetStateLife ==
    ASSUME LifeInv, NEW p \in Workers, SetState(p) PROVE (MilestonesInOrder /\ StateReached /\ PendingEarned)'
<1> DEFINE d == req[p].ch
           to == req[p].to
<1>1. /\ run' = IF d \in Chapters THEN [run EXCEPT ![d].state = to] ELSE run
      /\ reached' = IF d \in Chapters THEN [reached EXCEPT ![d] = @ \cup {to}] ELSE reached
  BY DEF SetState
<1>2. d \in Chapters => Earned(reached[d] \cup {to})
  BY DEF SetState, At, LifeInv, PendingEarned
<1>3. \A q \in Workers : req'[q] = req[q] \/ req'[q].pc # "set"
  BY IdleFits DEF SetState, Finish, Becomes, LifeInv, TypeOK, RequestTypes
<1> HIDE DEF d, to
<1>4. /\ Chapters' = Chapters
      /\ \A c \in Chapters : /\ run'[c].state = IF c = d THEN to ELSE run[c].state
                             /\ reached'[c] = IF c = d THEN reached[c] \cup {to} ELSE reached[c]
  BY <1>1 DEF Chapters, LifeInv, TypeOK, StoreTypes, RunRow
<1>5. MilestonesInOrder' /\ StateReached'
  BY <1>2, <1>4 DEF LifeInv, MilestonesInOrder, StateReached
<1>6. ASSUME NEW q \in Workers, req'[q] = req[q], req[q].pc = "set", req[q].ch \in Chapters
      PROVE  Earned(reached'[req[q].ch] \cup {req[q].to})
  <2>1. Earned(reached[req[q].ch] \cup {req[q].to})
    BY <1>6 DEF LifeInv, PendingEarned
  <2>2. CASE req[q].ch = d
    <3>1. Earned((reached[d] \cup {req[q].to}) \cup (reached[d] \cup {to}))
      BY <1>2, <1>6, <2>1, <2>2, EarnedUnion
    <3>2. (reached[d] \cup {req[q].to}) \cup (reached[d] \cup {to}) = reached'[d] \cup {req[q].to}
      BY <1>4, <1>6, <2>2
    <3> QED  BY <2>2, <3>1, <3>2
  <2>3. CASE req[q].ch # d
    BY <1>4, <1>6, <2>1, <2>3
  <2> QED  BY <2>2, <2>3
<1> QED
  BY <1>3, <1>4, <1>5, <1>6 DEF PendingEarned

\* A chapter that opens has reached one state, and no request points at it yet.
LEMMA CreateChapterLife ==
    ASSUME LifeInv, NEW p \in Workers, CreateChapter(p)
    PROVE  (MilestonesInOrder /\ StateReached /\ PendingEarned)'
<1>1. /\ Chapters' = Chapters \cup {nextChapter} /\ nextChapter \notin Chapters
      /\ run'[nextChapter].state = "DRAFT" /\ reached'[nextChapter] = {"DRAFT"}
      /\ \A c \in Chapters : run'[c] = run[c] /\ reached'[c] = reached[c]
  BY DEF CreateChapter, With, Chapters, LifeInv, TypeOK, StoreTypes, Issued
<1>2. MilestonesInOrder' /\ StateReached'
  BY <1>1 DEF LifeInv, MilestonesInOrder, StateReached, Earned
<1>3. \A q \in Workers : req'[q] = req[q] \/ req'[q].pc # "set"
  <2>1. \E r : Becomes(p, r) /\ r.pc # "set"
    BY BeginTree DEF CreateChapter
  <2> QED  BY <2>1 DEF Becomes, LifeInv, TypeOK, RequestTypes
<1>4. \A q \in Workers : req[q].ch # nextChapter
  BY RunningTypes DEF LifeInv, TypeOK, StoreTypes
<1> QED
  BY <1>1, <1>2, <1>3, <1>4 DEF LifeInv, PendingEarned

LEMMA DeleteChapterLife ==
    ASSUME LifeInv, NEW c, DeleteChapter(c)
    PROVE  (MilestonesInOrder /\ StateReached /\ PendingEarned)'
<1>1. /\ Chapters' = Chapters \ {c} /\ req' = req
      /\ \A d \in Chapters' : run'[d] = run[d] /\ reached'[d] = reached[d]
  BY DEF DeleteChapter, Without, Chapters, LifeInv, TypeOK
<1> QED
  BY <1>1 DEF LifeInv, MilestonesInOrder, StateReached, PendingEarned

\* /canon/diff sets EXTRACT without looking: nothing has to earn it.
LEMMA AnswerLife ==
    ASSUME LifeInv, NEW p \in Workers, Answer(p)
    PROVE  (MilestonesInOrder /\ StateReached /\ PendingEarned)'
<1>1. req[p] \in Request /\ FitsStep(req[p]) /\ req[p].pc = "llm" /\ req \in [Workers -> Request]
  BY RunningTypes DEF Answer, At, LifeInv, TypeOK, RequestTypes
<1>2. Chapters' = Chapters /\ reached' = reached /\ run' = run
  BY DEF Answer, storage, history, Chapters
<1>3. \E r : /\ Becomes(p, r)
            /\ \/ r.pc # "set"
               \/ r.to = "EXTRACT"
  <2>1. CASE req[p].op = "canon"
    <3>1. req[p].to = "EXTRACT"
      BY <1>1, <2>1 DEF FitsStep
    <3> QED  BY <1>1, <2>1, <3>1 DEF Answer, Goto, Request
  <2>2. CASE req[p].op # "canon"
    <3>1. \A text : [req[p] EXCEPT !.text = text, !.pc = "number"].pc = "number"
      BY <1>1 DEF Request
    <3> QED  BY <2>2, <3>1 DEF Answer
  <2> QED  BY <2>1, <2>2
<1>4. PICK r : Becomes(p, r) /\ (r.pc # "set" \/ r.to = "EXTRACT")
  BY <1>3
<1>5. ASSUME r.to = "EXTRACT", r.ch \in Chapters PROVE Earned(reached[r.ch] \cup {r.to})
  BY <1>5 DEF LifeInv, MilestonesInOrder, Earned
<1>6. \A q \in Workers : req'[q] = IF q = p THEN r ELSE req[q]
  BY <1>1, <1>4 DEF Becomes
<1> QED
  BY <1>2, <1>4, <1>5, <1>6, SameReached

\* Everything else.
LEMMA AddNodeLife ==
    ASSUME TypeOK, NEW c, NEW parent, NEW kind, NEW text, AddNode(c, parent, kind, text)
    PROVE  Chapters' = Chapters /\ \A d \in Chapters : run'[d].state = run[d].state
BY DEF AddNode, Chapters, TypeOK, StoreTypes, RunRow

LEMMA WorkerLife ==
    ASSUME LifeInv, NEW p \in Workers, Step(p)
    PROVE  (MilestonesInOrder /\ StateReached /\ PendingEarned)'
<1>1. CASE CreateChapter(p) \/ ReadState(p) \/ SetState(p) \/ Answer(p)
  BY <1>1, CreateChapterLife, ReadStateLife, SetStateLife, AnswerLife
<1>2. CASE InsertVersion(p)
  <2>1. /\ Chapters' = Chapters /\ reached' = reached
        /\ \A d \in Chapters : run'[d].state = run[d].state
    BY <1>2, AddNodeLife DEF InsertVersion, history, LifeInv, Chapters
  <2>2. \E r : Becomes(p, r) /\ r.pc # "set"
    BY <1>2, IdleFits, RunningTypes DEF InsertVersion, Created, Finish, Goto, LifeInv, Request
  <2>3. \A q \in Workers : req'[q] = req[q] \/ req'[q].pc # "set"
    BY <2>2 DEF Becomes, LifeInv, TypeOK, RequestTypes
  <2> QED  BY <2>1, <2>3, SameReached
<1>3. CASE ~(CreateChapter(p) \/ ReadState(p) \/ SetState(p) \/ Answer(p) \/ InsertVersion(p))
  <2>1. Chapters' = Chapters /\ reached' = reached /\ run' = run
    BY <1>3 DEF Step, ReadParent, SaveDraft, ReadHead, ReadRow, RewriteNode, Generate, PolishTool,
       CanonDiff, ReadNumber, InsertRow, Promote, Advance, Abort, storage, history, Chapters
  <2>2. \E r : Becomes(p, r) /\ r.pc # "set"
    <3>1. req[p] \in Request
      BY RunningTypes DEF LifeInv
    <3>2. CASE ReadParent(p) \/ ReadHead(p) \/ ReadRow(p) \/ ReadNumber(p)
      <4>1. ASSUME NEW n, NEW s, s # "set", Becomes(p, [req[p] EXCEPT !.read = n, !.pc = s])
            PROVE  \E r : Becomes(p, r) /\ r.pc # "set"
        <5> DEFINE r == [req[p] EXCEPT !.read = n, !.pc = s]
        <5>1. r.pc = s
          BY <3>1 DEF Request
        <5> HIDE DEF r
        <5> QED  BY <4>1, <5>1 DEF r
      <4>2. CASE ReadParent(p)
        BY <4>1, <4>2 DEF ReadParent
      <4>3. CASE ReadHead(p)
        BY <4>1, <4>3 DEF ReadHead
      <4>4. CASE ReadRow(p)
        <5>1. \A s : [req[p] EXCEPT !.pc = s].pc = s
          BY <3>1 DEF Request
        <5> QED  BY <5>1, <4>4, IdleFits DEF ReadRow, Finish, Goto
      <4>5. CASE ReadNumber(p)
        BY <4>1, <4>5 DEF ReadNumber
      <4> QED  BY <3>2, <4>2, <4>3, <4>4, <4>5
    <3>3. CASE RewriteNode(p) \/ InsertRow(p) \/ Abort(p)
      BY <3>1, <3>3, IdleFits DEF RewriteNode, InsertRow, Abort, Finish, Goto, Request
    <3>4. CASE SaveDraft(p) \/ Generate(p) \/ PolishTool(p)
      BY <3>4, BeginTree DEF SaveDraft, Generate, PolishTool
    <3>5. CASE CanonDiff(p) \/ Promote(p) \/ Advance(p)
      BY <3>5, BeginTree DEF CanonDiff, Promote, Advance
    <3> QED  BY <1>3, <3>2, <3>3, <3>4, <3>5 DEF Step
  <2>3. \A q \in Workers : req'[q] = req[q] \/ req'[q].pc # "set"
    BY <2>2 DEF Becomes, LifeInv, TypeOK, RequestTypes
  <2> QED  BY <2>1, <2>3, SameReached
<1> QED
  BY <1>1, <1>2, <1>3

LEMMA NextLife == LifeInv /\ [Next]_vars => LifeInv'
<1> SUFFICES ASSUME LifeInv, [Next]_vars PROVE (MilestonesInOrder /\ StateReached /\ PendingEarned)'
  BY NextTypes DEF LifeInv
<1>1. ASSUME NEW p \in Workers, Step(p) PROVE (MilestonesInOrder /\ StateReached /\ PendingEarned)'
  BY <1>1, WorkerLife
<1>2. ASSUME NEW c \in Chapters, NEW v \in 1 .. nextVid - 1, Revert(c, v)
      PROVE  (MilestonesInOrder /\ StateReached /\ PendingEarned)'
  <2>1. /\ Chapters' = Chapters /\ reached' = reached /\ req' = req
        /\ \A d \in Chapters : run'[d].state = run[d].state
    BY <1>2 DEF Revert, history, Chapters, LifeInv, TypeOK, StoreTypes, RunRow
  <2> QED  BY <2>1, SameReached
<1>3. ASSUME NEW c \in Issued, DeleteChapter(c)
      PROVE  (MilestonesInOrder /\ StateReached /\ PendingEarned)'
  BY <1>3, DeleteChapterLife
<1>4. CASE Crash \/ ServeAgain \/ UNCHANGED vars
  BY <1>4, IdleFits, SameReached DEF Crash, ServeAgain, vars, storage, history, Chapters
<1>5. ASSUME NEW c \in Chapters, SeedHead(c)
      PROVE  (MilestonesInOrder /\ StateReached /\ PendingEarned)'
  BY <1>5, AddNodeLife, SameReached DEF SeedHead, history, LifeInv
<1> QED
  BY <1>1, <1>2, <1>3, <1>4, <1>5 DEF Next

\* However the handlers of one chapter overlap, it is promoted only after it has
\* been extracted, shipped only after it has been promoted, expanded only after
\* it has been polished (api/structure_routes.py advance, api/gen_routes.py gen,
\* api/canon_routes.py canon_diff and canon_promote).
THEOREM MilestonesAreEarned == Spec => []MilestonesInOrder
<1>1. Init => LifeInv
  BY InitType DEF Init, LifeInv, MilestonesInOrder, StateReached, PendingEarned, Chapters
<1>2. LifeInv /\ [Next]_vars => LifeInv'
  BY NextLife
<1>3. LifeInv => MilestonesInOrder
  BY DEF LifeInv
<1> QED
  BY <1>1, <1>2, <1>3, PTL DEF Spec

-----------------------------------------------------------------------------
\* Heads.  Once a chapter has a head it keeps one; the chapters that lack one
\* are younger than the last start.
BootInv ==
    /\ TypeOK
    /\ bootChapter <= nextChapter
    /\ HeadlessOnlySinceBoot

LEMMA HeadsStay ==
    ASSUME BootInv, Chapters' = Chapters, UNCHANGED <<nextChapter, bootChapter>>,
           \A c \in Chapters : run[c].head # NoVersion => run'[c].head # NoVersion,
           up' => up
    PROVE  bootChapter' <= nextChapter' /\ HeadlessOnlySinceBoot'
BY DEF BootInv, HeadlessOnlySinceBoot, Headless

LEMMA AddNodeHeads ==
    ASSUME TypeOK, NEW c, NEW parent, NEW kind, NEW text, AddNode(c, parent, kind, text)
    PROVE  /\ Chapters' = Chapters
           /\ \A d \in Chapters : run[d].head # NoVersion => run'[d].head # NoVersion
BY DEF AddNode, Chapters, TypeOK, StoreTypes, RunRow, NoVersion

LEMMA NextBoot == BootInv /\ [Next]_vars => BootInv'
<1> SUFFICES ASSUME BootInv, [Next]_vars
             PROVE  bootChapter' <= nextChapter' /\ HeadlessOnlySinceBoot'
  BY NextTypes DEF BootInv
<1>1. ASSUME NEW p \in Workers, Step(p)
      PROVE  bootChapter' <= nextChapter' /\ HeadlessOnlySinceBoot'
  <2>1. CASE CreateChapter(p)
    <3>1. /\ Chapters' = Chapters \cup {nextChapter} /\ nextChapter' = nextChapter + 1
          /\ \A c \in Chapters : run'[c] = run[c]
          /\ bootChapter' = bootChapter /\ up' = up
      BY <2>1 DEF CreateChapter, With, Chapters, BootInv, TypeOK, StoreTypes, Issued
    <3>2. nextChapter \in Nat /\ bootChapter \in Nat /\ bootChapter <= nextChapter
      BY DEF BootInv, TypeOK, StoreTypes
    <3> QED  BY <3>1, <3>2 DEF BootInv, HeadlessOnlySinceBoot, Headless
  <2>2. CASE InsertVersion(p)
    <3>1. UNCHANGED <<nextChapter, bootChapter, up>>
      BY <2>2 DEF InsertVersion, history
    <3>2. CASE run' = run
      BY <3>1, <3>2, HeadsStay DEF Chapters
    <3>3. CASE AddNode(req[p].ch, req[p].read, req[p].kind, req[p].text)
      BY <3>1, <3>3, AddNodeHeads, HeadsStay DEF BootInv
    <3> QED  BY <2>2, <3>2, <3>3 DEF InsertVersion
  <2>3. CASE SetState(p)
    <3> DEFINE d == req[p].ch
               to == req[p].to
    <3>1. /\ run' = IF d \in Chapters THEN [run EXCEPT ![d].state = to] ELSE run
          /\ UNCHANGED <<nextChapter, bootChapter, up>>
      BY <2>3 DEF SetState
    <3> HIDE DEF d, to
    <3>2. run \in [Chapters -> RunRow]
      BY DEF BootInv, TypeOK, StoreTypes
    <3>3. Chapters' = Chapters /\ \A c \in Chapters : run'[c].head = run[c].head
      BY <3>1, <3>2 DEF Chapters, RunRow
    <3> QED  BY <3>1, <3>3, HeadsStay
  <2>4. CASE ~CreateChapter(p) /\ ~InsertVersion(p) /\ ~SetState(p)
    <3>1. UNCHANGED <<run, nextChapter, bootChapter, up>>
      BY <1>1, <2>4 DEF Step, ReadParent, SaveDraft, ReadHead, ReadRow, RewriteNode, Generate,
         PolishTool, CanonDiff, Answer, ReadNumber, InsertRow, Promote, Advance, ReadState, Abort,
         storage, history
    <3> QED  BY <3>1, HeadsStay DEF Chapters
  <2> QED  BY <2>1, <2>2, <2>3, <2>4
<1>2. ASSUME NEW c \in Chapters, NEW v \in 1 .. nextVid - 1, Revert(c, v)
      PROVE  bootChapter' <= nextChapter' /\ HeadlessOnlySinceBoot'
  <2>1. /\ Chapters' = Chapters /\ UNCHANGED <<nextChapter, bootChapter, up>>
        /\ \A d \in Chapters : run'[d].head = IF d = c THEN v ELSE run[d].head
        /\ v # NoVersion
    BY <1>2 DEF Revert, history, Chapters, NoVersion, BootInv, TypeOK, StoreTypes, RunRow
  <2> QED  BY <2>1, HeadsStay
<1>3. ASSUME NEW c \in Issued, DeleteChapter(c)
      PROVE  bootChapter' <= nextChapter' /\ HeadlessOnlySinceBoot'
  <2>1. /\ Chapters' = Chapters \ {c} /\ UNCHANGED <<nextChapter, bootChapter, up>>
        /\ \A d \in Chapters' : run'[d] = run[d]
    BY <1>3 DEF DeleteChapter, Without, Chapters
  <2> QED  BY <2>1 DEF BootInv, HeadlessOnlySinceBoot, Headless
<1>4. CASE Crash
  BY <1>4 DEF Crash, storage, history, BootInv, HeadlessOnlySinceBoot
<1>5. CASE ServeAgain
  <2>1. Headless' = {} /\ bootChapter' = nextChapter' /\ nextChapter' \in Nat
    BY <1>5 DEF ServeAgain, storage, Headless, Chapters, BootInv, TypeOK, StoreTypes
  <2> QED  BY <2>1 DEF HeadlessOnlySinceBoot
<1>6. ASSUME NEW c \in Chapters, SeedHead(c)
      PROVE  bootChapter' <= nextChapter' /\ HeadlessOnlySinceBoot'
  BY <1>6, AddNodeHeads, HeadsStay DEF SeedHead, history, BootInv
<1>7. CASE UNCHANGED vars
  BY <1>7, HeadsStay DEF vars, storage, history, Chapters
<1> QED
  BY <1>1, <1>2, <1>3, <1>4, <1>5, <1>6, <1>7 DEF Next

\* A chapter left without a head by a creation that broke off is given one by
\* the next start-up, before it serves anything (store/db.py
\* _migrate_seed_versions): without a head are only chapters created since.
THEOREM HeadlessChaptersAreRecent == Spec => []HeadlessOnlySinceBoot
<1>1. Init => BootInv
  BY InitType DEF Init, BootInv, HeadlessOnlySinceBoot, Headless, Chapters
<1>2. BootInv /\ [Next]_vars => BootInv'
  BY NextBoot
<1>3. BootInv => HeadlessOnlySinceBoot
  BY DEF BootInv
<1> QED
  BY <1>1, <1>2, <1>3, PTL DEF Spec

-----------------------------------------------------------------------------
\* Autosaves.
LEMMA SameAutosaves ==
    ASSUME AutosaveWindow, Chapters' \subseteq Chapters, UNCHANGED <<autosaves, nextChapter>>,
           \A c \in Chapters' : manuscripts'[c].draft = manuscripts[c].draft
    PROVE  AutosaveWindow'
BY DEF AutosaveWindow, Issued

LEMMA SaveDraftWindow ==
    ASSUME TypeOK, AutosaveWindow, NEW p \in Workers, SaveDraft(p) PROVE AutosaveWindow'
<1>1. PICK c \in Issued, text \in Texts :
         /\ manuscripts' = IF c \in Chapters
                           THEN [manuscripts EXCEPT ![c].draft = text] ELSE manuscripts
         /\ autosaves' = [autosaves EXCEPT ![c] = Newest(Append(@, text), KEEP)]
  BY DEF SaveDraft
<1>2. /\ c \in DOMAIN autosaves /\ autosaves[c] \in Seq(Texts) /\ KEEP \in Nat \ {0}
      /\ Issued' = Issued /\ Chapters' = Chapters
  BY ConstantsAssumption DEF TypeOK, StoreTypes, Issued, SaveDraft, Chapters
<1> DEFINE old == Append(autosaves[c], text)
           new == Newest(old, KEEP)
<1>3. old \in Seq(Texts) /\ old # << >> /\ old[Len(old)] = text
  BY <1>2
<1>4. Len(new) <= KEEP /\ new[Len(new)] = text
  BY <1>2, <1>3, NewestTypes
<1>5. autosaves' = [autosaves EXCEPT ![c] = new]
  BY <1>1
<1> HIDE DEF old, new
<1>6. \A d \in Issued : autosaves'[d] = IF d = c THEN new ELSE autosaves[d]
  BY <1>2, <1>5 DEF TypeOK, StoreTypes, Issued
<1>7. \A d \in Chapters : manuscripts'[d].draft = IF d = c THEN text ELSE manuscripts[d].draft
  BY <1>1 DEF TypeOK, StoreTypes, Manuscripts
<1> QED
  BY <1>2, <1>4, <1>6, <1>7 DEF AutosaveWindow

LEMMA NextWindow == TypeOK /\ AutosaveWindow /\ [Next]_vars => AutosaveWindow'
<1> SUFFICES ASSUME TypeOK, AutosaveWindow, [Next]_vars PROVE AutosaveWindow'
  OBVIOUS
<1>1. ASSUME NEW p \in Workers, Step(p) PROVE AutosaveWindow'
  <2>1. CASE CreateChapter(p)
    <3>1. /\ Issued' = Issued \cup {nextChapter} /\ nextChapter \notin Issued
          /\ Chapters' = Chapters \cup {nextChapter}
          /\ \A c \in Chapters : manuscripts'[c] = manuscripts[c]
      BY <2>1 DEF CreateChapter, With, Chapters, Issued, TypeOK, StoreTypes
    <3>2. /\ autosaves'[nextChapter] = << >>
          /\ \A c \in Issued : autosaves'[c] = autosaves[c]
      BY <2>1 DEF CreateChapter, Issued, TypeOK, StoreTypes
    <3>3. nextChapter \notin Chapters /\ KEEP \in Nat
      BY <3>1, ConstantsAssumption DEF TypeOK, StoreTypes
    <3> QED  BY <3>1, <3>2, <3>3 DEF AutosaveWindow
  <2>2. CASE SaveDraft(p)
    BY <2>2, SaveDraftWindow
  <2>3. CASE InsertRow(p)
    <3> DEFINE d == req[p].ch
    <3>1. \E rows : manuscripts' = IF d \in Chapters THEN [manuscripts EXCEPT ![d].rows = rows]
                                                     ELSE manuscripts
      BY <2>3 DEF InsertRow
    <3> HIDE DEF d
    <3>2. \A c \in Chapters : manuscripts'[c].draft = manuscripts[c].draft
      BY <3>1 DEF TypeOK, StoreTypes, Manuscripts
    <3>3. UNCHANGED <<run, autosaves, nextChapter>>
      BY <2>3 DEF InsertRow
    <3> QED  BY <3>2, <3>3, SameAutosaves DEF Chapters
  <2>4. CASE ~CreateChapter(p) /\ ~SaveDraft(p) /\ ~InsertRow(p)
    <3>1. UNCHANGED <<manuscripts, autosaves, nextChapter>>
      BY <1>1, <2>4 DEF Step, ReadParent, InsertVersion, ReadHead, ReadRow, RewriteNode, Generate,
         PolishTool, CanonDiff, Answer, ReadNumber, Promote, Advance, ReadState, SetState, Abort,
         storage
    <3>2. Chapters' = Chapters
      <4>1. CASE InsertVersion(p)
        BY <4>1, AddNodeLife DEF InsertVersion, Chapters
      <4>2. CASE SetState(p)
        BY <4>2 DEF SetState, Chapters, TypeOK, StoreTypes
      <4>3. CASE ~InsertVersion(p) /\ ~SetState(p)
        BY <1>1, <2>4, <4>3 DEF Step, ReadParent, ReadHead, ReadRow, RewriteNode, Generate,
           PolishTool, CanonDiff, Answer, ReadNumber, Promote, Advance, ReadState, Abort,
           storage, Chapters
      <4> QED  BY <4>1, <4>2, <4>3
    <3> QED  BY <3>1, <3>2, SameAutosaves
  <2> QED  BY <2>1, <2>2, <2>3, <2>4
<1>2. ASSUME NEW c \in Chapters, NEW v \in 1 .. nextVid - 1, Revert(c, v) PROVE AutosaveWindow'
  BY <1>2, SameAutosaves DEF Revert, Chapters, TypeOK, StoreTypes
<1>3. ASSUME NEW c \in Issued, DeleteChapter(c) PROVE AutosaveWindow'
  <2>1. /\ Chapters' = Chapters \ {c} /\ Issued' = Issued
        /\ \A d \in Chapters' : manuscripts'[d] = manuscripts[d]
        /\ \A d \in Issued : autosaves'[d] = IF d = c THEN << >> ELSE autosaves[d]
    BY <1>3 DEF DeleteChapter, Without, Chapters, Issued, TypeOK, StoreTypes
  <2>2. KEEP \in Nat
    BY ConstantsAssumption
  <2> QED  BY <2>1, <2>2 DEF AutosaveWindow
<1>4. CASE Crash \/ ServeAgain \/ UNCHANGED vars
  BY <1>4, SameAutosaves DEF Crash, ServeAgain, vars, storage, Chapters
<1>5. ASSUME NEW c \in Chapters, SeedHead(c) PROVE AutosaveWindow'
  BY <1>5, AddNodeLife, SameAutosaves DEF SeedHead
<1> QED
  BY <1>1, <1>2, <1>3, <1>4, <1>5 DEF Next

\* A chapter never keeps more than KEEP snapshots, and the newest one is what the
\* draft row holds (store/repo.py save_draft_text).
THEOREM AutosavesStayBounded == Spec => []AutosaveWindow
<1>1. Init => AutosaveWindow
  BY DEF Init, AutosaveWindow, Issued
<1> QED
  BY <1>1, NextWindow, ChapterStoreTypes, PTL DEF Spec
=============================================================================
