----------------------------- MODULE ParaReview ------------------------------
(***************************************************************************)
(* The paragraph diff of the builder (lib/paraDiff.ts), the review that a  *)
(* writer conducts with it (app/review) and where the texts come from: a   *)
(* generation, or the partial edit of a selection (app/PartialEditBar).    *)
(* A proposed text is compared with the one in the editor paragraph by     *)
(* paragraph; the writer accepts or rejects each difference and the two    *)
(* are merged.  The preview of a version is the same diff, to look at.     *)
(*                                                                         *)
(* A text is a sequence of blocks with blank lines between them, a block   *)
(* a sequence of lines, a line a model value.  Trimming and the diff of    *)
(* words inside a paragraph are left out.  Nothing ties the offsets of a   *)
(* selection to the text once that has changed under it, nor an answer to  *)
(* the selection it was asked for; both are any when they are used.        *)
(***************************************************************************)
EXTENDS Integers, Sequences, FiniteSets, FiniteSetsExt, SequencesExt

CONSTANTS Lines,    \* what a line can be
          MaxLines  \* bound of the explored instance: lines of a text

ASSUME ParaAssumption == MaxLines \in Nat

VARIABLES text,     \* what the editor holds
          review,   \* the open review, or NoReview
          sel,      \* is something selected? the editor is then read-only
          bar,      \* PartialEditBar: what it waits for and what it offers
          preview   \* is the preview of a version open?

vars == <<text, review, sel, bar, preview>>

Blocks == SeqOf(Lines, MaxLines) \ {<<>>}
Texts  == {t \in SeqOf(Blocks, MaxLines) : Len(FlattenSeq(t)) <= MaxLines}

(***************************************************************************)
(* splitParas and its inverse, the join in merge.  Blocks are paragraphs;  *)
(* in a text without blank lines every line is one.                        *)
(***************************************************************************)
Sep(t)   == IF Len(t) = 1 THEN "line" ELSE "blank"
Paras(t) == IF Len(t) = 1 THEN [i \in DOMAIN t[1] |-> <<t[1][i]>>] ELSE t

Join(paras, sep) ==
    IF paras = <<>> \/ sep = "blank" THEN paras ELSE <<FlattenSeq(paras)>>

(***************************************************************************)
(* diffArrays of the library: a shortest edit script that leads from the   *)
(* old paragraphs to the new ones.  Which one of those, and in which order *)
(* it removes and adds in one place, is open.                              *)
(***************************************************************************)
\* How many of the first p steps are of these kinds; where they have come to in the texts.
Upto(script, p, kinds) == Cardinality({x \in 1..p : script[x] \in kinds})
OldAt(script, p) == Upto(script, p, {"same", "removed"})
NewAt(script, p) == Upto(script, p, {"same", "added"})

Leads(s, old, new) ==
    /\ OldAt(s, Len(s)) = Len(old) /\ NewAt(s, Len(s)) = Len(new)
    /\ \A p \in DOMAIN s : s[p] = "same" => old[OldAt(s, p)] = new[NewAt(s, p)]

Scripts(old, new) ==
    LET all == {s \in SeqOf({"same", "removed", "added"}, Len(old) + Len(new)) :
                   Leads(s, old, new)}
    IN  {s \in all : \A t \in all : Len(s) <= Len(t)}

(***************************************************************************)
(* diffParas: the i-th paragraph of a run of removed ones and the i-th of  *)
(* the run of added ones right after it become one changed paragraph.      *)
(***************************************************************************)
\* Seeded fault: a removed and an added paragraph are paired wherever they stand.
PairsAnywhere(s, p, q) ==
    /\ p < q /\ s[p] = "removed" /\ s[q] = "added"
    /\ Upto(s, p, {"removed"}) = Upto(s, q, {"added"})

Pairs(s, p, q) ==
    /\ p < q /\ s[p] = "removed" /\ s[q] = "added"
    /\ \E first \in 1..p, last \in p..(q - 1) :
         /\ \A x \in first..last : s[x] = "removed"
         /\ first = 1 \/ s[first - 1] # "removed"
         /\ \A x \in (last + 1)..q : s[x] = "added"
         /\ q - last = p - first + 1

\* A pair has its place where its paragraph was removed.
Places(s) == {q \in DOMAIN s : \A p \in DOMAIN s : ~Pairs(s, p, q)}

InOrder(S) == [k \in 1..Cardinality(S) |->
                  CHOOSE x \in S : Cardinality({y \in S : y <= x}) = k]

SegmentAt(old, new, s, p) ==
    IF \E q \in DOMAIN s : Pairs(s, p, q)
    THEN [kind |-> "changed", before |-> old[OldAt(s, p)],
          after |-> new[NewAt(s, CHOOSE q \in DOMAIN s : Pairs(s, p, q))]]
    ELSE [kind |-> s[p],
          before |-> IF s[p] = "added" THEN <<>> ELSE old[OldAt(s, p)],
          after |-> IF s[p] = "removed" THEN <<>> ELSE new[NewAt(s, p)]]

Segments(old, new, s) ==
    LET places == InOrder(Places(s))
    IN  [i \in DOMAIN places |-> SegmentAt(old, new, s, places[i])]

\* What diffParas can answer, for the texts of the instance.
DiffParas == [old \in Texts |-> [new \in Texts |->
                 {Segments(Paras(old), Paras(new), s) : s \in Scripts(Paras(old), Paras(new))}]]

\* How many of the first i segments wait for a decision.
Differs(segs, i) == Cardinality({x \in 1..i : segs[x].kind # "same"})

(***************************************************************************)
(* merge: the decisions are numbered along the segments that differ.       *)
(***************************************************************************)
\* Seeded fault: the counter is increased before it is used.
AcceptedNext(segs, decisions, i) ==
    Differs(segs, i) < Len(decisions) /\ decisions[Differs(segs, i) + 1] = "accept"

Accepted(segs, decisions, i) == decisions[Differs(segs, i)] = "accept"

Chosen(segs, decisions, i) ==
    LET s == segs[i]
        accepted == Accepted(segs, decisions, i)
    IN  CASE s.kind = "same"    -> <<s.before>>
          [] s.kind = "changed" -> <<IF accepted THEN s.after ELSE s.before>>
          [] s.kind = "added"   -> IF accepted THEN <<s.after>> ELSE <<>>
          [] s.kind = "removed" -> IF accepted THEN <<>> ELSE <<s.before>>

Merge(segs, decisions, sep) ==
    Join(FlattenSeq([i \in DOMAIN segs |-> Chosen(segs, decisions, i)]), sep)

(***************************************************************************)
(* The review (useDiffReview) and the buttons of its pane.                 *)
(***************************************************************************)
NoReview == [open |-> FALSE, base |-> <<>>, incoming |-> <<>>, segs |-> <<>>,
             sep |-> "blank", decisions |-> <<>>]

NoBar == [busy |-> "no", edit |-> FALSE, translation |-> FALSE]

\* Seeded fault: one decision too many.
AllAndOne(n, decision) == [i \in 1..(n + 1) |-> decision]

All(n, decision) == [i \in 1..n |-> decision]

Init ==
    /\ text \in Texts
    /\ review = NoReview
    /\ sel = FALSE
    /\ bar = NoBar
    /\ preview = FALSE

\* The review, else the preview, else the editor fills the middle of the page.
InEditor == ~review.open /\ ~preview

\* The review of the differences, when there are any; else the text becomes "same".  The bar
\* goes away with the editor or with the selection.
Propose(incoming, same) ==
    /\ text \in Texts
    /\ \E segs \in DiffParas[text][incoming] :
         LET n == Differs(segs, Len(segs))
         IN  IF n = 0
             THEN text' = same /\ UNCHANGED review
             ELSE /\ review' = [open |-> TRUE, base |-> text, incoming |-> incoming,
                                segs |-> segs, sep |-> Sep(incoming),
                                decisions |-> All(n, "accept")]
                  /\ UNCHANGED text
    /\ bar' = IF review'.open \/ ~sel' THEN NoBar ELSE bar
    /\ UNCHANGED preview

\* The answer of a generation, which was asked for before anything was selected; one that
\* differs in nothing but the separation of paragraphs is put in place at once.
Enter(incoming) ==
    /\ ~review.open
    /\ UNCHANGED sel
    /\ Propose(incoming, incoming)

Decide(i, decision) ==
    /\ review.open
    /\ review' = [review EXCEPT !.decisions[i] = decision]
    /\ UNCHANGED <<text, sel, bar, preview>>

Finish ==
    /\ review.open
    /\ text' = Merge(review.segs, review.decisions, review.sep)
    /\ review' = NoReview
    /\ UNCHANGED <<sel, bar, preview>>

FinishAll ==
    /\ review.open
    /\ text' = Merge(review.segs, All(Len(review.decisions), "accept"), review.sep)
    /\ review' = NoReview
    /\ UNCHANGED <<sel, bar, preview>>

\* Back to the text the review was opened on.
Discard ==
    /\ review.open
    /\ review' = NoReview
    /\ UNCHANGED <<text, sel, bar, preview>>

(***************************************************************************)
(* The editor, the selection and the partial edit.                         *)
(***************************************************************************)
Type ==
    /\ InEditor /\ ~sel
    /\ text' \in Texts
    /\ UNCHANGED <<review, sel, bar, preview>>

\* Another chapter is opened, here an empty one: typing makes it any.
SwitchChapter ==
    /\ text' = <<>>
    /\ review' = NoReview /\ sel' = FALSE /\ bar' = NoBar /\ preview' = FALSE

\* Selecting something else leaves the bar as it is; closing it or clicking into the text
\* ends the selection.
Select(something) ==
    /\ InEditor
    /\ sel' = something
    /\ bar' = IF something THEN bar ELSE NoBar
    /\ UNCHANGED <<text, review, preview>>

AskEdit ==
    /\ InEditor /\ sel /\ bar.busy = "no"
    /\ bar' = [NoBar EXCEPT !.busy = "edit"]
    /\ UNCHANGED <<text, review, sel, preview>>

AskTranslation ==
    /\ InEditor /\ sel /\ bar.busy = "no"
    /\ bar' = [bar EXCEPT !.busy = "translation", !.translation = FALSE]
    /\ UNCHANGED <<text, review, sel, preview>>

Answer(ok) ==
    /\ bar.busy # "no"
    /\ bar' = [busy |-> "no", edit |-> bar.edit \/ (ok /\ bar.busy = "edit"),
               translation |-> bar.translation \/ (ok /\ bar.busy = "translation")]
    /\ UNCHANGED <<text, review, sel, preview>>

\* A text as its lines with a gap for every blank line.
Tokens(t) == FlattenSeq([i \in DOMAIN t |-> IF i = 1 THEN t[i] ELSE <<"gap">> \o t[i]])

\* The lines with the selection replaced by an offer, or with an offer after it.
Splices(tokens) ==
    LET Split(from, to, offer) == SubSeq(tokens, 1, from) \o offer
                                      \o SubSeq(tokens, to + 1, Len(tokens))
        places == {p \in (0..Len(tokens)) \X (0..Len(tokens)) : p[1] <= p[2]}
    IN  {Split(p[1], p[2], Tokens(offer)) : p \in places, offer \in Texts \ {<<>>}}

\* The texts that this gives.
Spliced == LET made == Splices(Tokens(text)) IN {t \in Texts : Tokens(t) \in made}

\* One that changes no paragraph is forgotten.
Apply ==
    /\ InEditor /\ sel
    /\ bar.edit \/ bar.translation
    /\ sel' = FALSE
    /\ \E incoming \in Spliced : Propose(incoming, text)

(***************************************************************************)
(* Versions.                                                               *)
(***************************************************************************)
\* Clicked before a review, the preview may open during it.
OpenPreview ==
    /\ preview' = TRUE
    /\ bar' = NoBar
    /\ UNCHANGED <<text, review, sel>>

ClosePreview ==
    /\ preview /\ ~review.open
    /\ preview' = FALSE
    /\ UNCHANGED <<text, review, sel, bar>>

\* From the list of versions, and from the preview unless it shows no difference.
Revert(version) ==
    /\ ~review.open
    /\ text' = version
    /\ preview' = FALSE
    /\ UNCHANGED <<review, sel, bar>>

RevertPreviewed(version) ==
    /\ preview /\ ~review.open
    /\ text \in Texts
    /\ \E segs \in DiffParas[text][version] : Differs(segs, Len(segs)) > 0
    /\ Revert(version)

Next ==
    \/ \E t \in Texts : Enter(t) \/ Revert(t) \/ RevertPreviewed(t)
    \/ \E i \in DOMAIN review.decisions, d \in {"accept", "reject"} : Decide(i, d)
    \/ Finish \/ FinishAll \/ Discard
    \/ Type \/ SwitchChapter
    \/ AskEdit \/ AskTranslation
    \/ \E yes \in BOOLEAN : Select(yes) \/ Answer(yes)
    \/ Apply \/ OpenPreview \/ ClosePreview

Spec == Init /\ [][Next]_vars

(***************************************************************************)
(* DiffReviewPane: per difference the old text, active when rejected, and  *)
(* the new one, active when accepted, counted as the pane renders them.    *)
(***************************************************************************)
Panes(s, on) ==
    (IF s.kind \in {"changed", "removed"} /\ ~on THEN <<s.before>> ELSE <<>>)
    \o (IF s.kind # "removed" /\ on THEN <<s.after>> ELSE <<>>)

\* The i-th segment, after what has been seen.
See(seen, i) ==
    LET s  == review.segs[i]
        k  == seen.count + (IF s.kind = "same" THEN 0 ELSE 1)
        on == s.kind = "same" \/ review.decisions[k] = "accept"
    IN  [count |-> k, active |-> seen.active \o Panes(s, on)]

Shown ==
    LET Seen[i \in 0..Len(review.segs)] ==
          IF i = 0 THEN [count |-> 0, active |-> <<>>] ELSE See(Seen[i - 1], i)
    IN  Seen[Len(review.segs)].active

(***************************************************************************)
(* Properties.                                                             *)
(***************************************************************************)
\* The types of the variables.
TypeOK ==
    /\ text \in Seq(Seq(Lines) \ {<<>>})
    /\ review.open \in BOOLEAN /\ review.base \in Texts /\ review.incoming \in Texts
    /\ review.sep \in {"line", "blank"}
    /\ \A i \in DOMAIN review.segs :
         review.segs[i] \in [kind : {"same", "changed", "added", "removed"},
                             before : Seq(Lines), after : Seq(Lines)]
    /\ sel \in BOOLEAN /\ preview \in BOOLEAN
    /\ bar \in [busy : {"no", "edit", "translation"}, edit : BOOLEAN, translation : BOOLEAN]
    /\ bar # NoBar => sel /\ InEditor
    /\ review.decisions \in [1..Differs(review.segs, Len(review.segs)) -> {"accept", "reject"}]

\* Accepting everything gives the proposed text to the letter, rejecting everything the old
\* paragraphs in their order (paraDiff.ts:55, "removed의 취소(reject)=원문 유지"), laid out with
\* the separator of the proposed text.
AllOrNothing ==
    review.open =>
        LET n == Len(review.decisions)
        IN  /\ Merge(review.segs, All(n, "accept"), review.sep) = review.incoming
            /\ Merge(review.segs, All(n, "reject"), review.sep)
                   = Join(Paras(review.base), review.sep)

\* What finishing stores is what the pane shows as active, whatever the writer has decided:
\* the pane and merge number the differences each with a counter of their own.
ShownIsMerged ==
    review.open => Join(Shown, review.sep) = Merge(review.segs, review.decisions, review.sep)
=============================================================================
