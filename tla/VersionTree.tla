---------------------------- MODULE VersionTree -----------------------------
(***************************************************************************)
(* What the version history promises a writer, without requests, tables or *)
(* transactions: every chapter has a tree of text nodes and a head that    *)
(* points into it.  Nodes are only ever added; moving the head loses       *)
(* nothing; a node the model generated keeps its text for ever, a node the *)
(* writer types into may be retyped; a node disappears only with its whole *)
(* chapter, and neither its id nor the chapter's is used again.            *)
(* ChapterStore is shown to implement this specification.                  *)
(***************************************************************************)
EXTENDS Naturals

CONSTANTS Texts,      \* the contents a node can hold
          Kinds,      \* what produced a node
          Editable    \* the kinds of the nodes a writer types into

NoVersion == 0

VARIABLES nodes,      \* node id -> [chapter, parent, kind, text]
          head,       \* open chapter -> node id, or NoVersion
          nextNode,   \* the id the next node gets
          nextChapter \* the id the next chapter gets

vars == <<nodes, head, nextNode, nextChapter>>

Chapters == DOMAIN head
NodesOf(c) == {v \in DOMAIN nodes : nodes[v].chapter = c}

Init ==
    /\ nodes = [v \in {} |-> v]
    /\ head = [c \in {} |-> c]
    /\ nextNode = 1
    /\ nextChapter = 1

Open ==
    /\ head' = [c \in Chapters \cup {nextChapter} |->
                  IF c = nextChapter THEN NoVersion ELSE head[c]]
    /\ nextChapter' = nextChapter + 1
    /\ UNCHANGED <<nodes, nextNode>>

\* A new node grows out of some node of the same chapter, or is a root.
Grow(c, parent, kind, text) ==
    /\ parent \in NodesOf(c) \cup {NoVersion}
    /\ nodes' = [v \in DOMAIN nodes \cup {nextNode} |->
                   IF v = nextNode
                   THEN [chapter |-> c, parent |-> parent, kind |-> kind, text |-> text]
                   ELSE nodes[v]]
    /\ head' = [head EXCEPT ![c] = nextNode]
    /\ nextNode' = nextNode + 1
    /\ UNCHANGED nextChapter

Retype(v, text) ==
    /\ nodes[v].kind \in Editable
    /\ nodes' = [nodes EXCEPT ![v].text = text]
    /\ UNCHANGED <<head, nextNode, nextChapter>>

MoveHead(c, v) ==
    /\ v \in NodesOf(c)
    /\ head' = [head EXCEPT ![c] = v]
    /\ UNCHANGED <<nodes, nextNode, nextChapter>>

Drop(c) ==
    /\ nodes' = [v \in DOMAIN nodes \ NodesOf(c) |-> nodes[v]]
    /\ head' = [d \in Chapters \ {c} |-> head[d]]
    /\ UNCHANGED <<nextNode, nextChapter>>

Next ==
    \/ Open
    \/ \E c \in Chapters :
         \/ \E parent \in NodesOf(c) \cup {NoVersion}, kind \in Kinds, text \in Texts :
              Grow(c, parent, kind, text)
         \/ \E v \in DOMAIN nodes : MoveHead(c, v)
         \/ Drop(c)
    \/ \E v \in DOMAIN nodes, text \in Texts : Retype(v, text)

Spec == Init /\ [][Next]_vars
=============================================================================
