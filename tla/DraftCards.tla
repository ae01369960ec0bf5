----------------------------- MODULE DraftCards -----------------------------
(***************************************************************************)
(* The cards of one draft and what the intake works out from them: which  *)
(* a worker may still change, which repeat a contributor's "no", which    *)
(* stay open when the draft is confirmed and which become operations of   *)
(* the batch.  Pure operators over a table of cards (src/intake/          *)
(* candidate.ts, open-items.ts, draft.ts).                                *)
(*                                                                         *)
(* Abstraction.  A card's content is one member of Texts.  "patch" stands *)
(* for every card that is never compared with an earlier "no"             *)
(* (corrections, questions); "edge" for relations, new or ended.  State   *)
(* "rejected" also stands for context_only and a question answered no,    *)
(* "accepted" for one answered yes: the code treats them alike wherever   *)
(* they are read here.  A "known" card notes what the graph already has:  *)
(* it has a number like any other, but is never accepted, never left open *)
(* and never an operation.                                                *)
(***************************************************************************)
EXTENDS Integers, FiniteSets

CONSTANTS MaxCid,   \* bound: highest candidate number a draft may use
          Texts,    \* what a card can say
          Artworks, \* those that are titles of artworks
          NoCard    \* no candidate under this number

Cids == 1 .. MaxCid

Kinds == {"node", "edge", "image", "patch", "known"}

CardStates == {"proposed", "accepted", "rejected", "open"}

\* What the worker proposes: onGraph is `resolves_to # null`, badLink is
\* `link_check` (the reader could not open the item's own page).
\* A node card refers to no other card; corrections and notes have no page.
Proposal == {p \in [kind : Kinds, text : Texts, deps : SUBSET Cids,
                    onGraph : BOOLEAN, badLink : BOOLEAN] :
               /\ p.kind = "node" => p.deps = {}
               /\ p.badLink => p.kind \in {"node", "edge", "image"}}

\* The states a card of this kind may be given.
StatesOf(kind) == IF kind = "known" THEN {"proposed", "rejected"} ELSE CardStates

Card == {k \in [kind : Kinds, text : Texts, deps : SUBSET Cids,
                onGraph : BOOLEAN, badLink : BOOLEAN,
                state : CardStates, edited : BOOLEAN] :
           k.state \in StatesOf(k.kind)}

ASSUME MaxCidAssumption == MaxCid \in Nat \ {0}
ASSUME NoCardAssumption == NoCard \notin Card

CardTable == [Cids -> Card \cup {NoCard}]

NoCards == [c \in Cids |-> NoCard]

Present(cs) == {c \in Cids : cs[c] # NoCard}

\* The next card's number is the one after the highest in use: that of a
\* removed last card is given out again.
IsNextCid(n, cs) == /\ \A c \in Present(cs) : c < n
                    /\ n = 1 \/ n - 1 \in Present(cs)

-----------------------------------------------------------------------------
(* Who has decided a card.                                                 *)

\* Started rejected because its link failed, and nobody has decided it since.
LinkUnchecked(k) == k.badLink /\ k.state = "rejected" /\ ~k.edited

\* Mutated form: an edit that leaves the card proposed does not count.
UntouchedStateOnly(k) == k.state = "proposed" \/ LinkUnchecked(k)

\* The worker may still rewrite or remove the card.
Untouched(k) == ~k.edited /\ (k.state = "proposed" \/ LinkUnchecked(k))

TurnedDown(k) == k.state = "rejected"

\* Two cards make the same claim; two works the graph does not have may share
\* a title.
SameClaim(k, p) == /\ k.kind = p.kind
                   /\ k.kind \in {"node", "edge", "image"}
                   /\ k.text = p.text
                   /\ k.deps = p.deps
                   /\ k.onGraph = p.onGraph
                   /\ k.kind = "node" /\ ~k.onGraph => k.text \notin Artworks

\* A contributor's "no" in this table that p would repeat.
Refused(p, cs) == \E c \in Present(cs) : /\ TurnedDown(cs[c])
                                         /\ ~LinkUnchecked(cs[c])
                                         /\ SameClaim(cs[c], p)

-----------------------------------------------------------------------------
(* What Confirm makes of a table.  `gone` are the cards left out because   *)
(* another contributor has decided them since the pick-up.                 *)

\* Nobody has to decide a note.
Undecided(k) == /\ k.kind # "known"
                /\ k.state \in {"proposed", "open"} \/ LinkUnchecked(k)

OpenNodes(cs, gone) ==
  {c \in Present(cs) \ gone : cs[c].kind = "node" /\ Undecided(cs[c])}

\* A card that needs a card turned down or missing cannot stand, so it is not
\* kept; an accepted card that needs an open one waits with it.
LeftOpen(cs, gone) ==
  LET live == Present(cs) \ gone
      open == OpenNodes(cs, gone)
      Stands(c) == \A e \in cs[c].deps : /\ e \in live
                                         /\ ~TurnedDown(cs[e]) \/ e \in open
  IN  open \cup {c \in live : /\ cs[c].kind \notin {"node", "known"}
                              /\ Stands(c)
                              /\ \/ Undecided(cs[c])
                                 \/ /\ cs[c].state = "accepted"
                                    /\ cs[c].deps \cap open # {}}

Settled(cs, gone) == (Present(cs) \ gone) \ LeftOpen(cs, gone)

Accepted(cs, gone) == {c \in Settled(cs, gone) : cs[c].state = "accepted"}

\* Mutated form: a reference to any card of the table will do.
ResolvedIfPresent(cs, gone) ==
  {c \in Accepted(cs, gone) : \A e \in cs[c].deps : e \in Present(cs)}

\* An accepted card whose references are all accepted node cards.
Resolved(cs, gone) ==
  {c \in Accepted(cs, gone) :
     \A e \in cs[c].deps : e \in Accepted(cs, gone) /\ cs[e].kind = "node"}

Images(cs, gone) == {c \in Resolved(cs, gone) : cs[c].kind = "image"}

NewNodes(cs, gone) ==
  {c \in Resolved(cs, gone) : cs[c].kind = "node" /\ ~cs[c].onGraph}

\* The cards that become an operation: a node the graph already has is only
\* linked.  `left`: images that could not be mirrored and new nodes the graph
\* turns out to have under another id.
Ops(cs, gone, left) ==
  {c \in Resolved(cs, gone) \ left : ~(cs[c].kind = "node" /\ cs[c].onGraph)}
=============================================================================
