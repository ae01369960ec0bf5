---------------------------- MODULE MCDraftQueue ----------------------------
(* Small instances of DraftQueue for TLC.                                  *)
EXTENDS DraftQueue, TLC

CONSTANTS a, b          \* two things a card can say

Link(k, t, ds, g) == [kind |-> k, text |-> t, deps |-> ds, onGraph |-> g, badLink |-> FALSE]
BadLink(k, t, ds) == [kind |-> k, text |-> t, deps |-> ds, onGraph |-> FALSE, badLink |-> TRUE]

\* A work, and an image of it whose page failed to open.
ReviewProposals == {Link("node", a, {}, FALSE), BadLink("image", b, {1})}

\* A note of what the graph already has.
NoteProposals == {Link("known", a, {}, FALSE)}

\* An image of a node the graph already has.
PickupProposals == {Link("image", a, {}, FALSE)}

\* A relation to, and a correction of, nodes the graph has.
ChatProposals == {Link("edge", a, {}, FALSE), Link("patch", a, {}, FALSE)}

\* A read as Confirm leaves it, its work submitted and an image of a node the
\* graph has undecided; the day after, nobody has picked it up yet.
LeftCards ==
  [c \in Cids |->
     CASE c = 1 -> [kind |-> "node", text |-> a, deps |-> {}, onGraph |-> FALSE,
                    badLink |-> FALSE, state |-> "accepted", edited |-> TRUE]
       [] c = 2 -> [kind |-> "image", text |-> a, deps |-> {}, onGraph |-> FALSE,
                    badLink |-> FALSE, state |-> "proposed", edited |-> FALSE]
       [] OTHER -> NoCard]

LeftReadInit ==
  /\ \E u \in Contributors :
       /\ owner = [d \in Drafts |-> IF d = 1 THEN u ELSE NoOne]
       /\ notified = [d \in Drafts |-> d = 1 /\ u \in HasEmail]
  /\ status = [d \in Drafts |-> IF d = 1 THEN "submitted" ELSE "none"]
  /\ passes = [d \in Drafts |-> IF d = 1 THEN 1 ELSE 0]
  /\ cards = [d \in Drafts |-> IF d = 1 THEN LeftCards ELSE NoCards]
  /\ items = [d \in Drafts |-> IF d = 1 THEN {2} ELSE {}]
  /\ batch = [d \in Drafts |-> IF d = 1 THEN [LeftCards EXCEPT ![2] = NoCard] ELSE NoCards]
  /\ job = [d \in Drafts |-> "none"]
  /\ claimedBy = [d \in Drafts |-> NoWorker]
  /\ beat = [d \in Drafts |-> "none"]
  /\ from = [d \in Drafts |-> 0]
  /\ talk = [d \in Drafts |-> 0]
  /\ decidedIn = [d \in Drafts |-> [c \in Cids |-> 0]]
  /\ madeToday = {}
  /\ spent = 0
  /\ confirming = [r \in Requests |-> NoReq]

\* Behaviours from there on.
LeftReadSpec == LeftReadInit /\ [][Next]_vars

WorkerSymmetry == Permutations(Workers)
PickerSymmetry == Permutations(Contributors) \cup Permutations(Requests)
=============================================================================
