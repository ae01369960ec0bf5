------------------------------- MODULE Review -------------------------------
(***************************************************************************)
(* Contributions, their review and their correction: the review queue      *)
(* (src/utils/review.ts), what an approval writes to the graph             *)
(* (src/utils/contribution.ts), notes about relations (src/claim/notes.ts) *)
(* and what an admin takes back (src/utils/admin-actions.ts), with the     *)
(* private side of every signal.                                           *)
(*                                                                         *)
(* An item is one contribution: its signal, its row in intake_queue and,   *)
(* for a note, its row in relation_notes.  A handler is one step; those    *)
(* that write in several statements outside a transaction also have a step *)
(* that stops between two of them, as a crash does.  Left out: the         *)
(* suggestions of the embedding pipeline, which it deletes and makes       *)
(* again, and what a patch of a node writes under any other key than       *)
(* `retired`.                                                              *)
(***************************************************************************)
EXTENDS SignalPrivacy, Naturals

CONSTANTS Items,     \* contributions that may be made, each once
          Shape,     \* what each of them is
          Nodes,     \* graph nodes
          Seeded,    \* nodes and edges imported before any contribution
          NodeType,  \* what each of them is
          EdgeIds,   \* graph edges: ends, writer, and whether a merge made it
          Batches,   \* batch ids; also their retirement records
          MaxItems,  \* bound: contributions made
          MaxCuts,   \* bound: crashes between two statements
          MaxGone,   \* bound: signals revoked and nodes retired, a batch apart
          NoItem, NoNode, NoEdge, NoPair, NoBatch

VARIABLES
  queue,   \* per item: intake_queue.status
  note,    \* per item: relation_notes.state
  status,  \* per signal: signals.status
  priv,    \* per signal: its public and private row
  node,    \* per node: its state and the item it was made from
  edge,    \* per edge: its state, its signal and what ended it
  older,   \* per batch: the nodes made before its first signal
  cut      \* history: items whose review a crash cut short

graphVars == <<node, edge>>
vars == <<queue, note, status, priv, node, edge, older, cut>>

\* An item's signal goes by the item, a retirement record by its batch.
Signals == Items \cup Batches

NoteKinds == {"context", "reading", "contest", "objection"}
\* What a curator publishes or not; the words wait until then.
Kinds == {"human"} \cup NoteKinds

ShapeType ==
  [kind : Kinds,
   trusted : BOOLEAN,                           \* tier auto or reviewed
   form : BOOLEAN,                              \* the public form
   consent : SUBSET {"structural_only", "anonymous"},
   batch : Batches \cup {NoBatch},              \* signals.batch_id
   node : Nodes \cup {NoNode},                  \* create_node
   patch : Nodes \cup {NoNode},                 \* patch_node that writes `retired`:
   retires : BOOLEAN,                           \* sets it, or clears it
   edge : EdgeIds \cup {NoEdge},                \* proposed edge
   closes : EdgeIds \cup {NoEdge},              \* end_edge, supersedes_edge_id: the
                                                \* edge made then has an id of its own
   on : (Nodes \X Nodes) \cup {NoPair},         \* the relation a note is about
   about : Items \cup {NoItem}]                 \* the item an objection is about

\* No endpoint that writes to the graph takes a consent; the public form makes
\* contributions, and queues them all; an objection names an item.
ASSUME ReviewAssumption ==
  /\ Seeded \subseteq Nodes \cup EdgeIds
  /\ DOMAIN NodeType = Nodes
  /\ EdgeIds \subseteq [source : Nodes, target : Nodes, writer : STRING, merged : BOOLEAN]
  /\ Shape \in [Items -> ShapeType]
  /\ Items \cap Batches = {}
  /\ NoEdge \notin EdgeIds /\ NoNode \notin Nodes /\ NoItem \notin Signals
  /\ NoBatch \notin Batches /\ NoPair \notin Nodes \X Nodes
  /\ MaxItems \in Nat /\ MaxCuts \in Nat /\ MaxGone \in Nat
  /\ \A c \in Items : Shape[c].consent # {} => /\ Shape[c].node = NoNode
                                               /\ Shape[c].patch = NoNode
                                               /\ Shape[c].edge = NoEdge
                                               /\ Shape[c].closes = NoEdge
  /\ \A c \in Items : Shape[c].patch # NoNode => Shape[c].patch # Shape[c].node
  /\ \A c \in Items : Shape[c].form => Shape[c].kind = "human" /\ ~Shape[c].trusted
  /\ \A c \in Items : Shape[c].kind = "objection" => Shape[c].about \in Items

QueueStates == {"none", "pending", "approved", "rejected"}
NoteStates == {"none", "open", "pending", "live", "withdrawn", "rejected",
               "upheld", "dismissed"}
SignalStates == {"none", "active", "revoked", "superseded"}
NodeRow == [state : {"none", "live", "retired"},
            maker : Items \cup {NoItem},
            into : Nodes \cup {NoNode}]          \* merged_into
EdgeRow == [state : {"none", "live", "ended"},
            signal : Items \cup {NoItem},
            by : Signals \cup {NoItem}]

Init ==
  /\ queue = [c \in Items |-> "none"]
  /\ note = [c \in Items |-> "none"]
  /\ status = [s \in Signals |-> "none"]
  /\ priv = [s \in Signals |-> Plain]
  /\ node = [n \in Nodes |-> [state |-> IF n \in Seeded THEN "live" ELSE "none",
                              maker |-> NoItem, into |-> NoNode]]
  /\ edge = [e \in EdgeIds |-> [state |-> IF e \in Seeded THEN "live" ELSE "none",
                                 signal |-> NoItem, by |-> NoItem]]
  /\ older = [b \in Batches |-> {}]
  /\ cut = {}

-----------------------------------------------------------------------------
(* What the handlers look up.                                              *)

Written == {s \in Signals : status[s] # "none"}
InBatch(b) == {c \in Items : Shape[c].batch = b /\ status[c] # "none"}
Ends(e) == {e.source, e.target}
OnPair(p) == {e \in EdgeIds : <<e.source, e.target>> = p}
\* liveRelation.
LiveRelation(p) == \E e \in OnPair(p) : edge[e].state = "live"
Retired(n) == node[n].state = "retired"
\* rejectedSignals: a relation was made from the item's signal, or ended by it.
EverUsed(c) == \E e \in EdgeIds : c \in {edge[e].signal, edge[e].by}
\* Objections to an item that nobody has answered.
OpenObjections(c) == {o \in Items : /\ Shape[o].kind = "objection"
                                    /\ Shape[o].about = c /\ note[o] = "open"}

-----------------------------------------------------------------------------
(* What a contribution writes to the graph.                                *)

\* The row of a node an item patches: `retired` only, its relations and where
\* it was merged to stay.
Patched(c, n) == [node[n] EXCEPT !.state = IF Shape[c].retires THEN "retired" ELSE "live"]
\* Mutated form: a create of a node that is there brings it back.
WithNodeRevived(c) ==
  [n \in Nodes |-> IF n = Shape[c].node
                   THEN [state |-> "live", into |-> node[n].into,
                         maker |-> IF node[n].state = "none" THEN c ELSE node[n].maker]
                   ELSE IF n = Shape[c].patch /\ node[n].state # "none"
                   THEN Patched(c, n) ELSE node[n]]
\* materialiseCreateNode: the first write wins, and a retired node is there.
\* materialisePatchNode: of a node that is there.
WithNode(c) ==
  [n \in Nodes |-> IF n = Shape[c].node /\ node[n].state = "none"
                   THEN [state |-> "live", maker |-> c, into |-> NoNode]
                   ELSE IF n = Shape[c].patch /\ node[n].state # "none"
                   THEN Patched(c, n) ELSE node[n]]

\* Mutated form: the edge itself is recorded.
EndedByItself(e, s) == IF edge[e].state = "live"
                       THEN [edge[e] EXCEPT !.state = "ended", !.by = e] ELSE edge[e]
\* A live edge is closed, with the signal that says why (for one superseded,
\* the code names the new edge of that signal).
Ended(e, s) == IF edge[e].state = "live"
               THEN [edge[e] EXCEPT !.state = "ended", !.by = s] ELSE edge[e]

\* materialiseEndEdge, materialiseEdge: INSERT OR IGNORE, and the edge it ends
\* or replaces is closed if it is live.
WithEdges(c) ==
  [e \in EdgeIds |-> IF e = Shape[c].edge
                     THEN IF edge[e].state = "none"
                          THEN [state |-> "live", signal |-> c, by |-> NoItem] ELSE edge[e]
                     ELSE IF e = Shape[c].closes THEN Ended(e, c) ELSE edge[e]]

\* Mutated form: the operations on nodes only.
MaterialiseNodesOnly(c) == node' = WithNode(c) /\ UNCHANGED edge
Materialise(c) == node' = WithNode(c) /\ edge' = WithEdges(c)

-----------------------------------------------------------------------------
(* Contributors.                                                           *)

\* What an item's endpoint asks of the graph before it takes it.
Acceptable(c) ==
  LET k == Shape[c]
  IN  /\ k.patch # NoNode => node[k.patch].state # "none"
      /\ k.edge # NoEdge =>
           \A n \in Ends(k.edge) : n = k.node \/ node[n].state # "none"
      /\ k.closes # NoEdge => edge[k.closes].state # "none"
      /\ k.kind \in {"context", "reading", "contest"} => LiveRelation(k.on)
      /\ k.kind = "reading" => \A n \in {k.on[1], k.on[2]} : ~Retired(n)
      /\ k.kind = "objection" => queue[k.about] = "pending"

\* The kinds that a trusted contributor publishes at once.
Waits == {"human", "context", "reading"}

\* Mutated form: the words of a queued contribution are public at once.
BornReasonsShown(c) == Shape[c].consent
\* insertSignal, the public form: consent, review, and an objection's secrecy.
BornReasons(c) ==
  LET k == Shape[c]
      waits == ~k.trusted /\ k.kind \in Waits
  IN  k.consent
      \cup {r \in {"pending"} : waits}
      \cup {r \in {"pending_name"} : k.form /\ "anonymous" \notin k.consent}
      \cup {r \in {"objection"} : k.kind = "objection"}

NewQueue(c) ==
  IF Shape[c].kind = "objection" THEN "none"
  ELSE IF Shape[c].trusted /\ Shape[c].kind \in Waits THEN "approved" ELSE "pending"

NewNote(c) ==
  IF Shape[c].kind = "human" THEN "none"
  ELSE IF Shape[c].kind \in {"contest", "objection"} THEN "open"
  ELSE IF Shape[c].trusted THEN "live" ELSE "pending"

New(c) == status[c] = "none" /\ Cardinality({i \in Items : status[i] # "none"}) < MaxItems

\* A batch begins with its first signal.
NewBatch(c) ==
  [b \in Batches |-> IF b = Shape[c].batch /\ InBatch(b) = {}
                     THEN {n \in Nodes : node[n].state # "none"} ELSE older[b]]

\* A contribution is made: trusted, its operations take effect at once.
Submit(c) ==
  /\ New(c)
  /\ Acceptable(c)
  /\ status' = [status EXCEPT ![c] = "active"]
  /\ priv' = [priv EXCEPT ![c] = Born(BornReasons(c))]
  /\ queue' = [queue EXCEPT ![c] = NewQueue(c)]
  /\ note' = [note EXCEPT ![c] = NewNote(c)]
  /\ IF Shape[c].kind = "human" /\ Shape[c].trusted
     THEN Materialise(c) ELSE UNCHANGED graphVars
  /\ older' = NewBatch(c)
  /\ UNCHANGED cut

\* A crash between the signal, the graph and the row of the queue; a package
\* (a node with its edges) is written in a transaction.
SubmitCutShort(c) ==
  /\ New(c)
  /\ Acceptable(c)
  /\ Shape[c].kind = "human"
  /\ Shape[c].node = NoNode \/ Shape[c].edge = NoEdge
  /\ Cardinality(cut) < MaxCuts
  /\ cut' = cut \cup {c}
  /\ status' = [status EXCEPT ![c] = "active"]
  /\ priv' = [priv EXCEPT ![c] = Born(BornReasons(c))]
  /\ \/ UNCHANGED graphVars
     \/ Shape[c].trusted /\ Materialise(c)
  /\ older' = NewBatch(c)
  /\ UNCHANGED <<queue, note>>

\* withdrawNote: an admin's revocation stands.
Withdraw(c) ==
  /\ note[c] \in {"open", "pending", "live"}
  /\ note' = [note EXCEPT ![c] = "withdrawn"]
  /\ status' = [status EXCEPT ![c] = IF @ = "revoked" THEN @ ELSE "superseded"]
  /\ queue' = [queue EXCEPT ![c] = IF @ = "pending" THEN "rejected" ELSE @]
  /\ IF note[c] = "pending"
     THEN /\ ~Conflict(priv[c], "withdrawn")
          /\ priv' = [priv EXCEPT ![c] = Withheld(@, "withdrawn")]
     ELSE UNCHANGED priv
  /\ UNCHANGED <<graphVars, older, cut>>

-----------------------------------------------------------------------------
(* Curators.                                                               *)

\* Mutated form: an objection is upheld whatever became of the item.
ObjectionsUpheld(c, outcome) ==
  [o \in Items |-> IF o \in OpenObjections(c) THEN "upheld" ELSE note[o]]
\* settleObjections.
ObjectionsSettled(c, outcome) ==
  [o \in Items |-> IF o \notin OpenObjections(c) THEN note[o]
                   ELSE IF outcome = "rejected" THEN "upheld" ELSE "dismissed"]

\* approveIntakeItem: one savepoint.
Approve(c) ==
  /\ Shape[c].kind = "human"
  /\ queue[c] = "pending"
  /\ Materialise(c)
  /\ queue' = [queue EXCEPT ![c] = "approved"]
  /\ priv' = [priv EXCEPT ![c] = PublishedOnApproval(@)]
  /\ note' = ObjectionsSettled(c, "approved")
  /\ UNCHANGED <<status, older, cut>>

\* rejectIntakeItem: three statements.
Reject(c) ==
  /\ Shape[c].kind = "human"
  /\ queue[c] = "pending"
  /\ queue' = [queue EXCEPT ![c] = "rejected"]
  /\ IF ~EverUsed(c)
     THEN /\ ~Conflict(priv[c], "rejected")
          /\ priv' = [priv EXCEPT ![c] = Withheld(@, "rejected")]
     ELSE UNCHANGED priv
  /\ note' = ObjectionsSettled(c, "rejected")
  /\ UNCHANGED <<status, graphVars, older, cut>>

\* A crash after the first of them, or after the second.
RejectCutShort(c) ==
  /\ Shape[c].kind = "human"
  /\ queue[c] = "pending"
  /\ Cardinality(cut) < MaxCuts
  /\ queue' = [queue EXCEPT ![c] = "rejected"]
  /\ cut' = cut \cup {c}
  /\ \/ UNCHANGED priv
     \/ /\ ~EverUsed(c) /\ ~Conflict(priv[c], "rejected")
        /\ priv' = [priv EXCEPT ![c] = Withheld(@, "rejected")]
  /\ UNCHANGED <<note, status, graphVars, older>>

\* Mutated form: the note alone is asked.
DecidableByNote(c, was) == note[c] = was
\* A note is decided through its review item; `was` is the state it must be in.
Decidable(c, was) == queue[c] = "pending" /\ note[c] = was

\* settle: the note, its item, its words.
Settle(c, to, outcome) ==
  /\ note' = [note EXCEPT ![c] = to]
  /\ queue' = [queue EXCEPT ![c] = outcome]

ApproveContext(c) ==
  /\ Shape[c].kind \in {"context", "reading"}
  /\ Decidable(c, "pending")
  /\ Settle(c, "live", "approved")
  /\ priv' = [priv EXCEPT ![c] = Published(@, "pending")]
  /\ UNCHANGED <<status, graphVars, older, cut>>

RejectContext(c) ==
  /\ Shape[c].kind \in {"context", "reading"}
  /\ Decidable(c, "pending")
  /\ Settle(c, "rejected", "rejected")
  /\ status' = [status EXCEPT ![c] = "superseded"]
  /\ ~Conflict(priv[c], "rejected")
  /\ priv' = [priv EXCEPT ![c] = Withheld(@, "rejected")]
  /\ UNCHANGED <<graphVars, older, cut>>

\* upholdContest of a relation: every live row of it ends.
EndRelation(c) ==
  edge' = [e \in EdgeIds |-> IF e \in OnPair(Shape[c].on) THEN Ended(e, NoItem) ELSE edge[e]]

UpholdContest(c) ==
  /\ Shape[c].kind = "contest"
  /\ Decidable(c, "open")
  /\ EndRelation(c)
  /\ Settle(c, "upheld", "approved")
  /\ UNCHANGED <<status, priv, node, older, cut>>

DismissContest(c) ==
  /\ Shape[c].kind = "contest"
  /\ Decidable(c, "open")
  /\ Settle(c, "dismissed", "rejected")
  /\ UNCHANGED <<status, priv, graphVars, older, cut>>

\* A crash inside settle, after its first, second or third statement.
SettleCutShort(c) ==
  /\ Cardinality(cut) < MaxCuts
  /\ \E to \in {"live", "rejected"} :
       /\ Shape[c].kind \in {"context", "reading"}
       /\ Decidable(c, "pending")
       /\ \/ note' = [note EXCEPT ![c] = to] /\ UNCHANGED <<queue, status>>
          \/ /\ Settle(c, to, IF to = "live" THEN "approved" ELSE "rejected")
             /\ UNCHANGED status
          \/ /\ to = "rejected"
             /\ Settle(c, to, "rejected")
             /\ status' = [status EXCEPT ![c] = "superseded"]
  /\ cut' = cut \cup {c}
  /\ UNCHANGED <<priv, graphVars, older>>

\* The same for a contest: its relation ended or not, its item left pending.
ContestCutShort(c) ==
  /\ Cardinality(cut) < MaxCuts
  /\ Shape[c].kind = "contest"
  /\ Decidable(c, "open")
  /\ \/ /\ EndRelation(c)
        /\ \E to \in {"open", "upheld"} : note' = [note EXCEPT ![c] = to]
     \/ /\ note' = [note EXCEPT ![c] = "dismissed"]
        /\ UNCHANGED edge
  /\ cut' = cut \cup {c}
  /\ UNCHANGED <<queue, status, priv, node, older>>

-----------------------------------------------------------------------------
(* Corrections.                                                            *)

\* Withheld as revoked, or the whole correction fails.
Revoked(S) == [s \in Signals |-> IF s \in S THEN Withheld(priv[s], "revoked") ELSE priv[s]]

MayCorrect == Cardinality({n \in Nodes : Retired(n)})
              + Cardinality({s \in Signals : status[s] = "revoked"}) < MaxGone

\* revokeSignal; the cascade may be declined.
RevokeSignal(s) ==
  /\ status[s] \in {"active", "superseded"}
  /\ MayCorrect
  /\ ~Conflict(priv[s], "revoked")
  /\ status' = [status EXCEPT ![s] = "revoked"]
  /\ priv' = Revoked({s})
  /\ \/ UNCHANGED edge
     \/ edge' = [e \in EdgeIds |-> IF edge[e].signal = s THEN Ended(e, NoItem) ELSE edge[e]]
  /\ UNCHANGED <<queue, note, node, older, cut>>

\* retireNode.
RetireNode(n) ==
  /\ node[n].state = "live"
  /\ MayCorrect
  /\ node' = [node EXCEPT ![n].state = "retired"]
  /\ edge' = [e \in EdgeIds |->
                IF n \in Ends(e) THEN Ended(e, NoItem) ELSE edge[e]]
  /\ UNCHANGED <<queue, note, status, priv, older, cut>>

\* buildBatchPlan: live nodes a create of the batch names, made since it began.
NodesOfBatch(b) ==
  {n \in Nodes \ older[b] : /\ node[n].state = "live"
                            /\ \E c \in InBatch(b) : /\ Shape[c].node = n
                                                     /\ queue[c] # "none"}

\* batchIsPrivate: some signal of the batch keeps its batch id.
PrivateBatch(b) == \E c \in InBatch(b) : priv[c].kept["batch"] # "null"

\* retireBatch, once per batch; `had` if the record lists before-images.
RetireBatch(b) ==
  /\ status[b] = "none"
  /\ InBatch(b) # {}
  /\ \E had \in BOOLEAN :
       LET active == {c \in InBatch(b) : status[c] = "active"}
           gone == NodesOfBatch(b)
           why == {r \in {"before_images"} : had}
                  \cup {r \in {"private_batch"} : PrivateBatch(b)}
       IN  /\ \A c \in active : ~Conflict(priv[c], "revoked")
           /\ status' = [s \in Signals |-> IF s = b THEN "active"
                                           ELSE IF s \in active THEN "revoked"
                                           ELSE status[s]]
           /\ priv' = [Revoked(active) EXCEPT ![b] = AdminRecord(why)]
           /\ edge' = [e \in EdgeIds |->
                         IF edge[e].signal \in InBatch(b) \/ Ends(e) \cap gone # {}
                         THEN Ended(e, b) ELSE edge[e]]
           /\ node' = [n \in Nodes |-> IF n \in gone
                                       THEN [node[n] EXCEPT !.state = "retired"]
                                       ELSE node[n]]
           /\ queue' = [c \in Items |-> IF c \in InBatch(b) /\ queue[c] = "pending"
                                        THEN "rejected" ELSE queue[c]]
  /\ UNCHANGED <<note, older, cut>>

Swapped(n, f, i) == IF n = f THEN i ELSE n
\* The edge that says of i what e says of f, by the same writer.
Moved(e, f, i) == [source |-> Swapped(e.source, f, i), target |-> Swapped(e.target, f, i),
                   writer |-> e.writer, merged |-> TRUE]
Loop(e, f, i) == Swapped(e.source, f, i) = Swapped(e.target, f, i)
\* Mutated form: anyone's edge will do.
AlreadyThereByAnyone(e, f, i) ==
  \E x \in OnPair(<<Swapped(e.source, f, i), Swapped(e.target, f, i)>>) : edge[x].state = "live"
\* The kept node has the relation from the same writer.
AlreadyThere(e, f, i) ==
  \E x \in OnPair(<<Swapped(e.source, f, i), Swapped(e.target, f, i)>>) :
    edge[x].state = "live" /\ x.writer = e.writer

\* mergeNodes: the live relations of f are made again on i, and f is retired.
\* Pages someone claims, which it refuses, are none of these.
\* A copy's id is random in the code; here it must be one not used yet.
MergeNodes(f, i) ==
  LET gone == {e \in EdgeIds : f \in Ends(e) /\ edge[e].state = "live"}
      moving == {e \in gone : ~Loop(e, f, i) /\ ~AlreadyThere(e, f, i)}
  IN  /\ f # i /\ NodeType[f] = NodeType[i]
      /\ node[f].state = "live" /\ node[i].state = "live"
      /\ MayCorrect
      /\ \A e \in moving : /\ Moved(e, f, i) \in EdgeIds
                            /\ edge[Moved(e, f, i)].state = "none"
                            /\ \A x \in moving : Moved(x, f, i) = Moved(e, f, i) => x = e
      /\ edge' = [e \in EdgeIds |->
                    IF e \in gone THEN Ended(e, NoItem)
                    ELSE IF \E x \in moving : e = Moved(x, f, i)
                    THEN [state |-> "live", by |-> NoItem,
                          signal |-> edge[CHOOSE x \in moving : e = Moved(x, f, i)].signal]
                    ELSE edge[e]]
      /\ node' = [node EXCEPT ![f].state = "retired", ![f].into = i]
      /\ UNCHANGED <<queue, note, status, priv, older, cut>>

-----------------------------------------------------------------------------
CuratorStep(c) == \/ Approve(c) \/ Reject(c) \/ RejectCutShort(c)
                  \/ ApproveContext(c) \/ RejectContext(c)
                  \/ UpholdContest(c) \/ DismissContest(c)
                  \/ SettleCutShort(c) \/ ContestCutShort(c)

\* Every step but a merge.
OtherStep == \/ \E c \in Items : \/ Submit(c) \/ SubmitCutShort(c) \/ Withdraw(c)
                                 \/ CuratorStep(c)
             \/ \E s \in Signals : RevokeSignal(s)
             \/ \E n \in Nodes : RetireNode(n)
             \/ \E b \in Batches : RetireBatch(b)

Next == OtherStep \/ \E f, i \in Nodes : MergeNodes(f, i)

Spec == Init /\ [][Next]_vars
-----------------------------------------------------------------------------
(* Properties.                                                             *)

\* Type invariant: rows of the tables, and the states their columns take.
ReviewTypeOK ==
  /\ queue \in [Items -> QueueStates]
  /\ note \in [Items -> NoteStates]
  /\ status \in [Signals -> SignalStates]
  /\ priv \in [Signals -> Signal]
  /\ node \in [Nodes -> NodeRow]
  /\ edge \in [EdgeIds -> EdgeRow]
  /\ older \in [Batches -> SUBSET Nodes]
  /\ cut \subseteq Items

\* The rule of docs/PUBLIC-SYNC.md read from the other tables: consent, the
\* signal's status, its review and its note.
WordsDue(c) ==
  \/ "structural_only" \in Shape[c].consent
  \/ status[c] = "revoked"
  \/ Shape[c].kind = "objection"
  \/ Shape[c].kind = "human" /\ queue[c] \in {"pending", "rejected"}
  \/ Shape[c].kind \in {"context", "reading"}
       /\ (queue[c] \in {"pending", "rejected"} \/ note[c] \in {"pending", "rejected"})

\* No fork ever reads what consent, review, a rejection or a revocation keeps
\* back: the words of such a signal, and who wrote an anonymous one or one in
\* review from the public form, are not in its public row, whatever the order
\* of the steps and wherever a crash cut one short (signal-private.ts:1-27).
WithheldIsPrivate ==
  \A c \in Items \cap Written :
    /\ WordsDue(c) => \A k \in WordCols : priv[c].crr[k] = "null"
    /\ "anonymous" \in Shape[c].consent =>
         priv[c].crr["name"] = "anonymous" /\ priv[c].crr["batch"] = "null"
    /\ Shape[c].form /\ queue[c] = "pending" => priv[c].crr["name"] # "orig"

\* What nothing keeps back is there to read: an approved or trusted
\* contribution has its words, and its author's name unless anonymous, in
\* public.  Only a crash inside the approval can leave it unpublished.
PublishedIsPublic ==
  \A c \in (Items \cap Written) \ cut :
    ~WordsDue(c) => /\ priv[c].crr["words"] = "orig"
                    /\ "anonymous" \notin Shape[c].consent =>
                         \A k \in Cols : priv[c].crr[k] = "orig"

\* Withholding never fails on what was withheld before, so no revocation,
\* rejection or withdrawal is refused halfway (PrivacyConflictError).
NeverInConflict ==
  \A s \in Written : \A r \in {"revoked", "rejected", "withdrawn"} : ~Conflict(priv[s], r)

\* The graph holds exactly what was approved: an approved item's node, edge
\* and ending are all there, and no node or edge is there for an item that
\* is not (approveIntakeItem is all or nothing).
AppliedWhole ==
  /\ \A c \in Items : queue[c] = "approved" /\ Shape[c].kind = "human" =>
       /\ Shape[c].node # NoNode => node[Shape[c].node].state # "none"
       /\ Shape[c].edge # NoEdge => edge[Shape[c].edge].state # "none"
       /\ Shape[c].closes \notin {NoEdge, Shape[c].edge} => edge[Shape[c].closes].state = "ended"
  /\ \A c \in Items \ cut :
       \/ \E n \in Nodes : node[n].maker = c
       \/ \E e \in EdgeIds : edge[e].signal = c \/ edge[e].by = c
       => queue[c] = "approved"

\* An objection to a contribution waits exactly as long as its item, and its
\* outcome is the opposite of the item's (settleObjections).  A retired batch
\* and a crash leave it open, and so do the reviews of notes.
ObjectionsFollow ==
  \A o \in Items : LET c == Shape[o].about IN
    Shape[o].kind = "objection" /\ Shape[c].kind = "human" =>
      /\ note[o] = "open" => \/ queue[c] = "pending" \/ c \in cut
                             \/ queue[c] = "rejected" /\ Shape[c].batch # NoBatch
                                  /\ status[Shape[c].batch] # "none"
      /\ note[o] = "upheld" => queue[c] = "rejected"
      /\ note[o] = "dismissed" => queue[c] = "approved"

\* The step that approves an item, or that makes it and is cut short.
TakesEffect(c) == \/ queue[c] # "approved" /\ queue'[c] = "approved"
                  \/ status[c] = "none" /\ c \in cut'

\* Nothing is deleted, and "reversal is deliberate manual work: PATCH the
\* metadata ({"retired": null})" (admin-actions.ts:184): a retired node is live
\* again only in the step that approves a patch of that node that says so,
\* never by a create or a merge that names it; its relations that ended stay
\* ended, for good; an edge keeps its signal and a node its maker and, once
\* merged, stays marked as merged.
HistoryStands ==
  [][/\ \A e \in EdgeIds : edge[e].state # "none" =>
          /\ edge'[e].signal = edge[e].signal
          /\ edge[e].state = "ended" => edge'[e] = edge[e]
          /\ edge'[e].state # "none"
     /\ \A n \in Nodes : node[n].state # "none" =>
          /\ node'[n].maker = node[n].maker
          /\ node[n].into # NoNode => node'[n].into # NoNode
          /\ node'[n].state # "none"
          /\ node[n].state = "retired" /\ node'[n].state = "live" =>
               \E c \in Items : /\ Shape[c].patch = n /\ ~Shape[c].retires
                                /\ TakesEffect(c)]_vars

\* Some patch has brought the node back, or may have before a crash.
BroughtBack(n) ==
  \E c \in Items : /\ Shape[c].patch = n /\ ~Shape[c].retires
                   /\ queue[c] = "approved" \/ c \in cut

\* A merge loses no relation: each live one of the node merged away ends and
\* stands on the kept node, from the same writer and signal, unless the two
\* were its ends or that writer had said it of the kept node already.  A node
\* brought back and merged into the same node again is not covered.
MergeKeepsRelations ==
  [][\A f, i \in Nodes : node[f].into # i /\ node'[f].into = i =>
       \A e \in EdgeIds : f \in Ends(e) /\ edge[e].state = "live" =>
         /\ edge'[e].state = "ended"
         /\ \/ Ends(e) = {f, i} \/ Ends(e) = {f}
            \/ \E x \in EdgeIds :
                 /\ Ends(x) = (Ends(e) \ {f}) \cup {i} /\ x.writer = e.writer
                 /\ edge'[x].state = "live"
                 /\ edge[x].state = "live" \/ edge'[x].signal = edge[e].signal]_vars

\* A review item is decided once, by one of its curator, its author and the
\* retirement of its batch.
DecidedOnce ==
  [][\A c \in Items : queue[c] \in {"approved", "rejected"} => queue'[c] = queue[c]]_vars

\* The promise about public rows.
Privacy == INSTANCE PublicRecord WITH
  Columns <- Cols,
  Lifted <- {"pending", "pending_name"},
  Hides <- [r \in Reasons |-> ColsFor(r)],
  written <- Written,
  holds <- [s \in Signals |-> priv[s].reasons],
  shown <- [s \in Signals |-> IF s \in Written
                              THEN {k \in Cols : priv[s].crr[k] = "orig"} ELSE {}],
  held <- [s \in Signals |-> {k \in Cols : priv[s].kept[k] = "orig"}]

PrivacyKept == Privacy!Spec

\* "guarded so pre-existing nodes the batch merely touched are never retired"
\* (admin-actions.ts:360): retiring a batch retires only nodes it created.
BatchRetiresItsOwn ==
  [][\A n \in Nodes : (\E b \in Batches : status[b] = "none" /\ status'[b] = "active")
        /\ node[n].state = "live" /\ node'[n].state = "retired"
        => node[n].maker \in Items /\ \E b \in Batches :
             status[b] # status'[b] /\ Shape[node[n].maker].batch = b]_vars
=============================================================================
