------------------------- MODULE ReviewOutcomeProofs -------------------------
(***************************************************************************)
(* What becomes of a contribution: what keeps its words back is recorded   *)
(* with its signal, it is decided once, and the graph forgets nothing.     *)
(***************************************************************************)
EXTENDS ReviewProofs

\* The review, or its rejection, keeps the words back.
HeldBack(c) ==
  \/ Shape[c].kind = "human" /\ queue[c] \in {"pending", "rejected"}
  \/ Shape[c].kind \in {"context", "reading"}
       /\ (queue[c] \in {"pending", "rejected"} \/ note[c] \in {"pending", "rejected"})

\* Each cause to withhold, in whichever table, is a reason of the signal.
ReasonsStand(c) ==
  /\ Shape[c].consent \subseteq priv[c].reasons
  /\ status[c] = "revoked" => "revoked" \in priv[c].reasons
  /\ Shape[c].kind = "objection" => "objection" \in priv[c].reasons
  /\ HeldBack(c) => "pending" \in priv[c].reasons
  /\ Shape[c].form /\ queue[c] = "pending" =>
       priv[c].reasons \cap {"pending_name", "anonymous"} # {}

OutcomeInv == \A c \in Items : status[c] # "none" => ReasonsStand(c)

-----------------------------------------------------------------------------
(* What a step may do to an item.                                          *)

\* It is made, whole or, in a crash, without its rows.
Entered(c) ==
  /\ status[c] = "none" /\ status'[c] = "active"
  /\ priv'[c].reasons = BornReasons(c)
  /\ queue'[c] \in {"none", NewQueue(c)}
  /\ note'[c] \in {"none", NewNote(c)}


\* Nothing that kept its words back goes, and no review of it begins.
Goes(c) ==
  /\ status[c] = "none" <=> status'[c] = "none"
  /\ priv[c].reasons \subseteq priv'[c].reasons
  /\ status'[c] = "revoked" => status[c] = "revoked" \/ "revoked" \in priv'[c].reasons
  /\ HeldBack(c)' => HeldBack(c)
  /\ \/ queue'[c] = queue[c]
     \/ queue[c] = "pending" /\ queue'[c] \in {"approved", "rejected"}

\* Its review ends with the words published.
Passes(c) ==
  /\ status[c] # "none" /\ status'[c] = status[c]
  /\ priv[c].reasons \ priv'[c].reasons \subseteq {"pending", "pending_name"}
  /\ ~HeldBack(c)'
  /\ queue[c] = "pending" /\ queue'[c] = "approved"

Moves(c) == Entered(c) \/ Goes(c) \/ Passes(c)

LEMMA BornWhenMade ==
  ASSUME PrivacyInv, NEW c \in Items, Submit(c) \/ SubmitCutShort(c)
  PROVE  Entered(c)
<1>1. status[c] = "none" /\ queue[c] = "none" /\ note[c] = "none"
  BY ItemsAreSignals DEF Submit, SubmitCutShort, New, PrivacyInv, Unwritten
<1>2. /\ status' = [status EXCEPT ![c] = "active"]
      /\ priv' = [priv EXCEPT ![c] = Born(BornReasons(c))]
      /\ queue' = [queue EXCEPT ![c] = NewQueue(c)] \/ queue' = queue
      /\ note' = [note EXCEPT ![c] = NewNote(c)] \/ note' = note
  BY DEF Submit, SubmitCutShort
<1>3. Born(BornReasons(c)).reasons = BornReasons(c)
  BY DEF Born
<1> QED
  BY <1>1, <1>2, <1>3, ItemsAreSignals DEF Entered, PrivacyInv, RowsOK, SignalsKept

\* An item no part of which changes.
LEMMA AloneGoes ==
  ASSUME NEW c \in Items, status'[c] = status[c], priv'[c] = priv[c],
         queue'[c] = queue[c], note'[c] = note[c]
  PROVE  Goes(c)
  BY DEF Goes, HeldBack

LEMMA ContributorMoves ==
  ASSUME PrivacyInv, NEW d \in Items, Submit(d) \/ SubmitCutShort(d) \/ Withdraw(d),
         NEW c \in Items
  PROVE  Moves(c)
<1> USE ItemsAreSignals DEF PrivacyInv, RowsOK, SignalsKept
<1>1. CASE Submit(d) \/ SubmitCutShort(d)
  <2>1. CASE c = d
    BY <1>1, <2>1, BornWhenMade DEF Moves
  <2>2. CASE c # d
    <3>1. Goes(c)
      BY <1>1, <2>2, AloneGoes DEF Submit, SubmitCutShort
    <3> QED
      BY <3>1 DEF Moves
  <2> QED
    BY <2>1, <2>2
<1>2. CASE Withdraw(d) /\ c # d
  <2>1. Goes(c)
    BY <1>2, AloneGoes DEF Withdraw
  <2> QED
    BY <2>1 DEF Moves
<1>3. CASE Withdraw(d) /\ c = d
  <2>1. Kept(priv[c]) /\ status[c] # "none"
    BY <1>3 DEF Withdraw, Unwritten
  <2>2. priv[c].reasons \subseteq priv'[c].reasons
    BY <1>3, <2>1, WithheldKept DEF Withdraw, WordReasons
  <2>3. /\ status'[c] = IF status[c] = "revoked" THEN "revoked" ELSE "superseded"
        /\ queue'[c] = IF queue[c] = "pending" THEN "rejected" ELSE queue[c]
        /\ note'[c] = "withdrawn"
    BY <1>3 DEF Withdraw
  <2>4. HeldBack(c)' => HeldBack(c)
    BY <2>3 DEF HeldBack
  <2> QED
    BY <2>1, <2>2, <2>3, <2>4 DEF Moves, Goes
<1> QED
  BY <1>1, <1>2, <1>3

\* An item whose review goes on elsewhere: only an objection to it ends.
LEMMA SettledGoes ==
  ASSUME NEW c \in Items, status'[c] = status[c], priv'[c] = priv[c],
         queue'[c] = queue[c], note'[c] \in {note[c], "upheld", "dismissed"}
  PROVE  Goes(c)
  BY DEF Goes, HeldBack

LEMMA OtherCuratorMoves ==
  ASSUME PrivacyInv, NEW d \in Items, CuratorStep(d), NEW c \in Items, c # d
  PROVE  Moves(c)
<1> USE ItemsAreSignals DEF PrivacyInv, RowsOK, SignalsKept
<1>1. \A o : ObjectionsSettled(d, o)[c] \in {note[c], "upheld", "dismissed"}
  BY DEF ObjectionsSettled
<1>2. Goes(c)
  BY <1>1, SettledGoes
  DEF CuratorStep, Approve, Reject, RejectCutShort, ApproveContext, RejectContext,
      UpholdContest, DismissContest, SettleCutShort, ContestCutShort, Settle
<1> QED
  BY <1>2 DEF Moves

LEMMA CuratorMoves ==
  ASSUME PrivacyInv, NEW c \in Items, CuratorStep(c)
  PROVE  Moves(c)
<1> USE ItemsAreSignals DEF PrivacyInv, RowsOK, SignalsKept
<1>1. queue[c] = "pending" /\ status[c] # "none"
  BY DEF CuratorStep, Approve, Reject, RejectCutShort, ApproveContext, RejectContext,
         UpholdContest, DismissContest, SettleCutShort, ContestCutShort, Decidable,
         Unwritten
<1>2. Kept(priv[c])
  OBVIOUS
<1>3. /\ Kept(Published(priv[c], "pending_name"))
      /\ Published(priv[c], "pending").reasons = priv[c].reasons \ {"pending"}
      /\ PublishedOnApproval(priv[c]).reasons = priv[c].reasons \ {"pending", "pending_name"}
  BY <1>2, PublishedKept DEF PublishedOnApproval
<1>4. Withheld(priv[c], "rejected").reasons = priv[c].reasons \cup {"rejected"}
  BY <1>2, WithheldKept DEF WordReasons
<1>5. CASE Approve(c)
  <2>1. queue'[c] = "approved" /\ status' = status /\ Shape[c].kind = "human"
        /\ priv'[c] = PublishedOnApproval(priv[c])
    BY <1>5 DEF Approve
  <2>2. ~HeldBack(c)'
    BY <2>1 DEF HeldBack
  <2> QED
    BY <1>1, <1>3, <2>1, <2>2 DEF Moves, Passes
<1>6. CASE ApproveContext(c)
  <2>1. queue'[c] = "approved" /\ note'[c] = "live" /\ status' = status
        /\ priv'[c] = Published(priv[c], "pending")
    BY <1>6 DEF ApproveContext, Settle
  <2>2. ~HeldBack(c)'
    BY <2>1 DEF HeldBack
  <2> QED
    BY <1>1, <1>3, <2>1, <2>2 DEF Moves, Passes
<1>7. CASE UpholdContest(c) \/ DismissContest(c) \/ ContestCutShort(c)
  <2>1. Shape[c].kind = "contest" /\ status' = status /\ priv' = priv
        /\ queue'[c] \in {"pending", "approved", "rejected"}
    BY <1>1, <1>7 DEF UpholdContest, DismissContest, ContestCutShort, Settle
  <2>2. ~HeldBack(c)'
    BY <2>1 DEF HeldBack
  <2> QED
    BY <1>1, <2>1, <2>2 DEF Moves, Goes
<1>8. CASE Reject(c) \/ RejectCutShort(c) \/ RejectContext(c) \/ SettleCutShort(c)
  <2>1. HeldBack(c)
    BY <1>1, <1>8 DEF HeldBack, Reject, RejectCutShort, RejectContext, SettleCutShort
  <2>2. priv'[c] = priv[c] \/ priv'[c] = Withheld(priv[c], "rejected")
    BY <1>8 DEF Reject, RejectCutShort, RejectContext, SettleCutShort
  <2>3. status'[c] \in {status[c], "superseded"}
        /\ queue'[c] \in {"pending", "approved", "rejected"}
    BY <1>1, <1>8 DEF Reject, RejectCutShort, RejectContext, SettleCutShort, Settle
  <2> QED
    BY <1>1, <1>4, <2>1, <2>2, <2>3 DEF Moves, Goes
<1> QED
  BY <1>5, <1>6, <1>7, <1>8 DEF CuratorStep

LEMMA CorrectionMoves ==
  ASSUME PrivacyInv, NEW c \in Items,
         \/ \E s \in Signals : RevokeSignal(s)
         \/ \E n \in Nodes : RetireNode(n)
         \/ \E b \in Batches : RetireBatch(b)
         \/ \E f, i \in Nodes : MergeNodes(f, i)
  PROVE  Moves(c)
<1> USE ItemsAreSignals DEF PrivacyInv, RowsOK, SignalsKept
<1>1. Withheld(priv[c], "revoked").reasons = priv[c].reasons \cup {"revoked"}
  BY WithheldKept DEF WordReasons
<1>2. CASE \E s \in Signals : RevokeSignal(s)
  <2> PICK s \in Signals : RevokeSignal(s)
    BY <1>2
  <2>1. /\ queue' = queue /\ note' = note
        /\ status[s] # "none" /\ status' = [status EXCEPT ![s] = "revoked"]
        /\ priv' = Revoked({s})
    BY DEF RevokeSignal
  <2>2. priv'[c] = IF c = s THEN Withheld(priv[c], "revoked") ELSE priv[c]
    BY <2>1 DEF Revoked
  <2>3. HeldBack(c)' => HeldBack(c)
    BY <2>1 DEF HeldBack
  <2> QED
    BY <1>1, <2>1, <2>2, <2>3 DEF Moves, Goes
<1>3. CASE \E b \in Batches : RetireBatch(b)
  <2> PICK b \in Batches : RetireBatch(b)
    BY <1>3
  <2> DEFINE active == {x \in InBatch(b) : status[x] = "active"}
  <2>1. c # b
    BY ReviewAssumption
  <2>2. PICK why : priv' = [Revoked(active) EXCEPT ![b] = AdminRecord(why)]
    BY DEF RetireBatch
  <2>3. priv'[c] = IF c \in active THEN Withheld(priv[c], "revoked") ELSE priv[c]
    BY <2>1, <2>2 DEF Revoked
  <2>4. /\ status'[c] = IF c \in active THEN "revoked" ELSE status[c]
        /\ queue'[c] = IF c \in InBatch(b) /\ queue[c] = "pending" THEN "rejected" ELSE queue[c]
        /\ note' = note
    BY <2>1 DEF RetireBatch
  <2>5. HeldBack(c)' => HeldBack(c)
    BY <2>4 DEF HeldBack
  <2> QED
    BY <1>1, <2>3, <2>4, <2>5 DEF Moves, Goes
<1>4. CASE (\E n \in Nodes : RetireNode(n)) \/ \E f, i \in Nodes : MergeNodes(f, i)
  <2>1. Goes(c)
    BY <1>4, AloneGoes DEF RetireNode, MergeNodes
  <2> QED
    BY <2>1 DEF Moves
<1> QED
  BY <1>2, <1>3, <1>4

LEMMA StepMoves ==
  ASSUME PrivacyInv, [Next]_vars, NEW c \in Items
  PROVE  Moves(c)
<1>1. CASE UNCHANGED vars
  BY <1>1, AloneGoes DEF vars, Moves
<1>2. CASE Next
  BY <1>2, ContributorMoves, OtherCuratorMoves, CuratorMoves, CorrectionMoves DEF Next, OtherStep
<1> QED
  BY <1>1, <1>2

-----------------------------------------------------------------------------
(* The invariant, and what follows.                                        *)

LEMMA ReasonsNext ==
  ASSUME PrivacyInv, OutcomeInv, [Next]_vars, NEW c \in Items, status'[c] # "none"
  PROVE  ReasonsStand(c)'
<1>1. CASE Entered(c)
  <2>1. HeldBack(c)' => "pending" \in BornReasons(c)
    BY <1>1 DEF Entered, HeldBack, NewQueue, NewNote, BornReasons, Waits
  <2> QED
    BY <1>1, <2>1 DEF Entered, ReasonsStand, BornReasons
<1>2. CASE Goes(c)
  <2>1. ReasonsStand(c)
    BY <1>2 DEF Goes, OutcomeInv
  <2> QED
    BY <1>2, <2>1 DEF Goes, ReasonsStand
<1>3. CASE Passes(c)
  <2>1. ReasonsStand(c)
    BY <1>3 DEF Passes, OutcomeInv
  <2>2. Shape[c].consent \subseteq {"structural_only", "anonymous"}
    BY ReviewAssumption DEF ShapeType
  <2> QED
    BY <1>3, <2>1, <2>2 DEF Passes, ReasonsStand
<1> QED
  BY <1>1, <1>2, <1>3, StepMoves DEF Moves

\* Each cause to withhold stands as a reason, in every order of the steps.
THEOREM OutcomeInvariant == Spec => [](PrivacyInv /\ OutcomeInv)
<1>1. Init => PrivacyInv /\ OutcomeInv
  BY PrivacyInit, ItemsAreSignals DEF Init, OutcomeInv
<1>2. PrivacyInv /\ OutcomeInv /\ [Next]_vars => PrivacyInv' /\ OutcomeInv'
  <2> SUFFICES ASSUME PrivacyInv, OutcomeInv, [Next]_vars
               PROVE  PrivacyInv' /\ OutcomeInv'
    OBVIOUS
  <2>1. PrivacyInv'
    BY PrivacyNext
  <2>2. \A c \in Items : status'[c] # "none" => ReasonsStand(c)'
    BY ReasonsNext
  <2> QED
    BY <2>1, <2>2 DEF OutcomeInv
<1> QED
  BY <1>1, <1>2, PTL DEF Spec

\* What consent, review, a rejection or a revocation keeps back is in no
\* public row, whatever the order and wherever a crash fell.
THEOREM WithheldStaysPrivate == Spec => []WithheldIsPrivate
<1>1. PrivacyInv /\ OutcomeInv => WithheldIsPrivate
  <2> SUFFICES ASSUME PrivacyInv, OutcomeInv, NEW c \in Items \cap Written
               PROVE  /\ WordsDue(c) => \A k \in WordCols : priv[c].crr[k] = "null"
                      /\ "anonymous" \in Shape[c].consent =>
                           priv[c].crr["name"] = "anonymous" /\ priv[c].crr["batch"] = "null"
                      /\ Shape[c].form /\ queue[c] = "pending" => priv[c].crr["name"] # "orig"
    BY DEF WithheldIsPrivate
  <2>1. ReasonsStand(c) /\ Kept(priv[c])
    BY DEF OutcomeInv, Written, PrivacyInv, SignalsKept
  <2>2. WordsDue(c) => priv[c].reasons \cap WordReasons # {}
    BY <2>1 DEF ReasonsStand, WordsDue, HeldBack, WordReasons
  <2>3. priv[c].reasons \cap {"pending_name", "anonymous"} # {} => "name" \in Covered(priv[c].reasons)
    BY CoveredWhen DEF ColsFor, Cols, WhoCols
  <2>4. "name" \in Covered(priv[c].reasons) => priv[c].crr["name"] # "orig"
    BY <2>1 DEF Kept, Sound, Cols
  <2> QED
    BY <2>1, <2>2, <2>3, <2>4 DEF Kept, Blanked, ReasonsStand
<1> QED
  BY <1>1, OutcomeInvariant, PTL

\* No decision on an item is ever replaced by another.
THEOREM ItemsDecidedForGood == Spec => DecidedOnce
<1>1. PrivacyInv /\ [Next]_vars =>
        \A c \in Items : queue[c] \in {"approved", "rejected"} => queue'[c] = queue[c]
  <2> SUFFICES ASSUME PrivacyInv, [Next]_vars,
                      NEW c \in Items, queue[c] \in {"approved", "rejected"}
               PROVE  queue'[c] = queue[c]
    OBVIOUS
  <2>1. status[c] # "none"
    BY DEF PrivacyInv, Unwritten
  <2> QED
    BY <2>1, StepMoves DEF Moves, Entered, Goes, Passes
<1> QED
  BY <1>1, PrivacyInvariant, PTL DEF Spec, DecidedOnce

-----------------------------------------------------------------------------
(* The graph.                                                              *)

\* A node or edge made once stands, or is retired or ended; only a patch that
\* takes effect brings a node back; and what came of an item came of it by its
\* own approval.
NodesStand ==
  \A n \in Nodes : node[n].state # "none" =>
    /\ node'[n].maker = node[n].maker
    /\ node[n].into # NoNode => node'[n].into # NoNode
    /\ node'[n].state # "none"
    /\ node[n].state = "retired" /\ node'[n].state = "live" =>
         \E c \in Items : /\ Shape[c].patch = n /\ ~Shape[c].retires
                          /\ TakesEffect(c)

EdgesStand ==
  \A e \in EdgeIds : edge[e].state # "none" =>
    /\ edge'[e].signal = edge[e].signal
    /\ edge[e].state = "ended" => edge'[e] = edge[e]
    /\ edge'[e].state # "none"

Used(c) == \/ \E n \in Nodes : node[n].maker = c
           \/ \E e \in EdgeIds : edge[e].signal = c \/ edge[e].by = c

\* Only the operations of an item itself put it on record.
NoneNew(D) == \A c \in Items \ D : Used(c)' => Used(c)

GraphStands(D) == NodesStand /\ EdgesStand /\ NoneNew(D)

LEMMA MaterialiseStands ==
  ASSUME PrivacyInv, NEW c \in Items, Materialise(c), TakesEffect(c)
  PROVE  GraphStands({c})
<1> USE DEF PrivacyInv, RowsOK, NodeRow, EdgeRow
<1>1. \A n \in Nodes :
        \/ node'[n] = node[n]
        \/ node[n].state = "none" /\ node'[n].maker = c
        \/ /\ node'[n].maker = node[n].maker /\ node'[n].into = node[n].into
           /\ n = Shape[c].patch
           /\ node'[n].state = IF Shape[c].retires THEN "retired" ELSE "live"
  BY DEF Materialise, WithNode, Patched
<1>2. \A e \in EdgeIds :
        \/ edge'[e] = edge[e]
        \/ edge[e].state = "none" /\ edge'[e].signal = c /\ edge'[e].by = NoItem
        \/ edge[e].state = "live" /\ edge'[e].state = "ended" /\ edge'[e].by = c
             /\ edge'[e].signal = edge[e].signal
  BY DEF Materialise, WithEdges, Ended
<1>3. NodesStand
  BY <1>1 DEF NodesStand
<1>4. EdgesStand
  BY <1>2 DEF EdgesStand
<1>5. NoItem \notin Items
  BY ReviewAssumption DEF Signals
<1>6. NoneNew({c})
  BY <1>1, <1>2, <1>5 DEF NoneNew, Used
<1> QED
  BY <1>3, <1>4, <1>6 DEF GraphStands

\* Edges end, for no item, and nodes are retired.
LEMMA RetiringStands ==
  ASSUME PrivacyInv, NEW s \in (Signals \ Items) \cup {NoItem},
         \A e \in EdgeIds : edge'[e] \in {edge[e], Ended(e, s)},
         \A n \in Nodes : \/ node'[n] = node[n]
                          \/ /\ node'[n].state = "retired"
                             /\ node'[n].maker = node[n].maker
                             /\ node'[n].into = node[n].into
  PROVE  GraphStands({})
<1> USE DEF PrivacyInv, RowsOK, NodeRow, EdgeRow
<1>1. s \notin Items
  BY ReviewAssumption DEF Signals
<1>2. NodesStand
  BY DEF NodesStand
<1>3. \A e \in EdgeIds : \/ edge'[e] = edge[e]
                         \/ edge[e].state = "live" /\ edge'[e].state = "ended"
                              /\ edge'[e].by = s /\ edge'[e].signal = edge[e].signal
  BY DEF Ended
<1>4. EdgesStand
  BY <1>3 DEF EdgesStand
<1>5. NoneNew({})
  BY <1>1, <1>3 DEF NoneNew, Used
<1> QED
  BY <1>2, <1>4, <1>5 DEF GraphStands

LEMMA UntouchedStands ==
  ASSUME UNCHANGED graphVars PROVE GraphStands({})
  BY DEF graphVars, GraphStands, NodesStand, EdgesStand, NoneNew, Used

LEMMA MergeStands ==
  ASSUME PrivacyInv, NEW f \in Nodes, NEW i \in Nodes, MergeNodes(f, i)
  PROVE  GraphStands({})
<1> DEFINE gone == {e \in EdgeIds : f \in Ends(e) /\ edge[e].state = "live"}
           moving == {e \in gone : ~Loop(e, f, i) /\ ~AlreadyThere(e, f, i)}
           From(e) == CHOOSE x \in moving : e = Moved(x, f, i)
<1> USE DEF PrivacyInv, RowsOK, NodeRow, EdgeRow
<1>1. NodesStand
  BY ReviewAssumption DEF MergeNodes, NodesStand
<1>2. \A e \in EdgeIds :
        \/ edge'[e] = edge[e]
        \/ edge[e].state = "live" /\ edge'[e].state = "ended"
             /\ edge'[e].by = NoItem /\ edge'[e].signal = edge[e].signal
        \/ /\ edge[e].state = "none" /\ edge'[e].state = "live"
           /\ edge'[e].by = NoItem
           /\ \E x \in EdgeIds : edge'[e].signal = edge[x].signal
  <2> SUFFICES ASSUME NEW e \in EdgeIds
               PROVE  \/ edge'[e] = edge[e]
                      \/ edge[e].state = "live" /\ edge'[e].state = "ended"
                           /\ edge'[e].by = NoItem /\ edge'[e].signal = edge[e].signal
                      \/ /\ edge[e].state = "none" /\ edge'[e].state = "live"
                         /\ edge'[e].by = NoItem
                         /\ \E x \in EdgeIds : edge'[e].signal = edge[x].signal
    OBVIOUS
  <2>1. CASE e \in gone
    BY <2>1 DEF MergeNodes, Ended
  <2>2. CASE e \notin gone /\ \E x \in moving : e = Moved(x, f, i)
    <3>1. From(e) \in moving /\ e = Moved(From(e), f, i)
      BY <2>2
    <3>2. edge[e].state = "none"
      BY <3>1 DEF MergeNodes
    <3>3. edge'[e] = [state |-> "live", by |-> NoItem, signal |-> edge[From(e)].signal]
      BY <2>2 DEF MergeNodes
    <3>4. PICK x \in EdgeIds : x = From(e)
      BY <3>1
    <3>5. edge'[e].state = "live" /\ edge'[e].by = NoItem /\ edge'[e].signal = edge[x].signal
      BY <3>3, <3>4
    <3> QED
      BY <3>2, <3>5
  <2>3. CASE e \notin gone /\ ~\E x \in moving : e = Moved(x, f, i)
    BY <2>3 DEF MergeNodes
  <2> QED
    BY <2>1, <2>2, <2>3
<1>3. EdgesStand
  BY <1>2 DEF EdgesStand
<1>4. NoItem \notin Items
  BY ReviewAssumption DEF Signals
<1>5. \A n \in Nodes : node'[n].maker = node[n].maker
  BY DEF MergeNodes
<1>6. NoneNew({})
  BY <1>2, <1>4, <1>5 DEF NoneNew, Used
<1> QED
  BY <1>1, <1>3, <1>6 DEF GraphStands

\* The one item whose operations a step may apply: trusted, approved now, or
\* cut short.
LEMMA StepStands ==
  ASSUME PrivacyInv, [Next]_vars
  PROVE  \/ GraphStands({})
         \/ \E c \in Items : /\ GraphStands({c}) /\ Materialise(c)
                             /\ TakesEffect(c)
<1> USE ItemsAreSignals DEF PrivacyInv, RowsOK
<1>1. ASSUME NEW c \in Items, Submit(c) \/ SubmitCutShort(c) \/ Approve(c)
      PROVE  \/ GraphStands({})
             \/ /\ GraphStands({c}) /\ Materialise(c)
                /\ TakesEffect(c)
  <2>1. CASE UNCHANGED graphVars
    BY <2>1, UntouchedStands
  <2>2. CASE Materialise(c)
    <3>1. TakesEffect(c) \/ UNCHANGED graphVars
      BY <1>1 DEF Submit, New, NewQueue, Waits, SubmitCutShort, Approve, TakesEffect, Unwritten
    <3> QED
      BY <2>2, <3>1, MaterialiseStands, UntouchedStands
  <2> QED
    BY <1>1, <2>1, <2>2 DEF Submit, SubmitCutShort, Approve
<1>2. ASSUME NEW c \in Items, UpholdContest(c) \/ ContestCutShort(c)
      PROVE  GraphStands({})
  <2>1. node' = node
    BY <1>2 DEF UpholdContest, ContestCutShort
  <2>2. EndRelation(c) \/ edge' = edge
    BY <1>2 DEF UpholdContest, ContestCutShort
  <2>3. \A e \in EdgeIds : edge'[e] \in {edge[e], Ended(e, NoItem)}
    BY <2>2 DEF EndRelation
  <2> QED
    BY <2>1, <2>3, RetiringStands
<1>3. ASSUME NEW c \in Items, Withdraw(c) \/ CuratorStep(c),
             ~Approve(c), ~UpholdContest(c), ~ContestCutShort(c)
      PROVE  GraphStands({})
  BY <1>3, UntouchedStands
  DEF Withdraw, CuratorStep, Reject, RejectCutShort, ApproveContext, RejectContext,
      DismissContest, SettleCutShort
<1>4. ASSUME NEW s \in Signals, RevokeSignal(s)
      PROVE  GraphStands({})
  <2>1. node' = node /\ \A e \in EdgeIds : edge'[e] \in {edge[e], Ended(e, NoItem)}
    BY <1>4 DEF RevokeSignal
  <2> QED
    BY <2>1, RetiringStands
<1>5. ASSUME NEW n \in Nodes, RetireNode(n)
      PROVE  GraphStands({})
  <2>1. \A e \in EdgeIds : edge'[e] \in {edge[e], Ended(e, NoItem)}
    BY <1>5 DEF RetireNode
  <2>2. \A m \in Nodes : \/ node'[m] = node[m]
                         \/ /\ node'[m].state = "retired"
                            /\ node'[m].maker = node[m].maker
                            /\ node'[m].into = node[m].into
    BY <1>5 DEF RetireNode, NodeRow
  <2> QED
    BY <2>1, <2>2, RetiringStands
<1>6. ASSUME NEW b \in Batches, RetireBatch(b)
      PROVE  GraphStands({})
  <2>1. b \in Signals \ Items
    BY ReviewAssumption
  <2>2. \A e \in EdgeIds : edge'[e] \in {edge[e], Ended(e, b)}
    BY <1>6 DEF RetireBatch
  <2>3. \A n \in Nodes : \/ node'[n] = node[n]
                         \/ /\ node'[n].state = "retired"
                            /\ node'[n].maker = node[n].maker
                            /\ node'[n].into = node[n].into
    BY <1>6 DEF RetireBatch, NodeRow
  <2> QED
    BY <2>1, <2>2, <2>3, RetiringStands
<1>7. CASE UNCHANGED vars
  BY <1>7, UntouchedStands DEF vars, graphVars
<1> QED
  BY <1>1, <1>2, <1>3, <1>4, <1>5, <1>6, <1>7, MergeStands DEF Next, OtherStep, CuratorStep

\* Nothing in the graph is deleted, and no edge rewritten or brought back; a
\* retired node comes back only by a patch that asks for it, when it is
\* approved, and its ended relations do not come back with it.
THEOREM GraphHistoryStands == Spec => HistoryStands
<1>1. PrivacyInv /\ [Next]_vars => NodesStand /\ EdgesStand
  BY StepStands DEF GraphStands
<1> QED
  BY <1>1, PrivacyInvariant, PTL DEF Spec, HistoryStands, NodesStand, EdgesStand

LEMMA OnlySubmitsMake ==
  ASSUME PrivacyInv, [Next]_vars, NEW c \in Items, status[c] = "none", status'[c] # "none"
  PROVE  Submit(c) \/ SubmitCutShort(c)
<1> USE ItemsAreSignals DEF PrivacyInv, RowsOK
<1>1. ASSUME NEW d \in Items, Submit(d) \/ SubmitCutShort(d)
      PROVE  c = d
  BY <1>1 DEF Submit, SubmitCutShort
<1>2. ASSUME NEW d \in Items, Withdraw(d) \/ CuratorStep(d)
      PROVE  FALSE
  <2>1. status[d] # "none"
    BY <1>2 DEF Withdraw, CuratorStep, Approve, Reject, RejectCutShort, ApproveContext,
                RejectContext, UpholdContest, DismissContest, SettleCutShort,
                ContestCutShort, Decidable, Unwritten
  <2>2. status' = status \/ \E x : status' = [status EXCEPT ![d] = x]
    BY <1>2 DEF Withdraw, CuratorStep, Approve, Reject, RejectCutShort, ApproveContext,
                RejectContext, UpholdContest, DismissContest, SettleCutShort,
                ContestCutShort
  <2> QED
    BY <2>1, <2>2
<1>3. CASE \/ \E s \in Signals : RevokeSignal(s)
           \/ \E n \in Nodes : RetireNode(n)
           \/ \E f, i \in Nodes : MergeNodes(f, i)
  BY <1>3 DEF RevokeSignal, RetireNode, MergeNodes
<1>4. CASE \E b \in Batches : RetireBatch(b)
  <2>1. c \notin Batches
    BY ReviewAssumption
  <2> QED
    BY <1>4, <2>1 DEF RetireBatch
<1> QED
  BY <1>1, <1>2, <1>3, <1>4 DEF Next, OtherStep, vars

\* What an item closes is there since before it was made.
ClosesStand ==
  \A c \in Items : status[c] # "none" /\ Shape[c].closes # NoEdge =>
    edge[Shape[c].closes].state # "none"

LEMMA ClosesInit == Init => ClosesStand
  BY ItemsAreSignals DEF Init, ClosesStand

LEMMA ClosesNext == PrivacyInv /\ ClosesStand /\ [Next]_vars => ClosesStand'
<1> SUFFICES ASSUME PrivacyInv, ClosesStand, [Next]_vars,
                    NEW c \in Items, status'[c] # "none", Shape[c].closes # NoEdge
             PROVE  edge'[Shape[c].closes].state # "none"
  BY DEF ClosesStand
<1>1. Shape[c].closes \in EdgeIds
  BY ReviewAssumption DEF ShapeType
<1>2. edge[Shape[c].closes].state # "none"
  <2>1. CASE status[c] # "none"
    BY <2>1 DEF ClosesStand
  <2>2. CASE status[c] = "none"
    <3>1. Submit(c) \/ SubmitCutShort(c)
      BY <2>2, OnlySubmitsMake
    <3> QED
      BY <3>1 DEF Submit, SubmitCutShort, Acceptable
  <2> QED
    BY <2>1, <2>2
<1> QED
  BY <1>1, <1>2, StepStands DEF GraphStands, EdgesStand

\* A change of the review outcome of an item comes with its operations.
LEMMA ApprovalApplies ==
  ASSUME PrivacyInv, [Next]_vars, NEW c \in Items, Shape[c].kind = "human",
         queue[c] # "approved", queue'[c] = "approved"
  PROVE  Materialise(c) /\ (status[c] = "none" => Submit(c))
<1> USE ItemsAreSignals DEF PrivacyInv, RowsOK
<1>1. ASSUME NEW d \in Items, Submit(d) \/ SubmitCutShort(d)
      PROVE  Materialise(c) /\ Submit(c)
  <2>1. Submit(d) /\ d = c
    BY <1>1 DEF Submit, SubmitCutShort
  <2>2. NewQueue(c) = "approved"
    BY <2>1 DEF Submit
  <2> QED
    BY <2>1, <2>2 DEF Submit, NewQueue
<1>2. ASSUME NEW d \in Items, Withdraw(d)
      PROVE  FALSE
  BY <1>2 DEF Withdraw
<1>3. ASSUME NEW d \in Items, CuratorStep(d)
      PROVE  Materialise(c) /\ status[c] # "none"
  <2>1. d = c
    BY <1>3 DEF CuratorStep, Approve, Reject, RejectCutShort, ApproveContext, RejectContext,
                UpholdContest, DismissContest, SettleCutShort, ContestCutShort, Settle
  <2>2. Approve(c)
    BY <1>3, <2>1 DEF CuratorStep, Reject, RejectCutShort, ApproveContext, RejectContext,
                UpholdContest, DismissContest, SettleCutShort, ContestCutShort, Settle
  <2> QED
    BY <2>2 DEF Approve, Unwritten
<1>4. CASE \/ \E s \in Signals : RevokeSignal(s)
           \/ \E n \in Nodes : RetireNode(n)
           \/ \E b \in Batches : RetireBatch(b)
           \/ \E f, i \in Nodes : MergeNodes(f, i)
  BY <1>4 DEF RevokeSignal, RetireNode, RetireBatch, MergeNodes
<1> QED
  BY <1>1, <1>2, <1>3, <1>4 DEF Next, OtherStep, vars

\* What an approved item asked for is in the graph.
AppliedOf(c) ==
  /\ Shape[c].node # NoNode => node[Shape[c].node].state # "none"
  /\ Shape[c].edge # NoEdge => edge[Shape[c].edge].state # "none"
  /\ Shape[c].closes \notin {NoEdge, Shape[c].edge} => edge[Shape[c].closes].state = "ended"

LEMMA MaterialiseApplies ==
  ASSUME PrivacyInv, NEW c \in Items, Materialise(c),
         Shape[c].closes # NoEdge => edge[Shape[c].closes].state # "none"
  PROVE  AppliedOf(c)'
<1>1. /\ Shape[c].node \in Nodes \cup {NoNode}
      /\ Shape[c].edge \in EdgeIds \cup {NoEdge}
      /\ Shape[c].closes \in EdgeIds \cup {NoEdge}
  BY ReviewAssumption DEF ShapeType
<1>2. Shape[c].node # NoNode => node'[Shape[c].node].state # "none"
  BY <1>1 DEF Materialise, WithNode, Patched, PrivacyInv, RowsOK, NodeRow
<1>3. Shape[c].edge # NoEdge => edge'[Shape[c].edge].state # "none"
  BY <1>1 DEF Materialise, WithEdges, PrivacyInv, RowsOK, EdgeRow
<1>4. Shape[c].closes \notin {NoEdge, Shape[c].edge} => edge'[Shape[c].closes].state = "ended"
  BY <1>1 DEF Materialise, WithEdges, Ended, PrivacyInv, RowsOK, EdgeRow
<1> QED
  BY <1>2, <1>3, <1>4 DEF AppliedOf

LEMMA AppliedStays ==
  ASSUME NEW c \in Items, AppliedOf(c), NodesStand, EdgesStand, PrivacyInv'
  PROVE  AppliedOf(c)'
<1>1. /\ Shape[c].node \in Nodes \cup {NoNode}
      /\ Shape[c].edge \in EdgeIds \cup {NoEdge}
      /\ Shape[c].closes \in EdgeIds \cup {NoEdge}
  BY ReviewAssumption DEF ShapeType
<1> QED
  BY <1>1 DEF AppliedOf, NodesStand, EdgesStand

AppliedInv ==
  /\ PrivacyInv
  /\ ClosesStand
  /\ \A c \in Items : queue[c] = "approved" /\ Shape[c].kind = "human" => AppliedOf(c)
  /\ \A c \in Items \ cut : Used(c) => queue[c] = "approved"

LEMMA CutsStay == [Next]_vars => cut \subseteq cut'
  BY DEF Next, OtherStep, vars, Submit, SubmitCutShort, Withdraw, CuratorStep, Approve, Reject,
         RejectCutShort, ApproveContext, RejectContext, UpholdContest, DismissContest,
         SettleCutShort, ContestCutShort, RevokeSignal, RetireNode, RetireBatch, MergeNodes

LEMMA AppliedInit == Init => AppliedInv
<1> SUFFICES ASSUME Init PROVE AppliedInv
  OBVIOUS
<1>1. PrivacyInv /\ ClosesStand
  BY PrivacyInit, ClosesInit
<1>2. \A c \in Items : queue[c] # "approved"
  BY DEF Init
<1>3. \A c \in Items : ~Used(c)
  BY ReviewAssumption DEF Init, Used, Signals
<1> QED
  BY <1>1, <1>2, <1>3 DEF AppliedInv

LEMMA AppliedNext == AppliedInv /\ [Next]_vars => AppliedInv'
<1> SUFFICES ASSUME AppliedInv, [Next]_vars
             PROVE  AppliedInv'
  OBVIOUS
<1> USE DEF AppliedInv
<1>1. PrivacyInv' /\ ClosesStand'
  BY PrivacyNext, ClosesNext
<1>2. NodesStand /\ EdgesStand
  BY StepStands DEF GraphStands
<1>3. ASSUME NEW c \in Items, queue'[c] = "approved", Shape[c].kind = "human"
      PROVE  AppliedOf(c)'
  <2>1. CASE queue[c] = "approved"
    BY <1>1, <1>2, <1>3, <2>1, AppliedStays
  <2>2. CASE queue[c] # "approved"
    <3>1. Materialise(c) /\ (status[c] = "none" => Submit(c))
      BY <1>3, <2>2, ApprovalApplies
    <3>2. Shape[c].closes # NoEdge => edge[Shape[c].closes].state # "none"
      BY <3>1 DEF ClosesStand, Submit, Acceptable
    <3> QED
      BY <3>1, <3>2, MaterialiseApplies
  <2> QED
    BY <2>1, <2>2
<1>4. ASSUME NEW c \in Items \ cut', Used(c)'
      PROVE  queue'[c] = "approved"
  <2>1. Used(c) \/ queue'[c] = "approved"
    BY <1>4, StepStands DEF GraphStands, NoneNew, TakesEffect
  <2>2. Used(c) => queue[c] = "approved"
    BY <1>4, CutsStay
  <2>3. queue[c] = "approved" => queue'[c] = "approved"
    BY StepMoves DEF Moves, Entered, Goes, Passes, PrivacyInv, Unwritten
  <2> QED
    BY <2>1, <2>2, <2>3
<1> QED
  BY <1>1, <1>3, <1>4

\* The graph holds what was approved, whole, and nothing else.
THEOREM ApprovalsAreWhole == Spec => []AppliedWhole
<1>1. AppliedInv => AppliedWhole
  BY DEF AppliedInv, AppliedWhole, AppliedOf, Used
<1> QED
  BY <1>1, AppliedInit, AppliedNext, PTL DEF Spec

-----------------------------------------------------------------------------
(* Merges.                                                                 *)

LEMMA SwappedEnds ==
  ASSUME NEW e \in EdgeIds, NEW f \in Nodes, NEW i \in Nodes, f # i, f \in Ends(e)
  PROVE  /\ {Swapped(e.source, f, i), Swapped(e.target, f, i)} = (Ends(e) \ {f}) \cup {i}
         /\ Swapped(e.source, f, i) # f /\ Swapped(e.target, f, i) # f
         /\ Loop(e, f, i) => Ends(e) \in {{f, i}, {f}}
  BY DEF Swapped, Ends, Loop

LEMMA MergeKeeps ==
  ASSUME NEW f \in Nodes, NEW i \in Nodes, MergeNodes(f, i),
         NEW e \in EdgeIds, f \in Ends(e), edge[e].state = "live",
         edge \in [EdgeIds -> EdgeRow]
  PROVE  /\ edge'[e].state = "ended"
         /\ \/ Ends(e) = {f, i} \/ Ends(e) = {f}
            \/ \E x \in EdgeIds :
                 /\ Ends(x) = (Ends(e) \ {f}) \cup {i} /\ x.writer = e.writer
                 /\ edge'[x].state = "live"
                 /\ edge[x].state = "live" \/ edge'[x].signal = edge[e].signal
<1> DEFINE gone == {x \in EdgeIds : f \in Ends(x) /\ edge[x].state = "live"}
           moving == {x \in gone : ~Loop(x, f, i) /\ ~AlreadyThere(x, f, i)}
           From(x) == CHOOSE y \in moving : x = Moved(y, f, i)
<1>1. f # i
  BY DEF MergeNodes
<1>2. edge'[e].state = "ended"
  BY DEF MergeNodes, Ended, EdgeRow
<1>3. CASE Loop(e, f, i)
  BY <1>1, <1>2, <1>3, SwappedEnds
<1>4. CASE AlreadyThere(e, f, i)
  <2>1. PICK x \in OnPair(<<Swapped(e.source, f, i), Swapped(e.target, f, i)>>) :
          edge[x].state = "live" /\ x.writer = e.writer
    BY <1>4 DEF AlreadyThere
  <2>2. x \in EdgeIds /\ x.source = Swapped(e.source, f, i) /\ x.target = Swapped(e.target, f, i)
    BY <2>1 DEF OnPair
  <2>3. Ends(x) = (Ends(e) \ {f}) \cup {i} /\ x \notin gone
    BY <1>1, <2>2, SwappedEnds DEF Ends
  <2>4. edge'[x].state = "live"
    BY <2>1, <2>2, <2>3 DEF MergeNodes
  <2> QED
    BY <1>2, <2>1, <2>2, <2>3, <2>4
<1>5. CASE ~Loop(e, f, i) /\ ~AlreadyThere(e, f, i)
  <2> DEFINE x == Moved(e, f, i)
  <2>1. e \in moving /\ x \in EdgeIds /\ edge[x].state = "none"
    BY <1>5 DEF MergeNodes
  <2>2. \A y \in moving : Moved(y, f, i) = x => y = e
    BY <2>1 DEF MergeNodes
  <2>3. From(x) = e
    BY <2>1, <2>2
  <2>4. Ends(x) = (Ends(e) \ {f}) \cup {i} /\ x.writer = e.writer
    BY <1>1, SwappedEnds DEF Moved, Ends
  <2>5. x \notin gone /\ \E y \in moving : x = Moved(y, f, i)
    BY <2>1
  <2>6. edge'[x] = [state |-> "live", by |-> NoItem, signal |-> edge[From(x)].signal]
    <3> HIDE DEF x
    <3> QED
      BY <2>1, <2>5 DEF MergeNodes
  <2>7. edge'[x].state = "live" /\ edge'[x].signal = edge[e].signal
    <3> HIDE DEF x, From
    <3> QED
      BY <2>3, <2>6
  <2> QED
    BY <1>2, <2>1, <2>4, <2>7
<1> QED
  BY <1>3, <1>4, <1>5

\* A node is merged away by a merge.
LEMMA OnlyMergesMerge ==
  ASSUME PrivacyInv, [Next]_vars, NEW f \in Nodes, NEW i \in Nodes,
         node[f].into # i, node'[f].into = i
  PROVE  MergeNodes(f, i)
<1> USE DEF PrivacyInv, RowsOK
<1>1. i # NoNode
  BY ReviewAssumption
<1>2. ASSUME NEW c \in Items, Materialise(c)
      PROVE  FALSE
  BY <1>1, <1>2 DEF Materialise, WithNode, Patched, NodeRow
<1>3. node' # node
  BY <1>1
<1>4. ASSUME NEW c \in Items, Submit(c) \/ SubmitCutShort(c) \/ Withdraw(c) \/ CuratorStep(c)
      PROVE  FALSE
  BY <1>2, <1>3, <1>4
  DEF Submit, SubmitCutShort, Withdraw, CuratorStep, Approve, Reject, RejectCutShort,
      ApproveContext, RejectContext, UpholdContest, DismissContest, SettleCutShort,
      ContestCutShort, graphVars
<1>5. CASE \/ \E s \in Signals : RevokeSignal(s)
           \/ \E n \in Nodes : RetireNode(n)
           \/ \E b \in Batches : RetireBatch(b)
  <2>1. \/ node' = node
        \/ \E n \in Nodes : node' = [node EXCEPT ![n].state = "retired"]
        \/ \E gone : node' = [n \in Nodes |-> IF n \in gone
                                              THEN [node[n] EXCEPT !.state = "retired"]
                                              ELSE node[n]]
    BY <1>5 DEF RevokeSignal, RetireNode, RetireBatch
  <2>2. node'[f].into = node[f].into
    BY <2>1 DEF NodeRow
  <2> QED
    BY <1>1, <2>2
<1>6. ASSUME NEW g \in Nodes, NEW j \in Nodes, MergeNodes(g, j)
      PROVE  g = f /\ j = i
  <2>1. node' = [node EXCEPT ![g].state = "retired", ![g].into = j]
    BY <1>6 DEF MergeNodes
  <2>2. node'[f].into = IF f = g THEN j ELSE node[f].into
    BY <2>1 DEF NodeRow
  <2> QED
    BY <1>1, <2>2
<1> QED
  BY <1>3, <1>4, <1>5, <1>6 DEF Next, OtherStep, vars

\* A merge moves every relation of the node it retires, or leaves it to one
\* that says the same.
THEOREM MergesKeepRelations == Spec => MergeKeepsRelations
<1>1. PrivacyInv /\ [Next]_vars =>
        \A f, i \in Nodes : node[f].into # i /\ node'[f].into = i =>
          \A e \in EdgeIds : f \in Ends(e) /\ edge[e].state = "live" =>
            /\ edge'[e].state = "ended"
            /\ \/ Ends(e) = {f, i} \/ Ends(e) = {f}
               \/ \E x \in EdgeIds :
                    /\ Ends(x) = (Ends(e) \ {f}) \cup {i} /\ x.writer = e.writer
                    /\ edge'[x].state = "live"
                    /\ edge[x].state = "live" \/ edge'[x].signal = edge[e].signal
  BY OnlyMergesMerge, MergeKeeps DEF PrivacyInv, RowsOK
<1> QED
  BY <1>1, PrivacyInvariant, PTL DEF Spec, MergeKeepsRelations

-----------------------------------------------------------------------------
(* What nothing keeps back.                                                *)

\* Notes take the states of their kind, and contributions have none.
NoteFits(c) ==
  /\ Shape[c].kind = "human" => note[c] = "none"
  /\ Shape[c].kind \in {"contest", "objection"} => note[c] \notin {"pending", "live", "rejected"}
  /\ Shape[c].kind \in {"context", "reading"} => note[c] \notin {"open", "upheld", "dismissed"}

\* Unless a crash cut a step short, a note is decided with its review item.
NoteFollows(c) ==
  Shape[c].kind \in {"context", "reading"} =>
    /\ note[c] = "pending" => queue[c] \in {"pending", "rejected"}
    /\ note[c] = "rejected" => queue[c] = "rejected"

\* The reasons that may stand: consent, a review under way, secrecy.
Allowed(c) ==
  Shape[c].consent
  \cup {r \in {"pending"} : Shape[c].kind \in Waits /\ queue[c] = "pending"}
  \cup {r \in {"pending_name"} : Shape[c].kind = "human" /\ queue[c] = "pending"}
  \cup {r \in {"objection"} : Shape[c].kind = "objection"}

\* What was revoked, and what a review rejected, is never public again.
Gone(c) == \/ status[c] = "revoked"
           \/ Shape[c].kind \in Waits /\ queue[c] = "rejected"

Bare(c) == NoteFollows(c) /\ (~Gone(c) => priv[c].reasons \subseteq Allowed(c))

BareInv == /\ PrivacyInv
           /\ \A c \in Items : NoteFits(c)
           /\ \A c \in Items \ cut : status[c] # "none" => Bare(c)

\* A note's state changes as its kind allows.
LEMMA FitsNext ==
  ASSUME BareInv, [Next]_vars, NEW c \in Items
  PROVE  NoteFits(c)'
<1> USE DEF BareInv, PrivacyInv, RowsOK, NoteFits
<1>1. \A d \in Items : \A o : ObjectionsSettled(d, o)[c] # note[c] =>
        Shape[c].kind = "objection" /\ ObjectionsSettled(d, o)[c] \in {"upheld", "dismissed"}
  BY DEF ObjectionsSettled, OpenObjections
<1>2. ASSUME NEW d \in Items, Submit(d) PROVE NoteFits(c)'
  <2>1. Shape[c].kind \in Kinds
    BY ReviewAssumption DEF ShapeType
  <2> QED
    BY <1>2, <2>1 DEF Submit, NewNote, Kinds, NoteKinds
<1>3. ASSUME NEW d \in Items, SubmitCutShort(d) \/ Withdraw(d) PROVE NoteFits(c)'
  BY <1>3 DEF SubmitCutShort, Withdraw
<1>4. ASSUME NEW d \in Items, Approve(d) \/ Reject(d) PROVE NoteFits(c)'
  <2>1. PICK o : note' = ObjectionsSettled(d, o)
    BY <1>4 DEF Approve, Reject
  <2> QED
    BY <1>1, <2>1
<1>5. ASSUME NEW d \in Items, CuratorStep(d), ~Approve(d), ~Reject(d) PROVE NoteFits(c)'
  BY <1>5 DEF CuratorStep, RejectCutShort, ApproveContext, RejectContext, UpholdContest,
      DismissContest, SettleCutShort, ContestCutShort, Settle, Decidable
<1>6. CASE \/ \E s \in Signals : RevokeSignal(s)
           \/ \E n \in Nodes : RetireNode(n)
           \/ \E b \in Batches : RetireBatch(b)
           \/ \E f, i \in Nodes : MergeNodes(f, i)
  BY <1>6 DEF RevokeSignal, RetireNode, RetireBatch, MergeNodes
<1> QED
  BY <1>2, <1>3, <1>4, <1>5, <1>6 DEF Next, OtherStep, vars

\* An item no step of its own is taken on: an objection to it may end.
LEMMA BareAlone ==
  ASSUME BareInv, NEW c \in Items \ cut, status[c] # "none", status'[c] = status[c],
         priv'[c] = priv[c], queue'[c] = queue[c],
         note'[c] \in {note[c], "upheld", "dismissed"}
  PROVE  Bare(c)'
  BY DEF BareInv, Bare, NoteFollows, Gone, Allowed

LEMMA BareBorn ==
  ASSUME BareInv, NEW c \in Items, Submit(c)
  PROVE  Bare(c)'
<1> USE ItemsAreSignals DEF BareInv, PrivacyInv, RowsOK, SignalsKept
<1>1. priv'[c].reasons = BornReasons(c) /\ queue'[c] = NewQueue(c) /\ note'[c] = NewNote(c)
  BY DEF Submit, Born
<1>2. Shape[c].form => Shape[c].kind = "human" /\ ~Shape[c].trusted
  BY ReviewAssumption
<1>3. BornReasons(c) \subseteq Allowed(c)'
  BY <1>1, <1>2 DEF BornReasons, Allowed, NewQueue, Waits
<1>4. NoteFollows(c)'
  BY <1>1 DEF NoteFollows, NewQueue, NewNote, Waits
<1> QED
  BY <1>1, <1>3, <1>4 DEF Bare

LEMMA BareWithdrawn ==
  ASSUME BareInv, NEW c \in Items \ cut, Withdraw(c)
  PROVE  Bare(c)'
<1> USE ItemsAreSignals DEF BareInv, PrivacyInv, RowsOK, SignalsKept
<1>1. status[c] # "none" /\ Bare(c) /\ NoteFits(c)
  BY DEF Withdraw, Unwritten
<1>2. /\ note'[c] = "withdrawn"
      /\ status'[c] = IF status[c] = "revoked" THEN "revoked" ELSE "superseded"
      /\ queue'[c] = IF queue[c] = "pending" THEN "rejected" ELSE queue[c]
      /\ note[c] # "pending" => priv'[c] = priv[c]
      /\ note[c] \in {"open", "pending", "live"}
  BY DEF Withdraw
<1>3. NoteFollows(c)'
  BY <1>2 DEF NoteFollows
<1>4. CASE note[c] = "pending"
  <2>1. Shape[c].kind \in {"context", "reading"}
    <3>1. Shape[c].kind \in Kinds
      BY ReviewAssumption DEF ShapeType
    <3> QED
      BY <1>1, <1>4, <3>1 DEF NoteFits, Kinds, NoteKinds
  <2>2. queue'[c] = "rejected"
    BY <1>1, <1>2, <1>4, <2>1 DEF Bare, NoteFollows
  <2> QED
    BY <1>3, <2>1, <2>2 DEF Bare, Gone, Waits
<1>5. CASE note[c] # "pending"
  <2>1. Gone(c) => Gone(c)'
    BY <1>2 DEF Gone
  <2>2. ~Gone(c)' => Allowed(c) \subseteq Allowed(c)'
    BY <1>2 DEF Gone, Allowed, Waits
  <2> QED
    BY <1>1, <1>2, <1>3, <1>5, <2>1, <2>2 DEF Bare
<1> QED
  BY <1>4, <1>5

LEMMA BareDecided ==
  ASSUME BareInv, NEW c \in Items \ cut', CuratorStep(c)
  PROVE  Bare(c)'
<1> USE ItemsAreSignals DEF BareInv, PrivacyInv, RowsOK, SignalsKept
<1>1. c \notin cut /\ ~RejectCutShort(c) /\ ~SettleCutShort(c) /\ ~ContestCutShort(c)
  BY CutsStay DEF CuratorStep, Approve, Reject, RejectCutShort, ApproveContext,
      RejectContext, UpholdContest, DismissContest, SettleCutShort, ContestCutShort
<1>2. queue[c] = "pending" /\ status[c] # "none"
  BY DEF CuratorStep, Approve, Reject, RejectCutShort, ApproveContext, RejectContext,
         UpholdContest, DismissContest, SettleCutShort, ContestCutShort, Decidable,
         Unwritten
<1>3. Bare(c)
  BY <1>1, <1>2
<1>4. CASE Approve(c) \/ ApproveContext(c)
  <2>1. queue'[c] = "approved" /\ status'[c] = status[c] /\ Shape[c].kind \in Waits
    BY <1>4 DEF Approve, ApproveContext, Settle, Waits
  <2>2. /\ Published(priv[c], "pending").reasons = priv[c].reasons \ {"pending"}
        /\ PublishedOnApproval(priv[c]).reasons = priv[c].reasons \ {"pending", "pending_name"}
    BY PublishedKept DEF PublishedOnApproval
  <2>3. NoteFollows(c)'
    BY <1>4 DEF Approve, ApproveContext, Settle, NoteFollows
  <2>4. CASE Approve(c)
    <3>1. priv'[c].reasons = priv[c].reasons \ {"pending", "pending_name"}
      BY <2>2, <2>4 DEF Approve
    <3> QED
      BY <1>2, <1>3, <2>1, <2>3, <3>1 DEF Bare, Gone, Allowed
  <2>5. CASE ApproveContext(c)
    <3>1. priv'[c].reasons = priv[c].reasons \ {"pending"} /\ Shape[c].kind # "human"
      BY <2>2, <2>5 DEF ApproveContext
    <3> QED
      BY <1>2, <1>3, <2>1, <2>3, <3>1 DEF Bare, Gone, Allowed
  <2> QED
    BY <1>4, <2>4, <2>5
<1>5. CASE Reject(c) \/ RejectContext(c)
  <2>1. queue'[c] = "rejected" /\ Shape[c].kind \in Waits
    BY <1>5 DEF Reject, RejectContext, Settle, Waits
  <2>2. NoteFollows(c)'
    BY <1>5, <2>1 DEF NoteFollows, Reject, RejectContext
  <2> QED
    BY <2>1, <2>2 DEF Bare, Gone
<1>6. CASE UpholdContest(c) \/ DismissContest(c)
  <2>1. Shape[c].kind = "contest" /\ status' = status /\ priv' = priv
    BY <1>6 DEF UpholdContest, DismissContest
  <2>2. Gone(c)' <=> Gone(c)
    BY <2>1 DEF Gone, Waits
  <2>3. Allowed(c)' = Allowed(c)
    BY <2>1 DEF Allowed, Waits
  <2> QED
    BY <1>3, <2>1, <2>2, <2>3 DEF Bare, NoteFollows
<1> QED
  BY <1>1, <1>4, <1>5, <1>6 DEF CuratorStep

\* Signals are only ever revoked by a correction; reviews go on.
LEMMA BareCorrected ==
  ASSUME BareInv, NEW c \in Items \ cut, status[c] # "none",
         \/ \E s \in Signals : RevokeSignal(s)
         \/ \E n \in Nodes : RetireNode(n)
         \/ \E b \in Batches : RetireBatch(b)
         \/ \E f, i \in Nodes : MergeNodes(f, i)
  PROVE  Bare(c)'
<1> USE ItemsAreSignals DEF PrivacyInv, RowsOK, SignalsKept
<1>1. Bare(c) /\ note' = note
  BY DEF BareInv, RevokeSignal, RetireNode, RetireBatch, MergeNodes
<1>2. /\ \/ queue'[c] = queue[c]
         \/ queue[c] = "pending" /\ queue'[c] = "rejected"
      /\ \/ status'[c] = "revoked"
         \/ status'[c] = status[c] /\ priv'[c] = priv[c]
  <2>1. CASE \E s \in Signals : RevokeSignal(s)
    <3> PICK s \in Signals : RevokeSignal(s)
      BY <2>1
    <3>1. /\ status' = [status EXCEPT ![s] = "revoked"]
          /\ priv' = Revoked({s}) /\ queue' = queue
      BY DEF RevokeSignal
    <3>2. c # s => priv'[c] = priv[c]
      BY <3>1 DEF Revoked
    <3> QED
      BY <3>1, <3>2 DEF BareInv
  <2>2. CASE \E b \in Batches : RetireBatch(b)
    <3> PICK b \in Batches : RetireBatch(b)
      BY <2>2
    <3> DEFINE active == {x \in InBatch(b) : status[x] = "active"}
    <3>1. c # b
      BY ReviewAssumption
    <3>2. PICK why : priv' = [Revoked(active) EXCEPT ![b] = AdminRecord(why)]
      BY DEF RetireBatch
    <3>3. c \notin active => priv'[c] = priv[c]
      BY <3>1, <3>2 DEF Revoked
    <3>4. /\ status'[c] = IF c \in active THEN "revoked" ELSE status[c]
          /\ queue'[c] = IF c \in InBatch(b) /\ queue[c] = "pending" THEN "rejected" ELSE queue[c]
      BY <3>1 DEF RetireBatch
    <3> QED
      BY <3>3, <3>4 DEF BareInv
  <2>3. CASE (\E n \in Nodes : RetireNode(n)) \/ \E f, i \in Nodes : MergeNodes(f, i)
    BY <2>3 DEF RetireNode, MergeNodes
  <2> QED
    BY <2>1, <2>2, <2>3
<1>3. NoteFollows(c)'
  BY <1>1, <1>2 DEF Bare, NoteFollows
<1>4. ~Gone(c)' => ~Gone(c) /\ priv'[c] = priv[c]
  BY <1>2 DEF Gone
<1>5. ~Gone(c)' => Allowed(c)' = Allowed(c)
  BY <1>2 DEF Gone, Allowed, Waits
<1> QED
  BY <1>1, <1>3, <1>4, <1>5 DEF Bare

LEMMA BareNext == BareInv /\ [Next]_vars => BareInv'
<1> SUFFICES ASSUME BareInv, [Next]_vars
             PROVE  BareInv'
  OBVIOUS
<1>1. PrivacyInv' /\ \A c \in Items : NoteFits(c)'
  BY PrivacyNext, FitsNext DEF BareInv
<1>2. ASSUME NEW c \in Items \ cut', status'[c] # "none"
      PROVE  Bare(c)'
  <2> USE ItemsAreSignals DEF PrivacyInv, RowsOK, SignalsKept
  <2>1. c \notin cut
    BY <1>2, CutsStay
  <2>2. ASSUME NEW d \in Items, Submit(d) PROVE Bare(c)'
    <3>1. \/ d = c
          \/ /\ status'[c] = status[c] /\ priv'[c] = priv[c]
             /\ queue'[c] = queue[c] /\ note'[c] = note[c]
      BY <2>2 DEF BareInv, Submit
    <3> QED
      BY <1>2, <2>1, <2>2, <3>1, BareBorn, BareAlone
  <2>3. ASSUME NEW d \in Items, SubmitCutShort(d) PROVE Bare(c)'
    <3>1. d # c
      BY <1>2, <2>3 DEF BareInv, SubmitCutShort
    <3>2. status'[c] = status[c] /\ priv'[c] = priv[c] /\ queue'[c] = queue[c]
            /\ note'[c] = note[c]
      BY <2>3, <3>1 DEF BareInv, SubmitCutShort
    <3> QED
      BY <1>2, <2>1, <3>2, BareAlone
  <2>4. ASSUME NEW d \in Items, Withdraw(d) PROVE Bare(c)'
    <3>1. \/ d = c
          \/ /\ status'[c] = status[c] /\ priv'[c] = priv[c]
             /\ queue'[c] = queue[c] /\ note'[c] = note[c]
      BY <2>4 DEF BareInv, Withdraw
    <3> QED
      BY <1>2, <2>1, <2>4, <3>1, BareWithdrawn, BareAlone
  <2>5. ASSUME NEW d \in Items, CuratorStep(d) PROVE Bare(c)'
    <3>1. CASE d = c
      BY <1>2, <2>5, <3>1, BareDecided
    <3>2. CASE d # c
      <4>1. \A o : ObjectionsSettled(d, o)[c] \in {note[c], "upheld", "dismissed"}
        BY DEF ObjectionsSettled
      <4>2. status'[c] = status[c] /\ priv'[c] = priv[c] /\ queue'[c] = queue[c]
        BY <2>5, <3>2
        DEF BareInv, CuratorStep, Approve, Reject, RejectCutShort, ApproveContext,
            RejectContext, UpholdContest, DismissContest, SettleCutShort,
            ContestCutShort, Settle
      <4>3. note'[c] \in {note[c], "upheld", "dismissed"}
        BY <2>5, <3>2, <4>1
        DEF BareInv, CuratorStep, Approve, Reject, RejectCutShort, ApproveContext,
            RejectContext, UpholdContest, DismissContest, SettleCutShort,
            ContestCutShort, Settle
      <4> QED
        BY <1>2, <2>1, <4>2, <4>3, BareAlone
    <3> QED
      BY <3>1, <3>2
  <2>6. CASE UNCHANGED vars
    BY <1>2, <2>1, <2>6, BareAlone DEF vars
  <2>7. CASE \/ \E s \in Signals : RevokeSignal(s)
             \/ \E n \in Nodes : RetireNode(n)
             \/ \E b \in Batches : RetireBatch(b)
             \/ \E f, i \in Nodes : MergeNodes(f, i)
    <3>1. status[c] # "none"
      <4>1. \A b \in Batches : c # b
        BY ReviewAssumption
      <4> QED
        BY <1>2, <2>7, <4>1
        DEF BareInv, RevokeSignal, RetireNode, RetireBatch, MergeNodes, InBatch
    <3> QED
      BY <2>1, <2>7, <3>1, BareCorrected
  <2> QED
    BY <2>2, <2>3, <2>4, <2>5, <2>6, <2>7 DEF Next, OtherStep
<1> QED
  BY <1>1, <1>2 DEF BareInv

\* What nothing keeps back is there to read, outside what a crash cut short.
THEOREM PublishedStaysPublic == Spec => []PublishedIsPublic
<1>1. Init => BareInv
  BY PrivacyInit, ItemsAreSignals DEF Init, BareInv, NoteFits
<1>2. BareInv => PublishedIsPublic
  <2> SUFFICES ASSUME BareInv, NEW c \in (Items \cap Written) \ cut, ~WordsDue(c)
               PROVE  /\ priv[c].crr["words"] = "orig"
                      /\ "anonymous" \notin Shape[c].consent =>
                           \A k \in Cols : priv[c].crr[k] = "orig"
    BY DEF PublishedIsPublic
  <2>1. Bare(c) /\ Kept(priv[c])
    BY DEF BareInv, PrivacyInv, SignalsKept, Written
  <2>2. Shape[c].consent \subseteq {"structural_only", "anonymous"}
    BY ReviewAssumption DEF ShapeType
  <2>3. ~Gone(c) /\ Allowed(c) = Shape[c].consent
    BY DEF WordsDue, Gone, Allowed, Waits
  <2>4. priv[c].reasons \subseteq {"anonymous"}
    BY <2>1, <2>2, <2>3 DEF Bare, WordsDue
  <2>5. "words" \notin Covered(priv[c].reasons)
    BY <2>4, CoveredWhen DEF ColsFor, WhoCols, WordReasons
  <2>6. "anonymous" \notin Shape[c].consent => Covered(priv[c].reasons) = {}
    <3>1. ASSUME "anonymous" \notin Shape[c].consent PROVE priv[c].reasons = {}
      BY <2>1, <2>3, <2>4, <3>1 DEF Bare
    <3> QED
      BY <3>1 DEF Covered
  <2> QED
    BY <2>1, <2>5, <2>6 DEF Kept, Sound, Cols
<1> QED
  BY <1>1, <1>2, BareNext, PTL DEF Spec

-----------------------------------------------------------------------------
(* Objections.                                                             *)

\* An objection that can still be there while its item is decided.
LeftOpen(c) ==
  \/ c \in cut
  \/ queue[c] = "rejected" /\ Shape[c].batch # NoBatch /\ status[Shape[c].batch] # "none"

Follows(o, c) ==
  /\ note[o] = "open" => queue[c] = "pending" \/ LeftOpen(c)
  /\ note[o] = "upheld" => queue[c] = "rejected"
  /\ note[o] = "dismissed" => queue[c] = "approved"

Objects(o, c) ==
  /\ Shape[o].kind = "objection" /\ Shape[o].about = c
  /\ Shape[c].kind = "human"

FollowInv == BareInv /\ \A o, c \in Items : Objects(o, c) => Follows(o, c)

\* A decided item, or one that may leave an objection open, remains so.
LEMMA LeftOpenStays ==
  ASSUME BareInv, [Next]_vars, NEW c \in Items, LeftOpen(c)
  PROVE  LeftOpen(c)'
<1>1. c \in cut => c \in cut'
  BY CutsStay
<1>2. queue[c] = "rejected" => queue'[c] = "rejected"
  BY StepMoves DEF BareInv, Moves, Entered, Goes, Passes, PrivacyInv, Unwritten
<1>3. ASSUME Shape[c].batch # NoBatch, status[Shape[c].batch] # "none"
      PROVE  status'[Shape[c].batch] # "none"
  <2>1. Shape[c].batch \in Signals
    BY <1>3, ReviewAssumption DEF ShapeType, Signals
  <2>2. Treated(Shape[c].batch)
    BY <2>1, StepTreats DEF BareInv
  <2> QED
    BY <1>3, <2>2 DEF Treated
<1> QED
  BY <1>1, <1>2, <1>3 DEF LeftOpen

\* An objection whose own note and item a step leaves as they are.
LEMMA FollowsAlone ==
  ASSUME BareInv, [Next]_vars, NEW o \in Items, NEW c \in Items, Follows(o, c),
         note'[o] \in {note[o], "withdrawn"},
         queue'[c] = queue[c] \/ LeftOpen(c)'
  PROVE  Follows(o, c)'
<1>1. queue[c] \in {"approved", "rejected"} => queue'[c] = queue[c]
  BY StepMoves DEF BareInv, Moves, Entered, Goes, Passes, PrivacyInv, Unwritten
<1> QED
  BY <1>1, LeftOpenStays DEF Follows

LEMMA FollowsNext ==
  ASSUME FollowInv, [Next]_vars, NEW o \in Items, NEW c \in Items, Objects(o, c)
  PROVE  Follows(o, c)'
<1> USE DEF PrivacyInv, RowsOK
<1>1. /\ BareInv /\ Follows(o, c) /\ o # c
      /\ Shape[o].kind = "objection" /\ Shape[c].kind = "human"
      /\ note[c] = "none"
  BY DEF FollowInv, Objects, BareInv, NoteFits
<1>2. ASSUME NEW d \in Items, Submit(d) PROVE Follows(o, c)'
  <2>1. CASE d = o
    <3>1. queue[c] = "pending" /\ note'[o] = "open" /\ queue'[c] = queue[c]
      BY <1>1, <1>2, <2>1 DEF BareInv, Submit, Acceptable, NewNote, Objects
    <3> QED
      BY <3>1 DEF Follows
  <2>2. CASE d = c
    <3>1. queue[c] = "none" /\ note'[o] = note[o]
      BY <1>1, <1>2, <2>2 DEF BareInv, Submit, New, Unwritten
    <3>2. note[o] \notin {"upheld", "dismissed"} /\ (note[o] = "open" => c \in cut)
      BY <1>1, <3>1 DEF Follows, LeftOpen
    <3>3. c \in cut => c \in cut'
      BY CutsStay
    <3> QED
      BY <3>1, <3>2, <3>3 DEF Follows, LeftOpen
  <2>3. CASE d # o /\ d # c
    <3>1. note'[o] = note[o] /\ queue'[c] = queue[c]
      BY <1>1, <1>2, <2>3 DEF BareInv, Submit
    <3> QED
      BY <1>1, <3>1, FollowsAlone
  <2> QED
    BY <2>1, <2>2, <2>3
<1>3. ASSUME NEW d \in Items, SubmitCutShort(d) PROVE Follows(o, c)'
  <2>1. note' = note /\ queue' = queue
    BY <1>3 DEF SubmitCutShort
  <2> QED
    BY <1>1, <2>1, FollowsAlone
<1>4. ASSUME NEW d \in Items, Withdraw(d) PROVE Follows(o, c)'
  <2>1. d # c
    BY <1>1, <1>4 DEF Withdraw
  <2>2. note'[o] \in {note[o], "withdrawn"} /\ queue'[c] = queue[c]
    BY <1>1, <1>4, <2>1 DEF BareInv, Withdraw
  <2> QED
    BY <1>1, <2>2, FollowsAlone
<1>5. ASSUME NEW d \in Items, Approve(d) \/ Reject(d), d # c PROVE Follows(o, c)'
  <2>1. PICK outcome : note' = ObjectionsSettled(d, outcome)
    BY <1>5 DEF Approve, Reject
  <2>2. note'[o] = note[o] /\ queue'[c] = queue[c]
    BY <1>1, <1>5, <2>1
    DEF BareInv, Approve, Reject, ObjectionsSettled, OpenObjections, Objects
  <2> QED
    BY <1>1, <2>2, FollowsAlone
<1>6. CASE Approve(c)
  <2>1. queue[c] = "pending" /\ queue'[c] = "approved"
    BY <1>1, <1>6 DEF BareInv, Approve
  <2>2. note'[o] = IF note[o] = "open" THEN "dismissed" ELSE note[o]
    BY <1>1, <1>6 DEF Approve, ObjectionsSettled, OpenObjections, Objects
  <2> QED
    BY <1>1, <2>1, <2>2 DEF Follows
<1>7. CASE Reject(c)
  <2>1. queue[c] = "pending" /\ queue'[c] = "rejected"
    BY <1>1, <1>7 DEF BareInv, Reject
  <2>2. note'[o] = IF note[o] = "open" THEN "upheld" ELSE note[o]
    BY <1>1, <1>7 DEF Reject, ObjectionsSettled, OpenObjections, Objects
  <2> QED
    BY <1>1, <2>1, <2>2 DEF Follows
<1>8. ASSUME NEW d \in Items, RejectCutShort(d) PROVE Follows(o, c)'
  <2>1. note' = note /\ (queue'[c] = queue[c] \/ c \in cut')
    BY <1>1, <1>8 DEF BareInv, RejectCutShort
  <2> QED
    BY <1>1, <2>1, FollowsAlone DEF LeftOpen
<1>9. ASSUME NEW d \in Items,
             \/ ApproveContext(d) \/ RejectContext(d)
             \/ UpholdContest(d) \/ DismissContest(d)
             \/ SettleCutShort(d) \/ ContestCutShort(d)
      PROVE  Follows(o, c)'
  <2>1. d # o /\ d # c
    BY <1>1, <1>9 DEF ApproveContext, RejectContext, UpholdContest, DismissContest,
        SettleCutShort, ContestCutShort
  <2>2. note'[o] = note[o] /\ queue'[c] = queue[c]
    BY <1>1, <1>9, <2>1
    DEF BareInv, ApproveContext, RejectContext, UpholdContest, DismissContest,
        SettleCutShort, ContestCutShort, Settle
  <2> QED
    BY <1>1, <2>2, FollowsAlone
<1>10. ASSUME NEW b \in Batches, RetireBatch(b) PROVE Follows(o, c)'
  <2>1. /\ note' = note
        /\ queue'[c] = IF c \in InBatch(b) /\ queue[c] = "pending" THEN "rejected" ELSE queue[c]
        /\ status'[b] = "active"
    BY <1>10, ItemsAreSignals DEF RetireBatch
  <2>2. queue'[c] = queue[c] \/ LeftOpen(c)'
    BY <2>1, ReviewAssumption DEF InBatch, LeftOpen
  <2> QED
    BY <1>1, <2>1, <2>2, FollowsAlone
<1>11. CASE \/ \E s \in Signals : RevokeSignal(s)
            \/ \E n \in Nodes : RetireNode(n)
            \/ \E f, i \in Nodes : MergeNodes(f, i)
            \/ UNCHANGED vars
  <2>1. note' = note /\ queue' = queue
    BY <1>11 DEF RevokeSignal, RetireNode, MergeNodes, vars
  <2> QED
    BY <1>1, <2>1, FollowsAlone
<1> QED
  BY <1>2, <1>3, <1>4, <1>5, <1>6, <1>7, <1>8, <1>9, <1>10, <1>11
  DEF Next, OtherStep, CuratorStep

\* An objection ends as the contribution it is about, the other way round.
THEOREM ObjectionsAreSettled == Spec => []ObjectionsFollow
<1>1. Init => FollowInv
  <2>1. Init => BareInv
    BY PrivacyInit, ItemsAreSignals DEF Init, BareInv, NoteFits
  <2>2. Init => \A o, c \in Items : Follows(o, c)
    BY DEF Init, Follows
  <2> QED
    BY <2>1, <2>2 DEF FollowInv
<1>2. FollowInv /\ [Next]_vars => FollowInv'
  <2> SUFFICES ASSUME FollowInv, [Next]_vars PROVE FollowInv'
    OBVIOUS
  <2>1. BareInv'
    BY BareNext DEF FollowInv
  <2>2. \A o, c \in Items : Objects(o, c)' => Follows(o, c)'
    BY FollowsNext DEF Objects
  <2> QED
    BY <2>1, <2>2 DEF FollowInv
<1>3. FollowInv => ObjectionsFollow
  <2> SUFFICES ASSUME FollowInv, NEW o \in Items, Shape[o].kind = "objection",
                      Shape[Shape[o].about].kind = "human"
               PROVE  Follows(o, Shape[o].about)
    BY DEF ObjectionsFollow, Follows, LeftOpen
  <2>1. Shape[o].about \in Items
    BY ReviewAssumption
  <2> QED
    BY <2>1 DEF FollowInv, Objects
<1> QED
  BY <1>1, <1>2, <1>3, PTL DEF Spec
=============================================================================
