---------------------------- MODULE ReviewProofs ----------------------------
(***************************************************************************)
(* Types, and the promise of PublicRecord: whatever contributors, curators *)
(* and admins do, and wherever a crash cuts them short, the public row of  *)
(* a signal shows a column exactly while no reason to withhold it stands.  *)
(***************************************************************************)
EXTENDS Review, TLAPS

-----------------------------------------------------------------------------
(* One signal, for any reasons to withhold it in any order.                *)


Projecting == {"before_images", "private_batch"}

\* What is withheld is kept and not shown, what is not is shown and not kept.
Sound(p) ==
  \A k \in Cols : IF k \in Covered(p.reasons)
                  THEN p.crr[k] # "orig" /\ p.kept[k] = "orig"
                  ELSE p.crr[k] = "orig" /\ p.kept[k] = "null"

\* How a cell looks that is not the original.
Faced(p) ==
  \A k \in Cols : /\ p.crr[k] = "anonymous" => k = "name"
                  /\ p.crr[k] = "view" => k = "content" /\ p.reasons \cap Projecting # {}

\* A reason that withholds the words, or who wrote them, has blanked them.
Blanked(p) ==
  /\ p.reasons \cap WordReasons # {} => \A k \in WordCols : p.crr[k] = "null"
  /\ "anonymous" \in p.reasons => p.crr["name"] = "anonymous" /\ p.crr["batch"] = "null"

Kept(p) == p \in Signal /\ Sound(p) /\ Faced(p) /\ Blanked(p)

-----------------------------------------------------------------------------
\* The columns a set of reasons covers.
LEMMA CoveredWhen == ASSUME NEW R, NEW k PROVE k \in Covered(R) <=> \E r \in R : k \in ColsFor(r)
  BY DEF Covered

\* Word reasons withhold the words.
LEMMA WordColsFor == ASSUME NEW r \in WordReasons PROVE ColsFor(r) = WordCols
  BY DEF ColsFor, WordReasons, WordCols, Cols

\* A signal with nothing to hide is as it should be.
LEMMA PlainKept == Kept(Plain)
  BY DEF Kept, Plain, Signal, Sound, Faced, Blanked, Covered, Cols, Values, WordCols

\* So is one born with any reasons but those of admin records.
LEMMA BornKept ==
  ASSUME NEW R \in SUBSET Reasons, R \cap Projecting = {}
  PROVE  Kept(Born(R))
<1> DEFINE b == Born(R)
<1>1. b.reasons = R /\ b \in Signal
  BY DEF Born, Signal, Values
<1>2. \A k \in Cols :
        /\ b.crr[k] = IF k \notin Covered(R) THEN "orig"
                      ELSE IF k = "name" /\ "anonymous" \in R THEN "anonymous" ELSE "null"
        /\ b.kept[k] = IF k \in Covered(R) THEN "orig" ELSE "null"
  BY DEF Born
<1>3. Sound(b)
  BY <1>1, <1>2 DEF Sound
<1>4. Faced(b)
  BY <1>1, <1>2 DEF Faced
<1>5. R \cap WordReasons # {} => \A k \in WordCols : b.crr[k] = "null"
  BY <1>2, WordColsFor, CoveredWhen DEF WordCols, Cols
<1>6. "anonymous" \in R => b.crr["name"] = "anonymous" /\ b.crr["batch"] = "null"
  <2> SUFFICES ASSUME "anonymous" \in R
               PROVE  b.crr["name"] = "anonymous" /\ b.crr["batch"] = "null"
    OBVIOUS
  <2>1. "name" \in ColsFor("anonymous") /\ "batch" \in ColsFor("anonymous")
    BY DEF ColsFor, WhoCols, WordReasons, Cols
  <2>2. "name" \in Covered(R) /\ "batch" \in Covered(R)
    BY <2>1, CoveredWhen
  <2> QED
    BY <1>2, <2>2 DEF Cols
<1> QED
  BY <1>1, <1>3, <1>4, <1>5, <1>6 DEF Kept, Blanked

\* And the record of a correction.
LEMMA AdminRecordKept ==
  ASSUME NEW R \in SUBSET Projecting
  PROVE  Kept(AdminRecord(R)) /\ AdminRecord(R).reasons = R
<1> DEFINE b == AdminRecord(R)
<1>1. b.reasons = R /\ b \in Signal
  BY DEF AdminRecord, Plain, Signal, Values, Projecting, Reasons, Cols
<1>2. \A k \in Cols :
        /\ b.crr[k] = IF k = "content" /\ R # {} THEN "view" ELSE "orig"
        /\ b.kept[k] = IF k = "content" /\ R # {} THEN "orig" ELSE "null"
  BY DEF AdminRecord, Plain, Cols
<1>3. \A k \in Cols : k \in Covered(R) <=> k = "content" /\ R # {}
  <2>1. \A r \in R : ColsFor(r) = {"content"}
    BY DEF ColsFor, Projecting, WordReasons, Cols
  <2> QED
    BY <2>1, CoveredWhen
<1>4. Sound(b) /\ Faced(b)
  BY <1>1, <1>2, <1>3 DEF Sound, Faced
<1>5. Blanked(b)
  BY <1>1 DEF Blanked, Projecting, WordReasons
<1> QED
  BY <1>1, <1>4, <1>5 DEF Kept

-----------------------------------------------------------------------------
\* Withholding the words keeps a signal as it should be: what is kept is the
\* original, never a blank, and stays the one kept.
LEMMA WithheldKept ==
  ASSUME NEW p, Kept(p), NEW r \in WordReasons
  PROVE  Kept(Withheld(p, r)) /\ Withheld(p, r).reasons = p.reasons \cup {r}
<1> DEFINE q == Withheld(p, r)
<1> USE DEF Kept
<1>1. q.reasons = p.reasons \cup {r} /\ r \in Reasons
  BY DEF Withheld, Reasons
<1>2. \A k \in Cols :
        /\ q.crr[k] = IF k \in WordCols THEN "null" ELSE p.crr[k]
        /\ q.kept[k] = IF k \in ToBlank(p, r) /\ p.kept[k] = "null"
                       THEN p.crr[k] ELSE p.kept[k]
  BY WordColsFor DEF Withheld, BlankOf, WordCols
<1>3. \A k \in Cols : k \in ToBlank(p, r) <=> k \in WordCols /\ p.crr[k] # "null"
  BY WordColsFor DEF ToBlank, BlankOf, WordCols
<1>4. \A k \in Cols : k \in Covered(q.reasons) <=> k \in Covered(p.reasons) \/ k \in WordCols
  BY <1>1, CoveredWhen, WordColsFor
<1>5. \A k \in Cols : p.crr[k] \in Values /\ p.kept[k] \in Values
  BY DEF Signal
<1>6. q \in Signal
  <2>1. q.crr \in [Cols -> Values] /\ q.kept \in [Cols -> Values]
    BY <1>2, <1>5 DEF Withheld, Values
  <2>2. q.reasons \subseteq Reasons
    BY <1>1 DEF Signal
  <2> QED
    BY <2>1, <2>2 DEF Withheld, Signal
<1>7. Sound(q)
  <2> SUFFICES ASSUME NEW k \in Cols
               PROVE  IF k \in Covered(q.reasons)
                      THEN q.crr[k] # "orig" /\ q.kept[k] = "orig"
                      ELSE q.crr[k] = "orig" /\ q.kept[k] = "null"
    BY DEF Sound
  <2>1. IF k \in Covered(p.reasons) THEN p.crr[k] # "orig" /\ p.kept[k] = "orig"
        ELSE p.crr[k] = "orig" /\ p.kept[k] = "null"
    BY DEF Sound
  <2> QED
    BY <1>2, <1>3, <1>4, <2>1
<1>8. Faced(q)
  BY <1>1, <1>2 DEF Faced
<1>9. Blanked(q)
  <2>1. \A k \in WordCols : q.crr[k] = "null"
    BY <1>2 DEF WordCols, Cols
  <2>2. "anonymous" \in q.reasons => q.crr["name"] = "anonymous" /\ q.crr["batch"] = "null"
    BY <1>1, <1>2 DEF Blanked, WordCols, WordReasons, Cols
  <2> QED
    BY <2>1, <2>2 DEF Blanked
<1> QED
  BY <1>1, <1>6, <1>7, <1>8, <1>9

\* Lifting a reason of a review gives back what no other reason holds, and
\* leaves the rest as it is.
LEMMA PublishedKept ==
  ASSUME NEW p, Kept(p), NEW r \in {"pending", "pending_name"}
  PROVE  Kept(Published(p, r)) /\ Published(p, r).reasons = p.reasons \ {r}
<1> DEFINE q == Published(p, r)
           still == Covered(p.reasons \ {r})
<1> USE DEF Kept
<1>1. CASE r \notin p.reasons
  <2>1. q = p
    BY <1>1 DEF Published
  <2>2. p.reasons \ {r} = p.reasons
    BY <1>1
  <2> QED
    BY <2>1, <2>2
<1>2. CASE r \in p.reasons
  <2>1. q.reasons = p.reasons \ {r}
    BY <1>2 DEF Published
  <2>2. \A k \in Cols :
          /\ q.crr[k] = IF k \notin still /\ p.kept[k] # "null" THEN p.kept[k] ELSE p.crr[k]
          /\ q.kept[k] = IF k \notin still /\ p.kept[k] # "null" THEN "null" ELSE p.kept[k]
    BY <1>2 DEF Published
  <2>3. \A k \in Cols : k \in still => k \in Covered(p.reasons)
    BY CoveredWhen
  <2>4. \A k \in Cols : p.crr[k] \in Values /\ p.kept[k] \in Values
    BY DEF Signal
  <2>5. q \in Signal
    <3>1. q.crr \in [Cols -> Values] /\ q.kept \in [Cols -> Values]
      BY <1>2, <2>2, <2>4 DEF Published, Values
    <3>2. q.reasons \subseteq Reasons
      BY <2>1 DEF Signal
    <3> QED
      BY <1>2, <3>1, <3>2 DEF Published, Signal
  <2>6. Sound(q)
    BY <2>1, <2>2, <2>3 DEF Sound
  <2>7. \A k \in Cols : q.crr[k] = p.crr[k] \/ q.crr[k] = "orig"
    BY <2>2, <2>3 DEF Sound
  <2>8. Faced(q)
    <3>1. p.reasons \cap Projecting = q.reasons \cap Projecting
      BY <2>1 DEF Projecting
    <3> QED
      BY <2>7, <3>1 DEF Faced
  <2>9. Blanked(q)
    <3>1. \A k \in Cols : k \in still => q.crr[k] = p.crr[k]
      BY <2>2
    <3>2. q.reasons \cap WordReasons # {} => \A k \in WordCols : q.crr[k] = "null"
      <4> SUFFICES ASSUME NEW w \in WordReasons, w \in q.reasons, NEW k \in WordCols
                   PROVE  q.crr[k] = "null"
        OBVIOUS
      <4>1. k \in still /\ k \in Cols
        BY <2>1, CoveredWhen, WordColsFor DEF WordCols, Cols
      <4>2. p.crr[k] = "null"
        BY <2>1 DEF Blanked
      <4> QED
        BY <3>1, <4>1, <4>2
    <3>3. "anonymous" \in q.reasons => q.crr["name"] = "anonymous" /\ q.crr["batch"] = "null"
      <4> SUFFICES ASSUME "anonymous" \in q.reasons
                   PROVE  q.crr["name"] = "anonymous" /\ q.crr["batch"] = "null"
        OBVIOUS
      <4>1. {"name", "batch"} \subseteq ColsFor("anonymous")
        BY DEF ColsFor, WhoCols, WordReasons, Cols
      <4>2. "name" \in still /\ "batch" \in still
        BY <2>1, <4>1, CoveredWhen
      <4> QED
        BY <2>1, <3>1, <4>2 DEF Blanked, Cols
    <3> QED
      BY <3>2, <3>3 DEF Blanked
  <2> QED
    BY <2>1, <2>5, <2>6, <2>8, <2>9
<1> QED
  BY <1>1, <1>2

\* Withholding the words of such a signal meets no other original.
LEMMA NoConflict ==
  ASSUME NEW p, Kept(p), NEW r \in WordReasons
  PROVE  ~Conflict(p, r)
<1> SUFFICES ASSUME NEW k \in ToBlank(p, r), p.kept[k] \notin {"null", p.crr[k]}
             PROVE  IsProjection(p, k)
  BY DEF Conflict
<1>1. k \in Cols /\ k \in WordCols
  BY WordColsFor DEF ToBlank, WordCols, Cols
<1>2. p.crr[k] \notin {"orig", "null"}
  BY <1>1 DEF Kept, Sound, ToBlank
<1>3. p.crr[k] \in Values
  BY <1>1 DEF Kept, Signal
<1>4. p.crr[k] = "view"
  BY <1>1, <1>2, <1>3 DEF Kept, Faced, Values, WordCols
<1> QED
  BY <1>1, <1>4 DEF Kept, Faced, IsProjection, Projecting

-----------------------------------------------------------------------------
(* The other rows.                                                         *)

\* The rows of the tables but signal_private.
RowsOK ==
  /\ queue \in [Items -> QueueStates]
  /\ note \in [Items -> NoteStates]
  /\ status \in [Signals -> SignalStates]
  /\ node \in [Nodes -> NodeRow]
  /\ edge \in [EdgeIds -> EdgeRow]
  /\ older \in [Batches -> SUBSET Nodes]
  /\ cut \subseteq Items

\* A contribution not made yet has no rows.
Unwritten ==
  /\ \A c \in Items : status[c] = "none" => queue[c] = "none" /\ note[c] = "none"
  /\ \A s \in Signals : status[s] = "none" => priv[s] = Plain

\* Each signal keeps what its public row does not show, and only that.
SignalsKept == priv \in [Signals -> Signal] /\ \A s \in Signals : Kept(priv[s])

PrivacyInv == RowsOK /\ Unwritten /\ SignalsKept

-----------------------------------------------------------------------------
(* The order of what happened to a signal.                                 *)

\* No signal is both anonymous and with its name held back for review.
Nameable(R) == ~({"anonymous", "pending_name"} \subseteq R)

\* Two signals of the same columns are the same.
LEMMA SameSignal ==
  ASSUME NEW R, NEW S, NEW q, q.reasons = R,
         q = [crr |-> [k \in Cols |-> q.crr[k]], kept |-> [k \in Cols |-> q.kept[k]],
              reasons |-> q.reasons],
         \A k \in Cols : q.crr[k] = Born(R).crr[k] /\ q.kept[k] = Born(R).kept[k]
  PROVE  q = Born(R)
  BY DEF Born

\* Withholding the words of a signal leaves what a signal born with that reason
\* too would be: nothing tells whether the reason was there first or last.
THEOREM WithheldAsIfBorn ==
  ASSUME NEW R \in SUBSET Reasons, NEW r \in WordReasons
  PROVE  Withheld(Born(R), r) = Born(R \cup {r})
<1> DEFINE p == Born(R)
           q == Withheld(p, r)
           b == Born(R \cup {r})
<1>1. \A k \in Cols :
        /\ p.crr[k] = IF k \notin Covered(R) THEN "orig"
                      ELSE IF k = "name" /\ "anonymous" \in R THEN "anonymous" ELSE "null"
        /\ p.kept[k] = IF k \in Covered(R) THEN "orig" ELSE "null"
  BY DEF Born
<1>2. \A k \in Cols :
        /\ b.crr[k] = IF k \notin Covered(R \cup {r}) THEN "orig"
                      ELSE IF k = "name" /\ "anonymous" \in R THEN "anonymous" ELSE "null"
        /\ b.kept[k] = IF k \in Covered(R \cup {r}) THEN "orig" ELSE "null"
  BY DEF Born, WordReasons
<1>3. \A k \in Cols : k \in Covered(R \cup {r}) <=> k \in Covered(R) \/ k \in WordCols
  BY CoveredWhen, WordColsFor
<1>4. "name" \notin WordCols
  BY DEF WordCols
<1>5. \A k \in Cols :
        /\ q.crr[k] = IF k \in WordCols THEN "null" ELSE p.crr[k]
        /\ q.kept[k] = IF k \in ToBlank(p, r) /\ p.kept[k] = "null"
                       THEN p.crr[k] ELSE p.kept[k]
  BY WordColsFor DEF Withheld, BlankOf, WordCols
<1>6. \A k \in Cols : k \in ToBlank(p, r) <=> k \in WordCols /\ p.crr[k] # "null"
  BY WordColsFor DEF ToBlank, BlankOf, WordCols
<1>7. \A k \in Cols : q.crr[k] = b.crr[k] /\ q.kept[k] = b.kept[k]
  BY <1>1, <1>2, <1>3, <1>4, <1>5, <1>6
<1>8. /\ q.reasons = R \cup {r}
      /\ q = [crr |-> [k \in Cols |-> q.crr[k]], kept |-> [k \in Cols |-> q.kept[k]],
              reasons |-> q.reasons]
  BY DEF Withheld, Born
<1> QED
  BY <1>7, <1>8, SameSignal

\* Lifting a reason of a review leaves what a signal born without it would be:
\* a published signal keeps no trace of having been held back.
THEOREM PublishedAsIfBorn ==
  ASSUME NEW R \in SUBSET Reasons, Nameable(R), NEW r \in {"pending", "pending_name"}
  PROVE  Published(Born(R), r) = Born(R \ {r})
<1> DEFINE p == Born(R)
           q == Published(p, r)
           b == Born(R \ {r})
<1>0. p.reasons = R
  BY DEF Born
<1>1. CASE r \notin R
  <2>1. q = p /\ R \ {r} = R
    BY <1>0, <1>1 DEF Published
  <2> QED
    BY <2>1
<1>2. CASE r \in R
  <2>1. \A k \in Cols :
          /\ p.crr[k] = IF k \notin Covered(R) THEN "orig"
                        ELSE IF k = "name" /\ "anonymous" \in R THEN "anonymous" ELSE "null"
          /\ p.kept[k] = IF k \in Covered(R) THEN "orig" ELSE "null"
    BY DEF Born
  <2>2. \A k \in Cols :
          /\ b.crr[k] = IF k \notin Covered(R \ {r}) THEN "orig"
                        ELSE IF k = "name" /\ "anonymous" \in R THEN "anonymous" ELSE "null"
          /\ b.kept[k] = IF k \in Covered(R \ {r}) THEN "orig" ELSE "null"
    BY DEF Born
  <2>3. \A k \in Cols : k \in Covered(R \ {r}) => k \in Covered(R)
    BY CoveredWhen
  <2>4. \A k \in Cols :
          /\ q.crr[k] = IF k \notin Covered(R \ {r}) /\ p.kept[k] # "null"
                        THEN p.kept[k] ELSE p.crr[k]
          /\ q.kept[k] = IF k \notin Covered(R \ {r}) /\ p.kept[k] # "null"
                         THEN "null" ELSE p.kept[k]
    BY <1>0, <1>2 DEF Published
  <2>5. \A k \in Cols : q.crr[k] = b.crr[k] /\ q.kept[k] = b.kept[k]
    BY <2>1, <2>2, <2>3, <2>4
  <2>6. /\ q.reasons = R \ {r}
        /\ q = [crr |-> [k \in Cols |-> q.crr[k]], kept |-> [k \in Cols |-> q.kept[k]],
                reasons |-> q.reasons]
    BY <1>0, <1>2 DEF Published
  <2> QED
    BY <2>5, <2>6, SameSignal
<1> QED
  BY <1>1, <1>2

-----------------------------------------------------------------------------
(* Rows.                                                                   *)

LEMMA ItemsAreSignals == Items \subseteq Signals /\ Batches \subseteq Signals
  BY DEF Signals

\* Closing an edge leaves an edge.
LEMMA EndedIsRow ==
  ASSUME edge \in [EdgeIds -> EdgeRow], NEW e \in EdgeIds, NEW s \in Signals \cup {NoItem}
  PROVE  Ended(e, s) \in EdgeRow
  BY DEF Ended, EdgeRow

LEMMA MaterialiseRows ==
  ASSUME RowsOK, NEW c \in Items, Materialise(c)
  PROVE  node' \in [Nodes -> NodeRow] /\ edge' \in [EdgeIds -> EdgeRow]
<1>1. node' \in [Nodes -> NodeRow]
  <2>1. [state |-> "live", maker |-> c, into |-> NoNode] \in NodeRow
    BY DEF NodeRow
  <2>2. \A n \in Nodes : Patched(c, n) \in NodeRow
    BY DEF RowsOK, Patched, NodeRow
  <2> QED
    BY <2>1, <2>2 DEF RowsOK, Materialise, WithNode
<1>2. \A e \in EdgeIds : Ended(e, c) \in EdgeRow
  BY EndedIsRow, ItemsAreSignals DEF RowsOK
<1>3. [state |-> "live", signal |-> c, by |-> NoItem] \in EdgeRow
  BY DEF EdgeRow
<1>4. edge' \in [EdgeIds -> EdgeRow]
  BY <1>2, <1>3 DEF RowsOK, Materialise, WithEdges
<1> QED
  BY <1>1, <1>4

LEMMA SettledRows ==
  ASSUME RowsOK, NEW c \in Items, NEW outcome
  PROVE  ObjectionsSettled(c, outcome) \in [Items -> NoteStates]
  BY DEF ObjectionsSettled, OpenObjections, RowsOK, NoteStates

LEMMA EndRelationRows ==
  ASSUME RowsOK, NEW c \in Items, EndRelation(c)
  PROVE  edge' \in [EdgeIds -> EdgeRow]
  BY EndedIsRow DEF EndRelation, RowsOK

LEMMA ContributorRows ==
  ASSUME RowsOK, NEW c \in Items, Submit(c) \/ SubmitCutShort(c) \/ Withdraw(c)
  PROVE  RowsOK'
<1> USE ItemsAreSignals
<1>1. CASE Submit(c)
  <2>1. node' \in [Nodes -> NodeRow] /\ edge' \in [EdgeIds -> EdgeRow]
    BY <1>1, MaterialiseRows DEF Submit, graphVars, RowsOK
  <2>2. NewQueue(c) \in QueueStates /\ NewNote(c) \in NoteStates
    BY DEF NewQueue, NewNote, QueueStates, NoteStates
  <2>3. older' \in [Batches -> SUBSET Nodes]
    BY <1>1 DEF Submit, NewBatch, RowsOK
  <2> QED
    BY <1>1, <2>1, <2>2, <2>3 DEF Submit, RowsOK, SignalStates
<1>2. CASE SubmitCutShort(c)
  <2>1. node' \in [Nodes -> NodeRow] /\ edge' \in [EdgeIds -> EdgeRow]
    BY <1>2, MaterialiseRows DEF SubmitCutShort, graphVars, RowsOK
  <2>2. older' \in [Batches -> SUBSET Nodes]
    BY <1>2 DEF SubmitCutShort, NewBatch, RowsOK
  <2> QED
    BY <1>2, <2>1, <2>2 DEF SubmitCutShort, RowsOK, SignalStates
<1>3. CASE Withdraw(c)
  BY <1>3 DEF Withdraw, graphVars, RowsOK, SignalStates, QueueStates, NoteStates
<1> QED
  BY <1>1, <1>2, <1>3

LEMMA CuratorRows ==
  ASSUME RowsOK, NEW c \in Items, CuratorStep(c)
  PROVE  RowsOK'
<1> USE ItemsAreSignals
<1>1. CASE Approve(c)
  BY <1>1, MaterialiseRows, SettledRows DEF Approve, RowsOK, QueueStates
<1>2. CASE Reject(c)
  BY <1>2, SettledRows DEF Reject, graphVars, RowsOK, QueueStates
<1>3. CASE RejectCutShort(c)
  BY <1>3 DEF RejectCutShort, graphVars, RowsOK, QueueStates
<1>4. CASE ApproveContext(c)
  BY <1>4 DEF ApproveContext, Settle, graphVars, RowsOK, QueueStates, NoteStates
<1>5. CASE RejectContext(c)
  BY <1>5 DEF RejectContext, Settle, graphVars, RowsOK, QueueStates, NoteStates, SignalStates
<1>6. CASE UpholdContest(c)
  BY <1>6, EndRelationRows DEF UpholdContest, Settle, RowsOK, QueueStates, NoteStates
<1>7. CASE DismissContest(c)
  BY <1>7 DEF DismissContest, Settle, graphVars, RowsOK, QueueStates, NoteStates
<1>8. CASE SettleCutShort(c)
  BY <1>8 DEF SettleCutShort, Settle, graphVars, RowsOK, QueueStates, NoteStates, SignalStates
<1>9. CASE ContestCutShort(c)
  BY <1>9, EndRelationRows DEF ContestCutShort, RowsOK, NoteStates
<1> QED
  BY <1>1, <1>2, <1>3, <1>4, <1>5, <1>6, <1>7, <1>8, <1>9 DEF CuratorStep

LEMMA CorrectionRows ==
  ASSUME RowsOK,
         \/ \E s \in Signals : RevokeSignal(s)
         \/ \E n \in Nodes : RetireNode(n)
         \/ \E b \in Batches : RetireBatch(b)
         \/ \E f, i \in Nodes : MergeNodes(f, i)
  PROVE  RowsOK'
<1> USE ItemsAreSignals
<1>1. CASE \E s \in Signals : RevokeSignal(s)
  <2> PICK s \in Signals : RevokeSignal(s)
    BY <1>1
  <2>1. edge' \in [EdgeIds -> EdgeRow]
    BY EndedIsRow DEF RevokeSignal, RowsOK
  <2> QED
    BY <2>1 DEF RevokeSignal, RowsOK, SignalStates
<1>2. CASE \E n \in Nodes : RetireNode(n)
  <2> PICK n \in Nodes : RetireNode(n)
    BY <1>2
  <2>1. edge' \in [EdgeIds -> EdgeRow]
    BY EndedIsRow DEF RetireNode, RowsOK
  <2>2. node' \in [Nodes -> NodeRow]
    BY DEF RetireNode, RowsOK, NodeRow
  <2> QED
    BY <2>1, <2>2 DEF RetireNode, RowsOK
<1>3. CASE \E b \in Batches : RetireBatch(b)
  <2> PICK b \in Batches : RetireBatch(b)
    BY <1>3
  <2>1. edge' \in [EdgeIds -> EdgeRow]
    BY EndedIsRow DEF RetireBatch, RowsOK
  <2>2. node' \in [Nodes -> NodeRow]
    BY DEF RetireBatch, RowsOK, NodeRow
  <2>3. status' \in [Signals -> SignalStates] /\ queue' \in [Items -> QueueStates]
    BY DEF RetireBatch, RowsOK, SignalStates, QueueStates
  <2> QED
    BY <2>1, <2>2, <2>3 DEF RetireBatch, RowsOK
<1>4. CASE \E f, i \in Nodes : MergeNodes(f, i)
  <2> PICK f \in Nodes, i \in Nodes : MergeNodes(f, i)
    BY <1>4
  <2> DEFINE gone == {e \in EdgeIds : f \in Ends(e) /\ edge[e].state = "live"}
             moving == {e \in gone : ~Loop(e, f, i) /\ ~AlreadyThere(e, f, i)}
             From(e) == CHOOSE x \in moving : e = Moved(x, f, i)
  <2>1. ASSUME NEW e \in EdgeIds, \E x \in moving : e = Moved(x, f, i)
        PROVE  [state |-> "live", by |-> NoItem, signal |-> edge[From(e)].signal] \in EdgeRow
    <3>1. From(e) \in EdgeIds
      BY <2>1
    <3>2. edge[From(e)].signal \in Items \cup {NoItem}
      BY <3>1 DEF RowsOK, EdgeRow
    <3> QED
      BY <3>2 DEF EdgeRow
  <2>2. edge' \in [EdgeIds -> EdgeRow]
    BY <2>1, EndedIsRow DEF MergeNodes, RowsOK
  <2>3. node' \in [Nodes -> NodeRow]
    BY DEF MergeNodes, RowsOK, NodeRow
  <2> QED
    BY <2>2, <2>3 DEF MergeNodes, RowsOK
<1> QED
  BY <1>1, <1>2, <1>3, <1>4

LEMMA RowsNext == RowsOK /\ [Next]_vars => RowsOK'
<1> SUFFICES ASSUME RowsOK, [Next]_vars
             PROVE  RowsOK'
  OBVIOUS
<1>1. CASE UNCHANGED vars
  BY <1>1 DEF vars, RowsOK
<1>2. CASE Next
  BY <1>2, ContributorRows, CuratorRows, CorrectionRows DEF Next, OtherStep
<1> QED
  BY <1>1, <1>2

-----------------------------------------------------------------------------
(* What a step may do to a signal.                                         *)

\* The handlers withhold the words or lift the reasons of a review.
Evolves(p, q) ==
  \/ q = p
  \/ \E r \in WordReasons : q = Withheld(p, r)
  \/ q = Published(p, "pending")
  \/ q = PublishedOnApproval(p)

Created(s) ==
  \/ s \in Items /\ priv'[s] = Born(BornReasons(s))
  \/ s \in Batches /\ \E R \in SUBSET Projecting : priv'[s] = AdminRecord(R)

Treated(s) ==
  \/ status'[s] = status[s] /\ priv'[s] = priv[s]
  \/ status[s] # "none" /\ status'[s] # "none" /\ Evolves(priv[s], priv'[s])
  \/ status[s] = "none" /\ status'[s] # "none" /\ Created(s)

IsTable == priv' = [s \in Signals |-> priv'[s]]

LEMMA ContributorTreats ==
  ASSUME PrivacyInv, NEW c \in Items, Submit(c) \/ SubmitCutShort(c) \/ Withdraw(c)
  PROVE  IsTable /\ \A s \in Signals : Treated(s)
<1> USE ItemsAreSignals DEF PrivacyInv, SignalsKept
<1>1. CASE Submit(c) \/ SubmitCutShort(c)
  <2>1. /\ status[c] = "none"
        /\ status' = [status EXCEPT ![c] = "active"]
        /\ priv' = [priv EXCEPT ![c] = Born(BornReasons(c))]
    BY <1>1 DEF Submit, SubmitCutShort, New
  <2>2. IsTable
    BY <2>1 DEF IsTable
  <2> QED
    BY <2>1, <2>2 DEF Treated, Created, RowsOK
<1>2. CASE Withdraw(c)
  <2>1. status[c] # "none"
    BY <1>2 DEF Withdraw, Unwritten
  <2>2. /\ status' = [status EXCEPT ![c] = IF @ = "revoked" THEN @ ELSE "superseded"]
        /\ \/ priv' = [priv EXCEPT ![c] = Withheld(@, "withdrawn")]
           \/ priv' = priv
    BY <1>2 DEF Withdraw
  <2>3. IsTable
    BY <2>2 DEF IsTable
  <2>4. status'[c] # "none" /\ Evolves(priv[c], priv'[c])
    BY <2>1, <2>2 DEF Evolves, WordReasons, RowsOK
  <2>5. \A s \in Signals \ {c} : status'[s] = status[s] /\ priv'[s] = priv[s]
    BY <2>2 DEF RowsOK
  <2> QED
    BY <2>1, <2>3, <2>4, <2>5 DEF Treated
<1> QED
  BY <1>1, <1>2

\* A step on the review of one item that treats its signal as it may.
LEMMA OneTreated ==
  ASSUME PrivacyInv, NEW c \in Items, NEW q, status[c] # "none",
         Evolves(priv[c], q), priv' = [priv EXCEPT ![c] = q],
         \/ status' = status
         \/ status' = [status EXCEPT ![c] = "superseded"]
  PROVE  IsTable /\ \A s \in Signals : Treated(s)
<1>1. IsTable
  BY DEF IsTable, PrivacyInv, SignalsKept
<1>2. priv'[c] = q /\ status'[c] # "none"
  BY ItemsAreSignals DEF PrivacyInv, SignalsKept, RowsOK
<1>3. \A s \in Signals \ {c} : status'[s] = status[s] /\ priv'[s] = priv[s]
  BY DEF PrivacyInv, SignalsKept, RowsOK
<1> QED
  BY <1>1, <1>2, <1>3 DEF Treated

LEMMA CuratorTreats ==
  ASSUME PrivacyInv, NEW c \in Items, CuratorStep(c)
  PROVE  IsTable /\ \A s \in Signals : Treated(s)
<1> USE ItemsAreSignals
<1>1. queue[c] = "pending" /\ status[c] # "none"
  BY DEF CuratorStep, Approve, Reject, RejectCutShort, ApproveContext, RejectContext,
         UpholdContest, DismissContest, SettleCutShort, ContestCutShort, Decidable,
         PrivacyInv, Unwritten
<1>2. PICK q : /\ priv' = [priv EXCEPT ![c] = q]
               /\ Evolves(priv[c], q)
               /\ status' = status \/ status' = [status EXCEPT ![c] = "superseded"]
  <2> DEFINE Goal(q) == /\ priv' = [priv EXCEPT ![c] = q]
                        /\ Evolves(priv[c], q)
                        /\ status' = status \/ status' = [status EXCEPT ![c] = "superseded"]
  <2>1. CASE Approve(c)
    <3>1. Goal(PublishedOnApproval(priv[c]))
      BY <2>1 DEF Approve, Evolves
    <3> QED
      BY <3>1
  <2>2. CASE priv' = [priv EXCEPT ![c] = Withheld(@, "rejected")] /\ UNCHANGED status
    <3>1. Goal(Withheld(priv[c], "rejected"))
      BY <2>2 DEF Evolves, WordReasons
    <3> QED
      BY <3>1
  <2>3. CASE UNCHANGED priv /\ (status' = status \/ status' = [status EXCEPT ![c] = "superseded"])
    <3>1. Goal(priv[c])
      BY <2>3 DEF Evolves, PrivacyInv, SignalsKept
    <3> QED
      BY <3>1
  <2>4. CASE ApproveContext(c)
    <3>1. Goal(Published(priv[c], "pending"))
      BY <2>4 DEF ApproveContext, Evolves
    <3> QED
      BY <3>1
  <2>5. CASE RejectContext(c)
    <3>1. Goal(Withheld(priv[c], "rejected"))
      BY <2>5 DEF RejectContext, Evolves, WordReasons
    <3> QED
      BY <3>1
  <2> QED
    BY <2>1, <2>2, <2>3, <2>4, <2>5
    DEF CuratorStep, Reject, RejectCutShort, UpholdContest, DismissContest,
        SettleCutShort, ContestCutShort
<1> QED
  BY <1>1, <1>2, OneTreated

LEMMA RevokedTreats ==
  ASSUME PrivacyInv, NEW S \in SUBSET Signals, NEW s \in Signals
  PROVE  Evolves(priv[s], Revoked(S)[s])
  BY DEF Evolves, Revoked, WordReasons

LEMMA CorrectionTreats ==
  ASSUME PrivacyInv,
         \/ \E s \in Signals : RevokeSignal(s)
         \/ \E n \in Nodes : RetireNode(n)
         \/ \E b \in Batches : RetireBatch(b)
         \/ \E f, i \in Nodes : MergeNodes(f, i)
  PROVE  IsTable /\ \A s \in Signals : Treated(s)
<1> USE ItemsAreSignals DEF PrivacyInv, SignalsKept
<1>1. CASE \E x \in Signals : RevokeSignal(x)
  <2> PICK x \in Signals : RevokeSignal(x)
    BY <1>1
  <2>1. priv' = Revoked({x}) /\ status' = [status EXCEPT ![x] = "revoked"]
        /\ status[x] # "none"
    BY DEF RevokeSignal
  <2>2. IsTable
    BY <2>1 DEF IsTable, Revoked
  <2>3. \A s \in Signals : Evolves(priv[s], priv'[s])
    BY <2>1, RevokedTreats
  <2>4. \A s \in Signals \ {x} : priv'[s] = priv[s]
    BY <2>1 DEF Revoked
  <2> QED
    BY <2>1, <2>2, <2>3, <2>4 DEF Treated, RowsOK
<1>2. CASE \E n \in Nodes : RetireNode(n)
  BY <1>2 DEF RetireNode, Treated, IsTable
<1>3. CASE \E b \in Batches : RetireBatch(b)
  <2> PICK b \in Batches : RetireBatch(b)
    BY <1>3
  <2> DEFINE active == {c \in InBatch(b) : status[c] = "active"}
  <2>1. PICK why \in SUBSET Projecting :
          priv' = [Revoked(active) EXCEPT ![b] = AdminRecord(why)]
    BY DEF RetireBatch, Projecting
  <2>2. /\ status[b] = "none"
        /\ status' = [s \in Signals |-> IF s = b THEN "active"
                                        ELSE IF s \in active THEN "revoked" ELSE status[s]]
    BY DEF RetireBatch
  <2>3. Revoked(active) = [s \in Signals |-> Revoked(active)[s]]
    BY DEF Revoked
  <2>4. IsTable
    BY <2>1, <2>3 DEF IsTable
  <2>5. ASSUME NEW s \in Signals
        PROVE  Treated(s)
    <3>1. CASE s = b
      <4>1. priv'[s] = AdminRecord(why) /\ status'[s] = "active"
        BY <2>1, <2>2, <2>3, <3>1
      <4> QED
        BY <2>2, <3>1, <4>1 DEF Treated, Created
    <3>2. CASE s # b /\ s \in active
      <4>1. priv'[s] = Withheld(priv[s], "revoked") /\ status'[s] = "revoked"
        BY <2>1, <2>2, <3>2 DEF Revoked
      <4> QED
        BY <3>2, <4>1 DEF Treated, Evolves, WordReasons
    <3>3. CASE s # b /\ s \notin active
      <4>1. priv'[s] = priv[s] /\ status'[s] = status[s]
        BY <2>1, <2>2, <3>3 DEF Revoked
      <4> QED
        BY <4>1 DEF Treated
    <3> QED
      BY <3>1, <3>2, <3>3
  <2> QED
    BY <2>4, <2>5
<1>4. CASE \E f, i \in Nodes : MergeNodes(f, i)
  BY <1>4 DEF MergeNodes, Treated, IsTable
<1> QED
  BY <1>1, <1>2, <1>3, <1>4

LEMMA StepTreats ==
  PrivacyInv /\ [Next]_vars => IsTable /\ \A s \in Signals : Treated(s)
<1> SUFFICES ASSUME PrivacyInv, [Next]_vars
             PROVE  IsTable /\ \A s \in Signals : Treated(s)
  OBVIOUS
<1>1. CASE UNCHANGED vars
  BY <1>1 DEF vars, Treated, IsTable, PrivacyInv, SignalsKept
<1>2. CASE Next
  BY <1>2, ContributorTreats, CuratorTreats, CorrectionTreats DEF Next, OtherStep
<1> QED
  BY <1>1, <1>2

-----------------------------------------------------------------------------
(* The invariant.                                                          *)

LEMMA BornReasonsAre ==
  ASSUME NEW c \in Items
  PROVE  BornReasons(c) \in SUBSET Reasons /\ BornReasons(c) \cap Projecting = {}
<1>1. Shape[c].consent \subseteq {"structural_only", "anonymous"}
  BY ReviewAssumption DEF ShapeType
<1> QED
  BY <1>1 DEF BornReasons, Reasons, WordReasons, Projecting

LEMMA TreatedKept ==
  ASSUME PrivacyInv, NEW s \in Signals, Treated(s)
  PROVE  Kept(priv'[s])
<1>1. Kept(priv[s])
  BY DEF PrivacyInv, SignalsKept
<1>2. CASE Evolves(priv[s], priv'[s])
  BY <1>1, <1>2, WithheldKept, PublishedKept DEF Evolves, PublishedOnApproval
<1>3. CASE Created(s)
  BY <1>3, BornReasonsAre, BornKept, AdminRecordKept DEF Created
<1> QED
  BY <1>1, <1>2, <1>3 DEF Treated

\* No handler touches the rows of a contribution not made.
LEMMA UntouchedRows ==
  ASSUME PrivacyInv, [Next]_vars, NEW c \in Items, status[c] = "none", status'[c] = "none"
  PROVE  queue'[c] = "none" /\ note'[c] = "none"
<1> USE ItemsAreSignals DEF PrivacyInv
<1>1. queue[c] = "none" /\ note[c] = "none"
  BY DEF Unwritten
<1>2. ASSUME NEW d \in Items, Submit(d) \/ SubmitCutShort(d)
      PROVE  queue'[c] = "none" /\ note'[c] = "none"
  <2>1. d # c
    BY <1>2 DEF Submit, SubmitCutShort, RowsOK
  <2> QED
    BY <1>1, <1>2, <2>1 DEF Submit, SubmitCutShort, RowsOK
<1>3. ASSUME NEW d \in Items, Withdraw(d)
      PROVE  queue'[c] = "none" /\ note'[c] = "none"
  BY <1>1, <1>3 DEF Withdraw, RowsOK
<1>4. ASSUME NEW d \in Items, NEW outcome
      PROVE  ObjectionsSettled(d, outcome)[c] = "none"
  BY <1>1 DEF ObjectionsSettled, OpenObjections
<1>5. ASSUME NEW d \in Items, CuratorStep(d)
      PROVE  queue'[c] = "none" /\ note'[c] = "none"
  <2>1. queue[d] = "pending" /\ d # c
    BY <1>1, <1>5
    DEF CuratorStep, Approve, Reject, RejectCutShort, ApproveContext, RejectContext,
        UpholdContest, DismissContest, SettleCutShort, ContestCutShort, Decidable
  <2> QED
    BY <1>1, <1>4, <1>5, <2>1
    DEF CuratorStep, Approve, Reject, RejectCutShort, ApproveContext, RejectContext,
        UpholdContest, DismissContest, SettleCutShort, ContestCutShort, Settle, RowsOK
<1>6. CASE \/ \E s \in Signals : RevokeSignal(s)
           \/ \E n \in Nodes : RetireNode(n)
           \/ \E b \in Batches : RetireBatch(b)
           \/ \E f, i \in Nodes : MergeNodes(f, i)
  BY <1>1, <1>6 DEF RevokeSignal, RetireNode, RetireBatch, MergeNodes
<1> QED
  BY <1>1, <1>2, <1>3, <1>5, <1>6 DEF Next, OtherStep, vars

LEMMA PrivacyInit == Init => PrivacyInv
<1> SUFFICES ASSUME Init PROVE PrivacyInv
  OBVIOUS
<1>1. RowsOK
  BY DEF Init, RowsOK, QueueStates, NoteStates, SignalStates, NodeRow, EdgeRow
<1>2. Unwritten
  BY ItemsAreSignals DEF Init, Unwritten
<1>3. SignalsKept
  BY PlainKept DEF Init, SignalsKept, Kept
<1> QED
  BY <1>1, <1>2, <1>3 DEF PrivacyInv

LEMMA PrivacyNext == PrivacyInv /\ [Next]_vars => PrivacyInv'
<1> SUFFICES ASSUME PrivacyInv, [Next]_vars
             PROVE  PrivacyInv'
  OBVIOUS
<1>1. RowsOK'
  BY RowsNext DEF PrivacyInv
<1>2. IsTable /\ \A s \in Signals : Treated(s)
  BY StepTreats
<1>3. \A s \in Signals : Kept(priv'[s])
  BY <1>2, TreatedKept
<1>4. SignalsKept'
  <2>1. \A s \in Signals : priv'[s] \in Signal
    BY <1>3 DEF Kept
  <2> QED
    BY <1>2, <1>3, <2>1 DEF SignalsKept, IsTable
<1>5. Unwritten'
  <2>1. \A s \in Signals : status'[s] = "none" => status[s] = "none" /\ priv'[s] = priv[s]
    BY <1>2 DEF Treated
  <2>2. \A c \in Items : status'[c] = "none" => queue'[c] = "none" /\ note'[c] = "none"
    BY <2>1, UntouchedRows, ItemsAreSignals
  <2> QED
    BY <2>1, <2>2 DEF PrivacyInv, Unwritten
<1> QED
  BY <1>1, <1>4, <1>5 DEF PrivacyInv

\* The inductive invariant: rows keep their types, a contribution not made has
\* none, and each signal keeps exactly what its public row does not show.
THEOREM PrivacyInvariant == Spec => []PrivacyInv
  BY PrivacyInit, PrivacyNext, PTL DEF Spec

\* Rows of the tables keep their types.
THEOREM ReviewTyping == Spec => []ReviewTypeOK
<1>1. PrivacyInv => ReviewTypeOK
  BY DEF PrivacyInv, RowsOK, SignalsKept, ReviewTypeOK
<1> QED
  BY <1>1, PrivacyInvariant, PTL

\* No revocation, rejection or withdrawal is ever refused because something
\* else of the signal is kept already (PrivacyConflictError is never thrown).
THEOREM NothingConflicts == Spec => []NeverInConflict
<1>1. PrivacyInv => NeverInConflict
  BY NoConflict DEF PrivacyInv, SignalsKept, NeverInConflict, Written, WordReasons
<1> QED
  BY <1>1, PrivacyInvariant, PTL

-----------------------------------------------------------------------------
(* Review implements PublicRecord.                                         *)

LEMMA HiddenIsCovered ==
  ASSUME NEW R \in SUBSET Reasons
  PROVE  Privacy!Hidden(R) = Covered(R)
  BY DEF Privacy!Hidden, Covered

LEMMA ShownAndHeld ==
  ASSUME NEW p, Kept(p)
  PROVE  /\ p.reasons \in SUBSET Reasons
         /\ {k \in Cols : p.crr[k] = "orig"} = Cols \ Privacy!Hidden(p.reasons)
         /\ {k \in Cols : p.kept[k] = "orig"} = Privacy!Hidden(p.reasons)
<1>1. p.reasons \in SUBSET Reasons /\ Sound(p)
  BY DEF Kept, Signal
<1>2. Privacy!Hidden(p.reasons) = Covered(p.reasons) /\ Covered(p.reasons) \subseteq Cols
  BY <1>1, HiddenIsCovered DEF Covered, ColsFor
<1> QED
  BY <1>1, <1>2 DEF Sound

\* A reason to withhold only goes when a review ends it.
LEMMA OnlyReviewsLift ==
  ASSUME PrivacyInv, NEW s \in Signals, Treated(s)
  PROVE  priv[s].reasons \ priv'[s].reasons \subseteq {"pending", "pending_name"}
<1>1. Kept(priv[s])
  BY DEF PrivacyInv, SignalsKept
<1>2. status[s] = "none" => priv[s].reasons = {}
  BY DEF PrivacyInv, Unwritten, Plain
<1>3. CASE Evolves(priv[s], priv'[s])
  BY <1>1, <1>3, WithheldKept, PublishedKept DEF Evolves, PublishedOnApproval
<1> QED
  BY <1>2, <1>3 DEF Treated

\* Whatever happens to a signal and in which order, the public row shows a
\* column exactly while no reason to withhold it stands, the original of what
\* is not shown is kept, and only an ended review lifts a reason: the handlers
\* implement PublicRecord.
THEOREM PrivacyIsKept == Spec => PrivacyKept
<1>1. Init => Privacy!Init
  <2> SUFFICES ASSUME Init PROVE Privacy!Init
    OBVIOUS
  <2>1. Written = {}
    BY DEF Init, Written
  <2>2. \A s \in Signals : priv[s] = Plain
    BY DEF Init
  <2>3. \A s \in Signals : priv[s].reasons = {} /\ {k \in Cols : priv[s].kept[k] = "orig"} = {}
    BY <2>2 DEF Plain
  <2> QED
    BY <2>1, <2>3 DEF Privacy!Init
<1>2. PrivacyInv /\ [Next]_vars => [Privacy!Next]_(Privacy!recordVars)
  <2> SUFFICES ASSUME PrivacyInv, [Next]_vars
               PROVE  Privacy!Next
    OBVIOUS
  <2>1. PrivacyInv' /\ \A s \in Signals : Treated(s)
    BY PrivacyNext, StepTreats
  <2>2. Written \subseteq Written'
    BY <2>1 DEF Treated, Written
  <2>3. \A s \in Signals :
          /\ priv'[s].reasons \in SUBSET Reasons
          /\ {k \in Cols : priv'[s].crr[k] = "orig"} = Cols \ Privacy!Hidden(priv'[s].reasons)
          /\ {k \in Cols : priv'[s].kept[k] = "orig"} = Privacy!Hidden(priv'[s].reasons)
    <3>1. \A s \in Signals : Kept(priv'[s])
      BY <2>1 DEF PrivacyInv, SignalsKept
    <3> QED
      BY <3>1, ShownAndHeld
  <2>4. \A s \in Signals : s \notin Written' => Privacy!Hidden(priv'[s].reasons) = {}
                                             /\ {k \in Cols : priv'[s].kept[k] = "orig"} = {}
    <3>1. \A s \in Signals : s \notin Written' => priv'[s] = Plain
      BY <2>1 DEF PrivacyInv, Unwritten, Written
    <3>2. {k \in Cols : Plain.kept[k] = "orig"} = {} /\ Plain.reasons = {}
      BY DEF Plain
    <3> QED
      BY <3>1, <3>2, HiddenIsCovered DEF Covered
  <2>5. \A s \in Signals : priv[s].reasons \ priv'[s].reasons \subseteq {"pending", "pending_name"}
    BY <2>1, OnlyReviewsLift
  <2> QED
    BY <2>2, <2>3, <2>4, <2>5 DEF Privacy!Next
<1> QED
  BY <1>1, <1>2, PrivacyInvariant, PTL DEF Spec, PrivacyKept, Privacy!Spec

-----------------------------------------------------------------------------
(* A contribution's rows depend on its reasons alone.                      *)

\* A contribution made looks as if it had been born with the reasons it has now.
AsIfBorn(c) == priv[c] = Born(priv[c].reasons) /\ Nameable(priv[c].reasons)

LEMMA EvolvesAsIfBorn ==
  ASSUME NEW p, p = Born(p.reasons), p.reasons \in SUBSET Reasons, Nameable(p.reasons),
         NEW q, Evolves(p, q)
  PROVE  q = Born(q.reasons) /\ Nameable(q.reasons)
<1>0. \A R : Born(R).reasons = R
  BY DEF Born
<1>1. ASSUME NEW r \in {"pending", "pending_name"}
      PROVE  Published(p, r) = Born(p.reasons \ {r})
  BY PublishedAsIfBorn
<1>2. CASE \E r \in WordReasons : q = Withheld(p, r)
  <2>1. PICK r \in WordReasons : q = Withheld(p, r)
    BY <1>2
  <2>2. q = Born(p.reasons \cup {r})
    BY <2>1, WithheldAsIfBorn
  <2>3. q.reasons = p.reasons \cup {r}
    BY <1>0, <2>2
  <2>4. r \notin {"anonymous", "pending_name"}
    BY DEF WordReasons
  <2> QED
    BY <2>2, <2>3, <2>4 DEF Nameable
<1>3. CASE q = Published(p, "pending")
  <2>1. q = Born(p.reasons \ {"pending"}) /\ q.reasons = p.reasons \ {"pending"}
    BY <1>0, <1>1, <1>3
  <2> QED
    BY <2>1 DEF Nameable
<1>4. CASE q = PublishedOnApproval(p)
  <2> DEFINE R == p.reasons \ {"pending_name"}
  <2>1. Published(p, "pending_name") = Born(R)
    BY <1>1
  <2>2. R \in SUBSET Reasons /\ Nameable(R)
    BY DEF Nameable
  <2>3. Published(Born(R), "pending") = Born(R \ {"pending"})
    BY <2>2, PublishedAsIfBorn
  <2>4. q = Born(R \ {"pending"}) /\ q.reasons = R \ {"pending"}
    BY <1>0, <1>4, <2>1, <2>3 DEF PublishedOnApproval
  <2> QED
    BY <2>2, <2>4 DEF Nameable
<1> QED
  BY <1>2, <1>3, <1>4 DEF Evolves

\* What a fork reads of a contribution, and what is kept of it privately, follows
\* from the reasons that stand now: submissions, reviews, withdrawals, revocations
\* and crashes that leave the same reasons leave the same two rows, in whatever
\* order they came (withholdSignal, publishSignal).
THEOREM OrderDoesNotShow == Spec => [](\A c \in Items \cap Written : AsIfBorn(c))
<1> DEFINE Inv == \A c \in Items \cap Written : AsIfBorn(c)
<1>1. Init => Inv
  BY DEF Init, Written
<1>2. PrivacyInv /\ Inv /\ [Next]_vars => Inv'
  <2> SUFFICES ASSUME PrivacyInv, Inv, [Next]_vars, NEW c \in Items, status'[c] # "none"
               PROVE  AsIfBorn(c)'
    BY DEF Written
  <2>1. Treated(c) /\ c \in Signals
    BY StepTreats, ItemsAreSignals
  <2>2. CASE status[c] # "none"
    <3>1. priv[c] = Born(priv[c].reasons) /\ Nameable(priv[c].reasons)
      BY <2>1, <2>2 DEF AsIfBorn, Written
    <3>2. priv[c].reasons \in SUBSET Reasons
      BY <2>1 DEF PrivacyInv, SignalsKept, Kept, Signal
    <3>3. Evolves(priv[c], priv'[c])
      BY <2>1, <2>2 DEF Treated, Evolves
    <3>4. priv'[c] = Born(priv'[c].reasons) /\ Nameable(priv'[c].reasons)
      BY <3>1, <3>2, <3>3, EvolvesAsIfBorn
    <3> QED
      BY <3>4 DEF AsIfBorn
  <2>3. CASE status[c] = "none"
    <3>1. priv'[c] = Born(BornReasons(c))
      BY <2>1, <2>3, ReviewAssumption DEF Treated, Created
    <3>2. priv'[c].reasons = BornReasons(c)
      BY <3>1 DEF Born
    <3>3. Nameable(BornReasons(c))
      BY ReviewAssumption DEF Nameable, BornReasons, ShapeType
    <3> QED
      BY <3>1, <3>2, <3>3 DEF AsIfBorn
  <2> QED
    BY <2>2, <2>3
<1> QED
  BY <1>1, <1>2, PrivacyInvariant, PTL DEF Spec
=============================================================================
