-------------------------- MODULE DraftQueueProofs --------------------------
(***************************************************************************)
(* Theorems about the draft queue and its review sheets, for every number  *)
(* of drafts, people, workers and cards.                                   *)
(***************************************************************************)
EXTENDS DraftQueue, FiniteSetTheorems, TLAPS

\* A number no draft has yet stands for a row that is not there.
Blank ==
  \A d \in Drafts : status[d] = "none" =>
    /\ job[d] = "none" /\ claimedBy[d] = NoWorker /\ beat[d] = "none"
    /\ passes[d] = 0

\* The inductive invariant of the queue.
QueueInv == TypeOK /\ QueueConsistent /\ PassesBounded /\ Blank

-----------------------------------------------------------------------------
(* Tables of cards.                                                        *)

LEMMA EmptyTable == NoCards \in CardTable
  BY DEF NoCards, CardTable

LEMMA TableUpdate ==
  ASSUME NEW cs \in [Drafts -> CardTable], NEW d \in Drafts, NEW c \in Cids,
         NEW k \in Card \cup {NoCard}
  PROVE  [cs EXCEPT ![d][c] = k] \in [Drafts -> CardTable]
  BY DEF CardTable

LEMMA PresentIsCard ==
  ASSUME NEW cs \in CardTable, NEW c \in Present(cs)
  PROVE  c \in Cids /\ cs[c] \in Card
  BY DEF Present, CardTable

\* What a decision or an edit by the contributor writes.
LEMMA PatchWrites ==
  ASSUME TypeOK, NEW u \in Contributors, NEW d \in Drafts, NEW c \in Cids,
         PatchCandidate(u, d, c)
  PROVE  \E k \in Card : /\ cards' = [cards EXCEPT ![d][c] = k]
                         /\ k.kind = cards[d][c].kind /\ k.deps = cards[d][c].deps
                         /\ k.edited
<1>1. cards[d][c] \in Card
  BY PresentIsCard DEF PatchCandidate, TypeOK
<1>2. cards[d][c].text \in Texts /\ cards[d][c].onGraph \in BOOLEAN
  BY <1>1 DEF Card
<1> DEFINE texts == IF cards[d][c].kind \in {"image", "known"} THEN {cards[d][c].text} ELSE Texts
           links == IF cards[d][c].kind = "node" THEN BOOLEAN ELSE {cards[d][c].onGraph}
<1>3. PICK s \in StatesOf(cards[d][c].kind), t \in texts, g \in links :
        cards' = [cards EXCEPT ![d][c] = [@ EXCEPT !.state = s, !.text = t,
                                                   !.onGraph = g, !.edited = TRUE]]
  BY DEF PatchCandidate
<1>4. t \in Texts /\ g \in BOOLEAN
  BY <1>2, <1>3
<1> DEFINE k == [cards[d][c] EXCEPT !.state = s, !.text = t, !.onGraph = g, !.edited = TRUE]
<1>5. /\ k \in Card /\ k.kind = cards[d][c].kind /\ k.deps = cards[d][c].deps
      /\ k.edited
  BY <1>1, <1>3, <1>4 DEF Card, StatesOf, CardStates
<1>6. cards' = [cards EXCEPT ![d][c] = k]
  BY <1>3 DEF TypeOK
<1> HIDE DEF k
<1>7. QED
  BY <1>5, <1>6

\* What an update by the agent writes: references to node cards of the draft.
LEMMA UpdateWrites ==
  ASSUME TypeOK, NEW w \in Workers, NEW d \in Drafts, NEW c \in Cids,
         UpdateCandidate(w, d, c)
  PROVE  \E k \in Card : /\ cards' = [cards EXCEPT ![d][c] = k]
                         /\ k.kind = cards[d][c].kind
                         /\ k.state = cards[d][c].state /\ k.edited = cards[d][c].edited
                         /\ k.badLink = cards[d][c].badLink
                         /\ \/ k.deps = cards[d][c].deps
                            \/ /\ k.kind # "node"
                               /\ \A e \in k.deps : /\ e \in Present(cards[d])
                                                    /\ cards[d][e].kind = "node"
<1>1. cards[d][c] \in Card
  BY PresentIsCard DEF UpdateCandidate, TypeOK
<1>2. cards[d][c].onGraph \in BOOLEAN /\ cards[d][c].deps \in SUBSET Cids
  BY <1>1 DEF Card
<1> DEFINE nodes == {e \in Present(cards[d]) \ {c} : cards[d][e].kind = "node"}
           links == IF cards[d][c].kind = "node" THEN BOOLEAN ELSE {cards[d][c].onGraph}
           refs == IF cards[d][c].kind = "node" THEN {cards[d][c].deps} ELSE SUBSET nodes
<1>3. PICK t \in Texts, g \in links, ds \in refs :
        cards' = [cards EXCEPT ![d][c] = [@ EXCEPT !.text = t, !.onGraph = g, !.deps = ds]]
  BY DEF UpdateCandidate
<1>4. g \in BOOLEAN /\ ds \in SUBSET Cids
  BY <1>2, <1>3 DEF Present
<1>5. \/ ds = cards[d][c].deps
      \/ /\ cards[d][c].kind # "node"
         /\ \A e \in ds : e \in Present(cards[d]) /\ cards[d][e].kind = "node"
  BY <1>3
<1> DEFINE k == [cards[d][c] EXCEPT !.text = t, !.onGraph = g, !.deps = ds]
<1>6. /\ k \in Card /\ k.kind = cards[d][c].kind /\ k.deps = ds
      /\ k.state = cards[d][c].state /\ k.edited = cards[d][c].edited
      /\ k.badLink = cards[d][c].badLink
  BY <1>1, <1>4 DEF Card
<1>7. cards' = [cards EXCEPT ![d][c] = k]
  BY <1>3 DEF TypeOK
<1> HIDE DEF k
<1>8. QED
  BY <1>5, <1>6, <1>7

LEMMA PickedCardsTyped ==
  ASSUME TypeOK, NEW s \in Drafts, NEW known, NEW lost
  PROVE  PickedCards(s, known, lost) \in CardTable
<1> DEFINE src == cards[s]
           take == {c \in Present(src) : ItemOpen(s, c)}
           needed == UNION {src[c].deps : c \in take} \ take
           carry == {c \in needed : c \in Present(src) /\ src[c].kind = "node"} \ known
           kept == (take \cup carry) \ lost
<1>1. src \in CardTable
  BY DEF TypeOK
<1>2. \A c \in kept : c \in Cids /\ src[c] \in Card
  BY <1>1, PresentIsCard
<1>3. \A c \in kept : PickedCard(src[c], take \cup carry, c \in take, known, c) \in Card
  <2> SUFFICES ASSUME NEW k \in Card, NEW carried, NEW taken, NEW c
               PROVE  PickedCard(k, carried, taken, known, c) \in Card
    BY <1>2
  <2> QED
    BY DEF PickedCard, Card, CardStates, StatesOf
<1>4. QED
  BY <1>3 DEF PickedCards, CardTable

-----------------------------------------------------------------------------
LEMMA InsertKeepsInv ==
  ASSUME QueueInv, NEW u \in Contributors, NEW d \in Drafts, NEW src \in 0 .. MaxDrafts,
         NEW initial \in {"none", "initial"}, NEW cs \in CardTable,
         Insert(u, d, src, initial, cs)
  PROVE  QueueInv'
<1> USE DEF QueueInv, Insert
<1>0. status[d] = "none"
  BY DEF Unused
<1>1. TypeOK'
  BY DEF TypeOK, Statuses, Jobs, itemVars
<1>2. QueueConsistent'
  BY <1>0 DEF QueueConsistent, TypeOK, Blank
<1>3. PassesBounded'
  BY <1>0, DraftQueueAssumption DEF PassesBounded, TypeOK, Blank
<1>4. Blank'
  BY <1>0 DEF Blank, TypeOK
<1>5. QED
  BY <1>1, <1>2, <1>3, <1>4

LEMMA SnapshotTyped ==
  ASSUME TypeOK, NEW d \in Drafts
  PROVE  Snapshot(d) \in Request
<1>1. GoneItems(d) \subseteq Cids
  BY DEF GoneItems, SourceCids, Present
<1>2. QED
  BY <1>1 DEF Snapshot, Request, TypeOK

\* The transaction of Confirm, from a request whose draft is still the one read.
LEMMA SubmitKeepsInv ==
  ASSUME QueueInv, NEW q \in Request, NEW left, Submit(q, left),
         confirming' \in [Requests -> Request \cup {NoReq}]
  PROVE  QueueInv'
<1> DEFINE d == q.draft
           ops == Ops(q.cards, q.gone, left)
           decisions == Decisions(d, q.cards, q.gone)
<1> USE DEF QueueInv
<1>0. /\ d \in Drafts /\ q.cards \in CardTable
      /\ status[d] = "ready" /\ job[d] = "none"
  BY DEF Submit, SameDraft, Request
<1>1. TypeOK'
  <2>1. batch' \in [Drafts -> CardTable]
    <3>1. batch' = [batch EXCEPT ![d] = [c \in Cids |-> IF c \in ops THEN q.cards[c] ELSE NoCard]]
      BY DEF Submit
    <3>2. [c \in Cids |-> IF c \in ops THEN q.cards[c] ELSE NoCard] \in CardTable
      BY <1>0 DEF CardTable
    <3>3. QED
      BY <1>0, <3>1, <3>2 DEF TypeOK
  <2>2. items' \in [Drafts -> SUBSET Cids]
    <3>1. KeptOpen(q) \subseteq Cids
      BY DEF KeptOpen, LeftOpen, OpenNodes, Present
    <3>2. QED
      BY <1>0, <3>1 DEF Submit, TypeOK
  <2>3. decidedIn' \in [Drafts -> [Cids -> 0 .. MaxDrafts]]
    <3>1. CASE from[d] = 0
      BY <3>1 DEF Submit, TypeOK
    <3>2. CASE from[d] # 0
      <4>1. d \in 0 .. MaxDrafts /\ from[d] \in Drafts
        BY <1>0, <3>2, DraftQueueAssumption DEF TypeOK, Drafts
      <4>2. decidedIn' = [decidedIn EXCEPT ![from[d]] =
                            [c \in Cids |-> IF c \in decisions THEN d ELSE decidedIn[from[d]][c]]]
        BY <3>2, <4>1 DEF Submit, TypeOK
      <4>3. [c \in Cids |-> IF c \in decisions THEN d ELSE decidedIn[from[d]][c]]
              \in [Cids -> 0 .. MaxDrafts]
        BY <4>1 DEF TypeOK
      <4>4. QED
        BY <4>1, <4>2, <4>3 DEF TypeOK
    <3>3. QED
      BY <3>1, <3>2
  <2>4. /\ status' \in [Drafts -> Statuses]
        /\ UNCHANGED <<job, claimedBy, beat, rowVars, cards, dayVars>>
    BY <1>0 DEF Submit, TypeOK, Statuses
  <2>5. QED
    BY <2>1, <2>2, <2>3, <2>4 DEF TypeOK, rowVars, dayVars
<1>2. /\ status' = [status EXCEPT ![d] = "submitted"]
      /\ UNCHANGED <<job, claimedBy, beat, passes>>
  BY DEF Submit, rowVars
<1>3. QueueConsistent'
  BY <1>0, <1>2 DEF QueueConsistent, TypeOK
<1>4. PassesBounded' /\ Blank'
  BY <1>0, <1>2 DEF PassesBounded, Blank, TypeOK
<1>5. QED
  BY <1>1, <1>3, <1>4

LEMMA ContributorKeepsInv ==
  ASSUME QueueInv, ContributorStep
  PROVE  QueueInv'
<1> USE DEF QueueInv
<1>1. ASSUME NEW u \in Contributors, CreateDraft(u)
      PROVE  QueueInv'
  <2>1. PICK d \in Drafts : Insert(u, d, 0, "initial", NoCards)
    BY <1>1 DEF CreateDraft
  <2>2. 0 \in 0 .. MaxDrafts
    BY DraftQueueAssumption
  <2>3. QED
    BY <2>1, <2>2, EmptyTable, InsertKeepsInv
<1>2. ASSUME NEW d \in Drafts, NEW kind \in {"chat", "continue"}, Enqueue(d, kind),
             talk' \in [Drafts -> 0 .. MaxTalk]
      PROVE  QueueInv'
  <2> USE <1>2 DEF Enqueue
  <2>0. job[d] = "none" /\ status[d] \in {"ready", "failed"} /\ passes[d] < MaxPasses
    BY DEF MayEnqueue, HasPassLeft
  <2>1. TypeOK'
    BY DEF TypeOK, Statuses, Jobs, itemVars, dayVars
  <2>2. QueueConsistent'
    BY <2>0 DEF QueueConsistent, TypeOK
  <2>3. PassesBounded'
    BY <2>0, DraftQueueAssumption DEF PassesBounded, TypeOK
  <2>4. Blank'
    BY <2>0 DEF Blank, TypeOK
  <2>5. QED
    BY <2>1, <2>2, <2>3, <2>4
<1>3. ASSUME NEW u \in Contributors, NEW d \in Drafts, EnqueueChat(u, d)
      PROVE  QueueInv'
  <2>1. talk' \in [Drafts -> 0 .. MaxTalk]
    BY <1>3, DraftQueueAssumption DEF EnqueueChat, TypeOK
  <2>2. QED
    BY <1>2, <1>3, <2>1 DEF EnqueueChat
<1>4. ASSUME NEW u \in Contributors, NEW d \in Drafts, NEW focus \in BOOLEAN,
             EnqueueContinue(u, d, focus)
      PROVE  QueueInv'
  <2>1. talk' \in [Drafts -> 0 .. MaxTalk]
    BY <1>4, DraftQueueAssumption DEF EnqueueContinue, TypeOK, UpTo
  <2>2. QED
    BY <1>2, <1>4, <2>1 DEF EnqueueContinue
<1>5. ASSUME NEW u \in Contributors, NEW d \in Drafts, AbandonDraft(u, d)
      PROVE  QueueInv'
  <2> USE <1>5 DEF AbandonDraft
  <2>1. TypeOK'
    BY DEF TypeOK, Statuses, Jobs, itemVars, dayVars, rowVars
  <2>2. QueueConsistent'
    BY DEF QueueConsistent, TypeOK
  <2>3. PassesBounded'
    BY DraftQueueAssumption DEF PassesBounded, TypeOK, rowVars
  <2>4. Blank'
    BY DEF Blank, TypeOK, rowVars
  <2>5. QED
    BY <2>1, <2>2, <2>3, <2>4
<1>6. ASSUME NEW u \in Contributors, NEW d \in Drafts, NEW c \in Cids,
             PatchCandidate(u, d, c)
      PROVE  QueueInv'
  <2>1. PICK k \in Card : cards' = [cards EXCEPT ![d][c] = k]
    BY <1>6, PatchWrites
  <2>2. cards' \in [Drafts -> CardTable]
    BY <2>1, TableUpdate DEF TypeOK
  <2>3. QED
    BY <1>6, <2>2 DEF PatchCandidate, TypeOK, QueueConsistent, PassesBounded, Blank,
                      queueVars, rowVars, itemVars, dayVars
<1>7. ASSUME NEW u \in Contributors, NEW s \in Drafts, CreatePickupDraft(u, s)
      PROVE  QueueInv'
  <2>1. PICK known, lost \in SUBSET Present(cards[s]), d \in Drafts :
          Insert(u, d, s, "none", PickedCards(s, known, lost))
    BY <1>7 DEF CreatePickupDraft
  <2>2. s \in 0 .. MaxDrafts
    BY DraftQueueAssumption DEF Drafts
  <2>3. QED
    BY <2>1, <2>2, PickedCardsTyped, InsertKeepsInv
<1>8. ASSUME NEW u \in Contributors, NEW d \in Drafts, ConfirmAtOnce(u, d)
      PROVE  QueueInv'
  <2>1. PICK left : Submit(Snapshot(d), left)
    BY <1>8 DEF ConfirmAtOnce
  <2>2. Snapshot(d) \in Request
    BY SnapshotTyped
  <2>3. QED
    BY <1>8, <2>1, <2>2, SubmitKeepsInv DEF TypeOK, ConfirmAtOnce
<1>9. ASSUME NEW u \in Contributors, NEW d \in Drafts, NEW r \in Requests,
             ConfirmBegin(u, d, r)
      PROVE  QueueInv'
  <2>1. Snapshot(d) \in Request
    BY SnapshotTyped
  <2>2. confirming' \in [Requests -> Request \cup {NoReq}]
    BY <1>9, <2>1 DEF ConfirmBegin, TypeOK
  <2>3. QED
    BY <1>9, <2>2 DEF ConfirmBegin, TypeOK, QueueConsistent, PassesBounded, Blank,
                      queueVars, rowVars, itemVars, dayVars
<1>10. QED
  BY <1>1, <1>3, <1>4, <1>5, <1>6, <1>7, <1>8, <1>9 DEF ContributorStep

LEMMA WorkerKeepsInv ==
  ASSUME QueueInv, WorkerStep
  PROVE  QueueInv'
<1> USE DEF QueueInv
<1> SUFFICES ASSUME NEW w \in Workers, NEW d \in Drafts,
                    \/ \E pinned \in BOOLEAN : ClaimJob(w, d, pinned)
                    \/ Heartbeat(w, d)
                    \/ \E p \in Proposals : Propose(w, d, p)
                    \/ \E c \in Cids : UpdateCandidate(w, d, c) \/ RemoveCandidate(w, d, c)
                    \/ AddMessage(w, d)
                    \/ \E error \in BOOLEAN, cost \in 0 .. MaxCost :
                         FinishPass(w, d, error, cost)
             PROVE  QueueInv'
  BY DEF WorkerStep
<1>0. w # NoWorker
  BY DraftQueueAssumption
<1>1. ASSUME NEW pinned \in BOOLEAN, ClaimJob(w, d, pinned)
      PROVE  QueueInv'
  <2> USE <1>1 DEF ClaimJob
  <2>1. TypeOK'
    BY DEF TypeOK, Statuses, itemVars, dayVars, rowVars
  <2>2. QueueConsistent'
    BY <1>0 DEF QueueConsistent, TypeOK, Claimable
  <2>3. PassesBounded' /\ Blank'
    BY DEF PassesBounded, Blank, TypeOK, rowVars
  <2>4. QED
    BY <2>1, <2>2, <2>3
<1>2. ASSUME Heartbeat(w, d)
      PROVE  QueueInv'
  <2> USE <1>2 DEF Heartbeat
  <2>1. TypeOK'
    BY DEF TypeOK, itemVars, dayVars, rowVars
  <2>2. QueueConsistent'
    BY <1>0 DEF QueueConsistent, TypeOK, Claimed
  <2>3. PassesBounded' /\ Blank'
    BY DEF PassesBounded, Blank, TypeOK, rowVars, Claimed
  <2>4. QED
    BY <2>1, <2>2, <2>3
<1>3. ASSUME cards' \in [Drafts -> CardTable], OnlyCards
      PROVE  QueueInv'
  BY <1>3 DEF OnlyCards, TypeOK, QueueConsistent, PassesBounded, Blank,
              queueVars, rowVars, itemVars, dayVars
<1>4. ASSUME NEW p \in Proposals, Propose(w, d, p)
      PROVE  QueueInv'
  <2> DEFINE k == [kind |-> p.kind, text |-> p.text, deps |-> p.deps,
                   onGraph |-> p.onGraph, badLink |-> p.badLink, edited |-> FALSE,
                   state |-> IF p.badLink THEN "rejected" ELSE "proposed"]
  <2>1. k \in Card
    BY DraftQueueAssumption DEF Proposal, Card, CardStates, StatesOf
  <2>2. PICK c \in Cids : cards' = [cards EXCEPT ![d][c] = k]
    BY <1>4 DEF Propose
  <2>3. cards' \in [Drafts -> CardTable]
    BY <2>1, <2>2, TableUpdate DEF TypeOK
  <2>4. QED
    BY <1>3, <1>4, <2>3 DEF Propose
<1>5. ASSUME NEW c \in Cids, UpdateCandidate(w, d, c)
      PROVE  QueueInv'
  <2>1. PICK k \in Card : cards' = [cards EXCEPT ![d][c] = k]
    BY <1>5, UpdateWrites
  <2>2. cards' \in [Drafts -> CardTable]
    BY <2>1, TableUpdate DEF TypeOK
  <2>3. QED
    BY <1>3, <1>5, <2>2 DEF UpdateCandidate
<1>6. ASSUME NEW c \in Cids, RemoveCandidate(w, d, c)
      PROVE  QueueInv'
  <2>1. cards' \in [Drafts -> CardTable]
    BY <1>6, TableUpdate DEF RemoveCandidate, TypeOK
  <2>2. QED
    BY <1>3, <1>6, <2>1 DEF RemoveCandidate
<1>7. ASSUME AddMessage(w, d)
      PROVE  QueueInv'
  <2>1. talk' \in [Drafts -> 0 .. MaxTalk]
    BY <1>7, DraftQueueAssumption DEF AddMessage, TypeOK, UpTo
  <2>2. QED
    BY <1>7, <2>1 DEF AddMessage, TypeOK, QueueConsistent, PassesBounded, Blank,
                      queueVars, itemVars, dayVars
<1>8. ASSUME NEW error \in BOOLEAN, NEW cost \in 0 .. MaxCost,
             FinishPass(w, d, error, cost)
      PROVE  QueueInv'
  <2> USE <1>8 DEF FinishPass
  <2>0. job[d] # "none" /\ passes[d] + 1 <= MaxPasses
    BY DEF Claimed, PassesBounded
  <2>1. TypeOK'
    <3>1. passes' \in [Drafts -> 0 .. MaxPasses]
      BY <2>0, DraftQueueAssumption DEF TypeOK
    <3>2. spent' \in 0 .. MaxSpent
      BY DraftQueueAssumption DEF TypeOK
    <3>3. status' \in [Drafts -> Statuses] /\ job' \in [Drafts -> Jobs]
      BY DEF TypeOK, Statuses, Jobs
    <3>4. QED
      BY <3>1, <3>2, <3>3 DEF TypeOK, itemVars
  <2>2. QueueConsistent'
    BY DEF QueueConsistent, TypeOK
  <2>3. PassesBounded'
    BY <2>0, DraftQueueAssumption DEF PassesBounded, TypeOK
  <2>4. Blank'
    BY <2>0 DEF Blank, TypeOK
  <2>5. QED
    BY <2>1, <2>2, <2>3, <2>4
<1>9. QED
  BY <1>1, <1>2, <1>4, <1>5, <1>6, <1>7, <1>8

LEMMA ServerKeepsInv ==
  ASSUME QueueInv, ServerStep
  PROVE  QueueInv'
<1> USE DEF QueueInv
<1>1. ASSUME NEW r \in Requests, ConfirmCommit(r)
      PROVE  QueueInv'
  <2>1. confirming[r] \in Request
    BY <1>1 DEF ConfirmCommit, TypeOK
  <2>2. confirming' \in [Requests -> Request \cup {NoReq}]
    BY <1>1 DEF ConfirmCommit, TypeOK
  <2>3. QED
    BY <1>1, <2>1, <2>2, SubmitKeepsInv DEF ConfirmCommit
<1>2. ASSUME NEW r \in Requests, ConfirmRefused(r)
      PROVE  QueueInv'
  BY <1>2 DEF ConfirmRefused, TypeOK, QueueConsistent, PassesBounded, Blank,
              queueVars, rowVars, itemVars, dayVars
<1>3. ASSUME NEW D \in SUBSET Drafts, BeatsExpire(D)
      PROVE  QueueInv'
  BY <1>3 DEF BeatsExpire, TypeOK, QueueConsistent, PassesBounded, Blank,
              rowVars, itemVars, dayVars
<1>4. ASSUME NewDay
      PROVE  QueueInv'
  BY <1>4, DraftQueueAssumption DEF NewDay, TypeOK, QueueConsistent, PassesBounded, Blank,
              queueVars, rowVars, itemVars
<1>5. QED
  BY <1>1, <1>2, <1>3, <1>4 DEF ServerStep

LEMMA StutterKeepsInv ==
  ASSUME QueueInv, UNCHANGED vars
  PROVE  QueueInv'
  BY DEF QueueInv, TypeOK, QueueConsistent, PassesBounded, Blank, vars

LEMMA InitInv == Init => QueueInv
<1> SUFFICES ASSUME Init PROVE QueueInv
  OBVIOUS
<1>1. TypeOK
  BY EmptyTable, DraftQueueAssumption DEF Init, TypeOK, Statuses, Jobs
<1>2. QueueConsistent /\ PassesBounded /\ Blank
  BY DraftQueueAssumption DEF Init, QueueConsistent, PassesBounded, Blank
<1>3. QED
  BY <1>1, <1>2 DEF QueueInv

\* The queue's invariant holds in every state of every behaviour.
THEOREM QueueInvariant == Spec => []QueueInv
<1>1. QueueInv /\ [Next]_vars => QueueInv'
  BY ContributorKeepsInv, WorkerKeepsInv, ServerKeepsInv, StutterKeepsInv DEF Next
<1>2. QED
  BY InitInv, <1>1, PTL DEF Spec

\* Every row keeps its shape and every counter its bound (draft.ts).
THEOREM Typing == Spec => []TypeOK
  BY QueueInvariant, PTL DEF QueueInv

\* A draft waits or runs exactly while it has a job, and only a running or an
\* abandoned one names a worker (claimJob, finishPass, abandonDraft, confirmDraft).
THEOREM QueueStaysConsistent == Spec => []QueueConsistent
  BY QueueInvariant, PTL DEF QueueInv

\* No order of enqueues, claims, losses and finishes buys a draft more than
\* INTAKE_MAX_PASSES passes, the queued one counted.
THEOREM PassesStayBounded == Spec => []PassesBounded
  BY QueueInvariant, PTL DEF QueueInv

-----------------------------------------------------------------------------
(* What a step may change, by the actions that change it.                  *)

\* The steps that write a card of draft d.
CardWrite(d) ==
  \/ \E u \in Contributors, c \in Cids : PatchCandidate(u, d, c)
  \/ \E w \in Workers : \/ \E p \in Proposals : Propose(w, d, p)
                        \/ \E c \in Cids : UpdateCandidate(w, d, c) \/ RemoveCandidate(w, d, c)

\* The steps that create draft d, empty or from the open items of another.
Opened(d) ==
  /\ status[d] = "none" /\ status'[d] # "none"
  /\ \/ cards'[d] = NoCards
     \/ \E s \in Drafts : \E known, lost \in SUBSET Present(cards[s]) :
          LostTogether(s, lost) /\ cards'[d] = PickedCards(s, known, lost)

LEMMA CardsMove ==
  ASSUME QueueInv, Next, NEW d \in Drafts, cards'[d] # cards[d]
  PROVE  Opened(d) \/ CardWrite(d)
<1> USE DEF QueueInv
<1>0. cards \in [Drafts -> CardTable]
  BY DEF TypeOK
<1>1. CASE ContributorStep
  <2>1. ASSUME NEW u \in Contributors, CreateDraft(u)
        PROVE  Opened(d)
    <3>1. PICK e \in Drafts : Insert(u, e, 0, "initial", NoCards)
      BY <2>1 DEF CreateDraft
    <3>2. e = d /\ cards'[d] = NoCards
      BY <1>0, <3>1 DEF Insert
    <3>3. QED
      BY <3>1, <3>2 DEF Insert, Unused, Opened, TypeOK
  <2>2. ASSUME NEW u \in Contributors, NEW s \in Drafts, CreatePickupDraft(u, s)
        PROVE  Opened(d)
    <3>1. PICK known, lost \in SUBSET Present(cards[s]), e \in Drafts :
            LostTogether(s, lost) /\ Insert(u, e, s, "none", PickedCards(s, known, lost))
      BY <2>2 DEF CreatePickupDraft
    <3>2. e = d /\ cards'[d] = PickedCards(s, known, lost)
      BY <1>0, <3>1 DEF Insert
    <3>3. QED
      BY <3>1, <3>2 DEF Insert, Unused, Opened, TypeOK
  <2>3. ASSUME NEW u \in Contributors, NEW e \in Drafts, NEW c \in Cids, PatchCandidate(u, e, c)
        PROVE  CardWrite(d)
    <3>1. d = e
      BY <1>0, <2>3 DEF PatchCandidate
    <3>2. QED
      BY <2>3, <3>1 DEF CardWrite
  <2>4. ASSUME NEW u \in Contributors, NEW e \in Drafts,
               \/ EnqueueChat(u, e)
               \/ \E focus \in BOOLEAN : EnqueueContinue(u, e, focus)
               \/ AbandonDraft(u, e)
               \/ ConfirmAtOnce(u, e)
               \/ \E r \in Requests : ConfirmBegin(u, e, r)
        PROVE  FALSE
    BY <2>4 DEF EnqueueChat, EnqueueContinue, Enqueue, AbandonDraft, ConfirmAtOnce, Submit,
                ConfirmBegin
  <2>5. QED
    BY <1>1, <2>1, <2>2, <2>3, <2>4 DEF ContributorStep
<1>2. CASE WorkerStep
  <2>1. PICK w \in Workers, e \in Drafts :
          \/ \E pinned \in BOOLEAN : ClaimJob(w, e, pinned)
          \/ Heartbeat(w, e)
          \/ \E p \in Proposals : Propose(w, e, p)
          \/ \E c \in Cids : UpdateCandidate(w, e, c) \/ RemoveCandidate(w, e, c)
          \/ AddMessage(w, e)
          \/ \E error \in BOOLEAN, cost \in 0 .. MaxCost : FinishPass(w, e, error, cost)
    BY <1>2 DEF WorkerStep
  <2>2. \/ \E p \in Proposals : Propose(w, e, p)
        \/ \E c \in Cids : UpdateCandidate(w, e, c) \/ RemoveCandidate(w, e, c)
    BY <2>1 DEF ClaimJob, Heartbeat, AddMessage, FinishPass
  <2>3. \E c \in Cids : \E k : cards' = [cards EXCEPT ![e][c] = k]
    BY <2>2 DEF Propose, UpdateCandidate, RemoveCandidate
  <2>4. d = e
    BY <1>0, <2>3
  <2>5. QED
    BY <2>2, <2>4 DEF CardWrite
<1>3. CASE ServerStep
  BY <1>3 DEF ServerStep, ConfirmCommit, Submit, ConfirmRefused, BeatsExpire, NewDay
<1>4. QED
  BY <1>1, <1>2, <1>3 DEF Next

\* The confirms that may commit: one back from its mirrors, or one that had none.
CommitOf(q) ==
  /\ \/ \E r \in Requests : q = confirming[r] /\ confirming[r] # NoReq
     \/ \E d \in Drafts : q = Snapshot(d)
  /\ \E left \in SUBSET (Images(q.cards, q.gone) \cup NewNodes(q.cards, q.gone)) :
       Submit(q, left)

\* Only a commit writes a batch or an open item.
LEMMA SheetsMove ==
  ASSUME QueueInv, Next
  PROVE  UNCHANGED <<items, decidedIn, batch>> \/ \E q \in Request : CommitOf(q)
<1> USE DEF QueueInv
<1>1. CASE ContributorStep
  <2>1. ASSUME NEW u \in Contributors, NEW d \in Drafts, ConfirmAtOnce(u, d)
        PROVE  \E q \in Request : CommitOf(q)
    <3>1. PICK left \in SUBSET NewNodes(cards[d], GoneItems(d)) : Submit(Snapshot(d), left)
      BY <2>1 DEF ConfirmAtOnce
    <3>2. CommitOf(Snapshot(d))
      BY <3>1 DEF CommitOf, Snapshot
    <3>3. QED
      BY <3>2, SnapshotTyped
  <2>2. ASSUME NEW u \in Contributors,
               \/ CreateDraft(u)
               \/ \E d \in Drafts :
                    \/ EnqueueChat(u, d)
                    \/ \E focus \in BOOLEAN : EnqueueContinue(u, d, focus)
                    \/ AbandonDraft(u, d)
                    \/ \E c \in Cids : PatchCandidate(u, d, c)
                    \/ CreatePickupDraft(u, d)
                    \/ \E r \in Requests : ConfirmBegin(u, d, r)
        PROVE  UNCHANGED <<items, decidedIn, batch>>
    BY <2>2 DEF CreateDraft, Insert, EnqueueChat, EnqueueContinue, Enqueue, AbandonDraft,
                PatchCandidate, CreatePickupDraft, ConfirmBegin, itemVars
  <2>3. QED
    BY <1>1, <2>1, <2>2 DEF ContributorStep
<1>2. CASE WorkerStep
  <2>1. PICK w \in Workers, d \in Drafts :
          \/ \E pinned \in BOOLEAN : ClaimJob(w, d, pinned)
          \/ Heartbeat(w, d)
          \/ \E p \in Proposals : Propose(w, d, p)
          \/ \E c \in Cids : UpdateCandidate(w, d, c) \/ RemoveCandidate(w, d, c)
          \/ AddMessage(w, d)
          \/ \E error \in BOOLEAN, cost \in 0 .. MaxCost : FinishPass(w, d, error, cost)
    BY <1>2 DEF WorkerStep
  <2>2. CASE \/ \E pinned \in BOOLEAN : ClaimJob(w, d, pinned)
             \/ Heartbeat(w, d)
             \/ AddMessage(w, d)
             \/ \E error \in BOOLEAN, cost \in 0 .. MaxCost : FinishPass(w, d, error, cost)
    BY <2>2 DEF ClaimJob, Heartbeat, AddMessage, FinishPass, itemVars
  <2>3. CASE \/ \E p \in Proposals : Propose(w, d, p)
             \/ \E c \in Cids : UpdateCandidate(w, d, c) \/ RemoveCandidate(w, d, c)
    <3>1. OnlyCards
      BY <2>3 DEF Propose, UpdateCandidate, RemoveCandidate
    <3>2. QED
      BY <3>1 DEF OnlyCards, itemVars
  <2>4. QED
    BY <2>1, <2>2, <2>3
<1>3. CASE ServerStep
  <2>1. ASSUME NEW r \in Requests, ConfirmCommit(r)
        PROVE  \E q \in Request : CommitOf(q)
    <3>1. confirming[r] \in Request
      BY <2>1 DEF ConfirmCommit, TypeOK
    <3>2. CommitOf(confirming[r])
      BY <2>1 DEF ConfirmCommit, CommitOf
    <3>3. QED
      BY <3>1, <3>2
  <2>2. ASSUME \/ \E r \in Requests : ConfirmRefused(r)
               \/ \E D \in SUBSET Drafts : BeatsExpire(D)
               \/ NewDay
        PROVE  UNCHANGED <<items, decidedIn, batch>>
    BY <2>2 DEF ConfirmRefused, BeatsExpire, NewDay, itemVars
  <2>3. QED
    BY <1>3, <2>1, <2>2 DEF ServerStep
<1>4. QED
  BY <1>1, <1>2, <1>3 DEF Next

\* Nothing moves the status or the job of a draft submitted or given up.
LEMMA ClosedStays ==
  ASSUME QueueInv, Next, NEW d \in Drafts, status[d] \in {"submitted", "abandoned"}
  PROVE  status'[d] = status[d] /\ job'[d] = job[d]
<1> USE DEF QueueInv
<1>0. job[d] = "none"
  BY DEF QueueConsistent
<1>1. CASE ContributorStep
  <2>1. PICK u \in Contributors :
          \/ CreateDraft(u)
          \/ \E e \in Drafts :
               \/ EnqueueChat(u, e)
               \/ \E focus \in BOOLEAN : EnqueueContinue(u, e, focus)
               \/ AbandonDraft(u, e)
               \/ \E c \in Cids : PatchCandidate(u, e, c)
               \/ CreatePickupDraft(u, e)
               \/ ConfirmAtOnce(u, e)
               \/ \E r \in Requests : ConfirmBegin(u, e, r)
    BY <1>1 DEF ContributorStep
  <2>2. CASE CreateDraft(u) \/ \E e \in Drafts : CreatePickupDraft(u, e)
    BY <2>2 DEF CreateDraft, CreatePickupDraft, Insert, Unused, TypeOK
  <2>3. CASE \E e \in Drafts : \/ EnqueueChat(u, e)
                               \/ \E focus \in BOOLEAN : EnqueueContinue(u, e, focus)
    <3>1. PICK e \in Drafts, kind \in {"chat", "continue"} : Enqueue(e, kind)
      BY <2>3 DEF EnqueueChat, EnqueueContinue
    <3>2. e # d
      BY <3>1 DEF Enqueue, MayEnqueue
    <3>3. QED
      BY <3>1, <3>2 DEF Enqueue, TypeOK
  <2>4. CASE \E e \in Drafts : AbandonDraft(u, e)
    BY <1>0, <2>4 DEF AbandonDraft, TypeOK
  <2>5. CASE \E e \in Drafts : \/ \E c \in Cids : PatchCandidate(u, e, c)
                               \/ \E r \in Requests : ConfirmBegin(u, e, r)
    <3>1. UNCHANGED queueVars
      BY <2>5 DEF PatchCandidate, ConfirmBegin
    <3>2. QED
      BY <3>1 DEF queueVars
  <2>6. CASE \E e \in Drafts : ConfirmAtOnce(u, e)
    BY <2>6 DEF ConfirmAtOnce, Submit, SameDraft, Snapshot, TypeOK
  <2>7. QED
    BY <2>1, <2>2, <2>3, <2>4, <2>5, <2>6
<1>2. CASE WorkerStep
  <2>1. PICK w \in Workers, e \in Drafts :
          \/ \E pinned \in BOOLEAN : ClaimJob(w, e, pinned)
          \/ Heartbeat(w, e)
          \/ \E p \in Proposals : Propose(w, e, p)
          \/ \E c \in Cids : UpdateCandidate(w, e, c) \/ RemoveCandidate(w, e, c)
          \/ AddMessage(w, e)
          \/ \E error \in BOOLEAN, cost \in 0 .. MaxCost : FinishPass(w, e, error, cost)
    BY <1>2 DEF WorkerStep
  <2>2. CASE \E pinned \in BOOLEAN : ClaimJob(w, e, pinned)
    BY <1>0, <2>2 DEF ClaimJob, Claimable, TypeOK
  <2>3. CASE \E error \in BOOLEAN, cost \in 0 .. MaxCost : FinishPass(w, e, error, cost)
    <3>1. e # d
      BY <1>0, <2>3 DEF FinishPass, Claimed
    <3>2. QED
      BY <2>3, <3>1 DEF FinishPass, TypeOK
  <2>4. CASE Heartbeat(w, e) \/ AddMessage(w, e)
    BY <2>4 DEF Heartbeat, AddMessage, queueVars
  <2>5. CASE \/ \E p \in Proposals : Propose(w, e, p)
             \/ \E c \in Cids : UpdateCandidate(w, e, c) \/ RemoveCandidate(w, e, c)
    <3>1. OnlyCards
      BY <2>5 DEF Propose, UpdateCandidate, RemoveCandidate
    <3>2. QED
      BY <3>1 DEF OnlyCards, queueVars
  <2>6. QED
    BY <2>1, <2>2, <2>3, <2>4, <2>5
<1>3. CASE ServerStep
  <2>1. ASSUME NEW r \in Requests, ConfirmCommit(r)
        PROVE  status'[d] = status[d] /\ job'[d] = job[d]
    <3>1. confirming[r].draft # d
      BY <2>1 DEF ConfirmCommit, Submit, SameDraft
    <3>2. QED
      BY <2>1, <3>1 DEF ConfirmCommit, Submit, TypeOK
  <2>2. CASE (\E r \in Requests : ConfirmRefused(r)) \/ (\E D \in SUBSET Drafts : BeatsExpire(D)) \/ NewDay
    BY <2>2 DEF ConfirmRefused, BeatsExpire, NewDay, queueVars
  <2>3. QED
    BY <1>3, <2>1, <2>2 DEF ServerStep
<1>4. QED
  BY <1>1, <1>2, <1>3 DEF Next

LEMMA SubmittedStays ==
  ASSUME QueueInv, Next, NEW d \in Drafts, status[d] = "submitted"
  PROVE  status'[d] = "submitted" /\ job'[d] = job[d]
  BY ClosedStays

\* A row is never deleted.
LEMMA RowsStay ==
  ASSUME QueueInv, Next, NEW d \in Drafts, status'[d] = "none"
  PROVE  status[d] = "none"
<1> USE DEF QueueInv
<1>1. CASE ContributorStep
  <2>1. PICK u \in Contributors :
          \/ CreateDraft(u)
          \/ \E e \in Drafts :
               \/ EnqueueChat(u, e)
               \/ \E focus \in BOOLEAN : EnqueueContinue(u, e, focus)
               \/ AbandonDraft(u, e)
               \/ \E c \in Cids : PatchCandidate(u, e, c)
               \/ CreatePickupDraft(u, e)
               \/ ConfirmAtOnce(u, e)
               \/ \E r \in Requests : ConfirmBegin(u, e, r)
    BY <1>1 DEF ContributorStep
  <2>2. CASE CreateDraft(u) \/ \E e \in Drafts : CreatePickupDraft(u, e)
    BY <2>2 DEF CreateDraft, CreatePickupDraft, Insert, TypeOK
  <2>3. CASE \E e \in Drafts : \/ EnqueueChat(u, e)
                               \/ \E focus \in BOOLEAN : EnqueueContinue(u, e, focus)
    BY <2>3 DEF EnqueueChat, EnqueueContinue, Enqueue, TypeOK
  <2>4. CASE \E e \in Drafts : AbandonDraft(u, e) \/ ConfirmAtOnce(u, e)
    BY <2>4 DEF AbandonDraft, ConfirmAtOnce, Submit, TypeOK
  <2>5. CASE \E e \in Drafts : \/ \E c \in Cids : PatchCandidate(u, e, c)
                               \/ \E r \in Requests : ConfirmBegin(u, e, r)
    BY <2>5 DEF PatchCandidate, ConfirmBegin, queueVars
  <2>6. QED
    BY <2>1, <2>2, <2>3, <2>4, <2>5
<1>2. CASE WorkerStep
  <2>1. PICK w \in Workers, e \in Drafts :
          \/ \E pinned \in BOOLEAN : ClaimJob(w, e, pinned)
          \/ Heartbeat(w, e)
          \/ \E p \in Proposals : Propose(w, e, p)
          \/ \E c \in Cids : UpdateCandidate(w, e, c) \/ RemoveCandidate(w, e, c)
          \/ AddMessage(w, e)
          \/ \E error \in BOOLEAN, cost \in 0 .. MaxCost : FinishPass(w, e, error, cost)
    BY <1>2 DEF WorkerStep
  <2>2. CASE \/ \E pinned \in BOOLEAN : ClaimJob(w, e, pinned)
             \/ \E error \in BOOLEAN, cost \in 0 .. MaxCost : FinishPass(w, e, error, cost)
    BY <2>2 DEF ClaimJob, FinishPass, TypeOK
  <2>3. CASE Heartbeat(w, e) \/ AddMessage(w, e)
    BY <2>3 DEF Heartbeat, AddMessage, queueVars
  <2>4. CASE \/ \E p \in Proposals : Propose(w, e, p)
             \/ \E c \in Cids : UpdateCandidate(w, e, c) \/ RemoveCandidate(w, e, c)
    <3>1. OnlyCards
      BY <2>4 DEF Propose, UpdateCandidate, RemoveCandidate
    <3>2. QED
      BY <3>1 DEF OnlyCards, queueVars
  <2>5. QED
    BY <2>1, <2>2, <2>3, <2>4
<1>3. CASE ServerStep
  BY <1>3 DEF ServerStep, ConfirmCommit, Submit, ConfirmRefused, BeatsExpire, NewDay,
              queueVars, TypeOK
<1>4. QED
  BY <1>1, <1>2, <1>3 DEF Next

\* Nothing writes the sheet of a submitted draft.
LEMMA SheetStays ==
  ASSUME QueueInv, Next, NEW d \in Drafts, status[d] = "submitted"
  PROVE  cards'[d] = cards[d] /\ batch'[d] = batch[d] /\ items'[d] = items[d]
<1> USE DEF QueueInv
<1>1. cards'[d] = cards[d]
  <2>1. ~Opened(d)
    BY DEF Opened
  <2>2. ~CardWrite(d)
    BY DEF CardWrite, PatchCandidate, Propose, UpdateCandidate, RemoveCandidate, Claimed,
           QueueConsistent
  <2>3. QED
    BY <2>1, <2>2, CardsMove
<1>2. ASSUME NEW q \in Request, CommitOf(q)
      PROVE  batch'[d] = batch[d] /\ items'[d] = items[d]
  <2>1. PICK left : Submit(q, left)
    BY <1>2 DEF CommitOf
  <2>2. q.draft # d
    BY <2>1 DEF Submit, SameDraft
  <2>3. QED
    BY <2>1, <2>2 DEF Submit, TypeOK
<1>3. QED
  BY <1>1, <1>2, SheetsMove

\* Only a claim of a silent worker's job moves a running draft to another worker.
THEOREM ClaimsStayExclusive == Spec => ClaimsExclusive
<1>1. ASSUME QueueInv, Next, NEW d \in Drafts, status[d] = "running",
             claimedBy'[d] \notin {claimedBy[d], NoWorker}
      PROVE  beat[d] = "stale"
  <2> USE <1>1 DEF QueueInv
  <2>1. CASE ContributorStep
    <3>1. PICK u \in Contributors :
            \/ CreateDraft(u)
            \/ \E e \in Drafts :
                 \/ EnqueueChat(u, e)
                 \/ \E focus \in BOOLEAN : EnqueueContinue(u, e, focus)
                 \/ AbandonDraft(u, e)
                 \/ \E c \in Cids : PatchCandidate(u, e, c)
                 \/ CreatePickupDraft(u, e)
                 \/ ConfirmAtOnce(u, e)
                 \/ \E r \in Requests : ConfirmBegin(u, e, r)
      BY <2>1 DEF ContributorStep
    <3>2. UNCHANGED claimedBy
      BY <3>1 DEF CreateDraft, Insert, EnqueueChat, EnqueueContinue, Enqueue, AbandonDraft,
                  PatchCandidate, CreatePickupDraft, ConfirmAtOnce, Submit, ConfirmBegin,
                  queueVars
    <3>3. QED
      BY <3>2
  <2>2. CASE WorkerStep
    <3>1. PICK w \in Workers, e \in Drafts :
            \/ \E pinned \in BOOLEAN : ClaimJob(w, e, pinned)
            \/ Heartbeat(w, e)
            \/ \E p \in Proposals : Propose(w, e, p)
            \/ \E c \in Cids : UpdateCandidate(w, e, c) \/ RemoveCandidate(w, e, c)
            \/ AddMessage(w, e)
            \/ \E error \in BOOLEAN, cost \in 0 .. MaxCost : FinishPass(w, e, error, cost)
      BY <2>2 DEF WorkerStep
    <3>2. CASE \E pinned \in BOOLEAN : ClaimJob(w, e, pinned)
      <4>1. d = e /\ beat[d] # "fresh"
        BY <3>2 DEF ClaimJob, Claimable, TypeOK
      <4>2. beat[d] \in {"none", "fresh", "stale"} /\ beat[d] # "none"
        BY DEF TypeOK, QueueConsistent
      <4>3. QED
        BY <4>1, <4>2
    <3>3. CASE \E error \in BOOLEAN, cost \in 0 .. MaxCost : FinishPass(w, e, error, cost)
      BY <3>3 DEF FinishPass, TypeOK
    <3>4. CASE Heartbeat(w, e) \/ AddMessage(w, e)
      BY <3>4 DEF Heartbeat, AddMessage, queueVars
    <3>5. CASE \/ \E p \in Proposals : Propose(w, e, p)
               \/ \E c \in Cids : UpdateCandidate(w, e, c) \/ RemoveCandidate(w, e, c)
      <4>1. OnlyCards
        BY <3>5 DEF Propose, UpdateCandidate, RemoveCandidate
      <4>2. QED
        BY <4>1 DEF OnlyCards, queueVars
    <3>6. QED
      BY <3>1, <3>2, <3>3, <3>4, <3>5
  <2>3. CASE ServerStep
    BY <2>3 DEF ServerStep, ConfirmCommit, Submit, ConfirmRefused, BeatsExpire, NewDay, queueVars
  <2>4. QED
    BY <2>1, <2>2, <2>3 DEF Next
<1>2. QueueInv /\ Next =>
        \A d \in Drafts :
          /\ status[d] = "running"
          /\ claimedBy'[d] \notin {claimedBy[d], NoWorker}
          => beat[d] = "stale"
  BY <1>1
<1>3. QED
  BY <1>2, QueueInvariant, PTL DEF Spec, ClaimsExclusive

-----------------------------------------------------------------------------
(* The review sheets: what a confirm submits, and what stays as the        *)
(* contributor left it.                                                    *)

\* A card is accepted by the contributor only, rejected by them or for its link,
\* and a node card needs no other.
CardSound(k) == /\ k.state = "accepted" => k.edited
                /\ k.state = "rejected" => k.edited \/ k.badLink
                /\ k.kind = "node" => k.deps = {}

CardsSound == \A d \in Drafts : \A c \in Present(cards[d]) : CardSound(cards[d][c])

\* A number no draft has yet has no card.
BlankCards == \A d \in Drafts : status[d] = "none" => cards[d] = NoCards

LEMMA PickedCardsSound ==
  ASSUME TypeOK, CardsSound, NEW s \in Drafts, NEW known, NEW lost,
         NEW c \in Present(PickedCards(s, known, lost))
  PROVE  CardSound(PickedCards(s, known, lost)[c])
<1> DEFINE src == cards[s]
           take == {e \in Present(src) : ItemOpen(s, e)}
           needed == UNION {src[e].deps : e \in take} \ take
           carry == {e \in needed : e \in Present(src) /\ src[e].kind = "node"} \ known
           kept == (take \cup carry) \ lost
<1>1. PickedCards(s, known, lost) =
        [e \in Cids |-> IF e \in kept
                        THEN PickedCard(src[e], take \cup carry, e \in take, known, e)
                        ELSE NoCard]
  BY DEF PickedCards
<1>2. c \in kept /\ c \in Cids
  BY <1>1 DEF Present
<1>3. src[c] \in Card /\ CardSound(src[c])
  BY <1>2, PresentIsCard DEF TypeOK, CardsSound
<1>4. \A carried, taken : CardSound(PickedCard(src[c], carried, taken, known, c))
  BY <1>3 DEF CardSound, PickedCard, Card, StatesOf, LinkUnchecked
<1>5. QED
  BY <1>1, <1>2, <1>4

LEMMA CardsStaySound ==
  ASSUME QueueInv, CardsSound, Next
  PROVE  CardsSound'
<1> SUFFICES ASSUME NEW d \in Drafts, NEW c \in Present(cards'[d]), cards'[d] # cards[d]
             PROVE  CardSound(cards'[d][c])
  BY DEF CardsSound
<1>0. cards \in [Drafts -> CardTable] /\ TypeOK /\ c \in Cids
  BY DEF QueueInv, TypeOK, Present
<1>1. CASE Opened(d)
  <2>1. CASE cards'[d] = NoCards
    BY <2>1 DEF NoCards, Present
  <2>2. CASE \E s \in Drafts : \E known, lost \in SUBSET Present(cards[s]) :
               cards'[d] = PickedCards(s, known, lost)
    BY <1>0, <2>2, PickedCardsSound
  <2>3. QED
    BY <1>1, <2>1, <2>2 DEF Opened
<1>2. ASSUME NEW e \in Cids, NEW k \in Card, CardSound(k),
             cards' = [cards EXCEPT ![d][e] = k]
      PROVE  CardSound(cards'[d][c])
  <2>1. CASE c = e
    BY <1>0, <1>2, <2>1 DEF CardTable
  <2>2. CASE c # e
    BY <1>0, <1>2, <2>2 DEF CardTable, CardsSound, Present
  <2>3. QED
    BY <2>1, <2>2
<1>3. ASSUME NEW u \in Contributors, NEW e \in Cids, PatchCandidate(u, d, e)
      PROVE  CardSound(cards'[d][c])
  <2>1. PICK k \in Card : /\ cards' = [cards EXCEPT ![d][e] = k]
                          /\ k.kind = cards[d][e].kind /\ k.deps = cards[d][e].deps
                          /\ k.edited
    BY <1>0, <1>3, PatchWrites
  <2>2. CardSound(cards[d][e])
    BY <1>3 DEF PatchCandidate, CardsSound
  <2>3. QED
    BY <1>2, <2>1, <2>2 DEF CardSound
<1>4. ASSUME NEW w \in Workers, NEW p \in Proposals, Propose(w, d, p)
      PROVE  CardSound(cards'[d][c])
  <2> DEFINE k == [kind |-> p.kind, text |-> p.text, deps |-> p.deps,
                   onGraph |-> p.onGraph, badLink |-> p.badLink, edited |-> FALSE,
                   state |-> IF p.badLink THEN "rejected" ELSE "proposed"]
  <2>1. k \in Card /\ CardSound(k)
    BY DraftQueueAssumption DEF Proposal, Card, CardStates, StatesOf, CardSound
  <2>2. PICK e \in Cids : cards' = [cards EXCEPT ![d][e] = k]
    BY <1>4 DEF Propose
  <2> HIDE DEF k
  <2>3. QED
    BY <1>2, <2>1, <2>2
<1>5. ASSUME NEW w \in Workers, NEW e \in Cids, UpdateCandidate(w, d, e)
      PROVE  CardSound(cards'[d][c])
  <2>1. PICK k \in Card : /\ cards' = [cards EXCEPT ![d][e] = k]
                          /\ k.kind = cards[d][e].kind
                          /\ k.state = cards[d][e].state /\ k.edited = cards[d][e].edited
                          /\ k.badLink = cards[d][e].badLink
                          /\ k.deps = cards[d][e].deps \/ k.kind # "node"
    BY <1>0, <1>5, UpdateWrites
  <2>2. CardSound(cards[d][e])
    BY <1>5 DEF UpdateCandidate, CardsSound
  <2>3. QED
    BY <1>2, <2>1, <2>2 DEF CardSound
<1>6. ASSUME NEW w \in Workers, NEW e \in Cids, RemoveCandidate(w, d, e)
      PROVE  CardSound(cards'[d][c])
  <2>1. cards' = [cards EXCEPT ![d][e] = NoCard]
    BY <1>6 DEF RemoveCandidate
  <2>2. c # e
    BY <1>0, <2>1 DEF Present, CardTable
  <2>3. QED
    BY <1>0, <2>1, <2>2 DEF Present, CardTable, CardsSound
<1>7. QED
  BY <1>1, <1>3, <1>4, <1>5, <1>6, CardsMove DEF CardWrite

LEMMA BlankCardsStay ==
  ASSUME QueueInv, BlankCards, Next
  PROVE  BlankCards'
<1> SUFFICES ASSUME NEW d \in Drafts, status'[d] = "none"
             PROVE  cards'[d] = NoCards
  BY DEF BlankCards
<1>1. status[d] = "none"
  BY RowsStay
<1>2. ~Opened(d)
  BY DEF Opened
<1>3. ~CardWrite(d)
  BY <1>1 DEF CardWrite, PatchCandidate, Propose, UpdateCandidate, RemoveCandidate, Claimed,
              QueueInv, QueueConsistent
<1>4. QED
  BY <1>1, <1>2, <1>3, CardsMove DEF BlankCards

\* What a confirm submits, whichever draft it read: cards of its draft, accepted
\* and touched, whose references are accepted node cards.
LEMMA SubmitSound ==
  ASSUME QueueInv, CardsSound, NEW q \in Request, CommitOf(q),
         NEW c \in Present(batch'[q.draft])
  PROVE  /\ status'[q.draft] = "submitted"
         /\ batch'[q.draft][c] = cards[q.draft][c]
         /\ batch'[q.draft][c].edited /\ batch'[q.draft][c].state = "accepted"
         /\ \A e \in batch'[q.draft][c].deps :
              /\ e \in Present(cards[q.draft])
              /\ cards[q.draft][e].kind = "node" /\ cards[q.draft][e].state = "accepted"
<1> DEFINE d == q.draft
<1>1. PICK left : Submit(q, left)
  BY DEF CommitOf
<1> DEFINE ops == Ops(q.cards, q.gone, left)
<1>2. /\ d \in Drafts /\ q.cards \in CardTable /\ cards[d] = q.cards
      /\ status'[d] = "submitted"
      /\ batch'[d] = [e \in Cids |-> IF e \in ops THEN q.cards[e] ELSE NoCard]
  BY <1>1 DEF Submit, SameDraft, Request, QueueInv, TypeOK
<1>3. c \in ops /\ c \in Cids
  BY <1>2 DEF Present
<1>4. \A e \in Accepted(q.cards, q.gone) :
        /\ e \in Present(q.cards) /\ q.cards[e].state = "accepted"
        /\ q.cards[e].edited
  BY <1>2 DEF Accepted, Settled, CardsSound, CardSound
<1>5. c \in Resolved(q.cards, q.gone)
  BY <1>3 DEF Ops
<1>6. batch'[d][c] = q.cards[c]
  BY <1>2, <1>3
<1>7. \A e \in q.cards[c].deps : e \in Accepted(q.cards, q.gone) /\ q.cards[e].kind = "node"
  BY <1>5 DEF Resolved
<1>8. QED
  BY <1>2, <1>4, <1>5, <1>6, <1>7 DEF Resolved

\* The inductive invariant of the review sheets.
SheetInv == BlankCards /\ CardsSound /\ BatchAsReviewed /\ BatchClosed

LEMMA BatchesStay ==
  ASSUME QueueInv, SheetInv, Next
  PROVE  BatchAsReviewed' /\ BatchClosed'
<1> SUFFICES ASSUME NEW d \in Drafts, NEW c \in Present(batch'[d])
             PROVE  /\ status'[d] = "submitted"
                    /\ batch'[d][c] = cards'[d][c]
                    /\ batch'[d][c].edited /\ batch'[d][c].state = "accepted"
                    /\ \A e \in batch'[d][c].deps :
                         /\ e \in Present(cards'[d])
                         /\ cards'[d][e].kind = "node" /\ cards'[d][e].state = "accepted"
  BY DEF BatchAsReviewed, BatchClosed
<1>1. CASE batch'[d] = batch[d]
  <2>1. status[d] = "submitted"
    BY <1>1 DEF SheetInv, BatchAsReviewed
  <2>2. status'[d] = "submitted" /\ cards'[d] = cards[d]
    BY <2>1, SubmittedStays, SheetStays
  <2>3. QED
    BY <1>1, <2>2 DEF SheetInv, BatchAsReviewed, BatchClosed
<1>2. CASE batch'[d] # batch[d]
  <2>1. PICK q \in Request : CommitOf(q)
    BY <1>2, SheetsMove
  <2>2. cards' = cards /\ q.draft = d
    BY <1>2, <2>1 DEF CommitOf, Submit, QueueInv, TypeOK, Request
  <2>3. QED
    BY <2>1, <2>2, SubmitSound DEF SheetInv
<1>3. QED
  BY <1>1, <1>2

LEMMA InitSheets == Init => SheetInv
  BY DEF Init, SheetInv, BlankCards, CardsSound, BatchAsReviewed, BatchClosed, NoCards, Present

\* The invariant of the review sheets holds in every state of every behaviour.
THEOREM SheetInvariant == Spec => []SheetInv
<1>1. QueueInv /\ SheetInv /\ Next => SheetInv'
  BY BlankCardsStay, CardsStaySound, BatchesStay DEF SheetInv
<1>2. SheetInv /\ UNCHANGED vars => SheetInv'
  BY DEF SheetInv, BlankCards, CardsSound, BatchAsReviewed, BatchClosed, vars
<1>3. QED
  BY InitSheets, <1>1, <1>2, QueueInvariant, PTL DEF Spec

\* However cards change while a confirm mirrors its images, every operation of a
\* batch is a card its contributor accepted, as the submitted draft holds it.
THEOREM BatchesAreAsReviewed == Spec => []BatchAsReviewed
  BY SheetInvariant, PTL DEF SheetInv

\* Every card an operation of a batch refers to is a node card accepted with it.
THEOREM BatchesAreClosed == Spec => []BatchClosed
  BY SheetInvariant, PTL DEF SheetInv

\* Once submitted, a draft keeps its status, its job, its cards, its batch and the
\* items it left, whatever late workers, confirms and contributors do.
THEOREM SubmissionIsFinal == Spec => SubmittedIsFinal
<1>1. QueueInv /\ Next =>
        \A d \in Drafts : status[d] = "submitted" =>
          /\ status'[d] = "submitted" /\ job'[d] = job[d]
          /\ cards'[d] = cards[d] /\ batch'[d] = batch[d]
          /\ items'[d] = items[d]
  BY SubmittedStays, SheetStays
<1>2. QED
  BY <1>1, QueueInvariant, PTL DEF Spec, SubmittedIsFinal

\* A card its contributor touched changes only by their own hand, while the draft
\* is theirs to review.
THEOREM TouchedCardsStay == Spec => TouchedCardsStand
<1>1. ASSUME QueueInv, SheetInv, Next, NEW d \in Drafts, NEW c \in Present(cards[d]),
             cards[d][c].edited, cards'[d][c] # cards[d][c]
      PROVE  /\ status[d] = "ready" /\ status'[d] = "ready"
             /\ c \in Present(cards'[d]) /\ cards'[d][c].edited
  <2>0. cards \in [Drafts -> CardTable] /\ c \in Cids /\ cards[d][c] \in Card
    BY <1>1, PresentIsCard DEF QueueInv, TypeOK, Present
  <2>1. ~Opened(d)
    BY <1>1 DEF Opened, SheetInv, BlankCards, NoCards, Present
  <2>2. ASSUME NEW u \in Contributors, NEW e \in Cids, PatchCandidate(u, d, e)
        PROVE  /\ status[d] = "ready" /\ status'[d] = "ready"
               /\ c \in Present(cards'[d]) /\ cards'[d][c].edited
    <3>1. c = e
      BY <1>1, <2>0, <2>2 DEF PatchCandidate, CardTable
    <3>2. PICK k \in Card : cards' = [cards EXCEPT ![d][e] = k] /\ k.edited
      BY <1>1, <2>2, PatchWrites DEF QueueInv
    <3>3. cards'[d][c] = k
      BY <2>0, <3>1, <3>2 DEF CardTable
    <3>4. QED
      BY <2>0, <2>2, <3>2, <3>3, NoCardAssumption DEF PatchCandidate, Present, queueVars
  <2>3. ASSUME NEW w \in Workers, NEW p \in Proposals, Propose(w, d, p)
        PROVE  FALSE
    <3>1. PICK e \in Cids : IsNextCid(e, cards[d]) /\ \E k : cards' = [cards EXCEPT ![d][e] = k]
      BY <2>3 DEF Propose
    <3>2. c # e
      BY <1>1, <3>1 DEF IsNextCid, Cids
    <3>3. QED
      BY <1>1, <2>0, <3>1, <3>2 DEF CardTable
  <2>4. ASSUME NEW w \in Workers, NEW e \in Cids, UpdateCandidate(w, d, e) \/ RemoveCandidate(w, d, e)
        PROVE  FALSE
    <3>1. c # e
      BY <1>1, <2>4 DEF UpdateCandidate, RemoveCandidate, Untouched
    <3>2. \E k : cards' = [cards EXCEPT ![d][e] = k]
      BY <2>4 DEF UpdateCandidate, RemoveCandidate
    <3>3. QED
      BY <1>1, <2>0, <3>1, <3>2 DEF CardTable
  <2>5. QED
    BY <1>1, <2>1, <2>2, <2>3, <2>4, CardsMove DEF CardWrite
<1>2. QueueInv /\ SheetInv /\ Next =>
        \A d \in Drafts : \A c \in Present(cards[d]) :
          cards[d][c].edited /\ cards'[d][c] # cards[d][c] =>
            /\ status[d] = "ready" /\ status'[d] = "ready"
            /\ c \in Present(cards'[d]) /\ cards'[d][c].edited
  BY <1>1
<1>3. QED
  BY <1>2, QueueInvariant, SheetInvariant, PTL DEF Spec, TouchedCardsStand

-----------------------------------------------------------------------------
(* The cap on active drafts: what passes it, and by how much.              *)

Counted == {"queued", "running", "ready"}

\* A failed read of the contributor is asked for again.
Revives(u, d) == /\ owner[d] = u
                 /\ status[d] = "failed" /\ HasPassLeft(d)
                 /\ status'[d] = "queued"
                 /\ Active(u)' = Active(u) \cup {d}

\* A step leaves a contributor within the cap, or with no draft more than
\* before, or has brought back one that failed: nothing else passes it.
CapPassedByRetriesOnly ==
  [][\A u \in Contributors : \/ Cardinality(Active(u)') <= MaxActive
                             \/ Active(u)' \subseteq Active(u)
                             \/ \E d \in Drafts : Revives(u, d)]_vars

\* The steps that count for the cap: a new row, a pass asked for, or neither.
LEMMA CountedMoves ==
  ASSUME QueueInv, Next
  PROVE  \/ \E u \in Contributors, d \in Drafts : \E src, initial, cs :
              Insert(u, d, src, initial, cs) /\ Cardinality(Active(u)) < MaxActive
         \/ \E d \in Drafts : \E kind : Enqueue(d, kind)
         \/ owner' = owner /\ \A d \in Drafts : status'[d] \in Counted => status[d] \in Counted
<1> DEFINE Settles == owner' = owner /\ \A d \in Drafts : status'[d] \in Counted => status[d] \in Counted
<1> USE DEF QueueInv
<1>1. CASE ContributorStep
  <2>1. PICK u \in Contributors :
          \/ CreateDraft(u)
          \/ \E e \in Drafts :
               \/ EnqueueChat(u, e)
               \/ \E focus \in BOOLEAN : EnqueueContinue(u, e, focus)
               \/ AbandonDraft(u, e)
               \/ \E c \in Cids : PatchCandidate(u, e, c)
               \/ CreatePickupDraft(u, e)
               \/ ConfirmAtOnce(u, e)
               \/ \E r \in Requests : ConfirmBegin(u, e, r)
    BY <1>1 DEF ContributorStep
  <2>2. CASE CreateDraft(u) \/ \E e \in Drafts : CreatePickupDraft(u, e)
    <3>1. \E d \in Drafts : \E src, initial, cs :
            Insert(u, d, src, initial, cs) /\ Cardinality(Active(u)) < MaxActive
      BY <2>2 DEF CreateDraft, CreatePickupDraft
    <3> QED  BY <3>1
  <2>3. CASE \E e \in Drafts : \/ EnqueueChat(u, e)
                               \/ \E focus \in BOOLEAN : EnqueueContinue(u, e, focus)
    BY <2>3 DEF EnqueueChat, EnqueueContinue
  <2>4. CASE \E e \in Drafts : AbandonDraft(u, e) \/ ConfirmAtOnce(u, e)
    <3>1. Settles
      BY <2>4 DEF AbandonDraft, ConfirmAtOnce, Submit, rowVars, TypeOK, Counted
    <3> QED  BY <3>1
  <2>5. CASE \E e \in Drafts : \/ \E c \in Cids : PatchCandidate(u, e, c)
                               \/ \E r \in Requests : ConfirmBegin(u, e, r)
    <3>1. Settles
      BY <2>5 DEF PatchCandidate, ConfirmBegin, queueVars, rowVars
    <3> QED  BY <3>1
  <2>6. QED
    BY <2>1, <2>2, <2>3, <2>4, <2>5
<1>2. CASE WorkerStep
  <2>1. PICK w \in Workers, e \in Drafts :
          \/ \E pinned \in BOOLEAN : ClaimJob(w, e, pinned)
          \/ Heartbeat(w, e)
          \/ \E p \in Proposals : Propose(w, e, p)
          \/ \E c \in Cids : UpdateCandidate(w, e, c) \/ RemoveCandidate(w, e, c)
          \/ AddMessage(w, e)
          \/ \E error \in BOOLEAN, cost \in 0 .. MaxCost : FinishPass(w, e, error, cost)
    BY <1>2 DEF WorkerStep
  <2>2. CASE \E pinned \in BOOLEAN : ClaimJob(w, e, pinned)
    BY <2>2 DEF ClaimJob, Claimable, rowVars, TypeOK, Counted
  <2>3. CASE \E error \in BOOLEAN, cost \in 0 .. MaxCost : FinishPass(w, e, error, cost)
    <3>1. status[e] \in Counted
      BY <2>3 DEF FinishPass, Claimed, QueueConsistent, Counted
    <3>2. owner' = owner /\ \A d \in Drafts : d # e => status'[d] = status[d]
      BY <2>3 DEF FinishPass, TypeOK
    <3>3. Settles
      BY <3>1, <3>2
    <3> QED  BY <3>3
  <2>4. CASE Heartbeat(w, e) \/ AddMessage(w, e)
    BY <2>4 DEF Heartbeat, AddMessage, queueVars, rowVars
  <2>5. CASE \/ \E p \in Proposals : Propose(w, e, p)
             \/ \E c \in Cids : UpdateCandidate(w, e, c) \/ RemoveCandidate(w, e, c)
    <3>1. OnlyCards
      BY <2>5 DEF Propose, UpdateCandidate, RemoveCandidate
    <3>2. QED
      BY <3>1 DEF OnlyCards, queueVars, rowVars
  <2>6. QED
    BY <2>1, <2>2, <2>3, <2>4, <2>5
<1>3. CASE ServerStep
  <2>1. ASSUME NEW r \in Requests, ConfirmCommit(r) PROVE Settles
    BY <2>1 DEF ConfirmCommit, Submit, rowVars, TypeOK, Counted
  <2>2. CASE (\E r \in Requests : ConfirmRefused(r)) \/ (\E D \in SUBSET Drafts : BeatsExpire(D)) \/ NewDay
    BY <2>2 DEF ConfirmRefused, BeatsExpire, NewDay, queueVars, rowVars
  <2>3. QED
    BY <1>3, <2>1, <2>2 DEF ServerStep
<1>4. QED
  BY <1>1, <1>2, <1>3 DEF Next

\* Of all the ways to a draft that counts, only the retry of a failed one is not
\* checked against INTAKE_MAX_ACTIVE_DRAFTS (enqueueChat and enqueueContinue,
\* draft.ts:343, 364; the count, draft.ts:319), and it adds one each time.
THEOREM OnlyRetriesPassTheCap == Spec => CapPassedByRetriesOnly
<1> DEFINE Fits(u) == \/ Cardinality(Active(u)') <= MaxActive
                      \/ Active(u)' \subseteq Active(u)
                      \/ \E d \in Drafts : Revives(u, d)
<1>1. ASSUME QueueInv, Next, NEW u \in Contributors PROVE Fits(u)
  <2>1. CASE owner' = owner /\ \A d \in Drafts : status'[d] \in Counted => status[d] \in Counted
    BY <2>1 DEF Active, Counted
  <2>2. ASSUME NEW d \in Drafts, NEW kind, Enqueue(d, kind) PROVE Fits(u)
    <3>1. /\ status[d] \in {"ready", "failed"} /\ HasPassLeft(d) /\ owner' = owner
          /\ status' = [status EXCEPT ![d] = "queued"] /\ status \in [Drafts -> Statuses]
      BY <1>1, <2>2 DEF Enqueue, MayEnqueue, QueueInv, TypeOK
    <3>2. CASE status[d] = "failed" /\ owner[d] = u
      <4>1. Active(u)' = Active(u) \cup {d}
        BY <3>1, <3>2 DEF Active
      <4>2. status'[d] = "queued"
        BY <3>1
      <4> QED  BY <3>1, <3>2, <4>1, <4>2 DEF Revives
    <3>3. CASE ~(status[d] = "failed" /\ owner[d] = u)
      BY <3>1, <3>3 DEF Active
    <3> QED  BY <3>2, <3>3
  <2>3. ASSUME NEW v \in Contributors, NEW d \in Drafts, NEW src, NEW initial, NEW cs,
               Insert(v, d, src, initial, cs), Cardinality(Active(v)) < MaxActive
        PROVE  Fits(u)
    <3>1. /\ status[d] = "none" /\ owner' = [owner EXCEPT ![d] = v]
          /\ \A e \in Drafts : e # d => status'[e] = status[e]
          /\ owner \in [Drafts -> Contributors \cup {NoOne}]
      BY <1>1, <2>3 DEF Insert, Unused, QueueInv, TypeOK
    <3>2. CASE u # v
      BY <3>1, <3>2 DEF Active
    <3>3. CASE u = v
      <4>1. Active(u)' \subseteq Active(u) \cup {d}
        BY <3>1, <3>3 DEF Active
      <4>2. IsFiniteSet(Active(u))
        <5>1. IsFiniteSet(Drafts)
          BY DraftQueueAssumption, FS_Interval DEF Drafts
        <5> QED  BY <5>1, FS_Subset DEF Active
      <4>3. /\ IsFiniteSet(Active(u) \cup {d}) /\ Cardinality(Active(u)) \in Nat
            /\ Cardinality(Active(u) \cup {d}) \in {Cardinality(Active(u)), Cardinality(Active(u)) + 1}
        BY <4>2, FS_AddElement, FS_CardinalityType
      <4>4. Cardinality(Active(u)') <= Cardinality(Active(u) \cup {d}) /\ Cardinality(Active(u)') \in Nat
        BY <4>1, <4>3, FS_Subset, FS_CardinalityType
      <4>5. Cardinality(Active(u)') <= MaxActive
        BY <2>3, <3>3, <4>3, <4>4, DraftQueueAssumption
      <4> QED  BY <4>5
    <3> QED  BY <3>2, <3>3
  <2> HIDE DEF Fits
  <2> QED  BY <1>1, <2>1, <2>2, <2>3, CountedMoves
<1>2. ASSUME UNCHANGED vars, NEW u \in Contributors PROVE Fits(u)
  BY <1>2 DEF vars, Active
<1>3. QueueInv /\ [Next]_vars => [\A u \in Contributors : Fits(u)]_vars
  BY <1>1
<1> QED  BY <1>3, QueueInvariant, PTL DEF Spec, CapPassedByRetriesOnly

\* The drafts that count and have not had a pass.
Unread(u) == {d \in Active(u) : passes[d] = 0}

\* The cap does hold of the drafts that wait for their first pass or are in it,
\* pick-ups nobody has read on included.
FirstReadsCapped == \A u \in Contributors : Cardinality(Unread(u)) <= MaxActive

\* A draft fails by a pass.
FailedWasRead == \A d \in Drafts : status[d] = "failed" => passes[d] # 0

\* Passes only grow, and a draft fails only when one ends.
LEMMA PassesMove ==
  ASSUME QueueInv, Next, NEW d \in Drafts
  PROVE  \/ passes'[d] = passes[d] /\ (status'[d] = "failed" => status[d] = "failed")
         \/ passes'[d] = passes[d] + 1
<1> USE DEF QueueInv
<1>1. CASE ContributorStep
  <2>1. PICK u \in Contributors :
          \/ CreateDraft(u)
          \/ \E e \in Drafts :
               \/ EnqueueChat(u, e)
               \/ \E focus \in BOOLEAN : EnqueueContinue(u, e, focus)
               \/ AbandonDraft(u, e)
               \/ \E c \in Cids : PatchCandidate(u, e, c)
               \/ CreatePickupDraft(u, e)
               \/ ConfirmAtOnce(u, e)
               \/ \E r \in Requests : ConfirmBegin(u, e, r)
    BY <1>1 DEF ContributorStep
  <2>2. CASE CreateDraft(u) \/ \E e \in Drafts : CreatePickupDraft(u, e)
    BY <2>2 DEF CreateDraft, CreatePickupDraft, Insert, TypeOK
  <2>3. CASE \E e \in Drafts : \/ EnqueueChat(u, e)
                               \/ \E focus \in BOOLEAN : EnqueueContinue(u, e, focus)
    BY <2>3 DEF EnqueueChat, EnqueueContinue, Enqueue, TypeOK
  <2>4. CASE \E e \in Drafts : AbandonDraft(u, e) \/ ConfirmAtOnce(u, e)
    BY <2>4 DEF AbandonDraft, ConfirmAtOnce, Submit, rowVars, TypeOK
  <2>5. CASE \E e \in Drafts : \/ \E c \in Cids : PatchCandidate(u, e, c)
                               \/ \E r \in Requests : ConfirmBegin(u, e, r)
    BY <2>5 DEF PatchCandidate, ConfirmBegin, queueVars, rowVars
  <2>6. QED
    BY <2>1, <2>2, <2>3, <2>4, <2>5
<1>2. CASE WorkerStep
  <2>1. PICK w \in Workers, e \in Drafts :
          \/ \E pinned \in BOOLEAN : ClaimJob(w, e, pinned)
          \/ Heartbeat(w, e)
          \/ \E p \in Proposals : Propose(w, e, p)
          \/ \E c \in Cids : UpdateCandidate(w, e, c) \/ RemoveCandidate(w, e, c)
          \/ AddMessage(w, e)
          \/ \E error \in BOOLEAN, cost \in 0 .. MaxCost : FinishPass(w, e, error, cost)
    BY <1>2 DEF WorkerStep
  <2>2. CASE \E pinned \in BOOLEAN : ClaimJob(w, e, pinned)
    BY <2>2 DEF ClaimJob, rowVars, TypeOK
  <2>3. CASE \E error \in BOOLEAN, cost \in 0 .. MaxCost : FinishPass(w, e, error, cost)
    BY <2>3 DEF FinishPass, TypeOK
  <2>4. CASE Heartbeat(w, e) \/ AddMessage(w, e)
    BY <2>4 DEF Heartbeat, AddMessage, queueVars, rowVars
  <2>5. CASE \/ \E p \in Proposals : Propose(w, e, p)
             \/ \E c \in Cids : UpdateCandidate(w, e, c) \/ RemoveCandidate(w, e, c)
    <3>1. OnlyCards
      BY <2>5 DEF Propose, UpdateCandidate, RemoveCandidate
    <3>2. QED
      BY <3>1 DEF OnlyCards, queueVars, rowVars
  <2>6. QED
    BY <2>1, <2>2, <2>3, <2>4, <2>5
<1>3. CASE ServerStep
  BY <1>3 DEF ServerStep, ConfirmCommit, Submit, ConfirmRefused, BeatsExpire, NewDay,
              queueVars, rowVars, TypeOK
<1>4. QED
  BY <1>1, <1>2, <1>3 DEF Next

\* What the cap is about is kept: never more first reads of a contributor at once
\* than INTAKE_MAX_ACTIVE_DRAFTS (createDraft and createPickupDraft both check,
\* draft.ts:319); what comes on top has had a pass before.
THEOREM FirstReadsStayCapped == Spec => []FirstReadsCapped
<1> DEFINE Inv == FirstReadsCapped /\ FailedWasRead
<1>1. Init => Inv
  <2> SUFFICES ASSUME Init PROVE Inv
    OBVIOUS
  <2>1. FailedWasRead
    BY DEF Init, FailedWasRead
  <2>2. ASSUME NEW u \in Contributors PROVE Cardinality(Unread(u)) <= MaxActive
    <3>1. Unread(u) = {}
      BY DEF Init, Unread, Active
    <3>2. Cardinality({}) = 0
      BY FS_EmptySet
    <3>3. Cardinality(Unread(u)) = 0
      BY <3>1, <3>2
    <3> QED  BY <3>3, DraftQueueAssumption
  <2> QED  BY <2>1, <2>2 DEF FirstReadsCapped
<1>2. ASSUME QueueInv, Inv, Next PROVE FailedWasRead'
  <2>1. \A d \in Drafts : passes[d] \in Nat
    BY <1>2 DEF QueueInv, TypeOK
  <2> QED  BY <1>2, <2>1, PassesMove DEF FailedWasRead
<1>3. ASSUME QueueInv, Inv, Next, NEW u \in Contributors
      PROVE  Cardinality(Unread(u)') <= MaxActive
  <2>1. \A d \in Drafts : passes'[d] = 0 => passes[d] = 0
    <3>1. \A d \in Drafts : passes[d] \in Nat
      BY <1>3 DEF QueueInv, TypeOK
    <3> QED  BY <1>3, <3>1, PassesMove
  <2>2. IsFiniteSet(Active(u)) /\ Cardinality(Unread(u)) <= MaxActive
    <3>1. IsFiniteSet(Drafts)
      BY DraftQueueAssumption, FS_Interval DEF Drafts
    <3> QED  BY <1>3, <3>1, FS_Subset DEF Active, FirstReadsCapped
  <2>3. ASSUME Unread(u)' \subseteq Unread(u) PROVE Cardinality(Unread(u)') <= MaxActive
    <3>1. IsFiniteSet(Unread(u))
      BY <2>2, FS_Subset DEF Unread
    <3>2. /\ Cardinality(Unread(u)') <= Cardinality(Unread(u))
          /\ Cardinality(Unread(u)) \in Nat /\ Cardinality(Unread(u)') \in Nat
      BY <2>3, <3>1, FS_Subset, FS_CardinalityType
    <3> QED  BY <2>2, <3>2, DraftQueueAssumption
  <2>4. CASE owner' = owner /\ \A d \in Drafts : status'[d] \in Counted => status[d] \in Counted
    <3>1. Unread(u)' \subseteq Unread(u)
      BY <2>1, <2>4 DEF Unread, Active, Counted
    <3> QED  BY <2>3, <3>1
  <2>5. ASSUME NEW d \in Drafts, NEW kind, Enqueue(d, kind)
        PROVE  Cardinality(Unread(u)') <= MaxActive
    <3>1. /\ status[d] \in {"ready", "failed"} /\ owner' = owner /\ passes' = passes
          /\ \A e \in Drafts : e # d => status'[e] = status[e]
      BY <1>3, <2>5 DEF Enqueue, MayEnqueue, QueueInv, TypeOK
    <3>2. passes[d] = 0 => status[d] = "ready"
      BY <1>3, <3>1 DEF FailedWasRead
    <3>3. Unread(u)' \subseteq Unread(u)
      BY <3>1, <3>2 DEF Unread, Active
    <3> QED  BY <2>3, <3>3
  <2>6. ASSUME NEW v \in Contributors, NEW d \in Drafts, NEW src, NEW initial, NEW cs,
               Insert(v, d, src, initial, cs), Cardinality(Active(v)) < MaxActive
        PROVE  Cardinality(Unread(u)') <= MaxActive
    <3>1. /\ owner' = [owner EXCEPT ![d] = v] /\ passes' = passes
          /\ \A e \in Drafts : e # d => status'[e] = status[e]
          /\ owner \in [Drafts -> Contributors \cup {NoOne}]
      BY <1>3, <2>6 DEF Insert, Unused, QueueInv, TypeOK
    <3>2. CASE u # v
      <4>1. Unread(u)' \subseteq Unread(u)
        BY <3>1, <3>2 DEF Unread, Active
      <4> QED  BY <2>3, <4>1
    <3>3. CASE u = v
      <4>1. Unread(u)' \subseteq Active(u) \cup {d}
        BY <3>1, <3>3 DEF Unread, Active
      <4>2. /\ IsFiniteSet(Active(u) \cup {d}) /\ Cardinality(Active(u)) \in Nat
            /\ Cardinality(Active(u) \cup {d}) \in {Cardinality(Active(u)), Cardinality(Active(u)) + 1}
        BY <2>2, FS_AddElement, FS_CardinalityType
      <4>3. Cardinality(Unread(u)') <= Cardinality(Active(u) \cup {d}) /\ Cardinality(Unread(u)') \in Nat
        BY <4>1, <4>2, FS_Subset, FS_CardinalityType
      <4> QED  BY <2>6, <3>3, <4>2, <4>3, DraftQueueAssumption
    <3> QED  BY <3>2, <3>3
  <2> QED  BY <1>3, <2>4, <2>5, <2>6, CountedMoves
<1>4. QueueInv /\ Inv /\ Next => Inv'
  <2> SUFFICES ASSUME QueueInv, Inv, Next PROVE Inv'
    OBVIOUS
  <2>1. FailedWasRead'
    BY <1>2
  <2>2. FirstReadsCapped'
    BY <1>3 DEF FirstReadsCapped
  <2> QED  BY <2>1, <2>2
<1>5. Inv /\ UNCHANGED vars => Inv'
  BY DEF FirstReadsCapped, FailedWasRead, Unread, Active, vars
<1>6. Inv => FirstReadsCapped
  OBVIOUS
<1> HIDE DEF Inv
<1> QED  BY <1>1, <1>4, <1>5, <1>6, QueueInvariant, PTL DEF Spec
=============================================================================
