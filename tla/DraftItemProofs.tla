-------------------------- MODULE DraftItemProofs --------------------------
(***************************************************************************)
(* Theorems about the open items a read leaves and the pick-ups that       *)
(* decide them.                                                            *)
(***************************************************************************)
EXTENDS DraftQueueProofs

-----------------------------------------------------------------------------
(* What a step may change of the rows and of the confirms in flight.       *)

\* The read a draft was picked from never changes.
LEMMA FromStays ==
  ASSUME QueueInv, Next, NEW d \in Drafts, status[d] # "none"
  PROVE  from'[d] = from[d]
<1> USE DEF QueueInv
<1>1. CASE ContributorStep
  <2>1. PICK u \in Contributors :
          \/ CreateDraft(u)
          \/ \E e \in Drafts :
               \/ EnqueueChat(u, e)
               \/ \E focus \in BOOLEAN : EnqueueContinue(u, e, focus)
               \/ AbandonDraft(u, e)
               \/ \E c \in Cids : PatchCandidate(u, e, c)
               \/ CreatePickupDraft(u, e)
               \/ ConfirmAtOnce(u, e)
               \/ \E r \in Requests : ConfirmBegin(u, e, r)
    BY <1>1 DEF ContributorStep
  <2>2. CASE CreateDraft(u) \/ \E e \in Drafts : CreatePickupDraft(u, e)
    BY <2>2 DEF CreateDraft, CreatePickupDraft, Insert, Unused, TypeOK
  <2>3. CASE \E e \in Drafts :
               \/ EnqueueChat(u, e)
               \/ \E focus \in BOOLEAN : EnqueueContinue(u, e, focus)
               \/ AbandonDraft(u, e)
               \/ \E c \in Cids : PatchCandidate(u, e, c)
               \/ ConfirmAtOnce(u, e)
               \/ \E r \in Requests : ConfirmBegin(u, e, r)
    <3>1. UNCHANGED from
      BY <2>3 DEF EnqueueChat, EnqueueContinue, Enqueue, AbandonDraft, PatchCandidate,
                  ConfirmAtOnce, Submit, ConfirmBegin, rowVars
    <3>2. QED
      BY <3>1
  <2>4. QED
    BY <2>1, <2>2, <2>3
<1>2. CASE WorkerStep
  <2>1. PICK w \in Workers, e \in Drafts :
          \/ \E pinned \in BOOLEAN : ClaimJob(w, e, pinned)
          \/ Heartbeat(w, e)
          \/ \E p \in Proposals : Propose(w, e, p)
          \/ \E c \in Cids : UpdateCandidate(w, e, c) \/ RemoveCandidate(w, e, c)
          \/ AddMessage(w, e)
          \/ \E error \in BOOLEAN, cost \in 0 .. MaxCost : FinishPass(w, e, error, cost)
    BY <1>2 DEF WorkerStep
  <2>2. CASE \/ \E p \in Proposals : Propose(w, e, p)
             \/ \E c \in Cids : UpdateCandidate(w, e, c) \/ RemoveCandidate(w, e, c)
    <3>1. OnlyCards
      BY <2>2 DEF Propose, UpdateCandidate, RemoveCandidate
    <3>2. QED
      BY <3>1 DEF OnlyCards, rowVars
  <2>3. CASE \/ \E pinned \in BOOLEAN : ClaimJob(w, e, pinned)
             \/ Heartbeat(w, e)
             \/ AddMessage(w, e)
             \/ \E error \in BOOLEAN, cost \in 0 .. MaxCost : FinishPass(w, e, error, cost)
    BY <2>3 DEF ClaimJob, Heartbeat, AddMessage, FinishPass, rowVars
  <2>4. QED
    BY <2>1, <2>2, <2>3
<1>3. CASE ServerStep
  BY <1>3 DEF ServerStep, ConfirmCommit, Submit, ConfirmRefused, BeatsExpire, NewDay, rowVars
<1>4. QED
  BY <1>1, <1>2, <1>3 DEF Next

\* A confirm in flight was there before or read a draft that is ready now.
LEMMA ConfirmsMove ==
  ASSUME QueueInv, Next, NEW r \in Requests,
         confirming'[r] # confirming[r], confirming'[r] # NoReq
  PROVE  \E d \in Drafts : status[d] = "ready" /\ confirming'[r] = Snapshot(d)
<1> USE DEF QueueInv
<1>1. CASE ContributorStep
  <2>1. PICK u \in Contributors :
          \/ CreateDraft(u)
          \/ \E e \in Drafts :
               \/ EnqueueChat(u, e)
               \/ \E focus \in BOOLEAN : EnqueueContinue(u, e, focus)
               \/ AbandonDraft(u, e)
               \/ \E c \in Cids : PatchCandidate(u, e, c)
               \/ CreatePickupDraft(u, e)
               \/ ConfirmAtOnce(u, e)
               \/ \E q \in Requests : ConfirmBegin(u, e, q)
    BY <1>1 DEF ContributorStep
  <2>2. CASE \E e \in Drafts, q \in Requests : ConfirmBegin(u, e, q)
    <3>1. PICK e \in Drafts, q \in Requests : ConfirmBegin(u, e, q)
      BY <2>2
    <3>2. confirming' = [confirming EXCEPT ![q] = Snapshot(e)] /\ status[e] = "ready"
      BY <3>1 DEF ConfirmBegin, MayConfirm
    <3>3. confirming'[r] = Snapshot(e)
      BY <3>2 DEF TypeOK
    <3>4. QED
      BY <3>2, <3>3
  <2>3. CASE \/ CreateDraft(u)
             \/ \E e \in Drafts :
                  \/ EnqueueChat(u, e)
                  \/ \E focus \in BOOLEAN : EnqueueContinue(u, e, focus)
                  \/ AbandonDraft(u, e)
                  \/ \E c \in Cids : PatchCandidate(u, e, c)
                  \/ CreatePickupDraft(u, e)
                  \/ ConfirmAtOnce(u, e)
    <3>1. UNCHANGED confirming
      BY <2>3 DEF CreateDraft, CreatePickupDraft, Insert, EnqueueChat, EnqueueContinue,
                  Enqueue, AbandonDraft, PatchCandidate, ConfirmAtOnce
    <3>2. QED
      BY <3>1
  <2>4. QED
    BY <2>1, <2>2, <2>3
<1>2. CASE WorkerStep
  <2>1. PICK w \in Workers, e \in Drafts :
          \/ \E pinned \in BOOLEAN : ClaimJob(w, e, pinned)
          \/ Heartbeat(w, e)
          \/ \E p \in Proposals : Propose(w, e, p)
          \/ \E c \in Cids : UpdateCandidate(w, e, c) \/ RemoveCandidate(w, e, c)
          \/ AddMessage(w, e)
          \/ \E error \in BOOLEAN, cost \in 0 .. MaxCost : FinishPass(w, e, error, cost)
    BY <1>2 DEF WorkerStep
  <2>2. UNCHANGED confirming
    BY <2>1 DEF ClaimJob, Heartbeat, Propose, UpdateCandidate, RemoveCandidate, AddMessage,
                FinishPass, OnlyCards
  <2>3. QED
    BY <2>2
<1>3. CASE ServerStep
  <2>1. CASE \E q \in Requests : ConfirmCommit(q) \/ ConfirmRefused(q)
    BY <2>1 DEF ConfirmCommit, ConfirmRefused, TypeOK
  <2>2. CASE (\E D \in SUBSET Drafts : BeatsExpire(D)) \/ NewDay
    BY <2>2 DEF BeatsExpire, NewDay
  <2>3. QED
    BY <1>3, <2>1, <2>2 DEF ServerStep
<1>4. QED
  BY <1>1, <1>2, <1>3 DEF Next

-----------------------------------------------------------------------------
\* An open item is decided once: a later pick-up that decided it too is refused.
LEMMA DecisionsStay ==
  ASSUME QueueInv, Next, NEW s \in Drafts, NEW c \in Cids, decidedIn[s][c] # 0
  PROVE  decidedIn'[s][c] = decidedIn[s][c]
<1>1. ASSUME NEW q \in Request, CommitOf(q)
      PROVE  decidedIn'[s][c] = decidedIn[s][c]
  <2>1. PICK left : Submit(q, left)
    BY <1>1 DEF CommitOf
  <2>2. /\ FirstToDecide(q)
        /\ decidedIn' = IF from[q.draft] = 0 THEN decidedIn
                        ELSE [decidedIn EXCEPT ![from[q.draft]] =
                                [e \in Cids |-> IF e \in Decisions(q.draft, q.cards, q.gone)
                                                THEN q.draft ELSE @[e]]]
    BY <2>1 DEF Submit
  <2>3. s = from[q.draft] => c \notin Decisions(q.draft, q.cards, q.gone)
    BY <2>2 DEF FirstToDecide
  <2>4. QED
    BY <2>2, <2>3 DEF QueueInv, TypeOK
<1>2. QED
  BY <1>1, SheetsMove

\* Of two pick-ups that decide the same item, the first one's decision stands.
THEOREM ItemsAreDecidedOnce == Spec => ItemsDecidedOnce
<1>1. QueueInv /\ Next =>
        \A s \in Drafts : \A c \in Cids :
          decidedIn[s][c] # 0 => decidedIn'[s][c] = decidedIn[s][c]
  BY DecisionsStay
<1>2. QED
  BY <1>1, QueueInvariant, PTL DEF Spec, ItemsDecidedOnce

-----------------------------------------------------------------------------
\* Every reference of a card is to a node card of the same draft.
DepsStand ==
  \A d \in Drafts : \A c \in Present(cards[d]) : \A e \in cards[d][c].deps :
    e \in Present(cards[d]) /\ cards[d][e].kind = "node"

\* Items are left by a submitted draft.
ItemsOfSubmitted == \A d \in Drafts : status[d] # "submitted" => items[d] = {}

\* What a confirm left out was decided when it looked, and still is.
RequestSound(q) ==
  /\ status[q.draft] # "none"
  /\ from[q.draft] = 0 => q.gone = {}
  /\ from[q.draft] # 0 => \A c \in q.gone : decidedIn[from[q.draft]][c] # 0

RequestsSound == \A r \in Requests : confirming[r] # NoReq => RequestSound(confirming[r])

LEMMA SnapshotSound ==
  ASSUME TypeOK, NEW d \in Drafts, status[d] # "none"
  PROVE  RequestSound(Snapshot(d))
  BY DEF RequestSound, Snapshot, GoneItems, SourceItems

LEMMA RequestsStaySound ==
  ASSUME QueueInv, RequestsSound, Next
  PROVE  RequestsSound'
<1> SUFFICES ASSUME NEW r \in Requests, confirming'[r] # NoReq
             PROVE  RequestSound(confirming[r])'
  BY DEF RequestsSound
<1> USE DEF QueueInv
<1>1. ASSUME NEW q \in Request, RequestSound(q), q = confirming'[r]
      PROVE  RequestSound(confirming[r])'
  <2>1. q.draft \in Drafts /\ q.gone \subseteq Cids
    BY DEF Request
  <2>2. status'[q.draft] # "none" /\ from'[q.draft] = from[q.draft]
    BY <1>1, <2>1, RowsStay, FromStays DEF RequestSound
  <2>3. from[q.draft] # 0 => from[q.draft] \in Drafts
    BY <2>1, DraftQueueAssumption DEF TypeOK, Drafts
  <2>4. from[q.draft] # 0 => \A c \in q.gone : decidedIn'[from[q.draft]][c] # 0
    BY <1>1, <2>1, <2>3, DecisionsStay DEF RequestSound
  <2>5. QED
    BY <1>1, <2>2, <2>4 DEF RequestSound
<1>2. CASE confirming'[r] = confirming[r]
  BY <1>1, <1>2 DEF RequestsSound, TypeOK
<1>3. CASE confirming'[r] # confirming[r]
  <2>1. PICK d \in Drafts : status[d] = "ready" /\ confirming'[r] = Snapshot(d)
    BY <1>3, ConfirmsMove
  <2>2. QED
    BY <1>1, <2>1, SnapshotSound, SnapshotTyped
<1>4. QED
  BY <1>2, <1>3

LEMMA CommitsSound ==
  ASSUME QueueInv, RequestsSound, NEW q \in Request, CommitOf(q)
  PROVE  RequestSound(q)
<1>1. CASE \E r \in Requests : q = confirming[r] /\ confirming[r] # NoReq
  BY <1>1 DEF RequestsSound
<1>2. CASE \E d \in Drafts : q = Snapshot(d)
  <2>1. PICK d \in Drafts : q = Snapshot(d)
    BY <1>2
  <2>2. q.draft = d /\ status[d] = "ready"
    BY <2>1 DEF CommitOf, Submit, SameDraft, Snapshot
  <2>3. QED
    BY <2>1, <2>2, SnapshotSound DEF QueueInv
<1>3. QED
  BY <1>1, <1>2 DEF CommitOf

LEMMA ItemsStayOfSubmitted ==
  ASSUME QueueInv, ItemsOfSubmitted, Next
  PROVE  ItemsOfSubmitted'
<1> SUFFICES ASSUME NEW d \in Drafts, status'[d] # "submitted"
             PROVE  items'[d] = {}
  BY DEF ItemsOfSubmitted
<1>1. items[d] = {}
  BY SubmittedStays DEF ItemsOfSubmitted
<1>2. ASSUME NEW q \in Request, CommitOf(q)
      PROVE  items'[d] = items[d]
  <2>1. PICK left : Submit(q, left)
    BY <1>2 DEF CommitOf
  <2>2. q.draft # d
    BY <2>1 DEF Submit, QueueInv, TypeOK
  <2>3. QED
    BY <2>1, <2>2 DEF Submit, QueueInv, TypeOK
<1>3. QED
  BY <1>1, <1>2, SheetsMove

LEMMA PickedDepsStand ==
  ASSUME TypeOK, DepsStand, NEW s \in Drafts, NEW known, NEW lost, LostTogether(s, lost),
         NEW c \in Present(PickedCards(s, known, lost)),
         NEW e \in PickedCards(s, known, lost)[c].deps
  PROVE  /\ e \in Present(PickedCards(s, known, lost))
         /\ PickedCards(s, known, lost)[e].kind = "node"
<1> DEFINE src == cards[s]
           take == {x \in Present(src) : ItemOpen(s, x)}
           needed == UNION {src[x].deps : x \in take} \ take
           carry == {x \in needed : x \in Present(src) /\ src[x].kind = "node"} \ known
           carried == take \cup carry
           kept == carried \ lost
           copy(x) == PickedCard(src[x], carried, x \in take, known, x)
<1>1. PickedCards(s, known, lost) = [x \in Cids |-> IF x \in kept THEN copy(x) ELSE NoCard]
  BY DEF PickedCards
<1>2. \A x \in kept : x \in Cids /\ src[x] \in Card /\ x \in Present(src)
  BY PresentIsCard DEF TypeOK
<1>3. \A k \in Card : \A t, x : PickedCard(k, carried, t, known, x).deps = k.deps \cap carried
                             /\ PickedCard(k, carried, t, known, x).kind = k.kind
                             /\ PickedCard(k, carried, t, known, x) \in Card
  <2> HIDE DEF carried
  <2> SUFFICES ASSUME NEW k \in Card, NEW t, NEW x
               PROVE  /\ PickedCard(k, carried, t, known, x).deps = k.deps \cap carried
                      /\ PickedCard(k, carried, t, known, x).kind = k.kind
                      /\ PickedCard(k, carried, t, known, x) \in Card
    OBVIOUS
  <2>1. PickedCard(k, carried, t, known, x).deps = k.deps \cap carried
    BY DEF PickedCard, Card
  <2>2. PickedCard(k, carried, t, known, x).kind = k.kind
    BY DEF PickedCard, Card
  <2>3. PickedCard(k, carried, t, known, x) \in Card
    BY DEF PickedCard, Card, CardStates, StatesOf
  <2>4. QED
    BY <2>1, <2>2, <2>3
<1>4. c \in kept /\ c \in Cids
  BY <1>1 DEF Present
<1> HIDE DEF kept, carried
<1>5. e \in src[c].deps /\ e \in carried
  BY <1>1, <1>2, <1>3, <1>4
<1>6. e \in kept
  <2>1. c \in Present(cards[s]) \ lost
    BY <1>2, <1>4 DEF kept
  <2>2. QED
    BY <1>5, <2>1 DEF LostTogether, kept
<1>7. src[e].kind = "node"
  BY <1>2, <1>4, <1>5 DEF DepsStand
<1>8. PickedCards(s, known, lost)[e] = copy(e) /\ copy(e) \in Card /\ copy(e).kind = "node"
  BY <1>1, <1>2, <1>3, <1>6, <1>7
<1>9. QED
  BY <1>2, <1>6, <1>8, NoCardAssumption DEF Present

LEMMA DepsStayStanding ==
  ASSUME QueueInv, DepsStand, Next
  PROVE  DepsStand'
<1> SUFFICES ASSUME NEW d \in Drafts, cards'[d] # cards[d],
                    NEW c \in Present(cards'[d]), NEW e \in cards'[d][c].deps
             PROVE  e \in Present(cards'[d]) /\ cards'[d][e].kind = "node"
  BY DEF DepsStand
<1>0. cards \in [Drafts -> CardTable] /\ TypeOK /\ c \in Cids
  BY DEF QueueInv, TypeOK, Present
<1>1. CASE Opened(d)
  BY <1>0, <1>1, PickedDepsStand DEF Opened, NoCards, Present
<1>2. ASSUME NEW x \in Present(cards[d]), NEW k \in Card,
             k.kind = cards[d][x].kind,
             \A y \in k.deps : y \in Present(cards[d]) /\ cards[d][y].kind = "node",
             cards' = [cards EXCEPT ![d][x] = k]
      PROVE  e \in Present(cards'[d]) /\ cards'[d][e].kind = "node"
  <2>1. \A y \in Cids : cards'[d][y] = IF y = x THEN k ELSE cards[d][y]
    BY <1>0, <1>2 DEF CardTable, Present
  <2>2. CASE c = x
    BY <1>2, <2>1, <2>2, NoCardAssumption DEF Present
  <2>3. CASE c # x
    <3>1. c \in Present(cards[d]) /\ e \in cards[d][c].deps
      BY <1>0, <2>1, <2>3 DEF Present
    <3>2. e \in Present(cards[d]) /\ cards[d][e].kind = "node"
      BY <3>1 DEF DepsStand
    <3>3. QED
      BY <1>2, <2>1, <3>2, NoCardAssumption DEF Present
  <2>4. QED
    BY <2>2, <2>3
<1>3. ASSUME NEW u \in Contributors, NEW x \in Cids, PatchCandidate(u, d, x)
      PROVE  e \in Present(cards'[d]) /\ cards'[d][e].kind = "node"
  <2>1. x \in Present(cards[d])
    BY <1>3 DEF PatchCandidate
  <2>2. PICK k \in Card : /\ cards' = [cards EXCEPT ![d][x] = k]
                          /\ k.kind = cards[d][x].kind /\ k.deps = cards[d][x].deps
    BY <1>0, <1>3, PatchWrites
  <2>3. \A y \in k.deps : y \in Present(cards[d]) /\ cards[d][y].kind = "node"
    BY <2>1, <2>2 DEF DepsStand
  <2>4. QED
    BY <1>2, <2>1, <2>2, <2>3
<1>4. ASSUME NEW w \in Workers, NEW x \in Cids, UpdateCandidate(w, d, x)
      PROVE  e \in Present(cards'[d]) /\ cards'[d][e].kind = "node"
  <2>1. x \in Present(cards[d])
    BY <1>4 DEF UpdateCandidate
  <2>2. PICK k \in Card :
          /\ cards' = [cards EXCEPT ![d][x] = k]
          /\ k.kind = cards[d][x].kind
          /\ \/ k.deps = cards[d][x].deps
             \/ \A y \in k.deps : y \in Present(cards[d]) /\ cards[d][y].kind = "node"
    BY <1>0, <1>4, UpdateWrites
  <2>3. \A y \in k.deps : y \in Present(cards[d]) /\ cards[d][y].kind = "node"
    BY <2>1, <2>2 DEF DepsStand
  <2>4. QED
    BY <1>2, <2>1, <2>2, <2>3
<1>5. ASSUME NEW w \in Workers, NEW p \in Proposals, Propose(w, d, p)
      PROVE  e \in Present(cards'[d]) /\ cards'[d][e].kind = "node"
  <2> DEFINE k == [kind |-> p.kind, text |-> p.text, deps |-> p.deps,
                   onGraph |-> p.onGraph, badLink |-> p.badLink, edited |-> FALSE,
                   state |-> IF p.badLink THEN "rejected" ELSE "proposed"]
  <2>1. PICK x \in Cids : IsNextCid(x, cards[d]) /\ cards' = [cards EXCEPT ![d][x] = k]
    BY <1>5 DEF Propose
  <2>2. \A y \in k.deps : y \in Present(cards[d]) /\ cards[d][y].kind = "node"
    BY <1>5 DEF Propose
  <2>3. x \notin Present(cards[d])
    BY <2>1 DEF IsNextCid, Cids
  <2> HIDE DEF k
  <2>4. \A y \in Cids : cards'[d][y] = IF y = x THEN k ELSE cards[d][y]
    BY <1>0, <2>1 DEF CardTable
  <2>5. e \in Present(cards[d]) /\ cards[d][e].kind = "node"
    BY <1>0, <2>2, <2>4 DEF DepsStand, Present
  <2>6. QED
    BY <2>3, <2>4, <2>5 DEF Present
<1>6. ASSUME NEW w \in Workers, NEW x \in Cids, RemoveCandidate(w, d, x)
      PROVE  e \in Present(cards'[d]) /\ cards'[d][e].kind = "node"
  <2>1. /\ cards' = [cards EXCEPT ![d][x] = NoCard]
        /\ \A y \in Present(cards[d]) : x \notin cards[d][y].deps
    BY <1>6 DEF RemoveCandidate
  <2>2. \A y \in Cids : cards'[d][y] = IF y = x THEN NoCard ELSE cards[d][y]
    BY <1>0, <2>1 DEF CardTable
  <2>3. c \in Present(cards[d]) /\ e \in cards[d][c].deps
    BY <1>0, <2>2 DEF Present
  <2>4. e \in Present(cards[d]) /\ cards[d][e].kind = "node" /\ e # x
    BY <2>1, <2>3 DEF DepsStand
  <2>5. QED
    BY <2>2, <2>4 DEF Present
<1>7. QED
  BY <1>1, <1>3, <1>4, <1>5, <1>6, CardsMove DEF CardWrite

-----------------------------------------------------------------------------
(* What a commit makes of the cards it was asked to submit.                *)

\* Without cards to leave out, an own read sorts its cards into operations, open
\* cards, cards decided without effect, and cards a "no" rules out.
LEMMA CardsSorted ==
  ASSUME NEW cs \in CardTable, NEW left \in SUBSET (Images(cs, {}) \cup NewNodes(cs, {})),
         \A c \in Present(cs) : /\ CardSound(cs[c])
                                /\ \A e \in cs[c].deps : e \in Present(cs) /\ cs[e].kind = "node",
         NEW c \in Present(cs)
  PROVE  LET open == LeftOpen(cs, {})
             ops == Ops(cs, {}, left)
             ruledOut == \E e \in cs[c].deps : \/ e \notin Present(cs)
                                               \/ TurnedDown(cs[e]) /\ e \notin open
         IN  /\ c \in ops => c \notin open
             /\ Undecided(cs[c]) => c \in open \/ ruledOut
             /\ c \in open => /\ ~ruledOut
                              /\ \/ Undecided(cs[c])
                                 \/ cs[c].state = "accepted" /\ cs[c].deps \cap open # {}
             /\ cs[c].state = "accepted" /\ c \notin open \cup ops =>
                  cs[c].kind \in {"image", "node"} \/ ruledOut
<1> DEFINE k == cs[c]
           open == LeftOpen(cs, {})
           nodes == OpenNodes(cs, {})
           ops == Ops(cs, {}, left)
           stands == \A e \in k.deps : e \in Present(cs) /\ (~TurnedDown(cs[e]) \/ e \in nodes)
           ruledOut == \E e \in k.deps : \/ e \notin Present(cs)
                                         \/ TurnedDown(cs[e]) /\ e \notin open
<1>1. \A e \in Present(cs) : cs[e].kind = "node" => (e \in open <=> e \in nodes)
  BY DEF LeftOpen, OpenNodes
<1>2. stands <=> ~ruledOut
  BY <1>1
<1>0. k.kind = "known" => k.state # "accepted"
  BY PresentIsCard DEF Card, StatesOf
<1>3. k.kind # "node" =>
        (c \in open <=> /\ stands
                        /\ \/ Undecided(k)
                           \/ k.state = "accepted" /\ k.deps \cap nodes # {})
  BY <1>0 DEF LeftOpen, OpenNodes, Undecided
<1>4. k.kind = "node" => (c \in open <=> Undecided(k)) /\ k.deps = {}
  BY <1>1 DEF OpenNodes, CardSound
<1>5. k.deps \cap open = k.deps \cap nodes
  BY <1>1
<1>6. c \in ops => c \notin open
  BY DEF Ops, Resolved, Accepted, Settled
<1>7. Undecided(k) => c \in open \/ ruledOut
  BY <1>2, <1>3, <1>4
<1>8. c \in open => /\ ~ruledOut
                    /\ Undecided(k) \/ (k.state = "accepted" /\ k.deps \cap open # {})
  BY <1>2, <1>3, <1>4, <1>5
<1>9. ASSUME k.state = "accepted", c \notin open, c \notin ops, ~ruledOut
      PROVE  k.kind \in {"image", "node"}
  <2>1. c \in Accepted(cs, {})
    BY <1>9 DEF Accepted, Settled
  <2>2. CASE c \in Resolved(cs, {})
    BY <1>9, <2>2 DEF Ops, Images, NewNodes
  <2>3. CASE c \notin Resolved(cs, {})
    <3>1. PICK e \in k.deps : e \notin Accepted(cs, {})
      BY <2>1, <2>3 DEF Resolved
    <3>2. e \in Present(cs) /\ cs[e].kind = "node" /\ k.kind # "node"
      BY <1>4, <3>1
    <3>3. e \notin open
      BY <1>1, <1>2, <1>3, <1>9, <3>1, <3>2
    <3>4. cs[e].state # "accepted" /\ ~Undecided(cs[e])
      BY <1>1, <3>1, <3>2, <3>3 DEF Accepted, Settled, OpenNodes
    <3>5. cs[e] \in Card
      BY <3>2, PresentIsCard
    <3>6. TurnedDown(cs[e])
      BY <3>4, <3>5 DEF Card, CardStates, TurnedDown, Undecided
    <3>7. QED
      BY <1>9, <3>1, <3>3, <3>6
  <2>4. QED
    BY <2>2, <2>3
<1> HIDE DEF k, open, ops
<1>10. /\ c \in ops => c \notin open
       /\ Undecided(k) => c \in open \/ ruledOut
       /\ c \in open => /\ ~ruledOut
                        /\ Undecided(k) \/ (k.state = "accepted" /\ k.deps \cap open # {})
       /\ k.state = "accepted" /\ c \notin open \cup ops =>
            k.kind \in {"image", "node"} \/ ruledOut
  BY <1>6, <1>7, <1>8, <1>9
<1>11. QED
  BY <1>10 DEF k, open, ops

\* A draft becomes submitted by a commit of a confirm that read it.
LEMMA SubmittedByCommit ==
  ASSUME QueueInv, Next, NEW d \in Drafts,
         status[d] # "submitted", status'[d] = "submitted"
  PROVE  \E q \in Request : CommitOf(q) /\ q.draft = d
<1> USE DEF QueueInv
<1>1. ASSUME NEW q \in Request, CommitOf(q)
      PROVE  q.draft = d
  BY <1>1 DEF CommitOf, Submit, TypeOK, Request
<1>2. CASE ContributorStep
  <2>1. PICK u \in Contributors :
          \/ CreateDraft(u)
          \/ \E e \in Drafts :
               \/ EnqueueChat(u, e)
               \/ \E focus \in BOOLEAN : EnqueueContinue(u, e, focus)
               \/ AbandonDraft(u, e)
               \/ \E c \in Cids : PatchCandidate(u, e, c)
               \/ CreatePickupDraft(u, e)
               \/ ConfirmAtOnce(u, e)
               \/ \E r \in Requests : ConfirmBegin(u, e, r)
    BY <1>2 DEF ContributorStep
  <2>2. CASE CreateDraft(u) \/ \E e \in Drafts : CreatePickupDraft(u, e)
    BY <2>2 DEF CreateDraft, CreatePickupDraft, Insert, TypeOK
  <2>3. CASE \E e \in Drafts : \/ EnqueueChat(u, e)
                               \/ \E focus \in BOOLEAN : EnqueueContinue(u, e, focus)
                               \/ AbandonDraft(u, e)
    BY <2>3 DEF EnqueueChat, EnqueueContinue, Enqueue, AbandonDraft, TypeOK
  <2>4. CASE \E e \in Drafts : ConfirmAtOnce(u, e)
    <3>1. PICK e \in Drafts : \E left \in SUBSET NewNodes(cards[e], GoneItems(e)) :
                                Submit(Snapshot(e), left)
      BY <2>4 DEF ConfirmAtOnce
    <3>2. CommitOf(Snapshot(e)) /\ Snapshot(e) \in Request
      BY <3>1, SnapshotTyped DEF CommitOf, Snapshot
    <3>3. QED
      BY <1>1, <3>2
  <2>5. CASE \E e \in Drafts : \/ \E c \in Cids : PatchCandidate(u, e, c)
                               \/ \E r \in Requests : ConfirmBegin(u, e, r)
    BY <2>5 DEF PatchCandidate, ConfirmBegin, queueVars
  <2>6. QED
    BY <2>1, <2>2, <2>3, <2>4, <2>5
<1>3. CASE WorkerStep
  <2>1. PICK w \in Workers, e \in Drafts :
          \/ \E pinned \in BOOLEAN : ClaimJob(w, e, pinned)
          \/ Heartbeat(w, e)
          \/ \E p \in Proposals : Propose(w, e, p)
          \/ \E c \in Cids : UpdateCandidate(w, e, c) \/ RemoveCandidate(w, e, c)
          \/ AddMessage(w, e)
          \/ \E error \in BOOLEAN, cost \in 0 .. MaxCost : FinishPass(w, e, error, cost)
    BY <1>3 DEF WorkerStep
  <2>2. CASE \/ \E pinned \in BOOLEAN : ClaimJob(w, e, pinned)
             \/ \E error \in BOOLEAN, cost \in 0 .. MaxCost : FinishPass(w, e, error, cost)
    BY <2>2 DEF ClaimJob, FinishPass, TypeOK
  <2>3. CASE Heartbeat(w, e) \/ AddMessage(w, e)
    BY <2>3 DEF Heartbeat, AddMessage, queueVars
  <2>4. CASE \/ \E p \in Proposals : Propose(w, e, p)
             \/ \E c \in Cids : UpdateCandidate(w, e, c) \/ RemoveCandidate(w, e, c)
    <3>1. OnlyCards
      BY <2>4 DEF Propose, UpdateCandidate, RemoveCandidate
    <3>2. QED
      BY <3>1 DEF OnlyCards, queueVars
  <2>5. QED
    BY <2>1, <2>2, <2>3, <2>4
<1>4. CASE ServerStep
  <2>1. ASSUME NEW r \in Requests, ConfirmCommit(r)
        PROVE  \E q \in Request : CommitOf(q) /\ q.draft = d
    <3>1. confirming[r] \in Request /\ CommitOf(confirming[r])
      BY <2>1 DEF ConfirmCommit, TypeOK, CommitOf
    <3>2. QED
      BY <1>1, <3>1
  <2>2. CASE \/ \E r \in Requests : ConfirmRefused(r)
             \/ \E D \in SUBSET Drafts : BeatsExpire(D)
             \/ NewDay
    BY <2>2 DEF ConfirmRefused, BeatsExpire, NewDay, queueVars
  <2>3. QED
    BY <1>4, <2>1, <2>2 DEF ServerStep
<1>5. QED
  BY <1>2, <1>3, <1>4 DEF Next

LEMMA AccountsStay ==
  ASSUME QueueInv, SheetInv, DepsStand, ItemsOfSubmitted, RequestsSound,
         CardsAccountedFor, Next
  PROVE  CardsAccountedFor'
<1> SUFFICES ASSUME NEW d \in Drafts, status'[d] = "submitted", from'[d] = 0,
                    NEW c \in Present(cards'[d])
             PROVE  LET k == cards'[d][c]
                        ruledOut == \E e \in k.deps :
                                      \/ e \notin Present(cards'[d])
                                      \/ TurnedDown(cards'[d][e]) /\ e \notin items'[d]
                    IN  /\ c \in Present(batch'[d]) => c \notin items'[d]
                        /\ Undecided(k) => c \in items'[d] \/ ruledOut
                        /\ c \in items'[d] =>
                             /\ ~ruledOut
                             /\ Undecided(k) \/ (k.state = "accepted" /\ k.deps \cap items'[d] # {})
                        /\ k.state = "accepted" /\ c \notin items'[d] \cup Present(batch'[d]) =>
                             k.kind \in {"image", "node"} \/ ruledOut
  BY DEF CardsAccountedFor
<1>1. CASE status[d] = "submitted"
  <2>1. /\ cards'[d] = cards[d] /\ batch'[d] = batch[d] /\ items'[d] = items[d]
        /\ from'[d] = from[d]
    BY <1>1, SheetStays, FromStays
  <2>2. QED
    BY <1>1, <2>1 DEF CardsAccountedFor
<1>2. CASE status[d] # "submitted"
  <2>1. PICK q \in Request : CommitOf(q) /\ q.draft = d
    BY <1>2, SubmittedByCommit
  <2>2. PICK left \in SUBSET (Images(q.cards, q.gone) \cup NewNodes(q.cards, q.gone)) :
          Submit(q, left)
    BY <2>1 DEF CommitOf
  <2>3. from[d] = 0 /\ q.gone = {}
    BY <2>1, <2>2, CommitsSound DEF RequestSound, Submit, rowVars
  <2> DEFINE cs == cards[d]
             ops == Ops(cs, {}, left)
  <2>4. /\ cs \in CardTable /\ q.cards = cs /\ cards' = cards
        /\ left \in SUBSET (Images(cs, {}) \cup NewNodes(cs, {}))
    BY <2>1, <2>2, <2>3 DEF Submit, SameDraft, QueueInv, TypeOK
  <2>5. batch'[d] = [e \in Cids |-> IF e \in ops THEN cs[e] ELSE NoCard]
    BY <2>1, <2>2, <2>3, <2>4 DEF Submit, QueueInv, TypeOK
  <2>6. items'[d] = LeftOpen(cs, {})
    <3>1. items[d] = {} /\ SourceCids(d) = {}
      BY <1>2, <2>3 DEF ItemsOfSubmitted, SourceCids
    <3>2. items'[d] = items[d] \cup KeptOpen(q)
      BY <2>1, <2>2 DEF Submit, QueueInv, TypeOK
    <3>3. QED
      BY <2>1, <2>3, <2>4, <3>1, <3>2 DEF KeptOpen
  <2>7. c \in Present(batch'[d]) <=> c \in ops
    BY <2>4, <2>5 DEF Present
  <2>8. \A e \in Present(cs) :
          /\ CardSound(cs[e])
          /\ \A x \in cs[e].deps : x \in Present(cs) /\ cs[x].kind = "node"
    BY DEF SheetInv, CardsSound, DepsStand
  <2>9. c \in Present(cs)
    BY <2>4
  <2> HIDE DEF cs, ops
  <2>10. QED
    BY <2>4, <2>6, <2>7, <2>8, <2>9, CardsSorted DEF cs, ops
<1>3. QED
  BY <1>1, <1>2

\* What a commit decides: items of the read it was picked from, each decided in
\* it or unable to stand.
LEMMA CommitDecides ==
  ASSUME QueueInv, CardsSound, RequestsSound, DecidedByItsPickup, Next,
         NEW q \in Request, CommitOf(q), from[q.draft] # 0,
         NEW c \in Decisions(q.draft, q.cards, q.gone)
  PROVE  /\ c \in items[from[q.draft]]
         /\ c \in Present(cards[q.draft])
         /\ \/ cards[q.draft][c].edited /\ cards[q.draft][c].state \in {"accepted", "rejected"}
            \/ \E e \in cards[q.draft][c].deps :
                 \/ e \notin Present(cards[q.draft])
                 \/ TurnedDown(cards[q.draft][e])
                 \/ decidedIn'[from[q.draft]][e] \notin {0, q.draft}
            \/ cards[q.draft][c].kind = "known"
<1> DEFINE d == q.draft
           s == from[d]
           cs == cards[d]
<1>1. /\ d \in Drafts /\ s \in Drafts /\ q.gone \subseteq Cids
      /\ q.cards = cs /\ status[d] = "ready" /\ cs \in CardTable
  BY DraftQueueAssumption
     DEF CommitOf, Submit, SameDraft, Request, QueueInv, TypeOK, Drafts
<1>2. RequestSound(q)
  BY CommitsSound
<1>3. c \in items[s] /\ c \in Settled(cs, q.gone)
  BY <1>1 DEF Decisions, SourceItems
<1>4. c \in Present(cs) /\ c \notin q.gone /\ c \notin LeftOpen(cs, q.gone)
  BY <1>3 DEF Settled
<1>5. ASSUME Undecided(cs[c])
      PROVE  \E e \in cs[c].deps : \/ e \notin Present(cs)
                                   \/ TurnedDown(cs[e])
                                   \/ decidedIn'[s][e] \notin {0, d}
  <2>1. cs[c].kind \notin {"node", "known"}
    BY <1>4, <1>5 DEF LeftOpen, OpenNodes, Undecided
  <2>2. PICK e \in cs[c].deps : \/ e \notin Present(cs) \ q.gone
                                \/ TurnedDown(cs[e])
    BY <1>4, <1>5, <2>1 DEF LeftOpen
  <2>3. CASE e \in q.gone
    <3>1. decidedIn[s][e] # 0 /\ e \in Cids
      BY <1>1, <1>2, <2>3 DEF RequestSound
    <3>2. decidedIn[s][e] # d
      BY <1>1, <3>1 DEF DecidedByItsPickup
    <3>3. decidedIn'[s][e] = decidedIn[s][e]
      BY <1>1, <3>1, DecisionsStay
    <3>4. QED
      BY <3>1, <3>2, <3>3
  <2>4. CASE e \notin q.gone
    BY <2>2, <2>4
  <2>5. QED
    BY <2>3, <2>4
<1>6. ASSUME ~Undecided(cs[c]), cs[c].kind # "known"
      PROVE  cs[c].edited /\ cs[c].state \in {"accepted", "rejected"}
  <2>1. cs[c] \in Card /\ CardSound(cs[c])
    BY <1>1, <1>4, PresentIsCard DEF CardsSound
  <2>2. cs[c].state \in {"accepted", "rejected"}
    BY <1>6, <2>1 DEF Card, CardStates, Undecided
  <2>3. cs[c].state = "rejected" => ~cs[c].badLink \/ cs[c].edited
    BY <1>6 DEF Undecided, LinkUnchecked
  <2>4. QED
    BY <2>1, <2>2, <2>3 DEF CardSound
<1>7. QED
  BY <1>3, <1>4, <1>5, <1>6

LEMMA DecisionsStayTheirs ==
  ASSUME QueueInv, SheetInv, RequestsSound, DecidedByItsPickup, Next
  PROVE  DecidedByItsPickup'
<1> SUFFICES ASSUME NEW s \in Drafts, NEW c \in Cids, decidedIn'[s][c] # 0
             PROVE  LET d == decidedIn'[s][c] IN
                      /\ c \in items'[s]
                      /\ status'[d] = "submitted" /\ from'[d] = s
                      /\ c \in Present(cards'[d])
                      /\ \/ cards'[d][c].edited
                            /\ cards'[d][c].state \in {"accepted", "rejected"}
                         \/ \E e \in cards'[d][c].deps :
                              \/ e \notin Present(cards'[d])
                              \/ TurnedDown(cards'[d][e])
                              \/ decidedIn'[s][e] \notin {0, d}
                         \/ cards'[d][c].kind = "known"
  BY DEF DecidedByItsPickup, SettledIn
<1>0. QueueInv'
  BY ContributorKeepsInv, WorkerKeepsInv, ServerKeepsInv DEF Next
<1> DEFINE d == decidedIn'[s][c]
<1>1. d \in Drafts
  <2>1. decidedIn' \in [Drafts -> [Cids -> 0 .. MaxDrafts]]
    BY <1>0 DEF QueueInv, TypeOK
  <2>2. d \in 0 .. MaxDrafts /\ d # 0
    BY <2>1
  <2>3. QED
    BY <2>2, DraftQueueAssumption DEF Drafts
<1>2. items[s] \subseteq items'[s]
  <2>1. ASSUME NEW q \in Request, CommitOf(q)
        PROVE  items[s] \subseteq items'[s]
    BY <2>1 DEF CommitOf, Submit, QueueInv, TypeOK
  <2>2. QED
    BY <2>1, SheetsMove
<1>3. CASE decidedIn[s][c] # 0
  <2>1. decidedIn[s][c] = d
    BY <1>3, DecisionsStay
  <2>2. /\ c \in items[s] /\ status[d] = "submitted" /\ from[d] = s
        /\ c \in Present(cards[d])
        /\ \/ cards[d][c].edited /\ cards[d][c].state \in {"accepted", "rejected"}
           \/ \E e \in cards[d][c].deps : \/ e \notin Present(cards[d])
                                          \/ TurnedDown(cards[d][e])
                                          \/ decidedIn[s][e] \notin {0, d}
           \/ cards[d][c].kind = "known"
    BY <1>3, <2>1 DEF DecidedByItsPickup, SettledIn
  <2>3. status'[d] = "submitted" /\ from'[d] = from[d] /\ cards'[d] = cards[d]
    BY <1>1, <2>2, SubmittedStays, FromStays, SheetStays
  <2>4. \A e \in Cids : decidedIn[s][e] # 0 => decidedIn'[s][e] = decidedIn[s][e]
    BY DecisionsStay
  <2>5. cards[d][c] \in Card
    BY <1>1, <2>2, PresentIsCard DEF QueueInv, TypeOK
  <2>6. cards[d][c].deps \subseteq Cids
    BY <2>5 DEF Card
  <2> HIDE DEF d
  <2>7. QED
    BY <1>2, <2>2, <2>3, <2>4, <2>6 DEF d
<1>4. CASE decidedIn[s][c] = 0
  <2>1. PICK q \in Request : CommitOf(q)
    BY <1>4, SheetsMove
  <2>2. PICK left : Submit(q, left)
    BY <2>1 DEF CommitOf
  <2>3. /\ q.draft \in Drafts /\ from[q.draft] \in 0 .. MaxDrafts
        /\ decidedIn' = IF from[q.draft] = 0 THEN decidedIn
                        ELSE [decidedIn EXCEPT ![from[q.draft]] =
                                [x \in Cids |-> IF x \in Decisions(q.draft, q.cards, q.gone)
                                                THEN q.draft ELSE @[x]]]
        /\ decidedIn \in [Drafts -> [Cids -> 0 .. MaxDrafts]]
    BY <2>2 DEF Submit, Request, QueueInv, TypeOK
  <2>4. /\ s = from[q.draft] /\ from[q.draft] # 0
        /\ c \in Decisions(q.draft, q.cards, q.gone) /\ d = q.draft
    BY <1>4, <2>3
  <2>5. status'[d] = "submitted" /\ cards' = cards /\ from' = from
    BY <2>2, <2>3, <2>4 DEF Submit, rowVars, QueueInv, TypeOK
  <2> HIDE DEF d
  <2>6. QED
    BY <1>2, <2>1, <2>4, <2>5, CommitDecides DEF d, SheetInv
<1>5. QED
  BY <1>3, <1>4

-----------------------------------------------------------------------------
\* The inductive invariant of the open items.
ItemInv == /\ DepsStand /\ ItemsOfSubmitted /\ RequestsSound
           /\ CardsAccountedFor /\ DecidedByItsPickup

LEMMA InitItems == Init => ItemInv
  BY DEF Init, ItemInv, DepsStand, ItemsOfSubmitted, RequestsSound, CardsAccountedFor,
         DecidedByItsPickup, NoCards, Present

\* The invariant of the open items holds in every state of every behaviour.
THEOREM ItemInvariant == Spec => []ItemInv
<1>1. QueueInv /\ SheetInv /\ ItemInv /\ Next => ItemInv'
  BY DepsStayStanding, ItemsStayOfSubmitted, RequestsStaySound, AccountsStay,
     DecisionsStayTheirs DEF ItemInv
<1>2. ItemInv /\ UNCHANGED vars => ItemInv'
  BY DEF ItemInv, DepsStand, ItemsOfSubmitted, RequestsSound, RequestSound,
         CardsAccountedFor, DecidedByItsPickup, SettledIn, vars
<1>3. QED
  BY InitItems, <1>1, <1>2, QueueInvariant, SheetInvariant, PTL DEF Spec

\* Every card of a submitted read is an operation, kept open, decided without
\* effect, or ruled out by a "no": none is forgotten between confirm and open item.
THEOREM CardsAreAccountedFor == Spec => []CardsAccountedFor
  BY ItemInvariant, PTL DEF ItemInv

\* Whoever decided an open item is a submitted pick-up of its read whose card of
\* that number was decided, could not stand, or was a note nobody has to decide.
THEOREM DecisionsComeFromPickups == Spec => []DecidedByItsPickup
  BY ItemInvariant, PTL DEF ItemInv

-----------------------------------------------------------------------------
(* The drafts implement ReadContract.                                      *)

StillOpen(d) == status[d] \in {"queued", "running", "ready", "failed"}

\* Besides commits, a step opens one draft, gives one up, or leaves every draft
\* in the stage it was in.
LEMMA StagesMove ==
  ASSUME QueueInv, Next
  PROVE  \/ \E q \in Request : CommitOf(q)
         \/ \E d \in Drafts, s \in 0 .. MaxDrafts :
              /\ Unused(d)
              /\ s # 0 => status[s] = "submitted" /\ \E c \in Cids : ItemOpen(s, c)
              /\ from' = [from EXCEPT ![d] = s]
              /\ \E x \in {"queued", "ready"} : status' = [status EXCEPT ![d] = x]
              /\ UNCHANGED <<itemVars, batch>>
         \/ \E d \in Drafts : /\ StillOpen(d)
                              /\ status' = [status EXCEPT ![d] = "abandoned"]
                              /\ UNCHANGED <<from, itemVars, batch>>
         \/ /\ \A d \in Drafts : \/ status'[d] = status[d]
                                 \/ StillOpen(d) /\ StillOpen(d)'
            /\ status' \in [Drafts -> Statuses]
            /\ UNCHANGED <<from, itemVars, batch>>
<1> USE DEF QueueInv
<1> DEFINE Opens ==
             \E d \in Drafts, s \in 0 .. MaxDrafts :
               /\ Unused(d)
               /\ s # 0 => status[s] = "submitted" /\ \E c \in Cids : ItemOpen(s, c)
               /\ from' = [from EXCEPT ![d] = s]
               /\ \E x \in {"queued", "ready"} : status' = [status EXCEPT ![d] = x]
               /\ UNCHANGED <<itemVars, batch>>
           GivesUp ==
             \E d \in Drafts : /\ StillOpen(d)
                               /\ status' = [status EXCEPT ![d] = "abandoned"]
                               /\ UNCHANGED <<from, itemVars, batch>>
           Stays ==
             /\ \A d \in Drafts : \/ status'[d] = status[d]
                                  \/ StillOpen(d) /\ StillOpen(d)'
             /\ status' \in [Drafts -> Statuses]
             /\ UNCHANGED <<from, itemVars, batch>>
<1>1. ASSUME NEW u \in Contributors, CreateDraft(u)
      PROVE  Opens
  <2>1. PICK d \in Drafts : Insert(u, d, 0, "initial", NoCards)
    BY <1>1 DEF CreateDraft
  <2>2. /\ Unused(d) /\ from' = [from EXCEPT ![d] = 0]
        /\ status' = [status EXCEPT ![d] = "queued"]
        /\ UNCHANGED <<itemVars, batch>>
    BY <2>1 DEF Insert
  <2>3. 0 \in 0 .. MaxDrafts
    BY DraftQueueAssumption
  <2>4. QED
    BY <2>2, <2>3
<1>2. ASSUME NEW u \in Contributors, NEW s \in Drafts, CreatePickupDraft(u, s)
      PROVE  Opens
  <2>1. PICK known \in SUBSET Present(cards[s]), lost \in SUBSET Present(cards[s]),
             d \in Drafts : Insert(u, d, s, "none", PickedCards(s, known, lost))
    BY <1>2 DEF CreatePickupDraft
  <2>2. /\ Unused(d) /\ from' = [from EXCEPT ![d] = s]
        /\ status' = [status EXCEPT ![d] = "ready"]
        /\ UNCHANGED <<itemVars, batch>>
    BY <2>1 DEF Insert
  <2>3. s \in 0 .. MaxDrafts /\ status[s] = "submitted" /\ \E c \in Cids : ItemOpen(s, c)
    BY <1>2, DraftQueueAssumption DEF CreatePickupDraft, Drafts
  <2>4. QED
    BY <2>2, <2>3
<1>3. ASSUME NEW u \in Contributors, NEW d \in Drafts, AbandonDraft(u, d)
      PROVE  GivesUp \/ Stays
  <2>1. /\ status[d] \notin {"none", "submitted"}
        /\ status' = [status EXCEPT ![d] = "abandoned"]
        /\ UNCHANGED <<from, itemVars, batch>>
    BY <1>3 DEF AbandonDraft, Editor, rowVars
  <2>2. CASE status[d] = "abandoned"
    BY <2>1, <2>2 DEF TypeOK
  <2>3. CASE status[d] # "abandoned"
    BY <2>1, <2>3 DEF TypeOK, Statuses, StillOpen
  <2>4. QED
    BY <2>2, <2>3
<1>4. ASSUME NEW u \in Contributors, NEW d \in Drafts,
             \/ EnqueueChat(u, d)
             \/ \E focus \in BOOLEAN : EnqueueContinue(u, d, focus)
      PROVE  Stays
  <2>1. PICK kind \in {"chat", "continue"} : Enqueue(d, kind)
    BY <1>4 DEF EnqueueChat, EnqueueContinue
  <2>2. /\ status[d] \in {"ready", "failed"}
        /\ status' = [status EXCEPT ![d] = "queued"]
        /\ UNCHANGED <<from, itemVars, batch>>
    BY <2>1 DEF Enqueue, MayEnqueue
  <2>3. QED
    BY <2>2 DEF TypeOK, Statuses, StillOpen
<1>5. ASSUME NEW u \in Contributors, NEW d \in Drafts,
             \/ \E c \in Cids : PatchCandidate(u, d, c)
             \/ \E r \in Requests : ConfirmBegin(u, d, r)
      PROVE  Stays
  <2>1. UNCHANGED <<status, from, itemVars, batch>>
    BY <1>5 DEF PatchCandidate, ConfirmBegin, queueVars, rowVars
  <2>2. QED
    BY <2>1 DEF TypeOK
<1>6. ASSUME NEW u \in Contributors, NEW d \in Drafts, ConfirmAtOnce(u, d)
      PROVE  \E q \in Request : CommitOf(q)
  <2>1. PICK left \in SUBSET NewNodes(cards[d], GoneItems(d)) : Submit(Snapshot(d), left)
    BY <1>6 DEF ConfirmAtOnce
  <2>2. CommitOf(Snapshot(d))
    BY <2>1 DEF CommitOf, Snapshot
  <2>3. QED
    BY <2>2, SnapshotTyped
<1>7. ASSUME NEW w \in Workers, NEW d \in Drafts,
             \E pinned \in BOOLEAN : ClaimJob(w, d, pinned)
      PROVE  Stays
  <2>1. /\ status[d] \in {"queued", "running"}
        /\ status' = [status EXCEPT ![d] = "running"]
        /\ UNCHANGED <<from, itemVars, batch>>
    BY <1>7 DEF ClaimJob, Claimable, rowVars
  <2>2. QED
    BY <2>1 DEF TypeOK, Statuses, StillOpen
<1>8. ASSUME NEW w \in Workers, NEW d \in Drafts,
             \E error \in BOOLEAN, cost \in 0 .. MaxCost : FinishPass(w, d, error, cost)
      PROVE  Stays
  <2>1. PICK error \in BOOLEAN, cost \in 0 .. MaxCost : FinishPass(w, d, error, cost)
    BY <1>8
  <2>2. /\ StillOpen(d)
        /\ \E x \in {"failed", "ready"} : status' = [status EXCEPT ![d] = x]
        /\ UNCHANGED <<from, itemVars, batch>>
    BY <2>1 DEF FinishPass, Claimed, QueueConsistent, StillOpen, rowVars
  <2>3. QED
    BY <2>2 DEF TypeOK, Statuses, StillOpen
<1>9. ASSUME NEW w \in Workers, NEW d \in Drafts,
             \/ Heartbeat(w, d)
             \/ \E p \in Proposals : Propose(w, d, p)
             \/ \E c \in Cids : UpdateCandidate(w, d, c) \/ RemoveCandidate(w, d, c)
             \/ AddMessage(w, d)
      PROVE  Stays
  <2>1. UNCHANGED <<status, from, itemVars, batch>>
    BY <1>9 DEF Heartbeat, Propose, UpdateCandidate, RemoveCandidate, AddMessage, OnlyCards,
                queueVars, rowVars
  <2>2. QED
    BY <2>1 DEF TypeOK
<1>10. ASSUME \/ \E r \in Requests : ConfirmRefused(r)
              \/ \E D \in SUBSET Drafts : BeatsExpire(D)
              \/ NewDay
       PROVE  Stays
  <2>1. UNCHANGED <<status, from, itemVars, batch>>
    BY <1>10 DEF ConfirmRefused, BeatsExpire, NewDay, queueVars, rowVars
  <2>2. QED
    BY <2>1 DEF TypeOK
<1>11. ASSUME NEW r \in Requests, ConfirmCommit(r)
       PROVE  \E q \in Request : CommitOf(q)
  <2>1. confirming[r] \in Request
    BY <1>11 DEF ConfirmCommit, TypeOK
  <2>2. CommitOf(confirming[r])
    BY <1>11 DEF ConfirmCommit, CommitOf
  <2>3. QED
    BY <2>1, <2>2
<1> HIDE DEF Opens, GivesUp, Stays
<1>12. (\E q \in Request : CommitOf(q)) \/ Opens \/ GivesUp \/ Stays
  <2>1. CASE ContributorStep
    BY <2>1, <1>1, <1>2, <1>3, <1>4, <1>5, <1>6 DEF ContributorStep
  <2>2. CASE WorkerStep
    BY <2>2, <1>7, <1>8, <1>9 DEF WorkerStep
  <2>3. CASE ServerStep
    BY <2>3, <1>10, <1>11 DEF ServerStep
  <2>4. QED
    BY <2>1, <2>2, <2>3 DEF Next
<1>13. QED
  BY <1>12 DEF Opens, GivesUp, Stays

\* What a confirm submits is not what it keeps open, and it decides each open
\* card of its source that it submits.
LEMMA CommitFits ==
  ASSUME QueueInv, NEW q \in Request, NEW left
  PROVE  /\ Ops(q.cards, q.gone, left) \subseteq Present(q.cards)
         /\ Ops(q.cards, q.gone, left) \cap KeptOpen(q) = {}
         /\ Ops(q.cards, q.gone, left) \cap SourceItems(q.draft)
              \subseteq Decisions(q.draft, q.cards, q.gone)
  BY DEF Ops, Resolved, Accepted, Settled, KeptOpen, Decisions

\* A commit is one submission of the contract.
LEMMA CommitSubmits ==
  ASSUME QueueInv, ItemInv, Next, NEW q \in Request, CommitOf(q)
  PROVE  Contract!Submit(q.draft)
<1> USE DEF QueueInv
<1>1. PICK left \in SUBSET (Images(q.cards, q.gone) \cup NewNodes(q.cards, q.gone)) :
        Submit(q, left)
  BY DEF CommitOf
<1> DEFINE d == q.draft
           ops == Ops(q.cards, q.gone, left)
           decides == Decisions(d, q.cards, q.gone)
           kept == KeptOpen(q)
<1>2. /\ d \in Drafts /\ q.cards \in CardTable /\ from[d] \in 0 .. MaxDrafts
      /\ status[d] = "ready" /\ items[d] = {}
  BY <1>1 DEF Submit, SameDraft, Request, TypeOK, ItemInv, ItemsOfSubmitted
<1>3. /\ ops \cup decides # {}
      /\ FirstToDecide(q)
      /\ status' = [status EXCEPT ![d] = "submitted"]
      /\ batch' = [batch EXCEPT ![d] =
                     [c \in Cids |-> IF c \in ops THEN q.cards[c] ELSE NoCard]]
      /\ items' = [items EXCEPT ![d] = @ \cup kept]
      /\ decidedIn' = IF from[d] = 0 THEN decidedIn
                      ELSE [decidedIn EXCEPT ![from[d]] =
                              [c \in Cids |-> IF c \in decides THEN d ELSE @[c]]]
      /\ from' = from
  BY <1>1 DEF Submit, rowVars
<1>4. /\ ops \subseteq Present(q.cards)
      /\ ops \cap kept = {}
      /\ ops \cap SourceItems(d) \subseteq decides
  BY CommitFits
<1>5. ops \in SUBSET Cids /\ kept \in SUBSET Cids /\ decides \in SUBSET Cids
  BY <1>2, <1>4 DEF Present, KeptOpen, LeftOpen, OpenNodes, Decisions, Settled
<1>6. [e \in Drafts |-> Stage(e)]' = [[e \in Drafts |-> Stage(e)] EXCEPT ![d] = "submitted"]
  BY <1>2, <1>3 DEF Stage, TypeOK
<1>7. [e \in Drafts |-> Present(batch[e])]' = [[e \in Drafts |-> Present(batch[e])] EXCEPT ![d] = ops]
  BY <1>2, <1>3, <1>4 DEF Present, TypeOK
<1>8. items' = [items EXCEPT ![d] = kept]
  BY <1>2, <1>3 DEF TypeOK
<1>9. decidedIn' = Contract!Decide(d, decides)
  BY <1>3 DEF Contract!Decide
<1>10. Contract!Fits(d, ops, kept, decides)
  <2>1. CASE from[d] = 0
    BY <1>3, <1>4, <2>1 DEF Contract!Fits, Decisions, SourceItems
  <2>2. CASE from[d] # 0
    <3>1. decides \subseteq items[from[d]] /\ SourceItems(d) = items[from[d]]
      BY <2>2 DEF Decisions, SourceItems
    <3>2. \A c \in decides : decidedIn[from[d]][c] = 0
      BY <1>3 DEF FirstToDecide
    <3>3. decides \subseteq Contract!OpenCards(from[d])
      BY <3>1, <3>2 DEF Contract!OpenCards
    <3>4. QED
      BY <1>3, <1>4, <2>2, <3>1, <3>3 DEF Contract!Fits
  <2>3. QED
    BY <2>1, <2>2
<1>11. [e \in Drafts |-> Stage(e)][d] = "open"
  BY <1>2 DEF Stage
<1> HIDE DEF d, ops, decides, kept
<1>12. QED
  BY <1>3, <1>5, <1>6, <1>7, <1>8, <1>9, <1>10, <1>11 DEF Contract!Submit, d

\* Every step of the drafts is a step of the contract, or one it does not see.
LEMMA ContractStep ==
  ASSUME QueueInv, ItemInv, Next
  PROVE  Contract!Next \/ UNCHANGED Contract!readVars
<1> USE DEF QueueInv
<1> DEFINE stages == [e \in Drafts |-> Stage(e)]
           mades == [e \in Drafts |-> Present(batch[e])]
<1>1. CASE \E q \in Request : CommitOf(q)
  <2>1. PICK q \in Request : CommitOf(q)
    BY <1>1
  <2>2. Contract!Submit(q.draft) /\ q.draft \in Drafts
    BY <2>1, CommitSubmits DEF Request
  <2>3. QED
    BY <2>2 DEF Contract!Next
<1>2. CASE \E d \in Drafts, s \in 0 .. MaxDrafts :
             /\ Unused(d)
             /\ s # 0 => status[s] = "submitted" /\ \E c \in Cids : ItemOpen(s, c)
             /\ from' = [from EXCEPT ![d] = s]
             /\ \E x \in {"queued", "ready"} : status' = [status EXCEPT ![d] = x]
             /\ UNCHANGED <<itemVars, batch>>
  <2>1. PICK d \in Drafts, s \in 0 .. MaxDrafts :
          /\ Unused(d)
          /\ s # 0 => status[s] = "submitted" /\ \E c \in Cids : ItemOpen(s, c)
          /\ from' = [from EXCEPT ![d] = s]
          /\ \E x \in {"queued", "ready"} : status' = [status EXCEPT ![d] = x]
          /\ UNCHANGED <<itemVars, batch>>
    BY <1>2
  <2>2. s \in Drafts \cup {0}
    BY <2>1, DraftQueueAssumption DEF Drafts
  <2>3. stages[d] = "none"
    BY <2>1 DEF Stage, Unused
  <2>4. s # 0 => stages[s] = "submitted" /\ Contract!OpenCards(s) # {}
    BY <2>1, <2>2 DEF Stage, Contract!OpenCards, ItemOpen
  <2>5. stages' = [stages EXCEPT ![d] = "open"]
    BY <2>1 DEF Stage, TypeOK
  <2>6. UNCHANGED <<mades, items, decidedIn>>
    BY <2>1 DEF itemVars
  <2> HIDE DEF stages, mades
  <2>7. Contract!Open(d, s)
    BY <2>1, <2>3, <2>4, <2>5, <2>6 DEF Contract!Open, stages, mades
  <2>8. QED
    BY <2>2, <2>7 DEF Contract!Next
<1>3. CASE \E d \in Drafts : /\ StillOpen(d)
                             /\ status' = [status EXCEPT ![d] = "abandoned"]
                             /\ UNCHANGED <<from, itemVars, batch>>
  <2>1. PICK d \in Drafts : /\ StillOpen(d)
                            /\ status' = [status EXCEPT ![d] = "abandoned"]
                            /\ UNCHANGED <<from, itemVars, batch>>
    BY <1>3
  <2>2. stages[d] = "open" /\ stages' = [stages EXCEPT ![d] = "given up"]
    BY <2>1 DEF Stage, StillOpen, TypeOK
  <2>3. UNCHANGED <<mades, items, decidedIn>>
    BY <2>1 DEF itemVars
  <2> HIDE DEF stages, mades
  <2>4. Contract!GiveUp(d)
    BY <2>1, <2>2, <2>3 DEF Contract!GiveUp, stages, mades
  <2>5. QED
    BY <2>4 DEF Contract!Next
<1>4. CASE /\ \A d \in Drafts : \/ status'[d] = status[d]
                                \/ StillOpen(d) /\ StillOpen(d)'
           /\ status' \in [Drafts -> Statuses]
           /\ UNCHANGED <<from, itemVars, batch>>
  <2>1. stages' = stages
    BY <1>4 DEF Stage, StillOpen
  <2>2. UNCHANGED <<mades, from, items, decidedIn>>
    BY <1>4 DEF itemVars
  <2> HIDE DEF stages, mades
  <2>3. QED
    BY <2>1, <2>2 DEF Contract!readVars, stages, mades
<1>5. QED
  BY <1>1, <1>2, <1>3, <1>4, StagesMove

\* The drafts implement the contract of a read: one submission or none, in one
\* step, and each card a read left open decided by, and in the batch of, at most
\* one pick-up.
THEOREM ReadsKeepTheContract == Spec => Contract!Init /\ ContractKept
<1>1. Init => Contract!Init
  <2> SUFFICES ASSUME Init PROVE Contract!Init
    OBVIOUS
  <2>1. \A d \in Drafts : Stage(d) = "none" /\ Present(batch[d]) = {}
    BY DEF Init, Stage, Present, NoCards
  <2>2. QED
    BY <2>1 DEF Init, Contract!Init
<1>2. QueueInv /\ ItemInv /\ [Next]_vars => [Contract!Next]_Contract!readVars
  <2>1. CASE UNCHANGED vars
    BY <2>1 DEF vars, Contract!readVars, Stage
  <2>2. QED
    BY <2>1, ContractStep
<1>3. QED
  BY <1>1, <1>2, QueueInvariant, ItemInvariant, PTL DEF Spec, ContractKept, Contract!Steps

-----------------------------------------------------------------------------
(* What is left open is kept, but for the numbers a pick-up shares with    *)
(* its source.                                                             *)

\* Only a submitted read is picked up, and it stays submitted.
SourcesSubmitted ==
  \A d \in Drafts : status[d] # "none" /\ from[d] # 0 => status[from[d]] = "submitted"

\* A confirm leaves out nothing but copies of the source's cards.
LeavesCopies(q) == q.gone \subseteq SourceCids(q.draft)

GoneOfSource == \A r \in Requests : confirming[r] # NoReq => LeavesCopies(confirming[r])

\* Whatever a submitted draft left open is an open item, unless it has the number
\* of a card of the source, or refers to one that has.
OpenCardsKept ==
  \A d \in Drafts : status[d] = "submitted" =>
    \A c \in LeftOpen(cards[d], {}) \ SourceCids(d) :
      cards[d][c].deps \cap SourceCids(d) = {} => c \in items[d]

KeptInv == SourcesSubmitted /\ GoneOfSource /\ OpenCardsKept

LEMMA SourceInRange ==
  ASSUME TypeOK, NEW d \in Drafts, from[d] # 0
  PROVE  from[d] \in Drafts
  BY DraftQueueAssumption DEF TypeOK, Drafts

\* A draft that is picked up is submitted when it is.
LEMMA OpensFromSubmitted ==
  ASSUME QueueInv, Next, NEW d \in Drafts, status[d] = "none", status'[d] # "none", from'[d] # 0
  PROVE  status[from'[d]] = "submitted" /\ from'[d] \in Drafts
<1> USE DEF QueueInv
<1>1. CASE ContributorStep
  <2>1. PICK u \in Contributors :
          \/ CreateDraft(u)
          \/ \E e \in Drafts :
               \/ EnqueueChat(u, e)
               \/ \E focus \in BOOLEAN : EnqueueContinue(u, e, focus)
               \/ AbandonDraft(u, e)
               \/ \E c \in Cids : PatchCandidate(u, e, c)
               \/ CreatePickupDraft(u, e)
               \/ ConfirmAtOnce(u, e)
               \/ \E r \in Requests : ConfirmBegin(u, e, r)
    BY <1>1 DEF ContributorStep
  <2>2. CASE CreateDraft(u)
    <3>1. PICK e \in Drafts : Insert(u, e, 0, "initial", NoCards)
      BY <2>2 DEF CreateDraft
    <3>2. e = d
      BY <3>1 DEF Insert, TypeOK
    <3> QED  BY <3>1, <3>2 DEF Insert, TypeOK
  <2>3. ASSUME NEW t \in Drafts, CreatePickupDraft(u, t)
        PROVE  status[from'[d]] = "submitted" /\ from'[d] \in Drafts
    <3>1. PICK e \in Drafts : \E cs : Insert(u, e, t, "none", cs)
      BY <2>3 DEF CreatePickupDraft
    <3>2. e = d
      BY <3>1 DEF Insert, TypeOK
    <3>3. from'[d] = t
      BY <3>1, <3>2 DEF Insert, TypeOK
    <3> QED  BY <2>3, <3>3 DEF CreatePickupDraft
  <2>4. CASE \E e \in Drafts : \/ EnqueueChat(u, e)
                               \/ \E focus \in BOOLEAN : EnqueueContinue(u, e, focus)
    BY <2>4 DEF EnqueueChat, EnqueueContinue, Enqueue, MayEnqueue, TypeOK
  <2>5. CASE \E e \in Drafts : AbandonDraft(u, e) \/ ConfirmAtOnce(u, e)
    BY <2>5 DEF AbandonDraft, Editor, ConfirmAtOnce, Submit, SameDraft, Snapshot, TypeOK
  <2>6. CASE \E e \in Drafts : \/ \E c \in Cids : PatchCandidate(u, e, c)
                               \/ \E r \in Requests : ConfirmBegin(u, e, r)
    BY <2>6 DEF PatchCandidate, ConfirmBegin, queueVars
  <2>7. QED
    BY <2>1, <2>2, <2>3, <2>4, <2>5, <2>6
<1>2. CASE WorkerStep
  <2>0. job[d] = "none"
    BY DEF Blank
  <2>1. PICK w \in Workers, e \in Drafts :
          \/ \E pinned \in BOOLEAN : ClaimJob(w, e, pinned)
          \/ Heartbeat(w, e)
          \/ \E p \in Proposals : Propose(w, e, p)
          \/ \E c \in Cids : UpdateCandidate(w, e, c) \/ RemoveCandidate(w, e, c)
          \/ AddMessage(w, e)
          \/ \E error \in BOOLEAN, cost \in 0 .. MaxCost : FinishPass(w, e, error, cost)
    BY <1>2 DEF WorkerStep
  <2>2. CASE \/ \E pinned \in BOOLEAN : ClaimJob(w, e, pinned)
             \/ \E error \in BOOLEAN, cost \in 0 .. MaxCost : FinishPass(w, e, error, cost)
    BY <2>0, <2>2 DEF ClaimJob, Claimable, FinishPass, Claimed, TypeOK
  <2>3. CASE Heartbeat(w, e) \/ AddMessage(w, e)
    BY <2>3 DEF Heartbeat, AddMessage, queueVars
  <2>4. CASE \/ \E p \in Proposals : Propose(w, e, p)
             \/ \E c \in Cids : UpdateCandidate(w, e, c) \/ RemoveCandidate(w, e, c)
    <3>1. OnlyCards
      BY <2>4 DEF Propose, UpdateCandidate, RemoveCandidate
    <3>2. QED
      BY <3>1 DEF OnlyCards, queueVars
  <2>5. QED
    BY <2>1, <2>2, <2>3, <2>4
<1>3. CASE ServerStep
  BY <1>3 DEF ServerStep, ConfirmCommit, Submit, SameDraft, ConfirmRefused, BeatsExpire, NewDay,
              queueVars, TypeOK
<1>4. QED
  BY <1>1, <1>2, <1>3 DEF Next

LEMMA SourcesStaySubmitted ==
  ASSUME QueueInv, SourcesSubmitted, Next
  PROVE  SourcesSubmitted'
<1> SUFFICES ASSUME NEW d \in Drafts, status'[d] # "none", from'[d] # 0
             PROVE  status'[from'[d]] = "submitted"
  BY DEF SourcesSubmitted
<1>1. status[from'[d]] = "submitted" /\ from'[d] \in Drafts
  <2>1. CASE status[d] = "none"
    BY <2>1, OpensFromSubmitted
  <2>2. CASE status[d] # "none"
    BY <2>2, FromStays, SourceInRange DEF SourcesSubmitted, QueueInv
  <2> QED  BY <2>1, <2>2
<1> QED  BY <1>1, SubmittedStays

\* The numbers of the source are the same as long as the draft is there.
LEMMA SourceCidsStay ==
  ASSUME QueueInv, SourcesSubmitted, Next, NEW d \in Drafts, status[d] # "none"
  PROVE  SourceCids(d)' = SourceCids(d)
<1>1. from'[d] = from[d]
  BY FromStays
<1>2. from[d] # 0 => cards'[from[d]] = cards[from[d]]
  BY SourceInRange, SheetStays DEF QueueInv, SourcesSubmitted
<1> QED  BY <1>1, <1>2 DEF SourceCids, Present

LEMMA GoneStayOfSource ==
  ASSUME QueueInv, RequestsSound, SourcesSubmitted, GoneOfSource, Next
  PROVE  GoneOfSource'
<1> SUFFICES ASSUME NEW r \in Requests, confirming'[r] # NoReq
             PROVE  LeavesCopies(confirming[r])'
  BY DEF GoneOfSource
<1>1. ASSUME NEW q, q.draft \in Drafts, status[q.draft] # "none", LeavesCopies(q),
             q = confirming'[r]
      PROVE  LeavesCopies(confirming[r])'
  <2>1. SourceCids(q.draft)' = SourceCids(q.draft)
    BY <1>1, SourceCidsStay
  <2> QED  BY <1>1, <2>1 DEF LeavesCopies, SourceCids
<1>2. CASE confirming'[r] = confirming[r]
  <2>1. confirming[r] \in Request /\ RequestSound(confirming[r])
    BY <1>2 DEF QueueInv, TypeOK, RequestsSound
  <2>2. confirming[r].draft \in Drafts /\ status[confirming[r].draft] # "none"
    BY <2>1 DEF Request, RequestSound
  <2>3. LeavesCopies(confirming[r])
    BY <1>2 DEF GoneOfSource
  <2> QED  BY <1>1, <1>2, <2>2, <2>3
<1>3. CASE confirming'[r] # confirming[r]
  <2>1. PICK d \in Drafts : status[d] = "ready" /\ confirming'[r] = Snapshot(d)
    BY <1>3, ConfirmsMove
  <2>2. Snapshot(d).draft = d /\ LeavesCopies(Snapshot(d))
    BY DEF Snapshot, GoneItems, LeavesCopies
  <2> QED  BY <1>1, <2>1, <2>2
<1> QED  BY <1>2, <1>3

\* What a table leaves open it leaves open beside cards that are left out, unless
\* it is one of those or refers to one.
LEMMA LeftOpenBeside ==
  ASSUME NEW cs \in CardTable, NEW gone, NEW c \in LeftOpen(cs, {}), c \notin gone,
         cs[c].deps \cap gone = {}
  PROVE  c \in LeftOpen(cs, gone)
<1> DEFINE open == OpenNodes(cs, {})
           rest == OpenNodes(cs, gone)
<1>1. \A e : e \notin gone => (e \in open <=> e \in rest)
  BY DEF OpenNodes
<1>2. CASE c \in open
  BY <1>1, <1>2 DEF LeftOpen
<1>3. CASE c \notin open
  <2>1. /\ c \in Present(cs) /\ cs[c].kind \notin {"node", "known"}
        /\ \A e \in cs[c].deps : e \in Present(cs) /\ (~TurnedDown(cs[e]) \/ e \in open)
        /\ Undecided(cs[c]) \/ (cs[c].state = "accepted" /\ cs[c].deps \cap open # {})
    BY <1>3 DEF LeftOpen
  <2>2. \A e \in cs[c].deps : e \notin gone
    OBVIOUS
  <2>3. \A e \in cs[c].deps : e \in Present(cs) \ gone /\ (~TurnedDown(cs[e]) \/ e \in rest)
    BY <1>1, <2>1, <2>2
  <2>4. cs[c].deps \cap open # {} => cs[c].deps \cap rest # {}
    BY <1>1, <2>2
  <2> HIDE DEF open, rest
  <2> QED  BY <2>1, <2>3, <2>4 DEF LeftOpen, rest
<1> QED  BY <1>2, <1>3

LEMMA OpenCardsStayKept ==
  ASSUME QueueInv, RequestsSound, KeptInv, Next
  PROVE  OpenCardsKept'
<1> SUFFICES ASSUME NEW d \in Drafts, status'[d] = "submitted",
                    NEW c \in LeftOpen(cards'[d], {}), c \notin SourceCids(d)',
                    cards'[d][c].deps \cap SourceCids(d)' = {}
             PROVE  c \in items'[d]
  BY DEF OpenCardsKept, LeftOpen, OpenNodes, Present
<1>0. status[d] # "none"
  <2>1. status[d] # "submitted" => \E q \in Request : CommitOf(q) /\ q.draft = d
    BY SubmittedByCommit
  <2> QED  BY <2>1 DEF CommitOf, Submit, SameDraft
<1>1. SourceCids(d)' = SourceCids(d)
  BY <1>0, SourceCidsStay DEF KeptInv
<1>2. CASE status[d] = "submitted"
  <2>1. cards'[d] = cards[d] /\ items'[d] = items[d]
    BY <1>2, SheetStays
  <2> QED  BY <1>1, <1>2, <2>1 DEF KeptInv, OpenCardsKept
<1>3. CASE status[d] # "submitted"
  <2>1. PICK q \in Request : CommitOf(q) /\ q.draft = d
    BY <1>3, SubmittedByCommit
  <2>2. PICK left : Submit(q, left)
    BY <2>1 DEF CommitOf
  <2>3. q.cards = cards[d] /\ cards' = cards /\ cards[d] \in CardTable
    BY <2>1, <2>2 DEF Submit, SameDraft, QueueInv, TypeOK
  <2>4. q.gone \subseteq SourceCids(d)
    BY <2>1 DEF CommitOf, KeptInv, GoneOfSource, LeavesCopies, Snapshot, GoneItems
  <2>5. items'[d] = items[d] \cup (LeftOpen(cards[d], q.gone) \ SourceCids(d))
    BY <2>1, <2>2, <2>3 DEF Submit, KeptOpen, QueueInv, TypeOK
  <2>6. c \in LeftOpen(cards[d], q.gone)
    <3>1. c \in LeftOpen(cards[d], {}) /\ c \notin q.gone /\ cards[d][c].deps \cap q.gone = {}
      BY <1>1, <2>3, <2>4
    <3> QED  BY <2>3, <3>1, LeftOpenBeside
  <2> QED  BY <1>1, <2>5, <2>6
<1> QED  BY <1>2, <1>3

\* Nothing left open at Confirm is lost but by the number it shares with a card
\* of the source (the `continue` at draft.ts:1387), and by reference to such a
\* card: for a read of its own, nothing is, and for a pick-up the fault that
\* NothingUndecidedIsLost shows is the only one.
THEOREM LeftOpenIsKept == Spec => []OpenCardsKept
<1>1. Init => KeptInv
  BY DEF Init, KeptInv, SourcesSubmitted, GoneOfSource, OpenCardsKept
<1>2. QueueInv /\ ItemInv /\ KeptInv /\ Next => KeptInv'
  BY SourcesStaySubmitted, GoneStayOfSource, OpenCardsStayKept DEF KeptInv, ItemInv
<1>3. KeptInv /\ UNCHANGED vars => KeptInv'
  BY DEF KeptInv, SourcesSubmitted, GoneOfSource, LeavesCopies, OpenCardsKept, SourceCids, Present, LeftOpen,
         OpenNodes, vars
<1>4. KeptInv => OpenCardsKept
  BY DEF KeptInv
<1> QED  BY <1>1, <1>2, <1>3, <1>4, QueueInvariant, ItemInvariant, PTL DEF Spec
=============================================================================
