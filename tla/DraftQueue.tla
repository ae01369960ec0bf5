----------------------------- MODULE DraftQueue -----------------------------
(***************************************************************************)
(* The `drafts` table of the URL intake (src/intake/draft.ts): unit of     *)
(* work, job queue and review sheet at once, with the open items it leaves *)
(* (intake_open_items).  Contributors enqueue, decide and confirm; workers *)
(* claim a job, write cards through the draft tools and finish.  Every     *)
(* handler is one step: the store is synchronous, so two handlers only     *)
(* interleave where one awaits, and the only await that is followed by a   *)
(* write here is Confirm's mirroring of images, modelled as a request in   *)
(* flight.                                                                 *)
(*                                                                         *)
(* Any worker may call any worker handler at any time: one that crashed,   *)
(* lost its claim or was never spawned by the app included.                *)
(***************************************************************************)
EXTENDS DraftCards

CONSTANTS MaxDrafts,     \* bound: drafts ever created
          Contributors,  \* people with a session or a token
          Admins,        \* those with scope "admin"
          HasEmail,      \* those with an address on file
          Workers,       \* worker processes
          Requests,      \* bound: confirms suspended at once
          Proposals,     \* what the agent may propose
          MaxActive,     \* INTAKE_MAX_ACTIVE_DRAFTS
          MaxPerDay,     \* INTAKE_MAX_DRAFTS_PER_DAY
          MaxPasses,     \* INTAKE_MAX_PASSES
          MaxTalk,       \* MAX_MESSAGES
          DailyBudget,   \* INTAKE_DAILY_BUDGET_USD; 0 switches the gate off
          MaxCost,       \* bound: what one pass may report as its cost
          MaxSpent,      \* bound: spend counted in a day
          NoOne,         \* null in a contributor column
          NoWorker,      \* null in claimed_by
          NoReq          \* no confirm suspended

VARIABLES
  status,     \* per draft, "none" before it exists
  job,        \* per draft: kind of the queued or running job, or "none"
  claimedBy,  \* per draft: claimed_by
  beat,       \* per draft: heartbeat_at as claims read it
  owner,      \* per draft: contributor_id
  from,       \* per draft: picked_from, 0 for none
  passes,     \* per draft: finished passes
  talk,       \* per draft: length of the transcript
  cards,      \* per draft: candidates
  notified,   \* per draft: notified_ready_at is set
  items,      \* per draft: cards with a row in intake_open_items
  decidedIn,  \* per draft and card: decided_in of that row, 0 while open
  batch,      \* per draft: the cards submitted as operations
  madeToday,  \* drafts created since midnight UTC
  spent,      \* intake_usage of today
  confirming  \* per request: a confirm suspended at its mirror awaits

queueVars == <<status, job, claimedBy, beat>>
rowVars == <<owner, from, passes, talk, notified>>
itemVars == <<items, decidedIn>>
dayVars == <<madeToday, spent>>
vars == <<status, job, claimedBy, beat, owner, from, passes, talk, cards,
          notified, items, decidedIn, batch, madeToday, spent, confirming>>

Drafts == 1 .. MaxDrafts
Statuses == {"none", "queued", "running", "ready",
             "submitted", "failed", "abandoned"}
Jobs == {"none", "initial", "chat", "continue"}

\* A suspended confirm keeps the draft it read, cards and all, and the items
\* that were decided when it looked.
Request == [draft : Drafts, cards : CardTable, gone : SUBSET Cids]

ASSUME DraftQueueAssumption ==
  /\ MaxDrafts \in Nat /\ MaxActive \in Nat /\ MaxPerDay \in Nat
  /\ MaxPasses \in Nat \ {0} /\ MaxTalk \in Nat
  /\ DailyBudget \in Nat /\ MaxCost \in Nat /\ MaxSpent \in Nat
  /\ Admins \subseteq Contributors /\ HasEmail \subseteq Contributors
  /\ Proposals \subseteq Proposal
  /\ NoOne \notin Contributors
  /\ NoWorker \notin Workers
  /\ NoReq \notin Request

Init ==
  /\ status = [d \in Drafts |-> "none"]
  /\ job = [d \in Drafts |-> "none"]
  /\ claimedBy = [d \in Drafts |-> NoWorker]
  /\ beat = [d \in Drafts |-> "none"]
  /\ owner = [d \in Drafts |-> NoOne]
  /\ from = [d \in Drafts |-> 0]
  /\ passes = [d \in Drafts |-> 0]
  /\ talk = [d \in Drafts |-> 0]
  /\ cards = [d \in Drafts |-> NoCards]
  /\ notified = [d \in Drafts |-> FALSE]
  /\ items = [d \in Drafts |-> {}]
  /\ decidedIn = [d \in Drafts |-> [c \in Cids |-> 0]]
  /\ batch = [d \in Drafts |-> NoCards]
  /\ madeToday = {}
  /\ spent = 0
  /\ confirming = [r \in Requests |-> NoReq]

-----------------------------------------------------------------------------
(* What the handlers look up.                                              *)

Active(u) == {d \in Drafts : /\ owner[d] = u
                             /\ status[d] \in {"queued", "running", "ready"}}

BudgetOpen == DailyBudget = 0 \/ spent < DailyBudget

\* ownDraft: the owner of the draft, or an admin.
Editor(u, d) == status[d] # "none" /\ (owner[d] = u \/ u \in Admins)

\* Ids are handed out in the order drafts are created (created_at).
Unused(d) == status[d] = "none" /\ \A e \in Drafts : e < d => status[e] # "none"

\* Mutated form: the heartbeat is not looked at.
ClaimableEvenFresh(d) == job[d] # "none" /\ status[d] \in {"queued", "running"}

\* A job nobody works on: never claimed, or no heartbeat for CLAIM_TTL_MS.
Claimable(d) == /\ job[d] # "none"
                /\ status[d] \in {"queued", "running"}
                /\ beat[d] # "fresh"

\* assertClaimed.
Claimed(w, d) == claimedBy[d] = w /\ job[d] # "none"

\* Mutated form: off by one.
HasPassLeftOffByOne(d) == passes[d] <= MaxPasses
\* passes < maxPassesPerDraft().
HasPassLeft(d) == passes[d] < MaxPasses

SourceItems(d) == IF from[d] = 0 THEN {} ELSE items[from[d]]
SourceCids(d) == IF from[d] = 0 THEN {} ELSE Present(cards[from[d]])
ItemOpen(s, c) == c \in items[s] /\ decidedIn[s][c] = 0

\* Mutated form: the transcript is never cut.
UpToUncapped(n, cap) == n + 1

\* One line more in a transcript that keeps its last `cap`.
UpTo(n, cap) == IF n < cap THEN n + 1 ELSE cap

-----------------------------------------------------------------------------
(* Contributors: open a draft, ask for another pass, give up.              *)

\* A new row, as INSERT INTO drafts leaves it.
Insert(u, d, src, initial, cs) ==
  /\ Unused(d)
  /\ status' = [status EXCEPT ![d] = IF initial = "none" THEN "ready" ELSE "queued"]
  /\ job' = [job EXCEPT ![d] = initial]
  /\ owner' = [owner EXCEPT ![d] = u]
  /\ from' = [from EXCEPT ![d] = src]
  /\ cards' = [cards EXCEPT ![d] = cs]
  /\ notified' = [notified EXCEPT ![d] = (src # 0)]
  /\ madeToday' = madeToday \cup {d}
  /\ UNCHANGED <<claimedBy, beat, passes, talk, itemVars, batch, spent, confirming>>

CreateDraft(u) ==
  /\ Cardinality(Active(u)) < MaxActive
  /\ Cardinality({d \in madeToday : owner[d] = u}) < MaxPerDay
  /\ BudgetOpen
  /\ \E d \in Drafts : Insert(u, d, 0, "initial", NoCards)

\* A pass may be asked for: nothing queued, the draft was read, passes left.
MayEnqueue(d) == /\ job[d] = "none"
                 /\ status[d] \in {"ready", "failed"}
                 /\ HasPassLeft(d)
                 /\ BudgetOpen

Enqueue(d, kind) ==
  /\ MayEnqueue(d)
  /\ job' = [job EXCEPT ![d] = kind]
  /\ status' = [status EXCEPT ![d] = "queued"]
  /\ UNCHANGED <<claimedBy, beat, owner, from, passes, cards, notified,
                 itemVars, batch, dayVars, confirming>>

EnqueueChat(u, d) ==
  /\ Editor(u, d)
  /\ talk[d] < MaxTalk
  /\ Enqueue(d, "chat")
  /\ talk' = [talk EXCEPT ![d] = @ + 1]

\* With a focus the transcript gains a line, and loses its first when full.
EnqueueContinue(u, d, focus) ==
  /\ Editor(u, d)
  /\ Enqueue(d, "continue")
  /\ talk' = IF focus THEN [talk EXCEPT ![d] = UpTo(@, MaxTalk)] ELSE talk

\* Mutated form: no check of the status.
AbandonEvenSubmitted(u, d) ==
  /\ Editor(u, d)
  /\ status' = [status EXCEPT ![d] = "abandoned"]
  /\ job' = [job EXCEPT ![d] = "none"]
  /\ UNCHANGED <<claimedBy, beat, rowVars, cards, itemVars, batch, dayVars, confirming>>

\* Mutated form: the job stays.
AbandonKeepingJob(u, d) ==
  /\ Editor(u, d) /\ status[d] # "submitted"
  /\ status' = [status EXCEPT ![d] = "abandoned"]
  /\ UNCHANGED <<job, claimedBy, beat, rowVars, cards, itemVars, batch, dayVars, confirming>>

\* The claim columns keep what they hold; without a job they mean nothing.
AbandonDraft(u, d) ==
  /\ Editor(u, d)
  /\ status[d] # "submitted"
  /\ status' = [status EXCEPT ![d] = "abandoned"]
  /\ job' = [job EXCEPT ![d] = "none"]
  /\ UNCHANGED <<claimedBy, beat, rowVars, cards, itemVars, batch, dayVars, confirming>>

\* Decide or edit one card: any state it may have, other words (an image keeps
\* its address, a note its summary), another node to link to.
PatchCandidate(u, d, c) ==
  /\ Editor(u, d)
  /\ status[d] = "ready"
  /\ c \in Present(cards[d])
  /\ \E s \in StatesOf(cards[d][c].kind),
        t \in IF cards[d][c].kind \in {"image", "known"} THEN {cards[d][c].text} ELSE Texts,
        g \in IF cards[d][c].kind = "node" THEN BOOLEAN ELSE {cards[d][c].onGraph} :
       cards' = [cards EXCEPT ![d][c] = [@ EXCEPT !.state = s, !.text = t,
                                                  !.onGraph = g, !.edited = TRUE]]
  /\ UNCHANGED <<queueVars, rowVars, itemVars, batch, dayVars, confirming>>

-----------------------------------------------------------------------------
(* Pick up the items another read left open.                               *)

\* The copy of card c of the source: undecided again (a failed link rejected
\* again), references to nodes the graph has replaced by those nodes.
PickedCard(k, carried, taken, known, c) ==
  [k EXCEPT !.state = IF taken /\ LinkUnchecked(k) THEN "rejected" ELSE "proposed",
            !.edited = FALSE,
            !.deps = @ \cap carried,
            !.onGraph = k.kind = "node" /\ (@ \/ c \in known)]

\* `known`: node cards of the source the graph has by now; `lost`: cards that
\* no longer validate.  Cards keep the numbers they had in the source.
PickedCards(s, known, lost) ==
  LET src == cards[s]
      take == {c \in Present(src) : ItemOpen(s, c)}
      needed == UNION {src[c].deps : c \in take} \ take
      carry == {c \in needed : c \in Present(src) /\ src[c].kind = "node"} \ known
      kept == (take \cup carry) \ lost
  IN  [c \in Cids |-> IF c \in kept
                      THEN PickedCard(src[c], take \cup carry, c \in take, known, c)
                      ELSE NoCard]

\* A card that needs a lost one is lost with it.
LostTogether(s, lost) ==
  \A c \in Present(cards[s]) \ lost : cards[s][c].deps \cap lost = {}

CreatePickupDraft(u, s) ==
  /\ status[s] = "submitted"
  /\ \E c \in Cids : ItemOpen(s, c)
  /\ ~\E d \in Drafts : owner[d] = u /\ from[d] = s /\ status[d] = "ready"
  /\ Cardinality(Active(u)) < MaxActive
  /\ \E known, lost \in SUBSET Present(cards[s]), d \in Drafts :
       /\ LostTogether(s, lost)
       /\ \E c \in Cids : ItemOpen(s, c) /\ c \notin lost
       /\ Insert(u, d, s, "none", PickedCards(s, known, lost))

-----------------------------------------------------------------------------
(* Workers.                                                                *)

\* claim(worker, draft): a pinned claim takes that draft, an unpinned one the
\* oldest claimable draft.
ClaimJob(w, d, pinned) ==
  /\ Claimable(d)
  /\ pinned \/ \A e \in Drafts : Claimable(e) => d <= e
  /\ claimedBy' = [claimedBy EXCEPT ![d] = w]
  /\ beat' = [beat EXCEPT ![d] = "fresh"]
  /\ status' = [status EXCEPT ![d] = "running"]
  /\ UNCHANGED <<job, rowVars, cards, itemVars, batch, dayVars, confirming>>

\* A heartbeat revives a stale claim nobody took over.
Heartbeat(w, d) ==
  /\ Claimed(w, d)
  /\ beat' = [beat EXCEPT ![d] = "fresh"]
  /\ UNCHANGED <<status, job, claimedBy, rowVars, cards, itemVars, batch, dayVars, confirming>>

OnlyCards == UNCHANGED <<queueVars, rowVars, itemVars, batch, dayVars, confirming>>

\* The propose_* tools: a card under the next number, after the validator and
\* the check against the contributor's "no".
Propose(w, d, p) ==
  LET k == [kind |-> p.kind, text |-> p.text, deps |-> p.deps,
            onGraph |-> p.onGraph, badLink |-> p.badLink, edited |-> FALSE,
            state |-> IF p.badLink THEN "rejected" ELSE "proposed"]
  IN  /\ Claimed(w, d)
      /\ \A e \in p.deps : e \in Present(cards[d]) /\ cards[d][e].kind = "node"
      /\ ~Refused(k, cards[d])
      /\ \E c \in Cids :                                  \* bound: MaxCid
           IsNextCid(c, cards[d]) /\ cards' = [cards EXCEPT ![d][c] = k]
      /\ OnlyCards

\* update_candidate: other words, other cards or another node to refer to; the
\* state, the contributor's mark and the link check are not the agent's to change.
UpdateCandidate(w, d, c) ==
  LET k == cards[d][c]
      nodes == {e \in Present(cards[d]) \ {c} : cards[d][e].kind = "node"}
  IN  /\ Claimed(w, d)
      /\ c \in Present(cards[d])
      /\ Untouched(k)
      /\ \E t \in Texts,
            g \in IF k.kind = "node" THEN BOOLEAN ELSE {k.onGraph},
            ds \in IF k.kind = "node" THEN {k.deps} ELSE SUBSET nodes :
           cards' = [cards EXCEPT ![d][c] = [@ EXCEPT !.text = t, !.onGraph = g, !.deps = ds]]
      /\ OnlyCards

RemoveCandidate(w, d, c) ==
  /\ Claimed(w, d)
  /\ c \in Present(cards[d])
  /\ Untouched(cards[d][c])
  /\ \A e \in Present(cards[d]) : c \notin cards[d][e].deps
  /\ cards' = [cards EXCEPT ![d][c] = NoCard]
  /\ OnlyCards

AddMessage(w, d) ==
  /\ Claimed(w, d)
  /\ talk' = [talk EXCEPT ![d] = UpTo(@, MaxTalk)]
  /\ UNCHANGED <<queueVars, owner, from, passes, notified, cards,
                 itemVars, batch, dayVars, confirming>>

\* An errored pass still yields a reviewable draft if it left any card.
FinishPass(w, d, error, cost) ==
  /\ Claimed(w, d)
  /\ spent + cost <= MaxSpent                           \* bound
  /\ status' = [status EXCEPT ![d] =
                  IF error /\ Present(cards[d]) = {} THEN "failed" ELSE "ready"]
  /\ job' = [job EXCEPT ![d] = "none"]
  /\ claimedBy' = [claimedBy EXCEPT ![d] = NoWorker]
  /\ beat' = [beat EXCEPT ![d] = "none"]
  /\ passes' = [passes EXCEPT ![d] = @ + 1]
  /\ spent' = spent + cost
  /\ notified' = [notified EXCEPT ![d] =
                    @ \/ (job[d] = "initial" /\ owner[d] \in HasEmail)]
  /\ UNCHANGED <<owner, from, talk, cards, itemVars, batch, madeToday, confirming>>

-----------------------------------------------------------------------------
(* Confirm: the accepted cards become one batch.                           *)

\* Mutated form: what the contributor left open counts as decided too.
DecisionsAlsoOpen(d, cs, gone) == (Present(cs) \cap SourceItems(d)) \ gone

\* Mutated form: only a "no" decides an item.
DecisionsOfRefusals(d, cs, gone) ==
  {c \in Settled(cs, gone) : TurnedDown(cs[c])} \cap (SourceItems(d) \ gone)

\* The items of the source this draft decides: carried, still open when
\* Confirm looked, and settled here.
Decisions(d, cs, gone) ==
  Settled(cs, gone) \cap (SourceItems(d) \ gone)

\* Items of the source that someone has decided by now.
GoneItems(d) ==
  {c \in SourceItems(d) \cap SourceCids(d) : decidedIn[from[d]][c] # 0}

\* Mutated forms: the transaction trusts part of what was read before it.
SameDraftIgnoringCards(q) == status[q.draft] = "ready" /\ job[q.draft] = "none"
SameDraftIgnoringStatus(q) == cards[q.draft] = q.cards

\* What the transaction re-reads before it writes anything.
SameDraft(q) == /\ status[q.draft] = "ready"
                /\ job[q.draft] = "none"
                /\ cards[q.draft] = q.cards

\* Mutated form: the row is overwritten.
FirstToDecideUnchecked(q) == TRUE

\* decideOpenItem: each row is still open.
FirstToDecide(q) ==
  \A c \in Decisions(q.draft, q.cards, q.gone) : decidedIn[from[q.draft]][c] = 0

\* Mutated form: a card rejected for its link counts as turned down.
KeptOpenButLinks(q) ==
  {c \in LeftOpen(q.cards, q.gone) \ SourceCids(q.draft) : ~LinkUnchecked(q.cards[c])}

\* Cards kept for the next person; an item of the source stays where it is.
KeptOpen(q) == LeftOpen(q.cards, q.gone) \ SourceCids(q.draft)

\* The transaction of confirmDraft, for the request q.
Submit(q, left) ==
  LET d == q.draft
      ops == Ops(q.cards, q.gone, left)
      decisions == Decisions(d, q.cards, q.gone)
  IN  /\ ops \cup decisions # {}
      /\ SameDraft(q)
      /\ FirstToDecide(q)
      /\ status' = [status EXCEPT ![d] = "submitted"]
      /\ batch' = [batch EXCEPT ![d] =
                     [c \in Cids |-> IF c \in ops THEN q.cards[c] ELSE NoCard]]
      /\ items' = [items EXCEPT ![d] = @ \cup KeptOpen(q)]
      /\ decidedIn' = IF from[d] = 0 THEN decidedIn
                      ELSE [decidedIn EXCEPT ![from[d]] =
                              [c \in Cids |-> IF c \in decisions THEN d ELSE @[c]]]
      /\ UNCHANGED <<job, claimedBy, beat, rowVars, cards, dayVars>>

MayConfirm(u, d) ==
  /\ status[d] = "ready"
  /\ job[d] = "none"
  /\ owner[d] = u
  /\ \/ Accepted(cards[d], GoneItems(d)) # {}
     \/ Decisions(d, cards[d], GoneItems(d)) # {}

Snapshot(d) == [draft |-> d, cards |-> cards[d], gone |-> GoneItems(d)]

\* No image to mirror: nothing is awaited, the whole handler is one step.
ConfirmAtOnce(u, d) ==
  /\ MayConfirm(u, d)
  /\ Images(cards[d], GoneItems(d)) = {}
  /\ \E left \in SUBSET NewNodes(cards[d], GoneItems(d)) : Submit(Snapshot(d), left)
  /\ UNCHANGED confirming

\* The images are fetched and stored, outside any transaction.
ConfirmBegin(u, d, r) ==
  /\ MayConfirm(u, d)
  /\ Images(cards[d], GoneItems(d)) # {}
  /\ confirming[r] = NoReq
  /\ confirming' = [confirming EXCEPT ![r] = Snapshot(d)]
  /\ UNCHANGED <<queueVars, rowVars, cards, itemVars, batch, dayVars>>

\* Back from the last mirror, some of which may have failed.
ConfirmCommit(r) ==
  /\ confirming[r] # NoReq
  /\ LET q == confirming[r]
     IN  \E left \in SUBSET (Images(q.cards, q.gone) \cup NewNodes(q.cards, q.gone)) :
           Submit(q, left)
  /\ confirming' = [confirming EXCEPT ![r] = NoReq]

\* The draft changed, an item was decided first, or nothing is left to submit:
\* the transaction is rolled back.  Also what a restart of the app leaves.
ConfirmRefused(r) ==
  /\ confirming[r] # NoReq
  /\ confirming' = [confirming EXCEPT ![r] = NoReq]
  /\ UNCHANGED <<queueVars, rowVars, cards, itemVars, batch, dayVars>>

-----------------------------------------------------------------------------
(* The clock.                                                              *)

\* CLAIM_TTL_MS goes by without a heartbeat for the drafts of D: time passes
\* for all of them at once.
BeatsExpire(D) ==
  /\ D # {} /\ \A d \in D : beat[d] = "fresh"
  /\ beat' = [d \in Drafts |-> IF d \in D THEN "stale" ELSE beat[d]]
  /\ UNCHANGED <<status, job, claimedBy, rowVars, cards, itemVars, batch, dayVars, confirming>>

\* Midnight UTC: the per-day counts start again.
NewDay ==
  /\ madeToday # {} \/ spent # 0
  /\ madeToday' = {}
  /\ spent' = 0
  /\ UNCHANGED <<queueVars, rowVars, cards, itemVars, batch, confirming>>

-----------------------------------------------------------------------------
ContributorStep ==
  \E u \in Contributors :
    \/ CreateDraft(u)
    \/ \E d \in Drafts :
         \/ EnqueueChat(u, d)
         \/ \E focus \in BOOLEAN : EnqueueContinue(u, d, focus)
         \/ AbandonDraft(u, d)
         \/ \E c \in Cids : PatchCandidate(u, d, c)
         \/ CreatePickupDraft(u, d)
         \/ ConfirmAtOnce(u, d)
         \/ \E r \in Requests : ConfirmBegin(u, d, r)

WorkerStep ==
  \E w \in Workers, d \in Drafts :
    \/ \E pinned \in BOOLEAN : ClaimJob(w, d, pinned)
    \/ Heartbeat(w, d)
    \/ \E p \in Proposals : Propose(w, d, p)
    \/ \E c \in Cids : UpdateCandidate(w, d, c) \/ RemoveCandidate(w, d, c)
    \/ AddMessage(w, d)
    \/ \E error \in BOOLEAN, cost \in 0 .. MaxCost : FinishPass(w, d, error, cost)

ServerStep ==
  \/ \E r \in Requests : ConfirmCommit(r) \/ ConfirmRefused(r)
  \/ \E D \in SUBSET Drafts : BeatsExpire(D)
  \/ NewDay

Next == ContributorStep \/ WorkerStep \/ ServerStep

Spec == Init /\ [][Next]_vars

-----------------------------------------------------------------------------
(* Properties.                                                             *)

\* The shape of the rows, each counter within its bound.
TypeOK ==
  /\ status \in [Drafts -> Statuses]
  /\ job \in [Drafts -> Jobs]
  /\ claimedBy \in [Drafts -> Workers \cup {NoWorker}]
  /\ beat \in [Drafts -> {"none", "fresh", "stale"}]
  /\ owner \in [Drafts -> Contributors \cup {NoOne}]
  /\ from \in [Drafts -> 0 .. MaxDrafts]
  /\ passes \in [Drafts -> 0 .. MaxPasses]
  /\ talk \in [Drafts -> 0 .. MaxTalk]
  /\ cards \in [Drafts -> CardTable]
  /\ notified \in [Drafts -> BOOLEAN]
  /\ items \in [Drafts -> SUBSET Cids]
  /\ decidedIn \in [Drafts -> [Cids -> 0 .. MaxDrafts]]
  /\ batch \in [Drafts -> CardTable]
  /\ madeToday \subseteq Drafts
  /\ spent \in 0 .. MaxSpent
  /\ confirming \in [Requests -> Request \cup {NoReq}]

\* The table is a queue: a draft waits or runs exactly while it has a job,
\* and only a running one has a live claim.  A draft outside this shape is
\* never claimed and never reviewed: nobody would work on it again.
QueueConsistent ==
  \A d \in Drafts :
    /\ job[d] # "none" <=> status[d] \in {"queued", "running"}
    /\ status[d] = "running" => claimedBy[d] # NoWorker /\ beat[d] # "none"
    /\ status[d] \in {"queued", "ready", "submitted", "failed"} =>
         claimedBy[d] = NoWorker /\ beat[d] = "none"

\* The pass limit holds with the queued pass counted: asking again while a
\* pass waits, failing, reclaiming and finishing late never buy another one.
PassesBounded ==
  \A d \in Drafts :
    passes[d] + (IF job[d] = "none" THEN 0 ELSE 1) <= MaxPasses

\* A live claim is exclusive: a draft changes hands only when its worker has
\* been silent for the whole claim time.
ClaimsExclusive ==
  [][\A d \in Drafts :
       /\ status[d] = "running"
       /\ claimedBy'[d] \notin {claimedBy[d], NoWorker}
       => beat[d] = "stale"]_vars

\* What a contributor touched is theirs: no worker, live or superseded, changes
\* or removes the card, and no confirm in flight does.
TouchedCardsStand ==
  [][\A d \in Drafts : \A c \in Present(cards[d]) :
       cards[d][c].edited /\ cards'[d][c] # cards[d][c] =>
         /\ status[d] = "ready" /\ status'[d] = "ready"
         /\ c \in Present(cards'[d]) /\ cards'[d][c].edited]_vars

\* The batch is what was reviewed: each operation is a card as the submitted
\* draft holds it, and one its contributor decided and accepted, even when
\* cards changed while the images were being mirrored.
BatchAsReviewed ==
  \A d \in Drafts : \A c \in Present(batch[d]) :
    /\ status[d] = "submitted"
    /\ batch[d][c] = cards[d][c]
    /\ batch[d][c].edited /\ batch[d][c].state = "accepted"

\* The batch stands on its own: every card an operation refers to is a node card
\* that was accepted in the same draft, never one turned down, open or removed.
BatchClosed ==
  \A d \in Drafts : \A c \in Present(batch[d]) : \A e \in batch[d][c].deps :
    /\ e \in Present(cards[d])
    /\ cards[d][e].kind = "node" /\ cards[d][e].state = "accepted"

\* A submitted draft is final: no late worker, second confirm, chat or abandon
\* changes its cards, its batch or the items it left.
SubmittedIsFinal ==
  [][\A d \in Drafts : status[d] = "submitted" =>
       /\ status'[d] = "submitted" /\ job'[d] = job[d]
       /\ cards'[d] = cards[d] /\ batch'[d] = batch[d]
       /\ items'[d] = items[d]]_vars

\* Every card of a submitted read is accounted for.  What nobody decided is kept
\* for the next person unless it needs a card turned down or gone; what is kept
\* is undecided or needs something kept; what was accepted is in the batch, kept,
\* a link to a node, an image that failed, or needs a card turned down.
CardsAccountedFor ==
  \A d \in Drafts : status[d] = "submitted" /\ from[d] = 0 =>
    \A c \in Present(cards[d]) :
      LET k == cards[d][c]
          ruledOut == \E e \in k.deps : \/ e \notin Present(cards[d])
                                        \/ TurnedDown(cards[d][e]) /\ e \notin items[d]
      IN  /\ c \in Present(batch[d]) => c \notin items[d]
          /\ Undecided(k) => c \in items[d] \/ ruledOut
          /\ c \in items[d] => /\ ~ruledOut
                               /\ Undecided(k) \/ (k.state = "accepted" /\ k.deps \cap items[d] # {})
          /\ k.state = "accepted" /\ c \notin items[d] \cup Present(batch[d]) =>
               k.kind \in {"image", "node"} \/ ruledOut

\* Each open item is decided once: of two contributors confirming the same
\* pick-up, the first one's decision stands.
ItemsDecidedOnce ==
  [][\A s \in Drafts : \A c \in Cids :
       decidedIn[s][c] # 0 => decidedIn'[s][c] = decidedIn[s][c]]_vars

\* What settles card c of the pick-up d of s: its contributor's decision, or a
\* card it needs that is turned down, gone, or decided by someone else.  Only its
\* number ties the card to the item: once the worker has removed the copy, another
\* card may have the number, and if that is a note nobody has to decide it.
SettledIn(s, d, c) ==
  \/ cards[d][c].edited /\ cards[d][c].state \in {"accepted", "rejected"}
  \/ \E e \in cards[d][c].deps : \/ e \notin Present(cards[d])
                                 \/ TurnedDown(cards[d][e])
                                 \/ decidedIn[s][e] \notin {0, d}
  \/ cards[d][c].kind = "known"

\* A decision comes from a submitted pick-up of that very read in which the card
\* of the item's number is settled: never from a draft refused, or one that left
\* the card open again.  A note that got the number of a removed copy is the one
\* way an item is decided although nobody decided anything.
DecidedByItsPickup ==
  \A s \in Drafts : \A c \in Cids :
    decidedIn[s][c] # 0 =>
      LET d == decidedIn[s][c] IN
        /\ c \in items[s]
        /\ status[d] = "submitted" /\ from[d] = s
        /\ c \in Present(cards[d])
        /\ SettledIn(s, d, c)

\* A read as whoever confirms or picks it up sees it.
Stage(d) == IF status[d] \in {"none", "submitted"} THEN status[d]
            ELSE IF status[d] = "abandoned" THEN "given up" ELSE "open"

Contract == INSTANCE ReadContract WITH
              Reads <- Drafts, Cards <- Cids, NoRead <- 0,
              stage <- [d \in Drafts |-> Stage(d)],
              source <- from,
              made <- [d \in Drafts |-> Present(batch[d])],
              kept <- items,
              decided <- decidedIn

\* The drafts keep the contract of ReadContract, step by step: a read is
\* submitted or given up once and in one step, and of all the pick-ups of one
\* read exactly one may submit a card it left open, the one that decides it.
ContractKept == Contract!Steps

-----------------------------------------------------------------------------
(* What the repository says and the code does not keep.                    *)

\* A card of a pick-up that no card of the source stands behind.
OwnCard(d, c) == c \in SourceCids(d) => cards[from[d]][c].kind # cards[d][c].kind

\* "Now nothing undecided is lost": a card an own read of the draft added and
\* nobody decided is kept for the next person.
NothingUndecidedIsLost ==
  \A d \in Drafts : status[d] = "submitted" =>
    \A c \in LeftOpen(cards[d], {}) :
      OwnCard(d, c) /\ cards[d][c].deps = {} => c \in items[d]

\* "The contributor's no binds the agent": no worker step makes a card say what
\* the contributor has turned down in this draft.
ContributorNoBinds ==
  [][\A d \in Drafts : \A c \in Cids :
       /\ job[d] # "none"
       /\ cards'[d][c] # cards[d][c] /\ cards'[d][c] # NoCard
       => ~Refused(cards'[d][c], cards[d])]_vars

\* "Per contributor 30 drafts a day, 6 active".
ActiveCapHolds ==
  \A u \in Contributors : Cardinality(Active(u)) <= MaxActive
=============================================================================
