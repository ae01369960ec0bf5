# A verification model of ADAI

The repository is a TypeScript/Express service over one SQLite file: a graph of
digital art, contributions to it, their review, and mail to the people it
names. This directory models the five parts of it where order, failure and
other people's actions decide what is right:

- the **URL intake** (`src/intake`, `worker/`): a contributor gives a URL, a
  worker on a machine of its own reads the site and writes *candidate cards*
  into a draft, the contributor decides them, and Confirm turns the accepted
  ones into one batch of contributions;
- the **review** of contributions and their correction, with the private side
  of every signal (`src/utils/review.ts`, `contribution.ts`,
  `admin-actions.ts`, `signal-private.ts`, `src/claim/notes.ts`);
- the **claims** people make on the pages about them, and the handles of those
  pages (`src/claim/store.ts`), while the graph changes under them;
- the **mail to claimants** (`src/notify/claimants.ts`), delivered by two
  processes that may crash at any point;
- **fork sync** (`src/sync`), which copies the commons page by page while it
  goes on changing.

Their main safety properties are proved for every size; liveness is
model-checked. The rest of the system is inventoried here with a plan.

Paths below are relative to the repository.

## Inventory

| Part | Code | State it keeps | Operations | What is hard | Here |
|---|---|---|---|---|---|
| Draft queue | `src/intake/draft.ts` | `drafts` rows: status, job, claim, passes, cards, transcript | create, chat, continue, abandon, patch a card, claim, heartbeat, tools, finish, confirm, pick up | superseded workers, confirm suspended at its mirror awaits, limits | `DraftQueue` |
| Candidate cards | `src/intake/candidate.ts` | cards inside a draft | validate, number, patch, compare with an earlier "no" | who may change which card | `DraftCards` |
| Open items | `src/intake/open-items.ts` | `intake_open_items` | insert at Confirm, decide in a pick-up, list | two people deciding one item | `DraftQueue`, `ReadContract` |
| Spawner | `src/intake/spawn.ts` | `drafts.machine_id`, the machines themselves | spawn, tick, reap | three awaits per spawn, overlapping ticks, lost answers | `IntakeWorkers` |
| Worker | `worker/src` | none beyond its process | claim, beat, read, finish, exit | dies or hangs anywhere | `IntakeWorkers` |
| Contribution writes | `src/utils/contribution.ts` | nodes, edges (bi-temporal), aliases, signals | create, patch, image, edge, end edge | first write wins, idempotent ids, a retired node patched back | `Review` |
| Review queue | `src/utils/review.ts` | `intake_queue` | approve, reject, objections | late approval, partial failure | `Review` |
| Signal privacy | `src/utils/signal-private.ts` | `signal_private`, blanks in `signals` | withhold, publish, by reason | reasons added and lifted in any order | `SignalPrivacy`, `PublicRecord` |
| Admin corrections | `src/utils/admin-actions.ts` | signals, edges, nodes | revoke, retire, retire batch, merge | what is still pending, whose it is | `Review` |
| Notes on relations | `src/claim/notes.ts` | `relation_notes` | context, reading, contest, objection | their outcome follows another item's | `Review` |
| Claimant mail | `src/notify/claimants.ts` | batches, deliveries, lease | scan, reserve, lease, freeze, send, back off | crash between send and record, fencing | `ClaimantMail` |
| Fork sync | `src/sync` | change log, cursor | read page, apply page, switch source | cut off between pages, split transactions | `ForkSync` |
| Claims and handles | `src/claim/store.ts` | `node_claims`, handle aliases | request, approve, reject, end, set handle | two claimants, a handle taken meanwhile, a page merged away | `Claims` |
| Sign-in | `src/intake/auth.ts`, `src/utils/token-mint.ts` | links, sessions, invites, tokens | issue, consume, revoke | what a revocation must end | planned |
| Archivist | `src/archivist` | sessions, daily usage | chat, limit, charge | check, then charge later | no |
| Everything else | `src/routes/pages.ts`, `src/entity`, `src/embed`, `src/snapshot`, `public`, `seed`, `pipeline` | files, vectors, HTML | read, render, compute | nothing concurrent | no |

How they interact: the routes call the draft functions directly; the worker
calls them over HTTP (`routes/internal.ts`) with the worker id as its only
credential for a claim; enqueueing a job starts a spawn that nobody awaits;
Confirm writes contributions (trusted tiers) or one review item (probationary);
a pick-up reads the open items of another draft and decides them at its own
Confirm. Review writes to the graph and to the signals' public rows; an invite,
a claim's approval and its end rewrite the page's own metadata, and a merge
moves pages, handles and invites; those rows are what forks pull, and a change
near a claimed node is what claimants are mailed about. SQLite is driven
synchronously in one process, so a handler is atomic between its awaits, and
the interesting interleavings are those at awaits, between requests, between
the app and its workers, between the server and the daily command, and at a
crash between two statements that no transaction holds together.

## The modules

### Intake

**`DraftCards`** - the cards of one draft as a table from numbers to records,
and pure operators on it: `Untouched` (what the agent may still change,
`draft.ts:1043`), `Refused` (`refusedByContributor`), `LeftOpen` (`leftOpen`),
`Resolved` and `Ops` (reference resolution and operations of `confirmDraft`),
`IsNextCid` (`nextCid`). A card's content is one value of `Texts`. Kind
"patch" stands for the cards no earlier "no" is compared with (corrections,
questions), "edge" for relations new and ended. State "rejected" also stands
for context-only and a question answered no, "accepted" for one answered yes:
they are treated alike wherever this model reads them. A card of kind "known",
a note of what the graph already has, is never accepted, left open or an
operation (`StatesOf`), but it has a number like any other, and a Confirm takes
it for the open item of that number.

**`DraftQueue`** - the `drafts` table with one variable per column that
matters, `intake_open_items` (`items`, `decidedIn`), the submitted operations
(`batch`), the day's counts, and `confirming`, the confirms suspended at a
mirror with what they had read. One action per handler:

| Action | Code |
|---|---|
| `CreateDraft`, `EnqueueChat`, `EnqueueContinue`, `AbandonDraft` | `createDraft`, `enqueueChat`, `enqueueContinue`, `abandonDraft` |
| `PatchCandidate` | `contributorPatchCandidate` with `applyContributorPatch` |
| `CreatePickupDraft` | `createPickupDraft` |
| `ClaimJob`, `Heartbeat`, `FinishPass`, `AddMessage` | `claimJob`, `heartbeat`, `finishPass` (with `markNotified`), `workerAddMessage` |
| `Propose`, `UpdateCandidate`, `RemoveCandidate` | `runDraftTool` |
| `ConfirmAtOnce` | `confirmDraft` with no image to mirror |
| `ConfirmBegin`, `ConfirmCommit`, `ConfirmRefused` | `confirmDraft` before the first mirror, its transaction, its failure (or a restart of the app) |
| `BeatsExpire`, `NewDay` | `CLAIM_TTL_MS` going by, for one draft or several at once, and midnight UTC |

Any worker may call any worker handler at any moment, so superseded, duplicate
and foreign workers are all included, without fairness or good behaviour.
`CreatePickupDraft` chooses freely which source cards the graph has meanwhile
(`known`) and which no longer validate (`lost`); Confirm chooses freely which
images fail and which new nodes turn out to exist (`left`).

**`ReadContract`** - what all of that promises of a read, in three actions:
`Open`, `GiveUp`, `Submit`. A read is submitted or given up once, in one step;
what it submits and what it leaves open are different cards; a card left open
is decided by one later submission, and only that one may submit it.
`DraftQueue` implements it (`ContractKept`) with `Stage`, the cards present in
`batch`, `items` and `decidedIn` as the mapping.

**`IntakeWorkers`** extends `DraftQueue` with the spawner and its machines:
`spawn()` cut at its three awaits (`SpawnListed`, `SpawnCreated`,
`SpawnStored`, and `SpawnFails` at any of them), `tick()` cut at its awaits
(`TickListed`, `TickQueued`, `TickSpawns`, `TickDone`), the one-shot worker of
a machine (`WorkerClaims`, `WorkerBeats`, `WorkerFinishes`, `WorkerQuits`), and
what can happen to it (`WorkerStops`: dies or hangs; `Overstays`; `Outage`: the
app misses every beat for a claim time). `setInterval` does not wait for
`tick()`, so a tick held up by the machines API overlaps the next: `MaxTicks`
of them run side by side. The machines API and the machines are external: only
what `spawn.ts` and `main.ts` rely on is modelled. Only the handlers that make
or end a job take part (create, chat, continue, abandon, claim, beat, finish):
cards do not influence the queue except for failed against ready, and in this
module a failed pass is one without cards.

### Review

**`SignalPrivacy`** - the public row (`crr`) and the private row (`kept`) of
one signal and its reasons, with the operators of `signal-private.ts`: `Born`
(`privateAtBirth`), `Withheld` and its `Conflict` (`withholdSignal`,
`PrivacyConflictError`), `Published` (`publishSignal`). A column's value is the
original, an edited projection, "anonymous" or null.

**`PublicRecord`** - the promise: a column is public exactly while no reason
withholds it, an original not shown is kept, and only the reasons of a review
still open are ever lifted.

**`Review`** - contributions, their review and correction. An item is one
contribution with its signal, its `intake_queue` row and, for a note, its
`relation_notes` row; what it is (`Shape`) is fixed, whether and when it is
made is not. A shape may patch a node (`PATCH /api/v1/nodes`,
`materialisePatchNode`): of the keys that `mergeMetadata` writes the model has
`retired`, set or cleared, which is how a retirement is reversed
(`admin-actions.ts:184-186`); `merged_into` is kept by such a patch, here as in
the code. Nodes and edges carry the item they came from and what ended them.

| Action | Code |
|---|---|
| `Submit`, `SubmitCutShort` | the contribution endpoints, the form and `claim/notes.ts` with `materialise*` for trusted tiers; a crash between the signal and its row |
| `Withdraw` | withdrawing a note or an objection |
| `Approve`, `Reject`, `RejectCutShort` | `approveIntakeItem`, `rejectIntakeItem`; a crash among its three statements |
| `ApproveContext`, `RejectContext`, `UpholdContest`, `DismissContest`, `SettleCutShort`, `ContestCutShort` | the reviews of notes, and a crash in each |
| `RevokeSignal`, `RetireNode`, `RetireBatch`, `MergeNodes` | `admin-actions.ts` |

Every action that publishes, withholds or settles objections in the code does
so inside the action. Where the code writes in several statements outside a
transaction, a second action stops between them and marks the item in `cut`.

### Claims and handles

**`Claims`** extends `Review` with who a page belongs to. A claim is a row of
`node_claims` with its row of the review queue, if it has one; what it asks
(`Asks`: who, which page, how, which handle, named or not) is fixed, whether
and when it is made is not. `face` is the key `claimed` of a page's metadata,
`alias` the page a handle leads to, `self` the page an invite named.

| Action | Code |
|---|---|
| `AskFor` | `POST /api/claims`, and the first half of approving a signed-out request, with `requestClaim` |
| `Invite`, `InviteCutShort`, `Backfill` | an admin's invite that names a page, with `backfillInviteClaims`; a crash between the two; the backfill at the next start |
| `PeerInvite` | `POST /api/me/invite` with `checkInvite` |
| `ApproveClaim` | `approveClaim`, with `approveClaimInner` and `publishClaimed` |
| `Refuse`, `RefuseCutShort` | `rejectClaim`, and `endClaim` of a claim that waits; a crash between the claim and its queue row |
| `EndClaim` | `endClaim` of an approved claim: withdrawn or revoked ("ended") |
| `SetHandle`, `MonthPasses` | `setHandle` and its 30 days |
| `MergePages` | `mergeNodes` as a whole: `MergeNodes`, its refusal of a claimed page, and the handles and invites that follow the page |
| `GraphStep` | every other step of `Review`, which leaves the claims alone |

### Claimant mail

**`ClaimantMail`** - what the record says of an event (`says`), the reader's
setting and address, `claimant_events`, `claimant_deliveries`,
`claimant_batches`, and two processes, the server's immediate pass and the
daily command of the operator. A step is what runs between two points where
the other process, a crash or a stall can matter:

| Action | Code |
|---|---|
| `PassStarts` | scan and the list of what is undelivered; whoever wants no mail is skipped |
| `PassReserves` | one batch per claimant, bound in one transaction |
| `TakeUp`, `TurnsAway` | `acquireLease` of a due batch, and finding it held |
| `SetsAside` | the checks before a send: too old, too often, no longer true |
| `Attempts` | freeze the request, count the attempt, call the provider |
| `Answered`, `PassEnds` | record the answer, or let the batch go for a retry |
| `PassStops`, `Stalls`, `LeaseEnds`, `AttemptAges`, `KeyForgotten` | a crash, a process that outlives its lease, and the clocks of lease, code (23 h) and provider (24 h) |
| `Change` | the record, the setting or the address changes |

Every write after a batch is taken goes through `Holds` (`fenced`). The
provider is external: it sends a key once as long as it knows it, and may have
sent although no answer came. A lease is 10 minutes and a mail attempt times
out after 30 s, so a lease ends under a live process only when it stalls.

### Fork sync

**`ForkSync`** - sources whose rows change in transactions, and a fork with its
`fork_source` and `fork_cursor` settings, its copy and a pull in progress.

| Action | Code |
|---|---|
| `Commit` | a transaction of a source; each of its changes replaces the last one of its cell in the stream |
| `PullStarts`, `PullNamed`, `PullAsks`, `PullApplies` | `pullFork`: check the source, write the two settings, ask for a page (`readChanges`), merge it with its cursor in one transaction (`applyChanges`) |
| `PullStops` | an error or a crash anywhere in between |

`PageOf` is `readChanges` with its row limit and byte budget: any page of the
changes ahead that ends on a whole transaction, or, when the first transaction
is too large, inside it with a cursor that says so. `Merge` is cr-sqlite
(external): causal lengths decide deletion and rebirth, column versions decide
values.

### Instances and proofs

`MCDraftQueue`, `MCIntakeWorkers`, `MCReview`, `MCClaims` (which extends
`MCReview`), `MCClaimantMail` and `MCForkSync` give the constants their values.
`DraftQueueProofs`, `DraftItemProofs`, `IntakeWorkersProofs`, `ReviewProofs`,
`ReviewOutcomeProofs`, `ClaimsProofs`, `ClaimantMailProofs` and
`ForkSyncProofs` hold the theorems.

Operators whose comment begins "Mutated form" are plausible bugs in the
definition they precede. No specification uses them; they serve to show that
the property named for them in `PROJECT.json` would notice.

## What the runs check

| Run | Instance | Properties | Distinct states |
|---|---|---|---|
| `DraftReview` | 1 draft, 2 numbers, 2 texts, 2 workers (symmetric), owner and admin, 2 passes, 1 suspended confirm | `TypeOK`, `QueueConsistent`, `PassesBounded`, `BatchAsReviewed`, `BatchClosed`, `CardsAccountedFor`; `ClaimsExclusive`, `TouchedCardsStand`, `SubmittedIsFinal` | 349,000 |
| `DraftPickup` | 3 drafts, 2 numbers, 1 text, 1 worker, 2 contributors, 2 suspended confirms (both symmetric), notes of what is known, from a submitted read with one image left open (`LeftReadInit`) | `DecidedByItsPickup`; `ItemsDecidedOnce`, `ContractKept` | 263,000 |
| `IntakeWorkers` | 1 draft, 2 passes, cap of 1 machine, 3 slots, 2 ticks, 2 mishaps, the budget on | `MachinesBounded`; `JobsEnd`, `MachinesGo` | 130,000 |
| `SharedCap` | 2 drafts, cap of 1, 2 slots, 1 tick, no mishap | `MachinesAreTheirs`; `JobsEnd` | 110,000 |
| `GraphReview` | 3 of 9 contributions, 3 nodes, 1 batch, 1 crash, 2 corrections; or 2 of 3 claims by 2 people with 2 handles, 2 contributions, 1 correction and 1 crash (`ClaimsSpec`) | `ReviewTypeOK`, `WithheldIsPrivate`, `PublishedIsPublic`, `NeverInConflict`, `AppliedWhole`, `ObjectionsFollow`, `FacesAreTrue`, `ClaimsDecided`; `HistoryStands`, `DecidedOnce`, `MergeKeepsRelations`, `PrivacyKept`, `HandlesStay` | 175,000 |
| `ClaimantMail` | 2 changes for 1 claimant, both processes, 2 batches, 2 attempts, 1 change of the record, 2 crashes or stalls | `MailTypeOK`, `NeverTwice`, `DeliveriesAccounted`; `MailIsTrue`, `FrozenForGood`, `MailSettles` | 178,000 |
| `ForkSync` | 2 sources (3 and 1 transactions), 2 rows of 1 column, pages of 2, 1 stop, 1 switch | `CursorIsTrue`, `NeverStuck`; `WholeWhenFinished`, `CatchesUp` | 132,000 |

Intake:

- `QueueConsistent`: a draft waits or runs exactly while it has a job, and only
  a running one has a live claim.
- `PassesBounded`: the pass limit holds with the queued pass counted.
- `ClaimsExclusive`: a live claim changes hands only after a claim time of
  silence.
- `TouchedCardsStand`: no worker, late or live, and no confirm changes a card
  its contributor has touched.
- `BatchAsReviewed`: each operation is a card as the submitted draft holds it,
  decided and accepted by its contributor, whatever changed during the mirrors.
- `BatchClosed`: an operation refers to node cards accepted in the same draft
  only.
- `CardsAccountedFor`: in a submitted read, every undecided card is kept or
  needs one turned down or gone; what is kept is undecided or waits for
  something kept; what was accepted is in the batch, kept, a link, a failed
  image or ruled out.
- `ItemsDecidedOnce`, `DecidedByItsPickup`: the first confirm decides an open
  item, for good, and from a card its contributor decided or that cannot stand,
  or from a note that got the number of a removed copy: the one way an item is
  decided though nobody decided anything (see "What the code does not keep").
- `SubmittedIsFinal`: nothing changes a submitted draft.
- `ContractKept`: the drafts implement `ReadContract`; in particular a card
  left open is submitted by one pick-up at most, the one that decides it.
- `MachinesBounded`: the machine cap is not kept (`MachineCapPassed`), but it is
  passed by fewer than the spawns that may be in flight at once.
- `MachinesAreTheirs`: a machine claims no draft but the one it was created
  for, a row and a spawn that comes back late name only such a machine, and no
  two spawns name the same one.
- `JobsEnd`, `MachinesGo`: no job stays for ever, no machine stays for ever.

Review:

- `WithheldIsPrivate`: the words of a contribution that consent, review, a
  rejection, an objection or a revocation keeps back are in no public row, and
  no name with an anonymous one, in any order and with a crash anywhere.
- `PublishedIsPublic`: what nothing keeps back is public again, except where a
  crash cut the approval of a note short: those words stay unpublished.
- `PrivacyKept`: the handlers implement `PublicRecord`.
- `NeverInConflict`: `withholdSignal` never refuses a revocation, rejection or
  withdrawal because of what was withheld before.
- `AppliedWhole`: an approved item's node, edge and ending are all in the
  graph, and nothing in the graph comes from an item that is not approved.
- `ObjectionsFollow`: an objection to a contribution waits as long as that does
  and ends as the opposite of it, except after a crash or the retirement of the
  contribution's batch.
- `HistoryStands`: no node or edge is deleted, no edge that ended comes back,
  and signal and maker stay. A retired node is live again only in the step that
  approves a patch of it that says so, never by a create, an edge or a merge
  that names it.
- `DecidedOnce`: curator, author and batch retirement decide an item once.
- `MergeKeepsRelations`: each live relation of a node merged away goes on, from
  the same writer and signal, on the node it is merged into (a node brought
  back and merged into the same node again is not covered).

Claims:

- `FacesAreTrue`: a page shows its mark exactly while a claim on it is
  approved, the people of exactly those claims that let it, and a handle that
  leads to it.
- `ClaimsDecided`: a claim waits exactly while its row in the review queue
  does, unless a crash cut its refusal short; a person has one standing claim
  on a page; no practitioner has two claimants without a curator's approval of
  one of them. An approval does not look for other claimants again, so the last
  part is about the order of invites, requests and ends.
- `HandlesStay`: a handle leads to its page for good, or to the one that page
  was merged into, even when nobody claims the page any more, and is never
  given to a page merged away earlier, unless a patch brought that page back.

Mail:

- `NeverTwice`: a batch is one email at most and a change is in one mailed
  batch at most, although requests are repeated after a crash.
- `DeliveriesAccounted`: a change in delivery is in a batch some pass will take
  up, and one recorded as sent was mailed.
- `MailIsTrue`: an attempt is made only while each line is true, the reader
  wants mail and the address is theirs, however old the frozen request.
- `FrozenForGood`: a request never changes under its key, nor an outcome.
- `MailSettles`: each change found is mailed in the end, or recorded as not to
  be.

Forks:

- `CursorIsTrue`: nothing behind the fork's cursor is missing from the fork,
  though the source rewrites cells between two pages and a page may end inside
  a transaction, except after a crash between the two settings of a forced
  switch (`misled`).
- `NeverStuck`: a page with more to come brings a further cursor, so a pull
  never refuses its source.
- `WholeWhenFinished`: a pull that finishes leaves exactly the rows of the
  source when the last page was read.
- `CatchesUp`: what a source publishes reaches the fork that goes on pulling.

**Bounds.** Each is named in its module, with the comment "bound"; the other
constants are limits of the code. Deadlock is not checked: every part may come
to rest (all drafts closed, everything mailed, every bound used up).

- *Intake.* Two numbers and two texts are enough for a card that needs another,
  a number given out again after a removal, and a card rewritten into another's
  claim. Two passes give a pass before and one after the contributor's
  decisions. Two workers give a superseded one. Two pick-ups with a confirm
  each give the race for an item. `DraftPickup` starts where a first read ends:
  `LeftReadInit` is the state a create, claim, two proposals, finish, accept,
  confirm and a new day lead to from `Init`; from there every action of
  `DraftQueue` may happen except a chat and a new read (`MaxPerDay` is 0, and
  does not limit pick-ups); what the worker proposes is a note, which can get the
  number of a copy it removed. With one card in each
  pick-up it is the confirms and the worker that interleave, not the cards:
  several items of one read, some decided by someone else first, rest on the
  theorems. One machine under three slots and two mishaps give a machine lost
  unknown to the row and another that hangs; a tick held up into the next
  counts for two mishaps (`HeldUp`). The three slots can all list before any
  creates: three machines under a cap of one, the most that `MachinesBounded`
  allows. Two drafts with a machine each (`SharedCap`) are what
  `MachinesAreTheirs` needs to be able to fail. With `MaxMishaps` reached nothing fails
  any more, which is what `JobsEnd` needs: no job can end while every machine
  dies.
- *Review.* The nine contributions are a package in a batch (a node, its edge
  and a patch that retires another node), a trusted write of the same node, a
  trusted write of the same edge that also closes another, two entries of the
  public form, an anonymous reading in the batch, an objection to the package, a
  contest, and a trusted patch that brings a node back. Any three of them, with
  a crash and two corrections, give every pair of causes for one signal, two
  writers of one node or edge, a node retired by hand or merged away and brought
  back, and an objection or a retirement before, during and after the decision
  it depends on.
- *Claims.* The three claims are two of different people on one practitioner,
  one asked for with a handle and one invited, and a peer's invite along a
  relation. Two of them give a second claimant, a handle set later, and a
  claim that ends before or after the other's approval. While there is a claim
  or an invite, the only contributions are the trusted one of a node and the
  patch that brings a page back, and there is one correction of any kind
  (`MixedItems`, `MaxMixed`, `Calm`): enough for a claimed page retired, brought
  back, revoked or merged into, and a handle carried along a merge. A third
  claim on a page, a handle that another claim took while one waits, and claims
  among longer histories of the graph, rest on the theorems.
- *Mail.* Two changes make a batch with a line gone bad beside a good one, and
  one that arrives after the batch is bound. Two crashes reach a retry of a
  retry: a request that arrived without an answer, repeated by the other
  process. One batch is in flight for the one claimant, so two batches of one
  pass that end differently rest on the theorems.
- *Forks.* Three transactions over two rows give an insert, a rewrite or
  deletion between two pages, and a row born again; pages of at most two
  changes split a transaction, and any smaller page stands for the byte
  budget.

**Fairness.** Stated where there is liveness, and nothing is assumed of people
or of failures.

- `IntakeWorkers`: the promises the app awaits settle (`SpawnStep`), the minute
  interval fires (`TickStep`), a live machine gets on with its pass, which the
  worker's own hard timeout ends (`main.ts:44-49`), and time passes
  (`ClaimExpires`; `Overstays` in `MachineStep`). Beats are not assumed. A
  claim expires only while its worker is not working (a beat every 30 s against
  20 minutes, `worker/src/config.ts:34`) or in an outage. A tick with nothing
  pending and nothing to reap is left out.
- `ClaimantMail`: the daily command is run again and again, a pass that started
  gets on, and leases end. The immediate pass need never start.
- `ForkSync`: the fork's keeper pulls again and again from the source it has
  (`fork:pull` is a command for a timer), and a pull gets on.

## What the code does not keep

Five runs expect a violation; each checks one sentence of the repository.

- `PickupLosesCard` / `NothingUndecidedIsLost` - "Now nothing undecided is
  lost" (`docs/URL-INTAKE-SPEC.md:467`). A pick-up keeps its cards' numbers;
  a further pass numbers new cards from the pick-up's own highest, so a new
  card can get a number the source used. Confirm takes it for the source's
  (`draft.ts:1387`) and keeps no open item for it.
  A note the worker adds (`note_known`) takes a number the same way: when it is
  that of a removed copy, Confirm records the source's open item as "skipped"
  (`draft.ts:1182`, `:1379`), though nobody decided it and "Whatever you leave
  undecided stays open for the next person" (`draft.ts:459`).
  `DecidedByItsPickup` names that case; without it TLC refutes it in
  `DraftPickup` in eight steps.
- `NoBypassed` / `ContributorNoBinds` - "The contributor's "no" binds the
  agent" (`draft.ts:641`). `update_candidate` does not call
  `refusedByContributor`.
- `ActiveCapPassed` / `ActiveCapHolds` - "6 active"
  (`docs/URL-INTAKE-SPEC.md:542`). A failed draft leaves the count and comes
  back through chat or continue.
- `MachineCapPassed` / `MachineCapHolds` - "if live machines ... >=
  INTAKE_MAX_MACHINES ... return" (`docs/URL-INTAKE-SPEC.md:359`). The list is
  read two awaits before the machine exists.
- `BatchRetiresOthers` / `BatchRetiresItsOwn` - "guarded so pre-existing nodes
  the batch merely touched are never retired" (`admin-actions.ts:362`). The
  guard compares the node's age with the batch's first signal, not its maker:
  a node someone else created while the batch's own create waited in review is
  retired with the batch.

Met while modelling, with no run of their own:

- `pullFork` writes the new source and the reset cursor as two settings
  (`pull.ts:84-85`). A crash in between, on a forced switch, leaves the old
  source's cursor under the new source's name, and what lies behind it is never
  asked for, against the comment at `pull.ts:7-9`. `ForkSync` has that state
  (`misled`), and its properties speak of the others.
- The notes' reviews (`notes.ts`) publish outside the statement that decides: a
  crash in between leaves approved words unpublished, or a pending item that
  can no longer be decided. `PublishedIsPublic` and `ObjectionsFollow` except
  the items in `cut`; `WithheldIsPrivate` and `PrivacyKept` hold with crashes.
- Retiring a batch rejects its pending items without settling the objections
  to them (`ObjectionsFollow` names the case).
- `fileNote` takes an objection to any pending item that touches the page
  (`notes.ts:309-313`), one that reviews a note included, but only the approval
  and rejection of other kinds settle objections (`review.ts:210`, `:257`):
  `reviewClaimKind` does not, though "a reviewed queue item settles the
  objections filed against it" (`notes.ts:571`). The claimant's own page offers
  contributions and AI suggestions only (`log.ts:50`). `ObjectionsFollow` is
  about objections to contributions.
- A retirement is to be reversed by a patch and by re-attesting "the edges you
  want back" (`admin-actions.ts:184-186`). The patch works (`HistoryStands`), but
  an edge's id is made of its ends, type and writer, and `INSERT OR IGNORE`
  (`contribution.ts:376`) keeps the ended row: the same writer's attestation is
  dropped. A patch that clears `retired` also leaves `merged_into`, so a node
  merged away is live again and still marked as merged.
- An approval, or a trusted write, may make a live edge on a retired node, and
  an item whose signal was revoked may still be approved.
- Freezing a mail marks the changes it leaves out as suppressed in a write that
  is not fenced, though "every write is fenced" (`claimants.ts`): a process
  that stalls there can record as suppressed a change mailed meanwhile.
  `DeliveriesAccounted` holds, as it says nothing of "suppressed".
- `changes.ts:18-19` says a transaction is never split; `readChanges` splits
  one larger than a page, as its own comment at 135-138 says.
- "Each handle change counts against a limit of 1 per 30 days per node"
  (`docs/CLAIM-SPEC.md:63`): approving a second claim that carries a handle
  changes it with no such limit (`store.ts:274-280`).
- `node_claims` decides what the public sees of a page, "derived from the
  approved claims" (`store.ts:10-12`), but a `patch_node` contribution may
  write the key `claimed` itself (`contributor-api.ts`, `contribution.ts`): no
  endpoint refuses it, and the next `publishClaimed` overwrites it. `Claims`
  leaves patches of that key out, so `FacesAreTrue` is about the handlers of
  claims.
- A merge moves an invite's page along (`admin-actions.ts:656`), and the next
  `backfillInviteClaims` makes an approved claim on the kept page of it, even
  where the claim on the merged page was withdrawn or revoked before: the
  backfill looks for any claim on the page the invite now names.
- Two claims on one practitioner that both wait may both be approved: the
  conflict is looked for when a claim is made (`store.ts:233`).

## What is proved

Theorems hold for every value of the constants that meets the named
assumptions: `MaxCidAssumption`, `NoCardAssumption`, `DraftQueueAssumption`,
`PoolAssumption`, `ReviewAssumption`, `ClaimsAssumption`, `MailAssumption`,
`ForkAssumption`
(bounds are naturals, null values are no values, shapes and orders are well
formed; the one about behaviour is that no endpoint that writes to the graph
takes a consent, as in `contributor-api.ts`). In each part an inductive
invariant is proved of the initial states and of every step, and the properties
follow from it.

**Intake** (`DraftQueueProofs`, `DraftItemProofs`).
`QueueInv` is `TypeOK`, `QueueConsistent`, `PassesBounded` and `Blank`.
`QueueConsistent` is not inductive alone: a row about to be inserted must have
no claim and no passes, which `Blank` says of every unused number.
`PassesBounded` needs `QueueConsistent`, since a pass is added when a job ends.
`SheetInv` adds that an accepted card was touched by its contributor, a
rejected one by them or for its link, and that a node card needs no other
(`CardsSound`), without which a commit could not know
that what it submits was reviewed. `ItemInv` adds that every card's references
are to node cards of its draft (`DepsStand`), that only submitted drafts have
items (`ItemsOfSubmitted`), and that what a suspended confirm left out really
was decided (`RequestsSound`), which makes its reading of the items safe
although it is old. The lemmas `CardsMove`, `SheetsMove`, `ClosedStays`,
`RowsStay` and `StagesMove` say once what a step can do to a column; the
theorems rest on them and never go through the actions again. All safety
properties of `DraftReview` and `DraftPickup` are proved, and
`ReadsKeepTheContract`: from `Init`, every step of `DraftQueue` is a step of
`ReadContract` or one it does not see.

Three theorems say how far two of the violations reach. `OnlyRetriesPassTheCap`:
every step leaves a contributor within the cap on active drafts, or with no
draft more than before, or has asked again for one that failed, which adds that
one. `FirstReadsStayCapped`: of the active drafts that have had no pass yet a
contributor never has more than the cap, so what exceeds it is drafts read
before; it rests on a draft failing by a pass only (`FailedWasRead`).
`LeftOpenIsKept`: each card a submitted draft left open is an open item,
unless it has the number of a card of its source or refers to one that has. A
read of its own thus loses nothing, and a pick-up loses by shared numbers only.
It needs that a draft's source is submitted (`SourcesSubmitted`), so that the
numbers it stands for no longer change, and that a suspended confirm leaves out
copies of the source only (`GoneOfSource`).

**Machines** (`IntakeWorkersProofs`). `PoolRunsTheQueue` is `PoolSpec => Spec`:
whatever spawns, ticks and machines do, the drafts are worked on as
`DraftQueue` says, so its theorems hold of the pool (`PoolKeepsTheQueue`
spells four out). The step that stood against it was `Outage`, in which the
app misses the beats of several workers at once, while the queue let one claim
go stale at a time: time passes for all of them, so the queue's `BeatsExpire`
takes a set of drafts. `MachinesBounded` is inductive once only finitely many
machines live (`CapInv`): a spawn goes on to create only when fewer than the
cap are alive, and then at most one spawn for each other slot has gone on
before it. `MachinesAreTheirs` is inductive beside the types and `QueueInv`; its
parts hold each other up. A machine claims only the draft it was made for; the
machine a spawn creates is fresh (`Fresh`), so nothing names it; and a spawn
stores an id under the draft it was started for, however late.

**Review** (`ReviewProofs`, `ReviewOutcomeProofs`). Lemmas on one signal state
first what birth, withholding and publishing do to it. `PrivacyInv` is `RowsOK`
(types), `Unwritten` (a contribution not made yet has no rows, and its signal
is plain) and `SignalsKept` (each signal keeps privately exactly what its
public row does not show). Steps are sorted by what they do to a signal
(`Treated`, `Evolves`), to an item (`Moves`: made, gone on, passed over) and to
the graph (`GraphStands`), once for all actions. `PrivacyIsKept` is the
refinement of `PublicRecord`. `OutcomeInv` adds `ReasonsStand`: every cause to
withhold that the other tables hold is a reason of the signal, which gives
`WithheldIsPrivate`. `AppliedInv` adds to `PrivacyInv` where nodes, edges and
endings come from (`AppliedOf`, `ClosesStand`), which gives `AppliedWhole`. `BareInv` is the other
side of `ReasonsStand`: the signal of an item no crash cut short has no reason
but those of its consent, of a review under way and of an objection (`Allowed`),
unless it is revoked or rejected; it needs that a note is decided with its
review item (`NoteFollows`) and gives `PublishedIsPublic`. `FollowInv` adds how
an objection stands to the contribution it is about, which gives
`ObjectionsFollow`. `OrderDoesNotShow` says more of the two rows of a signal than any
invariant the runs check: they are those of a signal born with the reasons that
stand now. Reviews, withdrawals, revocations and crashes that leave the same
reasons leave the same rows, in whatever order they came. It rests on two
theorems about the operators, `WithheldAsIfBorn` and `PublishedAsIfBorn`; the
second needs that no anonymous signal has its name held back for review as well
(`Nameable`), which every handler keeps.
Two clauses of `ReviewAssumption` carry the outcomes: the public
form makes contributions only and queues each as probationary
(`routes/api.ts:547-567`), and an objection names an item (`notes.ts:310-312`).

**Claims** (`ClaimsProofs`). `ClaimsKeepReview` shows that `ClaimsSpec` implies
`Spec`: every theorem about `Review` holds with claims, and the proofs here
need of the graph only what `PagesStand`, `PagesBack` and `MergeMoves` say of
its pages.
`ClaimsKeepTheRecord` states eight of those theorems of `ClaimsSpec`.
`ClaimInv` is `PrivacyInv`, `PagesOK` (a page merged into another is retired, or
live because a patch brought it back), `ClaimTypeOK`, `FacesAreTrue`,
`ClaimsDecided` and `MergedLeft`: a page merged away that no patch brought back
has no claim that stands and no handle that leads to it. `MergedLeft` is
what makes a handle's one step of repointing enough however often pages are
merged, and it holds since claims are made on live pages and merges refuse
claimed ones. `ClaimSteps` sorts the steps by what they do to a claim (opened,
approved, refused, ended, a handle set), `FaceDerived` says once what deriving
a page's face anew leaves true of all pages, and `OneMoves` that a claim that
moves needs a look at its own row and pairs only. `ClaimTypeOK` is proved
(`ClaimsTyped`) and listed in no run.

**Mail** (`ClaimantMailProofs`). `MailInv` is `MailTypeOK`, `RowsOK` (an unused
row is blank, one in use has a claimant, a request is frozen before its
attempt, what the provider got was attempted, and it forgets only what is too
old to repeat), `PassesOK` (a pass that still holds its lease has read what
stands; one that waits waits for a key the provider would know), `ClaimsOK` (a
change is bound by one batch only, whether by its row, the frozen request, or a
pass that has read it), `LinesOK` (what is attempted has a line for every
change delivered with it) and `DeliveriesAccounted`. `ClaimsOK` is the heart:
without it a batch taken over could freeze a change that another has sent.
Steps that bind and freeze nothing share one lemma (`EvolveInv`); `Attempts`, a
stop between freezing and the attempt, and `PassReserves` have their own. Each
lemma also gives what the step keeps of every batch (`Kept`), from which
`FrozenForGood` and `MailIsTrue` follow.

**Forks** (`ForkSyncProofs`). `PullInv` is `ForkTypeOK`, `StreamsOK` (positions
in a stream are distinct and not beyond its last transaction), `Pulling`,
`CursorOK`, `PageRows` and `PageBrings` (a page in hand holds every change
between the cursor and its end), `NeverStuck` and `CopyOK` (the copy is never
ahead of the one source it was merged from). The lemmas on pages
(`PageSkipsNothing`) and on the merge (`MergeForgetsNothing`, `MergeTakes`,
`MergeStaysBehind`, `MergeCompletes`) are stated once; a transaction of the
source moves changes ahead of every cursor (`WrittenFollows`), which is why
pages read at different times fit together. `AgainChangesNothing` and
`OrderOfPagesDoesNotMatter` are about the merge alone, for every table and
every page: it is idempotent and commutative, so pulling again from a cursor
that was passed already, or from the start, takes nothing back. A value is told
by its version here; two sites that wrote the same version of a cell are not
told apart.

**Only model-checked.** `JobsEnd`, `MachinesGo`, `MailSettles` and `CatchesUp`,
as liveness under fairness is out of the prover's reach, and the five
violations. Every other property that a run checks is a theorem. The other way
round, `PoolTypeOK`, `ForkTypeOK` and `ClaimTypeOK` are proved (`PoolTyping`,
`ForkIsTyped`, `ClaimsTyped`) and listed in no run, as is what says more than
an instance can show: `OnlyRetriesPassTheCap`, `FirstReadsStayCapped`,
`LeftOpenIsKept`, `OrderDoesNotShow` and the lemmas on merges.

## Not modelled

Within the intake: the page ledger, survey, summary and subject of a draft
(`workerAddPage`, `note_survey`, `set_subject`), which no property reads; the
checks on a card's fields, directions and quotes, which decide whether a
proposal is a card at all; what Confirm writes to the graph, signals and review
queue, which `batch` stands for; the mail. `pendingJobs` returns at most twenty
rows, more than any instance has. A delete the API refuses is left by `tick` to
the next one; here it succeeds. `backfillOpenItems` writes nothing for a draft
whose open cards Confirm has kept already.

Within the review: the suggestions of the embedding pipeline, deleted and made
again every night; profile claims and handle reports in the same queue;
patches of other keys than `retired`, images and contributor counters; `existingNodeBySlug`, by
which a create finds a node under another id; the evidence signals an edge is
taken along with; restoring an image.
`migratePrivacy` does to old rows what the handlers do to new ones, so under
the model it has nothing to do. A superseding edge stands for its signal in
`invalidated_by`.

Within the claims: names, evidence, the mails, and the texts of claims'
signals; a person's second address, a revoked one and the name they go by; the
weekly limit of peer invites; reserved and malformed handles, and reports of
one; the byline page of a token, which a merge moves like an invite's; patches
of the key `claimed` (above). A note that speaks for a page is filed by its
claimant; `Review` lets anyone file one, so its properties hold whoever does.

Within the mail: its wording, dry runs, and the timers and debounce that start
the immediate pass. Within fork sync: the schema hash, rate limits, the wire
encoding, a fork's own writes, a source that changes its identity during a pull
(refused), one restored from an older backup (its transaction numbers start
again behind the fork's cursor, and the code cannot tell), and caches between
the two, which the public `Cache-Control` of a page allows.

Outside these parts: sign-in, the review digest and the archivist keep state
worth a model and are planned below. The other components
read, render or compute without concurrent state, or are browser code: most of
the repository's lines are a vendored p5.js and the drawing code of
`public/field`, which have nothing for a model checker. `PROJECT.json` gives
the reason for each.

## Plan

1. *(done)* `DraftCards`, `DraftQueue`, `IntakeWorkers` with overlapping ticks,
   and `ReadContract` with its refinement.
2. *(done)* `Review`, `SignalPrivacy`, `PublicRecord` with its refinement.
3. *(done)* `ClaimantMail` against a provider with idempotency keys.
4. *(done)* `ForkSync`.
5. *(done)* `Claims`, composed with `Review`, with its proofs. Next
   `IntakeAuth`: a revoked invite leaves no session or link that works, and no
   invite that `backfillInviteClaims` still reads.
6. Budget overshoot (spend in flight) for intake and archivist, and the digest
   marker.
7. *(done)* Every safety property the passing runs check is proved, and the pool
   of machines implements the queue.
8. Proofs still worth having: that mails to one claimant keep the order of
   their changes, and how many drafts a contributor can have active at once
   with retries (`FirstReadsStayCapped` bounds those not read before).

The runs are kept to a dozen, one for each question; claims share
`GraphReview`'s, as they live in the same review queue and on the same pages.
