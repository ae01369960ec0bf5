----------------------------- MODULE ClaimantMail -----------------------------
(***************************************************************************)
(* Mail to claimants (src/notify/claimants.ts): what was found is bound to *)
(* batches, a batch is frozen on its first attempt and sent, under its id  *)
(* as idempotency key, until it is settled.  Two processes do this: the    *)
(* server's immediate pass and the daily command.  Each step is what runs  *)
(* between two points where the other process, a crash or a stall can      *)
(* matter; every write after a batch is taken is fenced by its lease.      *)
(*                                                                         *)
(* External: the provider, which sends a key once as long as it knows it,  *)
(* and what the record says of an event, which anyone may change.          *)
(***************************************************************************)
EXTENDS Naturals, FiniteSets

CONSTANTS Events,       \* changes to claimed pages, as claimant_events
          Claimants,    \* people with an approved claim
          ClaimantOf,   \* whose page each event is about
          AtFirst,      \* what the record may say of the events at the start
          Passes,       \* the processes that deliver
          Daily,        \* those that mail whoever gets mail, not the immediate alone
          Batches,      \* batch ids, one for each event at most
          MAX_ATTEMPTS,
          MaxChanges,   \* bound: changes of the record, of settings and addresses
          MaxCrashes,   \* bound: passes that stop halfway, or stall
          NoBatch, NoPass, NoOne

ASSUME MailAssumption ==
  /\ ClaimantOf \in [Events -> Claimants]
  /\ AtFirst \subseteq [Events -> {"none", "proposed", "added"}]
  /\ Daily \subseteq Passes
  /\ NoBatch \notin Batches /\ NoPass \notin Passes /\ NoOne \notin Claimants
  /\ MAX_ATTEMPTS \in Nat \ {0} /\ MaxChanges \in Nat /\ MaxCrashes \in Nat

VARIABLES
  says,      \* what the record says of an event now: its line, or why not
  mode,      \* notify_prefs.email
  box,       \* deliverableEmailFor: an address, or "none"
  found,     \* claimant_events
  delivery,  \* claimant_deliveries: per event, its state
  inBatch,   \* claimant_deliveries.batch_id
  batch,     \* claimant_batches
  pass,      \* per process: where its pass is
  key,       \* the provider knows the batch's key
  mailed,    \* history: emails that reached anyone, per batch
  bound      \* changes, and crashes and stalls, so far

recordVars == <<says, mode, box>>
tableVars == <<found, delivery, inBatch, batch>>
providerVars == <<key, mailed>>
vars == <<recordVars, tableVars, pass, providerVars, bound>>

Lines == {"proposed", "added", "reworded"}
Modes == {"immediate", "daily", "off"}
Boxes == {"first", "second"}
Ends == {"sent", "failed", "suppressed", "skipped", "reconcile"}

\* What a batch's row says: `lines` and `to` are the frozen request.
Row == [state : {"none", "reserved"} \cup Ends,
        who : Claimants \cup {NoOne},       \* contributor_id
        owner : Passes \cup {NoPass},       \* lease_owner, while that pass lives
        leased : BOOLEAN,                   \* lease_until is still to come
        attempts : 0..MAX_ATTEMPTS,
        old : BOOLEAN,                      \* first attempt past IDEMPOTENCY_SAFE_MS
        lines : [Events -> Lines \cup {"none"}],
        to : Boxes \cup {"none"}]

NoLines == [e \in Events |-> "none"]
NewRow == [state |-> "none", who |-> NoOne, owner |-> NoPass, leased |-> FALSE, attempts |-> 0,
           old |-> FALSE, lines |-> NoLines, to |-> "none"]

Idle == [at |-> "idle", ok |-> {}, mine |-> {}, on |-> NoBatch, read |-> NewRow, members |-> {}]

Init ==
  /\ says \in AtFirst
  /\ mode \in [Claimants -> Modes \ {"off"}]
  /\ box = [c \in Claimants |-> "first"]
  /\ found = {}
  /\ delivery = [e \in Events |-> "none"]
  /\ inBatch = [e \in Events |-> NoBatch]
  /\ batch = [b \in Batches |-> NewRow]
  /\ pass = [p \in Passes |-> Idle]
  /\ key = [b \in Batches |-> FALSE]
  /\ mailed = [b \in Batches |-> 0]
  /\ bound = [changes |-> 0, crashes |-> 0]

-----------------------------------------------------------------------------
(* The record and its people.                                              *)

\* A change is proposed or made; a proposal is approved; names change; a claim ends, a signal is revoked, a
\* note withdrawn, an item rejected; and a claim may be approved again.
MayBecome(s) == IF s = "none" THEN {"proposed", "added"}
                ELSE IF s = "proposed" THEN {"added", "gone"}
                ELSE IF s = "added" THEN {"reworded", "gone"}
                ELSE IF s = "gone" THEN {"added"}
                ELSE {"gone"}

Change ==
  /\ bound.changes < MaxChanges
  /\ bound' = [bound EXCEPT !.changes = @ + 1]
  /\ \/ \E e \in Events : \E s \in MayBecome(says[e]) :
          says' = [says EXCEPT ![e] = s] /\ UNCHANGED <<mode, box>>
     \/ \E c \in Claimants, m \in Modes :
          m # mode[c] /\ mode' = [mode EXCEPT ![c] = m] /\ UNCHANGED <<says, box>>
     \/ \E c \in Claimants, a \in Boxes \cup {"none"} :
          a # box[c] /\ box' = [box EXCEPT ![c] = a] /\ UNCHANGED <<says, mode>>
  /\ UNCHANGED <<tableVars, pass, providerVars>>

-----------------------------------------------------------------------------
(* A pass begins.                                                          *)

\* eligibility: still theirs to hear about, and still true.
Eligible(e) == says[e] \in Lines

\* scanClaimantEvents.
Scanned == found \cup {e \in Events : Eligible(e)}

\* Found and in no delivery yet; whom this pass is for.
Untaken(F) == {e \in F : delivery[e] = "none"}
IsFor(p, c) == p \in Daily \/ mode[c] \in {"immediate", "off"}

\* Mutated form: what was tried once is not taken up again.
DueUntried == {b \in Batches : batch[b].state = "reserved" /\ ~batch[b].leased /\ batch[b].attempts = 0}
\* Batches whose lease ran out.
Due == {b \in Batches : batch[b].state = "reserved" /\ ~batch[b].leased}
Unused == {b \in Batches : batch[b].state = "none"}

\* runClaimantNotifications up to the first batch: what is no longer true is
\* suppressed for good, what is not wanted or has no address is skipped.  A
\* pass that finds nothing to do is left out.
PassStarts(p) ==
  LET here == {e \in Untaken(Scanned) : IsFor(p, ClaimantOf[e])}
      mute(e) == mode[ClaimantOf[e]] = "off" \/ box[ClaimantOf[e]] = "none"
  IN  /\ pass[p].at = "idle"
      /\ here # {} \/ Due # {}
      /\ found' = Scanned
      /\ delivery' = [e \in Events |-> IF e \notin here THEN delivery[e]
                                       ELSE IF ~Eligible(e) THEN "suppressed"
                                       ELSE IF mute(e) THEN "skipped"
                                       ELSE delivery[e]]
      /\ pass' = [pass EXCEPT ![p].at = "listed",
                              ![p].ok = {e \in here : Eligible(e) /\ ~mute(e)}]
      /\ UNCHANGED <<recordVars, inBatch, batch, providerVars, bound>>

\* reserveBatch: what another pass took meanwhile is left to it.
Bindable(p, c) == {e \in pass[p].ok : ClaimantOf[e] = c /\ delivery[e] = "none"}

\* Ids for new batches, any unused ones: which, makes no difference.
Fresh(who) == LET f == {x \in [who -> Unused] : \A c, d \in who : x[c] = x[d] => c = d}
              IN  IF f = {} THEN {} ELSE {CHOOSE x \in f : TRUE}

\* One batch for each claimant, and every batch that is due.
PassReserves(p) ==
  LET who == {c \in Claimants : Bindable(p, c) # {}}
  IN  /\ pass[p].at = "listed"
      /\ \E b \in Fresh(who) :
           /\ LET taken == {b[c] : c \in who}
                  Of(e) == b[ClaimantOf[e]]
                  Takes(e) == ClaimantOf[e] \in who /\ e \in Bindable(p, ClaimantOf[e])
              IN  /\ delivery' = [e \in Events |-> IF Takes(e) THEN "reserved" ELSE delivery[e]]
                  /\ inBatch' = [e \in Events |-> IF Takes(e) THEN Of(e) ELSE inBatch[e]]
                  /\ batch' = [x \in Batches |->
                                 IF x \in taken
                                 THEN [NewRow EXCEPT !.state = "reserved", !.owner = p, !.leased = TRUE,
                                                     !.who = CHOOSE c \in who : b[c] = x]
                                 ELSE IF x \in Due
                                 THEN [batch[x] EXCEPT !.owner = p, !.leased = TRUE]
                                 ELSE batch[x]]
                  /\ pass' = [pass EXCEPT ![p].at = "sending", ![p].ok = {}, ![p].mine = taken \cup Due]
      /\ UNCHANGED <<recordVars, found, providerVars, bound>>

-----------------------------------------------------------------------------
(* sendBatch.                                                              *)

\* acquireLease.
LeaseFree(p, b) == /\ batch[b].state = "reserved"
                   /\ batch[b].owner = p \/ ~batch[b].leased

\* The lease is taken or renewed, and the row and its events are read.  The
\* pass takes its batches one after the other, in any order here.
TakeUp(p, b) ==
  /\ pass[p].at = "sending" /\ b \in pass[p].mine
  /\ IF LeaseFree(p, b)
     THEN /\ batch' = [batch EXCEPT ![b].owner = p, ![b].leased = TRUE]
          /\ pass' = [pass EXCEPT ![p].at = "checking", ![p].on = b, ![p].read = batch[b],
                        ![p].members = {e \in Events : /\ inBatch[e] = b
                                                       /\ delivery[e] = "reserved"}]
     ELSE /\ pass' = [pass EXCEPT ![p].mine = @ \ {b}]
          /\ UNCHANGED batch
  /\ UNCHANGED <<recordVars, found, delivery, inBatch, providerVars, bound>>

\* Mutated form: no owner is asked for.
HoldsUnfenced(p, b) == batch[b].state = "reserved"
\* fenced: the batch is reserved, and still this pass's.
Holds(p, b) == batch[b].state = "reserved" /\ batch[b].owner = p

\* The pass turns to its next batch.
TurnsAway(p) ==
  pass' = [pass EXCEPT ![p] = [Idle EXCEPT !.at = "sending", !.mine = pass[p].mine \ {pass[p].on}]]

\* Mutated form: the events of the batch are left as they were.
FinishBatchAlone(p, b, end, D) ==
  /\ batch' = [batch EXCEPT ![b].state = IF Holds(p, b) THEN end ELSE @,
                            ![b].leased = @ /\ ~Holds(p, b)]
  /\ UNCHANGED <<delivery, inBatch>>
\* finishBatch: the batch and its events, or nothing if the lease was lost.
\* The events of D have left it before.
FinishBatch(p, b, end, D) ==
  /\ batch' = [batch EXCEPT ![b].state = IF Holds(p, b) THEN end ELSE @,
                            ![b].leased = @ /\ ~Holds(p, b)]
  /\ delivery' = [e \in Events |->
                    IF e \in D THEN "suppressed"
                    ELSE IF Holds(p, b) /\ inBatch[e] = b /\ delivery[e] = "reserved"
                    THEN end ELSE delivery[e]]
  /\ inBatch' = [e \in Events |-> IF e \in D THEN NoBatch ELSE inBatch[e]]

IsFrozen(r) == r.to # "none"
FrozenEvents(r) == {e \in Events : r.lines[e] # "none"}

\* A frozen line may go as it is: it is still said, or was a proposal and has
\* been approved since.
StillTrue(e, line) == says[e] = line \/ (line = "proposed" /\ says[e] = "added")

\* Mutated form: the address is not looked at again.
OutdatedButAddress(r, M) ==
  IsFrozen(r) /\ (FrozenEvents(r) # M \/ \E e \in M : ~StillTrue(e, r.lines[e]))
\* frozenStillTrue, and the address.
Outdated(r, M) ==
  IsFrozen(r) /\ \/ FrozenEvents(r) # M
                 \/ \E e \in M : ~StillTrue(e, r.lines[e])
                 \/ r.to # box[r.who]
NothingLeft(r, M) == ~IsFrozen(r) /\ \A e \in M : ~Eligible(e)

\* Mutated form: the age of the first attempt is no obstacle.
RefusalAnyAge(r, b) ==
  IF mode[r.who] = "off" THEN "skipped"
  ELSE IF box[r.who] = "none" THEN "suppressed"
  ELSE IF r.attempts >= MAX_ATTEMPTS THEN "failed"
  ELSE "none"
\* Mutated form: attempts are not counted.
RefusalUncounted(r, b) ==
  IF mode[r.who] = "off" THEN "skipped"
  ELSE IF box[r.who] = "none" THEN "suppressed"
  ELSE IF r.attempts > 0 /\ batch[b].old THEN "reconcile"
  ELSE "none"
\* The checks before every attempt: setting, address, attempts, and whether
\* the provider would still know an earlier one.
Refusal(r, b) ==
  IF mode[r.who] = "off" THEN "skipped"
  ELSE IF box[r.who] = "none" THEN "suppressed"
  ELSE IF r.attempts >= MAX_ATTEMPTS THEN "failed"
  ELSE IF r.attempts > 0 /\ batch[b].old THEN "reconcile"
  ELSE "none"

\* What is no longer true leaves the batch before it is frozen; this write
\* asks for no lease.
Dropped(r, M, b) == {e \in M : /\ ~IsFrozen(r) /\ Refusal(r, b) = "none"
                               /\ ~Eligible(e) /\ inBatch[e] = b}

\* The batch is not to be sent.
SetsAside(p) ==
  LET b == pass[p].on
      r == pass[p].read
      M == pass[p].members
  IN  /\ pass[p].at = "checking"
      /\ \/ /\ Refusal(r, b) # "none"
            /\ FinishBatch(p, b, Refusal(r, b), {})
         \/ /\ Refusal(r, b) = "none"
            /\ Outdated(r, M) \/ NothingLeft(r, M)
            /\ FinishBatch(p, b, "suppressed", Dropped(r, M, b))
      /\ TurnsAway(p)
      /\ UNCHANGED <<recordVars, found, providerVars, bound>>

\* The request, made now from what is still true.
Request(M) == [e \in Events |-> IF e \in M /\ Eligible(e) THEN says[e] ELSE "none"]

CanGo(p) == LET r == pass[p].read
            IN  /\ pass[p].at = "checking"
                /\ Refusal(r, pass[p].on) = "none"
                /\ ~Outdated(r, pass[p].members) /\ ~NothingLeft(r, pass[p].members)

Freezes(p, b) == IF IsFrozen(pass[p].read) THEN batch
                 ELSE [batch EXCEPT ![b].lines = Request(pass[p].members),
                                    ![b].to = box[pass[p].read.who]]
Leave(D) == /\ delivery' = [e \in Events |-> IF e \in D THEN "suppressed" ELSE delivery[e]]
            /\ inBatch' = [e \in Events |-> IF e \in D THEN NoBatch ELSE inBatch[e]]

\* The request is frozen, the attempt recorded, and the request leaves: unless
\* the lease was lost.
Attempts(p) ==
  LET b == pass[p].on
  IN  /\ CanGo(p)
      /\ Leave(Dropped(pass[p].read, pass[p].members, b))
      /\ IF Holds(p, b)
         THEN /\ batch' = [Freezes(p, b) EXCEPT ![b].attempts = @ + 1, ![b].leased = TRUE]
              /\ pass' = [pass EXCEPT ![p].at = "waiting"]
         ELSE UNCHANGED batch /\ TurnsAway(p)
      /\ UNCHANGED <<recordVars, found, providerVars, bound>>

-----------------------------------------------------------------------------
(* The provider, and what can happen to a pass.                            *)

\* A request that arrives is an email, unless its key is known.
Arrives(b, did) ==
  IF did THEN /\ key' = [key EXCEPT ![b] = TRUE]
              /\ mailed' = [mailed EXCEPT ![b] = IF key[b] THEN @ ELSE @ + 1]
  ELSE UNCHANGED providerVars

\* sendMail returns: sent; or not, for now or for good.  After an error that
\* may pass (a timeout) the request may have arrived.
Answered(p) ==
  LET b == pass[p].on
  IN  /\ pass[p].at = "waiting"
      /\ \/ /\ Arrives(b, TRUE)
            /\ FinishBatch(p, b, "sent", {})
         \/ /\ \E did \in BOOLEAN : Arrives(b, did)
            /\ IF batch[b].attempts < MAX_ATTEMPTS
               THEN /\ batch' = [batch EXCEPT ![b].leased = @ \/ Holds(p, b)]
                    /\ UNCHANGED <<delivery, inBatch>>
               ELSE FinishBatch(p, b, "failed", {})
         \/ /\ Arrives(b, FALSE)
            /\ FinishBatch(p, b, "failed", {})
      /\ TurnsAway(p)
      /\ UNCHANGED <<recordVars, found, bound>>

\* No later pass has this one's owner token.
Forgotten(p, rows) == [b \in Batches |-> IF rows[b].owner = p
                                         THEN [rows[b] EXCEPT !.owner = NoPass] ELSE rows[b]]

PassEnds(p) ==
  /\ pass[p].at = "sending" /\ pass[p].mine = {}
  /\ pass' = [pass EXCEPT ![p] = Idle]
  /\ batch' = Forgotten(p, batch)
  /\ UNCHANGED <<recordVars, found, delivery, inBatch, providerVars, bound>>

\* The process stops: between two steps, with a request under way, or with the
\* request frozen and the attempt not yet recorded.
PassStops(p) ==
  LET b == pass[p].on
  IN  /\ pass[p].at # "idle"
      /\ bound.crashes < MaxCrashes
      /\ bound' = [bound EXCEPT !.crashes = @ + 1]
      /\ pass' = [pass EXCEPT ![p] = Idle]
      /\ \/ /\ pass[p].at # "waiting"
            /\ batch' = Forgotten(p, batch)
            /\ UNCHANGED <<delivery, inBatch, providerVars>>
         \/ /\ pass[p].at = "waiting"
            /\ \E did \in BOOLEAN : Arrives(b, did)
            /\ batch' = Forgotten(p, batch)
            /\ UNCHANGED <<delivery, inBatch>>
         \/ /\ CanGo(p) /\ Holds(p, b)
            /\ Leave(Dropped(pass[p].read, pass[p].members, b))
            /\ batch' = Forgotten(p, Freezes(p, b))
            /\ UNCHANGED providerVars
      /\ UNCHANGED <<recordVars, found>>

\* The pass that has b's lease cannot lose it to the clock: time only passes for
\* it while it waits for the provider, and sendMail gives up long before a lease
\* that was renewed for the attempt.
Keeps(p, b) == /\ batch[b].owner = p /\ b \in pass[p].mine
               /\ pass[p].at = "waiting" => pass[p].on = b

\* Time: a lease or a backoff runs out, an attempt gets too old to repeat, and
\* after that, with no request under way, the provider forgets the key (which
\* matters as long as the batch may go again).
LeaseEnds(b) ==
  /\ batch[b].leased /\ \A p \in Passes : ~Keeps(p, b)
  /\ batch' = [batch EXCEPT ![b].leased = FALSE]
  /\ UNCHANGED <<recordVars, found, delivery, inBatch, pass, providerVars, bound>>

\* A process that is suspended may find its lease gone at any step.
Stalls(b) ==
  /\ bound.crashes < MaxCrashes
  /\ bound' = [bound EXCEPT !.crashes = @ + 1]
  /\ batch[b].leased /\ \E p \in Passes : Keeps(p, b)
  /\ batch' = [batch EXCEPT ![b].leased = FALSE]
  /\ UNCHANGED <<recordVars, found, delivery, inBatch, pass, providerVars>>

AttemptAges(b) ==
  /\ batch[b].state = "reserved" /\ batch[b].attempts > 0 /\ ~batch[b].old
  /\ batch' = [batch EXCEPT ![b].old = TRUE]
  /\ UNCHANGED <<recordVars, found, delivery, inBatch, pass, providerVars, bound>>

KeyForgotten(b) ==
  /\ key[b] /\ batch[b].state = "reserved" /\ batch[b].old
  /\ \A p \in Passes : pass[p].at = "waiting" => pass[p].on # b
  /\ key' = [key EXCEPT ![b] = FALSE]
  /\ UNCHANGED <<recordVars, tableVars, pass, mailed, bound>>

-----------------------------------------------------------------------------
PassStep(p) == \/ PassStarts(p) \/ PassReserves(p) \/ (\E b \in Batches : TakeUp(p, b))
               \/ SetsAside(p) \/ Attempts(p) \/ Answered(p) \/ PassEnds(p)

Next == \/ Change
        \/ \E p \in Passes : PassStep(p) \/ PassStops(p)
        \/ \E b \in Batches : LeaseEnds(b) \/ Stalls(b) \/ AttemptAges(b) \/ KeyForgotten(b)

\* The daily command is run again and again, a pass gets on, and time passes.
Fairness == /\ \A p \in Daily : WF_vars(PassStep(p))
            /\ \A p \in Passes : WF_vars(pass[p].at # "idle" /\ PassStep(p))
            /\ \A b \in Batches : WF_vars(LeaseEnds(b))

Spec == Init /\ [][Next]_vars /\ Fairness
-----------------------------------------------------------------------------
(* Properties.                                                             *)

PassRow == [at : {"idle", "listed", "sending", "checking", "waiting"},
            ok : SUBSET Events, mine : SUBSET Batches, on : Batches \cup {NoBatch},
            read : Row, members : SUBSET Events]

\* Type invariant: the rows of the tables and the variables of a pass.
MailTypeOK ==
  /\ says \in [Events -> Lines \cup {"none", "gone"}]
  /\ mode \in [Claimants -> Modes]
  /\ box \in [Claimants -> Boxes \cup {"none"}]
  /\ found \subseteq Events
  /\ delivery \in [Events -> {"none", "reserved"} \cup Ends]
  /\ inBatch \in [Events -> Batches \cup {NoBatch}]
  /\ batch \in [Batches -> Row]
  /\ pass \in [Passes -> PassRow]
  /\ key \in [Batches -> BOOLEAN]
  /\ mailed \in [Batches -> Nat]
  /\ bound \in [changes : Nat, crashes : Nat]

Mailed(e) == {b \in Batches : mailed[b] > 0 /\ batch[b].lines[e] # "none"}

\* Nobody is told of the same thing twice: whatever crashed, answered late or
\* not at all, a batch is one email at most, and an event is in one batch that
\* was mailed at most (claimants.ts:17-31).
NeverTwice ==
  /\ \A b \in Batches : mailed[b] <= 1
  /\ \A e \in Events : Cardinality(Mailed(e)) <= 1

\* Nothing is lost on the way: an event in delivery belongs to a batch that
\* some pass will take up again, and one recorded as sent was mailed.
DeliveriesAccounted ==
  \A e \in Events :
    /\ delivery[e] = "reserved" => inBatch[e] \in Batches /\ batch[inBatch[e]].state = "reserved"
    /\ delivery[e] = "sent" => /\ inBatch[e] \in Batches
                               /\ inBatch[e] \in Mailed(e)

\* A request only leaves while every line of it is still true (or a proposal
\* approved since) and its reader still wants mail, there, however long ago it
\* was frozen and whoever froze it (frozenStillTrue).
MailIsTrue ==
  [][\A b \in Batches : batch'[b].attempts > batch[b].attempts =>
       /\ \A e \in Events : batch'[b].lines[e] # "none" => StillTrue(e, batch'[b].lines[e])
       /\ mode[batch[b].who] # "off"
       /\ box[batch[b].who] = batch'[b].to]_vars

\* The request under a key never changes, and a batch settled stays settled
\* (finishBatch: "never changes again").
FrozenForGood ==
  [][\A b \in Batches :
       /\ IsFrozen(batch[b]) => batch'[b].lines = batch[b].lines /\ batch'[b].to = batch[b].to
       /\ batch[b].state \in Ends => batch'[b].state = batch[b].state]_vars

\* Every event found is settled in the end: mailed, or recorded as not to be.
MailSettles == \A e \in Events : e \in found ~> delivery[e] \in Ends
=============================================================================
