------------------------------- MODULE Claims -------------------------------
(***************************************************************************)
(* Claims and handles (src/claim/store.ts, the invites of                  *)
(* src/claim/notes.ts) over the graph of Review: who a page belongs to,    *)
(* the public face of it in the page's own metadata, and the handles that  *)
(* lead to it, while contributions and corrections change the pages.       *)
(*                                                                         *)
(* A claim is one row of node_claims with its row of the review queue, if  *)
(* it has one.  What it asks is fixed by Asks; each is made at most once.  *)
(* A patch that writes the key `claimed` into a page's metadata, which the *)
(* code does not refuse, is left out, as are all of other keys than        *)
(* `retired`.                                                              *)
(***************************************************************************)
EXTENDS Review

CONSTANTS ClaimIds,  \* claims that may be made
          Asks,      \* what each of them asks
          People,    \* contributors, each with one address
          Handles,   \* handles, well formed and not reserved
          MaxClaims, \* bound: claims made
          MixedItems, \* bound: contributions where there are claims
          MaxMixed,  \* bound: corrections where there are claims
          NoHandle

VARIABLES
  claim,  \* per claim: its state, and that of its row in intake_queue
  face,   \* per page: metadata.claimed
  alias,  \* per handle: the page it leads to (node_aliases)
  self,   \* per person: contributor_emails.self_node_id
  torn    \* history: claims whose decision a crash cut short

claimVars == <<claim, face, alias, self, torn>>
allVars == <<vars, claimVars>>

AskType == [who : People, page : Nodes, handle : Handles \cup {NoHandle},
            via : {"request", "invite", "peer_invite"},
            named : BOOLEAN]                          \* public_name

ASSUME ClaimsAssumption ==
  /\ Asks \in [ClaimIds -> AskType]
  /\ \A k \in ClaimIds : Asks[k].via # "request" => Asks[k].handle = NoHandle
  /\ NoHandle \notin Handles
  /\ MaxClaims \in Nat /\ MaxMixed \in Nat

ClaimableTypes == {"practitioner", "collective", "institution"}
\* `ended`: withdrawn by the claimant or revoked by an admin.
ClaimRow == [state : {"none", "pending", "approved", "rejected", "ended"},
             row : {"none", "pending", "approved", "rejected"}]
\* `fresh`: the handle was set within the last 30 days.
Face == [shown : BOOLEAN, by : SUBSET People, handle : Handles \cup {NoHandle},
         fresh : BOOLEAN]
Faceless == [shown |-> FALSE, by |-> {}, handle |-> NoHandle, fresh |-> FALSE]

ClaimsInit ==
  /\ Init
  /\ claim = [k \in ClaimIds |-> [state |-> "none", row |-> "none"]]
  /\ face = [n \in Nodes |-> Faceless]
  /\ alias = [h \in Handles |-> NoNode]
  /\ self = [p \in People |-> NoNode]
  /\ torn = {}

-----------------------------------------------------------------------------
(* What the handlers look up.                                              *)

Who(k) == Asks[k].who
Page(k) == Asks[k].page
Made == {k \in ClaimIds : claim[k].state # "none"}
\* claimableNode.
Claimable(n) == node[n].state = "live" /\ NodeType[n] \in ClaimableTypes
ApprovedIn(c, n) == {k \in ClaimIds : Page(k) = n /\ c[k].state = "approved"}
Approved(n) == ApprovedIn(claim, n)
OfPerson(p, n) == {k \in Made : Who(k) = p /\ Page(k) = n}
\* Bound: contributions and corrections where there are claims.
Calm == /\ \A s \in Signals : status[s] # "none" => s \in MixedItems
        /\ Cardinality({s \in Signals : status[s] = "revoked"})
           + Cardinality({n \in Nodes : Retired(n)}) <= MaxMixed
Mixed == Made # {} \/ (\E p \in People : self[p] # NoNode) => Calm
Standing(k) == claim[k].state \in {"pending", "approved"}
\* handleAvailability.
Free(h, n) == alias[h] \in {NoNode, n}

-----------------------------------------------------------------------------
(* Approval.                                                               *)

\* What the page of the claims `up` shows, with a handle given, if any.
FaceOf(n, up, given) ==
  [shown |-> TRUE,
   by |-> {Who(k) : k \in {l \in up : Asks[l].named}},
   handle |-> IF given # NoHandle THEN given ELSE face[n].handle,
   fresh |-> given # NoHandle \/ face[n].fresh]
\* Mutated form: the last claim that ends leaves the face as it was.
FaceStays(n, c, given) ==
  IF ApprovedIn(c, n) = {} THEN face[n] ELSE FaceOf(n, ApprovedIn(c, n), given)
\* publishClaimed, with the claims as c.
PublicFace(n, c, given) ==
  IF ApprovedIn(c, n) = {} THEN Faceless ELSE FaceOf(n, ApprovedIn(c, n), given)

\* approveClaimInner: a handle taken meanwhile is dropped, the claim stands.
Take(k, row) ==
  LET n == Page(k)
      h == Asks[k].handle
      given == IF h # NoHandle /\ Free(h, n) THEN h ELSE NoHandle
  IN  /\ claim' = [claim EXCEPT ![k] = [state |-> "approved", row |-> row]]
      /\ alias' = [g \in Handles |-> IF g = given THEN n ELSE alias[g]]
      /\ face' = [face EXCEPT ![n] = PublicFace(n, claim', given)]

Wait(k) ==
  /\ claim' = [claim EXCEPT ![k] = [state |-> "pending", row |-> "pending"]]
  /\ UNCHANGED <<face, alias>>

\* One person, one practitioner: a second claimant goes to a curator.
AtOnce(k, mine) ==
  /\ Asks[k].via \in {"invite", "peer_invite"} \/ mine[Who(k)] = Page(k)
  /\ \/ NodeType[Page(k)] # "practitioner"
     \/ \A l \in Approved(Page(k)) : Who(l) = Who(k)

\* requestClaim, where the person has no claim on the page that stands; `mine`
\* is self_node_id as it then is.
Request(k, mine) ==
  /\ claim[k].state = "none"
  /\ Cardinality(Made) < MaxClaims
  /\ Claimable(Page(k))
  /\ \A l \in OfPerson(Who(k), Page(k)) : ~Standing(l)
  /\ Asks[k].handle # NoHandle => Free(Asks[k].handle, Page(k))
  /\ IF AtOnce(k, mine) THEN Take(k, "none") ELSE Wait(k)

\* POST /api/claims, and the first half of approving a signed-out request.
AskFor(k) ==
  /\ Calm
  /\ Asks[k].via = "request"
  /\ Request(k, self)
  /\ UNCHANGED <<vars, self, torn>>

\* POST /api/me/invite: a claimant of a page one live relation away vouches.
PeerInvite(k) ==
  /\ Asks[k].via = "peer_invite"
  /\ Approved(Page(k)) = {}
  /\ \E l \in ClaimIds : /\ claim[l].state = "approved" /\ Who(l) # Who(k)
                         /\ \E e \in EdgeIds : /\ edge[e].state = "live"
                                               /\ Ends(e) = {Page(l), Page(k)}
  /\ Request(k, self)
  /\ UNCHANGED <<vars, self, torn>>

\* An invite that names a page.  It is the person's at once, if they had no
\* claim on it before, whatever became of that one, and it may be claimed.
Invite(k) ==
  /\ Calm
  /\ Asks[k].via = "invite"
  /\ node[Page(k)].state # "none"
  /\ self' = [self EXCEPT ![Who(k)] = Page(k)]
  /\ \/ OfPerson(Who(k), Page(k)) = {} /\ Request(k, self')
     \/ /\ OfPerson(Who(k), Page(k)) # {} \/ ~Claimable(Page(k))
        /\ UNCHANGED <<claim, face, alias>>
  /\ UNCHANGED <<vars, torn>>

\* A crash before the claim is made.
InviteCutShort(k) ==
  /\ Calm
  /\ Asks[k].via = "invite"
  /\ node[Page(k)].state # "none"
  /\ self[Who(k)] # Page(k)
  /\ Cardinality(torn) + Cardinality(cut) < MaxCuts
  /\ self' = [self EXCEPT ![Who(k)] = Page(k)]
  /\ torn' = torn \cup {k}
  /\ UNCHANGED <<vars, claim, face, alias>>

\* backfillInviteClaims, at the next start or with the next invite: a row of
\* it, each in a transaction of its own.
Backfill(k) ==
  /\ Asks[k].via = "invite"
  /\ self[Who(k)] = Page(k)
  /\ OfPerson(Who(k), Page(k)) = {}
  /\ Request(k, self)
  /\ UNCHANGED <<vars, self, torn>>

-----------------------------------------------------------------------------
(* Decisions.                                                              *)

Waiting(k) == claim[k] = [state |-> "pending", row |-> "pending"]

\* approveClaim, through the review queue.
ApproveClaim(k) ==
  /\ Waiting(k)
  /\ Take(k, "approved")
  /\ UNCHANGED <<vars, self, torn>>

\* Mutated form: the queue's row is left as it is.
CloseClaimOnly(k, to) == claim' = [claim EXCEPT ![k].state = to]
\* The row of the claim, then that of the queue.
Close(k, to) ==
  claim' = [claim EXCEPT ![k] = [state |-> to,
                                 row |-> IF @.row = "pending" THEN "rejected" ELSE @.row]]

\* rejectClaim, and endClaim of a claim that waits.
Refuse(k, to) ==
  /\ Waiting(k)
  /\ Close(k, to)
  /\ UNCHANGED <<vars, face, alias, self, torn>>

\* A crash between the two statements.
RefuseCutShort(k, to) ==
  /\ Waiting(k)
  /\ Cardinality(torn) + Cardinality(cut) < MaxCuts
  /\ claim' = [claim EXCEPT ![k].state = to]
  /\ torn' = torn \cup {k}
  /\ UNCHANGED <<vars, face, alias, self>>

\* endClaim of an approved claim: the handle stays with the page.
EndClaim(k) ==
  /\ claim[k].state = "approved"
  /\ Close(k, "ended")
  /\ face' = [face EXCEPT ![Page(k)] = PublicFace(Page(k), claim', NoHandle)]
  /\ UNCHANGED <<vars, alias, self, torn>>

\* setHandle, by the claimant of claim k.
SetHandle(k, h) ==
  LET n == Page(k)
  IN  /\ claim[k].state = "approved"
      /\ Free(h, n)
      /\ face[n].handle # h
      /\ face[n].handle = NoHandle \/ ~face[n].fresh
      /\ alias' = [alias EXCEPT ![h] = n]
      /\ face' = [face EXCEPT ![n] = PublicFace(n, claim, h)]
      /\ UNCHANGED <<vars, claim, self, torn>>

\* 30 days pass.
MonthPasses ==
  /\ \E n \in Nodes : face[n].fresh
  /\ face' = [n \in Nodes |-> [face[n] EXCEPT !.fresh = FALSE]]
  /\ UNCHANGED <<vars, claim, alias, self, torn>>

-----------------------------------------------------------------------------
(* Claims and the graph.                                                   *)

\* The handles of a page merged away lead to the kept one.
Repointed(f, i) == [h \in Handles |-> IF alias[h] = f THEN i ELSE alias[h]]

\* Mutated form: only an approved claim stands in the way.
UnapprovedPage(n) == Approved(n) = {}
\* No claim on the page stands.
Unclaimed(n) == \A k \in ClaimIds : Page(k) = n => ~Standing(k)

\* mergeNodes refuses a page with a claim; what leads to it moves.
MergePages(f, i) ==
  /\ MergeNodes(f, i)
  /\ Unclaimed(f)
  /\ alias' = Repointed(f, i)
  /\ self' = [p \in People |-> IF self[p] = f THEN i ELSE self[p]]
  /\ UNCHANGED <<claim, face, torn>>
  /\ Mixed'

\* Contributions, reviews and the other corrections leave the claims alone.
GraphStep == OtherStep /\ UNCHANGED claimVars /\ Mixed'

ClaimsNext ==
  \/ GraphStep
  \/ \E f, i \in Nodes : MergePages(f, i)
  \/ \E k \in ClaimIds :
       \/ AskFor(k) \/ PeerInvite(k) \/ Invite(k) \/ InviteCutShort(k) \/ Backfill(k)
       \/ ApproveClaim(k)
       \/ \E to \in {"rejected", "ended"} : Refuse(k, to) \/ RefuseCutShort(k, to)
       \/ EndClaim(k)
       \/ \E h \in Handles : SetHandle(k, h)
  \/ MonthPasses

ClaimsSpec == ClaimsInit /\ [][ClaimsNext]_allVars
-----------------------------------------------------------------------------
(* Properties.                                                             *)

\* Type invariant: the rows, and the states their columns take.
ClaimTypeOK ==
  /\ claim \in [ClaimIds -> ClaimRow]
  /\ face \in [Nodes -> Face]
  /\ alias \in [Handles -> Nodes \cup {NoNode}]
  /\ self \in [People -> Nodes \cup {NoNode}]
  /\ torn \subseteq ClaimIds

\* "What the public sees is derived from the approved claims" (store.ts:10):
\* a page shows the mark exactly while someone's claim on it is approved, with
\* the names of exactly those who let it, and a handle that leads to it,
\* through approvals, ends, handle changes and merges of other pages.
FacesAreTrue ==
  \A n \in Nodes :
    /\ face[n].shown <=> Approved(n) # {}
    /\ face[n].by = {Who(k) : k \in {l \in Approved(n) : Asks[l].named}}
    /\ face[n].handle # NoHandle => face[n].shown /\ alias[face[n].handle] = n

\* "old /@links still resolve and nobody else can pick it up" (store.ts:18):
\* a handle once given leads to its page for good, whoever claims it and even
\* if nobody does, or, from the step that merges its page into another, to
\* that one; and it is never given to a page that was merged away before,
\* unless a patch brought that page back.
HandlesStay ==
  [][\A h \in Handles, n \in Nodes :
       /\ alias[h] = NoNode /\ alias'[h] = n =>
            node'[n].into = NoNode \/ BroughtBack(n)'
       /\ alias[h] = n =>
            \/ alias'[h] = n /\ node'[n].into = node[n].into
            \/ /\ alias'[h] = node'[n].into /\ alias'[h] # n
               /\ node[n].state = "live" /\ node'[n].state = "retired"]_allVars

\* A claim waits exactly while its row in the queue does, unless a crash cut
\* its refusal short; a person has one claim on a page that stands; and a
\* practitioner has a second claimant only if a curator approved one of the
\* two, in whatever order claims, invites, ends and decisions come.
ClaimsDecided ==
  /\ \A k \in ClaimIds :
       /\ claim[k].state = "pending" => claim[k].row = "pending"
       /\ claim[k].row = "pending" => claim[k].state = "pending" \/ k \in torn
       /\ claim[k].row = "approved" => claim[k].state \in {"approved", "ended"}
  /\ \A k, l \in ClaimIds :
       k # l /\ Standing(k) /\ Standing(l) /\ Page(k) = Page(l) =>
         /\ Who(k) # Who(l)
         /\ \/ NodeType[Page(k)] # "practitioner"
            \/ "approved" \notin {claim[k].state} \cap {claim[l].state}
            \/ "approved" \in {claim[k].row, claim[l].row}
=============================================================================
