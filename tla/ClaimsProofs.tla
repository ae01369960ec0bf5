---------------------------- MODULE ClaimsProofs ----------------------------
(***************************************************************************)
(* Claims and handles, with the graph changing under them: a page shows    *)
(* its claimants, a handle leads where it led, and no claim is decided by  *)
(* nobody.  The composition also keeps every promise of Review.            *)
(***************************************************************************)
EXTENDS Claims, ReviewOutcomeProofs

\* Only a retired page was merged into another, or one a patch brought back.
PagesOK ==
  \A n \in Nodes : node[n].into # NoNode =>
    \/ node[n].state = "retired"
    \/ node[n].state = "live" /\ BroughtBack(n)

\* But for those, nobody's claim is on a page merged away, and no handle leads
\* to it.
MergedLeft ==
  \A n \in Nodes : node[n].into # NoNode =>
    \/ BroughtBack(n)
    \/ Unclaimed(n) /\ \A h \in Handles : alias[h] # n

ClaimInv == PrivacyInv /\ PagesOK /\ ClaimTypeOK /\ FacesAreTrue /\ ClaimsDecided /\ MergedLeft

-----------------------------------------------------------------------------
(* Pages.                                                                  *)

\* What brought a page back stays on record.
LEMMA BackStays ==
  ASSUME PrivacyInv, [Next]_vars, NEW n \in Nodes, BroughtBack(n)
  PROVE  BroughtBack(n)'
<1>1. PICK c \in Items : /\ Shape[c].patch = n /\ ~Shape[c].retires
                         /\ queue[c] = "approved" \/ c \in cut
  BY DEF BroughtBack
<1>2. queue[c] = "approved" => queue'[c] = "approved"
  BY StepMoves DEF Moves, Entered, Goes, Passes, PrivacyInv, Unwritten
<1> QED
  BY <1>1, <1>2, CutsStay DEF BroughtBack

\* A page made stands, and a retired one is live again only as brought back.
LEMMA PagesBack ==
  ASSUME PrivacyInv, [Next]_vars, NEW n \in Nodes, node[n].state # "none"
  PROVE  /\ node'[n].state \in {"live", "retired"}
         /\ node[n].state = "retired" /\ node'[n].state = "live" => BroughtBack(n)'
<1>1. NodesStand
  BY StepStands DEF GraphStands
<1>2. node'[n] \in NodeRow
  BY PrivacyNext DEF PrivacyInv, RowsOK
<1>3. \A c \in Items : TakesEffect(c) => queue'[c] = "approved" \/ c \in cut'
  BY DEF TakesEffect
<1> QED
  BY <1>1, <1>2, <1>3 DEF NodesStand, NodeRow, BroughtBack

\* But for a merge, no page is merged, and none is unmerged.
LEMMA PagesStand ==
  ASSUME PrivacyInv, PagesOK, OtherStep, NEW n \in Nodes
  PROVE  node'[n].into = node[n].into
<1> USE DEF PrivacyInv
<1>1. ASSUME NEW c \in Items, node' = WithNode(c)
      PROVE  node'[n].into = node[n].into
  BY <1>1 DEF WithNode, Patched, PagesOK, RowsOK, NodeRow
<1>2. CASE UNCHANGED node
  BY <1>2
<1>3. ASSUME NEW c \in Items, Submit(c) \/ SubmitCutShort(c) \/ Withdraw(c) \/ CuratorStep(c)
      PROVE  node' = WithNode(c) \/ UNCHANGED node
  BY <1>3 DEF Submit, SubmitCutShort, Withdraw, CuratorStep, Approve, Reject, RejectCutShort,
              ApproveContext, RejectContext, UpholdContest, DismissContest, SettleCutShort,
              ContestCutShort, Materialise, graphVars
<1>4. CASE \E s \in Signals : RevokeSignal(s)
  BY <1>2, <1>4 DEF RevokeSignal
<1>5. CASE \E m \in Nodes : RetireNode(m)
  BY <1>5 DEF RetireNode, RowsOK, NodeRow
<1>6. CASE \E b \in Batches : RetireBatch(b)
  BY <1>6 DEF RetireBatch, RowsOK, NodeRow
<1> QED
  BY <1>1, <1>2, <1>3, <1>4, <1>5, <1>6 DEF OtherStep

\* A merge points one live page to another, and no other page.
LEMMA MergeMoves ==
  ASSUME PrivacyInv, NEW f \in Nodes, NEW i \in Nodes, MergeNodes(f, i)
  PROVE  /\ f # i /\ i # NoNode
         /\ node[f].state = "live" /\ node[i].state = "live"
         /\ node'[f].into = i /\ node'[f].state = "retired"
         /\ \A n \in Nodes : n # f => node'[n] = node[n]
  BY ReviewAssumption DEF MergeNodes, PrivacyInv, RowsOK, NodeRow

LEMMA PagesNext ==
  ASSUME PrivacyInv, PagesOK, [Next]_vars
  PROVE  PagesOK'
<1>0. \A n \in Nodes : BroughtBack(n) => BroughtBack(n)'
  BY BackStays
<1>1. ASSUME OtherStep, NEW n \in Nodes, node'[n].into # NoNode
      PROVE  \/ node'[n].state = "retired"
             \/ node'[n].state = "live" /\ BroughtBack(n)'
  <2>1. \/ node[n].state = "retired"
        \/ node[n].state = "live" /\ BroughtBack(n)
    BY <1>1, PagesStand DEF PagesOK
  <2> QED
    BY <1>0, <2>1, PagesBack
<1>2. ASSUME NEW f \in Nodes, NEW i \in Nodes, MergeNodes(f, i)
      PROVE  PagesOK'
  BY <1>0, <1>2, MergeMoves DEF PagesOK
<1>3. CASE UNCHANGED vars
  BY <1>0, <1>3 DEF vars, PagesOK
<1> QED
  BY <1>1, <1>2, <1>3 DEF Next, PagesOK

-----------------------------------------------------------------------------
(* What a step may do to claims.                                           *)

\* A claim is made: it waits, or it is approved at once.
Opened(k) ==
  /\ claim[k].state = "none"
  /\ node[Page(k)].state = "live"
  /\ \A l \in ClaimIds : Page(l) = Page(k) /\ Who(l) = Who(k) => ~Standing(l)
  /\ \/ Wait(k)
     \/ /\ Take(k, "none")
        /\ \/ NodeType[Page(k)] # "practitioner"
           \/ Approved(Page(k)) = {}
  /\ torn \subseteq torn'

\* A claim that waits is turned down, or given up.
RefusedAs(k, to, row) ==
  /\ Waiting(k)
  /\ claim' = [claim EXCEPT ![k] = [state |-> to, row |-> row]]
  /\ row = "pending" => k \in torn'
  /\ torn \subseteq torn'
  /\ UNCHANGED <<face, alias>>
Refused(k) ==
  \E to \in {"rejected", "ended"}, row \in {"pending", "rejected"} : RefusedAs(k, to, row)

ClaimsIdle == UNCHANGED <<claim, face, alias>> /\ torn \subseteq torn'

ClaimMoves(k) ==
  \/ Opened(k) \/ ApproveClaim(k) \/ Refused(k) \/ EndClaim(k)
  \/ \E h \in Handles : SetHandle(k, h)

LEMMA RequestOpens ==
  ASSUME NEW k \in ClaimIds, NEW mine, Request(k, mine), torn \subseteq torn'
  PROVE  Opened(k)
<1>1. \A l \in ClaimIds : Page(l) = Page(k) /\ Who(l) = Who(k) => ~Standing(l)
  BY DEF Request, OfPerson, Made, Standing
<1>2. AtOnce(k, mine) => NodeType[Page(k)] # "practitioner" \/ Approved(Page(k)) = {}
  BY <1>1 DEF AtOnce, Approved, ApprovedIn, Standing
<1> QED
  BY <1>1, <1>2 DEF Request, Opened, Claimable

LEMMA ClaimSteps ==
  ASSUME ClaimTypeOK, ClaimsNext
  PROVE  \/ OtherStep /\ UNCHANGED claimVars
         \/ \E f, i \in Nodes : MergePages(f, i)
         \/ UNCHANGED vars /\ (ClaimsIdle \/ MonthPasses \/ \E k \in ClaimIds : ClaimMoves(k))
<1>1. ASSUME NEW k \in ClaimIds, AskFor(k) \/ PeerInvite(k) \/ Invite(k) \/ Backfill(k)
      PROVE  UNCHANGED vars /\ (ClaimsIdle \/ Opened(k))
  BY <1>1, RequestOpens DEF AskFor, PeerInvite, Invite, Backfill, ClaimsIdle
<1>2. ASSUME NEW k \in ClaimIds, InviteCutShort(k)
      PROVE  UNCHANGED vars /\ ClaimsIdle
  BY <1>2 DEF InviteCutShort, ClaimsIdle
<1>3. ASSUME NEW k \in ClaimIds, NEW to \in {"rejected", "ended"},
             Refuse(k, to) \/ RefuseCutShort(k, to)
      PROVE  UNCHANGED vars /\ Refused(k)
  <2>1. CASE Refuse(k, to)
    <3>1. claim' = [claim EXCEPT ![k] = [state |-> to, row |-> "rejected"]]
      BY <2>1 DEF Refuse, Waiting, Close, ClaimTypeOK
    <3> QED
      BY <2>1, <3>1 DEF Refuse, RefusedAs, Refused
  <2>2. CASE RefuseCutShort(k, to)
    <3>0. [claim[k] EXCEPT !.state = to] = [state |-> to, row |-> "pending"]
      BY <2>2 DEF RefuseCutShort, Waiting
    <3>1. claim' = [claim EXCEPT ![k] = [state |-> to, row |-> "pending"]]
      BY <2>2, <3>0 DEF RefuseCutShort
    <3> QED
      BY <2>2, <3>1 DEF RefuseCutShort, RefusedAs, Refused
  <2> QED
    BY <1>3, <2>1, <2>2
<1>4. ASSUME NEW k \in ClaimIds,
             ApproveClaim(k) \/ EndClaim(k) \/ \E h \in Handles : SetHandle(k, h)
      PROVE  UNCHANGED vars /\ ClaimMoves(k)
  BY <1>4 DEF ApproveClaim, EndClaim, SetHandle, ClaimMoves
<1>5. MonthPasses => UNCHANGED vars
  BY DEF MonthPasses
<1>6. GraphStep => OtherStep /\ UNCHANGED claimVars
  BY DEF GraphStep
<1> QED
  BY <1>1, <1>2, <1>3, <1>4, <1>5, <1>6 DEF ClaimsNext, ClaimMoves

\* The composition takes no step that Review does not.
LEMMA GraphNext ==
  ASSUME ClaimTypeOK, [ClaimsNext]_allVars
  PROVE  [Next]_vars
<1>1. CASE ClaimsNext
  <2>1. \A f, i \in Nodes : MergePages(f, i) => MergeNodes(f, i)
    BY DEF MergePages
  <2> QED
    BY <1>1, <2>1, ClaimSteps DEF Next
<1>2. CASE UNCHANGED allVars
  BY <1>2 DEF allVars
<1> QED
  BY <1>1, <1>2

-----------------------------------------------------------------------------
(* Types.                                                                  *)

LEMMA AskParts ==
  ASSUME NEW k \in ClaimIds
  PROVE  /\ Who(k) \in People /\ Page(k) \in Nodes
         /\ Asks[k].handle \in Handles \cup {NoHandle}
         /\ Asks[k].named \in BOOLEAN
  BY ClaimsAssumption DEF Who, Page, AskType

LEMMA PublicFaceIsFace ==
  ASSUME ClaimTypeOK, NEW n \in Nodes, NEW c, NEW given \in Handles \cup {NoHandle}
  PROVE  PublicFace(n, c, given) \in Face
<1>1. ApprovedIn(c, n) \subseteq ClaimIds
  BY DEF ApprovedIn
<1>2. face[n] \in Face
  BY DEF ClaimTypeOK
<1>3. FaceOf(n, ApprovedIn(c, n), given) \in Face
  <2>1. {Who(k) : k \in {l \in ApprovedIn(c, n) : Asks[l].named}} \subseteq People
    BY <1>1, AskParts
  <2> QED
    BY <1>2, <2>1 DEF FaceOf, Face
<1> QED
  BY <1>3 DEF PublicFace, Faceless, Face

\* The handle an approval brings with it.
Given(k) == IF Asks[k].handle # NoHandle /\ Free(Asks[k].handle, Page(k))
            THEN Asks[k].handle ELSE NoHandle

LEMMA TakeParts ==
  ASSUME ClaimTypeOK, NEW k \in ClaimIds, NEW row \in {"none", "approved"}, Take(k, row)
  PROVE  /\ Given(k) \in Handles \cup {NoHandle}
         /\ Given(k) # NoHandle => Free(Given(k), Page(k))
         /\ claim' = [claim EXCEPT ![k] = [state |-> "approved", row |-> row]]
         /\ alias' = [g \in Handles |-> IF g = Given(k) THEN Page(k) ELSE alias[g]]
         /\ face' = [face EXCEPT ![Page(k)] = PublicFace(Page(k), claim', Given(k))]
  BY AskParts DEF Take, Given

LEMMA TakeTyped ==
  ASSUME ClaimTypeOK, NEW k \in ClaimIds, NEW row \in {"none", "approved"}, Take(k, row)
  PROVE  /\ claim' \in [ClaimIds -> ClaimRow]
         /\ face' \in [Nodes -> Face]
         /\ alias' \in [Handles -> Nodes \cup {NoNode}]
<1>1. [state |-> "approved", row |-> row] \in ClaimRow
  BY DEF ClaimRow
<1>2. PublicFace(Page(k), claim', Given(k)) \in Face
  BY TakeParts, AskParts, PublicFaceIsFace
<1> QED
  BY <1>1, <1>2, TakeParts, AskParts DEF ClaimTypeOK

LEMMA EndedTyped ==
  ASSUME ClaimTypeOK, NEW k \in ClaimIds, EndClaim(k)
  PROVE  /\ claim' \in [ClaimIds -> ClaimRow]
         /\ claim'[k].state = "ended" /\ claim'[k].row \in {"none", "approved", "rejected"}
         /\ claim'[k].row = "approved" => claim[k].row = "approved"
         /\ \A l \in ClaimIds : l # k => claim'[l] = claim[l]
<1>1. claim[k] \in ClaimRow
  BY DEF ClaimTypeOK
<1>2. claim' = [claim EXCEPT ![k] = [state |-> "ended",
                                     row |-> IF claim[k].row = "pending" THEN "rejected"
                                             ELSE claim[k].row]]
  BY DEF EndClaim, Close, ClaimTypeOK
<1> QED
  BY <1>1, <1>2 DEF ClaimTypeOK, ClaimRow

LEMMA RowsTyped ==
  ASSUME ClaimTypeOK, ClaimsNext
  PROVE  /\ claim' \in [ClaimIds -> ClaimRow]
         /\ face' \in [Nodes -> Face]
         /\ alias' \in [Handles -> Nodes \cup {NoNode}]
<1>1. CASE ClaimsIdle \/ UNCHANGED claimVars
  BY <1>1 DEF ClaimsIdle, claimVars, ClaimTypeOK
<1>2. ASSUME NEW k \in ClaimIds, Opened(k)
      PROVE  /\ claim' \in [ClaimIds -> ClaimRow]
             /\ face' \in [Nodes -> Face]
             /\ alias' \in [Handles -> Nodes \cup {NoNode}]
  <2>1. CASE Wait(k)
    BY <2>1 DEF Wait, ClaimTypeOK, ClaimRow
  <2> QED
    BY <1>2, <2>1, TakeTyped DEF Opened
<1>3. ASSUME NEW k \in ClaimIds, ApproveClaim(k)
      PROVE  /\ claim' \in [ClaimIds -> ClaimRow]
             /\ face' \in [Nodes -> Face]
             /\ alias' \in [Handles -> Nodes \cup {NoNode}]
  BY <1>3, TakeTyped DEF ApproveClaim
<1>4. ASSUME NEW k \in ClaimIds, Refused(k)
      PROVE  /\ claim' \in [ClaimIds -> ClaimRow]
             /\ face' \in [Nodes -> Face]
             /\ alias' \in [Handles -> Nodes \cup {NoNode}]
  BY <1>4 DEF Refused, RefusedAs, ClaimTypeOK, ClaimRow
<1>5. ASSUME NEW k \in ClaimIds, EndClaim(k)
      PROVE  /\ claim' \in [ClaimIds -> ClaimRow]
             /\ face' \in [Nodes -> Face]
             /\ alias' \in [Handles -> Nodes \cup {NoNode}]
  <2>1. PublicFace(Page(k), claim', NoHandle) \in Face
    BY AskParts, PublicFaceIsFace
  <2> QED
    BY <1>5, <2>1, EndedTyped, AskParts DEF EndClaim, ClaimTypeOK
<1>6. ASSUME NEW k \in ClaimIds, NEW h \in Handles, SetHandle(k, h)
      PROVE  /\ claim' \in [ClaimIds -> ClaimRow]
             /\ face' \in [Nodes -> Face]
             /\ alias' \in [Handles -> Nodes \cup {NoNode}]
  <2>1. PublicFace(Page(k), claim, h) \in Face
    BY AskParts, PublicFaceIsFace
  <2> QED
    BY <1>6, <2>1, AskParts DEF SetHandle, ClaimTypeOK
<1>7. CASE MonthPasses
  BY <1>7 DEF MonthPasses, ClaimTypeOK, Face
<1>8. ASSUME NEW f \in Nodes, NEW i \in Nodes, MergePages(f, i)
      PROVE  /\ claim' \in [ClaimIds -> ClaimRow]
             /\ face' \in [Nodes -> Face]
             /\ alias' \in [Handles -> Nodes \cup {NoNode}]
  BY <1>8 DEF MergePages, Repointed, ClaimTypeOK
<1> QED
  BY <1>1, <1>2, <1>3, <1>4, <1>5, <1>6, <1>7, <1>8, ClaimSteps DEF ClaimMoves

LEMMA InvitesTyped ==
  ASSUME ClaimTypeOK, ClaimsNext
  PROVE  self' \in [People -> Nodes \cup {NoNode}] /\ torn' \subseteq ClaimIds
<1>1. ASSUME NEW k \in ClaimIds, Invite(k) \/ InviteCutShort(k)
      PROVE  self' \in [People -> Nodes \cup {NoNode}] /\ torn' \subseteq ClaimIds
  BY <1>1, AskParts DEF Invite, InviteCutShort, ClaimTypeOK
<1>2. ASSUME NEW k \in ClaimIds, AskFor(k) \/ PeerInvite(k) \/ Backfill(k) \/ ApproveClaim(k)
                                   \/ EndClaim(k) \/ \E h \in Handles : SetHandle(k, h)
      PROVE  UNCHANGED <<self, torn>>
  BY <1>2 DEF AskFor, PeerInvite, Backfill, ApproveClaim, EndClaim, SetHandle
<1>3. ASSUME NEW k \in ClaimIds, NEW to, Refuse(k, to) \/ RefuseCutShort(k, to)
      PROVE  self' = self /\ torn' \subseteq ClaimIds
  BY <1>3 DEF Refuse, RefuseCutShort, ClaimTypeOK
<1>4. CASE MonthPasses \/ GraphStep
  BY <1>4 DEF MonthPasses, GraphStep, claimVars, ClaimTypeOK
<1>5. ASSUME NEW f \in Nodes, NEW i \in Nodes, MergePages(f, i)
      PROVE  self' \in [People -> Nodes \cup {NoNode}] /\ torn' \subseteq ClaimIds
  BY <1>5 DEF MergePages, ClaimTypeOK
<1> QED
  BY <1>1, <1>2, <1>3, <1>4, <1>5 DEF ClaimsNext, ClaimTypeOK

LEMMA ClaimTypeNext == ClaimTypeOK /\ [ClaimsNext]_allVars => ClaimTypeOK'
<1>1. CASE UNCHANGED allVars
  BY <1>1 DEF allVars, claimVars, ClaimTypeOK
<1> QED
  BY <1>1, RowsTyped, InvitesTyped DEF ClaimTypeOK

-----------------------------------------------------------------------------
(* Faces.                                                                  *)

\* A page whose face is derived anew shows its claims; the others' claims
\* have not moved, and the handle given is none of theirs.
LEMMA FaceDerived ==
  ASSUME ClaimTypeOK, FacesAreTrue,
         NEW n \in Nodes, NEW given \in Handles \cup {NoHandle},
         face' = [face EXCEPT ![n] = PublicFace(n, claim', given)],
         \A m \in Nodes : m # n => ApprovedIn(claim', m) = ApprovedIn(claim, m),
         \A h \in Handles : alias'[h] = IF h = given THEN n ELSE alias[h],
         given # NoHandle => Free(given, n)
  PROVE  FacesAreTrue'
<1> SUFFICES ASSUME NEW m \in Nodes
             PROVE  /\ face'[m].shown <=> ApprovedIn(claim', m) # {}
                    /\ face'[m].by = {Who(k) : k \in {l \in ApprovedIn(claim', m) : Asks[l].named}}
                    /\ face'[m].handle # NoHandle =>
                         face'[m].shown /\ alias'[face'[m].handle] = m
  BY DEF FacesAreTrue, Approved
<1>0. face[m] \in Face /\ face[n] \in Face
  BY DEF ClaimTypeOK
<1>1. CASE m = n
  <2>1. face'[m] = PublicFace(n, claim', given)
    BY <1>1 DEF ClaimTypeOK
  <2>2. CASE ApprovedIn(claim', n) = {}
    BY <1>1, <2>1, <2>2 DEF PublicFace, Faceless
  <2>3. CASE ApprovedIn(claim', n) # {}
    <3>1. face'[m] = FaceOf(n, ApprovedIn(claim', n), given)
      BY <2>1, <2>3 DEF PublicFace
    <3>2. face'[m].handle # NoHandle => alias'[face'[m].handle] = m
      BY <1>0, <1>1, <3>1 DEF FaceOf, Face, FacesAreTrue
    <3> QED
      BY <1>1, <2>3, <3>1, <3>2 DEF FaceOf
  <2> QED
    BY <2>2, <2>3
<1>2. CASE m # n
  <2>1. face'[m] = face[m] /\ ApprovedIn(claim', m) = ApprovedIn(claim, m)
    BY <1>2 DEF ClaimTypeOK
  <2>2. /\ face[m].shown <=> ApprovedIn(claim, m) # {}
        /\ face[m].by = {Who(k) : k \in {l \in ApprovedIn(claim, m) : Asks[l].named}}
        /\ face[m].handle # NoHandle => face[m].shown /\ alias[face[m].handle] = m
    BY DEF FacesAreTrue, Approved
  <2>3. face[m].handle # NoHandle => alias'[face[m].handle] = m
    BY <1>0, <1>2, <2>2, ReviewAssumption DEF Free, Face
  <2> QED
    BY <2>1, <2>2, <2>3
<1> QED
  BY <1>1, <1>2

\* A claim of one page has no part in what another shows.
LEMMA OtherPages ==
  ASSUME ClaimTypeOK, NEW k \in ClaimIds, \A l \in ClaimIds : l # k => claim'[l] = claim[l],
         NEW m \in Nodes, m # Page(k)
  PROVE  ApprovedIn(claim', m) = ApprovedIn(claim, m)
  BY DEF ApprovedIn

\* Where no claim begins or stops being approved, the pages stay true.
LEMMA FacesIdle ==
  ASSUME FacesAreTrue, UNCHANGED <<face, alias>>,
         \A k \in ClaimIds : claim'[k].state = "approved" <=> claim[k].state = "approved"
  PROVE  FacesAreTrue'
<1>1. \A n \in Nodes : ApprovedIn(claim', n) = ApprovedIn(claim, n)
  BY DEF ApprovedIn
<1> QED
  BY <1>1 DEF FacesAreTrue, Approved

LEMMA TakeFaces ==
  ASSUME ClaimTypeOK, FacesAreTrue, NEW k \in ClaimIds, NEW row \in {"none", "approved"},
         Take(k, row)
  PROVE  FacesAreTrue'
<1>1. \A l \in ClaimIds : l # k => claim'[l] = claim[l]
  BY TakeParts DEF ClaimTypeOK
<1>2. \A m \in Nodes : m # Page(k) => ApprovedIn(claim', m) = ApprovedIn(claim, m)
  BY <1>1, OtherPages
<1>3. \A h \in Handles : alias'[h] = IF h = Given(k) THEN Page(k) ELSE alias[h]
  BY TakeParts
<1> QED
  BY <1>2, <1>3, TakeParts, AskParts, FaceDerived

LEMMA MergeFaces ==
  ASSUME ClaimTypeOK, FacesAreTrue, NEW f \in Nodes, NEW i \in Nodes, MergePages(f, i)
  PROVE  FacesAreTrue'
<1>1. Approved(f) = {}
  BY DEF MergePages, Unclaimed, Standing, Approved, ApprovedIn
<1>2. \A n \in Nodes : face[n].handle # NoHandle =>
        alias'[face[n].handle] = alias[face[n].handle]
  BY <1>1 DEF FacesAreTrue, MergePages, Repointed, ClaimTypeOK, Face
<1>3. claim' = claim /\ face' = face
  BY DEF MergePages
<1> QED
  BY <1>2, <1>3 DEF FacesAreTrue, Approved

LEMMA FacesNext ==
  ASSUME ClaimTypeOK, FacesAreTrue, [ClaimsNext]_allVars
  PROVE  FacesAreTrue'
<1>1. CASE ClaimsIdle \/ UNCHANGED claimVars \/ UNCHANGED allVars
  BY <1>1, FacesIdle DEF ClaimsIdle, claimVars, allVars
<1>2. ASSUME NEW k \in ClaimIds, Opened(k)
      PROVE  FacesAreTrue'
  <2>1. CASE Wait(k)
    BY <1>2, <2>1, FacesIdle DEF Opened, Wait, ClaimTypeOK
  <2> QED
    BY <1>2, <2>1, TakeFaces DEF Opened
<1>3. ASSUME NEW k \in ClaimIds, ApproveClaim(k)
      PROVE  FacesAreTrue'
  BY <1>3, TakeFaces DEF ApproveClaim
<1>4. ASSUME NEW k \in ClaimIds, Refused(k)
      PROVE  FacesAreTrue'
  BY <1>4, FacesIdle DEF Refused, RefusedAs, Waiting, ClaimTypeOK
<1>5. ASSUME NEW k \in ClaimIds, EndClaim(k)
      PROVE  FacesAreTrue'
  <2>1. \A m \in Nodes : m # Page(k) => ApprovedIn(claim', m) = ApprovedIn(claim, m)
    BY <1>5, EndedTyped, OtherPages
  <2>2. \A h \in Handles : alias'[h] = IF h = NoHandle THEN Page(k) ELSE alias[h]
    BY <1>5, ClaimsAssumption DEF EndClaim
  <2> QED
    BY <1>5, <2>1, <2>2, AskParts, FaceDerived DEF EndClaim
<1>6. ASSUME NEW k \in ClaimIds, NEW h \in Handles, SetHandle(k, h)
      PROVE  FacesAreTrue'
  <2>1. \A g \in Handles : alias'[g] = IF g = h THEN Page(k) ELSE alias[g]
    BY <1>6 DEF SetHandle, ClaimTypeOK
  <2>2. claim' = claim /\ Free(h, Page(k))
        /\ face' = [face EXCEPT ![Page(k)] = PublicFace(Page(k), claim', h)]
    BY <1>6 DEF SetHandle
  <2> QED
    BY <2>1, <2>2, AskParts, FaceDerived
<1>7. CASE MonthPasses
  <2>1. \A n \in Nodes : /\ face'[n].shown = face[n].shown /\ face'[n].by = face[n].by
                         /\ face'[n].handle = face[n].handle
    BY <1>7 DEF MonthPasses, ClaimTypeOK, Face
  <2>2. claim' = claim /\ alias' = alias
    BY <1>7 DEF MonthPasses
  <2> QED
    BY <2>1, <2>2 DEF FacesAreTrue, Approved
<1> QED
  BY <1>1, <1>2, <1>3, <1>4, <1>5, <1>6, <1>7, MergeFaces, ClaimSteps DEF ClaimMoves

-----------------------------------------------------------------------------
(* Decisions.                                                              *)

\* One claim's row, and two claims of one page.
RowDecided(k) ==
  /\ claim[k].state = "pending" => claim[k].row = "pending"
  /\ claim[k].row = "pending" => claim[k].state = "pending" \/ k \in torn
  /\ claim[k].row = "approved" => claim[k].state \in {"approved", "ended"}
PairDecided(k, l) ==
  k # l /\ Standing(k) /\ Standing(l) /\ Page(k) = Page(l) =>
    /\ Who(k) # Who(l)
    /\ \/ NodeType[Page(k)] # "practitioner"
       \/ "approved" \notin {claim[k].state} \cap {claim[l].state}
       \/ "approved" \in {claim[k].row, claim[l].row}

LEMMA DecidedParts ==
  /\ ClaimsDecided <=> /\ \A k \in ClaimIds : RowDecided(k)
                       /\ \A k, l \in ClaimIds : PairDecided(k, l)
  /\ ClaimsDecided' <=> /\ \A k \in ClaimIds : RowDecided(k)'
                        /\ \A k, l \in ClaimIds : PairDecided(k, l)'
BY DEF ClaimsDecided, RowDecided, PairDecided

\* Where one claim moves, only its row and its pairs need a look.
LEMMA OneMoves ==
  ASSUME ClaimsDecided, torn \subseteq torn', NEW k \in ClaimIds,
         \A l \in ClaimIds : l # k => claim'[l] = claim[l],
         RowDecided(k)', \A l \in ClaimIds : PairDecided(k, l)'
  PROVE  ClaimsDecided'
<1>1. ASSUME NEW l \in ClaimIds, l # k
      PROVE  RowDecided(l)'
  BY <1>1, DecidedParts DEF RowDecided
<1>2. ASSUME NEW l \in ClaimIds
      PROVE  PairDecided(l, k)'
  BY <1>2 DEF PairDecided, Standing
<1>3. ASSUME NEW l \in ClaimIds, NEW m \in ClaimIds, l # k, m # k
      PROVE  PairDecided(l, m)'
  BY <1>3, DecidedParts DEF PairDecided, Standing
<1> QED
  BY <1>1, <1>2, <1>3, DecidedParts

LEMMA NoneMove ==
  ASSUME ClaimsDecided, torn \subseteq torn', claim' = claim
  PROVE  ClaimsDecided'
<1>1. ASSUME NEW k \in ClaimIds
      PROVE  RowDecided(k)'
  BY <1>1, DecidedParts DEF RowDecided
<1>2. ASSUME NEW k \in ClaimIds, NEW l \in ClaimIds
      PROVE  PairDecided(k, l)'
  BY <1>2, DecidedParts DEF PairDecided, Standing
<1> QED
  BY <1>1, <1>2, DecidedParts

\* A claim that no longer stands is in nobody's way.
LEMMA Fallen ==
  ASSUME ClaimsDecided, torn \subseteq torn', NEW k \in ClaimIds,
         \A l \in ClaimIds : l # k => claim'[l] = claim[l],
         RowDecided(k)', claim'[k].state \notin {"pending", "approved"}
  PROVE  ClaimsDecided'
BY OneMoves DEF PairDecided, Standing

LEMMA OpenedDecided ==
  ASSUME ClaimTypeOK, ClaimsDecided, NEW k \in ClaimIds, Opened(k)
  PROVE  ClaimsDecided'
<1>1. ASSUME NEW l \in ClaimIds, l # k, Standing(l), Page(l) = Page(k)
      PROVE  Who(l) # Who(k)
  BY <1>1 DEF Opened
<1>2. CASE Wait(k)
  <2>1. /\ claim'[k].state = "pending" /\ claim'[k].row = "pending"
        /\ \A l \in ClaimIds : l # k => claim'[l] = claim[l]
    BY <1>2 DEF Wait, ClaimTypeOK
  <2> QED
    BY <1>1, <2>1, OneMoves DEF Opened, RowDecided, PairDecided, Standing
<1>3. CASE Take(k, "none") /\ (NodeType[Page(k)] # "practitioner" \/ Approved(Page(k)) = {})
  <2>1. /\ claim'[k].state = "approved" /\ claim'[k].row = "none"
        /\ \A l \in ClaimIds : l # k => claim'[l] = claim[l]
    BY <1>3, TakeParts DEF ClaimTypeOK
  <2>2. RowDecided(k)'
    BY <2>1 DEF RowDecided
  <2>3. \A l \in ClaimIds : PairDecided(k, l)'
    BY <1>1, <1>3, <2>1 DEF PairDecided, Standing, Approved, ApprovedIn
  <2> QED
    BY <2>1, <2>2, <2>3, OneMoves DEF Opened
<1> QED
  BY <1>2, <1>3 DEF Opened

LEMMA ApprovedDecided ==
  ASSUME ClaimTypeOK, ClaimsDecided, NEW k \in ClaimIds, ApproveClaim(k)
  PROVE  ClaimsDecided'
<1>1. /\ claim'[k].state = "approved" /\ claim'[k].row = "approved"
      /\ \A l \in ClaimIds : l # k => claim'[l] = claim[l]
  BY TakeParts DEF ApproveClaim, ClaimTypeOK
<1>2. RowDecided(k)'
  BY <1>1 DEF RowDecided
<1>3. ASSUME NEW l \in ClaimIds
      PROVE  PairDecided(k, l)'
  <2>1. PairDecided(k, l) /\ Standing(k)
    BY DecidedParts DEF ApproveClaim, Waiting, Standing
  <2> QED
    BY <1>1, <2>1 DEF PairDecided, Standing
<1> QED
  BY <1>1, <1>2, <1>3, OneMoves DEF ApproveClaim

LEMMA DecidedNext ==
  ASSUME ClaimTypeOK, ClaimsDecided, [ClaimsNext]_allVars
  PROVE  ClaimsDecided'
<1>1. CASE ClaimsIdle \/ UNCHANGED claimVars \/ UNCHANGED allVars \/ MonthPasses
  BY <1>1, NoneMove DEF ClaimsIdle, MonthPasses, claimVars, allVars
<1>2. ASSUME NEW k \in ClaimIds, Refused(k)
      PROVE  ClaimsDecided'
  <2>1. PICK to \in {"rejected", "ended"}, row \in {"pending", "rejected"} : RefusedAs(k, to, row)
    BY <1>2 DEF Refused
  <2>2. /\ claim'[k].state = to /\ claim'[k].row = row
        /\ \A l \in ClaimIds : l # k => claim'[l] = claim[l]
    BY <2>1 DEF RefusedAs, ClaimTypeOK
  <2>3. RowDecided(k)'
    BY <2>1, <2>2 DEF RowDecided, RefusedAs
  <2> QED
    BY <2>1, <2>2, <2>3, Fallen DEF RefusedAs
<1>3. ASSUME NEW k \in ClaimIds, EndClaim(k)
      PROVE  ClaimsDecided'
  <2>1. RowDecided(k)'
    BY <1>3, EndedTyped DEF RowDecided
  <2> QED
    BY <1>3, <2>1, EndedTyped, Fallen DEF EndClaim
<1>4. ASSUME NEW k \in ClaimIds, NEW h \in Handles, SetHandle(k, h)
      PROVE  ClaimsDecided'
  BY <1>4, NoneMove DEF SetHandle
<1>5. ASSUME NEW f \in Nodes, NEW i \in Nodes, MergePages(f, i)
      PROVE  ClaimsDecided'
  BY <1>5, NoneMove DEF MergePages
<1> QED
  BY <1>1, <1>2, <1>3, <1>4, <1>5, OpenedDecided, ApprovedDecided, ClaimSteps DEF ClaimMoves

-----------------------------------------------------------------------------
(* Pages merged away.                                                      *)

\* A page that was merged into no other, or was brought back.
Here(n) == node[n].into = NoNode \/ BroughtBack(n)

\* A page with a standing claim is one of them.
LEMMA StandingUnmerged ==
  ASSUME MergedLeft, NEW k \in ClaimIds, Standing(k)
  PROVE  Here(Page(k))
BY AskParts DEF MergedLeft, Unclaimed, Here

\* A claim that begins to stand, or a handle given, is on such a page.
LEMMA LeftByClaims ==
  ASSUME MergedLeft, UNCHANGED <<node, queue, cut>>, NEW k \in ClaimIds, Here(Page(k)),
         \A l \in ClaimIds : l # k => claim'[l] = claim[l],
         \A h \in Handles : alias'[h] \in {alias[h], Page(k)}
  PROVE  MergedLeft'
<1> SUFFICES ASSUME NEW n \in Nodes, node[n].into # NoNode, ~BroughtBack(n)
             PROVE  Unclaimed(n)' /\ \A h \in Handles : alias'[h] # n
  BY DEF MergedLeft, BroughtBack
<1>1. Unclaimed(n) /\ (\A h \in Handles : alias[h] # n) /\ n # Page(k)
  BY DEF MergedLeft, Here
<1> QED
  BY <1>1 DEF Unclaimed, Standing

LEMMA MergedLeftNext ==
  ASSUME ClaimInv, [ClaimsNext]_allVars
  PROVE  MergedLeft'
<1> USE DEF ClaimInv
<1>0. \A n \in Nodes : BroughtBack(n) => BroughtBack(n)'
  BY GraphNext, BackStays
<1>1. CASE UNCHANGED vars /\ UNCHANGED <<claim, alias>>
  BY <1>1 DEF vars, MergedLeft, Unclaimed, Standing, BroughtBack
<1>2. ASSUME NEW k \in ClaimIds, UNCHANGED vars, Opened(k)
      PROVE  MergedLeft'
  <2>1. Here(Page(k))
    BY <1>2, AskParts DEF Opened, PagesOK, Here
  <2>2. CASE Wait(k)
    BY <1>2, <2>1, <2>2, LeftByClaims DEF vars, Wait, ClaimTypeOK
  <2>3. CASE Take(k, "none")
    BY <1>2, <2>1, <2>3, TakeParts, LeftByClaims DEF vars, ClaimTypeOK
  <2> QED
    BY <1>2, <2>2, <2>3 DEF Opened
<1>3. ASSUME NEW k \in ClaimIds, ApproveClaim(k)
      PROVE  MergedLeft'
  <2>1. Here(Page(k))
    BY <1>3, StandingUnmerged DEF ApproveClaim, Waiting, Standing
  <2> QED
    BY <1>3, <2>1, TakeParts, LeftByClaims DEF ApproveClaim, vars, ClaimTypeOK
<1>4. ASSUME NEW k \in ClaimIds, UNCHANGED vars, Refused(k)
      PROVE  MergedLeft'
  <2>1. Here(Page(k))
    BY <1>4, StandingUnmerged DEF Refused, RefusedAs, Waiting, Standing
  <2> QED
    BY <1>4, <2>1, LeftByClaims DEF Refused, RefusedAs, vars, ClaimTypeOK
<1>5. ASSUME NEW k \in ClaimIds, EndClaim(k)
      PROVE  MergedLeft'
  <2>1. Here(Page(k))
    BY <1>5, StandingUnmerged DEF EndClaim, Standing
  <2> QED
    BY <1>5, <2>1, EndedTyped, LeftByClaims DEF EndClaim, vars
<1>6. ASSUME NEW k \in ClaimIds, NEW h \in Handles, SetHandle(k, h)
      PROVE  MergedLeft'
  <2>1. Here(Page(k))
    BY <1>6, StandingUnmerged DEF SetHandle, Standing
  <2>2. \A g \in Handles : alias'[g] \in {alias[g], Page(k)}
    BY <1>6 DEF SetHandle, ClaimTypeOK
  <2> QED
    BY <1>6, <2>1, <2>2, LeftByClaims DEF SetHandle, vars
<1>7. ASSUME NEW f \in Nodes, NEW i \in Nodes, MergePages(f, i)
      PROVE  MergedLeft'
  <2>1. /\ f # i /\ Here(i)
        /\ \A n \in Nodes : n # f => node'[n] = node[n]
    BY <1>7, MergeMoves DEF MergePages, PagesOK, Here
  <2>2. Unclaimed(f)' /\ \A n \in Nodes : Unclaimed(n) => Unclaimed(n)'
    BY <1>7 DEF MergePages, Unclaimed, Standing
  <2>3. \A h \in Handles : alias'[h] = IF alias[h] = f THEN i ELSE alias[h]
    BY <1>7 DEF MergePages, Repointed
  <2> QED
    BY <1>0, <2>1, <2>2, <2>3 DEF MergedLeft, Here
<1>8. CASE OtherStep /\ UNCHANGED claimVars
  <2>1. \A n \in Nodes : node'[n].into = node[n].into
    BY <1>8, PagesStand
  <2> QED
    BY <1>0, <1>8, <2>1 DEF claimVars, MergedLeft, Unclaimed, Standing
<1>9. MonthPasses => UNCHANGED vars /\ UNCHANGED <<claim, alias>>
  BY DEF MonthPasses
<1>10. UNCHANGED vars /\ ClaimsIdle => MergedLeft'
  BY <1>1 DEF ClaimsIdle
<1>11. UNCHANGED allVars => MergedLeft'
  BY <1>1 DEF allVars, claimVars
<1> QED
  BY <1>1, <1>2, <1>3, <1>4, <1>5, <1>6, <1>7, <1>8, <1>9, <1>10, <1>11, ClaimSteps
     DEF ClaimMoves

\* Handles given before lead where they led, or along a merge.
LEMMA HandlesNext ==
  ASSUME ClaimInv, ClaimInv', [ClaimsNext]_allVars, NEW h \in Handles, NEW n \in Nodes
  PROVE  /\ alias[h] = NoNode /\ alias'[h] = n =>
              node'[n].into = NoNode \/ BroughtBack(n)'
         /\ alias[h] = n =>
              \/ alias'[h] = n /\ node'[n].into = node[n].into
              \/ /\ alias'[h] = node'[n].into /\ alias'[h] # n
                 /\ node[n].state = "live" /\ node'[n].state = "retired"
<1> USE DEF ClaimInv
<1>1. alias'[h] = n => node'[n].into = NoNode \/ BroughtBack(n)'
  BY DEF MergedLeft
<1>2. ASSUME alias[h] = n
      PROVE  \/ alias'[h] = n /\ node'[n].into = node[n].into
             \/ /\ alias'[h] = node'[n].into /\ alias'[h] # n
                /\ node[n].state = "live" /\ node'[n].state = "retired"
  <2>0. n # NoNode
    BY ReviewAssumption
  <2>1. ASSUME NEW f \in Nodes, NEW i \in Nodes, MergePages(f, i)
        PROVE  \/ alias'[h] = n /\ node'[n].into = node[n].into
               \/ /\ alias'[h] = node'[n].into /\ alias'[h] # n
                  /\ node[n].state = "live" /\ node'[n].state = "retired"
    <3>1. /\ f # i /\ node[f].state = "live"
          /\ node'[f].into = i /\ node'[f].state = "retired"
          /\ n # f => node'[n] = node[n]
      BY <2>1, MergeMoves DEF MergePages
    <3>2. alias'[h] = IF n = f THEN i ELSE n
      BY <1>2, <2>1 DEF MergePages, Repointed
    <3> QED
      BY <3>1, <3>2
  <2>2. CASE OtherStep /\ UNCHANGED claimVars
    BY <1>2, <2>2, PagesStand DEF claimVars
  <2>3. ASSUME NEW k \in ClaimIds, ClaimMoves(k)
        PROVE  alias'[h] = n
    <3>1. ASSUME NEW row \in {"none", "approved"}, Take(k, row)
          PROVE  alias'[h] = n
      <4>1. /\ alias'[h] = IF h = Given(k) THEN Page(k) ELSE alias[h]
            /\ Given(k) # NoHandle => Free(Given(k), Page(k))
        BY <3>1, TakeParts
      <4> QED
        BY <1>2, <2>0, <4>1, ClaimsAssumption DEF Free
    <3>2. CASE \E g \in Handles : SetHandle(k, g)
      BY <1>2, <2>0, <3>2 DEF SetHandle, Free, ClaimTypeOK
    <3>3. CASE Refused(k) \/ EndClaim(k) \/ Wait(k)
      BY <1>2, <3>3 DEF Refused, RefusedAs, EndClaim, Wait
    <3> QED
      BY <2>3, <3>1, <3>2, <3>3 DEF ClaimMoves, Opened, ApproveClaim
  <2>4. CASE UNCHANGED vars /\ UNCHANGED alias
    BY <1>2, <2>4 DEF vars
  <2>5. \/ OtherStep /\ UNCHANGED claimVars
        \/ \E f, i \in Nodes : MergePages(f, i)
        \/ UNCHANGED vars /\ UNCHANGED alias
        \/ UNCHANGED vars /\ \E k \in ClaimIds : ClaimMoves(k)
    BY ClaimSteps DEF ClaimsIdle, MonthPasses, allVars, claimVars
  <2> QED
    BY <2>1, <2>2, <2>3, <2>4, <2>5 DEF vars
<1> QED
  BY <1>1, <1>2

-----------------------------------------------------------------------------
(* The theorems.                                                           *)

LEMMA ClaimsStart == ClaimsInit => ClaimInv
<1> SUFFICES ASSUME ClaimsInit PROVE ClaimInv
  OBVIOUS
<1>1. PrivacyInv /\ \A n \in Nodes : node[n].into = NoNode
  BY PrivacyInit DEF ClaimsInit, Init
<1>2. \A k \in ClaimIds : claim[k] = [state |-> "none", row |-> "none"]
  BY DEF ClaimsInit
<1>3. ClaimTypeOK
  BY DEF ClaimsInit, ClaimTypeOK, ClaimRow, Faceless, Face
<1>4. FacesAreTrue
  <2>1. \A n \in Nodes : Approved(n) = {}
    BY <1>2 DEF Approved, ApprovedIn
  <2> QED
    BY <2>1 DEF FacesAreTrue, ClaimsInit, Faceless
<1>5. ClaimsDecided
  BY <1>2 DEF ClaimsDecided, Standing
<1> QED
  BY <1>1, <1>3, <1>4, <1>5 DEF ClaimInv, PagesOK, MergedLeft

LEMMA ClaimInvNext == ClaimInv /\ [ClaimsNext]_allVars => ClaimInv'
<1> SUFFICES ASSUME ClaimInv, [ClaimsNext]_allVars PROVE ClaimInv'
  OBVIOUS
<1>1. PrivacyInv /\ PagesOK /\ ClaimTypeOK /\ FacesAreTrue /\ ClaimsDecided
  BY DEF ClaimInv
<1>2. [Next]_vars
  BY <1>1, GraphNext
<1> QED
  BY <1>1, <1>2, PrivacyNext, PagesNext, ClaimTypeNext, FacesNext, DecidedNext, MergedLeftNext
     DEF ClaimInv

THEOREM ClaimInvariant == ClaimsSpec => []ClaimInv
  BY ClaimsStart, ClaimInvNext, PTL DEF ClaimsSpec

\* The rows of claims, pages, handles and invites keep their types.
THEOREM ClaimsTyped == ClaimsSpec => []ClaimTypeOK
<1>1. ClaimInv => ClaimTypeOK
  BY DEF ClaimInv
<1> QED
  BY <1>1, ClaimInvariant, PTL

\* Claims change nothing Review says of contributions, signals and pages: what
\* is proved of Spec holds of pages that are claimed and claims that are moved.
THEOREM ClaimsKeepReview == ClaimsSpec => Spec
<1>1. ClaimsInit => Init
  BY DEF ClaimsInit
<1>2. ClaimTypeOK /\ [ClaimsNext]_allVars => [Next]_vars
  BY GraphNext
<1> QED
  BY <1>1, <1>2, ClaimsTyped, PTL DEF ClaimsSpec, Spec

\* So all that is proved of Review holds while pages are claimed, handles given and
\* claims carried along by merges: what is due to be private is, what is not is
\* public, decisions are whole and stand, and no merge loses a relation.
THEOREM ClaimsKeepTheRecord ==
  ClaimsSpec => /\ [](WithheldIsPrivate /\ PublishedIsPublic /\ NeverInConflict)
                /\ [](AppliedWhole /\ ObjectionsFollow)
                /\ DecidedOnce /\ HistoryStands /\ MergeKeepsRelations /\ PrivacyKept
<1>1. Spec => [](WithheldIsPrivate /\ PublishedIsPublic /\ NeverInConflict)
  BY WithheldStaysPrivate, PublishedStaysPublic, NothingConflicts, PTL
<1>2. Spec => [](AppliedWhole /\ ObjectionsFollow)
  BY ApprovalsAreWhole, ObjectionsAreSettled, PTL
<1> QED
  BY <1>1, <1>2, ClaimsKeepReview, ItemsDecidedForGood, GraphHistoryStands, MergesKeepRelations,
     PrivacyIsKept

\* A page shows who claims it, all who let it and nobody else, and a handle
\* that leads to it, in every order of claims, ends, handles and merges.
THEOREM FacesStayTrue == ClaimsSpec => []FacesAreTrue
<1>1. ClaimInv => FacesAreTrue
  BY DEF ClaimInv
<1> QED
  BY <1>1, ClaimInvariant, PTL

\* No claim waits without a row to decide it, a person has one claim on a page
\* that stands, and no practitioner has two claimants without a curator's word.
THEOREM ClaimsStayDecided == ClaimsSpec => []ClaimsDecided
<1>1. ClaimInv => ClaimsDecided
  BY DEF ClaimInv
<1> QED
  BY <1>1, ClaimInvariant, PTL

\* A handle once given leads to its page, or, from the step that merges that
\* page away, to the one it is merged into; it is never given to a page merged
\* away that no patch brought back.
THEOREM HandlesStayPut == ClaimsSpec => HandlesStay
<1>1. ClaimInv /\ ClaimInv' /\ [ClaimsNext]_allVars =>
        [\A h \in Handles, n \in Nodes :
           /\ alias[h] = NoNode /\ alias'[h] = n =>
                node'[n].into = NoNode \/ BroughtBack(n)'
           /\ alias[h] = n =>
                \/ alias'[h] = n /\ node'[n].into = node[n].into
                \/ /\ alias'[h] = node'[n].into /\ alias'[h] # n
                   /\ node[n].state = "live" /\ node'[n].state = "retired"]_allVars
  BY HandlesNext
<1> QED
  BY <1>1, ClaimInvariant, PTL DEF ClaimsSpec, HandlesStay
=============================================================================
