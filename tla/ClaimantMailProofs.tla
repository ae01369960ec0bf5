-------------------------- MODULE ClaimantMailProofs --------------------------
(***************************************************************************)
(* What the delivery of mail keeps true, for any number of events, people, *)
(* processes and attempts, with crashes and stalls anywhere: no second     *)
(* email, no event lost, nothing sent that is no longer true.              *)
(***************************************************************************)
EXTENDS ClaimantMail, FiniteSetTheorems, TLAPS

\* A row that is not in use is blank; a request is frozen before its attempt;
\* what the provider got was attempted, and it forgets only what is old.
RowsOK ==
  \A b \in Batches :
    /\ batch[b].state = "none" => batch[b] = NewRow
    /\ batch[b].state # "none" => batch[b].who # NoOne
    /\ batch[b].to = "none" => batch[b].lines = NoLines
    /\ batch[b].attempts > 0 => batch[b].to # "none"
    /\ mailed[b] <= 1 /\ (key[b] => mailed[b] > 0)
    /\ mailed[b] > 0 => batch[b].attempts > 0
    /\ mailed[b] > 0 /\ ~key[b] => batch[b].old

\* A pass that still has its lease has read what stands; one that waits for the
\* provider waits for a request the provider would know again.
PassesOK ==
  \A p \in Passes :
    /\ \A b \in pass[p].mine : batch[b].state # "none"
    /\ pass[p].at \in {"checking", "waiting"} =>
         pass[p].on \in Batches /\ batch[pass[p].on].state # "none"
    /\ pass[p].at = "checking" =>
         /\ Holds(p, pass[p].on) =>
              /\ pass[p].read.who = batch[pass[p].on].who
              /\ pass[p].read.attempts = batch[pass[p].on].attempts
              /\ pass[p].read.lines = batch[pass[p].on].lines
              /\ pass[p].read.to = batch[pass[p].on].to
         /\ \A e \in Events : inBatch[e] = pass[p].on /\ delivery[e] = "reserved" => e \in pass[p].members
    /\ pass[p].at = "waiting" =>
         /\ batch[pass[p].on].attempts > 0
         /\ mailed[pass[p].on] > 0 => key[pass[p].on]

\* The batches an event is in, was frozen in, or was read in.
ClaimedBy(e, b) ==
  \/ batch[b].lines[e] # "none"
  \/ inBatch[e] = b
  \/ \E p \in Passes : pass[p].on = b /\ e \in pass[p].members

\* They are one batch, and an event in one is never taken for another.
ClaimsOK ==
  \A e \in Events :
    /\ \A b, c \in Batches : ClaimedBy(e, b) /\ ClaimedBy(e, c) => b = c
    /\ \A b \in Batches : ClaimedBy(e, b) => delivery[e] # "none"

\* What is attempted has a line for every event that is delivered with it.
LinesOK ==
  \A e \in Events, b \in Batches :
    batch[b].attempts > 0 /\ inBatch[e] = b /\ delivery[e] = "reserved" => batch[b].lines[e] # "none"

MailInv == MailTypeOK /\ RowsOK /\ PassesOK /\ ClaimsOK /\ LinesOK /\ DeliveriesAccounted

\* What a step leaves of a request and of an outcome, and what it may attempt.
Steady(b) ==
  /\ IsFrozen(batch[b]) => batch'[b].lines = batch[b].lines /\ batch'[b].to = batch[b].to
  /\ batch[b].state \in Ends => batch'[b].state = batch[b].state
Honest(b) ==
  batch'[b].attempts > batch[b].attempts =>
    /\ \A e \in Events : batch'[b].lines[e] # "none" => StillTrue(e, batch'[b].lines[e])
    /\ mode[batch[b].who] # "off"
    /\ box[batch[b].who] = batch'[b].to
Kept == \A b \in Batches : Steady(b) /\ Honest(b)

-----------------------------------------------------------------------------
(* Steps that bind and freeze nothing.                                     *)

\* Rows stay as they are but for lease, age and outcome.
Lasting(b) ==
  /\ batch'[b].who = batch[b].who /\ batch'[b].attempts = batch[b].attempts
  /\ batch'[b].lines = batch[b].lines /\ batch'[b].to = batch[b].to
  /\ batch[b].old => batch'[b].old
  /\ batch[b].state = "none" => batch'[b] = batch[b]
  /\ batch[b].state # "none" => batch'[b].state # "none"
  /\ batch'[b].state = "reserved" => batch[b].state = "reserved"
  /\ \/ batch'[b].state = batch[b].state
     \/ /\ batch[b].state = "reserved"
        /\ \A e \in Events : inBatch'[e] = b => delivery'[e] # "reserved"

\* Deliveries stay, or are settled, or leave their batch settled.
Settling(e) ==
  \/ delivery'[e] = delivery[e] /\ inBatch'[e] = inBatch[e]
  \/ /\ delivery'[e] \notin {"none", "reserved"}
     /\ inBatch'[e] \in {inBatch[e], NoBatch}
     /\ delivery'[e] = "sent" => /\ delivery[e] = "reserved" /\ inBatch'[e] = inBatch[e]
                                 /\ batch[inBatch[e]].attempts > 0
                                 /\ mailed'[inBatch[e]] > 0

\* A pass takes up a batch of its own, and reads it.
Taking(p) ==
  LET b == pass'[p].on
      r == pass'[p].read
  IN  /\ pass'[p].at = "checking" /\ pass'[p].mine = pass[p].mine
      /\ b \in Batches /\ batch'[b].state = "reserved"
      /\ r.who = batch'[b].who /\ r.attempts = batch'[b].attempts
      /\ r.lines = batch'[b].lines /\ r.to = batch'[b].to
      /\ pass'[p].members = {e \in Events : inBatch[e] = b /\ delivery[e] = "reserved"}

\* Passes stay, with no lease they had not, or leave their batch.
Passing(p) ==
  \/ Taking(p)
  \/ pass'[p] = pass[p] /\ \A b \in Batches : batch'[b].owner = p => batch[b].owner = p
  \/ /\ pass'[p].at \notin {"checking", "waiting"}
     /\ pass'[p].mine \subseteq pass[p].mine
     /\ \/ pass'[p].members = {}
        \/ pass'[p].members = pass[p].members /\ pass'[p].on = pass[p].on

\* The provider stays as it is, gets a request, or forgets an old key.
Providing(b) ==
  \/ key'[b] = key[b] /\ mailed'[b] = mailed[b]
  \/ /\ batch[b].attempts > 0 /\ (mailed[b] > 0 => key[b])
     /\ key'[b] = TRUE /\ mailed'[b] = IF key[b] THEN mailed[b] ELSE mailed[b] + 1
  \/ /\ key'[b] = FALSE /\ mailed'[b] = mailed[b] /\ batch[b].old
     /\ \A p \in Passes : pass'[p].at = "waiting" => pass'[p].on # b

LEMMA EvolveInv ==
  ASSUME MailInv, MailTypeOK',
         \A b \in Batches : Lasting(b) /\ Providing(b),
         \A e \in Events : Settling(e),
         \A p \in Passes : Passing(p)
  PROVE  MailInv' /\ Kept
<1>0. /\ \A b \in Batches : /\ mailed[b] \in Nat /\ key[b] \in BOOLEAN
                            /\ batch[b].attempts \in Nat /\ b # NoBatch
      /\ inBatch \in [Events -> Batches \cup {NoBatch}]
  BY MailAssumption DEF MailInv, MailTypeOK, Row
<1>1. RowsOK'
  <2> SUFFICES ASSUME NEW b \in Batches
               PROVE  /\ batch'[b].state = "none" => batch'[b] = NewRow
                      /\ batch'[b].state # "none" => batch'[b].who # NoOne
                      /\ batch'[b].to = "none" => batch'[b].lines = NoLines
                      /\ batch'[b].attempts > 0 => batch'[b].to # "none"
                      /\ mailed'[b] <= 1 /\ (key'[b] => mailed'[b] > 0)
                      /\ mailed'[b] > 0 => batch'[b].attempts > 0
                      /\ mailed'[b] > 0 /\ ~key'[b] => batch'[b].old
    BY DEF RowsOK
  <2>1. Lasting(b) /\ Providing(b)
    OBVIOUS
  <2>2. /\ batch[b].state = "none" => batch[b] = NewRow
        /\ batch[b].state # "none" => batch[b].who # NoOne
        /\ batch[b].to = "none" => batch[b].lines = NoLines
        /\ batch[b].attempts > 0 => batch[b].to # "none"
        /\ mailed[b] <= 1 /\ (key[b] => mailed[b] > 0)
        /\ mailed[b] > 0 => batch[b].attempts > 0
        /\ mailed[b] > 0 /\ ~key[b] => batch[b].old
    BY DEF MailInv, RowsOK
  <2>3. /\ batch'[b].state = "none" => batch'[b] = NewRow
        /\ batch'[b].state # "none" => batch'[b].who # NoOne
        /\ batch'[b].to = "none" => batch'[b].lines = NoLines
        /\ batch'[b].attempts > 0 => batch'[b].to # "none"
    BY <2>1, <2>2 DEF Lasting
  <2>4. /\ mailed'[b] <= 1 /\ (key'[b] => mailed'[b] > 0)
        /\ mailed'[b] > 0 => batch[b].attempts > 0
        /\ mailed'[b] > 0 /\ ~key'[b] => batch[b].old
    BY <1>0, <2>1, <2>2 DEF Providing
  <2> QED  BY <2>1, <2>3, <2>4 DEF Lasting
<1>2. PassesOK'
  <2> SUFFICES ASSUME NEW p \in Passes
               PROVE  /\ \A b \in pass'[p].mine : batch'[b].state # "none"
                      /\ pass'[p].at \in {"checking", "waiting"} =>
                           pass'[p].on \in Batches /\ batch'[pass'[p].on].state # "none"
                      /\ pass'[p].at = "checking" =>
                           /\ Holds(p, pass[p].on)' =>
                                /\ pass'[p].read.who = batch'[pass'[p].on].who
                                /\ pass'[p].read.attempts = batch'[pass'[p].on].attempts
                                /\ pass'[p].read.lines = batch'[pass'[p].on].lines
                                /\ pass'[p].read.to = batch'[pass'[p].on].to
                           /\ \A e \in Events : inBatch'[e] = pass'[p].on /\ delivery'[e] = "reserved"
                                                  => e \in pass'[p].members
                      /\ pass'[p].at = "waiting" =>
                           /\ batch'[pass'[p].on].attempts > 0
                           /\ mailed'[pass'[p].on] > 0 => key'[pass'[p].on]
    BY DEF PassesOK
  <2>1. pass[p].mine \subseteq Batches /\ Passing(p)
    BY DEF MailInv, MailTypeOK, PassRow
  <2>2. \A b \in pass[p].mine : batch[b].state # "none"
    BY DEF MailInv, PassesOK
  <2>3. \A b \in pass'[p].mine : batch'[b].state # "none"
    BY <2>1, <2>2 DEF Passing, Taking, Lasting
  <2>4. CASE Taking(p)
    <3>1. \A e \in Events : inBatch'[e] = pass'[p].on /\ delivery'[e] = "reserved"
                             => e \in pass'[p].members
      BY <2>4, MailAssumption DEF Taking, Settling
    <3> QED  BY <2>3, <2>4, <3>1 DEF Taking
  <2>5. CASE pass'[p].at \notin {"checking", "waiting"}
    BY <2>3, <2>5
  <2>6. CASE pass'[p].at \in {"checking", "waiting"} /\ ~Taking(p)
    <3>1. pass'[p] = pass[p] /\ \A b \in Batches : batch'[b].owner = p => batch[b].owner = p
      BY <2>1, <2>6 DEF Passing
    <3>2. pass[p].on \in Batches /\ batch[pass[p].on].state # "none"
      BY <2>6, <3>1 DEF MailInv, PassesOK
    <3> DEFINE b == pass[p].on
    <3>3. Lasting(b) /\ Providing(b)
      BY <3>2
    <3>4. ASSUME pass[p].at = "checking"
          PROVE  /\ Holds(p, b)' => /\ pass[p].read.who = batch'[b].who
                                    /\ pass[p].read.attempts = batch'[b].attempts
                                    /\ pass[p].read.lines = batch'[b].lines
                                    /\ pass[p].read.to = batch'[b].to
                 /\ \A e \in Events : inBatch'[e] = b /\ delivery'[e] = "reserved" => e \in pass[p].members
      <4>1. /\ Holds(p, b) => /\ pass[p].read.who = batch[b].who
                              /\ pass[p].read.attempts = batch[b].attempts
                              /\ pass[p].read.lines = batch[b].lines
                              /\ pass[p].read.to = batch[b].to
            /\ \A e \in Events : inBatch[e] = b /\ delivery[e] = "reserved" => e \in pass[p].members
        BY <3>4 DEF MailInv, PassesOK
      <4>2. batch'[b].state = "reserved" /\ batch'[b].owner = p => Holds(p, b)
        BY <3>1, <3>2, <3>3 DEF Holds, Lasting
      <4>3. Holds(p, b)' => batch'[b].state = "reserved" /\ batch'[b].owner = p
        BY <3>1 DEF Holds
      <4>4. \A e \in Events : inBatch'[e] = b /\ delivery'[e] = "reserved"
                                => inBatch[e] = b /\ delivery[e] = "reserved"
        BY DEF Settling
      <4> HIDE DEF b
      <4> QED  BY <3>3, <4>1, <4>2, <4>3, <4>4 DEF Lasting
    <3>5. ASSUME pass[p].at = "waiting"
          PROVE  batch'[b].attempts > 0 /\ (mailed'[b] > 0 => key'[b])
      <4>1. batch[b].attempts > 0 /\ (mailed[b] > 0 => key[b])
        BY <3>5 DEF MailInv, PassesOK
      <4>2. pass'[p].at = "waiting" /\ pass'[p].on = b
        BY <3>1, <3>5
      <4> HIDE DEF b
      <4> QED  BY <3>3, <4>1, <4>2 DEF Lasting, Providing
    <3>6. batch'[b].state # "none"
      BY <3>2, <3>3 DEF Lasting
    <3> QED  BY <2>3, <3>1, <3>2, <3>4, <3>5, <3>6 DEF Holds
  <2> QED  BY <2>4, <2>5, <2>6
<1>3. \A e \in Events, b \in Batches : ClaimedBy(e, b)' => ClaimedBy(e, b)
  <2> SUFFICES ASSUME NEW e \in Events, NEW b \in Batches, ClaimedBy(e, b)' PROVE ClaimedBy(e, b)
    OBVIOUS
  <2>1. CASE batch'[b].lines[e] # "none"
    BY <2>1 DEF Lasting, ClaimedBy
  <2>2. CASE inBatch'[e] = b
    BY <1>0, <2>2 DEF Settling, ClaimedBy
  <2>3. ASSUME NEW p \in Passes, pass'[p].on = b, e \in pass'[p].members PROVE ClaimedBy(e, b)
    <3>1. CASE Taking(p)
      BY <2>3, <3>1 DEF Taking, ClaimedBy
    <3>2. CASE ~Taking(p)
      BY <2>3, <3>2 DEF Passing, ClaimedBy
    <3> QED  BY <3>1, <3>2
  <2> QED  BY <2>1, <2>2, <2>3 DEF ClaimedBy
<1>4. ClaimsOK'
  <2>1. \A e \in Events : delivery[e] # "none" => delivery'[e] # "none"
    BY DEF Settling
  <2>2. ASSUME NEW e \in Events, NEW b \in Batches, NEW c \in Batches, ClaimedBy(e, b)', ClaimedBy(e, c)'
        PROVE  b = c
    BY <1>3, <2>2 DEF MailInv, ClaimsOK
  <2>3. ASSUME NEW e \in Events, NEW b \in Batches, ClaimedBy(e, b)' PROVE delivery'[e] # "none"
    BY <1>3, <2>1, <2>3 DEF MailInv, ClaimsOK
  <2> QED  BY <2>2, <2>3 DEF ClaimsOK
<1>5. LinesOK'
  <2> SUFFICES ASSUME NEW e \in Events, NEW b \in Batches, batch'[b].attempts > 0,
                      inBatch'[e] = b, delivery'[e] = "reserved"
               PROVE  batch'[b].lines[e] # "none"
    BY DEF LinesOK
  <2>1. inBatch[e] = b /\ delivery[e] = "reserved"
    BY DEF Settling
  <2> QED  BY <2>1 DEF MailInv, LinesOK, Lasting
<1>6. DeliveriesAccounted'
  <2> SUFFICES ASSUME NEW e \in Events
               PROVE  /\ delivery'[e] = "reserved" => /\ inBatch'[e] \in Batches
                                                      /\ batch'[inBatch'[e]].state = "reserved"
                      /\ delivery'[e] = "sent" => /\ inBatch'[e] \in Batches /\ mailed'[inBatch'[e]] > 0
                                                  /\ batch'[inBatch'[e]].lines[e] # "none"
    BY DEF DeliveriesAccounted, Mailed
  <2>1. /\ delivery[e] = "reserved" => inBatch[e] \in Batches /\ batch[inBatch[e]].state = "reserved"
        /\ delivery[e] = "sent" => /\ inBatch[e] \in Batches /\ mailed[inBatch[e]] > 0
                                   /\ batch[inBatch[e]].lines[e] # "none"
    BY DEF MailInv, DeliveriesAccounted, Mailed
  <2>2. Settling(e)
    OBVIOUS
  <2>3. ASSUME delivery'[e] = "reserved"
        PROVE  inBatch'[e] \in Batches /\ batch'[inBatch'[e]].state = "reserved"
    <3>1. delivery[e] = "reserved" /\ inBatch'[e] = inBatch[e]
      BY <2>2, <2>3 DEF Settling
    <3>2. Lasting(inBatch[e])
      BY <2>1, <3>1
    <3> QED  BY <2>1, <2>3, <3>1, <3>2 DEF Lasting
  <2>4. ASSUME delivery'[e] = "sent"
        PROVE  /\ inBatch'[e] \in Batches /\ mailed'[inBatch'[e]] > 0
               /\ batch'[inBatch'[e]].lines[e] # "none"
    <3>1. CASE delivery[e] = "sent" /\ inBatch'[e] = inBatch[e]
      <4>1. Lasting(inBatch[e]) /\ Providing(inBatch[e]) /\ mailed[inBatch[e]] \in Nat
        BY <1>0, <2>1, <3>1
      <4> QED  BY <2>1, <3>1, <4>1 DEF Lasting, Providing
    <3>2. CASE /\ delivery[e] = "reserved" /\ inBatch'[e] = inBatch[e]
               /\ batch[inBatch[e]].attempts > 0 /\ mailed'[inBatch[e]] > 0
      <4>1. Lasting(inBatch[e]) /\ batch[inBatch[e]].lines[e] # "none"
        BY <2>1, <3>2 DEF MailInv, LinesOK
      <4> QED  BY <2>1, <3>2, <4>1 DEF Lasting
    <3> QED  BY <2>2, <2>4, <3>1, <3>2 DEF Settling
  <2> QED  BY <2>3, <2>4
<1>7. Kept
  <2> SUFFICES ASSUME NEW b \in Batches PROVE Steady(b) /\ Honest(b)
    BY DEF Kept
  <2>1. Lasting(b) /\ batch[b].attempts \in Nat
    BY <1>0
  <2> QED  BY <2>1 DEF Lasting, Steady, Honest, Ends
<1> QED  BY <1>1, <1>2, <1>4, <1>5, <1>6, <1>7 DEF MailInv

-----------------------------------------------------------------------------
(* The steps, one by one.                                                  *)

LEMMA Blank == NewRow \in Row /\ NoLines \in [Events -> Lines \cup {"none"}] /\ Idle \in PassRow
<1>1. NoLines \in [Events -> Lines \cup {"none"}]
  BY DEF NoLines
<1>2. NewRow \in Row
  BY <1>1, MailAssumption DEF NewRow, Row
<1> QED  BY <1>1, <1>2 DEF Idle, PassRow

LEMMA InitInv == Init => MailInv
<1> SUFFICES ASSUME Init PROVE MailInv
  OBVIOUS
<1>1. MailTypeOK
  <2>1. says \in [Events -> Lines \cup {"none", "gone"}]
    BY MailAssumption DEF Init, Lines
  <2>2. mode \in [Claimants -> Modes] /\ box \in [Claimants -> Boxes \cup {"none"}]
    BY DEF Init, Modes, Boxes
  <2>3. batch \in [Batches -> Row] /\ pass \in [Passes -> PassRow]
    BY Blank DEF Init
  <2> QED  BY <2>1, <2>2, <2>3 DEF Init, MailTypeOK
<1>2. \A b \in Batches : batch[b] = NewRow /\ key[b] = FALSE /\ mailed[b] = 0
  BY DEF Init
<1>3. NewRow.attempts = 0 /\ NewRow.lines = NoLines /\ NewRow.to = "none" /\ NewRow.state = "none"
  BY DEF NewRow
<1>4. \A p \in Passes : pass[p].at = "idle" /\ pass[p].mine = {} /\ pass[p].members = {}
  BY DEF Init, Idle
<1>5. \A e \in Events : delivery[e] = "none" /\ inBatch[e] = NoBatch /\ NoLines[e] = "none"
  BY DEF Init, NoLines
<1>6. RowsOK
  BY <1>2, <1>3 DEF RowsOK
<1>7. PassesOK
  BY <1>4 DEF PassesOK
<1>8. \A e \in Events, b \in Batches : ~ClaimedBy(e, b)
  BY <1>2, <1>3, <1>4, <1>5, MailAssumption DEF ClaimedBy
<1>9. ClaimsOK /\ LinesOK
  BY <1>2, <1>3, <1>8 DEF ClaimsOK, LinesOK
<1>10. DeliveriesAccounted
  BY <1>5 DEF DeliveriesAccounted
<1> QED  BY <1>1, <1>6, <1>7, <1>9, <1>10 DEF MailInv

\* What stays as it is evolves.
LEMMA StayLasting ==
  ASSUME MailTypeOK, NEW b \in Batches, batch'[b] = batch[b]
  PROVE  Lasting(b)
BY DEF Lasting

LEMMA ChangeInv == MailInv /\ Change => MailInv' /\ Kept
<1> SUFFICES ASSUME MailInv, Change PROVE MailInv' /\ Kept
  OBVIOUS
<1>0. MailTypeOK
  BY DEF MailInv
<1>1. UNCHANGED <<tableVars, pass, providerVars>>
  BY DEF Change
<1>2. bound' \in [changes : Nat, crashes : Nat]
  BY <1>0 DEF Change, MailTypeOK
<1>3. /\ says' \in [Events -> Lines \cup {"none", "gone"}]
      /\ mode' \in [Claimants -> Modes]
      /\ box' \in [Claimants -> Boxes \cup {"none"}]
  <2>1. CASE \E e \in Events : \E s \in MayBecome(says[e]) :
               says' = [says EXCEPT ![e] = s] /\ UNCHANGED <<mode, box>>
    <3>1. PICK e \in Events : \E s \in MayBecome(says[e]) :
               says' = [says EXCEPT ![e] = s] /\ UNCHANGED <<mode, box>>
      BY <2>1
    <3>2. PICK s \in MayBecome(says[e]) :
               says' = [says EXCEPT ![e] = s] /\ UNCHANGED <<mode, box>>
      BY <3>1
    <3>3. s \in Lines \cup {"none", "gone"}
      BY DEF MayBecome, Lines
    <3> QED  BY <1>0, <3>2, <3>3 DEF MailTypeOK
  <2>2. CASE \E c \in Claimants, m \in Modes :
               m # mode[c] /\ mode' = [mode EXCEPT ![c] = m] /\ UNCHANGED <<says, box>>
    BY <1>0, <2>2 DEF MailTypeOK
  <2>3. CASE \E c \in Claimants, a \in Boxes \cup {"none"} :
               a # box[c] /\ box' = [box EXCEPT ![c] = a] /\ UNCHANGED <<says, mode>>
    BY <1>0, <2>3 DEF MailTypeOK
  <2> QED  BY <2>1, <2>2, <2>3 DEF Change
<1>4. MailTypeOK'
  BY <1>0, <1>1, <1>2, <1>3 DEF MailTypeOK, tableVars, providerVars
<1>5. \A b \in Batches : Lasting(b) /\ Providing(b)
  BY <1>1 DEF Lasting, Providing, tableVars, providerVars
<1>6. (\A e \in Events : Settling(e)) /\ (\A p \in Passes : Passing(p))
  BY <1>1 DEF Settling, Passing, tableVars
<1> QED  BY <1>4, <1>5, <1>6, EvolveInv

LEMMA PassStartsInv == ASSUME NEW p \in Passes PROVE MailInv /\ PassStarts(p) => MailInv' /\ Kept
<1> SUFFICES ASSUME MailInv, PassStarts(p) PROVE MailInv' /\ Kept
  OBVIOUS
<1>0. MailTypeOK
  BY DEF MailInv
<1>1. /\ UNCHANGED <<recordVars, inBatch, batch, providerVars, bound>>
      /\ found' = Scanned
      /\ pass[p].at = "idle"
  BY DEF PassStarts
<1>2. /\ delivery' \in [Events -> {"none", "reserved"} \cup Ends]
      /\ \A e \in Events : delivery'[e] = delivery[e] \/ delivery'[e] \in {"suppressed", "skipped"}
  BY <1>0 DEF PassStarts, MailTypeOK, Ends
<1>3. PICK ok \in SUBSET Events : pass' = [pass EXCEPT ![p].at = "listed", ![p].ok = ok]
  BY <1>0 DEF PassStarts, Untaken, Scanned, MailTypeOK
<1>4. pass' \in [Passes -> PassRow]
  <2> DEFINE r == [pass[p] EXCEPT !.at = "listed", !.ok = ok]
  <2>1. pass[p] \in PassRow /\ pass \in [Passes -> PassRow]
    BY <1>0 DEF MailTypeOK
  <2>2. r \in PassRow
    BY <2>1 DEF PassRow
  <2>3. pass' = [pass EXCEPT ![p] = r]
    BY <1>3
  <2> HIDE DEF r
  <2> QED  BY <2>1, <2>2, <2>3
<1>5. MailTypeOK'
  BY <1>0, <1>1, <1>2, <1>4 DEF MailTypeOK, recordVars, providerVars, Scanned
<1>6. \A b \in Batches : Lasting(b) /\ Providing(b)
  BY <1>1 DEF Lasting, Providing, providerVars
<1>7. \A e \in Events : Settling(e)
  BY <1>1, <1>2 DEF Settling
<1>8. \A q \in Passes : Passing(q)
  BY <1>0, <1>1, <1>3 DEF MailTypeOK, PassRow, Passing
<1> QED  BY <1>5, <1>6, <1>7, <1>8, EvolveInv

\* The pass that turns to its next batch has left this one.
LEMMA Turned ==
  ASSUME MailTypeOK, NEW p \in Passes, TurnsAway(p)
  PROVE  /\ pass' \in [Passes -> PassRow]
         /\ \A q \in Passes : q # p => pass'[q] = pass[q]
         /\ pass'[p].at = "sending" /\ pass'[p].members = {}
         /\ pass'[p].mine \subseteq pass[p].mine
<1> DEFINE r == [Idle EXCEPT !.at = "sending", !.mine = pass[p].mine \ {pass[p].on}]
<1>1. pass[p] \in PassRow /\ pass \in [Passes -> PassRow]
  BY DEF MailTypeOK
<1>2. Idle \in PassRow
  BY Blank
<1>3. r \in PassRow /\ r.at = "sending" /\ r.members = {} /\ r.mine \subseteq pass[p].mine
  BY <1>1, <1>2 DEF PassRow, Idle
<1>4. pass' = [pass EXCEPT ![p] = r]
  BY DEF TurnsAway
<1> HIDE DEF r
<1> QED  BY <1>1, <1>3, <1>4

LEMMA TurnedPassing ==
  ASSUME MailTypeOK, NEW p \in Passes, TurnsAway(p),
         \A b \in Batches : batch'[b].owner = batch[b].owner
  PROVE  \A q \in Passes : Passing(q)
BY Turned DEF Passing

\* A request reaches the provider, or does not.
LEMMA ArrivesProviding ==
  ASSUME MailTypeOK, NEW b \in Batches, NEW did \in BOOLEAN, Arrives(b, did),
         batch[b].attempts > 0, mailed[b] > 0 => key[b]
  PROVE  /\ key' \in [Batches -> BOOLEAN] /\ mailed' \in [Batches -> Nat]
         /\ \A c \in Batches : Providing(c)
<1>1. key \in [Batches -> BOOLEAN] /\ mailed \in [Batches -> Nat]
  BY DEF MailTypeOK
<1>2. CASE ~did
  BY <1>1, <1>2 DEF Arrives, providerVars, Providing
<1>3. CASE did
  <2>1. /\ key' = [key EXCEPT ![b] = TRUE]
        /\ mailed' = [mailed EXCEPT ![b] = IF key[b] THEN mailed[b] ELSE mailed[b] + 1]
    BY <1>3 DEF Arrives
  <2>2. key' \in [Batches -> BOOLEAN] /\ mailed' \in [Batches -> Nat]
    BY <1>1, <2>1
  <2>3. \A c \in Batches : Providing(c)
    BY <1>1, <2>1 DEF Providing
  <2> QED  BY <2>2, <2>3
<1> QED  BY <1>2, <1>3

\* A batch is finished, with D out of it; its events are as it is.
LEMMA Finished ==
  ASSUME MailTypeOK, NEW b \in Batches, batch[b].state # "none", NEW p \in Passes,
         NEW end \in Ends, NEW D \in SUBSET Events, FinishBatch(p, b, end, D),
         end = "sent" => D = {} /\ batch[b].attempts > 0 /\ mailed'[b] > 0
  PROVE  /\ batch' \in [Batches -> Row]
         /\ delivery' \in [Events -> {"none", "reserved"} \cup Ends]
         /\ inBatch' \in [Events -> Batches \cup {NoBatch}]
         /\ \A c \in Batches : Lasting(c) /\ batch'[c].owner = batch[c].owner
         /\ \A e \in Events : Settling(e)
<1>0. /\ batch \in [Batches -> Row] /\ batch[b] \in Row
      /\ delivery \in [Events -> {"none", "reserved"} \cup Ends]
      /\ inBatch \in [Events -> Batches \cup {NoBatch}] /\ b # NoBatch
  BY MailAssumption DEF MailTypeOK
<1>1. end \notin {"none", "reserved"} /\ "suppressed" \in Ends /\ "suppressed" # "sent"
  BY DEF Ends
<1> DEFINE r == [batch[b] EXCEPT !.state = IF Holds(p, b) THEN end ELSE batch[b].state,
                                 !.leased = batch[b].leased /\ ~Holds(p, b)]
<1>2. batch' = [batch EXCEPT ![b] = r]
  BY <1>0 DEF FinishBatch
<1>3. r \in Row
  <2>1. batch[b].leased \in BOOLEAN /\ Holds(p, b) \in BOOLEAN
    BY <1>0 DEF Row, Holds
  <2> QED  BY <1>0, <2>1 DEF Row
<1>4. /\ r.who = batch[b].who /\ r.owner = batch[b].owner /\ r.attempts = batch[b].attempts
      /\ r.old = batch[b].old /\ r.lines = batch[b].lines /\ r.to = batch[b].to
      /\ r.state = IF Holds(p, b) THEN end ELSE batch[b].state
  BY <1>0 DEF Row
<1> HIDE DEF r
<1>5. batch' \in [Batches -> Row]
  BY <1>0, <1>2, <1>3
<1>6. \A e \in Events :
        /\ e \in D => delivery'[e] = "suppressed" /\ inBatch'[e] = NoBatch
        /\ e \notin D => /\ inBatch'[e] = inBatch[e]
                         /\ delivery'[e] = IF Holds(p, b) /\ inBatch[e] = b /\ delivery[e] = "reserved"
                                           THEN end ELSE delivery[e]
  BY DEF FinishBatch
<1>7. delivery' \in [Events -> {"none", "reserved"} \cup Ends]
  BY <1>0, <1>1 DEF FinishBatch
<1>8. inBatch' \in [Events -> Batches \cup {NoBatch}]
  BY <1>0 DEF FinishBatch
<1>9. ASSUME NEW c \in Batches PROVE Lasting(c) /\ batch'[c].owner = batch[c].owner
  <2>1. CASE c # b
    BY <1>0, <1>2, <2>1 DEF Lasting
  <2>2. CASE c = b
    <3>1. batch'[b] = r
      BY <1>0, <1>2
    <3>2. Holds(p, b) => \A e \in Events : inBatch'[e] = b => delivery'[e] # "reserved"
      BY <1>0, <1>1, <1>6
    <3> QED  BY <1>1, <1>4, <2>2, <3>1, <3>2 DEF Lasting, Holds
  <2> QED  BY <2>1, <2>2
<1>10. ASSUME NEW e \in Events PROVE Settling(e)
  <2>1. CASE e \in D
    BY <1>1, <1>6, <2>1 DEF Settling
  <2>2. CASE e \notin D
    BY <1>1, <1>6, <2>2 DEF Settling
  <2> QED  BY <2>1, <2>2
<1> QED  BY <1>5, <1>7, <1>8, <1>9, <1>10

\* A refusal is an outcome, and none of them is that the batch was sent.
LEMMA Refused == \A r, b : Refusal(r, b) # "none" => Refusal(r, b) \in Ends /\ Refusal(r, b) # "sent"
BY DEF Refusal, Ends

LEMMA SetsAsideInv == ASSUME NEW p \in Passes PROVE MailInv /\ SetsAside(p) => MailInv' /\ Kept
<1> SUFFICES ASSUME MailInv, SetsAside(p) PROVE MailInv' /\ Kept
  OBVIOUS
<1> DEFINE b == pass[p].on
           r == pass[p].read
           M == pass[p].members
<1>1. /\ pass[p].at = "checking" /\ TurnsAway(p)
      /\ UNCHANGED <<recordVars, found, providerVars, bound>>
      /\ \/ Refusal(r, b) # "none" /\ FinishBatch(p, b, Refusal(r, b), {})
         \/ FinishBatch(p, b, "suppressed", Dropped(r, M, b))
  BY DEF SetsAside
<1>2. MailTypeOK /\ b \in Batches /\ batch[b].state # "none" /\ M \subseteq Events
  BY <1>1 DEF MailInv, PassesOK, MailTypeOK, PassRow
<1>3. PICK end \in Ends \ {"sent"}, D \in SUBSET Events : FinishBatch(p, b, end, D)
  <2>1. CASE Refusal(r, b) # "none" /\ FinishBatch(p, b, Refusal(r, b), {})
    BY <2>1, Refused
  <2>2. CASE FinishBatch(p, b, "suppressed", Dropped(r, M, b))
    <3>1. Dropped(r, M, b) \in SUBSET Events /\ "suppressed" \in Ends \ {"sent"}
      BY <1>2 DEF Dropped, Ends
    <3> QED  BY <2>2, <3>1
  <2> QED  BY <1>1, <2>1, <2>2
<1> HIDE DEF b, r, M
<1>4. /\ batch' \in [Batches -> Row]
      /\ delivery' \in [Events -> {"none", "reserved"} \cup Ends]
      /\ inBatch' \in [Events -> Batches \cup {NoBatch}]
      /\ \A c \in Batches : Lasting(c) /\ batch'[c].owner = batch[c].owner
      /\ \A e \in Events : Settling(e)
  BY <1>2, <1>3, Finished
<1>5. pass' \in [Passes -> PassRow] /\ \A q \in Passes : Passing(q)
  BY <1>1, <1>2, <1>4, Turned, TurnedPassing
<1>6. MailTypeOK'
  BY <1>1, <1>2, <1>4, <1>5 DEF MailTypeOK, recordVars, providerVars
<1>7. \A c \in Batches : Providing(c)
  BY <1>1 DEF Providing, providerVars
<1> QED  BY <1>4, <1>5, <1>6, <1>7, EvolveInv

LEMMA AnsweredInv == ASSUME NEW p \in Passes PROVE MailInv /\ Answered(p) => MailInv' /\ Kept
<1> SUFFICES ASSUME MailInv, Answered(p) PROVE MailInv' /\ Kept
  OBVIOUS
<1> DEFINE b == pass[p].on
           Again == /\ batch' = [batch EXCEPT ![b].leased = batch[b].leased \/ Holds(p, b)]
                    /\ UNCHANGED <<delivery, inBatch>>
<1>1. /\ pass[p].at = "waiting" /\ TurnsAway(p)
      /\ UNCHANGED <<recordVars, found, bound>>
      /\ \/ Arrives(b, TRUE) /\ FinishBatch(p, b, "sent", {})
         \/ (\E did \in BOOLEAN : Arrives(b, did)) /\ (Again \/ FinishBatch(p, b, "failed", {}))
         \/ Arrives(b, FALSE) /\ FinishBatch(p, b, "failed", {})
  BY DEF Answered
<1>2. /\ MailTypeOK /\ b \in Batches /\ batch[b].state # "none"
      /\ batch[b].attempts > 0 /\ (mailed[b] > 0 => key[b])
      /\ batch \in [Batches -> Row] /\ mailed \in [Batches -> Nat]
  BY <1>1 DEF MailInv, PassesOK, MailTypeOK
<1>3. \E did \in BOOLEAN : Arrives(b, did)
  BY <1>1
<1>4. /\ key' \in [Batches -> BOOLEAN] /\ mailed' \in [Batches -> Nat]
      /\ \A c \in Batches : Providing(c)
  BY <1>2, <1>3, ArrivesProviding
<1>5. /\ batch' \in [Batches -> Row]
      /\ delivery' \in [Events -> {"none", "reserved"} \cup Ends]
      /\ inBatch' \in [Events -> Batches \cup {NoBatch}]
      /\ \A c \in Batches : Lasting(c) /\ batch'[c].owner = batch[c].owner
      /\ \A e \in Events : Settling(e)
  <2>1. CASE Arrives(b, TRUE) /\ FinishBatch(p, b, "sent", {})
    <3>1. mailed' = [mailed EXCEPT ![b] = IF key[b] THEN mailed[b] ELSE mailed[b] + 1]
      BY <2>1 DEF Arrives
    <3>2. mailed'[b] > 0
      <4>1. mailed[b] \in Nat /\ (key[b] => mailed[b] > 0)
        BY <1>2 DEF MailInv, RowsOK
      <4> HIDE DEF b
      <4> QED  BY <1>2, <3>1, <4>1
    <3> HIDE DEF b
    <3>3. "sent" \in Ends
      BY DEF Ends
    <3> QED  BY <1>2, <2>1, <3>2, <3>3, Finished
  <2>2. CASE FinishBatch(p, b, "failed", {})
    <3>1. "failed" \in Ends /\ "failed" # "sent" /\ {} \in SUBSET Events
      BY DEF Ends
    <3> HIDE DEF b
    <3> QED  BY <1>2, <2>2, <3>1, Finished
  <2>3. CASE Again
    <3> DEFINE r == [batch[b] EXCEPT !.leased = batch[b].leased \/ Holds(p, b)]
    <3>1. batch' = [batch EXCEPT ![b] = r]
      BY <1>2, <2>3
    <3>2. batch[b] \in Row /\ Holds(p, b) \in BOOLEAN /\ batch[b].leased \in BOOLEAN
      BY <1>2 DEF Row, Holds
    <3>3. /\ r \in Row /\ r.who = batch[b].who /\ r.owner = batch[b].owner /\ r.attempts = batch[b].attempts
          /\ r.old = batch[b].old /\ r.lines = batch[b].lines /\ r.to = batch[b].to
          /\ r.state = batch[b].state
      <4> HIDE DEF b
      <4> QED  BY <3>2 DEF Row
    <3> HIDE DEF b, r
    <3>4. batch' \in [Batches -> Row]
      BY <1>2, <3>1, <3>3
    <3>5. \A c \in Batches : Lasting(c) /\ batch'[c].owner = batch[c].owner
      BY <1>2, <3>1, <3>3 DEF Lasting
    <3>6. UNCHANGED <<delivery, inBatch>>
      BY <2>3
    <3> QED  BY <1>2, <3>4, <3>5, <3>6 DEF Settling, MailTypeOK
  <2> QED  BY <1>1, <2>1, <2>2, <2>3
<1> HIDE DEF b
<1>6. pass' \in [Passes -> PassRow] /\ \A q \in Passes : Passing(q)
  BY <1>1, <1>2, <1>5, Turned, TurnedPassing
<1>7. MailTypeOK'
  BY <1>1, <1>2, <1>4, <1>5, <1>6 DEF MailTypeOK, recordVars
<1> QED  BY <1>4, <1>5, <1>6, <1>7, EvolveInv

\* A pass that is over leaves the rows, without an owner.
LEMMA Forgetting ==
  ASSUME MailTypeOK, NEW p \in Passes, NEW rows \in [Batches -> Row]
  PROVE  /\ Forgotten(p, rows) \in [Batches -> Row]
         /\ \A c \in Batches : LET r == Forgotten(p, rows)[c]
                               IN  /\ r.who = rows[c].who /\ r.attempts = rows[c].attempts
                                   /\ r.lines = rows[c].lines /\ r.to = rows[c].to
                                   /\ r.state = rows[c].state /\ r.old = rows[c].old
                                   /\ r.owner \in {rows[c].owner, NoPass}
                                   /\ rows[c].owner = NoPass => r = rows[c]
<1> DEFINE F == Forgotten(p, rows)
<1>1. NoPass # p
  BY MailAssumption
<1>2. \A c \in Batches : F[c] = IF rows[c].owner = p THEN [rows[c] EXCEPT !.owner = NoPass] ELSE rows[c]
  BY DEF Forgotten
<1>3. ASSUME NEW c \in Batches
      PROVE  /\ F[c] \in Row
             /\ F[c].who = rows[c].who /\ F[c].attempts = rows[c].attempts
             /\ F[c].lines = rows[c].lines /\ F[c].to = rows[c].to
             /\ F[c].state = rows[c].state /\ F[c].old = rows[c].old
             /\ F[c].owner \in {rows[c].owner, NoPass}
             /\ rows[c].owner = NoPass => F[c] = rows[c]
  <2>1. rows[c] \in Row
    OBVIOUS
  <2>2. CASE rows[c].owner = p
    BY <1>1, <1>2, <2>1, <2>2 DEF Row
  <2>3. CASE rows[c].owner # p
    BY <1>2, <2>1, <2>3
  <2> QED  BY <2>2, <2>3
<1>4. F \in [Batches -> Row]
  BY <1>3 DEF Forgotten
<1> QED  BY <1>3, <1>4

\* A pass is over, with its rows as they are.
LEMMA Leaving ==
  ASSUME MailInv, NEW p \in Passes,
         pass' = [pass EXCEPT ![p] = Idle], batch' = Forgotten(p, batch), UNCHANGED <<delivery, inBatch>>
  PROVE  /\ batch' \in [Batches -> Row] /\ pass' \in [Passes -> PassRow]
         /\ \A b \in Batches : Lasting(b)
         /\ \A e \in Events : Settling(e)
         /\ \A q \in Passes : Passing(q)
<1>1. MailTypeOK /\ batch \in [Batches -> Row] /\ pass \in [Passes -> PassRow]
  BY DEF MailInv, MailTypeOK
<1>2. /\ batch' \in [Batches -> Row]
      /\ \A c \in Batches : /\ batch'[c].who = batch[c].who /\ batch'[c].attempts = batch[c].attempts
                            /\ batch'[c].lines = batch[c].lines /\ batch'[c].to = batch[c].to
                            /\ batch'[c].state = batch[c].state /\ batch'[c].old = batch[c].old
                            /\ batch'[c].owner \in {batch[c].owner, NoPass}
                            /\ batch[c].owner = NoPass => batch'[c] = batch[c]
  BY <1>1, Forgetting
<1>3. ASSUME NEW c \in Batches PROVE Lasting(c)
  <2>1. batch[c].state = "none" => batch[c].owner = NoPass
    BY DEF MailInv, RowsOK, NewRow
  <2> QED  BY <1>2, <2>1 DEF Lasting
<1>4. ASSUME NEW q \in Passes PROVE Passing(q)
  <2>1. CASE q = p
    BY <1>1, <2>1 DEF Passing, Idle
  <2>2. CASE q # p
    <3>1. pass'[q] = pass[q] /\ q # NoPass
      BY <1>1, <2>2, MailAssumption
    <3> QED  BY <1>2, <3>1 DEF Passing
  <2> QED  BY <2>1, <2>2
<1>5. pass' \in [Passes -> PassRow]
  BY <1>1, Blank
<1> QED  BY <1>2, <1>3, <1>4, <1>5 DEF Settling

LEMMA PassEndsInv == ASSUME NEW p \in Passes PROVE MailInv /\ PassEnds(p) => MailInv' /\ Kept
<1> SUFFICES ASSUME MailInv, PassEnds(p) PROVE MailInv' /\ Kept
  OBVIOUS
<1>1. /\ pass' = [pass EXCEPT ![p] = Idle] /\ batch' = Forgotten(p, batch)
      /\ UNCHANGED <<recordVars, found, delivery, inBatch, providerVars, bound>>
  BY DEF PassEnds
<1>2. /\ batch' \in [Batches -> Row] /\ pass' \in [Passes -> PassRow]
      /\ \A b \in Batches : Lasting(b)
      /\ \A e \in Events : Settling(e)
      /\ \A q \in Passes : Passing(q)
  BY <1>1, Leaving
<1>3. MailTypeOK'
  BY <1>1, <1>2 DEF MailInv, MailTypeOK, recordVars, providerVars
<1>4. \A b \in Batches : Providing(b)
  BY <1>1 DEF Providing, providerVars
<1> QED  BY <1>2, <1>3, <1>4, EvolveInv

\* Only the lease or the age of a row is new.
LEMMA Relet ==
  ASSUME MailInv, NEW b \in Batches, NEW r \in Row, batch' = [batch EXCEPT ![b] = r],
         r.state = batch[b].state, batch[b].state # "none", r.who = batch[b].who, r.owner = batch[b].owner,
         r.attempts = batch[b].attempts, r.lines = batch[b].lines, r.to = batch[b].to,
         batch[b].old => r.old,
         bound' \in [changes : Nat, crashes : Nat],
         UNCHANGED <<recordVars, found, delivery, inBatch, pass, providerVars>>
  PROVE  MailInv' /\ Kept
<1>1. MailTypeOK /\ batch \in [Batches -> Row]
  BY DEF MailInv, MailTypeOK
<1>2. MailTypeOK'
  BY <1>1 DEF MailTypeOK, recordVars, providerVars
<1>3. \A c \in Batches : Lasting(c) /\ Providing(c) /\ batch'[c].owner = batch[c].owner
  BY <1>1 DEF Lasting, Providing, providerVars
<1>4. (\A e \in Events : Settling(e)) /\ (\A q \in Passes : Passing(q))
  BY <1>3 DEF Settling, Passing
<1> QED  BY <1>2, <1>3, <1>4, EvolveInv

\* A row whose lease is on is in use.
LEMMA TimeInv ==
  ASSUME NEW b \in Batches
  PROVE  MailInv /\ (LeaseEnds(b) \/ Stalls(b) \/ AttemptAges(b)) => MailInv' /\ Kept
<1> SUFFICES ASSUME MailInv, LeaseEnds(b) \/ Stalls(b) \/ AttemptAges(b) PROVE MailInv' /\ Kept
  OBVIOUS
<1>1. /\ batch \in [Batches -> Row] /\ batch[b] \in Row /\ bound \in [changes : Nat, crashes : Nat]
      /\ batch[b].leased => batch[b].state # "none"
  BY DEF MailInv, MailTypeOK, RowsOK, NewRow
<1>2. CASE LeaseEnds(b) \/ Stalls(b)
  <2> DEFINE r == [batch[b] EXCEPT !.leased = FALSE]
  <2>1. /\ r \in Row /\ r.state = batch[b].state /\ r.who = batch[b].who /\ r.owner = batch[b].owner
        /\ r.attempts = batch[b].attempts /\ r.lines = batch[b].lines /\ r.to = batch[b].to
        /\ r.old = batch[b].old
    BY <1>1 DEF Row
  <2>2. batch' = [batch EXCEPT ![b] = r] /\ batch[b].leased
    BY <1>1, <1>2 DEF LeaseEnds, Stalls
  <2>3. UNCHANGED <<recordVars, found, delivery, inBatch, pass, providerVars>>
    BY <1>2 DEF LeaseEnds, Stalls
  <2>4. bound' \in [changes : Nat, crashes : Nat]
    BY <1>1, <1>2 DEF LeaseEnds, Stalls
  <2> HIDE DEF r
  <2> QED  BY <1>1, <2>1, <2>2, <2>3, <2>4, Relet
<1>3. CASE AttemptAges(b)
  <2> DEFINE r == [batch[b] EXCEPT !.old = TRUE]
  <2>1. /\ r \in Row /\ r.state = batch[b].state /\ r.who = batch[b].who /\ r.owner = batch[b].owner
        /\ r.attempts = batch[b].attempts /\ r.lines = batch[b].lines /\ r.to = batch[b].to
        /\ r.old = TRUE
    BY <1>1 DEF Row
  <2>2. /\ batch' = [batch EXCEPT ![b] = r] /\ batch[b].state # "none"
        /\ UNCHANGED <<recordVars, found, delivery, inBatch, pass, providerVars>>
        /\ bound' \in [changes : Nat, crashes : Nat]
    BY <1>1, <1>3 DEF AttemptAges
  <2> HIDE DEF r
  <2> QED  BY <1>1, <2>1, <2>2, Relet
<1> QED  BY <1>2, <1>3

LEMMA KeyForgottenInv == ASSUME NEW b \in Batches PROVE MailInv /\ KeyForgotten(b) => MailInv' /\ Kept
<1> SUFFICES ASSUME MailInv, KeyForgotten(b) PROVE MailInv' /\ Kept
  OBVIOUS
<1>1. /\ key' = [key EXCEPT ![b] = FALSE] /\ batch[b].old
      /\ \A p \in Passes : pass[p].at = "waiting" => pass[p].on # b
      /\ UNCHANGED <<recordVars, tableVars, pass, mailed, bound>>
  BY DEF KeyForgotten
<1>2. MailTypeOK /\ key \in [Batches -> BOOLEAN]
  BY DEF MailInv, MailTypeOK
<1>3. MailTypeOK'
  BY <1>1, <1>2 DEF MailTypeOK, recordVars, tableVars
<1>4. \A c \in Batches : Lasting(c) /\ Providing(c)
  BY <1>1, <1>2 DEF Lasting, Providing, tableVars
<1>5. (\A e \in Events : Settling(e)) /\ (\A q \in Passes : Passing(q))
  BY <1>1 DEF Settling, Passing, tableVars
<1> QED  BY <1>3, <1>4, <1>5, EvolveInv

\* What leaves its batch before the request is frozen is settled.
LEMMA Left ==
  ASSUME MailTypeOK, NEW D \in SUBSET Events, Leave(D)
  PROVE  /\ delivery' \in [Events -> {"none", "reserved"} \cup Ends]
         /\ inBatch' \in [Events -> Batches \cup {NoBatch}]
         /\ \A e \in Events : /\ e \in D => delivery'[e] = "suppressed" /\ inBatch'[e] = NoBatch
                              /\ e \notin D => delivery'[e] = delivery[e] /\ inBatch'[e] = inBatch[e]
         /\ \A e \in Events : Settling(e)
<1>1. \A e \in Events : /\ e \in D => delivery'[e] = "suppressed" /\ inBatch'[e] = NoBatch
                        /\ e \notin D => delivery'[e] = delivery[e] /\ inBatch'[e] = inBatch[e]
  BY DEF Leave
<1>2. delivery' \in [Events -> {"none", "reserved"} \cup Ends]
  BY DEF Leave, MailTypeOK, Ends
<1>3. inBatch' \in [Events -> Batches \cup {NoBatch}]
  BY DEF Leave, MailTypeOK
<1> QED  BY <1>1, <1>2, <1>3 DEF Settling

\* What a pass that may go on knows of its batch.
LEMMA Ready ==
  ASSUME MailInv, NEW p \in Passes, CanGo(p)
  PROVE  LET b == pass[p].on
             r == pass[p].read
             M == pass[p].members
         IN  /\ pass[p].at = "checking" /\ b \in Batches /\ b # NoBatch /\ M \in SUBSET Events
             /\ batch[b] \in Row /\ r \in Row
             /\ mode[r.who] # "off" /\ box[r.who] # "none" /\ r.attempts < MAX_ATTEMPTS
             /\ r.attempts > 0 => ~batch[b].old
             /\ Dropped(r, M, b) = {e \in M : ~IsFrozen(r) /\ ~Eligible(e) /\ inBatch[e] = b}
             /\ Dropped(r, M, b) \in SUBSET Events
             /\ IsFrozen(r) => /\ FrozenEvents(r) = M /\ r.to = box[r.who]
                               /\ \A e \in M : StillTrue(e, r.lines[e])
             /\ \A e \in Events : inBatch[e] = b /\ delivery[e] = "reserved" => e \in M
             /\ Holds(p, b) => /\ r.who = batch[b].who /\ r.attempts = batch[b].attempts
                               /\ r.lines = batch[b].lines /\ r.to = batch[b].to
<1> DEFINE b == pass[p].on
           r == pass[p].read
           M == pass[p].members
<1>1. /\ pass[p].at = "checking" /\ Refusal(r, b) = "none" /\ ~Outdated(r, M)
  BY DEF CanGo
<1>2. pass[p] \in PassRow /\ batch \in [Batches -> Row]
  BY DEF MailInv, MailTypeOK
<1>3. M \in SUBSET Events /\ r \in Row
  BY <1>2 DEF PassRow
<1>4. /\ b \in Batches
      /\ \A e \in Events : inBatch[e] = b /\ delivery[e] = "reserved" => e \in M
      /\ Holds(p, b) => /\ r.who = batch[b].who /\ r.attempts = batch[b].attempts
                        /\ r.lines = batch[b].lines /\ r.to = batch[b].to
  BY <1>1 DEF MailInv, PassesOK
<1> HIDE DEF b, r, M
<1>5. /\ mode[r.who] # "off" /\ box[r.who] # "none" /\ r.attempts < MAX_ATTEMPTS
      /\ r.attempts > 0 => ~batch[b].old
  <2>1. r.attempts \in Nat /\ MAX_ATTEMPTS \in Nat
    BY <1>3, MailAssumption DEF Row
  <2>2. ~(r.attempts >= MAX_ATTEMPTS) /\ ~(r.attempts > 0 /\ batch[b].old)
    BY <1>1 DEF Refusal
  <2> QED  BY <1>1, <2>1, <2>2 DEF Refusal
<1>6. Dropped(r, M, b) = {e \in M : ~IsFrozen(r) /\ ~Eligible(e) /\ inBatch[e] = b}
  BY <1>1 DEF Dropped
<1>7. IsFrozen(r) => /\ FrozenEvents(r) = M /\ r.to = box[r.who]
                     /\ \A e \in M : StillTrue(e, r.lines[e])
  BY <1>1 DEF Outdated
<1>8. b # NoBatch /\ batch[b] \in Row
  BY <1>2, <1>4, MailAssumption
<1>9. Dropped(r, M, b) \in SUBSET Events
  BY <1>3, <1>6
<1> QED  BY <1>1, <1>3, <1>4, <1>5, <1>6, <1>7, <1>8, <1>9 DEF b, r, M

\* The request as it is frozen, before or now.
FrozenLines(p) == IF IsFrozen(pass[p].read) THEN pass[p].read.lines ELSE Request(pass[p].members)
FrozenAddress(p) == IF IsFrozen(pass[p].read) THEN pass[p].read.to ELSE box[pass[p].read.who]

\* A pass with its lease freezes its batch, whether it gets to attempt it or not.
LEMMA FreezeInv ==
  ASSUME MailInv, MailTypeOK', NEW p \in Passes, CanGo(p), Holds(p, pass[p].on),
         Leave(Dropped(pass[p].read, pass[p].members, pass[p].on)),
         UNCHANGED providerVars,
         \A c \in Batches \ {pass[p].on} : Lasting(c) /\ batch'[c].owner \in {batch[c].owner, NoPass},
         batch'[pass[p].on].state = "reserved",
         batch'[pass[p].on].owner \in {p, NoPass},
         batch'[pass[p].on].old = batch[pass[p].on].old,
         batch'[pass[p].on].who = batch[pass[p].on].who,
         batch'[pass[p].on].lines = FrozenLines(p),
         batch'[pass[p].on].to = FrozenAddress(p),
         \/ batch'[pass[p].on].attempts = batch[pass[p].on].attempts + 1
         \/ batch'[pass[p].on].attempts = batch[pass[p].on].attempts,
         \/ pass' = [pass EXCEPT ![p] = Idle]
         \/ pass' = [pass EXCEPT ![p].at = "waiting"] /\ batch'[pass[p].on].attempts > 0
  PROVE  MailInv' /\ Kept
<1> DEFINE b == pass[p].on
           r == pass[p].read
           M == pass[p].members
           D == Dropped(r, M, b)
<1>1. /\ pass[p].at = "checking" /\ b \in Batches /\ b # NoBatch /\ M \in SUBSET Events
      /\ batch[b] \in Row /\ r \in Row
      /\ mode[r.who] # "off" /\ box[r.who] # "none"
      /\ r.attempts > 0 => ~batch[b].old
      /\ D = {e \in M : ~IsFrozen(r) /\ ~Eligible(e) /\ inBatch[e] = b}
      /\ D \in SUBSET Events
      /\ IsFrozen(r) => /\ FrozenEvents(r) = M /\ r.to = box[r.who]
                        /\ \A e \in M : StillTrue(e, r.lines[e])
      /\ \A e \in Events : inBatch[e] = b /\ delivery[e] = "reserved" => e \in M
      /\ r.who = batch[b].who /\ r.attempts = batch[b].attempts /\ r.lines = batch[b].lines /\ r.to = batch[b].to
  BY Ready
<1>2. /\ \A c \in Batches \ {b} : Lasting(c) /\ batch'[c].owner \in {batch[c].owner, NoPass}
      /\ batch'[b].state = "reserved" /\ batch'[b].owner \in {p, NoPass} /\ batch'[b].old = batch[b].old
      /\ batch'[b].who = batch[b].who
      /\ batch'[b].lines = IF IsFrozen(r) THEN r.lines ELSE Request(M)
      /\ batch'[b].to = IF IsFrozen(r) THEN r.to ELSE box[r.who]
      /\ batch'[b].attempts = batch[b].attempts + 1 \/ batch'[b].attempts = batch[b].attempts
      /\ key' = key /\ mailed' = mailed
  BY DEF FrozenLines, FrozenAddress, providerVars
<1>3. \/ pass' = [pass EXCEPT ![p] = Idle]
      \/ pass' = [pass EXCEPT ![p].at = "waiting"] /\ batch'[b].attempts > 0
  OBVIOUS
<1>4. /\ batch[b].state = "reserved" /\ MailTypeOK /\ pass \in [Passes -> PassRow]
      /\ \A e \in Events : inBatch[e] \in Batches \cup {NoBatch}
      /\ mailed \in [Batches -> Nat] /\ batch \in [Batches -> Row]
  BY DEF Holds, MailInv, MailTypeOK
<1>5. /\ \A e \in Events : /\ e \in D => delivery'[e] = "suppressed" /\ inBatch'[e] = NoBatch
                           /\ e \notin D => delivery'[e] = delivery[e] /\ inBatch'[e] = inBatch[e]
      /\ \A e \in Events : Settling(e)
  BY <1>1, <1>4, Left
<1>6. /\ batch[b].state # "none" => batch[b].who # NoOne
      /\ batch[b].to = "none" => batch[b].lines = NoLines
      /\ batch[b].attempts > 0 => batch[b].to # "none"
      /\ mailed[b] <= 1 /\ (key[b] => mailed[b] > 0)
      /\ mailed[b] > 0 => batch[b].attempts > 0
      /\ mailed[b] > 0 /\ ~key[b] => batch[b].old
  BY <1>1 DEF MailInv, RowsOK
<1>7. \A e \in M : \E q \in Passes : pass[q].on = b /\ e \in pass[q].members
  OBVIOUS
<1>8. /\ \A q \in Passes : q # p => pass'[q] = pass[q]
      /\ \/ pass'[p] = Idle
         \/ /\ pass'[p].at = "waiting" /\ pass'[p].on = b /\ pass'[p].members = M
            /\ pass'[p].mine = pass[p].mine /\ batch'[b].attempts > 0
  <2>1. CASE pass' = [pass EXCEPT ![p] = Idle]
    BY <1>4, <2>1
  <2>2. CASE pass' = [pass EXCEPT ![p].at = "waiting"] /\ batch'[b].attempts > 0
    <3> DEFINE n == [pass[p] EXCEPT !.at = "waiting"]
    <3>1. pass[p] \in PassRow
      BY <1>4
    <3>2. n.at = "waiting" /\ n.on = b /\ n.members = M /\ n.mine = pass[p].mine
      BY <3>1 DEF PassRow
    <3>3. pass' = [pass EXCEPT ![p] = n]
      BY <2>2
    <3> HIDE DEF n, b, M
    <3> QED  BY <1>4, <2>2, <3>2, <3>3
  <2> QED  BY <1>3, <2>1, <2>2
<1> HIDE DEF b, r, M, D
<1>9. batch[b].attempts \in Nat
  BY <1>1 DEF Row
<1>10. RowsOK'
  <2> SUFFICES ASSUME NEW c \in Batches
               PROVE  /\ batch'[c].state = "none" => batch'[c] = NewRow
                      /\ batch'[c].state # "none" => batch'[c].who # NoOne
                      /\ batch'[c].to = "none" => batch'[c].lines = NoLines
                      /\ batch'[c].attempts > 0 => batch'[c].to # "none"
                      /\ mailed'[c] <= 1 /\ (key'[c] => mailed'[c] > 0)
                      /\ mailed'[c] > 0 => batch'[c].attempts > 0
                      /\ mailed'[c] > 0 /\ ~key'[c] => batch'[c].old
    BY DEF RowsOK
  <2>1. CASE c = b
    <3>1. batch'[b].to # "none"
      BY <1>1, <1>2 DEF IsFrozen
    <3> QED  BY <1>2, <1>4, <1>6, <1>9, <2>1, <3>1
  <2>2. CASE c # b
    <3>1. /\ batch[c].state = "none" => batch[c] = NewRow
          /\ batch[c].state # "none" => batch[c].who # NoOne
          /\ batch[c].to = "none" => batch[c].lines = NoLines
          /\ batch[c].attempts > 0 => batch[c].to # "none"
          /\ mailed[c] <= 1 /\ (key[c] => mailed[c] > 0)
          /\ mailed[c] > 0 => batch[c].attempts > 0
          /\ mailed[c] > 0 /\ ~key[c] => batch[c].old
      BY DEF MailInv, RowsOK
    <3>2. Lasting(c)
      BY <1>2, <2>2
    <3> QED  BY <1>2, <3>1, <3>2 DEF Lasting
  <2> QED  BY <2>1, <2>2
<1>11. \A c \in Batches : batch[c].state # "none" => batch'[c].state # "none"
  BY <1>2 DEF Lasting
<1>12. \A e \in Events, c \in Batches : inBatch'[e] = c /\ delivery'[e] = "reserved"
                                          => inBatch[e] = c /\ delivery[e] = "reserved"
  BY <1>5 DEF Settling
<1>13. PassesOK'
  <2> SUFFICES ASSUME NEW q \in Passes
               PROVE  /\ \A c \in pass'[q].mine : batch'[c].state # "none"
                      /\ pass'[q].at \in {"checking", "waiting"} =>
                           pass'[q].on \in Batches /\ batch'[pass'[q].on].state # "none"
                      /\ pass'[q].at = "checking" =>
                           /\ Holds(q, pass[q].on)' =>
                                /\ pass'[q].read.who = batch'[pass'[q].on].who
                                /\ pass'[q].read.attempts = batch'[pass'[q].on].attempts
                                /\ pass'[q].read.lines = batch'[pass'[q].on].lines
                                /\ pass'[q].read.to = batch'[pass'[q].on].to
                           /\ \A e \in Events : inBatch'[e] = pass'[q].on /\ delivery'[e] = "reserved"
                                                  => e \in pass'[q].members
                      /\ pass'[q].at = "waiting" =>
                           /\ batch'[pass'[q].on].attempts > 0
                           /\ mailed'[pass'[q].on] > 0 => key'[pass'[q].on]
    BY DEF PassesOK
  <2>1. /\ pass[q].mine \subseteq Batches
        /\ \A c \in pass[q].mine : batch[c].state # "none"
    BY <1>4 DEF MailInv, PassesOK, PassRow
  <2>2. CASE q = p /\ pass'[p] = Idle
    BY <2>2 DEF Idle
  <2>3. CASE /\ q = p /\ pass'[p].at = "waiting" /\ pass'[p].on = b
             /\ pass'[p].mine = pass[p].mine /\ batch'[b].attempts > 0
    <3>1. mailed[b] > 0 => key[b]
      BY <1>1, <1>6
    <3> QED  BY <1>1, <1>2, <1>11, <2>1, <2>3, <3>1
  <2>4. CASE q # p
    <3>1. pass'[q] = pass[q] /\ q # NoPass
      BY <1>8, <2>4, MailAssumption
    <3>2. /\ pass[q].at \in {"checking", "waiting"} =>
                           pass[q].on \in Batches /\ batch[pass[q].on].state # "none"
          /\ pass[q].at = "checking" =>
                 /\ Holds(q, pass[q].on) =>
                                /\ pass[q].read.who = batch[pass[q].on].who
                                /\ pass[q].read.attempts = batch[pass[q].on].attempts
                                /\ pass[q].read.lines = batch[pass[q].on].lines
                                /\ pass[q].read.to = batch[pass[q].on].to
                 /\ \A e \in Events : inBatch[e] = pass[q].on /\ delivery[e] = "reserved"
                                                  => e \in pass[q].members
          /\ pass[q].at = "waiting" =>
                           /\ batch[pass[q].on].attempts > 0
                           /\ mailed[pass[q].on] > 0 => key[pass[q].on]
      BY DEF MailInv, PassesOK
    <3>3. \A c \in pass'[q].mine : batch'[c].state # "none"
      BY <1>11, <2>1, <3>1
    <3>4. CASE pass[q].at = "waiting"
      <4> DEFINE c == pass[q].on
      <4>1. /\ c \in Batches /\ batch[c].state # "none"
            /\ batch[c].attempts > 0 /\ (mailed[c] > 0 => key[c])
        BY <3>2, <3>4
      <4> HIDE DEF c
      <4>2. batch'[c].attempts > 0
        BY <1>2, <1>9, <4>1 DEF Lasting
      <4>3. batch'[c].state # "none" /\ (mailed'[c] > 0 => key'[c])
        BY <1>2, <1>11, <4>1
      <4> QED  BY <3>1, <3>3, <3>4, <4>1, <4>2, <4>3 DEF c
    <3>5. CASE pass[q].at = "checking"
      <4> DEFINE c == pass[q].on
                 s == pass[q].read
      <4>1. /\ c \in Batches /\ batch[c].state # "none"
            /\ batch[c].state = "reserved" /\ batch[c].owner = q =>
                                /\ s.who = batch[c].who /\ s.attempts = batch[c].attempts
                                /\ s.lines = batch[c].lines /\ s.to = batch[c].to
            /\ \A e \in Events : inBatch[e] = c /\ delivery[e] = "reserved" => e \in pass[q].members
        BY <3>2, <3>5 DEF Holds
      <4> HIDE DEF c, s
      <4>2. batch'[c].state = "reserved" /\ batch'[c].owner = q =>
              /\ s.who = batch'[c].who /\ s.attempts = batch'[c].attempts
              /\ s.lines = batch'[c].lines /\ s.to = batch'[c].to
        BY <1>2, <2>4, <3>1, <4>1 DEF Lasting
      <4>3. \A e \in Events : inBatch'[e] = c /\ delivery'[e] = "reserved" => e \in pass[q].members
        BY <1>12, <4>1
      <4>4. batch'[c].state # "none"
        BY <1>11, <4>1
      <4> QED  BY <3>1, <3>3, <3>5, <4>1, <4>2, <4>3, <4>4 DEF c, s, Holds
    <3>6. CASE pass[q].at \notin {"checking", "waiting"}
      BY <3>1, <3>3, <3>6
    <3> QED  BY <3>4, <3>5, <3>6
  <2> QED  BY <1>8, <2>2, <2>3, <2>4
<1>14. \A e \in Events, c \in Batches : ClaimedBy(e, c)' => ClaimedBy(e, c)
  <2> SUFFICES ASSUME NEW e \in Events, NEW c \in Batches, ClaimedBy(e, c)' PROVE ClaimedBy(e, c)
    OBVIOUS
  <2>1. CASE batch'[c].lines[e] # "none"
    <3>1. CASE c # b
      BY <1>2, <2>1, <3>1 DEF Lasting, ClaimedBy
    <3>2. CASE c = b /\ IsFrozen(r)
      BY <1>1, <1>2, <2>1, <3>2 DEF ClaimedBy
    <3>3. CASE c = b /\ ~IsFrozen(r)
      <4>1. e \in M
        BY <1>2, <2>1, <3>3 DEF Request
      <4> QED  BY <1>7, <3>3, <4>1 DEF ClaimedBy
    <3> QED  BY <3>1, <3>2, <3>3
  <2>2. CASE inBatch'[e] = c
    <3>1. c # NoBatch
      BY MailAssumption
    <3> QED  BY <1>5, <2>2, <3>1 DEF ClaimedBy
  <2>3. ASSUME NEW q \in Passes, pass'[q].on = c, e \in pass'[q].members PROVE ClaimedBy(e, c)
    <3>1. CASE q # p
      BY <1>8, <2>3, <3>1 DEF ClaimedBy
    <3>2. CASE q = p /\ pass'[p] = Idle
      BY <2>3, <3>2 DEF Idle
    <3>3. CASE q = p /\ pass'[p].on = b /\ pass'[p].members = M
      BY <1>7, <2>3, <3>3 DEF ClaimedBy
    <3> QED  BY <1>8, <3>1, <3>2, <3>3
  <2> QED  BY <2>1, <2>2, <2>3 DEF ClaimedBy
<1>15. ClaimsOK'
  <2>1. \A e \in Events : delivery[e] # "none" => delivery'[e] # "none"
    BY <1>5 DEF Settling
  <2>2. ASSUME NEW e \in Events, NEW c \in Batches, NEW d \in Batches, ClaimedBy(e, c)', ClaimedBy(e, d)'
        PROVE  c = d
    BY <1>14, <2>2 DEF MailInv, ClaimsOK
  <2>3. ASSUME NEW e \in Events, NEW c \in Batches, ClaimedBy(e, c)' PROVE delivery'[e] # "none"
    BY <1>14, <2>1, <2>3 DEF MailInv, ClaimsOK
  <2> QED  BY <2>2, <2>3 DEF ClaimsOK
<1>16. LinesOK'
  <2> SUFFICES ASSUME NEW e \in Events, NEW c \in Batches, batch'[c].attempts > 0,
                      inBatch'[e] = c, delivery'[e] = "reserved"
               PROVE  batch'[c].lines[e] # "none"
    BY DEF LinesOK
  <2>1. inBatch[e] = c /\ delivery[e] = "reserved"
    BY <1>12
  <2>2. CASE c # b
    BY <1>2, <2>1, <2>2 DEF MailInv, LinesOK, Lasting
  <2>3. CASE c = b /\ IsFrozen(r)
    <3>1. e \in FrozenEvents(r)
      BY <1>1, <2>1, <2>3
    <3> QED  BY <1>2, <2>3, <3>1 DEF FrozenEvents
  <2>4. CASE c = b /\ ~IsFrozen(r)
    <3>1. e \in M /\ e \notin D
      BY <1>1, <1>5, <2>1, <2>4
    <3>2. Eligible(e)
      BY <1>1, <2>1, <2>4, <3>1
    <3>3. Request(M)[e] = says[e] /\ says[e] # "none"
      BY <3>1, <3>2 DEF Request, Eligible, Lines
    <3> QED  BY <1>2, <2>4, <3>3
  <2> QED  BY <2>2, <2>3, <2>4
<1>17. DeliveriesAccounted'
  <2> SUFFICES ASSUME NEW e \in Events
               PROVE  /\ delivery'[e] = "reserved" => /\ inBatch'[e] \in Batches
                                                      /\ batch'[inBatch'[e]].state = "reserved"
                      /\ delivery'[e] = "sent" => /\ inBatch'[e] \in Batches /\ mailed'[inBatch'[e]] > 0
                                                  /\ batch'[inBatch'[e]].lines[e] # "none"
    BY DEF DeliveriesAccounted, Mailed
  <2>1. /\ delivery[e] = "reserved" => inBatch[e] \in Batches /\ batch[inBatch[e]].state = "reserved"
        /\ delivery[e] = "sent" => /\ inBatch[e] \in Batches /\ mailed[inBatch[e]] > 0
                                   /\ batch[inBatch[e]].lines[e] # "none"
    BY DEF MailInv, DeliveriesAccounted, Mailed
  <2>2. ASSUME delivery'[e] = "reserved"
        PROVE  inBatch'[e] \in Batches /\ batch'[inBatch'[e]].state = "reserved"
    <3>1. delivery[e] = "reserved" /\ inBatch'[e] = inBatch[e] /\ inBatch[e] \in Batches
      BY <1>5, <2>1, <2>2 DEF Settling
    <3>2. CASE inBatch[e] = b
      BY <1>2, <3>1, <3>2
    <3>3. CASE inBatch[e] # b
      <4>1. Lasting(inBatch[e])
        BY <1>2, <3>1, <3>3
      <4> QED  BY <2>1, <2>2, <3>1, <4>1 DEF Lasting
    <3> QED  BY <3>2, <3>3
  <2>3. ASSUME delivery'[e] = "sent"
        PROVE  /\ inBatch'[e] \in Batches /\ mailed'[inBatch'[e]] > 0
               /\ batch'[inBatch'[e]].lines[e] # "none"
    <3>1. delivery[e] = "sent" /\ inBatch'[e] = inBatch[e]
      BY <1>5, <2>3
    <3>2. CASE inBatch[e] = b
      <4>1. IsFrozen(r)
        BY <1>1, <1>6, <2>1, <3>1, <3>2 DEF IsFrozen
      <4> QED  BY <1>1, <1>2, <2>1, <3>1, <3>2, <4>1
    <3>3. CASE inBatch[e] # b
      <4>1. Lasting(inBatch[e])
        BY <1>2, <2>1, <3>1, <3>3
      <4> QED  BY <1>2, <2>1, <3>1, <4>1 DEF Lasting
    <3> QED  BY <3>2, <3>3
  <2> QED  BY <2>2, <2>3
<1>18. Kept
  <2> SUFFICES ASSUME NEW c \in Batches PROVE Steady(c) /\ Honest(c)
    BY DEF Kept
  <2>1. CASE c # b
    <3>1. Lasting(c) /\ batch[c].attempts \in Nat
      BY <1>2, <1>4, <2>1 DEF Row
    <3> QED  BY <3>1 DEF Lasting, Steady, Honest, Ends
  <2>2. CASE c = b
    <3>1. Steady(b)
      BY <1>1, <1>2, <1>4 DEF Steady, IsFrozen, Ends
    <3>2. ASSUME NEW e \in Events, batch'[b].lines[e] # "none"
          PROVE  StillTrue(e, batch'[b].lines[e])
      <4>1. CASE IsFrozen(r)
        <5>1. e \in FrozenEvents(r)
          BY <1>2, <3>2, <4>1 DEF FrozenEvents
        <5> QED  BY <1>1, <1>2, <4>1, <5>1
      <4>2. CASE ~IsFrozen(r)
        BY <1>2, <3>2, <4>2 DEF Request, StillTrue
      <4> QED  BY <4>1, <4>2
    <3>3. mode[batch[b].who] # "off" /\ box[batch[b].who] = batch'[b].to
      BY <1>1, <1>2
    <3> QED  BY <2>2, <3>1, <3>2, <3>3 DEF Honest
  <2> QED  BY <2>1, <2>2
<1> QED  BY <1>10, <1>13, <1>15, <1>16, <1>17, <1>18 DEF MailInv

\* What freezing makes of the rows.
LEMMA Freezing ==
  ASSUME MailInv, NEW p \in Passes, CanGo(p), Holds(p, pass[p].on)
  PROVE  LET b == pass[p].on
             F == Freezes(p, b)
         IN  /\ F \in [Batches -> Row]
             /\ \A c \in Batches \ {b} : F[c] = batch[c]
             /\ F[b].state = "reserved" /\ F[b].owner = p /\ F[b].old = batch[b].old
             /\ F[b].who = batch[b].who /\ F[b].attempts = batch[b].attempts
             /\ F[b].lines = FrozenLines(p) /\ F[b].to = FrozenAddress(p)
<1> DEFINE b == pass[p].on
           r == pass[p].read
           M == pass[p].members
           f == [batch[b] EXCEPT !.lines = Request(M), !.to = box[r.who]]
<1>1. /\ b \in Batches /\ batch[b] \in Row /\ r \in Row /\ box[r.who] # "none"
      /\ r.who = batch[b].who /\ r.lines = batch[b].lines /\ r.to = batch[b].to
  BY Ready
<1>2. /\ batch \in [Batches -> Row] /\ box \in [Claimants -> Boxes \cup {"none"}]
      /\ says \in [Events -> Lines \cup {"none", "gone"}]
  BY DEF MailInv, MailTypeOK
<1>3. batch[b].state = "reserved" /\ batch[b].owner = p /\ batch[b].who # NoOne
  BY <1>1 DEF Holds, MailInv, RowsOK
<1>4. CASE IsFrozen(r)
  <2>1. Freezes(p, b) = batch /\ FrozenLines(p) = r.lines /\ FrozenAddress(p) = r.to
    BY <1>4 DEF Freezes, FrozenLines, FrozenAddress
  <2> HIDE DEF b, r
  <2> QED  BY <1>1, <1>2, <1>3, <2>1 DEF b, r
<1>5. CASE ~IsFrozen(r)
  <2>1. /\ Freezes(p, b) = [batch EXCEPT ![b] = f]
        /\ FrozenLines(p) = Request(M) /\ FrozenAddress(p) = box[r.who]
    BY <1>2, <1>5 DEF Freezes, FrozenLines, FrozenAddress
  <2>2. Request(M) \in [Events -> Lines \cup {"none"}]
    BY <1>2 DEF Request, Eligible
  <2>3. box[r.who] \in Boxes \cup {"none"}
    <3>1. r.who \in Claimants
      BY <1>1, <1>3 DEF Row
    <3> QED  BY <1>2, <3>1
  <2> HIDE DEF b, r, M
  <2>4. /\ f \in Row /\ f.state = batch[b].state /\ f.owner = batch[b].owner /\ f.old = batch[b].old
        /\ f.who = batch[b].who /\ f.attempts = batch[b].attempts
        /\ f.lines = Request(M) /\ f.to = box[r.who]
    BY <1>1, <2>2, <2>3 DEF Row
  <2> HIDE DEF f
  <2>5. /\ Freezes(p, b) \in [Batches -> Row] /\ Freezes(p, b)[b] = f
        /\ \A c \in Batches \ {b} : Freezes(p, b)[c] = batch[c]
    BY <1>1, <1>2, <2>1, <2>4
  <2> QED  BY <1>3, <2>1, <2>4, <2>5 DEF b
<1> QED  BY <1>4, <1>5

LEMMA AttemptsInv == ASSUME NEW p \in Passes PROVE MailInv /\ Attempts(p) => MailInv' /\ Kept
<1> SUFFICES ASSUME MailInv, Attempts(p) PROVE MailInv' /\ Kept
  OBVIOUS
<1> DEFINE b == pass[p].on
           r == pass[p].read
           D == Dropped(r, pass[p].members, b)
           F == Freezes(p, b)
<1>1. /\ CanGo(p) /\ Leave(D)
      /\ UNCHANGED <<recordVars, found, providerVars, bound>>
      /\ IF Holds(p, b)
         THEN /\ batch' = [F EXCEPT ![b].attempts = F[b].attempts + 1, ![b].leased = TRUE]
              /\ pass' = [pass EXCEPT ![p].at = "waiting"]
         ELSE UNCHANGED batch /\ TurnsAway(p)
  BY DEF Attempts
<1>2. /\ MailTypeOK /\ batch \in [Batches -> Row] /\ pass \in [Passes -> PassRow]
      /\ b \in Batches /\ D \in SUBSET Events /\ r \in Row
      /\ r.attempts < MAX_ATTEMPTS /\ (Holds(p, b) => r.attempts = batch[b].attempts)
  BY <1>1, Ready DEF MailInv, MailTypeOK
<1>3. /\ delivery' \in [Events -> {"none", "reserved"} \cup Ends]
      /\ inBatch' \in [Events -> Batches \cup {NoBatch}]
      /\ \A e \in Events : Settling(e)
  BY <1>1, <1>2, Left
<1>4. CASE ~Holds(p, b)
  <2>1. UNCHANGED batch /\ TurnsAway(p)
    BY <1>1, <1>4
  <2> HIDE DEF b, r, D, F
  <2>2. pass' \in [Passes -> PassRow] /\ \A q \in Passes : Passing(q)
    BY <1>2, <2>1, Turned, TurnedPassing
  <2>3. MailTypeOK'
    BY <1>1, <1>2, <1>3, <2>1, <2>2 DEF MailTypeOK, recordVars, providerVars
  <2>4. \A c \in Batches : Lasting(c) /\ Providing(c)
    BY <1>1, <2>1 DEF Lasting, Providing, providerVars
  <2> QED  BY <1>3, <2>2, <2>3, <2>4, EvolveInv
<1>5. CASE Holds(p, b)
  <2>1. /\ F \in [Batches -> Row]
        /\ \A c \in Batches \ {b} : F[c] = batch[c]
        /\ F[b].state = "reserved" /\ F[b].owner = p /\ F[b].old = batch[b].old
        /\ F[b].who = batch[b].who /\ F[b].attempts = batch[b].attempts
        /\ F[b].lines = FrozenLines(p) /\ F[b].to = FrozenAddress(p)
    BY <1>1, <1>5, Freezing
  <2>2. /\ batch' = [F EXCEPT ![b].attempts = F[b].attempts + 1, ![b].leased = TRUE]
        /\ pass' = [pass EXCEPT ![p].at = "waiting"]
    BY <1>1, <1>5
  <2> DEFINE g == [F[b] EXCEPT !.attempts = F[b].attempts + 1, !.leased = TRUE]
             n == [pass[p] EXCEPT !.at = "waiting"]
  <2>3. batch' = [F EXCEPT ![b] = g] /\ pass' = [pass EXCEPT ![p] = n]
    BY <1>2, <2>1, <2>2
  <2>4. n \in PassRow
    <3>1. pass[p] \in PassRow
      BY <1>2
    <3> QED  BY <3>1 DEF PassRow
  <2>5. F[b].attempts + 1 \in 0..MAX_ATTEMPTS /\ F[b].attempts \in Nat
    <3>1. batch[b].attempts < MAX_ATTEMPTS /\ batch[b].attempts \in 0..MAX_ATTEMPTS
      BY <1>2, <1>5 DEF Row
    <3> QED  BY <2>1, <3>1, MailAssumption
  <2>6. F[b] \in Row
    BY <1>2, <2>1
  <2> HIDE DEF b, r, D, F
  <2>7. /\ g \in Row /\ g.state = F[b].state /\ g.who = F[b].who /\ g.owner = F[b].owner
        /\ g.old = F[b].old /\ g.lines = F[b].lines /\ g.to = F[b].to /\ g.attempts = F[b].attempts + 1
    BY <2>5, <2>6 DEF Row
  <2> HIDE DEF g, n
  <2>8. /\ batch' \in [Batches -> Row] /\ pass' \in [Passes -> PassRow]
        /\ batch'[b] = g /\ \A c \in Batches \ {b} : batch'[c] = batch[c]
    BY <1>2, <2>1, <2>3, <2>4, <2>7
  <2>9. MailTypeOK'
    BY <1>1, <1>2, <1>3, <2>8 DEF MailTypeOK, recordVars, providerVars
  <2>10. \A c \in Batches \ {b} : Lasting(c) /\ batch'[c].owner \in {batch[c].owner, NoPass}
    BY <1>2, <2>8, StayLasting
  <2>11. /\ batch'[b].state = "reserved" /\ batch'[b].owner \in {p, NoPass}
         /\ batch'[b].old = batch[b].old /\ batch'[b].who = batch[b].who
         /\ batch'[b].lines = FrozenLines(p) /\ batch'[b].to = FrozenAddress(p)
         /\ batch'[b].attempts = batch[b].attempts + 1 /\ batch'[b].attempts > 0
    BY <2>1, <2>5, <2>7, <2>8
  <2>12. UNCHANGED providerVars
    BY <1>1
  <2> QED  BY <1>1, <1>5, <2>2, <2>9, <2>10, <2>11, <2>12, FreezeInv DEF b, r, D
<1> QED  BY <1>4, <1>5

LEMMA PassStopsInv == ASSUME NEW p \in Passes PROVE MailInv /\ PassStops(p) => MailInv' /\ Kept
<1> SUFFICES ASSUME MailInv, PassStops(p) PROVE MailInv' /\ Kept
  OBVIOUS
<1> DEFINE b == pass[p].on
           D == Dropped(pass[p].read, pass[p].members, b)
           F == Freezes(p, b)
<1>1. /\ pass' = [pass EXCEPT ![p] = Idle]
      /\ bound' = [bound EXCEPT !.crashes = bound.crashes + 1]
      /\ UNCHANGED <<recordVars, found>>
  BY DEF PassStops
<1>2. /\ MailTypeOK /\ bound' \in [changes : Nat, crashes : Nat]
      /\ batch \in [Batches -> Row] /\ pass \in [Passes -> PassRow]
  BY <1>1 DEF MailInv, MailTypeOK
<1>3. ASSUME batch' = Forgotten(p, batch), UNCHANGED <<delivery, inBatch>>,
             key' \in [Batches -> BOOLEAN], mailed' \in [Batches -> Nat],
             \A c \in Batches : Providing(c)
      PROVE  MailInv' /\ Kept
  <2>1. /\ batch' \in [Batches -> Row] /\ pass' \in [Passes -> PassRow]
        /\ \A c \in Batches : Lasting(c)
        /\ \A e \in Events : Settling(e)
        /\ \A q \in Passes : Passing(q)
    BY <1>1, <1>3, Leaving
  <2>2. MailTypeOK'
    BY <1>1, <1>2, <1>3, <2>1 DEF MailTypeOK, recordVars
  <2> QED  BY <1>3, <2>1, <2>2, EvolveInv
<1>4. CASE batch' = Forgotten(p, batch) /\ UNCHANGED <<delivery, inBatch, providerVars>>
  <2>1. /\ key' \in [Batches -> BOOLEAN] /\ mailed' \in [Batches -> Nat]
        /\ \A c \in Batches : Providing(c)
    BY <1>2, <1>4 DEF MailTypeOK, providerVars, Providing
  <2> QED  BY <1>3, <1>4, <2>1
<1>5. CASE /\ pass[p].at = "waiting"
           /\ \E did \in BOOLEAN : Arrives(b, did)
           /\ batch' = Forgotten(p, batch)
           /\ UNCHANGED <<delivery, inBatch>>
  <2>1. b \in Batches /\ batch[b].attempts > 0 /\ (mailed[b] > 0 => key[b])
    BY <1>5 DEF MailInv, PassesOK
  <2> HIDE DEF b
  <2>2. /\ key' \in [Batches -> BOOLEAN] /\ mailed' \in [Batches -> Nat]
        /\ \A c \in Batches : Providing(c)
    BY <1>2, <1>5, <2>1, ArrivesProviding
  <2> QED  BY <1>3, <1>5, <2>2
<1>6. CASE /\ CanGo(p) /\ Holds(p, b)
           /\ Leave(D)
           /\ batch' = Forgotten(p, F)
           /\ UNCHANGED providerVars
  <2>1. /\ F \in [Batches -> Row]
        /\ \A c \in Batches \ {b} : F[c] = batch[c]
        /\ F[b].state = "reserved" /\ F[b].owner = p /\ F[b].old = batch[b].old
        /\ F[b].who = batch[b].who /\ F[b].attempts = batch[b].attempts
        /\ F[b].lines = FrozenLines(p) /\ F[b].to = FrozenAddress(p)
    BY <1>6, Freezing
  <2>2. b \in Batches /\ D \in SUBSET Events
    BY <1>6, Ready
  <2> HIDE DEF F, D
  <2>3. /\ batch' \in [Batches -> Row]
        /\ \A c \in Batches : /\ batch'[c].who = F[c].who /\ batch'[c].attempts = F[c].attempts
                              /\ batch'[c].lines = F[c].lines /\ batch'[c].to = F[c].to
                              /\ batch'[c].state = F[c].state /\ batch'[c].old = F[c].old
                              /\ batch'[c].owner \in {F[c].owner, NoPass}
                              /\ F[c].owner = NoPass => batch'[c] = F[c]
    BY <1>2, <1>6, <2>1, Forgetting
  <2>4. /\ delivery' \in [Events -> {"none", "reserved"} \cup Ends]
        /\ inBatch' \in [Events -> Batches \cup {NoBatch}]
    BY <1>2, <1>6, <2>2, Left
  <2>5. pass' \in [Passes -> PassRow]
    BY <1>1, <1>2, Blank
  <2>6. MailTypeOK'
    BY <1>1, <1>2, <1>6, <2>3, <2>4, <2>5 DEF MailTypeOK, recordVars, providerVars
  <2>7. ASSUME NEW c \in Batches \ {b}
        PROVE  Lasting(c) /\ batch'[c].owner \in {batch[c].owner, NoPass}
    <3>1. F[c] = batch[c]
      BY <2>1
    <3>2. batch[c].state = "none" => batch[c].owner = NoPass
      BY DEF MailInv, RowsOK, NewRow
    <3> HIDE DEF b
    <3> QED  BY <2>3, <3>1, <3>2 DEF Lasting
  <2>8. /\ batch'[b].state = "reserved" /\ batch'[b].owner \in {p, NoPass}
        /\ batch'[b].old = batch[b].old /\ batch'[b].who = batch[b].who
        /\ batch'[b].lines = FrozenLines(p) /\ batch'[b].to = FrozenAddress(p)
        /\ batch'[b].attempts = batch[b].attempts
    BY <2>1, <2>2, <2>3
  <2> QED  BY <1>1, <1>6, <2>6, <2>7, <2>8, FreezeInv DEF D
<1> QED  BY <1>4, <1>5, <1>6 DEF PassStops

LEMMA TakeUpInv == ASSUME NEW p \in Passes, NEW b \in Batches PROVE MailInv /\ TakeUp(p, b) => MailInv' /\ Kept
<1> SUFFICES ASSUME MailInv, TakeUp(p, b) PROVE MailInv' /\ Kept
  OBVIOUS
<1> DEFINE M == {e \in Events : inBatch[e] = b /\ delivery[e] = "reserved"}
<1>1. /\ pass[p].at = "sending" /\ b \in pass[p].mine
      /\ UNCHANGED <<recordVars, found, delivery, inBatch, providerVars, bound>>
      /\ IF LeaseFree(p, b)
         THEN /\ batch' = [batch EXCEPT ![b].owner = p, ![b].leased = TRUE]
              /\ pass' = [pass EXCEPT ![p].at = "checking", ![p].on = b, ![p].read = batch[b],
                                      ![p].members = M]
         ELSE /\ pass' = [pass EXCEPT ![p].mine = pass[p].mine \ {b}]
              /\ UNCHANGED batch
  BY DEF TakeUp
<1>2. /\ MailTypeOK /\ batch \in [Batches -> Row] /\ pass \in [Passes -> PassRow]
      /\ batch[b] \in Row /\ pass[p] \in PassRow /\ M \in SUBSET Events
  BY DEF MailInv, MailTypeOK
<1>3. \A e \in Events : Settling(e)
  BY <1>1 DEF Settling
<1>4. \A c \in Batches : Providing(c)
  BY <1>1 DEF Providing, providerVars
<1> HIDE DEF M
<1>5. CASE ~LeaseFree(p, b)
  <2> DEFINE n == [pass[p] EXCEPT !.mine = pass[p].mine \ {b}]
  <2>1. /\ n \in PassRow /\ n.at = "sending" /\ n.mine \subseteq pass[p].mine
        /\ n.members = pass[p].members /\ n.on = pass[p].on
    BY <1>1, <1>2 DEF PassRow
  <2>2. pass' = [pass EXCEPT ![p] = n] /\ batch' = batch
    BY <1>1, <1>5
  <2> HIDE DEF n
  <2>3. pass' \in [Passes -> PassRow] /\ \A q \in Passes : Passing(q)
    BY <1>2, <2>1, <2>2 DEF Passing
  <2>4. \A c \in Batches : Lasting(c)
    BY <2>2 DEF Lasting
  <2>5. MailTypeOK'
    BY <1>1, <1>2, <2>2, <2>3 DEF MailTypeOK, recordVars, providerVars
  <2> QED  BY <1>3, <1>4, <2>3, <2>4, <2>5, EvolveInv
<1>6. CASE LeaseFree(p, b)
  <2> DEFINE n == [pass[p] EXCEPT !.at = "checking", !.on = b, !.read = batch[b], !.members = M]
             g == [batch[b] EXCEPT !.owner = p, !.leased = TRUE]
  <2>1. /\ n \in PassRow /\ n.at = "checking" /\ n.mine = pass[p].mine /\ n.on = b
        /\ n.read = batch[b] /\ n.members = M
    BY <1>2 DEF PassRow
  <2>2. /\ g \in Row /\ g.state = batch[b].state /\ g.who = batch[b].who /\ g.attempts = batch[b].attempts
        /\ g.old = batch[b].old /\ g.lines = batch[b].lines /\ g.to = batch[b].to /\ g.owner = p
    BY <1>2 DEF Row
  <2>3. pass' = [pass EXCEPT ![p] = n] /\ batch' = [batch EXCEPT ![b] = g]
    BY <1>1, <1>2, <1>6
  <2>4. batch[b].state = "reserved"
    BY <1>6 DEF LeaseFree
  <2> HIDE DEF n, g
  <2>5. \A c \in Batches : Lasting(c)
    BY <1>2, <2>2, <2>3, <2>4 DEF Lasting
  <2>6. ASSUME NEW q \in Passes PROVE Passing(q)
    <3>1. CASE q = p
      BY <1>2, <2>1, <2>2, <2>3, <2>4, <3>1 DEF Passing, Taking, M
    <3>2. CASE q # p
      BY <1>2, <2>2, <2>3, <3>2 DEF Passing
    <3> QED  BY <3>1, <3>2
  <2>7. pass' \in [Passes -> PassRow] /\ batch' \in [Batches -> Row]
    BY <1>2, <2>1, <2>2, <2>3
  <2>8. MailTypeOK'
    BY <1>1, <1>2, <2>7 DEF MailTypeOK, recordVars, providerVars
  <2> QED  BY <1>3, <1>4, <2>5, <2>6, <2>8, EvolveInv
<1> QED  BY <1>5, <1>6

\* Events in no delivery go to batches not used before.
LEMMA PassReservesInv == ASSUME NEW p \in Passes PROVE MailInv /\ PassReserves(p) => MailInv' /\ Kept
<1> SUFFICES ASSUME MailInv, PassReserves(p) PROVE MailInv' /\ Kept
  OBVIOUS
<1> DEFINE who == {c \in Claimants : Bindable(p, c) # {}}
<1>1. /\ pass[p].at = "listed"
      /\ UNCHANGED <<recordVars, found, providerVars, bound>>
  BY DEF PassReserves
<1>2. PICK b \in Fresh(who) :
           LET taken == {b[c] : c \in who}
               Takes(e) == ClaimantOf[e] \in who /\ e \in Bindable(p, ClaimantOf[e])
           IN  /\ delivery' = [e \in Events |-> IF Takes(e) THEN "reserved" ELSE delivery[e]]
               /\ inBatch' = [e \in Events |-> IF Takes(e) THEN b[ClaimantOf[e]] ELSE inBatch[e]]
               /\ batch' = [x \in Batches |->
                              IF x \in taken
                              THEN [NewRow EXCEPT !.state = "reserved", !.owner = p, !.leased = TRUE,
                                                  !.who = CHOOSE c \in who : b[c] = x]
                              ELSE IF x \in Due
                              THEN [batch[x] EXCEPT !.owner = p, !.leased = TRUE]
                              ELSE batch[x]]
               /\ pass' = [pass EXCEPT ![p].at = "sending", ![p].ok = {}, ![p].mine = taken \cup Due]
  BY DEF PassReserves
<1> DEFINE taken == {b[c] : c \in who}
           Takes(e) == ClaimantOf[e] \in who /\ e \in Bindable(p, ClaimantOf[e])
<1>3. b \in [who -> Unused]
  BY <1>2 DEF Fresh
<1>4. /\ MailTypeOK /\ batch \in [Batches -> Row] /\ pass \in [Passes -> PassRow]
      /\ delivery \in [Events -> {"none", "reserved"} \cup Ends]
      /\ inBatch \in [Events -> Batches \cup {NoBatch}]
      /\ \A x \in Batches : x # NoBatch
      /\ RowsOK /\ PassesOK /\ ClaimsOK /\ LinesOK /\ DeliveriesAccounted
  BY MailAssumption DEF MailInv, MailTypeOK
<1>5. \A c \in who : b[c] \in Unused
  BY <1>3
<1>6. taken \subseteq Batches /\ \A x \in taken : batch[x].state = "none" /\ batch[x] = NewRow
  BY <1>4, <1>5 DEF Unused, RowsOK
<1>7. Due \subseteq Batches /\ \A x \in Due : batch[x].state = "reserved"
  BY DEF Due
<1>8. \A e \in Events : Takes(e) => delivery[e] = "none" /\ b[ClaimantOf[e]] \in taken
  BY DEF Bindable
<1>9. \A e \in Events :
        /\ Takes(e) => delivery'[e] = "reserved" /\ inBatch'[e] = b[ClaimantOf[e]]
        /\ ~Takes(e) => delivery'[e] = delivery[e] /\ inBatch'[e] = inBatch[e]
  BY <1>2
<1> DEFINE f(x) == [NewRow EXCEPT !.state = "reserved", !.owner = p, !.leased = TRUE,
                                  !.who = CHOOSE c \in who : b[c] = x]
           g(x) == [batch[x] EXCEPT !.owner = p, !.leased = TRUE]
<1>10. \A x \in Batches : batch'[x] = IF x \in taken THEN f(x) ELSE IF x \in Due THEN g(x) ELSE batch[x]
  BY <1>2
<1>11. batch' = [x \in Batches |-> batch'[x]]
  BY <1>2
<1>12. ASSUME NEW x \in taken
       PROVE  /\ f(x) \in Row /\ f(x).state = "reserved" /\ f(x).attempts = 0 /\ f(x).lines = NoLines
              /\ f(x).to = "none" /\ f(x).owner = p /\ f(x).who # NoOne
  <2>1. PICK c \in who : b[c] = x
    OBVIOUS
  <2> DEFINE w == CHOOSE d \in who : b[d] = x
  <2>2. w \in who
    BY <2>1
  <2>3. w \in Claimants /\ w # NoOne
    BY <2>2, MailAssumption
  <2>4. NewRow \in Row
    BY Blank
  <2>5. f(x) = [NewRow EXCEPT !.state = "reserved", !.owner = p, !.leased = TRUE, !.who = w]
    OBVIOUS
  <2> HIDE DEF f, w, who, taken
  <2> QED  BY <2>3, <2>4, <2>5 DEF NewRow, Row
<1>13. ASSUME NEW x \in Due
       PROVE  /\ g(x) \in Row /\ g(x).state = batch[x].state /\ g(x).who = batch[x].who
              /\ g(x).attempts = batch[x].attempts /\ g(x).old = batch[x].old
              /\ g(x).lines = batch[x].lines /\ g(x).to = batch[x].to /\ g(x).owner = p
  <2>1. batch[x] \in Row
    BY <1>4, <1>7
  <2> QED  BY <2>1 DEF Row
<1> DEFINE n == [pass[p] EXCEPT !.at = "sending", !.ok = {}, !.mine = taken \cup Due]
<1>14. /\ n \in PassRow /\ n.at = "sending" /\ n.mine = taken \cup Due
       /\ n.members = pass[p].members /\ n.on = pass[p].on
  <2>1. pass[p] \in PassRow
    BY <1>4
  <2>2. taken \cup Due \subseteq Batches
    BY <1>6, <1>7
  <2> HIDE DEF taken
  <2> QED  BY <2>1, <2>2 DEF PassRow
<1>15. pass' = [pass EXCEPT ![p] = n]
  BY <1>2, <1>4
<1>16. delivery' \in [Events -> {"none", "reserved"} \cup Ends]
  BY <1>2, <1>4
<1>17. inBatch' \in [Events -> Batches \cup {NoBatch}]
  <2>1. \A e \in Events : inBatch'[e] \in Batches \cup {NoBatch}
    BY <1>4, <1>6, <1>8, <1>9
  <2>2. inBatch' = [e \in Events |-> inBatch'[e]]
    BY <1>2
  <2> QED  BY <2>1, <2>2
<1> HIDE DEF who, taken, f, g, n, Takes
<1>18. batch' \in [Batches -> Row]
  <2>1. \A x \in Batches : batch'[x] \in Row
    BY <1>4, <1>10, <1>12, <1>13
  <2> QED  BY <1>11, <2>1
<1>19. /\ pass' \in [Passes -> PassRow] /\ pass'[p] = n
       /\ \A q \in Passes : q # p => pass'[q] = pass[q]
  BY <1>4, <1>14, <1>15
<1>20. MailTypeOK'
  BY <1>1, <1>4, <1>16, <1>17, <1>18, <1>19 DEF MailTypeOK, recordVars, providerVars
\* Rows in use keep all but their lease, rows not in use are as they were or new.
<1>21. \A x \in Batches :
         \/ /\ x \in taken /\ batch'[x].state = "reserved" /\ batch'[x].attempts = 0
            /\ batch'[x].lines = NoLines /\ batch'[x].to = "none" /\ batch'[x].who # NoOne
            /\ batch'[x].owner = p
         \/ /\ x \notin taken /\ batch'[x].state = batch[x].state /\ batch'[x].who = batch[x].who
            /\ batch'[x].attempts = batch[x].attempts /\ batch'[x].old = batch[x].old
            /\ batch'[x].lines = batch[x].lines /\ batch'[x].to = batch[x].to
            /\ batch'[x].owner \in {batch[x].owner, p}
            /\ batch[x].state = "none" => batch'[x] = batch[x]
  <2> SUFFICES ASSUME NEW x \in Batches
               PROVE  \/ /\ x \in taken /\ batch'[x].state = "reserved" /\ batch'[x].attempts = 0
                         /\ batch'[x].lines = NoLines /\ batch'[x].to = "none" /\ batch'[x].who # NoOne
                         /\ batch'[x].owner = p
                      \/ /\ x \notin taken /\ batch'[x].state = batch[x].state /\ batch'[x].who = batch[x].who
                         /\ batch'[x].attempts = batch[x].attempts /\ batch'[x].old = batch[x].old
                         /\ batch'[x].lines = batch[x].lines /\ batch'[x].to = batch[x].to
                         /\ batch'[x].owner \in {batch[x].owner, p}
                         /\ batch[x].state = "none" => batch'[x] = batch[x]
    OBVIOUS
  <2>1. CASE x \in taken
    BY <1>10, <1>12, <2>1
  <2>2. CASE x \notin taken /\ x \in Due
    <3>1. batch'[x] = g(x) /\ batch[x].state # "none"
      BY <1>7, <1>10, <2>2
    <3> QED  BY <1>13, <2>2, <3>1
  <2>3. CASE x \notin taken /\ x \notin Due
    BY <1>10, <2>3
  <2> QED  BY <2>1, <2>2, <2>3
<1>22. key' = key /\ mailed' = mailed
  BY <1>1 DEF providerVars
<1>23. NewRow.attempts = 0 /\ NewRow.lines = NoLines /\ \A e \in Events : NoLines[e] = "none"
  BY DEF NewRow, NoLines
<1>24. \A x \in taken : batch[x].attempts = 0 /\ ~(mailed[x] > 0) /\ mailed[x] <= 1 /\ ~key[x]
  <2> SUFFICES ASSUME NEW x \in taken
               PROVE  batch[x].attempts = 0 /\ ~(mailed[x] > 0) /\ mailed[x] <= 1 /\ ~key[x]
    OBVIOUS
  <2>1. x \in Batches /\ batch[x].attempts = 0
    BY <1>6, <1>23
  <2>2. (mailed[x] > 0 => batch[x].attempts > 0) /\ mailed[x] <= 1 /\ (key[x] => mailed[x] > 0)
    BY <1>4, <2>1 DEF RowsOK
  <2> QED  BY <2>1, <2>2
<1>25. RowsOK'
  <2> SUFFICES ASSUME NEW c \in Batches
               PROVE  /\ batch'[c].state = "none" => batch'[c] = NewRow
                      /\ batch'[c].state # "none" => batch'[c].who # NoOne
                      /\ batch'[c].to = "none" => batch'[c].lines = NoLines
                      /\ batch'[c].attempts > 0 => batch'[c].to # "none"
                      /\ mailed'[c] <= 1 /\ (key'[c] => mailed'[c] > 0)
                      /\ mailed'[c] > 0 => batch'[c].attempts > 0
                      /\ mailed'[c] > 0 /\ ~key'[c] => batch'[c].old
    BY DEF RowsOK
  <2>1. CASE c \in taken
    BY <1>21, <1>22, <1>24, <2>1
  <2>2. CASE c \notin taken
    BY <1>4, <1>21, <1>22, <2>2 DEF RowsOK
  <2> QED  BY <2>1, <2>2
<1>26. \A c \in Batches : batch[c].state # "none" => c \notin taken /\ batch'[c].state # "none"
  BY <1>6, <1>21
<1>27. PassesOK'
  <2> SUFFICES ASSUME NEW q \in Passes
               PROVE  /\ \A c \in pass'[q].mine : batch'[c].state # "none"
                      /\ pass'[q].at \in {"checking", "waiting"} =>
                           pass'[q].on \in Batches /\ batch'[pass'[q].on].state # "none"
                      /\ pass'[q].at = "checking" =>
                           /\ Holds(q, pass[q].on)' =>
                                /\ pass'[q].read.who = batch'[pass'[q].on].who
                                /\ pass'[q].read.attempts = batch'[pass'[q].on].attempts
                                /\ pass'[q].read.lines = batch'[pass'[q].on].lines
                                /\ pass'[q].read.to = batch'[pass'[q].on].to
                           /\ \A e \in Events : inBatch'[e] = pass'[q].on /\ delivery'[e] = "reserved"
                                                  => e \in pass'[q].members
                      /\ pass'[q].at = "waiting" =>
                           /\ batch'[pass'[q].on].attempts > 0
                           /\ mailed'[pass'[q].on] > 0 => key'[pass'[q].on]
    BY DEF PassesOK
  <2>1. CASE q = p
    <3>1. \A c \in taken \cup Due : batch'[c].state # "none"
      BY <1>6, <1>7, <1>21
    <3> QED  BY <1>14, <1>19, <2>1, <3>1
  <2>2. CASE q # p
    <3>1. /\ pass'[q] = pass[q] /\ pass[q].mine \subseteq Batches
      BY <1>4, <1>19, <2>2 DEF PassRow
    <3>2. /\ \A c \in pass[q].mine : batch[c].state # "none"
          /\ pass[q].at \in {"checking", "waiting"} =>
                           pass[q].on \in Batches /\ batch[pass[q].on].state # "none"
          /\ pass[q].at = "checking" =>
                 /\ Holds(q, pass[q].on) =>
                                /\ pass[q].read.who = batch[pass[q].on].who
                                /\ pass[q].read.attempts = batch[pass[q].on].attempts
                                /\ pass[q].read.lines = batch[pass[q].on].lines
                                /\ pass[q].read.to = batch[pass[q].on].to
                 /\ \A e \in Events : inBatch[e] = pass[q].on /\ delivery[e] = "reserved"
                                                  => e \in pass[q].members
          /\ pass[q].at = "waiting" =>
                           /\ batch[pass[q].on].attempts > 0
                           /\ mailed[pass[q].on] > 0 => key[pass[q].on]
      BY <1>4 DEF PassesOK
    <3>3. \A c \in pass'[q].mine : batch'[c].state # "none"
      BY <1>26, <3>1, <3>2
    <3> DEFINE c == pass[q].on
               s == pass[q].read
    <3>4. ASSUME c \in Batches, batch[c].state # "none"
          PROVE  /\ c \notin taken /\ batch'[c].state = batch[c].state /\ batch'[c].who = batch[c].who
                 /\ batch'[c].attempts = batch[c].attempts /\ batch'[c].lines = batch[c].lines
                 /\ batch'[c].to = batch[c].to /\ batch'[c].owner \in {batch[c].owner, p}
      BY <1>21, <1>26, <3>4
    <3>5. CASE pass[q].at = "waiting"
      BY <1>22, <3>1, <3>2, <3>3, <3>4, <3>5
    <3>6. CASE pass[q].at = "checking"
      <4>1. /\ c \in Batches /\ batch[c].state # "none"
            /\ batch[c].state = "reserved" /\ batch[c].owner = q =>
                                /\ s.who = batch[c].who /\ s.attempts = batch[c].attempts
                                /\ s.lines = batch[c].lines /\ s.to = batch[c].to
            /\ \A e \in Events : inBatch[e] = c /\ delivery[e] = "reserved" => e \in pass[q].members
        BY <3>2, <3>6 DEF Holds
      <4> HIDE DEF c, s
      <4>2. batch'[c].state = "reserved" /\ batch'[c].owner = q =>
              /\ s.who = batch'[c].who /\ s.attempts = batch'[c].attempts
              /\ s.lines = batch'[c].lines /\ s.to = batch'[c].to
        BY <2>2, <3>4, <4>1
      <4>3. \A e \in Events : inBatch'[e] = c /\ delivery'[e] = "reserved" => e \in pass[q].members
        BY <1>8, <1>9, <3>4, <4>1
      <4>4. batch'[c].state # "none"
        BY <1>26, <4>1
      <4> QED  BY <3>1, <3>3, <3>6, <4>1, <4>2, <4>3, <4>4 DEF c, s, Holds
    <3>7. CASE pass[q].at \notin {"checking", "waiting"}
      BY <3>1, <3>3, <3>7
    <3> QED  BY <3>5, <3>6, <3>7
  <2> QED  BY <2>1, <2>2
<1>28. ASSUME NEW e \in Events, NEW x \in Batches, ClaimedBy(e, x)'
       PROVE  IF Takes(e) THEN x = b[ClaimantOf[e]] ELSE ClaimedBy(e, x)
  <2>1. ClaimedBy(e, x) => ~Takes(e)
    BY <1>4, <1>8 DEF ClaimsOK
  <2>2. CASE batch'[x].lines[e] # "none"
    BY <1>21, <1>23, <2>1, <2>2 DEF ClaimedBy
  <2>3. CASE inBatch'[e] = x
    BY <1>9, <2>3 DEF ClaimedBy
  <2>4. ASSUME NEW q \in Passes, pass'[q].on = x, e \in pass'[q].members
        PROVE  ClaimedBy(e, x)
    BY <1>14, <1>19, <2>4 DEF ClaimedBy
  <2> QED  BY <1>28, <2>1, <2>2, <2>3, <2>4 DEF ClaimedBy
<1>29. ClaimsOK'
  <2>1. ASSUME NEW e \in Events, NEW c \in Batches, NEW d \in Batches, ClaimedBy(e, c)', ClaimedBy(e, d)'
        PROVE  c = d
    BY <1>4, <1>28, <2>1 DEF ClaimsOK
  <2>2. ASSUME NEW e \in Events, NEW c \in Batches, ClaimedBy(e, c)' PROVE delivery'[e] # "none"
    BY <1>4, <1>9, <1>28, <2>2 DEF ClaimsOK
  <2> QED  BY <2>1, <2>2 DEF ClaimsOK
<1>30. LinesOK'
  <2> SUFFICES ASSUME NEW e \in Events, NEW c \in Batches, batch'[c].attempts > 0,
                      inBatch'[e] = c, delivery'[e] = "reserved"
               PROVE  batch'[c].lines[e] # "none"
    BY DEF LinesOK
  <2>1. c \notin taken
    BY <1>21
  <2>2. ~Takes(e)
    BY <1>8, <1>9, <2>1
  <2> QED  BY <1>4, <1>9, <1>21, <2>1, <2>2 DEF LinesOK
<1>31. DeliveriesAccounted'
  <2> SUFFICES ASSUME NEW e \in Events
               PROVE  /\ delivery'[e] = "reserved" => /\ inBatch'[e] \in Batches
                                                      /\ batch'[inBatch'[e]].state = "reserved"
                      /\ delivery'[e] = "sent" => /\ inBatch'[e] \in Batches /\ mailed'[inBatch'[e]] > 0
                                                  /\ batch'[inBatch'[e]].lines[e] # "none"
    BY DEF DeliveriesAccounted, Mailed
  <2>1. /\ delivery[e] = "reserved" => inBatch[e] \in Batches /\ batch[inBatch[e]].state = "reserved"
        /\ delivery[e] = "sent" => /\ inBatch[e] \in Batches /\ mailed[inBatch[e]] > 0
                                   /\ batch[inBatch[e]].lines[e] # "none"
    BY <1>4 DEF DeliveriesAccounted, Mailed
  <2>2. CASE Takes(e)
    <3>1. delivery'[e] = "reserved" /\ inBatch'[e] \in taken
      BY <1>8, <1>9, <2>2
    <3> QED  BY <1>6, <1>21, <3>1
  <2>3. CASE ~Takes(e)
    <3>1. delivery'[e] = delivery[e] /\ inBatch'[e] = inBatch[e]
      BY <1>9, <2>3
    <3>2. \A x \in Batches : mailed[x] > 0 => x \notin taken
      BY <1>24
    <3>3. \A x \in Batches : batch[x].state = "reserved" => batch'[x].state = "reserved"
      BY <1>21, <1>26
    <3>4. \A x \in Batches : x \notin taken => batch'[x].lines = batch[x].lines
      BY <1>21
    <3> QED  BY <1>22, <2>1, <3>1, <3>2, <3>3, <3>4
  <2> QED  BY <2>2, <2>3
<1>32. Kept
  <2> SUFFICES ASSUME NEW x \in Batches PROVE Steady(x) /\ Honest(x)
    BY DEF Kept
  <2>1. CASE x \in taken
    <3>1. batch[x].state = "none" /\ batch[x].to = "none" /\ batch[x].attempts = 0
      BY <1>6, <1>24, <2>1 DEF NewRow
    <3>2. batch'[x].attempts = 0
      BY <1>21, <2>1
    <3> QED  BY <3>1, <3>2 DEF Steady, Honest, IsFrozen, Ends
  <2>2. CASE x \notin taken
    <3>1. /\ batch'[x].state = batch[x].state /\ batch'[x].attempts = batch[x].attempts
          /\ batch'[x].lines = batch[x].lines /\ batch'[x].to = batch[x].to
          /\ batch[x].attempts \in Nat
      BY <1>4, <1>21, <2>2 DEF Row
    <3> QED  BY <3>1 DEF Steady, Honest
  <2> QED  BY <2>1, <2>2
<1> QED  BY <1>20, <1>25, <1>27, <1>29, <1>30, <1>31, <1>32 DEF MailInv

-----------------------------------------------------------------------------
(* The specification.                                                      *)

LEMMA NextInv == MailInv /\ [Next]_vars => MailInv' /\ Kept
<1> SUFFICES ASSUME MailInv, [Next]_vars PROVE MailInv' /\ Kept
  OBVIOUS
<1>1. CASE Change
  BY <1>1, ChangeInv
<1>2. ASSUME NEW p \in Passes, PassStep(p) PROVE MailInv' /\ Kept
  BY <1>2, PassStartsInv, PassReservesInv, TakeUpInv, SetsAsideInv, AttemptsInv, AnsweredInv, PassEndsInv
     DEF PassStep
<1>3. ASSUME NEW p \in Passes, PassStops(p) PROVE MailInv' /\ Kept
  BY <1>3, PassStopsInv
<1>4. ASSUME NEW b \in Batches, LeaseEnds(b) \/ Stalls(b) \/ AttemptAges(b) PROVE MailInv' /\ Kept
  BY <1>4, TimeInv
<1>5. ASSUME NEW b \in Batches, KeyForgotten(b) PROVE MailInv' /\ Kept
  BY <1>5, KeyForgottenInv
<1>6. CASE UNCHANGED vars
  <2>1. MailTypeOK'
    BY <1>6 DEF MailInv, MailTypeOK, vars, recordVars, tableVars, providerVars
  <2>2. \A b \in Batches : Lasting(b) /\ Providing(b)
    BY <1>6 DEF Lasting, Providing, vars, tableVars, providerVars
  <2>3. (\A e \in Events : Settling(e)) /\ (\A p \in Passes : Passing(p))
    BY <1>6 DEF Settling, Passing, vars, tableVars
  <2> QED  BY <2>1, <2>2, <2>3, EvolveInv
<1> QED  BY <1>1, <1>2, <1>3, <1>4, <1>5, <1>6 DEF Next

\* The inductive invariant holds of every behaviour, whatever the bounds.
THEOREM MailInvariant == Spec => []MailInv
<1>1. Init => MailInv
  BY InitInv
<1>2. MailInv /\ [Next]_vars => MailInv'
  BY NextInv
<1> QED  BY <1>1, <1>2, PTL DEF Spec

\* The tables and the passes keep their types.
THEOREM MailIsTyped == Spec => []MailTypeOK
<1>1. MailInv => MailTypeOK
  BY DEF MailInv
<1> QED  BY <1>1, MailInvariant, PTL

\* Nobody is mailed the same change twice (claimants.ts:17-31): the batches an
\* event was frozen in are one, and the provider got that one's key once.
THEOREM NobodyIsToldTwice == Spec => []NeverTwice
<1>1. MailInv => NeverTwice
  <2> SUFFICES ASSUME MailInv PROVE NeverTwice
    OBVIOUS
  <2>1. \A b \in Batches : mailed[b] <= 1
    BY DEF MailInv, RowsOK
  <2>2. ASSUME NEW e \in Events PROVE Cardinality(Mailed(e)) <= 1
    <3>1. \A b, c \in Mailed(e) : b = c
      BY DEF MailInv, ClaimsOK, ClaimedBy, Mailed
    <3>2. CASE Mailed(e) = {}
      BY <3>2, FS_EmptySet
    <3>3. ASSUME NEW b \in Mailed(e) PROVE Cardinality(Mailed(e)) <= 1
      <4>1. Mailed(e) = {b}
        BY <3>1, <3>3
      <4>2. Cardinality({b}) = 1
        BY FS_Singleton
      <4> QED  BY <4>1, <4>2
    <3> QED  BY <3>2, <3>3
  <2> QED  BY <2>1, <2>2 DEF NeverTwice
<1> QED  BY <1>1, MailInvariant, PTL

\* No event is lost between the tables: what is in delivery is in a batch that
\* is, and what is recorded as sent was mailed.
THEOREM NoEventIsLost == Spec => []DeliveriesAccounted
<1>1. MailInv => DeliveriesAccounted
  BY DEF MailInv
<1> QED  BY <1>1, MailInvariant, PTL

\* No request leaves that is not true any more, or not wanted, or not there.
THEOREM SentIsTrue == Spec => MailIsTrue
<1>1. MailInv /\ [Next]_vars =>
        [\A b \in Batches : batch'[b].attempts > batch[b].attempts =>
           /\ \A e \in Events : batch'[b].lines[e] # "none" => StillTrue(e, batch'[b].lines[e])
           /\ mode[batch[b].who] # "off"
           /\ box[batch[b].who] = batch'[b].to]_vars
  BY NextInv DEF Kept, Honest
<1> QED  BY <1>1, MailInvariant, PTL DEF Spec, MailIsTrue

\* A frozen request and a settled outcome never change again.
THEOREM FrozenStays == Spec => FrozenForGood
<1>1. MailInv /\ [Next]_vars =>
        [\A b \in Batches :
           /\ IsFrozen(batch[b]) => batch'[b].lines = batch[b].lines /\ batch'[b].to = batch[b].to
           /\ batch[b].state \in Ends => batch'[b].state = batch[b].state]_vars
  BY NextInv DEF Kept, Steady
<1> QED  BY <1>1, MailInvariant, PTL DEF Spec, FrozenForGood
=============================================================================
