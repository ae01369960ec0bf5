---------------------------- MODULE SignalPrivacy ----------------------------
(***************************************************************************)
(* The private side of signals (src/utils/signal-private.ts).  A signal is *)
(* one row of `signals`, which every fork of the commons reads, and at     *)
(* most one row of the local table `signal_private`, which keeps what the  *)
(* public row must not show and the reasons for it.  Pure operators on one *)
(* signal; the handlers that use them are in Review.                       *)
(*                                                                         *)
(* Columns that every reason treats alike are one column here.  A value is *)
(* its original ("orig", the trace as last written included), the public   *)
(* projection of an admin record ("view"), the name "anonymous", or        *)
(* nothing ("null").  A column that was empty to begin with is taken for   *)
(* one with an original.                                                   *)
(***************************************************************************)
EXTENDS FiniteSets

Cols == {"words",       \* summary, source_url, processing_trace
         "content",     \* content, and the title, which no before-image is in
         "provenance",  \* provenance_chain
         "name",        \* submitted_by
         "batch"}       \* batch_id

WordCols == {"words", "content", "provenance"}
WhoCols == {"provenance", "name", "batch"}

WordReasons == {"structural_only", "revoked", "rejected", "withdrawn",
                "pending", "objection"}
Reasons == WordReasons \cup {"pending_name", "anonymous", "before_images",
                             "private_batch"}

Values == {"orig", "view", "anonymous", "null"}

\* A signal: its public row, the originals kept, the reasons ("{}" means that
\* there is no private row).
Signal == [crr : [Cols -> Values], kept : [Cols -> Values], reasons : SUBSET Reasons]

\* Which columns a reason withholds.
ColsFor(r) == {c \in Cols : \/ r \in WordReasons /\ c \in WordCols
                            \/ r = "pending_name" /\ c = "name"
                            \/ r = "anonymous" /\ c \in WhoCols
                            \/ r \in {"before_images", "private_batch"} /\ c = "content"}

Covered(R) == UNION {ColsFor(r) : r \in R}

\* What a withheld cell holds.  The name of an anonymous signal says so.
BlankOf(c, r) == IF c = "name" /\ r # "pending_name" THEN "anonymous" ELSE "null"

Plain == [crr |-> [c \in Cols |-> "orig"],
          kept |-> [c \in Cols |-> "null"],
          reasons |-> {}]

\* insertSignalRow: the signal is born with its private parts split off.  No
\* signal is born both anonymous and with its name held back for review.
Born(R) ==
  [crr |-> [c \in Cols |-> IF c \notin Covered(R) THEN "orig"
                           ELSE IF c = "name" /\ "anonymous" \in R THEN "anonymous"
                           ELSE "null"],
   kept |-> [c \in Cols |-> IF c \in Covered(R) THEN "orig" ELSE "null"],
   reasons |-> R]

\* insertAdminSignal: the record of a correction, its content shown without
\* before-images and without a private handle.
AdminRecord(R) ==
  [Plain EXCEPT !.crr["content"] = IF R = {} THEN "orig" ELSE "view",
                !.kept["content"] = IF R = {} THEN "null" ELSE "orig",
                !.reasons = R]

-----------------------------------------------------------------------------
(* Withholding.                                                            *)

\* The cells a reason is about to blank.
ToBlank(p, r) == {c \in ColsFor(r) : p.crr[c] \notin {"null", BlankOf(c, r)}}

\* A public value that is exactly the projection of what is kept.
IsProjection(p, c) ==
  /\ c = "content"
  /\ p.crr[c] = "view"
  /\ p.reasons \cap {"before_images", "private_batch"} # {}

\* Mutated form: a projection is not recognised.
ConflictOnViews(p, r) ==
  \E c \in ToBlank(p, r) : p.kept[c] \notin {"null", p.crr[c]}
\* PrivacyConflictError: another value is kept already, and nothing is done.
Conflict(p, r) ==
  \E c \in ToBlank(p, r) : /\ p.kept[c] \notin {"null", p.crr[c]}
                           /\ ~IsProjection(p, c)

\* Mutated form: the last value withheld replaces the one kept.
WithheldLast(p, r) ==
  [crr |-> [c \in Cols |-> IF c \in ColsFor(r) THEN BlankOf(c, r) ELSE p.crr[c]],
   kept |-> [c \in Cols |-> IF c \in ColsFor(r) THEN p.crr[c] ELSE p.kept[c]],
   reasons |-> p.reasons \cup {r}]
\* withholdSignal: the originals are kept, unless kept already, then blanked.
Withheld(p, r) ==
  [crr |-> [c \in Cols |-> IF c \in ColsFor(r) THEN BlankOf(c, r) ELSE p.crr[c]],
   kept |-> [c \in Cols |-> IF c \in ToBlank(p, r) /\ p.kept[c] = "null"
                            THEN p.crr[c] ELSE p.kept[c]],
   reasons |-> p.reasons \cup {r}]

-----------------------------------------------------------------------------
(* Publishing.                                                             *)

\* publishSignal: one reason is lifted; what none of the others holds goes
\* back into the public row and is no longer kept.
Published(p, r) ==
  LET still == Covered(p.reasons \ {r})
      back == {c \in Cols \ still : p.kept[c] # "null"}
  IN  IF r \notin p.reasons THEN p
      ELSE [crr |-> [c \in Cols |-> IF c \in back THEN p.kept[c] ELSE p.crr[c]],
            kept |-> [c \in Cols |-> IF c \in back THEN "null" ELSE p.kept[c]],
            reasons |-> p.reasons \ {r}]

\* Mutated form: the name stays back.
PublishedNameless(p) == Published(p, "pending")
\* publishQueued, for one signal.
PublishedOnApproval(p) == Published(Published(p, "pending_name"), "pending")
=============================================================================
