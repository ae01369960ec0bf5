----------------------------- MODULE PublicRecord -----------------------------
(***************************************************************************)
(* What the commons promises of a signal, whatever happened to it and in   *)
(* which order: the public row shows a column exactly while no reason to   *)
(* withhold it stands, and an original that is not shown is kept.  Reasons *)
(* come as they please; only those of a review still open ever go.         *)
(*                                                                         *)
(* Review is shown to implement this.                                      *)
(***************************************************************************)
CONSTANTS Signals,  \* signals that may ever be written
          Columns,  \* what a signal says
          Reasons,  \* why a part of it may be withheld
          Lifted,   \* the reasons that may go again
          Hides     \* the columns each reason withholds

VARIABLES written,  \* the signals written
          holds,    \* per signal: the reasons that stand
          shown,    \* per signal: the columns anyone can read
          held      \* per signal: the columns whose original is kept privately

recordVars == <<written, holds, shown, held>>

Hidden(R) == UNION {Hides[r] : r \in R}

Init == /\ written = {}
        /\ holds = [s \in Signals |-> {}]
        /\ shown = [s \in Signals |-> {}]
        /\ held = [s \in Signals |-> {}]

\* Any number of signals in one step: a batch is retired as one.
Next == /\ written \subseteq written'
        /\ holds' \in [Signals -> SUBSET Reasons]
        /\ \A s \in Signals : holds[s] \ holds'[s] \subseteq Lifted
        /\ shown' = [s \in Signals |-> IF s \in written'
                                       THEN Columns \ Hidden(holds'[s]) ELSE {}]
        /\ held' = [s \in Signals |-> IF s \in written'
                                      THEN Hidden(holds'[s]) ELSE {}]

Spec == Init /\ [][Next]_recordVars
=============================================================================
