----------------------------- MODULE ReadContract -----------------------------
(***************************************************************************)
(* What the intake promises of a read, whatever its workers, contributors  *)
(* and confirms do in between: it is open until it is given up or          *)
(* submitted, once; what a submission makes and what it leaves open are    *)
(* different cards; and an open card of an earlier read is decided by one  *)
(* later submission, which is also the only one that can make it.          *)
(*                                                                         *)
(* DraftQueue is shown to implement this.                                  *)
(***************************************************************************)
CONSTANTS Reads,  \* reads that may ever be opened
          Cards,  \* the numbers of their cards
          NoRead  \* no read

VARIABLES stage,    \* per read: "none", "open", "given up" or "submitted"
          source,   \* per read: the read it was picked up from, or NoRead
          made,     \* per read: the cards it submitted
          kept,     \* per read: the cards it left open
          decided   \* per read and card: the read that decided it, or NoRead

readVars == <<stage, source, made, kept, decided>>

Init == /\ stage = [r \in Reads |-> "none"]
        /\ source = [r \in Reads |-> NoRead]
        /\ made = [r \in Reads |-> {}]
        /\ kept = [r \in Reads |-> {}]
        /\ decided = [r \in Reads |-> [c \in Cards |-> NoRead]]

OpenCards(s) == {c \in kept[s] : decided[s][c] = NoRead}

\* A read of its own, or one of what an earlier read left open.
Open(r, s) ==
  /\ stage[r] = "none"
  /\ s # NoRead => stage[s] = "submitted" /\ OpenCards(s) # {}
  /\ stage' = [stage EXCEPT ![r] = "open"]
  /\ source' = [source EXCEPT ![r] = s]
  /\ UNCHANGED <<made, kept, decided>>

GiveUp(r) == /\ stage[r] = "open"
             /\ stage' = [stage EXCEPT ![r] = "given up"]
             /\ UNCHANGED <<source, made, kept, decided>>

\* What a submission of r may make, leave open and decide.
Fits(r, ops, left, decides) ==
  /\ ops \cup decides # {}
  /\ ops \cap left = {}
  /\ IF source[r] = NoRead THEN decides = {}
     ELSE /\ decides \subseteq OpenCards(source[r])
          /\ ops \cap kept[source[r]] \subseteq decides

Decide(r, decides) ==
  IF source[r] = NoRead THEN decided
  ELSE [decided EXCEPT ![source[r]] = [c \in Cards |-> IF c \in decides THEN r ELSE @[c]]]

\* All of it in one step.
Submit(r) ==
  /\ stage[r] = "open"
  /\ stage' = [stage EXCEPT ![r] = "submitted"]
  /\ UNCHANGED source
  /\ \E ops, left, decides \in SUBSET Cards :
       /\ Fits(r, ops, left, decides)
       /\ made' = [made EXCEPT ![r] = ops]
       /\ kept' = [kept EXCEPT ![r] = left]
       /\ decided' = Decide(r, decides)

Next == \E r \in Reads : \/ \E s \in Reads \cup {NoRead} : Open(r, s)
                         \/ GiveUp(r)
                         \/ Submit(r)

Steps == [][Next]_readVars

Spec == Init /\ Steps
=============================================================================
