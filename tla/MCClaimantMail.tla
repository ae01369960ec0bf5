---------------------------- MODULE MCClaimantMail ----------------------------
(* Two changes to one claimed page, the server's pass and the daily command. *)
EXTENDS ClaimantMail

CONSTANTS e1, e2, ana, server, daily

MCAtFirst == {[e \in {e1, e2} |-> IF e = e1 THEN "proposed" ELSE "added"]}
MCClaimantOf == [e \in {e1, e2} |-> ana]
=============================================================================
