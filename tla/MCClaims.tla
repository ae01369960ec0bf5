------------------------------ MODULE MCClaims ------------------------------
EXTENDS MCReview, Claims

CONSTANTS p1, p2, h1, h2, k1, k2, k3

MCAsk(p, n, v, h) == [who |-> p, page |-> n, via |-> v, handle |-> h, named |-> TRUE]
MCTerms ==
  (k1 :> MCAsk(p1, n3, "request", h1)) @@
  (k2 :> [MCAsk(p2, n3, "invite", NoHandle) EXCEPT !.named = FALSE]) @@
  (k3 :> MCAsk(p2, n2, "peer_invite", NoHandle))
MCAsks == [k \in ClaimIds |-> MCTerms[k]]
=============================================================================
