------------------------------ MODULE MCReview ------------------------------
EXTENDS Review, TLC

CONSTANTS n1, n2, n3, b1, c1, c2, c3, c4, c5, c6, c7, c8, c9

MCEdge(n, w) == [source |-> n, target |-> n2, writer |-> w, merged |-> FALSE]
MCCopy(n, w) == [MCEdge(n, w) EXCEPT !.merged = TRUE]
MCEdges == {MCEdge(n1, "curator-a"), MCEdge(n1, "api-b"), MCEdge(n3, "curator-a"),
            MCCopy(n1, "curator-a"), MCCopy(n3, "curator-a"), MCCopy(n3, "api-b")}
MCSeeded == {n2, n3, MCEdge(n3, "curator-a")}
MCNodeType == [n \in Nodes |-> IF n = n2 THEN "institution" ELSE "practitioner"]

MCPlain == [kind |-> "human", trusted |-> FALSE, form |-> FALSE, consent |-> {},
            batch |-> NoBatch, node |-> NoNode, patch |-> NoNode, retires |-> FALSE,
            edge |-> NoEdge, closes |-> NoEdge, on |-> NoPair, about |-> NoItem]

MCShapes ==
  (c1 :> [MCPlain EXCEPT !.batch = b1, !.node = n1, !.edge = MCEdge(n1, "curator-a"),
                         !.patch = n2, !.retires = TRUE]) @@
  (c2 :> [MCPlain EXCEPT !.trusted = TRUE, !.node = n1, !.edge = MCEdge(n1, "api-b")]) @@
  (c3 :> [MCPlain EXCEPT !.trusted = TRUE, !.edge = MCEdge(n1, "curator-a"),
                         !.closes = MCEdge(n1, "api-b")]) @@
  (c4 :> [MCPlain EXCEPT !.form = TRUE]) @@
  (c5 :> [MCPlain EXCEPT !.kind = "reading", !.consent = {"anonymous"},
                         !.batch = b1, !.on = <<n1, n2>>]) @@
  (c6 :> [MCPlain EXCEPT !.kind = "objection", !.about = c1]) @@
  (c7 :> [MCPlain EXCEPT !.kind = "contest", !.on = <<n1, n2>>]) @@
  (c8 :> [MCPlain EXCEPT !.form = TRUE, !.consent = {"structural_only"}]) @@
  (c9 :> [MCPlain EXCEPT !.trusted = TRUE, !.patch = n3])
MCShape == [c \in Items |-> MCShapes[c]]
=============================================================================
