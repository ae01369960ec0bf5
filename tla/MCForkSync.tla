------------------------------ MODULE MCForkSync ------------------------------
(* Two sources of the same two rows, in pages of at most two changes. *)
EXTENDS ForkSync

CONSTANTS home, other, r1, r2, words

MCOrder == [k \in Keys |-> (IF k[1] = r1 THEN 0 ELSE 2) + (IF k[2] = Sentinel THEN 0 ELSE 1)]
MCCommits == [s \in Sites |-> IF s = home THEN 3 ELSE 1]
=============================================================================
