------------------------------- MODULE ForkSync -------------------------------
(***************************************************************************)
(* Forking the commons (src/sync): a fork pulls the change stream of a     *)
(* source page by page.  A page is what the source holds after a cursor,   *)
(* read in one transaction while the source goes on writing; it is applied *)
(* with its cursor in one transaction of the fork, and a pull that stops   *)
(* anywhere goes on from the cursor.                                       *)
(*                                                                         *)
(* External: cr-sqlite.  A source keeps, for each row, how often it was    *)
(* inserted or deleted (its causal length, odd while it is there), and for *)
(* each cell how often it was written; the last change of each stands in   *)
(* the stream at the transaction that made it.  A value is told by that    *)
(* count, the words themselves are left out.                               *)
(***************************************************************************)
EXTENDS Integers, FiniteSets

CONSTANTS Sites,        \* databases that publish their change stream
          Rows,         \* rows of the synced tables
          Cols,         \* their columns
          Order,        \* the order in which a transaction numbers its changes
          Limit,        \* changes in a page at most
          MaxCommits,   \* bound: transactions of each site
          MaxStops,     \* bound: pulls that fail, or crash, halfway
          MaxSwitches,  \* bound: pulls forced onto another source
          Sentinel,     \* the column of a row's own change: inserted again, or deleted
          NoSite

Keys == Rows \X (Cols \cup {Sentinel})

ASSUME ForkAssumption ==
  /\ Sentinel \notin Cols /\ NoSite \notin Sites
  /\ IsFiniteSet(Rows) /\ IsFiniteSet(Cols) /\ Cols # {}
  /\ Order \in [Keys -> Nat]
  /\ \A j, k \in Keys : Order[j] = Order[k] => j = k
  /\ Limit \in Nat \ {0}
  /\ MaxCommits \in [Sites -> Nat]
  /\ MaxStops \in Nat /\ MaxSwitches \in Nat

VARIABLES
  src,      \* per site: its rows, and where its changes stand
  known,    \* settings.fork_source_site_id
  cursor,   \* settings.fork_cursor
  copy,     \* the fork's rows
  pull,     \* pullFork, as it runs
  merged,   \* history: the sites that changes came from
  misled,   \* history: a crash left the cursor of another source
  bound     \* stops and switches so far

forkVars == <<known, cursor, copy, pull, merged, misled>>
vars == <<src, forkVars, bound>>

\* Rows as a database holds them.
Table == [cl : [Rows -> Nat], cv : [Rows -> [Cols -> Nat]]]
NoRows == [cl |-> [r \in Rows |-> 0], cv |-> [r \in Rows |-> [c \in Cols |-> 0]]]

Alive(t, r) == t.cl[r] % 2 = 1

\* A cursor: everything up to transaction v, or of v only what stands up to seq.
Start == [v |-> 0, seq |-> 0, whole |-> TRUE]
NoPage == [keys |-> {}, from |-> NoRows, next |-> Start, more |-> FALSE]
Resting == [at |-> "idle", site |-> NoSite, page |-> NoPage]

Init ==
  /\ src = [s \in Sites |-> [rows |-> NoRows, v |-> 0,
                             at |-> [k \in Keys |-> [v |-> 0, seq |-> 0]]]]
  /\ known = NoSite
  /\ cursor = Start
  /\ copy = NoRows
  /\ pull = Resting
  /\ merged = {}
  /\ misled = FALSE
  /\ bound = [stops |-> 0, switches |-> 0]

-----------------------------------------------------------------------------
(* The source.                                                             *)

\* A transaction inserts rows with all their cells, updates cells of others,
\* deletes others.  What it writes leaves its old place in the stream; the
\* cells of a deleted row leave the stream.
Writes(t, new, gone, cells) ==
  {k \in Keys : IF k[2] = Sentinel THEN k[1] \in gone \/ (k[1] \in new /\ t.cl[k[1]] # 0)
                                   ELSE k[1] \in new \/ k \in cells}

Written(S, new, gone, cells) ==
  LET written == Writes(S.rows, new, gone, cells)
  IN  [rows |-> [cl |-> [r \in Rows |-> IF r \in new \cup gone THEN S.rows.cl[r] + 1 ELSE S.rows.cl[r]],
                 cv |-> [r \in Rows |-> [c \in Cols |-> IF r \in gone THEN 0
                                                        ELSE IF r \in new THEN 1
                                                        ELSE IF <<r, c>> \in cells THEN S.rows.cv[r][c] + 1
                                                        ELSE S.rows.cv[r][c]]]],
       v |-> S.v + 1,
       at |-> [k \in Keys |-> IF k \in written
                              THEN [v |-> S.v + 1,
                                    seq |-> Cardinality({j \in written : Order[j] < Order[k]})]
                              ELSE S.at[k]]]

Commit(s) ==
  LET S == src[s]
  IN  /\ S.v < MaxCommits[s]
      /\ \E new, gone \in SUBSET Rows, cells \in SUBSET (Rows \X Cols) :
           /\ \A r \in new : ~Alive(S.rows, r)
           /\ \A r \in gone : Alive(S.rows, r)
           /\ \A k \in cells : Alive(S.rows, k[1]) /\ k[1] \notin gone
           /\ Writes(S.rows, new, gone, cells) # {}
           /\ src' = [src EXCEPT ![s] = Written(S, new, gone, cells)]
      /\ UNCHANGED <<forkVars, bound>>

-----------------------------------------------------------------------------
(* readChanges.                                                            *)

\* crsql_changes: the cells of rows that are there, and the rows' own changes.
InStream(S, k) == IF k[2] = Sentinel THEN S.rows.cl[k[1]] > 1 ELSE Alive(S.rows, k[1])

Before(p, q) == p.v < q.v \/ (p.v = q.v /\ p.seq < q.seq)
Behind(p, c) == p.v < c.v \/ (p.v = c.v /\ (c.whole \/ p.seq <= c.seq))

\* What follows a cursor: the rest of a split transaction, and the later ones.
Ahead(S, c) == {k \in Keys : InStream(S, k) /\ ~Behind(S.at[k], c)}

\* The first changes that fit: at most Limit, fewer when they are long.
Taken(S, c) ==
  {out \in SUBSET Ahead(S, c) :
     /\ Cardinality(out) <= Limit
     /\ out = {} => Ahead(S, c) = {}
     /\ \A j \in out, k \in Ahead(S, c) \ out : Before(S.at[j], S.at[k])}

First(S, K) == CHOOSE k \in K : \A j \in K : j = k \/ Before(S.at[k], S.at[j])
Last(S, K) == CHOOSE k \in K : \A j \in K : j = k \/ Before(S.at[j], S.at[k])

Upto(v) == [v |-> v, seq |-> 0, whole |-> TRUE]
Within(p) == [v |-> p.v, seq |-> p.seq, whole |-> FALSE]

\* Mutated form: a transaction cut by the limit counts as sent.
PageOfUnsplit(S, c, out) ==
  [keys |-> out, from |-> S.rows, more |-> Ahead(S, c) # out,
   next |-> Upto(IF out = {} THEN c.v ELSE S.at[Last(S, out)].v)]

\* Mutated form: a transaction that does not fit is left for a larger page.
PageOfWhole(S, c, out) ==
  LET rest == Ahead(S, c) \ out
      whole == {k \in out : \A j \in rest : S.at[k].v < S.at[j].v}
  IN  [keys |-> whole, from |-> S.rows, more |-> rest # {},
       next |-> IF whole = {} THEN c ELSE Upto(S.at[Last(S, whole)].v)]

\* The transactions wholly taken, or else part of the one that does not fit.
PageOf(S, c, out) ==
  LET rest == Ahead(S, c) \ out
      whole == {k \in out : S.at[k].v < S.at[First(S, rest)].v}
      Page(keys, next) == [keys |-> keys, from |-> S.rows, next |-> next, more |-> rest # {}]
  IN  IF rest = {} THEN Page(out, Upto(IF out = {} THEN c.v ELSE S.at[Last(S, out)].v))
      ELSE IF whole # {} THEN Page(whole, Upto(S.at[Last(S, whole)].v))
      ELSE Page(out, Within(S.at[Last(S, out)]))

-----------------------------------------------------------------------------
(* pullFork.                                                               *)

\* A fork of one source is not pulled from another, unless forced: then from 0.
\* The new source is recorded first, its cursor after it.
PullStarts(s) ==
  /\ pull.at = "idle"
  /\ known \notin {NoSite, s} => bound.switches < MaxSwitches
  /\ bound' = [bound EXCEPT !.switches = IF known \in {NoSite, s} THEN @ ELSE @ + 1]
  /\ known' = s
  /\ pull' = [pull EXCEPT !.at = IF known = s THEN "asks" ELSE "named", !.site = s]
  /\ UNCHANGED <<src, cursor, copy, merged, misled>>

PullNamed ==
  /\ pull.at = "named"
  /\ cursor' = Start
  /\ misled' = FALSE
  /\ pull' = [pull EXCEPT !.at = "asks"]
  /\ UNCHANGED <<src, known, copy, merged, bound>>

PullAsks ==
  /\ pull.at = "asks"
  /\ \E out \in Taken(src[pull.site], cursor) :
       pull' = [pull EXCEPT !.at = "got", !.page = PageOf(src[pull.site], cursor, out)]
  /\ UNCHANGED <<src, known, cursor, copy, merged, misled, bound>>

\* Mutated form: the cells of a row's former life are kept.
MergeKeeping(t, page) ==
  [cl |-> [r \in Rows |-> IF page.from.cl[r] > t.cl[r] /\ \E k \in page.keys : k[1] = r
                          THEN page.from.cl[r] ELSE t.cl[r]],
   cv |-> [r \in Rows |-> [c \in Cols |->
             IF <<r, c>> \in page.keys /\ page.from.cv[r][c] > t.cv[r][c]
             THEN page.from.cv[r][c] ELSE t.cv[r][c]]]]

\* Mutated form: what the fork has of a row's life already is not overwritten.
MergeIgnoring(t, page) ==
  LET later(r) == page.from.cl[r] > t.cl[r] /\ \E k \in page.keys : k[1] = r
  IN  [cl |-> [r \in Rows |-> IF later(r) THEN page.from.cl[r] ELSE t.cl[r]],
       cv |-> [r \in Rows |-> [c \in Cols |->
                 IF later(r) THEN IF <<r, c>> \in page.keys THEN page.from.cv[r][c] ELSE 0
                             ELSE t.cv[r][c]]]]

\* A row that the page knows in a later life starts anew.
Merge(t, page) ==
  LET later(r) == page.from.cl[r] > t.cl[r] /\ \E k \in page.keys : k[1] = r
      says(r, c) == <<r, c>> \in page.keys /\ page.from.cl[r] >= t.cl[r]
  IN  [cl |-> [r \in Rows |-> IF later(r) THEN page.from.cl[r] ELSE t.cl[r]],
       cv |-> [r \in Rows |-> [c \in Cols |->
                 LET mine == IF later(r) THEN 0 ELSE t.cv[r][c]
                 IN  IF says(r, c) /\ page.from.cv[r][c] > mine THEN page.from.cv[r][c] ELSE mine]]]

\* applyChanges: the page and its cursor, in one transaction.
PullApplies ==
  /\ pull.at = "got"
  /\ copy' = Merge(copy, pull.page)
  /\ cursor' = pull.page.next
  /\ merged' = IF pull.page.keys = {} THEN merged ELSE merged \cup {pull.site}
  /\ pull' = IF pull.page.more THEN [pull EXCEPT !.at = "asks", !.page = NoPage] ELSE Resting
  /\ UNCHANGED <<src, known, misled, bound>>

\* The source is out of reach, or the process stops.
PullStops ==
  /\ pull.at # "idle"
  /\ bound.stops < MaxStops
  /\ bound' = [bound EXCEPT !.stops = @ + 1]
  /\ pull' = Resting
  /\ misled' = (misled \/ (pull.at = "named" /\ cursor # Start))
  /\ UNCHANGED <<src, known, cursor, copy, merged>>

-----------------------------------------------------------------------------
PullSteps == PullNamed \/ PullAsks \/ PullApplies

Next == \/ \E s \in Sites : Commit(s) \/ PullStarts(s)
        \/ PullSteps \/ PullStops

\* A pull gets on, and the fork is pulled again from its source.
Fairness == /\ WF_vars(PullSteps)
            /\ \A s \in Sites : WF_vars(known = s /\ PullStarts(s))

Spec == Init /\ [][Next]_vars /\ Fairness
-----------------------------------------------------------------------------
(* Properties.                                                             *)

Position == [v : Nat, seq : Nat]
Cursor == [v : Nat, seq : Nat, whole : BOOLEAN]

\* Type invariant: a database's rows, its stream's positions, the settings.
ForkTypeOK ==
  /\ src \in [Sites -> [rows : Table, v : Nat, at : [Keys -> Position]]]
  /\ known \in Sites \cup {NoSite}
  /\ cursor \in Cursor
  /\ copy \in Table
  /\ pull \in [at : {"idle", "named", "asks", "got"}, site : Sites \cup {NoSite},
               page : [keys : SUBSET Keys, from : Table, next : Cursor, more : BOOLEAN]]
  /\ merged \subseteq Sites
  /\ misled \in BOOLEAN
  /\ bound \in [stops : Nat, switches : Nat]

\* A table has seen a change of another: it has that, or a later one.
HasSeen(t, rows, k) ==
  \/ t.cl[k[1]] > rows.cl[k[1]]
  \/ /\ t.cl[k[1]] = rows.cl[k[1]]
     /\ k[2] # Sentinel => t.cv[k[1]][k[2]] >= rows.cv[k[1]][k[2]]

\* fork_cursor is what its comment says, "the source's db_version up to which
\* everything is applied" (pull.ts:7-9), whatever the source writes between two
\* pages and wherever a pull stops: nothing behind it is missed.  Excepted is the
\* time after a crash between the two settings of a forced switch (pull.ts:84 and
\* :85): the cursor is then another source's (`misled`), until a switch resets it.
CursorIsTrue ==
  known # NoSite /\ ~misled /\ pull.at # "named" =>
    \A k \in Keys : InStream(src[known], k) /\ Behind(src[known].at[k], cursor)
                      => HasSeen(copy, src[known].rows, k)

\* The pull never gives up on a cursor that does not advance (pull.ts:100-101).
NeverStuck ==
  pull.at = "got" /\ pull.page.more =>
    \/ pull.page.next.v > cursor.v
    \/ /\ pull.page.next.v = cursor.v /\ ~cursor.whole
       /\ pull.page.next.whole \/ pull.page.next.seq > cursor.seq

\* A fork is whole when a pull finishes: the source's rows as they all were
\* when the last page was read, deleted ones gone, a revocation's included.
WholeWhenFinished ==
  [][pull.at = "got" /\ pull'.at = "idle" /\ bound' = bound /\ ~misled /\ merged' \subseteq {pull.site}
       => copy' = pull.page.from]_vars

\* What a source publishes reaches the fork that goes on pulling it.
CatchesUp ==
  \A s \in Sites :
    known = s ~> \/ known # s \/ misled
                 \/ \A k \in Keys : InStream(src[s], k) => HasSeen(copy, src[s].rows, k)
=============================================================================
