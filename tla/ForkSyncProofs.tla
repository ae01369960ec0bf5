---------------------------- MODULE ForkSyncProofs ----------------------------
(***************************************************************************)
(* What a pull keeps true, for any number of sites, rows and columns and   *)
(* any limits: nothing behind the cursor is missed, a pull that goes on    *)
(* gets further, and a pull that finishes leaves the fork whole.  And of   *)
(* pages themselves: they may come twice, and in either order.             *)
(***************************************************************************)
EXTENDS ForkSync, FiniteSetTheorems, TLAPS

\* A source's stream: where its changes stand, each at a place of its own,
\* and the rows that are gone hold no cells.
StreamOK(S) ==
  /\ \A k \in Keys : /\ S.at[k].v <= S.v
                     /\ InStream(S, k) => S.at[k].v >= 1
  /\ \A j, k \in Keys : InStream(S, j) /\ InStream(S, k) /\ S.at[j] = S.at[k] => j = k
  /\ \A r \in Rows, c \in Cols : ~Alive(S.rows, r) => S.rows.cv[r][c] = 0

Source == [rows : Table, v : Nat, at : [Keys -> Position]]

\* One table holds nothing that is newer than another's.
NotAhead(t, u) ==
  \A r \in Rows : /\ t.cl[r] <= u.cl[r]
                  /\ t.cl[r] = u.cl[r] => \A c \in Cols : t.cv[r][c] <= u.cv[r][c]

-----------------------------------------------------------------------------
(* Places in the stream.                                                   *)

LEMMA KeysFinite == IsFiniteSet(Keys) /\ Cardinality(Keys) \in Nat
<1>1. IsFiniteSet(Cols \cup {Sentinel})
  BY ForkAssumption, FS_AddElement
<1> QED  BY <1>1, ForkAssumption, FS_Product, FS_CardinalityType DEF Keys

\* Changes in the stream stand one after another.
LEMMA Placed ==
  ASSUME NEW S \in Source, StreamOK(S), NEW j \in Keys, NEW k \in Keys,
         InStream(S, j), InStream(S, k), j # k
  PROVE  Before(S.at[j], S.at[k]) \/ Before(S.at[k], S.at[j])
<1>1. S.at[j] \in Position /\ S.at[k] \in Position
  BY DEF Source
<1>2. S.at[j] # S.at[k]
  BY DEF StreamOK
<1>3. S.at[j].v # S.at[k].v \/ S.at[j].seq # S.at[k].seq
  BY <1>1, <1>2 DEF Position
<1> QED  BY <1>1, <1>3 DEF Before, Position

LEMMA Precedes ==
  ASSUME NEW p \in Position, NEW q \in Position, NEW r \in Position
  PROVE  ~Before(p, p) /\ (Before(p, q) /\ Before(q, r) => Before(p, r))
  BY DEF Before, Position

\* Of finitely many finite sets some hold no other.
LEMMA Smallest ==
  ASSUME NEW K, IsFiniteSet(K), NEW T \in SUBSET SUBSET K, T # {}
  PROVE  \E A \in T : \A B \in T : ~(B \subseteq A /\ B # A)
<1>1. T \subseteq FiniteSubsetsOf(K)
  BY FS_Subset DEF FiniteSubsetsOf
<1>2. \E A \in T : \A B \in T : <<B, A>> \notin StrictSubsetOrdering(K)
  BY <1>1, WFMin, FS_StrictSubsetOrderingWellFounded
<1>3. \A A, B \in T : (B \subseteq A /\ B # A) => <<B, A>> \in StrictSubsetOrdering(K)
  BY DEF StrictSubsetOrdering
<1> QED  BY <1>2, <1>3

\* Of some changes one is the first.
LEMMA FirstIs ==
  ASSUME NEW S \in Source, StreamOK(S), NEW K \in SUBSET Keys, K # {},
         \A k \in K : InStream(S, k)
  PROVE  /\ First(S, K) \in K
         /\ \A j \in K : j = First(S, K) \/ Before(S.at[First(S, K)], S.at[j])
<1> DEFINE Lower(k) == {j \in K : Before(S.at[j], S.at[k])}
<1> DEFINE T == {Lower(k) : k \in K}
<1>1. IsFiniteSet(K)
  BY KeysFinite, FS_Subset
<1>2. T \in SUBSET SUBSET K /\ T # {}
  OBVIOUS
<1>3. PICK A \in T : \A B \in T : ~(B \subseteq A /\ B # A)
  <2> HIDE DEF T
  <2> QED  BY <1>1, <1>2, Smallest
<1>4. PICK k \in K : A = Lower(k)
  OBVIOUS
<1>5. \A j \in K : S.at[j] \in Position
  BY DEF Source
<1>6. \A j \in K : ~Before(S.at[j], S.at[k])
  <2> SUFFICES ASSUME NEW j \in K, Before(S.at[j], S.at[k]) PROVE FALSE
    OBVIOUS
  <2>1. Lower(j) \subseteq Lower(k)
    BY <1>5, Precedes
  <2>2. j \in Lower(k) /\ j \notin Lower(j)
    BY <1>5, Precedes
  <2>3. Lower(j) \in T
    OBVIOUS
  <2> HIDE DEF Lower, T
  <2> QED  BY <1>3, <1>4, <2>1, <2>2, <2>3
<1>7. \A j \in K : j = k \/ Before(S.at[k], S.at[j])
  BY <1>6, Placed
<1> QED  BY <1>7 DEF First

\* And one is the last.
LEMMA LastIs ==
  ASSUME NEW S \in Source, StreamOK(S), NEW K \in SUBSET Keys, K # {},
         \A k \in K : InStream(S, k)
  PROVE  /\ Last(S, K) \in K
         /\ \A j \in K : j = Last(S, K) \/ Before(S.at[j], S.at[Last(S, K)])
<1> DEFINE Upper(k) == {j \in K : Before(S.at[k], S.at[j])}
<1> DEFINE T == {Upper(k) : k \in K}
<1>1. IsFiniteSet(K)
  BY KeysFinite, FS_Subset
<1>2. T \in SUBSET SUBSET K /\ T # {}
  OBVIOUS
<1>3. PICK A \in T : \A B \in T : ~(B \subseteq A /\ B # A)
  <2> HIDE DEF T
  <2> QED  BY <1>1, <1>2, Smallest
<1>4. PICK k \in K : A = Upper(k)
  OBVIOUS
<1>5. \A j \in K : S.at[j] \in Position
  BY DEF Source
<1>6. \A j \in K : ~Before(S.at[k], S.at[j])
  <2> SUFFICES ASSUME NEW j \in K, Before(S.at[k], S.at[j]) PROVE FALSE
    OBVIOUS
  <2>1. Upper(j) \subseteq Upper(k)
    BY <1>5, Precedes
  <2>2. j \in Upper(k) /\ j \notin Upper(j)
    BY <1>5, Precedes
  <2>3. Upper(j) \in T
    OBVIOUS
  <2> HIDE DEF Upper, T
  <2> QED  BY <1>3, <1>4, <2>1, <2>2, <2>3
<1>7. \A j \in K : j = k \/ Before(S.at[j], S.at[k])
  BY <1>6, Placed
<1> QED  BY <1>7 DEF Last

-----------------------------------------------------------------------------
(* Pages.                                                                  *)

\* A page of a source, asked with a cursor, skips nothing: what stands behind
\* its own cursor stood behind that one, or is in the page.  It goes further
\* when more follows, and otherwise holds all there is ahead.
SkipsNothing(S, c, P) ==
  /\ P.keys \in SUBSET Keys /\ P.from = S.rows
  /\ P.next \in Cursor /\ P.more \in BOOLEAN
  /\ c.v <= S.v => P.next.v <= S.v
  /\ \A k \in Keys : InStream(S, k) /\ Behind(S.at[k], P.next)
                       => Behind(S.at[k], c) \/ k \in P.keys
  /\ P.more => \/ P.next.v > c.v
               \/ /\ P.next.v = c.v /\ ~c.whole
                  /\ P.next.whole \/ P.next.seq > c.seq
  /\ ~P.more => \A k \in Keys : InStream(S, k) => Behind(S.at[k], c) \/ k \in P.keys

LEMMA PageSkipsNothing ==
  ASSUME NEW S \in Source, StreamOK(S), NEW c \in Cursor, NEW out \in Taken(S, c)
  PROVE  SkipsNothing(S, c, PageOf(S, c, out))
<1> DEFINE rest == Ahead(S, c) \ out
           whole == {k \in out : S.at[k].v < S.at[First(S, rest)].v}
           P == PageOf(S, c, out)
           e == S.at[Last(S, out)]
           w == S.at[Last(S, whole)]
           f == S.at[First(S, rest)]
<1>1. /\ Ahead(S, c) \in SUBSET Keys
      /\ \A k \in Keys : k \in Ahead(S, c) <=> InStream(S, k) /\ ~Behind(S.at[k], c)
  BY DEF Ahead
<1>2. /\ out \in SUBSET Ahead(S, c)
      /\ out = {} => rest = {}
      /\ \A j \in out, k \in rest : Before(S.at[j], S.at[k])
  BY DEF Taken
<1>3. /\ S.v \in Nat /\ S.rows \in Table
      /\ \A k \in Keys : S.at[k] \in Position /\ S.at[k].v <= S.v
  BY DEF Source, StreamOK
<1>4. c.v \in Nat /\ c.seq \in Nat /\ c.whole \in BOOLEAN
  BY DEF Cursor
<1>5. out # {} => /\ e \in Position /\ e.v <= S.v /\ ~Behind(e, c) /\ Last(S, out) \in out
                  /\ \A k \in out : k = Last(S, out) \/ Before(S.at[k], e)
  BY <1>1, <1>2, <1>3, LastIs
<1>6. rest # {} => /\ f \in Position /\ First(S, rest) \in rest
                   /\ \A k \in rest : f.v <= S.at[k].v
  <2> HIDE DEF rest
  <2>1. rest \in SUBSET Keys /\ \A k \in rest : InStream(S, k) /\ S.at[k] \in Position
    BY <1>1, <1>3 DEF rest
  <2>2. rest # {} => /\ First(S, rest) \in rest
                     /\ \A k \in rest : k = First(S, rest) \/ Before(f, S.at[k])
    BY <2>1, FirstIs
  <2>3. \A p, q \in Position : p = q \/ Before(p, q) => p.v <= q.v
    BY DEF Before, Position
  <2> QED  BY <2>1, <2>2, <2>3
<1>7. whole # {} => /\ w \in Position /\ w.v <= S.v /\ ~Behind(w, c) /\ Last(S, whole) \in whole
                    /\ w.v < f.v
                    /\ \A k \in whole : k = Last(S, whole) \/ Before(S.at[k], w)
  <2>1. whole \in SUBSET Keys /\ \A k \in whole : InStream(S, k) /\ ~Behind(S.at[k], c)
    BY <1>1, <1>2
  <2> QED  BY <2>1, <1>3, LastIs
<1>8. /\ \A k \in Keys : k \in Ahead(S, c) => k \in out \/ k \in rest
      /\ \A k : k \in whole <=> k \in out /\ S.at[k].v < f.v
  OBVIOUS
<1>9. /\ rest = {} => P = [keys |-> out, from |-> S.rows, more |-> FALSE,
                           next |-> Upto(IF out = {} THEN c.v ELSE e.v)]
      /\ rest # {} /\ whole # {} =>
           P = [keys |-> whole, from |-> S.rows, more |-> TRUE, next |-> Upto(w.v)]
      /\ rest # {} /\ whole = {} =>
           P = [keys |-> out, from |-> S.rows, more |-> TRUE, next |-> Within(e)]
  BY DEF PageOf
<1> SUFFICES SkipsNothing(S, c, P)
  OBVIOUS
<1> HIDE DEF rest, whole, P, e, w, f
<1>10. CASE rest = {}
  <2>1. P = [keys |-> out, from |-> S.rows, more |-> FALSE,
             next |-> Upto(IF out = {} THEN c.v ELSE e.v)]
    BY <1>9, <1>10
  <2>2. P.next \in Cursor /\ (c.v <= S.v => P.next.v <= S.v)
    BY <2>1, <1>3, <1>4, <1>5 DEF Upto, Cursor, Position
  <2>3. \A k \in Keys : InStream(S, k) => Behind(S.at[k], c) \/ k \in P.keys
    BY <2>1, <1>1, <1>8, <1>10
  <2>4. P.keys \in SUBSET Keys /\ P.from = S.rows /\ P.more \in BOOLEAN /\ ~P.more
    BY <2>1, <1>1, <1>2
  <2> QED  BY <2>2, <2>3, <2>4 DEF SkipsNothing
<1>11. CASE rest # {} /\ whole # {}
  <2>1. P = [keys |-> whole, from |-> S.rows, more |-> TRUE, next |-> Upto(w.v)]
    BY <1>9, <1>11
  <2>2. P.next \in Cursor /\ P.next.v <= S.v
    BY <2>1, <1>3, <1>7, <1>11 DEF Upto, Cursor, Position
  <2>3. ASSUME NEW k \in Keys, InStream(S, k), Behind(S.at[k], P.next), ~Behind(S.at[k], c)
        PROVE  k \in P.keys
    <3>1. S.at[k].v <= w.v
      BY <2>3, <2>1, <1>3, <1>7, <1>11 DEF Behind, Upto, Position
    <3>2. k \in out
      <4> SUFFICES ASSUME k \in rest PROVE FALSE
        BY <2>3, <1>1, <1>8
      <4> QED  BY <3>1, <1>3, <1>6, <1>7, <1>11 DEF Before, Position
    <3> QED  BY <3>1, <3>2, <2>1, <1>3, <1>6, <1>7, <1>8, <1>11 DEF Position
  <2>4. P.next.v > c.v \/ (P.next.v = c.v /\ ~c.whole /\ P.next.whole)
    BY <2>1, <1>4, <1>7, <1>11 DEF Behind, Upto, Position
  <2>5. P.keys \in SUBSET Keys /\ P.from = S.rows /\ P.more \in BOOLEAN /\ P.more
    BY <2>1, <1>1, <1>2, <1>8
  <2> QED  BY <2>2, <2>3, <2>4, <2>5 DEF SkipsNothing
<1>12. CASE rest # {} /\ whole = {}
  <2>0. out # {}
    BY <1>2, <1>12
  <2>1. P = [keys |-> out, from |-> S.rows, more |-> TRUE, next |-> Within(e)]
    BY <1>9, <1>12
  <2>2. P.next \in Cursor /\ P.next.v <= S.v
    BY <2>0, <2>1, <1>3, <1>5 DEF Within, Cursor, Position
  <2>3. ASSUME NEW k \in Keys, InStream(S, k), Behind(S.at[k], P.next), ~Behind(S.at[k], c)
        PROVE  k \in P.keys
    <3> SUFFICES ASSUME k \in rest PROVE FALSE
      BY <2>1, <2>3, <1>1, <1>8
    <3>1. Before(e, S.at[k])
      BY <2>0, <1>2, <1>5 DEF e
    <3> QED  BY <3>1, <2>0, <2>1, <2>3, <1>3, <1>5 DEF Before, Behind, Within, Position
  <2>4. P.next.v > c.v \/ (P.next.v = c.v /\ ~c.whole /\ P.next.seq > c.seq)
    BY <2>0, <2>1, <1>4, <1>5 DEF Behind, Within, Position
  <2>5. P.keys \in SUBSET Keys /\ P.from = S.rows /\ P.more \in BOOLEAN /\ P.more
    BY <2>1, <1>1, <1>2
  <2> QED  BY <2>2, <2>3, <2>4, <2>5 DEF SkipsNothing
<1> QED  BY <1>10, <1>11, <1>12

-----------------------------------------------------------------------------
(* Merging a page.                                                         *)

\* The change of a key is one that a table's stream holds.
Shown(t, k) == IF k[2] = Sentinel THEN t.cl[k[1]] > 1 ELSE Alive(t, k[1])

\* Rows that are gone hold no cells.
Emptied(t) == \A r \in Rows, c \in Cols : ~Alive(t, r) => t.cv[r][c] = 0

APage == [keys : SUBSET Keys, from : Table, next : Cursor, more : BOOLEAN]

\* The page knows a row in a later life.
Later(t, P, r) == P.from.cl[r] > t.cl[r] /\ \E k \in P.keys : k[1] = r

LEMMA RowTypes ==
  ASSUME NEW t \in Table, NEW r \in Rows
  PROVE  t.cl[r] \in Nat /\ \A c \in Cols : t.cv[r][c] \in Nat
  BY DEF Table

LEMMA MergeType == ASSUME NEW t \in Table, NEW P \in APage PROVE Merge(t, P) \in Table
<1>1. t.cl \in [Rows -> Nat] /\ t.cv \in [Rows -> [Cols -> Nat]]
  BY DEF Table
<1>2. P.from.cl \in [Rows -> Nat] /\ P.from.cv \in [Rows -> [Cols -> Nat]]
  BY DEF APage, Table
<1> QED  BY <1>1, <1>2 DEF Merge, Table

\* A row that starts anew is what the page says of it.
LEMMA MergeAnew ==
  ASSUME NEW t \in Table, NEW P \in APage, NEW r \in Rows, Later(t, P, r)
  PROVE  /\ Merge(t, P).cl[r] = P.from.cl[r] /\ P.from.cl[r] > t.cl[r]
         /\ \A c \in Cols :
              Merge(t, P).cv[r][c] = IF <<r, c>> \in P.keys THEN P.from.cv[r][c] ELSE 0
<1>1. P.from \in Table
  BY DEF APage
<1>2. P.from.cl[r] \in Nat /\ t.cl[r] \in Nat /\ \A c \in Cols : P.from.cv[r][c] \in Nat
  BY <1>1, RowTypes
<1> QED  BY <1>2 DEF Merge, Later

\* Of a row's other cells the larger one stays.
LEMMA MergeJoins ==
  ASSUME NEW t \in Table, NEW P \in APage, NEW r \in Rows, ~Later(t, P, r)
  PROVE  /\ Merge(t, P).cl[r] = t.cl[r]
         /\ \A c \in Cols :
              Merge(t, P).cv[r][c] = IF /\ <<r, c>> \in P.keys /\ P.from.cl[r] >= t.cl[r]
                                        /\ P.from.cv[r][c] > t.cv[r][c]
                                     THEN P.from.cv[r][c] ELSE t.cv[r][c]
  BY DEF Merge, Later

\* What a table has seen it has still seen after a merge.
LEMMA MergeForgetsNothing ==
  ASSUME NEW t \in Table, NEW P \in APage, NEW u \in Table, NEW k \in Keys, HasSeen(t, u, k)
  PROVE  HasSeen(Merge(t, P), u, k)
<1> DEFINE M == Merge(t, P)
           r == k[1]
<1>1. r \in Rows /\ (k[2] # Sentinel => k[2] \in Cols)
  BY DEF Keys
<1>2. M \in Table
  BY MergeType
<1>3. /\ M.cl[r] \in Nat /\ t.cl[r] \in Nat /\ u.cl[r] \in Nat
      /\ \A c \in Cols : M.cv[r][c] \in Nat /\ t.cv[r][c] \in Nat /\ u.cv[r][c] \in Nat
  BY <1>1, <1>2, RowTypes
<1>4. P.from \in Table /\ \A c \in Cols : P.from.cv[r][c] \in Nat
  BY <1>1, RowTypes DEF APage
<1>5. Later(t, P, r) => M.cl[r] > t.cl[r]
  BY <1>1, MergeAnew
<1>6. ~Later(t, P, r) => M.cl[r] = t.cl[r] /\ \A c \in Cols : M.cv[r][c] >= t.cv[r][c]
  <2>1. ~Later(t, P, r) =>
          /\ M.cl[r] = t.cl[r]
          /\ \A c \in Cols : M.cv[r][c] = t.cv[r][c] \/ M.cv[r][c] > t.cv[r][c]
    BY <1>1, MergeJoins
  <2> HIDE DEF M
  <2> QED  BY <1>3, <2>1
<1>7. HasSeen(M, u, k)
  <2> HIDE DEF M
  <2> QED  BY <1>1, <1>3, <1>5, <1>6 DEF HasSeen
<1> QED  BY <1>7

\* What a page has, and has seen, the table has then seen too.
LEMMA MergeTakes ==
  ASSUME NEW t \in Table, NEW P \in APage, NEW u \in Table, NEW k \in P.keys, HasSeen(P.from, u, k)
  PROVE  HasSeen(Merge(t, P), u, k)
<1> DEFINE M == Merge(t, P)
           r == k[1]
           f == P.from
<1>1. k \in Keys /\ r \in Rows /\ k = <<r, k[2]>> /\ (k[2] # Sentinel => k[2] \in Cols)
  BY DEF Keys, APage
<1>2. M \in Table /\ f \in Table
  BY MergeType DEF APage
<1>3. /\ M.cl[r] \in Nat /\ t.cl[r] \in Nat /\ u.cl[r] \in Nat /\ f.cl[r] \in Nat
      /\ \A c \in Cols : /\ M.cv[r][c] \in Nat /\ t.cv[r][c] \in Nat
                         /\ u.cv[r][c] \in Nat /\ f.cv[r][c] \in Nat
  BY <1>1, <1>2, RowTypes
<1>4. Later(t, P, r) => /\ M.cl[r] = f.cl[r]
                        /\ k[2] # Sentinel => M.cv[r][k[2]] = f.cv[r][k[2]]
  BY <1>1, MergeAnew
<1>5. ~Later(t, P, r) => M.cl[r] = t.cl[r] /\ t.cl[r] >= f.cl[r]
  BY <1>1, <1>3, MergeJoins DEF Later
<1>6. ~Later(t, P, r) /\ t.cl[r] = f.cl[r] /\ k[2] # Sentinel => M.cv[r][k[2]] >= f.cv[r][k[2]]
  BY <1>1, <1>3, MergeJoins
<1>7. HasSeen(M, u, k)
  <2>1. HasSeen(f, u, k)
    OBVIOUS
  <2> HIDE DEF M, f
  <2> QED  BY <2>1, <1>1, <1>3, <1>4, <1>5, <1>6 DEF HasSeen
<1> QED  BY <1>7

\* A table that is not ahead of a page's rows is not ahead of them after it.
LEMMA MergeStaysBehind ==
  ASSUME NEW t \in Table, NEW P \in APage, NotAhead(t, P.from)
  PROVE  NotAhead(Merge(t, P), P.from)
<1> DEFINE M == Merge(t, P)
           f == P.from
<1> SUFFICES ASSUME NEW r \in Rows
             PROVE  /\ M.cl[r] <= f.cl[r]
                    /\ M.cl[r] = f.cl[r] => \A c \in Cols : M.cv[r][c] <= f.cv[r][c]
  BY DEF NotAhead
<1>1. /\ t.cl[r] \in Nat /\ f.cl[r] \in Nat
      /\ \A c \in Cols : t.cv[r][c] \in Nat /\ f.cv[r][c] \in Nat
  BY RowTypes DEF APage
<1>2. t.cl[r] <= f.cl[r] /\ (t.cl[r] = f.cl[r] => \A c \in Cols : t.cv[r][c] <= f.cv[r][c])
  BY DEF NotAhead
<1>3. CASE Later(t, P, r)
  <2>1. M.cl[r] = f.cl[r] /\ \A c \in Cols : M.cv[r][c] = f.cv[r][c] \/ M.cv[r][c] = 0
    BY <1>3, MergeAnew
  <2> HIDE DEF M, f
  <2> QED  BY <1>1, <2>1
<1>4. CASE ~Later(t, P, r)
  <2>1. M.cl[r] = t.cl[r] /\ \A c \in Cols : M.cv[r][c] = t.cv[r][c] \/ M.cv[r][c] = f.cv[r][c]
    BY <1>4, MergeJoins
  <2> HIDE DEF M, f
  <2> QED  BY <1>1, <1>2, <2>1
<1> QED  BY <1>3, <1>4

\* A table that has seen all a page's rows show, or finds it in the page, is
\* those rows after it.
LEMMA MergeCompletes ==
  ASSUME NEW t \in Table, NEW P \in APage, NotAhead(t, P.from), Emptied(P.from),
         \A k \in Keys : Shown(P.from, k) => k \in P.keys \/ HasSeen(t, P.from, k)
  PROVE  Merge(t, P) = P.from
<1> DEFINE M == Merge(t, P)
           f == P.from
<1>0. M \in Table /\ f \in Table
  BY MergeType DEF APage
<1> SUFFICES ASSUME NEW r \in Rows
             PROVE  M.cl[r] = f.cl[r] /\ \A c \in Cols : M.cv[r][c] = f.cv[r][c]
  <2> HIDE DEF M, f
  <2>1. M.cl = f.cl /\ M.cv = f.cv
    BY <1>0 DEF Table
  <2>2. M = f
    BY <1>0, <2>1 DEF Table
  <2> QED  BY <2>2 DEF M, f
<1>1. /\ t.cl[r] \in Nat /\ f.cl[r] \in Nat
      /\ \A c \in Cols : t.cv[r][c] \in Nat /\ f.cv[r][c] \in Nat
  BY <1>0, RowTypes
<1>2. t.cl[r] <= f.cl[r] /\ (t.cl[r] = f.cl[r] => \A c \in Cols : t.cv[r][c] <= f.cv[r][c])
  BY DEF NotAhead
<1>3. Later(t, P, r) \/ t.cl[r] = f.cl[r]
  <2> SUFFICES ASSUME t.cl[r] < f.cl[r] PROVE \E k \in P.keys : k[1] = r
    BY <1>1, <1>2 DEF Later
  <2>1. ASSUME NEW k \in Keys, k[1] = r PROVE ~HasSeen(t, f, k)
    BY <1>1, <2>1 DEF HasSeen
  <2>2. CASE Alive(f, r)
    <3>1. PICK c \in Cols : TRUE
      BY ForkAssumption
    <3>2. <<r, c>> \in Keys /\ c # Sentinel
      BY ForkAssumption DEF Keys
    <3> QED  BY <2>1, <2>2, <3>2 DEF Shown
  <2>3. CASE ~Alive(f, r)
    <3>1. f.cl[r] # 0 /\ f.cl[r] # 1
      BY <1>1, <2>3 DEF Alive
    <3>2. <<r, Sentinel>> \in Keys
      BY DEF Keys
    <3> QED  BY <1>1, <2>1, <3>1, <3>2 DEF Shown
  <2> QED  BY <2>2, <2>3
<1>4. \A c \in Cols : \/ <<r, c>> \in P.keys
                      \/ t.cl[r] = f.cl[r] /\ t.cv[r][c] = f.cv[r][c]
                      \/ ~Alive(f, r)
  <2> SUFFICES ASSUME NEW c \in Cols, <<r, c>> \notin P.keys, Alive(f, r)
               PROVE  t.cl[r] = f.cl[r] /\ t.cv[r][c] = f.cv[r][c]
    OBVIOUS
  <2>1. <<r, c>> \in Keys /\ c # Sentinel
    BY ForkAssumption DEF Keys
  <2>2. HasSeen(t, f, <<r, c>>)
    BY <2>1 DEF Shown
  <2>3. t.cl[r] >= f.cl[r] /\ (t.cl[r] = f.cl[r] => t.cv[r][c] >= f.cv[r][c])
    BY <1>1, <2>1, <2>2 DEF HasSeen
  <2> QED  BY <1>1, <1>2, <2>3
<1>5. ~Alive(f, r) => \A c \in Cols : f.cv[r][c] = 0
  BY DEF Emptied
<1>6. CASE Later(t, P, r)
  <2>1. f.cl[r] > t.cl[r]
    BY <1>6 DEF Later
  <2>2. \A c \in Cols : <<r, c>> \in P.keys \/ f.cv[r][c] = 0
    BY <1>1, <1>4, <1>5, <2>1
  <2> QED  BY <1>6, <2>2, MergeAnew
<1>7. CASE ~Later(t, P, r)
  <2>1. \A c \in Cols : /\ t.cv[r][c] <= f.cv[r][c]
                        /\ <<r, c>> \in P.keys \/ t.cv[r][c] = f.cv[r][c]
    BY <1>1, <1>2, <1>3, <1>4, <1>5, <1>7
  <2>2. /\ M.cl[r] = t.cl[r]
        /\ \A c \in Cols : M.cv[r][c] = IF /\ <<r, c>> \in P.keys /\ f.cl[r] >= t.cl[r]
                                           /\ f.cv[r][c] > t.cv[r][c]
                                        THEN f.cv[r][c] ELSE t.cv[r][c]
    BY <1>7, MergeJoins
  <2> HIDE DEF M, f
  <2>3. ASSUME NEW c \in Cols PROVE M.cv[r][c] = f.cv[r][c]
    <3>1. CASE t.cv[r][c] = f.cv[r][c]
      BY <2>2, <3>1
    <3>2. CASE t.cv[r][c] # f.cv[r][c]
      <4>1. <<r, c>> \in P.keys /\ f.cl[r] >= t.cl[r] /\ f.cv[r][c] > t.cv[r][c]
        BY <1>1, <1>3, <1>7, <2>1, <3>2
      <4> QED  BY <2>2, <4>1
    <3> QED  BY <3>1, <3>2
  <2> QED  BY <1>3, <1>7, <2>2, <2>3
<1> QED  BY <1>6, <1>7

-----------------------------------------------------------------------------
(* Transactions of a source.                                               *)

\* What stays behind in a stream, after a transaction, was there unchanged.
Follows(S, N) ==
  /\ N.v = S.v + 1
  /\ NotAhead(S.rows, N.rows)
  /\ \A k \in Keys : InStream(N, k) /\ N.at[k].v <= S.v =>
       /\ InStream(S, k) /\ N.at[k] = S.at[k] /\ N.rows.cl[k[1]] = S.rows.cl[k[1]]
       /\ k[2] # Sentinel => N.rows.cv[k[1]][k[2]] = S.rows.cv[k[1]][k[2]]

LEMMA Flips == \A n \in Nat : ((n + 1) % 2 = 1) <=> (n % 2 # 1)
  OBVIOUS

LEMMA WrittenFollows ==
  ASSUME NEW S \in Source, StreamOK(S),
         NEW new \in SUBSET Rows, NEW gone \in SUBSET Rows, NEW cells \in SUBSET (Rows \X Cols),
         \A r \in new : ~Alive(S.rows, r),
         \A r \in gone : Alive(S.rows, r),
         \A k \in cells : Alive(S.rows, k[1]) /\ k[1] \notin gone
  PROVE  LET N == Written(S, new, gone, cells)
         IN  N \in Source /\ StreamOK(N) /\ Follows(S, N)
<1> DEFINE N == Written(S, new, gone, cells)
           W == Writes(S.rows, new, gone, cells)
           Lower(k) == {j \in W : Order[j] < Order[k]}
<1>1. /\ S.v \in Nat /\ S.rows \in Table /\ S.at \in [Keys -> Position]
      /\ \A k \in Keys : S.at[k] \in Position /\ S.at[k].v \in Nat /\ S.at[k].v <= S.v
  BY DEF Source, StreamOK, Position
<1>2. ASSUME NEW r \in Rows
      PROVE  /\ S.rows.cl[r] \in Nat
             /\ N.rows.cl[r] = IF r \in new \cup gone THEN S.rows.cl[r] + 1 ELSE S.rows.cl[r]
             /\ \A c \in Cols : /\ S.rows.cv[r][c] \in Nat
                                /\ N.rows.cv[r][c] = IF r \in gone THEN 0
                                                     ELSE IF r \in new THEN 1
                                                     ELSE IF <<r, c>> \in cells THEN S.rows.cv[r][c] + 1
                                                     ELSE S.rows.cv[r][c]
  BY <1>1, RowTypes DEF Written
<1>3. /\ N.v = S.v + 1
      /\ N.at = [k \in Keys |-> IF k \in W THEN [v |-> S.v + 1, seq |-> Cardinality(Lower(k))]
                                           ELSE S.at[k]]
      /\ \A k \in Keys : /\ k \in W => N.at[k].v = S.v + 1 /\ N.at[k].seq = Cardinality(Lower(k))
                         /\ k \notin W => N.at[k] = S.at[k]
  <2>1. N.v = S.v + 1
    BY DEF Written
  <2>2. N.at = [k \in Keys |-> IF k \in W THEN [v |-> S.v + 1, seq |-> Cardinality(Lower(k))]
                                           ELSE S.at[k]]
    BY DEF Written
  <2> HIDE DEF N, W, Lower
  <2> QED  BY <2>1, <2>2
<1>4. /\ W \in SUBSET Keys
      /\ \A k \in Keys : k \in W <=> IF k[2] = Sentinel
                                     THEN k[1] \in gone \/ (k[1] \in new /\ S.rows.cl[k[1]] # 0)
                                     ELSE k[1] \in new \/ k \in cells
  BY DEF Writes
<1>5. \A k : IsFiniteSet(Lower(k)) /\ Cardinality(Lower(k)) \in Nat
  <2>1. \A k : Lower(k) \in SUBSET Keys
    BY <1>4
  <2> HIDE DEF Lower
  <2> QED  BY <2>1, KeysFinite, FS_Subset, FS_CardinalityType
<1>6. N \in Source
  <2>1. N.rows \in Table
    BY <1>1, RowTypes DEF Written, Table
  <2>2. N.at \in [Keys -> Position]
    <3> HIDE DEF N, W, Lower
    <3>1. \A k \in Keys : [v |-> S.v + 1, seq |-> Cardinality(Lower(k))] \in Position
      BY <1>1, <1>5 DEF Position
    <3> QED  BY <1>1, <1>3, <3>1
  <2> QED  BY <1>1, <2>1, <2>2 DEF Written, Source
<1>7. \A r \in Rows : /\ r \in new => ~Alive(S.rows, r) /\ Alive(N.rows, r)
                      /\ r \in gone => Alive(S.rows, r) /\ ~Alive(N.rows, r)
                      /\ r \notin new \cup gone => N.rows.cl[r] = S.rows.cl[r]
                                                   /\ (Alive(N.rows, r) <=> Alive(S.rows, r))
  BY <1>2, Flips DEF Alive
<1>8. ASSUME NEW k \in Keys, InStream(N, k), k \notin W
      PROVE  /\ InStream(S, k) /\ N.at[k] = S.at[k] /\ N.rows.cl[k[1]] = S.rows.cl[k[1]]
             /\ k[2] # Sentinel => N.rows.cv[k[1]][k[2]] = S.rows.cv[k[1]][k[2]]
  <2>1. k[1] \in Rows /\ k[2] \in Cols \cup {Sentinel} /\ k = <<k[1], k[2]>>
    BY DEF Keys
  <2>2. CASE k[2] = Sentinel
    <3>1. k[1] \notin gone /\ (k[1] \in new => S.rows.cl[k[1]] = 0)
      BY <1>4, <1>8, <2>2
    <3>2. N.rows.cl[k[1]] > 1
      BY <1>8, <2>2 DEF InStream
    <3>3. k[1] \notin new
      BY <1>2, <2>1, <3>1, <3>2
    <3> QED  BY <1>2, <1>3, <1>8, <2>1, <2>2, <3>1, <3>2, <3>3 DEF InStream
  <2>3. CASE k[2] # Sentinel
    <3>1. k[1] \notin new /\ k \notin cells
      BY <1>4, <1>8, <2>3
    <3>2. Alive(N.rows, k[1])
      BY <1>8, <2>3 DEF InStream
    <3>3. k[1] \notin gone
      BY <1>7, <2>1, <3>2
    <3>4. N.rows.cl[k[1]] = S.rows.cl[k[1]] /\ Alive(S.rows, k[1])
      BY <1>7, <2>1, <3>1, <3>2, <3>3
    <3>5. k[2] \in Cols /\ N.rows.cv[k[1]][k[2]] = S.rows.cv[k[1]][k[2]]
      BY <1>2, <2>1, <2>3, <3>1, <3>3
    <3> QED  BY <1>3, <1>8, <2>3, <3>4, <3>5 DEF InStream
  <2> QED  BY <2>2, <2>3
<1>9. StreamOK(N)
  <2>1. ASSUME NEW k \in Keys
        PROVE  N.at[k].v <= N.v /\ (InStream(N, k) => N.at[k].v >= 1)
    <3>1. CASE k \in W
      <4> HIDE DEF N, W, Lower
      <4> QED  BY <1>1, <1>3, <3>1
    <3>2. CASE k \notin W
      <4>1. N.at[k].v <= N.v
        <5> HIDE DEF N, W, Lower
        <5> QED  BY <1>1, <1>3, <3>2
      <4>2. InStream(N, k) => N.at[k] = S.at[k] /\ InStream(S, k)
        BY <1>8, <3>2
      <4> QED  BY <4>1, <4>2 DEF StreamOK
    <3> QED  BY <3>1, <3>2
  <2>2. ASSUME NEW j \in Keys, NEW k \in Keys, InStream(N, j), InStream(N, k), N.at[j] = N.at[k]
        PROVE  j = k
    <3>1. CASE j \notin W /\ k \notin W
      BY <1>8, <2>2, <3>1 DEF StreamOK
    <3>2. (j \in W) <=> (k \in W)
      <4> HIDE DEF N, Lower, W
      <4>1. \A i \in Keys : i \in W <=> N.at[i].v = S.v + 1
        BY <1>1, <1>3
      <4> QED  BY <2>2, <4>1
    <3>3. CASE j \in W /\ k \in W
      <4>1. Cardinality(Lower(j)) = Cardinality(Lower(k))
        <5> HIDE DEF N, W, Lower
        <5>1. N.at[j].seq = Cardinality(Lower(j)) /\ N.at[k].seq = Cardinality(Lower(k))
          BY <1>3, <3>3
        <5> QED  BY <2>2, <5>1
      <4>2. Order[j] \in Nat /\ Order[k] \in Nat /\ \A i \in W : Order[i] \in Nat
        BY <1>4, ForkAssumption
      <4>3. ASSUME NEW a \in W, NEW b \in W, Order[a] < Order[b]
            PROVE  Cardinality(Lower(a)) # Cardinality(Lower(b))
        <5>1. Lower(a) \subseteq Lower(b)
          BY <1>4, <4>3, ForkAssumption
        <5>2. a \in Lower(b) /\ a \notin Lower(a)
          BY <1>4, <4>3, ForkAssumption
        <5> HIDE DEF Lower
        <5> QED  BY <1>5, <5>1, <5>2, FS_Subset
      <4>4. Order[j] = Order[k]
        <5> HIDE DEF Lower
        <5> QED  BY <3>3, <4>1, <4>2, <4>3
      <4> QED  BY <4>4, ForkAssumption
    <3> QED  BY <3>1, <3>2, <3>3
  <2>3. ASSUME NEW r \in Rows, NEW c \in Cols, ~Alive(N.rows, r) PROVE N.rows.cv[r][c] = 0
    <3>1. CASE r \in gone
      BY <1>2, <3>1
    <3>2. CASE r \notin gone
      <4>1. r \notin new /\ ~Alive(S.rows, r)
        BY <1>7, <2>3, <3>2
      <4>2. <<r, c>> \notin cells
        BY <4>1
      <4>3. S.rows.cv[r][c] = 0
        BY <4>1 DEF StreamOK
      <4> QED  BY <1>2, <3>2, <4>1, <4>2, <4>3
    <3> QED  BY <3>1, <3>2
  <2> QED  BY <2>1, <2>2, <2>3 DEF StreamOK
<1>10. Follows(S, N)
  <2>1. NotAhead(S.rows, N.rows)
    <3> SUFFICES ASSUME NEW r \in Rows
                 PROVE  /\ S.rows.cl[r] <= N.rows.cl[r]
                        /\ S.rows.cl[r] = N.rows.cl[r] => \A c \in Cols : S.rows.cv[r][c] <= N.rows.cv[r][c]
      BY DEF NotAhead
    <3> HIDE DEF N
    <3>1. CASE r \in new \cup gone
      BY <1>2, <3>1
    <3>2. CASE r \notin new \cup gone
      <4>1. N.rows.cl[r] = S.rows.cl[r]
        BY <1>2, <3>2
      <4>2. ASSUME NEW c \in Cols PROVE S.rows.cv[r][c] <= N.rows.cv[r][c]
        <5>1. S.rows.cv[r][c] \in Nat
          BY <1>2
        <5>2. N.rows.cv[r][c] = S.rows.cv[r][c] + 1 \/ N.rows.cv[r][c] = S.rows.cv[r][c]
          BY <1>2, <3>2
        <5> QED  BY <5>1, <5>2
      <4> QED  BY <1>2, <4>1, <4>2
    <3> QED  BY <3>1, <3>2
  <2>2. ASSUME NEW k \in Keys, N.at[k].v <= S.v PROVE k \notin W
    <3> HIDE DEF N, W, Lower
    <3> QED  BY <1>1, <1>3, <2>2
  <2> QED  BY <1>3, <1>8, <2>1, <2>2 DEF Follows
<1> QED  BY <1>6, <1>9, <1>10

\* What stands behind a cursor that is not ahead of the source is unmoved.
LEMMA Unmoved ==
  ASSUME NEW S \in Source, NEW N \in Source, Follows(S, N), NEW c \in Cursor, c.v <= S.v,
         NEW k \in Keys, InStream(N, k), Behind(N.at[k], c)
  PROVE  /\ InStream(S, k) /\ N.at[k] = S.at[k]
         /\ \A t : HasSeen(t, S.rows, k) => HasSeen(t, N.rows, k)
<1>1. N.at[k].v \in Nat /\ S.v \in Nat /\ c.v \in Nat
  BY DEF Source, Position, Cursor
<1>2. N.at[k].v <= S.v
  BY <1>1 DEF Behind
<1>3. /\ InStream(S, k) /\ N.at[k] = S.at[k] /\ N.rows.cl[k[1]] = S.rows.cl[k[1]]
      /\ k[2] # Sentinel => N.rows.cv[k[1]][k[2]] = S.rows.cv[k[1]][k[2]]
  BY <1>2 DEF Follows
<1> QED  BY <1>3 DEF HasSeen

LEMMA NotAheadTwice ==
  ASSUME NEW t \in Table, NEW u \in Table, NEW w \in Table, NotAhead(t, u), NotAhead(u, w)
  PROVE  NotAhead(t, w)
<1> SUFFICES ASSUME NEW r \in Rows
             PROVE  /\ t.cl[r] <= w.cl[r]
                    /\ t.cl[r] = w.cl[r] => \A c \in Cols : t.cv[r][c] <= w.cv[r][c]
  BY DEF NotAhead
<1>1. /\ t.cl[r] \in Nat /\ u.cl[r] \in Nat /\ w.cl[r] \in Nat
      /\ \A c \in Cols : t.cv[r][c] \in Nat /\ u.cv[r][c] \in Nat /\ w.cv[r][c] \in Nat
  BY RowTypes
<1>2. /\ t.cl[r] <= u.cl[r] /\ u.cl[r] <= w.cl[r]
      /\ t.cl[r] = u.cl[r] => \A c \in Cols : t.cv[r][c] <= u.cv[r][c]
      /\ u.cl[r] = w.cl[r] => \A c \in Cols : u.cv[r][c] <= w.cv[r][c]
  BY DEF NotAhead
<1>3. t.cl[r] = w.cl[r] => t.cl[r] = u.cl[r] /\ u.cl[r] = w.cl[r]
  BY <1>1, <1>2
<1> QED  BY <1>1, <1>2, <1>3

LEMMA SameSeen == ASSUME NEW t, NEW k, t \in Table, k \in Keys PROVE HasSeen(t, t, k)
<1>1. k[1] \in Rows /\ (k[2] # Sentinel => k[2] \in Cols)
  BY DEF Keys
<1>2. t.cl[k[1]] \in Nat /\ \A c \in Cols : t.cv[k[1]][c] \in Nat
  BY <1>1, RowTypes
<1> QED  BY <1>1, <1>2 DEF HasSeen

-----------------------------------------------------------------------------
(* The inductive invariant.                                                *)

\* The cursor is one of the source the fork follows.
Led == known \in Sites /\ ~misled /\ pull.at # "named"

StreamsOK == \A s \in Sites : StreamOK(src[s])

Pulling == pull.at # "idle" => pull.site \in Sites /\ known = pull.site

CursorOK ==
  Led => /\ cursor.v <= src[known].v
         /\ \A k \in Keys : InStream(src[known], k) /\ Behind(src[known].at[k], cursor)
                              => HasSeen(copy, src[known].rows, k)

\* The rows a page was read from, and what it brings.
PageRows ==
  pull.at = "got" =>
    /\ NotAhead(pull.page.from, src[known].rows) /\ Emptied(pull.page.from)
    /\ merged \subseteq {known} => NotAhead(copy, pull.page.from)

PageBrings ==
  pull.at = "got" /\ ~misled =>
    /\ pull.page.next.v <= src[known].v
    /\ \A k \in Keys : InStream(src[known], k) /\ Behind(src[known].at[k], pull.page.next)
         => \/ Behind(src[known].at[k], cursor)
            \/ k \in pull.page.keys /\ HasSeen(pull.page.from, src[known].rows, k)
    /\ ~pull.page.more => \A k \in Keys : Shown(pull.page.from, k)
                            => k \in pull.page.keys \/ HasSeen(copy, pull.page.from, k)

\* The fork holds nothing newer than the one source it merged changes of.
CopyOK == \A s \in Sites : merged \subseteq {s} => NotAhead(copy, src[s].rows)

PullInv == /\ ForkTypeOK /\ StreamsOK /\ Pulling /\ CursorOK
           /\ PageRows /\ PageBrings /\ NeverStuck /\ CopyOK

LEMMA InitInv == Init => PullInv
<1> SUFFICES ASSUME Init PROVE PullInv
  OBVIOUS
<1>1. NoRows \in Table /\ Start \in Cursor /\ NoPage \in APage
  BY DEF NoRows, Table, Start, Cursor, NoPage, APage
<1>2. src \in [Sites -> Source]
  BY <1>1 DEF Init, Source, Position
<1>3. ForkTypeOK
  BY <1>1, <1>2 DEF Init, ForkTypeOK, Resting, APage, Source
<1>4. \A s \in Sites : src[s].rows = NoRows
  BY DEF Init
<1>5. ASSUME NEW s \in Sites, NEW k \in Keys PROVE ~InStream(src[s], k)
  BY <1>4 DEF InStream, NoRows, Alive, Keys
<1>6. StreamsOK
  <2> SUFFICES ASSUME NEW s \in Sites PROVE StreamOK(src[s])
    BY DEF StreamsOK
  <2>1. \A k \in Keys : src[s].at[k].v <= src[s].v
    BY DEF Init
  <2>2. \A r \in Rows, c \in Cols : src[s].rows.cv[r][c] = 0
    BY <1>4 DEF NoRows
  <2> QED  BY <1>5, <2>1, <2>2 DEF StreamOK
<1>7. CopyOK
  BY <1>4 DEF Init, CopyOK, NotAhead, NoRows
<1>8. Pulling /\ CursorOK /\ PageRows /\ PageBrings /\ NeverStuck
  BY ForkAssumption DEF Init, Resting, Led, Pulling, CursorOK, PageRows, PageBrings, NeverStuck
<1> QED  BY <1>3, <1>6, <1>7, <1>8 DEF PullInv

\* A transaction of a source moves nothing that stands behind the cursor.
LEMMA CommitInv == ASSUME PullInv, NEW s \in Sites, Commit(s) PROVE PullInv'
<1>1. PICK new \in SUBSET Rows, gone \in SUBSET Rows, cells \in SUBSET (Rows \X Cols) :
        /\ \A r \in new : ~Alive(src[s].rows, r)
        /\ \A r \in gone : Alive(src[s].rows, r)
        /\ \A k \in cells : Alive(src[s].rows, k[1]) /\ k[1] \notin gone
        /\ src' = [src EXCEPT ![s] = Written(src[s], new, gone, cells)]
  BY DEF Commit
<1> DEFINE N == Written(src[s], new, gone, cells)
<1>2. /\ src \in [Sites -> Source] /\ cursor \in Cursor /\ copy \in Table
      /\ pull.page \in APage /\ pull.page.next \in Cursor /\ pull.page.from \in Table
  BY DEF PullInv, ForkTypeOK, Source, APage
<1>3. N \in Source /\ StreamOK(N) /\ Follows(src[s], N)
  BY <1>1, <1>2, WrittenFollows DEF PullInv, StreamsOK
<1>4. UNCHANGED <<known, cursor, copy, pull, merged, misled, bound>>
  BY DEF Commit, forkVars
<1>5. src' = [src EXCEPT ![s] = N]
  BY <1>1
<1> HIDE DEF N
<1>6. /\ src' \in [Sites -> Source]
      /\ \A x \in Sites : x # s => src'[x] = src[x]
      /\ src'[s] = N
  BY <1>2, <1>3, <1>5
<1>7. ForkTypeOK'
  BY <1>4, <1>6 DEF PullInv, ForkTypeOK, Source
<1>8. StreamsOK' /\ Pulling' /\ NeverStuck'
  BY <1>3, <1>4, <1>6 DEF PullInv, StreamsOK, Pulling, NeverStuck
<1>9. \A x \in Sites : src[x].v <= src'[x].v /\ NotAhead(src[x].rows, src'[x].rows)
  <2> SUFFICES ASSUME NEW x \in Sites PROVE src[x].v <= src'[x].v /\ NotAhead(src[x].rows, src'[x].rows)
    OBVIOUS
  <2>1. src[x].v \in Nat /\ src[x].rows \in Table
    BY <1>2 DEF Source
  <2>2. NotAhead(src[x].rows, src[x].rows)
    BY <2>1, RowTypes DEF NotAhead
  <2> QED  BY <1>3, <1>6, <2>1, <2>2 DEF Follows
<1>10. ASSUME NEW x \in Sites, NEW c \in Cursor, c.v <= src[x].v,
              NEW k \in Keys, InStream(src'[x], k), Behind(src'[x].at[k], c)
       PROVE  /\ InStream(src[x], k) /\ src'[x].at[k] = src[x].at[k]
              /\ \A t : HasSeen(t, src[x].rows, k) => HasSeen(t, src'[x].rows, k)
  BY <1>2, <1>3, <1>6, <1>10, Unmoved
<1>11. CursorOK'
  <2> SUFFICES ASSUME Led
               PROVE  /\ cursor.v <= src'[known].v
                      /\ \A k \in Keys : InStream(src'[known], k) /\ Behind(src'[known].at[k], cursor)
                                           => HasSeen(copy, src'[known].rows, k)
    BY <1>4 DEF CursorOK, Led
  <2>1. /\ known \in Sites /\ cursor.v <= src[known].v
        /\ \A k \in Keys : InStream(src[known], k) /\ Behind(src[known].at[k], cursor)
                             => HasSeen(copy, src[known].rows, k)
    BY DEF PullInv, CursorOK, Led
  <2>2. cursor.v \in Nat /\ src[known].v \in Nat /\ src'[known].v \in Nat
    BY <1>2, <1>6, <2>1 DEF Cursor, Source
  <2>3. ASSUME NEW k \in Keys, InStream(src'[known], k), Behind(src'[known].at[k], cursor)
        PROVE  HasSeen(copy, src'[known].rows, k)
    <3>1. /\ InStream(src[known], k) /\ src'[known].at[k] = src[known].at[k]
          /\ \A t : HasSeen(t, src[known].rows, k) => HasSeen(t, src'[known].rows, k)
      BY <1>2, <1>10, <2>1, <2>3
    <3> QED  BY <2>1, <2>3, <3>1
  <2> QED  BY <1>9, <2>1, <2>2, <2>3
<1>12. PageRows'
  <2> SUFFICES ASSUME pull.at = "got" PROVE NotAhead(pull.page.from, src'[known].rows)
    BY <1>4 DEF PullInv, PageRows
  <2>1. known \in Sites /\ NotAhead(pull.page.from, src[known].rows)
    BY DEF PullInv, PageRows, Pulling
  <2>2. src[known].rows \in Table /\ src'[known].rows \in Table
    BY <1>2, <1>6, <2>1 DEF Source
  <2> QED  BY <1>2, <1>9, <2>1, <2>2, NotAheadTwice
<1>13. PageBrings'
  <2> SUFFICES ASSUME pull.at = "got", ~misled
               PROVE  /\ pull.page.next.v <= src'[known].v
                      /\ \A k \in Keys : InStream(src'[known], k) /\ Behind(src'[known].at[k], pull.page.next)
                           => \/ Behind(src'[known].at[k], cursor)
                              \/ k \in pull.page.keys /\ HasSeen(pull.page.from, src'[known].rows, k)
    BY <1>4 DEF PullInv, PageBrings
  <2>1. /\ known \in Sites /\ pull.page.next.v <= src[known].v
        /\ \A k \in Keys : InStream(src[known], k) /\ Behind(src[known].at[k], pull.page.next)
             => \/ Behind(src[known].at[k], cursor)
                \/ k \in pull.page.keys /\ HasSeen(pull.page.from, src[known].rows, k)
    BY DEF PullInv, PageBrings, Pulling
  <2>2. pull.page.next.v \in Nat /\ src[known].v \in Nat /\ src'[known].v \in Nat
    BY <1>2, <1>6, <2>1 DEF Cursor, Source
  <2>3. ASSUME NEW k \in Keys, InStream(src'[known], k), Behind(src'[known].at[k], pull.page.next)
        PROVE  \/ Behind(src'[known].at[k], cursor)
               \/ k \in pull.page.keys /\ HasSeen(pull.page.from, src'[known].rows, k)
    <3>1. /\ InStream(src[known], k) /\ src'[known].at[k] = src[known].at[k]
          /\ \A t : HasSeen(t, src[known].rows, k) => HasSeen(t, src'[known].rows, k)
      BY <1>2, <1>10, <2>1, <2>3
    <3> QED  BY <2>1, <2>3, <3>1
  <2> QED  BY <1>9, <2>1, <2>2, <2>3
<1>14. CopyOK'
  <2> SUFFICES ASSUME NEW x \in Sites, merged \subseteq {x} PROVE NotAhead(copy, src'[x].rows)
    BY <1>4 DEF CopyOK
  <2>1. NotAhead(copy, src[x].rows) /\ src[x].rows \in Table /\ src'[x].rows \in Table
    BY <1>2, <1>6 DEF PullInv, CopyOK, Source
  <2> QED  BY <1>2, <1>9, <2>1, NotAheadTwice
<1> QED  BY <1>7, <1>8, <1>11, <1>12, <1>13, <1>14 DEF PullInv

\* The source is named before its cursor is reset.
LEMMA StartsInv == ASSUME PullInv, NEW s \in Sites, PullStarts(s) PROVE PullInv'
<1>1. /\ pull.at = "idle" /\ known' = s /\ UNCHANGED <<src, cursor, copy, merged, misled>>
      /\ pull' = [pull EXCEPT !.at = IF known = s THEN "asks" ELSE "named", !.site = s]
      /\ bound' = [bound EXCEPT !.switches = IF known \in {NoSite, s} THEN @ ELSE @ + 1]
  BY DEF PullStarts
<1>2. pull'.at = (IF known = s THEN "asks" ELSE "named") /\ pull'.site = s /\ pull'.page = pull.page
  BY <1>1 DEF PullInv, ForkTypeOK
<1>3. ForkTypeOK'
  <2>1. /\ pull \in [at : {"idle", "named", "asks", "got"}, site : Sites \cup {NoSite}, page : APage]
        /\ bound \in [stops : Nat, switches : Nat]
    BY DEF PullInv, ForkTypeOK, APage
  <2>2. pull' \in [at : {"idle", "named", "asks", "got"}, site : Sites \cup {NoSite}, page : APage]
    BY <1>1, <2>1
  <2>3. bound' \in [stops : Nat, switches : Nat]
    BY <1>1, <2>1
  <2> QED  BY <1>1, <2>2, <2>3 DEF PullInv, ForkTypeOK, APage
<1>4. StreamsOK' /\ Pulling' /\ CopyOK'
  BY <1>1, <1>2 DEF PullInv, StreamsOK, Pulling, CopyOK
<1>5. CursorOK'
  BY <1>1, <1>2 DEF PullInv, CursorOK, Led
<1>6. PageRows' /\ PageBrings' /\ NeverStuck'
  BY <1>2 DEF PageRows, PageBrings, NeverStuck
<1> QED  BY <1>3, <1>4, <1>5, <1>6 DEF PullInv

\* Nothing stands behind the first cursor.
LEMMA NothingBehindStart ==
  ASSUME NEW S \in Source, StreamOK(S), NEW k \in Keys, InStream(S, k)
  PROVE  ~Behind(S.at[k], Start)
<1>1. S.at[k] \in Position /\ S.at[k].v >= 1
  BY DEF Source, StreamOK
<1> QED  BY <1>1 DEF Behind, Start, Position

LEMMA NamedInv == ASSUME PullInv, PullNamed PROVE PullInv'
<1>1. /\ pull.at = "named" /\ cursor' = Start /\ misled' = FALSE
      /\ pull' = [pull EXCEPT !.at = "asks"] /\ UNCHANGED <<src, known, copy, merged, bound>>
  BY DEF PullNamed
<1>2. pull'.at = "asks" /\ pull'.site = pull.site
  BY <1>1 DEF PullInv, ForkTypeOK
<1>3. ForkTypeOK'
  BY <1>1 DEF PullInv, ForkTypeOK, Start, Cursor
<1>4. StreamsOK' /\ Pulling' /\ CopyOK'
  BY <1>1, <1>2 DEF PullInv, StreamsOK, Pulling, CopyOK
<1>5. CursorOK'
  <2>1. known \in Sites /\ src[known] \in Source /\ StreamOK(src[known])
    BY <1>1 DEF PullInv, ForkTypeOK, StreamsOK, Pulling, Source
  <2>2. Start.v <= src[known].v
    BY <2>1 DEF Start, Source
  <2> QED  BY <1>1, <2>1, <2>2, NothingBehindStart DEF CursorOK
<1>6. PageRows' /\ PageBrings' /\ NeverStuck'
  BY <1>2 DEF PageRows, PageBrings, NeverStuck
<1> QED  BY <1>3, <1>4, <1>5, <1>6 DEF PullInv

\* A page is a consistent picture of the source.
LEMMA AsksInv == ASSUME PullInv, PullAsks PROVE PullInv'
<1> DEFINE S == src[known]
<1>1. /\ pull.at = "asks" /\ known \in Sites /\ pull.site = known
      /\ UNCHANGED <<src, known, cursor, copy, merged, misled, bound>>
  BY DEF PullInv, Pulling, PullAsks
<1>2. PICK out \in Taken(S, cursor) :
        pull' = [pull EXCEPT !.at = "got", !.page = PageOf(S, cursor, out)]
  BY <1>1 DEF PullAsks
<1> DEFINE P == PageOf(S, cursor, out)
<1>3. S \in Source /\ StreamOK(S) /\ cursor \in Cursor /\ S.rows \in Table
  BY <1>1 DEF PullInv, ForkTypeOK, StreamsOK, Source
<1>4. SkipsNothing(S, cursor, P)
  BY <1>3, PageSkipsNothing
<1>5. P \in APage
  <2>1. /\ P.keys \in SUBSET Keys /\ P.from \in Table /\ P.next \in Cursor /\ P.more \in BOOLEAN
    BY <1>3, <1>4 DEF SkipsNothing
  <2>2. P = [keys |-> P.keys, from |-> P.from, next |-> P.next, more |-> P.more]
    BY DEF PageOf
  <2> HIDE DEF P
  <2> QED  BY <2>1, <2>2 DEF APage
<1>6. pull'.at = "got" /\ pull'.site = pull.site /\ pull'.page = P
  BY <1>2 DEF PullInv, ForkTypeOK
<1>7. pull' = [pull EXCEPT !.at = "got", !.page = P]
  BY <1>2
<1> HIDE DEF P
<1>8. ForkTypeOK'
  BY <1>1, <1>5, <1>7 DEF PullInv, ForkTypeOK, APage
<1>9. StreamsOK' /\ Pulling' /\ CopyOK'
  BY <1>1, <1>6 DEF PullInv, StreamsOK, Pulling, CopyOK
<1>10. CursorOK'
  BY <1>1, <1>6 DEF PullInv, CursorOK, Led
<1>11. NeverStuck'
  BY <1>1, <1>4, <1>6 DEF NeverStuck, SkipsNothing
<1>12. P.from = S.rows
  BY <1>4 DEF SkipsNothing
<1>13. PageRows'
  <2>1. NotAhead(S.rows, S.rows)
    BY <1>3, RowTypes DEF NotAhead
  <2>2. Emptied(S.rows)
    BY <1>3 DEF StreamOK, Emptied
  <2> QED  BY <1>1, <1>6, <1>12, <2>1, <2>2 DEF PageRows, PullInv, CopyOK
<1>14. PageBrings'
  <2> SUFFICES ASSUME ~misled
               PROVE  /\ P.next.v <= S.v
                      /\ \A k \in Keys : InStream(S, k) /\ Behind(S.at[k], P.next)
                           => Behind(S.at[k], cursor) \/ (k \in P.keys /\ HasSeen(P.from, S.rows, k))
                      /\ ~P.more => \A k \in Keys : Shown(P.from, k)
                                      => k \in P.keys \/ HasSeen(copy, P.from, k)
    BY <1>1, <1>6 DEF PageBrings
  <2>1. /\ cursor.v <= S.v
        /\ \A k \in Keys : InStream(S, k) /\ Behind(S.at[k], cursor) => HasSeen(copy, S.rows, k)
    BY <1>1 DEF PullInv, CursorOK, Led
  <2>2. \A k \in Keys : HasSeen(S.rows, S.rows, k)
    BY <1>3, SameSeen
  <2>3. \A k \in Keys : Shown(S.rows, k) <=> InStream(S, k)
    BY DEF Shown, InStream
  <2> HIDE DEF S
  <2> QED  BY <1>4, <1>12, <2>1, <2>2, <2>3 DEF SkipsNothing
<1> QED  BY <1>8, <1>9, <1>10, <1>11, <1>13, <1>14 DEF PullInv

\* A page and its cursor are applied together.
LEMMA AppliesInv == ASSUME PullInv, PullApplies PROVE PullInv'
<1> DEFINE P == pull.page
<1>1. /\ pull.at = "got" /\ copy' = Merge(copy, P) /\ cursor' = P.next
      /\ UNCHANGED <<src, known, misled, bound>>
      /\ merged' = IF P.keys = {} THEN merged ELSE merged \cup {pull.site}
      /\ pull' = IF P.more THEN [pull EXCEPT !.at = "asks", !.page = NoPage] ELSE Resting
  BY DEF PullApplies
<1>2. /\ known \in Sites /\ pull.site = known /\ src[known] \in Source
      /\ P \in APage /\ copy \in Table /\ P.from \in Table /\ P.next \in Cursor
      /\ P.keys \in SUBSET Keys
  BY <1>1 DEF PullInv, Pulling, ForkTypeOK, APage, Source
<1>3. NoPage \in APage
  BY DEF NoPage, APage, NoRows, Table, Start, Cursor
<1>4. copy' \in Table
  BY <1>1, <1>2, MergeType
<1>5. /\ pull'.at \in {"idle", "asks"}
      /\ pull'.at # "idle" => pull'.site = pull.site
  BY <1>1 DEF PullInv, ForkTypeOK, Resting
<1>6. ForkTypeOK'
  BY <1>1, <1>2, <1>3, <1>4 DEF PullInv, ForkTypeOK, APage, Resting
<1>7. StreamsOK' /\ Pulling'
  BY <1>1, <1>2, <1>5 DEF PullInv, StreamsOK, Pulling
<1>8. CursorOK'
  <2> SUFFICES ASSUME ~misled
               PROVE  /\ P.next.v <= src[known].v
                      /\ \A k \in Keys : InStream(src[known], k) /\ Behind(src[known].at[k], P.next)
                                           => HasSeen(copy', src[known].rows, k)
    BY <1>1 DEF CursorOK, Led
  <2>1. /\ P.next.v <= src[known].v
        /\ \A k \in Keys : InStream(src[known], k) /\ Behind(src[known].at[k], P.next)
             => \/ Behind(src[known].at[k], cursor)
                \/ k \in P.keys /\ HasSeen(P.from, src[known].rows, k)
    BY <1>1 DEF PullInv, PageBrings
  <2>2. \A k \in Keys : InStream(src[known], k) /\ Behind(src[known].at[k], cursor)
                          => HasSeen(copy, src[known].rows, k)
    BY <1>1, <1>2 DEF PullInv, CursorOK, Led
  <2>3. src[known].rows \in Table
    BY <1>2 DEF Source
  <2>4. ASSUME NEW k \in Keys, InStream(src[known], k), Behind(src[known].at[k], P.next)
        PROVE  HasSeen(Merge(copy, P), src[known].rows, k)
    <3>1. CASE HasSeen(copy, src[known].rows, k)
      BY <1>2, <2>3, <3>1, MergeForgetsNothing
    <3>2. CASE k \in P.keys /\ HasSeen(P.from, src[known].rows, k)
      BY <1>2, <2>3, <3>2, MergeTakes
    <3> QED  BY <2>1, <2>2, <2>4, <3>1, <3>2
  <2> QED  BY <1>1, <2>1, <2>4
<1>9. PageRows' /\ PageBrings' /\ NeverStuck'
  BY <1>5 DEF PageRows, PageBrings, NeverStuck
<1>10. CopyOK'
  <2> SUFFICES ASSUME NEW s \in Sites, merged' \subseteq {s} PROVE NotAhead(copy', src[s].rows)
    BY <1>1 DEF CopyOK
  <2>1. CASE P.keys = {}
    <3>1. NotAhead(copy, src[s].rows)
      BY <1>1, <2>1 DEF PullInv, CopyOK
    <3>2. \A r \in Rows : ~Later(copy, P, r) /\ \A c \in Cols : <<r, c>> \notin P.keys
      BY <2>1 DEF Later
    <3>3. \A r \in Rows : copy'.cl[r] = copy.cl[r] /\ \A c \in Cols : copy'.cv[r][c] = copy.cv[r][c]
      <4> SUFFICES ASSUME NEW r \in Rows
                   PROVE  /\ Merge(copy, P).cl[r] = copy.cl[r]
                          /\ \A c \in Cols : Merge(copy, P).cv[r][c] = copy.cv[r][c]
        BY <1>1
      <4>1. ~Later(copy, P, r) /\ \A c \in Cols : <<r, c>> \notin P.keys
        BY <3>2
      <4> HIDE DEF P
      <4> QED  BY <1>2, <4>1, MergeJoins
    <3> QED  BY <3>1, <3>3 DEF NotAhead
  <2>2. CASE P.keys # {}
    <3>1. merged \subseteq {known} /\ s = known
      BY <1>1, <1>2, <2>2
    <3>2. NotAhead(copy, P.from) /\ NotAhead(P.from, src[known].rows)
      BY <1>1, <3>1 DEF PullInv, PageRows
    <3>3. NotAhead(copy', P.from)
      BY <1>1, <1>2, <3>2, MergeStaysBehind
    <3>4. src[known].rows \in Table
      BY <1>2 DEF Source
    <3> QED  BY <1>2, <1>4, <3>1, <3>2, <3>3, <3>4, NotAheadTwice
  <2> QED  BY <2>1, <2>2
<1> QED  BY <1>6, <1>7, <1>8, <1>9, <1>10 DEF PullInv

\* A pull that stops between naming a source and resetting the cursor misleads.
LEMMA StopsInv == ASSUME PullInv, PullStops PROVE PullInv'
<1>1. /\ pull.at # "idle" /\ pull' = Resting /\ UNCHANGED <<src, known, cursor, copy, merged>>
      /\ misled' = (misled \/ (pull.at = "named" /\ cursor # Start))
      /\ bound' = [bound EXCEPT !.stops = @ + 1]
  BY DEF PullStops
<1>2. Resting.at = "idle" /\ Resting.page \in APage
  BY DEF Resting, NoPage, APage, NoRows, Table, Start, Cursor
<1>3. ForkTypeOK'
  BY <1>1, <1>2 DEF PullInv, ForkTypeOK, APage, Resting
<1>4. StreamsOK' /\ Pulling' /\ CopyOK'
  BY <1>1, <1>2 DEF PullInv, StreamsOK, Pulling, CopyOK
<1>5. CursorOK'
  <2>1. CASE pull.at = "named" /\ cursor = Start
    <3>1. known \in Sites /\ src[known] \in Source /\ StreamOK(src[known])
      BY <1>1 DEF PullInv, ForkTypeOK, StreamsOK, Pulling, Source
    <3>2. Start.v <= src[known].v
      BY <3>1 DEF Start, Source
    <3> QED  BY <1>1, <2>1, <3>1, <3>2, NothingBehindStart DEF CursorOK
  <2>2. CASE ~(pull.at = "named" /\ cursor = Start)
    BY <1>1, <2>2 DEF PullInv, CursorOK, Led
  <2> QED  BY <2>1, <2>2
<1>6. PageRows' /\ PageBrings' /\ NeverStuck'
  BY <1>1, <1>2 DEF PageRows, PageBrings, NeverStuck
<1> QED  BY <1>3, <1>4, <1>5, <1>6 DEF PullInv

LEMMA NextInv == PullInv /\ [Next]_vars => PullInv'
<1> SUFFICES ASSUME PullInv, [Next]_vars PROVE PullInv'
  OBVIOUS
<1>1. CASE UNCHANGED vars
  BY <1>1 DEF vars, forkVars, PullInv, ForkTypeOK, StreamsOK, Pulling, CursorOK, Led,
              PageRows, PageBrings, NeverStuck, CopyOK
<1>2. ASSUME NEW s \in Sites, Commit(s) PROVE PullInv'
  BY <1>2, CommitInv
<1>3. ASSUME NEW s \in Sites, PullStarts(s) PROVE PullInv'
  BY <1>3, StartsInv
<1> QED  BY <1>1, <1>2, <1>3, NamedInv, AsksInv, AppliesInv, StopsInv DEF Next, PullSteps
-----------------------------------------------------------------------------
(* The theorems.                                                           *)

\* Whatever sources write, whatever pages hold, wherever pulls stop and
\* whichever sites they are pulled from, the invariant holds.
THEOREM PullInvariant == Spec => []PullInv
  BY InitInv, NextInv, PTL DEF Spec

\* The databases, their streams and the fork's settings are always well formed.
THEOREM ForkIsTyped == Spec => []ForkTypeOK
<1>1. PullInv => ForkTypeOK
  BY DEF PullInv
<1> QED  BY <1>1, PullInvariant, PTL

\* Nothing that a source published behind the fork's cursor is missing in the
\* fork (readChanges, applyChanges and the settings pullFork writes), except after
\* a crash between the two settings of a forced switch (`misled`).
THEOREM NothingIsMissed == Spec => []CursorIsTrue
<1>1. PullInv => CursorIsTrue
  BY DEF PullInv, ForkTypeOK, CursorOK, Led, CursorIsTrue
<1> QED  BY <1>1, PullInvariant, PTL

\* The source never sends a pull that goes on a cursor that is no further, so
\* pullFork's check of it never refuses a page.
THEOREM PullsAdvance == Spec => []NeverStuck
<1>1. PullInv => NeverStuck
  BY DEF PullInv
<1> QED  BY <1>1, PullInvariant, PTL

\* A pull that finishes leaves the source's rows, as its last page found them.
THEOREM FinishedIsWhole == Spec => WholeWhenFinished
<1> DEFINE Whole == (pull.at = "got" /\ pull'.at = "idle" /\ bound' = bound /\ ~misled
                       /\ merged' \subseteq {pull.site}) => copy' = pull.page.from
<1>1. ASSUME PullInv, [Next]_vars PROVE Whole
  <2> SUFFICES ASSUME pull.at = "got", pull'.at = "idle", bound' = bound, ~misled,
                      merged' \subseteq {pull.site}
               PROVE  copy' = pull.page.from
    OBVIOUS
  <2>1. PullApplies
    <3>1. ~PullStops
      <4> SUFFICES ASSUME bound' = [bound EXCEPT !.stops = @ + 1] PROVE FALSE
        BY DEF PullStops
      <4>1. bound \in [stops : Nat, switches : Nat]
        BY <1>1 DEF PullInv, ForkTypeOK
      <4>2. bound'.stops = bound.stops + 1 /\ bound.stops \in Nat
        BY <4>1
      <4> QED  BY <4>2
    <3>2. pull' # pull
      OBVIOUS
    <3> QED  BY <1>1, <3>1, <3>2 DEF Next, PullSteps, Commit, PullStarts, PullNamed, PullAsks, vars, forkVars
  <2>2. ~pull.page.more
    <3> SUFFICES ASSUME pull.page.more PROVE FALSE
      OBVIOUS
    <3>1. pull' = [pull EXCEPT !.at = "asks", !.page = NoPage]
      BY <2>1 DEF PullApplies
    <3> QED  BY <1>1, <3>1 DEF PullInv, ForkTypeOK
  <2>3. /\ known = pull.site /\ copy \in Table /\ pull.page \in APage
        /\ copy' = Merge(copy, pull.page) /\ merged \subseteq merged'
    BY <1>1, <2>1 DEF PullInv, Pulling, ForkTypeOK, APage, PullApplies
  <2>4. NotAhead(copy, pull.page.from) /\ Emptied(pull.page.from)
    BY <1>1, <2>3 DEF PullInv, PageRows
  <2>5. \A k \in Keys : Shown(pull.page.from, k) => k \in pull.page.keys \/ HasSeen(copy, pull.page.from, k)
    BY <1>1, <2>2 DEF PullInv, PageBrings
  <2> QED  BY <2>3, <2>4, <2>5, MergeCompletes
<1>2. PullInv /\ [Next]_vars => [Whole]_vars
  BY <1>1
<1> QED  BY <1>2, PullInvariant, PTL DEF Spec, WholeWhenFinished

-----------------------------------------------------------------------------
(* Pages that come twice, or one before the other.                         *)

\* The page says something of the row.
Touches(P, r) == \E k \in P.keys : k[1] = r

\* A row after a merge, cell by cell.
LEMMA MergedRow ==
  ASSUME NEW t \in Table, NEW P \in APage, NEW r \in Rows, NEW c \in Cols
  PROVE  /\ Merge(t, P).cl[r] = IF Touches(P, r) /\ P.from.cl[r] > t.cl[r] THEN P.from.cl[r] ELSE t.cl[r]
         /\ Merge(t, P).cv[r][c] =
              IF Touches(P, r) /\ P.from.cl[r] > t.cl[r]
              THEN IF <<r, c>> \in P.keys THEN P.from.cv[r][c] ELSE 0
              ELSE IF <<r, c>> \in P.keys /\ P.from.cl[r] >= t.cl[r] /\ P.from.cv[r][c] > t.cv[r][c]
                   THEN P.from.cv[r][c] ELSE t.cv[r][c]
<1>1. Later(t, P, r) <=> Touches(P, r) /\ P.from.cl[r] > t.cl[r]
  BY DEF Later, Touches
<1>2. CASE Later(t, P, r)
  BY <1>1, <1>2, MergeAnew
<1>3. CASE ~Later(t, P, r)
  BY <1>1, <1>3, MergeJoins
<1> QED  BY <1>2, <1>3

LEMMA PageCells ==
  ASSUME NEW P \in APage, NEW r \in Rows, NEW c \in Cols
  PROVE  /\ P.from.cl[r] \in Nat /\ P.from.cv[r][c] \in Nat
         /\ <<r, c>> \in P.keys => Touches(P, r)
<1>1. P.from \in Table
  BY DEF APage
<1> QED  BY <1>1, RowTypes DEF Touches

\* Tables that agree in every cell are the same.
LEMMA SameTable ==
  ASSUME NEW t \in Table, NEW u \in Table,
         \A r \in Rows : t.cl[r] = u.cl[r] /\ \A c \in Cols : t.cv[r][c] = u.cv[r][c]
  PROVE  t = u
<1>1. t.cl \in [Rows -> Nat] /\ u.cl \in [Rows -> Nat]
  BY DEF Table
<1>2. t.cv \in [Rows -> [Cols -> Nat]] /\ u.cv \in [Rows -> [Cols -> Nat]]
  BY DEF Table
<1>3. t.cl = u.cl
  BY <1>1
<1>4. \A r \in Rows : t.cv[r] = u.cv[r]
  BY <1>2
<1>5. t.cv = u.cv
  BY <1>2, <1>4
<1> QED  BY <1>3, <1>5 DEF Table

\* A page that comes twice changes nothing the second time (applyChanges, pulled
\* again from the cursor of a page that is in the fork already, or from the
\* start after a change of source).
THEOREM AgainChangesNothing ==
  ASSUME NEW t \in Table, NEW P \in APage
  PROVE  Merge(Merge(t, P), P) = Merge(t, P)
<1> DEFINE M == Merge(t, P)
<1>1. M \in Table /\ Merge(M, P) \in Table
  BY MergeType
<1>2. ASSUME NEW r \in Rows, NEW c \in Cols
      PROVE  Merge(M, P).cl[r] = M.cl[r] /\ Merge(M, P).cv[r][c] = M.cv[r][c]
  <2>1. /\ M.cl[r] \in Nat /\ M.cv[r][c] \in Nat /\ t.cl[r] \in Nat /\ t.cv[r][c] \in Nat
        /\ P.from.cl[r] \in Nat /\ P.from.cv[r][c] \in Nat
        /\ <<r, c>> \in P.keys => Touches(P, r)
    BY <1>1, RowTypes, PageCells
  <2>2. /\ M.cl[r] = IF Touches(P, r) /\ P.from.cl[r] > t.cl[r] THEN P.from.cl[r] ELSE t.cl[r]
        /\ M.cv[r][c] =
             IF Touches(P, r) /\ P.from.cl[r] > t.cl[r]
             THEN IF <<r, c>> \in P.keys THEN P.from.cv[r][c] ELSE 0
             ELSE IF <<r, c>> \in P.keys /\ P.from.cl[r] >= t.cl[r] /\ P.from.cv[r][c] > t.cv[r][c]
                  THEN P.from.cv[r][c] ELSE t.cv[r][c]
    BY MergedRow
  <2> HIDE DEF M
  <2>3. /\ Merge(M, P).cl[r] = IF Touches(P, r) /\ P.from.cl[r] > M.cl[r] THEN P.from.cl[r] ELSE M.cl[r]
        /\ Merge(M, P).cv[r][c] =
             IF Touches(P, r) /\ P.from.cl[r] > M.cl[r]
             THEN IF <<r, c>> \in P.keys THEN P.from.cv[r][c] ELSE 0
             ELSE IF <<r, c>> \in P.keys /\ P.from.cl[r] >= M.cl[r] /\ P.from.cv[r][c] > M.cv[r][c]
                  THEN P.from.cv[r][c] ELSE M.cv[r][c]
    BY <1>1, MergedRow
  <2> QED  BY <2>1, <2>2, <2>3
<1> HIDE DEF M
<1>3. PICK c \in Cols : TRUE
  BY ForkAssumption
<1>4. \A r \in Rows : Merge(M, P).cl[r] = M.cl[r] /\ \A d \in Cols : Merge(M, P).cv[r][d] = M.cv[r][d]
  BY <1>2, <1>3
<1>5. Merge(M, P) = M
  BY <1>1, <1>4, SameTable
<1> QED  BY <1>5 DEF M

\* Of two pages it does not matter which is applied first: a page of an older
\* picture of the source takes nothing back (a value is told by its count here).
THEOREM OrderOfPagesDoesNotMatter ==
  ASSUME NEW t \in Table, NEW P \in APage, NEW Q \in APage
  PROVE  Merge(Merge(t, P), Q) = Merge(Merge(t, Q), P)
<1> DEFINE M == Merge(t, P)
           N == Merge(t, Q)
<1>1. M \in Table /\ N \in Table /\ Merge(M, Q) \in Table /\ Merge(N, P) \in Table
  BY MergeType
<1>2. ASSUME NEW r \in Rows, NEW c \in Cols
      PROVE  Merge(M, Q).cl[r] = Merge(N, P).cl[r] /\ Merge(M, Q).cv[r][c] = Merge(N, P).cv[r][c]
  <2>1. /\ t.cl[r] \in Nat /\ t.cv[r][c] \in Nat
        /\ P.from.cl[r] \in Nat /\ P.from.cv[r][c] \in Nat /\ (<<r, c>> \in P.keys => Touches(P, r))
        /\ Q.from.cl[r] \in Nat /\ Q.from.cv[r][c] \in Nat /\ (<<r, c>> \in Q.keys => Touches(Q, r))
    BY RowTypes, PageCells
  <2>2. /\ M.cl[r] = IF Touches(P, r) /\ P.from.cl[r] > t.cl[r] THEN P.from.cl[r] ELSE t.cl[r]
        /\ M.cv[r][c] =
             IF Touches(P, r) /\ P.from.cl[r] > t.cl[r]
             THEN IF <<r, c>> \in P.keys THEN P.from.cv[r][c] ELSE 0
             ELSE IF <<r, c>> \in P.keys /\ P.from.cl[r] >= t.cl[r] /\ P.from.cv[r][c] > t.cv[r][c]
                  THEN P.from.cv[r][c] ELSE t.cv[r][c]
        /\ N.cl[r] = IF Touches(Q, r) /\ Q.from.cl[r] > t.cl[r] THEN Q.from.cl[r] ELSE t.cl[r]
        /\ N.cv[r][c] =
             IF Touches(Q, r) /\ Q.from.cl[r] > t.cl[r]
             THEN IF <<r, c>> \in Q.keys THEN Q.from.cv[r][c] ELSE 0
             ELSE IF <<r, c>> \in Q.keys /\ Q.from.cl[r] >= t.cl[r] /\ Q.from.cv[r][c] > t.cv[r][c]
                  THEN Q.from.cv[r][c] ELSE t.cv[r][c]
    BY MergedRow
  <2> HIDE DEF M, N
  <2>3. /\ Merge(M, Q).cl[r] = IF Touches(Q, r) /\ Q.from.cl[r] > M.cl[r] THEN Q.from.cl[r] ELSE M.cl[r]
        /\ Merge(M, Q).cv[r][c] =
             IF Touches(Q, r) /\ Q.from.cl[r] > M.cl[r]
             THEN IF <<r, c>> \in Q.keys THEN Q.from.cv[r][c] ELSE 0
             ELSE IF <<r, c>> \in Q.keys /\ Q.from.cl[r] >= M.cl[r] /\ Q.from.cv[r][c] > M.cv[r][c]
                  THEN Q.from.cv[r][c] ELSE M.cv[r][c]
    BY <1>1, MergedRow
  <2>4. /\ Merge(N, P).cl[r] = IF Touches(P, r) /\ P.from.cl[r] > N.cl[r] THEN P.from.cl[r] ELSE N.cl[r]
        /\ Merge(N, P).cv[r][c] =
             IF Touches(P, r) /\ P.from.cl[r] > N.cl[r]
             THEN IF <<r, c>> \in P.keys THEN P.from.cv[r][c] ELSE 0
             ELSE IF <<r, c>> \in P.keys /\ P.from.cl[r] >= N.cl[r] /\ P.from.cv[r][c] > N.cv[r][c]
                  THEN P.from.cv[r][c] ELSE N.cv[r][c]
    BY <1>1, MergedRow
  <2>5. Merge(M, Q).cl[r] = Merge(N, P).cl[r]
    BY <2>1, <2>2, <2>3, <2>4
  <2>6. Merge(M, Q).cv[r][c] = Merge(N, P).cv[r][c]
    BY <2>1, <2>2, <2>3, <2>4
  <2> QED  BY <2>5, <2>6
<1>3. PICK c \in Cols : TRUE
  BY ForkAssumption
<1> HIDE DEF M, N
<1>4. \A r \in Rows : /\ Merge(M, Q).cl[r] = Merge(N, P).cl[r]
                      /\ \A d \in Cols : Merge(M, Q).cv[r][d] = Merge(N, P).cv[r][d]
  BY <1>2, <1>3
<1>5. Merge(M, Q) = Merge(N, P)
  BY <1>1, <1>4, SameTable
<1> QED  BY <1>5 DEF M, N
=============================================================================
