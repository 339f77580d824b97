------------------------- MODULE OrgHierarchyProofs -------------------------
(***************************************************************************)
(* Theorems about OrgHierarchy, for any number of units and days.          *)
(*   - Operations whose own checks have passed are not refused at commit,  *)
(*     as long as nobody rescinds a unit or moves it below itself.         *)
(*   - Every parent is in the tree; units are rescinded in date order.     *)
(*   - In date order the past is never changed, and, as long as units are  *)
(*     created, updated, moved and rescinded only, hints agree with edges. *)
(*   - In date order, and as long as no unit is moved below itself and no  *)
(*     move undone whose earlier parent has moved, paths follow the tree,  *)
(*     which has no cycle.                                                 *)
(*   - The rows are typed whatever callers do.                             *)
(***************************************************************************)
EXTENDS OrgHierarchy, SequenceTheorems, WellFoundedInduction, TLAPS

\* What the rows of both tables have in common.
Dated(rows) == \A r \in rows : r.from \in Days /\ r.to \in Days

IsEdge(e) ==
    /\ e = [node |-> e.node, parent |-> e.parent, from |-> e.from, to |-> e.to, path |-> e.path]
    /\ e.from \in Days /\ e.to \in Days

EdgeRow(e) ==
    IsEdge(e) /\ e.node \in nodes /\ e.parent \in Parents /\ e.parent # e.node

SliceRow(s) ==
    /\ s = [node |-> s.node, hint |-> s.hint, from |-> s.from, to |-> s.to]
    /\ s.node \in nodes
    /\ s.from \in Days /\ s.to \in Days

\* A parent is in the tree on the first day of the edge; without gaps, on every later day.
Attached(es) == \A e \in es : e.parent = None \/ ExistsAt(es, e.parent, e.from)

EdgesOK(es)  == (\A e \in es : EdgeRow(e)) /\ Valid(es) /\ Attached(es)
SlicesOK(ss) == (\A s \in ss : SliceRow(s)) /\ Valid(ss)

OrderInv == nodes \subseteq Nodes /\ EdgesOK(edges) /\ SlicesOK(slices) /\ refusal = None

-----------------------------------------------------------------------------
(* Timelines *)

\* Some day's row, if there is one.
LEMMA RowAtIs ==
    ASSUME NEW rows, NEW n, NEW d, ExistsAt(rows, n, d)
    PROVE  RowAt(rows, n, d) \in rows /\ RowAt(rows, n, d).node = n /\ Covers(RowAt(rows, n, d), d)
BY DEF ExistsAt, RowAt

\* Changing one column leaves the others alone.  A truncated edge differs in its last day.
LEMMA EdgeExcept ==
    ASSUME NEW e, IsEdge(e), NEW d
    PROVE  [e EXCEPT !.to = d] = [node |-> e.node, parent |-> e.parent, from |-> e.from, to |-> d, path |-> e.path]
<1> DEFINE Rec(n, p, f, t, x) == [node |-> n, parent |-> p, from |-> f, to |-> t, path |-> x]
<1>1. e = Rec(e.node, e.parent, e.from, e.to, e.path)
  BY DEF IsEdge
<1>2. \A n, p, f, t, x : [Rec(n, p, f, t, x) EXCEPT !.to = d] = Rec(n, p, f, d, x)
  OBVIOUS
<1> HIDE DEF Rec
<1>3. [e EXCEPT !.to = d] = Rec(e.node, e.parent, e.from, d, e.path)
  BY <1>1, <1>2
<1> QED BY <1>3 DEF Rec

\* A rewritten edge differs in its path.
LEMMA EdgePathExcept ==
    ASSUME NEW e, IsEdge(e), NEW q
    PROVE  [e EXCEPT !.path = q] = [node |-> e.node, parent |-> e.parent, from |-> e.from, to |-> e.to, path |-> q]
<1> DEFINE Rec(n, p, f, t, x) == [node |-> n, parent |-> p, from |-> f, to |-> t, path |-> x]
<1>1. e = Rec(e.node, e.parent, e.from, e.to, e.path)
  BY DEF IsEdge
<1>2. \A n, p, f, t, x : [Rec(n, p, f, t, x) EXCEPT !.path = q] = Rec(n, p, f, t, q)
  OBVIOUS
<1> HIDE DEF Rec
<1>3. [e EXCEPT !.path = q] = Rec(e.node, e.parent, e.from, e.to, q)
  BY <1>1, <1>2
<1> QED BY <1>3 DEF Rec

\* A re-inserted edge differs in its first day and its path.
LEMMA EdgeRestExcept ==
    ASSUME NEW e, IsEdge(e), NEW d, NEW q
    PROVE  [e EXCEPT !.from = d, !.path = q] = [node |-> e.node, parent |-> e.parent, from |-> d, to |-> e.to, path |-> q]
<1> DEFINE Rec(n, p, f, t, x) == [node |-> n, parent |-> p, from |-> f, to |-> t, path |-> x]
           m == [e EXCEPT !.from = d]
<1>1. e = Rec(e.node, e.parent, e.from, e.to, e.path)
  BY DEF IsEdge
<1>2. /\ \A n, p, f, t, x : [Rec(n, p, f, t, x) EXCEPT !.from = d] = Rec(n, p, d, t, x)
      /\ \A n, p, f, t, x : [Rec(n, p, f, t, x) EXCEPT !.path = q] = Rec(n, p, f, t, q)
  OBVIOUS
<1>3. [e EXCEPT !.from = d, !.path = q] = [m EXCEPT !.path = q]
  OBVIOUS
<1> HIDE DEF Rec
<1>4. m = Rec(e.node, e.parent, d, e.to, e.path)
  BY <1>1, <1>2
<1> HIDE DEF m
<1>5. [m EXCEPT !.path = q] = Rec(e.node, e.parent, d, e.to, q)
  BY <1>4, <1>2
<1> QED BY <1>3, <1>5 DEF Rec

\* A truncated slice differs in its last day.
LEMMA SliceExcept ==
    ASSUME NEW s, SliceRow(s), NEW d
    PROVE  [s EXCEPT !.to = d] = [node |-> s.node, hint |-> s.hint, from |-> s.from, to |-> d]
<1> DEFINE Rec(n, x, f, t) == [node |-> n, hint |-> x, from |-> f, to |-> t]
<1>1. s = Rec(s.node, s.hint, s.from, s.to)
  BY DEF SliceRow
<1>2. \A n, x, f, t : [Rec(n, x, f, t) EXCEPT !.to = d] = Rec(n, x, f, d)
  OBVIOUS
<1> HIDE DEF Rec
<1>3. [s EXCEPT !.to = d] = Rec(s.node, s.hint, s.from, d)
  BY <1>1, <1>2
<1> QED BY <1>3 DEF Rec

\* A shifted slice differs in its first day.
LEMMA SliceFromExcept ==
    ASSUME NEW s, SliceRow(s), NEW d
    PROVE  [s EXCEPT !.from = d] = [node |-> s.node, hint |-> s.hint, from |-> d, to |-> s.to]
<1> DEFINE Rec(n, x, f, t) == [node |-> n, hint |-> x, from |-> f, to |-> t]
<1>1. s = Rec(s.node, s.hint, s.from, s.to)
  BY DEF SliceRow
<1>2. \A n, x, f, t : [Rec(n, x, f, t) EXCEPT !.from = d] = Rec(n, x, d, t)
  OBVIOUS
<1> HIDE DEF Rec
<1>3. [s EXCEPT !.from = d] = Rec(s.node, s.hint, d, s.to)
  BY <1>1, <1>2
<1> QED BY <1>3 DEF Rec

\* A continued slice differs in its first day and its hint.
LEMMA SliceRestExcept ==
    ASSUME NEW s, SliceRow(s), NEW d, NEW h
    PROVE  [s EXCEPT !.from = d, !.hint = h] = [node |-> s.node, hint |-> h, from |-> d, to |-> s.to]
<1> DEFINE Rec(n, x, f, t) == [node |-> n, hint |-> x, from |-> f, to |-> t]
           m == [s EXCEPT !.from = d]
<1>1. \A n, x, f, t : [Rec(n, x, f, t) EXCEPT !.hint = h] = Rec(n, h, f, t)
  OBVIOUS
<1>2. [s EXCEPT !.from = d, !.hint = h] = [m EXCEPT !.hint = h]
  OBVIOUS
<1>3. m = Rec(s.node, s.hint, d, s.to)
  BY SliceFromExcept
<1> HIDE DEF Rec, m
<1>4. [m EXCEPT !.hint = h] = Rec(s.node, h, d, s.to)
  BY <1>1, <1>3
<1> QED BY <1>2, <1>4 DEF Rec

\* The rows of before, those in these cut in two on day d: the days
\* before d, if there are any, and the days from d on.
First(t, d, r) == r.node = t.node /\ r.from = t.from /\ r.to = d - 1 /\ t.from < d
Rest(t, d, r) == r.node = t.node /\ r.from = d /\ r.to = t.to

Splits(before, these, d, after) ==
    /\ \A r \in before \ these : r \in after
    /\ \A t \in these : t.from < d => \E r \in after : First(t, d, r)
    /\ \A t \in these : \E r \in after : Rest(t, d, r)
    /\ \A r \in after : r \in before \ these \/ \E t \in these : First(t, d, r) \/ Rest(t, d, r)
    /\ \A t \in these, r, s \in after : First(t, d, r) /\ First(t, d, s) => r = s
    /\ \A t \in these, r, s \in after : Rest(t, d, r) /\ Rest(t, d, s) => r = s

\* Splitting rows on a day they cover keeps a timeline a timeline, with the same days.
LEMMA SplitsValid ==
    ASSUME NEW before, NEW these \in SUBSET before, NEW d \in Days, NEW after,
           Dated(before), Valid(before), \A t \in these : Covers(t, d),
           Splits(before, these, d, after)
    PROVE  /\ Dated(after) /\ Valid(after)
           /\ \A n : \A x \in Days : ExistsAt(before, n, x) => ExistsAt(after, n, x)
<1> USE HierarchyAssumption
<1>1. Dated(after) /\ \A r \in after : r.from <= r.to
  BY DEF Dated, Valid, Days, Covers, Splits, First, Rest
<1>2. \A s, t \in these : s.node = t.node => s = t
  BY DEF Dated, Valid, NoOverlap, Days, Covers
<1>3. NoOverlap(after)
  <2> SUFFICES ASSUME NEW r \in after, NEW s \in after, r.node = s.node, r # s
               PROVE  r.to < s.from \/ s.to < r.from
    BY DEF NoOverlap
  <2>1. CASE r \in before \ these /\ s \in before \ these
    BY <2>1 DEF Valid, NoOverlap
  <2>2. ASSUME NEW t \in these, NEW u \in before \ these, NEW v \in after, u.node = v.node,
               First(t, d, v) \/ Rest(t, d, v)
        PROVE  u.to < v.from \/ v.to < u.from
    <3>1. u.to < t.from \/ t.to < u.from
      BY <2>2 DEF First, Rest, Valid, NoOverlap
    <3> QED BY <2>2, <3>1 DEF First, Rest, Covers, Dated, Days
  <2>3. ASSUME NEW t \in these, NEW u \in these,
               First(t, d, r) \/ Rest(t, d, r), First(u, d, s) \/ Rest(u, d, s)
        PROVE  r.to < s.from \/ s.to < r.from
    <3>1. t = u
      BY <2>3, <1>2 DEF First, Rest
    <3>2. (First(t, d, r) /\ Rest(t, d, s)) \/ (First(t, d, s) /\ Rest(t, d, r))
      BY <2>3, <3>1 DEF Splits
    <3> QED BY <3>2, <1>1 DEF First, Rest, Dated, Days
  <2> QED BY <2>1, <2>2, <2>3 DEF Splits
<1>4. ASSUME NEW n, NEW x \in Days, ExistsAt(before, n, x) PROVE ExistsAt(after, n, x)
  <2>1. PICK q \in before : q.node = n /\ Covers(q, x)
    BY <1>4 DEF ExistsAt
  <2>2. CASE q \notin these
    BY <2>1, <2>2 DEF Splits, ExistsAt
  <2>3. CASE q \in these /\ x < d
    <3>1. q.from < d
      BY <2>1, <2>3 DEF Covers, Dated, Days
    <3>2. PICK r \in after : First(q, d, r)
      BY <2>3, <3>1 DEF Splits
    <3>3. r.node = n /\ Covers(r, x)
      BY <2>1, <2>3, <3>2 DEF First, Covers, Days
    <3> QED BY <3>3 DEF ExistsAt
  <2>4. CASE q \in these /\ ~(x < d)
    <3>1. PICK r \in after : Rest(q, d, r)
      BY <2>4 DEF Splits
    <3>2. r.node = n /\ Covers(r, x)
      BY <2>1, <2>4, <3>1 DEF Rest, Covers, Days
    <3> QED BY <3>2 DEF ExistsAt
  <2> QED BY <2>2, <2>3, <2>4
<1>5. GapFree(after)
  <2> SUFFICES ASSUME NEW r \in after, NEW x \in Days, r.from <= x PROVE ExistsAt(after, r.node, x)
    BY DEF GapFree
  <2>1. PICK q \in before : q.node = r.node /\ q.from <= x
    BY DEF Splits, First, Rest, Covers, Dated, Days
  <2> QED BY <2>1, <1>4 DEF Valid, GapFree
<1> QED BY <1>1, <1>3, <1>4, <1>5 DEF Valid

\* The case of a single row.
LEMMA OneSplitValid ==
    ASSUME NEW before, Dated(before), Valid(before), NEW s \in before, NEW d \in Days, Covers(s, d),
           NEW first, first.node = s.node, first.from = s.from, first.to = d - 1,
           NEW rest, Rest(s, d, rest),
           NEW after, after = (before \ {s}) \cup {x \in {first} : s.from < d} \cup {rest}
    PROVE  /\ Dated(after) /\ Valid(after)
           /\ \A n : \A x \in Days : ExistsAt(before, n, x) => ExistsAt(after, n, x)
<1> USE HierarchyAssumption
<1>1. \A r \in before : r.node = s.node /\ Covers(r, d) => r = s
  BY DEF Dated, Valid, NoOverlap, Days, Covers
<1>2. ASSUME NEW r \in after, First(s, d, r) PROVE r = first
  <2>1. r # rest
    BY <1>2 DEF First, Rest, Dated, Days
  <2>2. r \notin before \ {s}
    BY <1>2 DEF First, Valid, NoOverlap, Dated, Days, Covers
  <2> QED BY <2>1, <2>2
<1>3. ASSUME NEW r \in after, Rest(s, d, r) PROVE r = rest
  <2>1. ~(s.from < d) \/ r # first
    BY <1>3 DEF Rest, Dated, Days
  <2>2. r \notin before \ {s}
    BY <1>1, <1>3 DEF Rest, Dated, Days, Covers
  <2> QED BY <2>1, <2>2
<1>4. Splits(before, {s}, d, after)
  BY <1>2, <1>3 DEF Splits, First
<1>5. {s} \in SUBSET before /\ \A t \in {s} : Covers(t, d)
  OBVIOUS
<1> DEFINE these == {s}
<1>6. these \in SUBSET before /\ (\A t \in these : Covers(t, d)) /\ Splits(before, these, d, after)
  BY <1>4, <1>5
<1> HIDE DEF these
<1> QED BY <1>6, SplitsValid

\* So does joining two rows that meet.
LEMMA JoinValid ==
    ASSUME NEW before, Dated(before), Valid(before),
           NEW prev \in before, NEW target \in before,
           prev.node = target.node, prev.to = target.from - 1,
           NEW joined, joined.node = prev.node, joined.from = prev.from, joined.to = target.to,
           NEW after, after = (before \ {target, prev}) \cup {joined}
    PROVE  /\ Dated(after) /\ Valid(after)
           /\ \A n : \A x \in Days : ExistsAt(before, n, x) => ExistsAt(after, n, x)
<1> USE HierarchyAssumption
<1>1. Dated(after) /\ \A r \in after : r.from <= r.to
  BY DEF Dated, Valid, Days
<1>2. NoOverlap(after)
  <2>1. ASSUME NEW r \in before, r # prev, r # target, r.node = joined.node
        PROVE  r.to < joined.from \/ joined.to < r.from
    <3>1. (r.to < prev.from \/ prev.to < r.from) /\ (r.to < target.from \/ target.to < r.from)
      BY <2>1 DEF Valid, NoOverlap
    <3> QED BY <2>1, <3>1, <1>1 DEF Dated, Days, Valid
  <2> QED BY <2>1 DEF NoOverlap, Valid
<1>3. ASSUME NEW n, NEW x \in Days, ExistsAt(before, n, x) PROVE ExistsAt(after, n, x)
  <2>1. PICK q \in before : q.node = n /\ Covers(q, x)
    BY <1>3 DEF ExistsAt
  <2>2. CASE q \in {target, prev}
    <3>1. joined \in after /\ joined.node = n /\ Covers(joined, x)
      BY <2>1, <2>2 DEF Covers, Dated, Days, Valid
    <3> QED BY <3>1 DEF ExistsAt
  <2>3. CASE q \notin {target, prev}
    BY <2>1, <2>3 DEF ExistsAt
  <2> QED BY <2>2, <2>3
<1>4. GapFree(after)
  <2> SUFFICES ASSUME NEW r \in after, NEW x \in Days, r.from <= x PROVE ExistsAt(after, r.node, x)
    BY DEF GapFree
  <2>1. PICK q \in before : q.node = r.node /\ q.from <= x
    BY DEF Dated, Days
  <2> QED BY <2>1, <1>3 DEF Valid, GapFree
<1> QED BY <1>1, <1>2, <1>3, <1>4 DEF Valid

\* Without a row that ends where it begins, a row is the first of its node, and
\* may be deleted.
LEMMA DropFirstValid ==
    ASSUME NEW before, Dated(before), Valid(before),
           NEW target \in before, \A r \in before : ~(r.node = target.node /\ r.to = target.from - 1),
           NEW after, after = before \ {target}
    PROVE  Dated(after) /\ Valid(after)
<1> USE HierarchyAssumption
<1>1. ASSUME NEW r \in before, r.node = target.node, r # target PROVE target.to < r.from
  <2> SUFFICES ASSUME r.to < target.from PROVE FALSE
    BY <1>1 DEF Valid, NoOverlap
  <2>1. target.from - 1 \in Days /\ r.from <= target.from - 1
    BY DEF Dated, Days, Valid
  <2>2. PICK q \in before : q.node = target.node /\ Covers(q, target.from - 1)
    BY <1>1, <2>1 DEF Valid, GapFree, ExistsAt
  <2>3. q # target /\ (q.to < target.from \/ target.to < q.from)
    BY <2>2 DEF Covers, Valid, NoOverlap, Dated, Days
  <2>4. q.to = target.from - 1
    BY <2>2, <2>3 DEF Covers, Dated, Days, Valid
  <2> QED BY <2>2, <2>4
<1>2. GapFree(after)
  <2> SUFFICES ASSUME NEW r \in after, NEW x \in Days, r.from <= x PROVE ExistsAt(after, r.node, x)
    BY DEF GapFree
  <2>1. PICK q \in before : q.node = r.node /\ Covers(q, x)
    BY DEF Valid, GapFree, ExistsAt
  <2>2. q # target
    BY <1>1, <2>1 DEF Covers, Dated, Days
  <2> QED BY <2>1, <2>2 DEF ExistsAt
<1> QED BY <1>2 DEF Dated, Valid, NoOverlap

\* So does changing columns other than the node and the days.
SamePlace(x, r) == x.node = r.node /\ x.parent = r.parent /\ x.from = r.from /\ x.to = r.to

LEMMA RelabelValid ==
    ASSUME NEW before, Dated(before), Valid(before), NEW after,
           \A r \in before : \E x \in after : SamePlace(x, r),
           \A x \in after : \E r \in before : SamePlace(x, r),
           \A r \in before, x, y \in after : SamePlace(x, r) /\ SamePlace(y, r) => x = y
    PROVE  /\ Dated(after) /\ Valid(after)
           /\ \A n : \A x \in Days : ExistsAt(before, n, x) => ExistsAt(after, n, x)
<1>1. Dated(after) /\ \A r \in after : r.from <= r.to
  BY DEF Dated, Valid, SamePlace
<1>2. NoOverlap(after)
  <2> SUFFICES ASSUME NEW x \in after, NEW y \in after, x.node = y.node, x # y
               PROVE  x.to < y.from \/ y.to < x.from
    BY DEF NoOverlap
  <2>1. PICK r \in before : SamePlace(x, r)
    OBVIOUS
  <2>2. PICK s \in before : SamePlace(y, s)
    OBVIOUS
  <2>3. r # s
    BY <2>1, <2>2
  <2>4. r.node = s.node
    BY <2>1, <2>2 DEF SamePlace
  <2>5. r.to < s.from \/ s.to < r.from
    BY <2>3, <2>4 DEF Valid, NoOverlap
  <2> QED BY <2>1, <2>2, <2>5 DEF SamePlace
<1>3. ASSUME NEW n, NEW x \in Days, ExistsAt(before, n, x) PROVE ExistsAt(after, n, x)
  BY <1>3 DEF ExistsAt, SamePlace, Covers
<1>4. GapFree(after)
  BY <1>3 DEF GapFree, Valid, SamePlace
<1> QED BY <1>1, <1>2, <1>3, <1>4 DEF Valid

\* A parent that was in the tree before an edge begins is there when it begins.
LEMMA AttachedKept ==
    ASSUME NEW before, Dated(before), Valid(before), NEW after, Dated(after),
           \A n : \A x \in Days : ExistsAt(before, n, x) => ExistsAt(after, n, x),
           \A e \in after : e.parent = None \/ \E x \in Days : x <= e.from /\ ExistsAt(before, e.parent, x)
    PROVE  Attached(after)
<1> SUFFICES ASSUME NEW e \in after, e.parent # None PROVE ExistsAt(after, e.parent, e.from)
  BY DEF Attached
<1>1. PICK x \in Days : x <= e.from /\ ExistsAt(before, e.parent, x)
  OBVIOUS
<1>2. PICK q \in before : q.node = e.parent /\ q.from <= e.from
  BY <1>1, HierarchyAssumption DEF ExistsAt, Covers, Dated, Days
<1>3. ExistsAt(before, e.parent, e.from)
  BY <1>2 DEF Valid, GapFree, Dated
<1> QED BY <1>3 DEF Dated

-----------------------------------------------------------------------------
(* Slices *)

\* What the lemmas on timelines need of the slices.
LEMMA SlicesDated == ASSUME NEW ss, SlicesOK(ss) PROVE Dated(ss) /\ Valid(ss)
BY DEF SlicesOK, SliceRow, Dated

\* UpdateNode and the moves: a slice cut and continued.
LEMMA SplitOK ==
    ASSUME SlicesOK(slices), NEW s \in slices, NEW d \in Days, NEW h, Covers(s, d)
    PROVE  SlicesOK(Split(s, h, d))
<1> DEFINE after == Split(s, h, d)
           first == [node |-> s.node, hint |-> s.hint, from |-> s.from, to |-> d - 1]
           rest  == [node |-> s.node, hint |-> h, from |-> d, to |-> s.to]
<1>1. SliceRow(s)
  BY DEF SlicesOK
<1>2. [s EXCEPT !.to = d - 1] = first /\ [s EXCEPT !.from = d, !.hint = h] = rest
  <2>1. [s EXCEPT !.to = d - 1] = first
    BY <1>1, SliceExcept
  <2>2. [s EXCEPT !.from = d, !.hint = h] = rest
    BY <1>1, SliceRestExcept
  <2> QED BY <2>1, <2>2
<1>3. after = (slices \ {s}) \cup {x \in {first} : s.from < d} \cup {rest}
  <2>1. after = (slices \ {s}) \cup {[r EXCEPT !.to = d - 1] : r \in {x \in {s} : x.from < d}} \cup {rest}
    BY <1>2 DEF Split, Cut
  <2>2. {[r EXCEPT !.to = d - 1] : r \in {x \in {s} : x.from < d}} = {x \in {first} : s.from < d}
    BY <1>2
  <2> QED BY <2>1, <2>2
<1> HIDE DEF after
<1>5. Valid(after)
  <2>1. Dated(slices) /\ Valid(slices) /\ Rest(s, d, rest)
    BY SlicesDated DEF Rest
  <2>2. first.node = s.node /\ first.from = s.from /\ first.to = d - 1
    OBVIOUS
  <2> HIDE DEF first, rest
  <2> QED BY <1>3, <2>1, <2>2, OneSplitValid
<1>6. \A r \in after : SliceRow(r)
  BY <1>1, <1>3, HierarchyAssumption DEF SlicesOK, SliceRow, Days, Covers
<1> QED BY <1>5, <1>6 DEF SlicesOK, after

\* CreateNode: the first slice of a new node.
LEMMA CreateSliceOK ==
    ASSUME SlicesOK(slices), NEW n, NEW d \in Days, NEW h,
           \A s \in slices : s.node # n, NEW after,
           after = slices \cup {[node |-> n, hint |-> h, from |-> d, to |-> EndOfTime]}
    PROVE  Valid(after)
<1> USE HierarchyAssumption
<1> DEFINE new == [node |-> n, hint |-> h, from |-> d, to |-> EndOfTime]
<1>1. new.node = n /\ new.from = d /\ new.to = EndOfTime
  OBVIOUS
<1> HIDE DEF new
<1>2. NoOverlap(after) /\ \A r \in after : r.from <= r.to
  BY <1>1 DEF SlicesOK, Valid, NoOverlap, Days, new
<1>3. GapFree(after)
  BY <1>1 DEF SlicesOK, Valid, GapFree, ExistsAt, Covers, Days, new
<1> QED BY <1>2, <1>3 DEF Valid

\* ShiftBoundaryNode: two slices joined and split again on another day.
LEMMA ShiftOK ==
    ASSUME SlicesOK(slices), NEW target \in slices, NEW prev \in slices, prev.node = target.node,
           prev.to = target.from - 1, NEW d \in Days, d <= target.to, d > prev.from
    PROVE  SlicesOK((slices \ {target, prev}) \cup {[target EXCEPT !.from = d], [prev EXCEPT !.to = d - 1]})
<1> USE HierarchyAssumption
<1> DEFINE first  == [node |-> prev.node, hint |-> prev.hint, from |-> prev.from, to |-> d - 1]
           rest   == [node |-> target.node, hint |-> target.hint, from |-> d, to |-> target.to]
           joined == [node |-> prev.node, hint |-> prev.hint, from |-> prev.from, to |-> target.to]
           mid    == (slices \ {target, prev}) \cup {joined}
           after  == (slices \ {target, prev}) \cup {rest, first}
<1>1. SliceRow(target) /\ SliceRow(prev) /\ Dated(slices) /\ Valid(slices)
  BY SlicesDated DEF SlicesOK
<1>2. [target EXCEPT !.from = d] = rest
  BY <1>1, SliceFromExcept
<1>3. [prev EXCEPT !.to = d - 1] = first
  BY <1>1, SliceExcept
<1>4. joined.node = prev.node /\ joined.from = prev.from /\ joined.to = target.to
  OBVIOUS
<1>5. first.node = prev.node /\ first.from = prev.from /\ first.to = d - 1
  OBVIOUS
<1>6. rest.node = prev.node /\ rest.from = d /\ rest.to = target.to
  OBVIOUS
<1>7. \A r \in {first, rest} : SliceRow(r)
  BY <1>1 DEF SliceRow, Days
<1> HIDE DEF first, rest, joined
<1>8. Dated(mid) /\ Valid(mid)
  BY <1>1, <1>4, JoinValid
<1>9. joined \notin slices \ {target, prev}
  BY <1>1, <1>4 DEF Dated, Valid, NoOverlap, Days
<1>10. after = (mid \ {joined}) \cup {x \in {first} : joined.from < d} \cup {rest}
  BY <1>4, <1>9
<1>11. Covers(joined, d) /\ Rest(joined, d, rest) /\ first.node = joined.node /\ first.from = joined.from
  BY <1>1, <1>4, <1>5, <1>6 DEF Covers, Rest, Dated, Days
<1> HIDE DEF after
<1>12. Valid(after)
  <2> joined \in mid
    OBVIOUS
  <2> HIDE DEF mid
  <2> QED BY <1>5, <1>8, <1>10, <1>11, OneSplitValid
<1>13. \A r \in after : SliceRow(r)
  BY <1>7 DEF after, SlicesOK
<1> QED BY <1>2, <1>3, <1>12, <1>13 DEF SlicesOK, after

\* DeleteNodeSliceAndStitch: a slice joined to the one before it, or a first slice dropped.
LEMMA DeleteSliceOK ==
    ASSUME SlicesOK(slices), NEW target \in slices,
           NEW prevs, prevs = {s \in slices : s.node = target.node /\ s.to = target.from - 1}
    PROVE  SlicesOK((slices \ (prevs \cup {target})) \cup {[s EXCEPT !.to = target.to] : s \in prevs})
<1> USE HierarchyAssumption
<1>1. Dated(slices) /\ Valid(slices)
  BY SlicesDated
<1>2. CASE prevs = {}
  <2>1. (slices \ (prevs \cup {target})) \cup {[s EXCEPT !.to = target.to] : s \in prevs} = slices \ {target}
    BY <1>2
  <2>2. Valid(slices \ {target})
    BY <1>1, <1>2, DropFirstValid
  <2> QED BY <2>1, <2>2 DEF SlicesOK
<1>3. ASSUME NEW prev \in prevs
      PROVE  SlicesOK((slices \ (prevs \cup {target})) \cup {[s EXCEPT !.to = target.to] : s \in prevs})
  <2> DEFINE joined == [node |-> prev.node, hint |-> prev.hint, from |-> prev.from, to |-> target.to]
             after  == (slices \ {target, prev}) \cup {joined}
  <2>1. SliceRow(target) /\ SliceRow(prev)
    BY DEF SlicesOK
  <2>2. prevs = {prev}
    BY <1>1 DEF Dated, Valid, NoOverlap, Days
  <2>3. [prev EXCEPT !.to = target.to] = joined
    BY <2>1, SliceExcept
  <2>4. (slices \ (prevs \cup {target})) \cup {[s EXCEPT !.to = target.to] : s \in prevs} = after
    <3>1. {[s EXCEPT !.to = target.to] : s \in {prev}} = {joined}
      BY <2>3
    <3> HIDE DEF joined
    <3> QED BY <2>2, <3>1
  <2>5. joined.node = prev.node /\ joined.from = prev.from /\ joined.to = target.to
    OBVIOUS
  <2>6. SliceRow(joined)
    BY <2>1 DEF SliceRow
  <2> HIDE DEF joined
  <2>7. Valid(after)
    BY <1>1, <2>5, JoinValid
  <2>8. \A r \in after : SliceRow(r)
    BY <2>6 DEF SlicesOK
  <2> QED BY <2>4, <2>7, <2>8 DEF SlicesOK
<1> QED BY <1>2, <1>3

-----------------------------------------------------------------------------
(* Edges *)

\* What the lemmas on timelines need of the edges.
LEMMA EdgesDated == ASSUME NEW es, EdgesOK(es) PROVE Dated(es) /\ Valid(es) /\ Attached(es)
BY DEF EdgesOK, EdgeRow, IsEdge, Dated

\* A row that is cut away no longer counts for its own node, and for no other.
LEMMA CutGone ==
    ASSUME NEW es, EdgesOK(es), NEW e \in es, NEW d \in Days, Covers(e, d)
    PROVE  /\ ~ExistsAt(Cut(es, {e}, d), e.node, d)
           /\ \A m : m # e.node /\ ExistsAt(es, m, d) => ExistsAt(Cut(es, {e}, d), m, d)
<1> DEFINE first == [node |-> e.node, parent |-> e.parent, from |-> e.from, to |-> d - 1, path |-> e.path]
           cut   == (es \ {e}) \cup {x \in {first} : e.from < d}
<1>1. EdgeRow(e) /\ Dated(es) /\ Valid(es)
  BY EdgesDated DEF EdgesOK
<1>2. Cut(es, {e}, d) = cut
  <2>1. [e EXCEPT !.to = d - 1] = first
    BY <1>1, EdgeExcept DEF EdgeRow
  <2>2. {[r EXCEPT !.to = d - 1] : r \in {x \in {e} : x.from < d}} = {x \in {first} : e.from < d}
    BY <2>1
  <2> QED BY <2>2 DEF Cut
<1>3. ~ExistsAt(cut, e.node, d)
  <2>1. ~Covers(first, d)
    BY HierarchyAssumption DEF Covers, Days
  <2>2. \A r \in es : r.node = e.node /\ Covers(r, d) => r = e
    BY <1>1, HierarchyAssumption DEF Valid, NoOverlap, Covers, Dated, Days
  <2> HIDE DEF first
  <2> QED BY <2>1, <2>2 DEF ExistsAt
<1>4. ASSUME NEW m, m # e.node, ExistsAt(es, m, d) PROVE ExistsAt(cut, m, d)
  BY <1>4 DEF ExistsAt
<1> QED BY <1>2, <1>3, <1>4

\* The moved node's edge cut and continued below a parent that is in the tree.
LEMMA GraftOK ==
    ASSUME NEW es, EdgesOK(es), NEW moved \in es, NEW d \in Days, Covers(moved, d),
           NEW new, EdgeRow(new), Rest(moved, d, new), ExistsAt(es, new.parent, d)
    PROVE  /\ EdgesOK(Cut(es, {moved}, d) \cup {new})
           /\ \A m : \A x \in Days : ExistsAt(es, m, x) => ExistsAt(Cut(es, {moved}, d) \cup {new}, m, x)
<1> DEFINE first == [node |-> moved.node, parent |-> moved.parent, from |-> moved.from, to |-> d - 1, path |-> moved.path]
           after == Cut(es, {moved}, d) \cup {new}
<1>1. EdgeRow(moved) /\ Dated(es) /\ Valid(es) /\ Attached(es)
  BY EdgesDated DEF EdgesOK
<1>2. after = (es \ {moved}) \cup {x \in {first} : moved.from < d} \cup {new}
  <2>1. [moved EXCEPT !.to = d - 1] = first
    BY <1>1, EdgeExcept DEF EdgeRow
  <2>2. {[r EXCEPT !.to = d - 1] : r \in {x \in {moved} : x.from < d}} = {x \in {first} : moved.from < d}
    BY <2>1
  <2> QED BY <2>2 DEF Cut
<1>3. first.node = moved.node /\ first.from = moved.from /\ first.to = d - 1 /\ first.parent = moved.parent
  OBVIOUS
<1>4. \A r \in after : EdgeRow(r)
  <2>1. moved.from < d => EdgeRow(first)
    BY <1>1, HierarchyAssumption DEF EdgeRow, IsEdge, Days
  <2> HIDE DEF first
  <2> QED BY <1>2, <2>1 DEF EdgesOK
<1> HIDE DEF first, after
<1>5. /\ Dated(after) /\ Valid(after)
      /\ \A m : \A x \in Days : ExistsAt(es, m, x) => ExistsAt(after, m, x)
  BY <1>1, <1>2, <1>3, OneSplitValid
<1>6. Attached(after)
  <2>1. ASSUME NEW e \in after, e.parent # None
        PROVE  \E x \in Days : x <= e.from /\ ExistsAt(es, e.parent, x)
    <3>1. CASE e \in es
      BY <1>1, <2>1, <3>1, HierarchyAssumption DEF Attached, Dated, Days
    <3>2. CASE e = first
      BY <1>1, <1>3, <2>1, <3>2, HierarchyAssumption DEF Attached, Dated, Days
    <3>3. CASE e = new
      BY <3>3, HierarchyAssumption DEF Rest, Days
    <3> QED BY <1>2, <3>1, <3>2, <3>3
  <2> QED BY <1>1, <1>5, <2>1, AttachedKept
<1> QED BY <1>4, <1>5, <1>6 DEF EdgesOK, after

\* What the re-inserted edges of a subtree are, whatever their new paths.
LEMMA ReslicedIs ==
    ASSUME NEW es, NEW tree, NEW d
    PROVE  \E path : Resliced(es, tree, d)
               = Cut(es, tree, d) \cup {[e EXCEPT !.from = d, !.path = path[e.node]] : e \in tree}
BY DEF Resliced

\* The edges of the subtree cut and continued with their parents.
LEMMA ReslicedOK ==
    ASSUME NEW es, EdgesOK(es), NEW tree \in SUBSET es, NEW d \in Days, \A e \in tree : Covers(e, d)
    PROVE  /\ EdgesOK(Resliced(es, tree, d))
           /\ \A m : \A x \in Days : ExistsAt(es, m, x) => ExistsAt(Resliced(es, tree, d), m, x)
<1> USE HierarchyAssumption
<1> DEFINE after == Resliced(es, tree, d)
<1>1. Dated(es) /\ Valid(es) /\ Attached(es) /\ \A e \in es : EdgeRow(e)
  BY EdgesDated DEF EdgesOK
<1>2. PICK path : after = Cut(es, tree, d) \cup {[e EXCEPT !.from = d, !.path = path[e.node]] : e \in tree}
  BY ReslicedIs
<1> HIDE DEF after
<1> DEFINE first(e) == [node |-> e.node, parent |-> e.parent, from |-> e.from, to |-> d - 1, path |-> e.path]
           rest(e)  == [node |-> e.node, parent |-> e.parent, from |-> d, to |-> e.to, path |-> path[e.node]]
<1>3. after = (es \ tree) \cup {first(e) : e \in {x \in tree : x.from < d}} \cup {rest(e) : e \in tree}
  <2> DEFINE cut(e)  == [e EXCEPT !.to = d - 1]
             cont(e) == [e EXCEPT !.from = d, !.path = path[e.node]]
  <2>1. \A e \in tree : cut(e) = first(e)
    BY <1>1, EdgeExcept DEF EdgeRow
  <2>2. \A e \in tree : cont(e) = rest(e)
    BY <1>1, EdgeRestExcept DEF EdgeRow
  <2>3. after = (es \ tree) \cup {cut(e) : e \in {x \in tree : x.from < d}} \cup {cont(e) : e \in tree}
    BY <1>2 DEF Cut
  <2> HIDE DEF cut, cont, first, rest
  <2> QED BY <2>1, <2>2, <2>3
<1>4. \A e \in tree : /\ first(e).node = e.node /\ first(e).from = e.from /\ first(e).to = d - 1
                      /\ rest(e).node = e.node /\ rest(e).from = d /\ rest(e).to = e.to
                      /\ first(e).parent = e.parent /\ rest(e).parent = e.parent
  OBVIOUS
<1>5. /\ \A e \in tree : e.from < d => EdgeRow(first(e))
      /\ \A e \in tree : EdgeRow(rest(e))
  BY <1>1 DEF EdgeRow, IsEdge, Days
<1> HIDE DEF first, rest
<1>6. \A r \in after : EdgeRow(r)
  BY <1>1, <1>3, <1>5
<1>7. \A t, u \in tree : t.node = u.node => t = u
  BY <1>1 DEF Dated, Valid, NoOverlap, Days, Covers
<1>8. ASSUME NEW t \in tree, NEW r \in es \ tree PROVE ~First(t, d, r) /\ ~Rest(t, d, r)
  BY <1>1, <1>8 DEF First, Rest, Dated, Valid, NoOverlap, Days, Covers
<1>9. ASSUME NEW t \in tree, NEW r \in after, First(t, d, r) PROVE r = first(t)
  <2>1. ASSUME NEW e \in tree, r = rest(e) PROVE FALSE
    BY <1>4, <1>9, <2>1, <1>1 DEF First, Dated, Days
  <2>2. ASSUME NEW e \in tree, r = first(e) PROVE r = first(t)
    BY <1>4, <1>7, <1>9, <2>2 DEF First
  <2> QED BY <1>3, <1>8, <1>9, <2>1, <2>2
<1>10. ASSUME NEW t \in tree, NEW r \in after, Rest(t, d, r) PROVE r = rest(t)
  <2>1. ASSUME NEW e \in tree, e.from < d, r = first(e) PROVE FALSE
    BY <1>4, <1>10, <2>1, <1>1 DEF Rest, Dated, Days
  <2>2. ASSUME NEW e \in tree, r = rest(e) PROVE r = rest(t)
    BY <1>4, <1>7, <1>10, <2>2 DEF Rest
  <2> QED BY <1>3, <1>8, <1>10, <2>1, <2>2
<1>11. Splits(es, tree, d, after)
  <2>1. ASSUME NEW t \in tree, t.from < d PROVE first(t) \in after /\ First(t, d, first(t))
    BY <1>3, <1>4, <2>1 DEF First
  <2>2. ASSUME NEW t \in tree PROVE rest(t) \in after /\ Rest(t, d, rest(t))
    BY <1>3, <1>4, <2>2 DEF Rest
  <2>3. \A r \in after : r \in es \ tree \/ \E t \in tree : First(t, d, r) \/ Rest(t, d, r)
    BY <1>3, <2>1, <2>2
  <2> QED BY <1>3, <1>9, <1>10, <2>1, <2>2, <2>3 DEF Splits
<1>12. /\ Dated(after) /\ Valid(after)
       /\ \A m : \A x \in Days : ExistsAt(es, m, x) => ExistsAt(after, m, x)
  BY <1>1, <1>11, SplitsValid
<1>13. Attached(after)
  <2>1. ASSUME NEW r \in after, r.parent # None
        PROVE  \E x \in Days : x <= r.from /\ ExistsAt(es, r.parent, x)
    <3>1. PICK e \in es : r.parent = e.parent /\ e.from <= r.from
      <4>1. CASE r \in es \ tree
        BY <1>1, <4>1 DEF Dated, Days
      <4>2. ASSUME NEW e \in tree, r = first(e) \/ r = rest(e) PROVE r.parent = e.parent /\ e.from <= r.from
        BY <1>1, <1>4, <4>2 DEF Dated, Days, Covers
      <4> QED BY <1>3, <4>1, <4>2
    <3>2. e.from \in Days /\ ExistsAt(es, e.parent, e.from)
      BY <1>1, <2>1, <3>1 DEF Attached, Dated
    <3> QED BY <3>1, <3>2
  <2> QED BY <1>1, <1>12, <2>1, AttachedKept
<1> QED BY <1>6, <1>12, <1>13 DEF EdgesOK, after

\* RewriteDescendantEdgesPathPrefixFrom changes nothing but paths.
LEMMA RewrittenOK ==
    ASSUME NEW es, EdgesOK(es), NEW d, NEW old, NEW new
    PROVE  /\ EdgesOK(Rewritten(es, d, old, new))
           /\ \A m : \A x \in Days : ExistsAt(es, m, x) => ExistsAt(Rewritten(es, d, old, new), m, x)
<1> DEFINE below(e) == e.from >= d /\ InSubtree(e.path, old) /\ Len(e.path) > Len(old)
           path(e)  == new \o SubSeq(e.path, Len(old) + 1, Len(e.path))
           image(e) == IF below(e) THEN [e EXCEPT !.path = path(e)] ELSE e
           after    == Rewritten(es, d, old, new)
<1>1. Dated(es) /\ Valid(es) /\ Attached(es) /\ \A e \in es : EdgeRow(e)
  BY EdgesDated DEF EdgesOK
<1>2. after = {image(e) : e \in es}
  BY DEF Rewritten
<1> HIDE DEF after, below, path
<1>3. ASSUME NEW e \in es PROVE EdgeRow(image(e)) /\ SamePlace(image(e), e)
  <2> DEFINE rec == [node |-> e.node, parent |-> e.parent, from |-> e.from, to |-> e.to, path |-> path(e)]
  <2>1. [e EXCEPT !.path = path(e)] = rec
    BY <1>1, EdgePathExcept DEF EdgeRow
  <2>2. EdgeRow(rec) /\ SamePlace(rec, e)
    BY <1>1 DEF EdgeRow, IsEdge, SamePlace
  <2> HIDE DEF rec
  <2> QED BY <1>1, <2>1, <2>2 DEF SamePlace
<1> HIDE DEF image
<1>4. \A r \in es : \E x \in after : SamePlace(x, r)
  BY <1>2, <1>3
<1>5. \A x \in after : \E r \in es : SamePlace(x, r)
  BY <1>2, <1>3
<1>6. ASSUME NEW r \in es, NEW x \in after, SamePlace(x, r) PROVE x = image(r)
  <2>1. PICK s \in es : x = image(s)
    BY <1>2
  <2>2. s.node = r.node /\ s.from = r.from /\ s.to = r.to
    BY <1>3, <1>6, <2>1 DEF SamePlace
  <2>3. s = r
    BY <1>1, <2>2, HierarchyAssumption DEF Valid, NoOverlap, Dated, Days
  <2> QED BY <2>1, <2>3
<1>7. \A r \in es, x, y \in after : SamePlace(x, r) /\ SamePlace(y, r) => x = y
  BY <1>6
<1>8. /\ Dated(after) /\ Valid(after)
      /\ \A m : \A x \in Days : ExistsAt(es, m, x) => ExistsAt(after, m, x)
  BY <1>1, <1>4, <1>5, <1>7, RelabelValid
<1>9. Attached(after)
  BY <1>1, <1>5, <1>8 DEF Attached, SamePlace, Dated
<1> QED BY <1>2, <1>3, <1>8, <1>9 DEF EdgesOK, after

\* A move that goes outside of the node's own subtree passes the trigger, for the
\* node and for every node below it, and leaves the edges in order.
LEMMA RegraftOK ==
    ASSUME EdgesOK(edges), NEW n \in Nodes, NEW p \in Nodes, NEW d \in Days,
           p # n, ExistsAt(edges, n, d), ExistsAt(edges, p, d)
    PROVE  ~Regraft(n, p, d).raised /\ EdgesOK(Regraft(n, p, d).edges)
<1> DEFINE moved   == RowAt(edges, n, d)
           below   == Subtree(moved.path, d) \ {moved}
           cut     == Cut(edges, {moved}, d)
           new     == NewEdge(cut, p, n, d, moved.to)
           grafted == cut \cup {new}
           raised  == TriggerRaises(cut, p, n, d) \/ \E e \in below : TriggerRaises(Cut(grafted, {e}, d), e.parent, e.node, d)
<1>1. moved \in edges /\ moved.node = n /\ Covers(moved, d) /\ EdgeRow(moved)
  BY RowAtIs DEF EdgesOK
<1>2. below \in SUBSET edges /\ moved \notin below /\ \A e \in below : Covers(e, d)
  BY DEF Subtree
<1>3. Regraft(n, p, d) = [raised |-> raised,
                          edges  |-> IF raised THEN edges
                                     ELSE Rewritten(Resliced(grafted, below, d), d, moved.path, new.path)]
  BY DEF Regraft
<1>4. EdgeRow(new) /\ Rest(moved, d, new) /\ new.parent = p
  <2> DEFINE path == new.path
  <2>1. new = [node |-> n, parent |-> p, from |-> d, to |-> moved.to, path |-> path]
    BY DEF NewEdge
  <2> HIDE DEF new, path
  <2> QED BY <1>1, <2>1 DEF EdgeRow, IsEdge, Rest, Parents
<1> HIDE DEF moved, below, new
<1>5. ~TriggerRaises(cut, p, n, d)
  BY <1>1, CutGone DEF TriggerRaises
<1>6. /\ EdgesOK(grafted)
      /\ \A m : \A x \in Days : ExistsAt(edges, m, x) => ExistsAt(grafted, m, x)
  <2>1. ExistsAt(edges, new.parent, d)
    BY <1>4
  <2> QED BY <1>1, <1>4, <2>1, GraftOK
<1>7. below \in SUBSET grafted
  BY <1>2 DEF Cut
<1> HIDE DEF grafted
<1>8. ASSUME NEW e \in below PROVE ~TriggerRaises(Cut(grafted, {e}, d), e.parent, e.node, d)
  <2>1. e \in edges /\ e \in grafted /\ Covers(e, d) /\ EdgeRow(e)
    BY <1>2, <1>7 DEF EdgesOK
  <2>2. ~ExistsAt(Cut(grafted, {e}, d), e.node, d)
    BY <1>6, <2>1, CutGone
  <2>3. ASSUME e.parent # None PROVE ExistsAt(Cut(grafted, {e}, d), e.parent, d)
    <3>1. PICK q \in edges : q.node = e.parent /\ q.from <= e.from /\ q.from \in Days
      BY <2>1, <2>3 DEF EdgesOK, Attached, ExistsAt, Covers, EdgeRow, IsEdge
    <3>2. q.from <= d
      BY <2>1, <3>1, HierarchyAssumption DEF Covers, EdgeRow, IsEdge, Days
    <3>3. ExistsAt(edges, e.parent, d)
      BY <3>1, <3>2 DEF EdgesOK, Valid, GapFree
    <3>4. ExistsAt(grafted, e.parent, d) /\ e.parent # e.node
      BY <1>6, <2>1, <3>3 DEF EdgeRow
    <3> QED BY <1>6, <2>1, <3>4, CutGone
  <2> QED BY <2>2, <2>3 DEF TriggerRaises
<1>9. ~raised
  BY <1>5, <1>8
<1>10. EdgesOK(Resliced(grafted, below, d))
  BY <1>2, <1>6, <1>7, ReslicedOK
<1>11. EdgesOK(Rewritten(Resliced(grafted, below, d), d, moved.path, new.path))
  BY <1>10, RewrittenOK
<1> HIDE DEF raised
<1>12. Regraft(n, p, d).raised = raised
  BY <1>3
<1>13. Regraft(n, p, d).edges = Rewritten(Resliced(grafted, below, d), d, moved.path, new.path)
  BY <1>3, <1>9 DEF grafted
<1> QED BY <1>9, <1>11, <1>12, <1>13

\* A deleted edge's days go to the one before it, whose parent is still there.
LEMMA JoinEdgesOK ==
    ASSUME EdgesOK(edges), NEW target \in edges, NEW prev \in edges,
           prev.node = target.node, prev.to = target.from - 1
    PROVE  EdgesOK((edges \ {target, prev}) \cup {[prev EXCEPT !.to = target.to]})
<1> DEFINE joined == [node |-> prev.node, parent |-> prev.parent, from |-> prev.from, to |-> target.to, path |-> prev.path]
           after  == (edges \ {target, prev}) \cup {joined}
<1>1. Dated(edges) /\ Valid(edges) /\ Attached(edges) /\ EdgeRow(target) /\ EdgeRow(prev)
  BY EdgesDated DEF EdgesOK
<1>2. [prev EXCEPT !.to = target.to] = joined
  BY <1>1, EdgeExcept DEF EdgeRow
<1>3. /\ joined.node = prev.node /\ joined.from = prev.from /\ joined.to = target.to
      /\ joined.parent = prev.parent
  OBVIOUS
<1>4. EdgeRow(joined)
  BY <1>1 DEF EdgeRow, IsEdge
<1> HIDE DEF joined
<1>5. /\ Dated(after) /\ Valid(after)
      /\ \A n : \A x \in Days : ExistsAt(edges, n, x) => ExistsAt(after, n, x)
  BY <1>1, <1>3, JoinValid
<1>6. Attached(after)
  BY <1>1, <1>3, <1>5 DEF Attached, Dated
<1>7. \A r \in after : EdgeRow(r)
  BY <1>4 DEF EdgesOK
<1> QED BY <1>2, <1>5, <1>6, <1>7 DEF EdgesOK

\* CreateNode: the first edge of a new node passes the trigger.
LEMMA CreateEdgeOK ==
    ASSUME EdgesOK(edges), NEW n, \A e \in edges : e.node # n, NEW d \in Days,
           NEW p, p = None \/ ExistsAt(edges, p, d), NEW after,
           after = edges \cup {NewEdge(edges, p, n, d, EndOfTime)}
    PROVE  /\ Valid(after) /\ Attached(after)
           /\ ~TriggerRaises(edges, p, n, d)
<1> USE HierarchyAssumption
<1> DEFINE new == NewEdge(edges, p, n, d, EndOfTime)
<1>1. new.node = n /\ new.from = d /\ new.to = EndOfTime /\ new.parent = p
  BY DEF NewEdge
<1>2. Dated(edges) /\ Valid(edges) /\ Attached(edges)
  BY EdgesDated
<1>3. after = edges \cup {new}
  OBVIOUS
<1> HIDE DEF new
<1>4. Dated(after) /\ (\A r \in after : r.from <= r.to) /\ EndOfTime \in Days
  BY <1>1, <1>2, <1>3 DEF Dated, Valid, Days
<1>5. NoOverlap(after)
  BY <1>1, <1>2, <1>3 DEF Valid, NoOverlap
<1>6. \A m : \A x \in Days : ExistsAt(edges, m, x) => ExistsAt(after, m, x)
  BY <1>3 DEF ExistsAt
<1>7. GapFree(after)
  <2>1. \A x \in Days : d <= x => Covers(new, x)
    BY <1>1 DEF Covers, Days
  <2>2. \A x \in Days : d <= x => ExistsAt(after, n, x)
    BY <1>1, <1>3, <2>1 DEF ExistsAt
  <2> QED BY <1>1, <1>2, <1>3, <1>6, <2>2 DEF Valid, GapFree
<1>8. Attached(after)
  BY <1>1, <1>2, <1>3, <1>6 DEF Attached, Dated
<1>9. ~TriggerRaises(edges, p, n, d)
  BY DEF TriggerRaises, ExistsAt
<1> QED BY <1>4, <1>5, <1>7, <1>8, <1>9 DEF Valid

-----------------------------------------------------------------------------
(* The invariant *)

\* A transaction of the nodes there are that leaves both timelines in order commits.
LEMMA Committed ==
    ASSUME OrderInv, NEW raised, ~raised, NEW es, EdgesOK(es), NEW ss, SlicesOK(ss),
           Transact(raised, es, ss), UNCHANGED nodes
    PROVE  OrderInv'
<1>1. refusal' = None /\ edges' = es /\ slices' = ss
  BY DEF Transact, EdgesOK, SlicesOK
<1>2. EdgesOK(edges)'
  BY <1>1 DEF EdgesOK, EdgeRow, IsEdge, Attached, Valid, NoOverlap, GapFree
<1>3. SlicesOK(slices)'
  BY <1>1 DEF SlicesOK, SliceRow, Valid, NoOverlap, GapFree
<1> QED BY <1>1, <1>2, <1>3 DEF OrderInv

\* CreateNode commits; its rows are the first of a node that was not there.
LEMMA CreateKeepsOrder ==
    ASSUME OrderInv, NEW n \in Nodes, NEW d \in Days, NEW p \in Parents, CreateNode(n, p, d)
    PROVE  OrderInv'
<1> DEFINE es == edges \cup {NewEdge(edges, p, n, d, EndOfTime)}
           ss == slices \cup {[node |-> n, hint |-> p, from |-> d, to |-> EndOfTime]}
<1>1. /\ n \notin nodes /\ nodes' = nodes \cup {n}
      /\ p = None \/ ExistsAt(edges, p, d)
      /\ Transact(TriggerRaises(edges, p, n, d), es, ss)
  BY DEF CreateNode
<1>2. (\A e \in edges : EdgeRow(e) /\ e.node # n) /\ (\A s \in slices : SliceRow(s) /\ s.node # n)
  BY <1>1 DEF OrderInv, EdgesOK, SlicesOK, EdgeRow, IsEdge, SliceRow
<1>3. Valid(es) /\ Attached(es) /\ ~TriggerRaises(edges, p, n, d)
  BY <1>1, <1>2, CreateEdgeOK DEF OrderInv
<1>4. Valid(ss)
  BY <1>2, CreateSliceOK DEF OrderInv
<1>5. p # n
  <2>1. n # None
    BY HierarchyAssumption
  <2>2. ASSUME ExistsAt(edges, p, d) PROVE p # n
    BY <1>2, <2>2 DEF ExistsAt
  <2> QED BY <1>1, <2>1, <2>2
<1>6. refusal' = None /\ edges' = es /\ slices' = ss
  BY <1>1, <1>3, <1>4 DEF Transact
<1>7. \A e \in edges' : EdgeRow(e)'
  <2>1. ASSUME NEW CONSTANT e, e \in edges PROVE EdgeRow(e)'
    BY <1>1, <1>2, <2>1 DEF EdgeRow, IsEdge
  <2>2. ASSUME NEW CONSTANT new, new = NewEdge(edges, p, n, d, EndOfTime) PROVE EdgeRow(new)'
    <3>1. PICK path : new = [node |-> n, parent |-> p, from |-> d, to |-> EndOfTime, path |-> path]
      BY <2>2 DEF NewEdge
    <3> QED BY <1>1, <1>5, <3>1, HierarchyAssumption DEF EdgeRow, IsEdge, Days
  <2> SUFFICES ASSUME NEW CONSTANT e, e \in edges' PROVE EdgeRow(e)'
    OBVIOUS
  <2> QED BY <1>6, <2>1, <2>2
<1>8. \A s \in slices' : SliceRow(s)'
  BY <1>1, <1>2, <1>6, HierarchyAssumption DEF SliceRow, Days
<1>9. Valid(edges)' /\ Attached(edges)' /\ Valid(slices)'
  BY <1>3, <1>4, <1>6 DEF Valid, NoOverlap, GapFree, Attached
<1> QED BY <1>1, <1>6, <1>7, <1>8, <1>9 DEF OrderInv, EdgesOK, SlicesOK

\* Every operation but RescindNode commits and leaves both timelines in order.
LEMMA OrderStep ==
    ASSUME "rescind" \notin Ops, "outside_subtree" \in Discipline, OrderInv, [Next]_vars
    PROVE  OrderInv'
<1> EdgesOK(edges) /\ SlicesOK(slices)
  BY DEF OrderInv
<1>1. ASSUME NEW n \in Nodes, NEW d \in Days, NEW p \in Parents, CreateNode(n, p, d) PROVE OrderInv'
  BY <1>1, CreateKeepsOrder
<1>2. ASSUME NEW n \in Nodes, NEW d \in Days, UpdateNode(n, d) PROVE OrderInv'
  <2>1. PICK s \in slices : Covers(s, d) /\ Transact(FALSE, edges, Split(s, s.hint, d))
    BY <1>2 DEF UpdateNode
  <2>2. SlicesOK(Split(s, s.hint, d))
    BY <2>1, SplitOK
  <2> QED BY <1>2, <2>1, <2>2, Committed DEF UpdateNode
<1>3. ASSUME NEW n \in Nodes, NEW d \in Days, NEW p \in Nodes, MayMove(n, p, d)
      PROVE  ~Regraft(n, p, d).raised /\ EdgesOK(Regraft(n, p, d).edges)
  <2>1. p # n /\ ExistsAt(edges, n, d) /\ ExistsAt(edges, p, d)
    BY <1>3 DEF MayMove
  <2> QED BY <2>1, RegraftOK
<1>4. ASSUME NEW n \in Nodes, NEW d \in Days, NEW p \in Nodes, MoveNode(n, p, d) PROVE OrderInv'
  <2>1. PICK s \in slices :
           Covers(s, d) /\ Transact(Regraft(n, p, d).raised, Regraft(n, p, d).edges, Split(s, p, d))
    BY <1>4 DEF MoveNode
  <2>2. SlicesOK(Split(s, p, d))
    BY <2>1, SplitOK
  <2>3. ~Regraft(n, p, d).raised /\ EdgesOK(Regraft(n, p, d).edges)
    BY <1>3, <1>4 DEF MoveNode
  <2>4. UNCHANGED nodes
    BY <1>4 DEF MoveNode
  <2> QED BY <2>1, <2>2, <2>3, <2>4, Committed
<1>5. ASSUME NEW n \in Nodes, NEW d \in Days, NEW p \in Nodes, CorrectMoveNode(n, p, d) PROVE OrderInv'
  <2> DEFINE ss == IF ExistsAt(slices, n, d) THEN Split(RowAt(slices, n, d), p, d) ELSE slices
  <2>1. Transact(Regraft(n, p, d).raised, Regraft(n, p, d).edges, ss)
    BY <1>5 DEF CorrectMoveNode
  <2>2. SlicesOK(ss)
    BY RowAtIs, SplitOK
  <2>3. ~Regraft(n, p, d).raised /\ EdgesOK(Regraft(n, p, d).edges)
    BY <1>3, <1>5 DEF CorrectMoveNode
  <2>4. UNCHANGED nodes
    BY <1>5 DEF CorrectMoveNode
  <2> HIDE DEF ss
  <2> QED BY <2>1, <2>2, <2>3, <2>4, Committed
<1>6. ASSUME NEW n \in Nodes, NEW start \in Days, NEW d \in Days, ShiftBoundaryNode(n, start, d) PROVE OrderInv'
  <2>1. PICK target \in slices, prev \in slices :
          /\ target.node = n /\ target.from = start
          /\ prev.node = n /\ prev.to = start - 1
          /\ d <= target.to /\ d > prev.from
          /\ Transact(FALSE, edges, (slices \ {target, prev})
                                      \cup {[target EXCEPT !.from = d], [prev EXCEPT !.to = d - 1]})
    BY <1>6 DEF ShiftBoundaryNode
  <2> DEFINE ss == (slices \ {target, prev}) \cup {[target EXCEPT !.from = d], [prev EXCEPT !.to = d - 1]}
  <2>2. SlicesOK(ss)
    BY <2>1, ShiftOK
  <2>3. Transact(FALSE, edges, ss) /\ UNCHANGED nodes
    BY <1>6, <2>1 DEF ShiftBoundaryNode
  <2> HIDE DEF ss
  <2> QED BY <2>2, <2>3, Committed
<1>7. ASSUME NEW n \in Nodes, NEW start \in Days, DeleteNodeSliceAndStitch(n, start) PROVE OrderInv'
  <2>1. PICK target \in slices :
          /\ target.node = n /\ target.from = start
          /\ LET prev == {s \in slices : s.node = n /\ s.to = start - 1}
             IN  Transact(FALSE, edges, (slices \ (prev \cup {target}))
                                          \cup {[s EXCEPT !.to = target.to] : s \in prev})
    BY <1>7 DEF DeleteNodeSliceAndStitch
  <2> DEFINE prevs == {s \in slices : s.node = target.node /\ s.to = target.from - 1}
             ss    == (slices \ (prevs \cup {target})) \cup {[s EXCEPT !.to = target.to] : s \in prevs}
  <2>2. SlicesOK(ss)
    BY DeleteSliceOK
  <2>3. Transact(FALSE, edges, ss) /\ UNCHANGED nodes
    BY <1>7, <2>1 DEF DeleteNodeSliceAndStitch
  <2> HIDE DEF ss
  <2> QED BY <2>2, <2>3, Committed
<1>8. ASSUME NEW n \in Nodes, NEW start \in Days, DeleteEdgeSliceAndStitch(n, start) PROVE OrderInv'
  <2>1. PICK target \in edges, prev \in edges :
          /\ target.node = n /\ target.from = start
          /\ prev.node = n /\ prev.to = start - 1
          /\ LET stitched == (edges \ {target, prev}) \cup {[prev EXCEPT !.to = target.to]}
             IN  Transact(FALSE, Rewritten(stitched, start, target.path, prev.path), slices)
    BY <1>8 DEF DeleteEdgeSliceAndStitch
  <2> DEFINE stitched == (edges \ {target, prev}) \cup {[prev EXCEPT !.to = target.to]}
  <2>2. EdgesOK(stitched)
    BY <2>1, JoinEdgesOK
  <2>3. Transact(FALSE, Rewritten(stitched, start, target.path, prev.path), slices) /\ UNCHANGED nodes
    BY <1>8, <2>1 DEF DeleteEdgeSliceAndStitch
  <2> HIDE DEF stitched
  <2>4. EdgesOK(Rewritten(stitched, start, target.path, prev.path))
    BY <2>2, RewrittenOK
  <2> QED BY <2>3, <2>4, Committed
<1>9. CASE UNCHANGED vars
  BY <1>9 DEF vars, OrderInv, EdgesOK, SlicesOK, EdgeRow, IsEdge, SliceRow, Attached, Valid, NoOverlap, GapFree
<1>10. ~\E n \in Nodes, d \in Days : RescindNode(n, d)
  BY DEF RescindNode
<1> QED BY <1>1, <1>2, <1>4, <1>5, <1>6, <1>7, <1>8, <1>9, <1>10 DEF Next

LEMMA OrderInvariant ==
    ASSUME "rescind" \notin Ops, "outside_subtree" \in Discipline
    PROVE  Spec => []OrderInv
<1>1. Init => OrderInv
  BY DEF Init, OrderInv, EdgesOK, SlicesOK, Attached, Valid, NoOverlap, GapFree
<1>2. OrderInv /\ [Next]_vars => OrderInv'
  BY OrderStep
<1> QED BY <1>1, <1>2, PTL DEF Spec

\* For any units and days and any order of effective dates: what CreateNode, UpdateNode,
\* both moves, ShiftBoundaryNode and the two delete-and-stitch operations accept, the
\* trigger and the constraints accept too.
THEOREM AcceptedOperationsCommit ==
    ASSUME "rescind" \notin Ops, "outside_subtree" \in Discipline
    PROVE  Spec => []NeverRefused
<1>1. OrderInv => NeverRefused
  BY DEF OrderInv, NeverRefused
<1> QED BY <1>1, OrderInvariant, PTL

-----------------------------------------------------------------------------
(* Parents: whatever callers promise about subtrees, and with rescissions in date order *)

AttachedInv == nodes \subseteq Nodes /\ EdgesOK(edges)

\* A transaction of the nodes there are that commits whole timelines, or nothing.
LEMMA CommittedEdges ==
    ASSUME AttachedInv, NEW raised, NEW es, raised \/ ~Valid(es) \/ EdgesOK(es), NEW ss,
           Transact(raised, es, ss), UNCHANGED nodes
    PROVE  AttachedInv'
<1>1. EdgesOK(edges')
  BY DEF Transact, AttachedInv
<1>2. EdgesOK(edges)'
  BY <1>1 DEF EdgesOK, EdgeRow, IsEdge, Attached, Valid, NoOverlap, GapFree
<1> QED BY <1>2 DEF AttachedInv

\* CreateNode: the new node's parent is in the tree.
LEMMA CreateKeepsAttached ==
    ASSUME AttachedInv, NEW n \in Nodes, NEW d \in Days, NEW p \in Parents, CreateNode(n, p, d)
    PROVE  AttachedInv'
<1> DEFINE es == edges \cup {NewEdge(edges, p, n, d, EndOfTime)}
<1>1. /\ n \notin nodes /\ nodes' = nodes \cup {n}
      /\ p = None \/ ExistsAt(edges, p, d)
  BY DEF CreateNode
<1>2. \A e \in edges : EdgeRow(e) /\ e.node # n
  BY <1>1 DEF AttachedInv, EdgesOK, EdgeRow, IsEdge
<1>3. Valid(es) /\ Attached(es)
  BY <1>1, <1>2, CreateEdgeOK DEF AttachedInv
<1>4. p # n
  <2>1. n # None
    BY HierarchyAssumption
  <2>2. ASSUME ExistsAt(edges, p, d) PROVE p # n
    BY <1>2, <2>2 DEF ExistsAt
  <2> QED BY <1>1, <2>1, <2>2
<1>5. edges' = es \/ edges' = edges
  BY DEF CreateNode, Transact
<1>6. \A e \in edges' : EdgeRow(e)'
  <2>1. ASSUME NEW CONSTANT e, e \in edges PROVE EdgeRow(e)'
    BY <1>1, <1>2, <2>1 DEF EdgeRow, IsEdge
  <2>2. ASSUME NEW CONSTANT new, new = NewEdge(edges, p, n, d, EndOfTime) PROVE EdgeRow(new)'
    <3>1. PICK path : new = [node |-> n, parent |-> p, from |-> d, to |-> EndOfTime, path |-> path]
      BY <2>2 DEF NewEdge
    <3> QED BY <1>1, <1>4, <3>1, HierarchyAssumption DEF EdgeRow, IsEdge, Days
  <2> SUFFICES ASSUME NEW CONSTANT e, e \in edges' PROVE EdgeRow(e)'
    OBVIOUS
  <2> QED BY <1>5, <2>1, <2>2
<1>7. Valid(edges') /\ Attached(edges')
  BY <1>3, <1>5 DEF AttachedInv, EdgesOK
<1>8. Valid(edges)' /\ Attached(edges)'
  BY <1>7 DEF Valid, NoOverlap, GapFree, Attached
<1> QED BY <1>1, <1>6, <1>8 DEF AttachedInv, EdgesOK

\* RescindNode in date order: no edge of a later day has the node for its parent, and the
\* days before keep theirs.
LEMMA RescindKeepsAttached ==
    ASSUME AttachedInv, "date_order" \in Discipline, NEW n \in Nodes, NEW d \in Days, RescindNode(n, d)
    PROVE  AttachedInv'
<1> USE HierarchyAssumption
<1> DEFINE later == {r \in edges : r.node = n /\ r.to >= d}
           after == Cut(edges, later, d)
           first(e) == [node |-> e.node, parent |-> e.parent, from |-> e.from, to |-> d - 1, path |-> e.path]
<1>1. PICK ss : Transact(FALSE, after, ss)
  BY DEF RescindNode
<1>2. InOrder(d) /\ (~\E e \in edges : e.parent = n /\ Covers(e, d)) /\ UNCHANGED nodes
  BY DEF RescindNode
<1>3. (\A e \in edges : EdgeRow(e) /\ e.from <= d) /\ Attached(edges) /\ Valid(edges)
  BY <1>2 DEF AttachedInv, EdgesOK, InOrder
<1>4. after = (edges \ later) \cup {first(e) : e \in {x \in later : x.from < d}}
  <2> DEFINE cut(e) == [e EXCEPT !.to = d - 1]
  <2>1. \A e \in later : cut(e) = first(e)
    BY <1>3, EdgeExcept DEF EdgeRow
  <2>2. after = (edges \ later) \cup {cut(e) : e \in {x \in later : x.from < d}}
    BY DEF Cut
  <2> HIDE DEF cut, first, later
  <2> QED BY <2>1, <2>2
<1>5. \A e \in later : /\ first(e).node = n /\ first(e).parent = e.parent
                       /\ first(e).from = e.from /\ first(e).to = d - 1
  OBVIOUS
<1>6. \A e \in later : e.from < d => EdgeRow(first(e))
  BY <1>3 DEF EdgeRow, IsEdge, Days
<1> HIDE DEF first, after
<1>7. \A r \in after : EdgeRow(r) /\ \E e \in edges : e.parent = r.parent /\ e.from = r.from
                                       /\ e.node = r.node /\ (r \in edges \ later \/ e.from < d)
  BY <1>3, <1>4, <1>5, <1>6
<1>8. ASSUME NEW r \in after, r.parent # None PROVE ExistsAt(after, r.parent, r.from)
  <2>1. PICK e \in edges : e.parent = r.parent /\ e.from = r.from /\ e.node = r.node
                           /\ (r \in edges \ later \/ e.from < d)
    BY <1>7
  <2>2. PICK q \in edges : q.node = r.parent /\ Covers(q, r.from)
    BY <1>3, <1>8, <2>1 DEF Attached, ExistsAt
  <2>3. CASE q \notin later
    BY <1>4, <2>2, <2>3 DEF ExistsAt
  <2>4. CASE q \in later
    <3>1. r.from < d
      <4>1. CASE r \in edges \ later
        <5>1. r.parent = n /\ ~Covers(r, d)
          BY <1>2, <2>2, <2>4, <4>1
        <5> QED BY <1>3, <4>1, <5>1 DEF Covers, EdgeRow, IsEdge, Days, Valid
      <4>2. CASE e.from < d
        BY <2>1, <4>2
      <4> QED BY <2>1, <4>1, <4>2
    <3>2. q.from \in Int /\ q.to \in Int /\ r.from \in Int /\ d \in Int
      BY <1>3, <1>7 DEF EdgeRow, IsEdge, Days
    <3>3. q.from < d /\ q.from <= r.from
      BY <2>2, <3>1, <3>2 DEF Covers
    <3>4. first(q) \in after
      BY <1>4, <2>4, <3>3
    <3>5. Covers(first(q), r.from) /\ first(q).node = r.parent
      BY <1>5, <2>2, <2>4, <3>1, <3>2, <3>3 DEF Covers
    <3> QED BY <3>4, <3>5 DEF ExistsAt
  <2> QED BY <2>3, <2>4
<1>9. Valid(after) => EdgesOK(after)
  BY <1>7, <1>8 DEF EdgesOK, Attached
<1> QED BY <1>1, <1>2, <1>9, CommittedEdges

\* A move below the node itself is refused by the trigger: its own edge has been cut.
LEMMA MoveToItself ==
    ASSUME EdgesOK(edges), NEW n \in Nodes, NEW d \in Days, ExistsAt(edges, n, d)
    PROVE  Regraft(n, n, d).raised
<1> DEFINE moved == RowAt(edges, n, d)
           cut   == Cut(edges, {moved}, d)
<1>1. moved \in edges /\ moved.node = n /\ Covers(moved, d)
  BY RowAtIs
<1>2. ~ExistsAt(cut, n, d)
  <2> HIDE DEF moved
  <2> QED BY <1>1, CutGone
<1>3. n # None
  BY HierarchyAssumption
<1>4. TriggerRaises(cut, n, n, d)
  BY <1>2, <1>3 DEF TriggerRaises
<1> QED BY <1>4 DEF Regraft

LEMMA AttachedStep ==
    ASSUME "rescind" \notin Ops \/ "date_order" \in Discipline, AttachedInv, [Next]_vars
    PROVE  AttachedInv'
<1> EdgesOK(edges)
  BY DEF AttachedInv
<1>1. ASSUME NEW n \in Nodes, NEW d \in Days, NEW p \in Parents, CreateNode(n, p, d) PROVE AttachedInv'
  BY <1>1, CreateKeepsAttached
<1>2. ASSUME NEW n \in Nodes, NEW d \in Days, NEW p \in Nodes, MoveNode(n, p, d) \/ CorrectMoveNode(n, p, d)
      PROVE  AttachedInv'
  <2> DEFINE g == Regraft(n, p, d)
  <2>1. ExistsAt(edges, n, d) /\ ExistsAt(edges, p, d) /\ UNCHANGED nodes
    BY <1>2 DEF MoveNode, CorrectMoveNode, MayMove
  <2>2. PICK ss : Transact(g.raised, g.edges, ss)
    BY <1>2 DEF MoveNode, CorrectMoveNode
  <2>3. g.raised \/ EdgesOK(g.edges)
    BY <2>1, RegraftOK, MoveToItself
  <2> HIDE DEF g
  <2> QED BY <2>1, <2>2, <2>3, CommittedEdges
<1>3. ASSUME NEW n \in Nodes, NEW d \in Days, RescindNode(n, d) PROVE AttachedInv'
  BY <1>3, RescindKeepsAttached DEF RescindNode
<1>4. ASSUME NEW n \in Nodes, NEW start \in Days, DeleteEdgeSliceAndStitch(n, start) PROVE AttachedInv'
  <2>1. PICK target \in edges, prev \in edges :
          /\ target.node = n /\ target.from = start
          /\ prev.node = n /\ prev.to = start - 1
          /\ LET stitched == (edges \ {target, prev}) \cup {[prev EXCEPT !.to = target.to]}
             IN  Transact(FALSE, Rewritten(stitched, start, target.path, prev.path), slices)
    BY <1>4 DEF DeleteEdgeSliceAndStitch
  <2> DEFINE stitched == (edges \ {target, prev}) \cup {[prev EXCEPT !.to = target.to]}
  <2>2. EdgesOK(stitched)
    BY <2>1, JoinEdgesOK
  <2>3. Transact(FALSE, Rewritten(stitched, start, target.path, prev.path), slices) /\ UNCHANGED nodes
    BY <1>4, <2>1 DEF DeleteEdgeSliceAndStitch
  <2> HIDE DEF stitched
  <2>4. EdgesOK(Rewritten(stitched, start, target.path, prev.path))
    BY <2>2, RewrittenOK
  <2> QED BY <2>3, <2>4, CommittedEdges
<1>5. ASSUME NEW n \in Nodes, NEW d \in Days,
             UpdateNode(n, d) \/ (\E start \in Days : ShiftBoundaryNode(n, start, d))
             \/ DeleteNodeSliceAndStitch(n, d)
      PROVE  AttachedInv'
  <2>1. UNCHANGED nodes /\ \E ss : Transact(FALSE, edges, ss)
    BY <1>5 DEF UpdateNode, ShiftBoundaryNode, DeleteNodeSliceAndStitch
  <2> QED BY <2>1, CommittedEdges
<1>6. CASE UNCHANGED vars
  BY <1>6 DEF vars, AttachedInv, EdgesOK, EdgeRow, IsEdge, Attached, Valid, NoOverlap, GapFree
<1> QED BY <1>1, <1>2, <1>3, <1>4, <1>5, <1>6 DEF Next

LEMMA AttachedHolds == AttachedInv => NoOrphans
<1> SUFFICES ASSUME AttachedInv PROVE NoOrphans
  OBVIOUS
<1>1. Dated(edges) /\ Valid(edges) /\ Attached(edges)
  BY EdgesDated DEF AttachedInv
<1>2. ASSUME NEW e \in edges, NEW d \in Days, Covers(e, d), e.parent # None PROVE ExistsAt(edges, e.parent, d)
  <2>1. PICK q \in edges : q.node = e.parent /\ q.from <= e.from
    BY <1>1, <1>2 DEF Attached, ExistsAt, Covers
  <2>2. q.from <= d
    BY <1>1, <1>2, <2>1, HierarchyAssumption DEF Covers, Dated, Days
  <2> QED BY <1>1, <2>1, <2>2 DEF Valid, GapFree
<1> QED BY <1>2 DEF NoOrphans

\* On every day of an edge its parent is in the tree, although each operation looks at one
\* day: for any number of units and days and whatever callers do, but that units are
\* rescinded only in date order.
THEOREM ParentsAreInTree ==
    ASSUME "rescind" \notin Ops \/ "date_order" \in Discipline
    PROVE  Spec => []NoOrphans
<1>1. Init => AttachedInv
  BY DEF Init, AttachedInv, EdgesOK, Attached, Valid, NoOverlap, GapFree
<1>2. AttachedInv /\ [Next]_vars => AttachedInv'
  BY AttachedStep
<1> QED BY <1>1, <1>2, AttachedHolds, PTL DEF Spec

-----------------------------------------------------------------------------
(* History: operations in date order, of every kind, rescissions included *)

\* The two tables show the same tree on every day before d.
SameBefore(es, after, d) == \A x \in Days : x < d => TreeOn(after, x) = TreeOn(es, x)

\* f shows on day x what e shows.
Shows(f, e, x) == Covers(f, x) /\ f.node = e.node /\ f.parent = e.parent /\ f.path = e.path

\* The rows are whole, and the transactions have kept them so.
Edged(es) == \A e \in es : IsEdge(e)
HistoryInv == Edged(edges) /\ \A e \in edges : e.from <= e.to

LEMMA SameShown ==
    ASSUME NEW es, NEW after, NEW d,
           \A x \in Days, e \in es : x < d /\ Covers(e, x) => \E f \in after : Shows(f, e, x),
           \A x \in Days, f \in after : x < d /\ Covers(f, x) => \E e \in es : Shows(e, f, x)
    PROVE  SameBefore(es, after, d)
<1> SUFFICES ASSUME NEW x \in Days, x < d PROVE TreeOn(after, x) = TreeOn(es, x)
  BY DEF SameBefore
<1>1. TreeOn(es, x) \subseteq TreeOn(after, x)
  BY DEF TreeOn, Shows
<1>2. TreeOn(after, x) \subseteq TreeOn(es, x)
  BY DEF TreeOn, Shows
<1> QED BY <1>1, <1>2

LEMMA SameBoth ==
    ASSUME NEW es, NEW mid, NEW after, NEW d, SameBefore(es, mid, d), SameBefore(mid, after, d)
    PROVE  SameBefore(es, after, d)
BY DEF SameBefore

\* Rows that start on d or later do not show before it.
LEMMA AddedLater ==
    ASSUME NEW es, NEW d \in Days, NEW new, Edged(new), \A e \in new : e.from >= d
    PROVE  SameBefore(es, es \cup new, d)
<1>1. ASSUME NEW x \in Days, x < d, NEW f \in new PROVE ~Covers(f, x)
  BY <1>1, HierarchyAssumption DEF Edged, IsEdge, Covers, Days
<1> QED BY <1>1, SameShown DEF Shows

\* Rows that are still in force on d or later are cut on d.
LEMMA CutLater ==
    ASSUME NEW es, Edged(es), NEW these \in SUBSET es, NEW d \in Days, \A e \in these : e.to >= d
    PROVE  Edged(Cut(es, these, d)) /\ SameBefore(es, Cut(es, these, d), d)
<1> USE HierarchyAssumption
<1> DEFINE first(e) == [node |-> e.node, parent |-> e.parent, from |-> e.from, to |-> d - 1, path |-> e.path]
           cut(e)   == [e EXCEPT !.to = d - 1]
           after    == Cut(es, these, d)
<1>1. \A e \in these : cut(e) = first(e)
  BY EdgeExcept DEF Edged
<1>2. after = (es \ these) \cup {cut(e) : e \in {x \in these : x.from < d}}
  BY DEF Cut
<1> HIDE DEF cut, after
<1>3. after = (es \ these) \cup {first(e) : e \in {x \in these : x.from < d}}
  BY <1>1, <1>2
<1>4. ASSUME NEW e \in these, e.from < d
      PROVE  IsEdge(first(e)) /\ \A x \in Days : x < d => (Covers(first(e), x) <=> Covers(e, x))
  BY <1>4 DEF Edged, IsEdge, Covers, Days
<1>5. \A e : first(e).node = e.node /\ first(e).parent = e.parent /\ first(e).path = e.path
  OBVIOUS
<1> HIDE DEF first
<1>6. Edged(after)
  BY <1>3, <1>4 DEF Edged
<1>7. ASSUME NEW x \in Days, NEW e \in es, x < d, Covers(e, x) PROVE \E f \in after : Shows(f, e, x)
  <2>1. CASE e \in these
    <3>1. e.from < d
      BY <1>7 DEF Edged, IsEdge, Covers, Days
    <3>2. Shows(first(e), e, x) /\ first(e) \in after
      BY <1>3, <1>4, <1>5, <1>7, <2>1, <3>1 DEF Shows
    <3> QED BY <3>2
  <2> QED BY <1>3, <1>7, <2>1 DEF Shows
<1>8. ASSUME NEW x \in Days, NEW f \in after, x < d, Covers(f, x) PROVE \E e \in es : Shows(e, f, x)
  <2>1. CASE f \in es
    BY <1>8, <2>1 DEF Shows
  <2>2. CASE \E e \in these : e.from < d /\ f = first(e)
    BY <1>4, <1>5, <1>8, <2>2 DEF Shows
  <2> QED BY <1>3, <2>1, <2>2
<1> QED BY <1>6, <1>7, <1>8, SameShown DEF after

LEMMA ReslicedLater ==
    ASSUME NEW es, Edged(es), NEW tree \in SUBSET es, NEW d \in Days, \A e \in tree : Covers(e, d)
    PROVE  Edged(Resliced(es, tree, d)) /\ SameBefore(es, Resliced(es, tree, d), d)
<1> USE HierarchyAssumption
<1>1. PICK path : Resliced(es, tree, d)
                      = Cut(es, tree, d) \cup {[e EXCEPT !.from = d, !.path = path[e.node]] : e \in tree}
  BY ReslicedIs
<1> DEFINE rest(e) == [node |-> e.node, parent |-> e.parent, from |-> d, to |-> e.to, path |-> path[e.node]]
           cont(e) == [e EXCEPT !.from = d, !.path = path[e.node]]
           new     == {cont(e) : e \in tree}
<1>2. \A e \in tree : cont(e) = rest(e)
  BY EdgeRestExcept DEF Edged
<1>3. \A e \in tree : IsEdge(rest(e)) /\ rest(e).from = d
  BY DEF Edged, IsEdge
<1> HIDE DEF cont, rest
<1>4. Edged(new) /\ \A e \in new : e.from >= d
  BY <1>2, <1>3 DEF Edged, Days
<1>5. Resliced(es, tree, d) = Cut(es, tree, d) \cup new
  BY <1>1 DEF cont
<1>6. \A e \in tree : e.to >= d
  BY DEF Covers, Edged, IsEdge, Days
<1>7. Edged(Cut(es, tree, d)) /\ SameBefore(es, Cut(es, tree, d), d)
  BY <1>6, CutLater
<1> HIDE DEF new
<1>8. SameBefore(Cut(es, tree, d), Cut(es, tree, d) \cup new, d)
  BY <1>4, AddedLater
<1> QED BY <1>4, <1>5, <1>7, <1>8, SameBoth DEF Edged

LEMMA RewrittenLater ==
    ASSUME NEW es, Edged(es), NEW d \in Days, NEW old, NEW new
    PROVE  Edged(Rewritten(es, d, old, new)) /\ SameBefore(es, Rewritten(es, d, old, new), d)
<1> USE HierarchyAssumption
<1> DEFINE below(e) == e.from >= d /\ InSubtree(e.path, old) /\ Len(e.path) > Len(old)
           path(e)  == new \o SubSeq(e.path, Len(old) + 1, Len(e.path))
           image(e) == IF below(e) THEN [e EXCEPT !.path = path(e)] ELSE e
           after    == Rewritten(es, d, old, new)
<1>1. after = {image(e) : e \in es}
  BY DEF Rewritten
<1>2. \A e : below(e) => e.from >= d
  OBVIOUS
<1> HIDE DEF after, below, path
<1>3. ASSUME NEW e \in es
      PROVE  IsEdge(image(e)) /\ (image(e) = e \/ (e.from >= d /\ image(e).from >= d))
  <2> DEFINE rec == [node |-> e.node, parent |-> e.parent, from |-> e.from, to |-> e.to, path |-> path(e)]
  <2>1. [e EXCEPT !.path = path(e)] = rec
    BY EdgePathExcept DEF Edged
  <2>2. IsEdge(rec) /\ rec.from = e.from
    BY DEF Edged, IsEdge
  <2> HIDE DEF rec
  <2> QED BY <1>2, <2>1, <2>2 DEF Edged
<1> HIDE DEF image
<1>4. ASSUME NEW f, IsEdge(f), f.from >= d, NEW x \in Days, x < d PROVE ~Covers(f, x)
  BY <1>4 DEF IsEdge, Covers, Days
<1>5. ASSUME NEW x \in Days, NEW e \in es, x < d, Covers(e, x) PROVE \E f \in after : Shows(f, e, x)
  <2>1. image(e) = e
    BY <1>3, <1>4, <1>5 DEF Edged
  <2> QED BY <1>1, <1>5, <2>1 DEF Shows
<1>6. ASSUME NEW x \in Days, NEW f \in after, x < d, Covers(f, x) PROVE \E e \in es : Shows(e, f, x)
  <2>1. PICK e \in es : f = image(e)
    BY <1>1
  <2>2. f = e
    BY <1>3, <1>4, <1>6, <2>1
  <2> QED BY <1>6, <2>2 DEF Shows
<1>7. Edged(after)
  BY <1>1, <1>3 DEF Edged
<1> QED BY <1>5, <1>6, <1>7, SameShown DEF after

\* Both moves.
LEMMA RegraftLater ==
    ASSUME Edged(edges), NEW n, NEW p, NEW d \in Days, ExistsAt(edges, n, d)
    PROVE  Edged(Regraft(n, p, d).edges) /\ SameBefore(edges, Regraft(n, p, d).edges, d)
<1> USE HierarchyAssumption
<1> DEFINE moved   == RowAt(edges, n, d)
           below   == Subtree(moved.path, d) \ {moved}
           cut     == Cut(edges, {moved}, d)
           new     == NewEdge(cut, p, n, d, moved.to)
           grafted == cut \cup {new}
           resliced == Resliced(grafted, below, d)
           raised  == TriggerRaises(cut, p, n, d) \/ \E e \in below : TriggerRaises(Cut(grafted, {e}, d), e.parent, e.node, d)
<1>1. moved \in edges /\ Covers(moved, d) /\ IsEdge(moved)
  BY RowAtIs DEF Edged
<1>2. below \in SUBSET edges /\ moved \notin below /\ \A e \in below : Covers(e, d)
  BY DEF Subtree
<1>3. Regraft(n, p, d).edges = IF raised THEN edges ELSE Rewritten(resliced, d, moved.path, new.path)
  BY DEF Regraft
<1>4. IsEdge(new) /\ new.from = d
  <2> DEFINE path == new.path
  <2>1. new = [node |-> n, parent |-> p, from |-> d, to |-> moved.to, path |-> path]
    BY DEF NewEdge
  <2> HIDE DEF new, path
  <2> QED BY <1>1, <2>1 DEF IsEdge
<1> HIDE DEF moved, below, new, raised
<1>5. moved.to >= d
  BY <1>1 DEF Covers, IsEdge, Days
<1>6. Edged(cut) /\ SameBefore(edges, cut, d)
  BY <1>1, <1>5, CutLater
<1>7. below \in SUBSET grafted
  BY <1>2 DEF Cut
<1> HIDE DEF cut
<1>8. Edged(grafted) /\ SameBefore(cut, grafted, d)
  <2>1. Edged({new}) /\ \A e \in {new} : e.from >= d
    BY <1>4 DEF Edged, Days
  <2> QED BY <1>6, <2>1, AddedLater DEF Edged
<1> HIDE DEF grafted
<1>9. Edged(resliced) /\ SameBefore(grafted, resliced, d)
  BY <1>2, <1>7, <1>8, ReslicedLater
<1> HIDE DEF resliced
<1>10. /\ Edged(Rewritten(resliced, d, moved.path, new.path))
       /\ SameBefore(resliced, Rewritten(resliced, d, moved.path, new.path), d)
  BY <1>9, RewrittenLater
<1>11. SameBefore(edges, resliced, d)
  BY <1>6, <1>8, <1>9, SameBoth
<1>12. SameBefore(edges, Rewritten(resliced, d, moved.path, new.path), d)
  BY <1>10, <1>11, SameBoth
<1>13. SameBefore(edges, edges, d)
  BY DEF SameBefore
<1> QED BY <1>3, <1>10, <1>12, <1>13

\* An undone edge's days go to the edge before it.
LEMMA StitchedLater ==
    ASSUME HistoryInv, NEW target \in edges, NEW prev \in edges, prev.to = target.from - 1
    PROVE  /\ Edged((edges \ {target, prev}) \cup {[prev EXCEPT !.to = target.to]})
           /\ SameBefore(edges, (edges \ {target, prev}) \cup {[prev EXCEPT !.to = target.to]}, target.from)
<1> USE HierarchyAssumption
<1> DEFINE joined == [node |-> prev.node, parent |-> prev.parent, from |-> prev.from, to |-> target.to, path |-> prev.path]
           after  == (edges \ {target, prev}) \cup {joined}
<1>1. IsEdge(target) /\ IsEdge(prev) /\ target.from <= target.to
  BY DEF HistoryInv, Edged
<1>2. [prev EXCEPT !.to = target.to] = joined
  BY <1>1, EdgeExcept
<1>3. /\ joined.node = prev.node /\ joined.parent = prev.parent /\ joined.path = prev.path
      /\ IsEdge(joined)
      /\ \A x \in Days : x < target.from => (Covers(joined, x) <=> Covers(prev, x)) /\ ~Covers(target, x)
  BY <1>1 DEF IsEdge, Covers, Days
<1> HIDE DEF joined
<1>4. Edged(after)
  BY <1>3 DEF HistoryInv, Edged
<1>5. ASSUME NEW x \in Days, NEW e \in edges, x < target.from, Covers(e, x) PROVE \E f \in after : Shows(f, e, x)
  <2>1. CASE e = prev
    BY <1>3, <1>5, <2>1 DEF Shows
  <2>2. CASE e # prev
    BY <1>3, <1>5, <2>2 DEF Shows
  <2> QED BY <2>1, <2>2
<1>6. ASSUME NEW x \in Days, NEW f \in after, x < target.from, Covers(f, x) PROVE \E e \in edges : Shows(e, f, x)
  <2>1. CASE f = joined
    BY <1>3, <1>6, <2>1 DEF Shows
  <2>2. CASE f # joined
    BY <1>6, <2>2 DEF Shows
  <2> QED BY <2>1, <2>2
<1>7. SameBefore(edges, after, target.from)
  BY <1>5, <1>6, SameShown
<1> QED BY <1>2, <1>4, <1>7

\* What is committed is valid, and in date order no edge starts after the day of the operation.
LEMMA CommittedLater ==
    ASSUME HistoryInv, "date_order" \in Discipline, NEW d \in Days, InOrder(d),
           NEW raised, NEW es, NEW ss, Transact(raised, es, ss),
           raised \/ (Edged(es) /\ SameBefore(edges, es, d))
    PROVE  /\ HistoryInv'
           /\ \A x \in Days : (\E e \in edges : x < e.from) => TreeOn(edges', x) = TreeOn(edges, x)
<1>1. CASE edges' = edges
  BY <1>1 DEF HistoryInv, Edged, IsEdge, TreeOn
<1>2. CASE edges' = es /\ Valid(es) /\ Edged(es) /\ SameBefore(edges, es, d)
  <2>1. HistoryInv'
    BY <1>2 DEF HistoryInv, Edged, IsEdge, Valid
  <2>2. ASSUME NEW x \in Days, NEW e \in edges, x < e.from PROVE x < d
    BY <2>2, HierarchyAssumption DEF InOrder, HistoryInv, Edged, IsEdge, Days
  <2> QED BY <1>2, <2>1, <2>2 DEF SameBefore
<1> QED BY <1>1, <1>2 DEF Transact

LEMMA HistoryStep ==
    ASSUME HistoryInv, "date_order" \in Discipline, [Next]_vars
    PROVE  /\ HistoryInv'
           /\ \A x \in Days : (\E e \in edges : x < e.from) => TreeOn(edges', x) = TreeOn(edges, x)
<1> DEFINE Goal == /\ HistoryInv'
                   /\ \A x \in Days : (\E e \in edges : x < e.from) => TreeOn(edges', x) = TreeOn(edges, x)
<1> Edged(edges)
  BY DEF HistoryInv
<1>0. \A d : SameBefore(edges, edges, d)
  BY DEF SameBefore
<1>1. ASSUME NEW n, NEW p, NEW d \in Days, CreateNode(n, p, d) PROVE Goal
  <2> DEFINE new == NewEdge(edges, p, n, d, EndOfTime)
  <2>1. IsEdge(new) /\ new.from = d
    BY HierarchyAssumption DEF NewEdge, IsEdge, Days
  <2> HIDE DEF new
  <2>2. Edged({new}) /\ \A e \in {new} : e.from >= d
    BY <2>1 DEF Edged, Days
  <2>3. Edged(edges \cup {new}) /\ SameBefore(edges, edges \cup {new}, d)
    BY <2>2, AddedLater DEF Edged
  <2>4. PICK raised, ss : InOrder(d) /\ Transact(raised, edges \cup {new}, ss)
    BY <1>1 DEF CreateNode, new
  <2> HIDE DEF Goal
  <2> QED BY <2>3, <2>4, CommittedLater DEF Goal
<1>2. ASSUME NEW n, NEW p, NEW d \in Days, MoveNode(n, p, d) \/ CorrectMoveNode(n, p, d) PROVE Goal
  <2>1. PICK ss : Transact(Regraft(n, p, d).raised, Regraft(n, p, d).edges, ss)
    BY <1>2 DEF MoveNode, CorrectMoveNode
  <2>2. InOrder(d) /\ ExistsAt(edges, n, d)
    BY <1>2 DEF MoveNode, CorrectMoveNode, MayMove
  <2>3. Edged(Regraft(n, p, d).edges) /\ SameBefore(edges, Regraft(n, p, d).edges, d)
    BY <2>2, RegraftLater
  <2> HIDE DEF Goal
  <2> QED BY <2>1, <2>2, <2>3, CommittedLater DEF Goal
<1>3. ASSUME NEW n, NEW d \in Days, RescindNode(n, d) PROVE Goal
  <2> DEFINE later == {r \in edges : r.node = n /\ r.to >= d}
  <2>1. PICK ss : InOrder(d) /\ Transact(FALSE, Cut(edges, later, d), ss)
    BY <1>3 DEF RescindNode
  <2>2. Edged(Cut(edges, later, d)) /\ SameBefore(edges, Cut(edges, later, d), d)
    BY CutLater
  <2> HIDE DEF Goal, later
  <2> QED BY <2>1, <2>2, CommittedLater DEF Goal
<1>4. ASSUME NEW n, NEW d \in Days,
             UpdateNode(n, d) \/ (\E start \in Days : ShiftBoundaryNode(n, start, d)) \/ DeleteNodeSliceAndStitch(n, d)
      PROVE  Goal
  <2>1. PICK ss : InOrder(d) /\ Transact(FALSE, edges, ss)
    BY <1>4 DEF UpdateNode, ShiftBoundaryNode, DeleteNodeSliceAndStitch
  <2> HIDE DEF Goal
  <2> QED BY <1>0, <2>1, CommittedLater DEF Goal
<1>5. ASSUME NEW n, NEW d \in Days, DeleteEdgeSliceAndStitch(n, d) PROVE Goal
  <2>1. PICK target \in edges, prev \in edges :
            /\ target.from = d /\ prev.to = d - 1
            /\ LET stitched == (edges \ {target, prev}) \cup {[prev EXCEPT !.to = target.to]}
               IN  Transact(FALSE, Rewritten(stitched, d, target.path, prev.path), slices)
    BY <1>5 DEF DeleteEdgeSliceAndStitch
  <2>2. InOrder(d)
    BY <1>5 DEF DeleteEdgeSliceAndStitch
  <2> DEFINE stitched == (edges \ {target, prev}) \cup {[prev EXCEPT !.to = target.to]}
             after    == Rewritten(stitched, d, target.path, prev.path)
  <2>3. Edged(stitched) /\ SameBefore(edges, stitched, d)
    BY <2>1, StitchedLater
  <2>4. Transact(FALSE, after, slices)
    BY <2>1
  <2> HIDE DEF stitched
  <2>5. Edged(after) /\ SameBefore(stitched, after, d)
    BY <2>3, RewrittenLater
  <2> HIDE DEF after, Goal
  <2>6. SameBefore(edges, after, d)
    BY <2>3, <2>5, SameBoth
  <2> QED BY <2>2, <2>4, <2>5, <2>6, CommittedLater DEF Goal
<1>6. CASE UNCHANGED vars
  BY <1>6 DEF vars, HistoryInv, Edged, IsEdge, TreeOn
<1> QED BY <1>1, <1>2, <1>3, <1>4, <1>5, <1>6 DEF Next

\* In date order the tree of a day before the newest edge is never changed again, by any
\* operation, for any number of units and days.
THEOREM HistoryStands ==
    ASSUME "date_order" \in Discipline
    PROVE  Spec => HistoryUnchanged
<1>1. Init => HistoryInv
  BY DEF Init, HistoryInv, Edged
<1>2. HistoryInv /\ [Next]_vars => HistoryInv'
  BY HistoryStep
<1>3. HistoryInv /\ [Next]_vars
          => [\A d \in Days : (\E e \in edges : d < e.from) => TreeOn(edges', d) = TreeOn(edges, d)]_vars
  BY HistoryStep
<1> QED BY <1>1, <1>2, <1>3, PTL DEF Spec, HistoryUnchanged

-----------------------------------------------------------------------------
(* Hints: in date order every row of a later day is in force on the day of the operation *)

\* Every row of after has its parent from a row of es of the same node and day.
SameParents(es, after) ==
    \A f \in after, x \in Days : Covers(f, x) =>
        \E e \in es : Covers(e, x) /\ e.node = f.node /\ e.parent = f.parent

\* From day d on node n has the parent p (the hint p); all else is as it was.
FromEdges(es, n, d, p) ==
    \A f \in es, x \in Days : Covers(f, x) =>
        \/ f.node = n /\ x >= d /\ f.parent = p
        \/ /\ ~(f.node = n /\ x >= d)
           /\ \E e \in edges : Covers(e, x) /\ e.node = f.node /\ e.parent = f.parent

FromSlices(ss, n, d, p) ==
    \A f \in ss, x \in Days : Covers(f, x) =>
        \/ f.node = n /\ x >= d /\ f.hint = p
        \/ /\ ~(f.node = n /\ x >= d)
           /\ \E s \in slices : Covers(s, x) /\ s.node = f.node /\ s.hint = f.hint

HintsAgree(es, ss) ==
    \A s \in ss, e \in es, x \in Days : s.node = e.node /\ Covers(s, x) /\ Covers(e, x) => s.hint = e.parent

HintInv ==
    /\ Edged(edges) /\ NoOverlap(edges) /\ \A e \in edges : e.node \in nodes
    /\ SlicesOK(slices)
    /\ HintMatchesEdge

LEMMA HintsAfter ==
    ASSUME HintMatchesEdge, NEW es, NEW ss, NEW n, NEW d, NEW p, FromEdges(es, n, d, p), FromSlices(ss, n, d, p)
    PROVE  HintsAgree(es, ss)
<1> SUFFICES ASSUME NEW s \in ss, NEW e \in es, NEW x \in Days, s.node = e.node, Covers(s, x), Covers(e, x)
             PROVE  s.hint = e.parent
  BY DEF HintsAgree
<1>1. CASE e.node = n /\ x >= d
  BY <1>1 DEF FromEdges, FromSlices
<1>2. CASE ~(e.node = n /\ x >= d)
  <2>1. PICK g \in edges : Covers(g, x) /\ g.node = e.node /\ g.parent = e.parent
    BY <1>2 DEF FromEdges
  <2>2. PICK r \in slices : Covers(r, x) /\ r.node = s.node /\ r.hint = s.hint
    BY <1>2 DEF FromSlices
  <2> QED BY <2>1, <2>2 DEF HintMatchesEdge
<1> QED BY <1>1, <1>2

LEMMA CutParents ==
    ASSUME NEW es, Edged(es), NEW these \in SUBSET es, NEW d \in Days, \A e \in these : e.to >= d
    PROVE  SameParents(es, Cut(es, these, d))
<1> USE HierarchyAssumption
<1> DEFINE first(e) == [node |-> e.node, parent |-> e.parent, from |-> e.from, to |-> d - 1, path |-> e.path]
           cut(e)   == [e EXCEPT !.to = d - 1]
           after    == Cut(es, these, d)
<1>1. \A e \in these : cut(e) = first(e)
  BY EdgeExcept DEF Edged
<1>2. after = (es \ these) \cup {cut(e) : e \in {x \in these : x.from < d}}
  BY DEF Cut
<1> HIDE DEF cut, after
<1>3. \A e \in these, x \in Days :
          first(e).node = e.node /\ first(e).parent = e.parent /\ (Covers(first(e), x) => Covers(e, x))
  BY DEF Edged, IsEdge, Covers, Days
<1> HIDE DEF first
<1>4. \A f \in after : f \in es \/ \E e \in these : f = first(e)
  BY <1>1, <1>2
<1> QED BY <1>3, <1>4 DEF SameParents, after

LEMMA ReslicedParents ==
    ASSUME NEW es, Edged(es), NEW tree \in SUBSET es, NEW d \in Days, \A e \in tree : Covers(e, d)
    PROVE  SameParents(es, Resliced(es, tree, d))
<1> USE HierarchyAssumption
<1>1. PICK path : Resliced(es, tree, d)
                      = Cut(es, tree, d) \cup {[e EXCEPT !.from = d, !.path = path[e.node]] : e \in tree}
  BY ReslicedIs
<1> DEFINE rest(e) == [node |-> e.node, parent |-> e.parent, from |-> d, to |-> e.to, path |-> path[e.node]]
           cont(e) == [e EXCEPT !.from = d, !.path = path[e.node]]
<1>2. \A e \in tree : cont(e) = rest(e)
  BY EdgeRestExcept DEF Edged
<1>3. \A e \in tree, x \in Days :
          rest(e).node = e.node /\ rest(e).parent = e.parent /\ (Covers(rest(e), x) => Covers(e, x))
  BY DEF Edged, IsEdge, Covers, Days
<1> HIDE DEF cont, rest
<1>4. \A f \in Resliced(es, tree, d) : f \in Cut(es, tree, d) \/ \E e \in tree : f = cont(e)
  BY <1>1 DEF cont
<1>5. SameParents(es, Cut(es, tree, d))
  <2>1. \A e \in tree : e.to >= d
    BY DEF Covers, Edged, IsEdge, Days
  <2> QED BY <2>1, CutParents
<1> QED BY <1>2, <1>3, <1>4, <1>5 DEF SameParents

LEMMA RewrittenParents ==
    ASSUME NEW es, Edged(es), NEW d, NEW old, NEW new
    PROVE  SameParents(es, Rewritten(es, d, old, new))
<1> DEFINE below(e) == e.from >= d /\ InSubtree(e.path, old) /\ Len(e.path) > Len(old)
           path(e)  == new \o SubSeq(e.path, Len(old) + 1, Len(e.path))
           image(e) == IF below(e) THEN [e EXCEPT !.path = path(e)] ELSE e
           after    == Rewritten(es, d, old, new)
<1>1. after = {image(e) : e \in es}
  BY DEF Rewritten
<1> HIDE DEF after, below, path
<1>2. ASSUME NEW e \in es
      PROVE  /\ image(e).node = e.node /\ image(e).parent = e.parent
             /\ \A x \in Days : Covers(image(e), x) => Covers(e, x)
  <2> DEFINE rec == [node |-> e.node, parent |-> e.parent, from |-> e.from, to |-> e.to, path |-> path(e)]
  <2>1. [e EXCEPT !.path = path(e)] = rec
    BY EdgePathExcept DEF Edged
  <2>2. rec.node = e.node /\ rec.parent = e.parent /\ rec.from = e.from /\ rec.to = e.to
    OBVIOUS
  <2> HIDE DEF rec
  <2> QED BY <2>1, <2>2 DEF Covers
<1> HIDE DEF image
<1> QED BY <1>1, <1>2 DEF SameParents, after

\* A move leaves the moved node with its new parent from d on.
LEMMA RegraftParents ==
    ASSUME Edged(edges), NoOverlap(edges), NEW n, NEW p, NEW d \in Days, ExistsAt(edges, n, d),
           \A e \in edges : e.from <= d, ~Regraft(n, p, d).raised
    PROVE  FromEdges(Regraft(n, p, d).edges, n, d, p)
<1> USE HierarchyAssumption
<1> DEFINE moved   == RowAt(edges, n, d)
           below   == Subtree(moved.path, d) \ {moved}
           cut     == Cut(edges, {moved}, d)
           new     == NewEdge(cut, p, n, d, moved.to)
           grafted == cut \cup {new}
           resliced == Resliced(grafted, below, d)
           raised  == TriggerRaises(cut, p, n, d) \/ \E e \in below : TriggerRaises(Cut(grafted, {e}, d), e.parent, e.node, d)
           after   == Rewritten(resliced, d, moved.path, new.path)
<1>1. moved \in edges /\ moved.node = n /\ Covers(moved, d) /\ IsEdge(moved)
  BY RowAtIs DEF Edged
<1>2. below \in SUBSET edges /\ moved \notin below /\ \A e \in below : Covers(e, d)
  BY DEF Subtree
<1>3. Regraft(n, p, d).raised = raised /\ Regraft(n, p, d).edges = IF raised THEN edges ELSE after
  BY DEF Regraft
<1>4. IsEdge(new) /\ new.from = d /\ new.node = n /\ new.parent = p
  <2> DEFINE path == new.path
  <2>1. new = [node |-> n, parent |-> p, from |-> d, to |-> moved.to, path |-> path]
    BY DEF NewEdge
  <2> HIDE DEF new, path
  <2> QED BY <1>1, <2>1 DEF IsEdge
<1> HIDE DEF moved, below, new, raised
<1>5. ASSUME NEW e \in edges, e.node = n, e # moved, NEW x \in Days, Covers(e, x) PROVE x < d
  <2>1. ~Covers(e, d)
    BY <1>1, <1>5 DEF NoOverlap, Covers, Edged, IsEdge, Days
  <2> QED BY <1>5, <2>1 DEF Covers, Edged, IsEdge, Days
<1>6. Edged(cut) /\ SameParents(edges, cut)
  <2>1. moved.to >= d
    BY <1>1 DEF Covers, IsEdge, Days
  <2> QED BY <1>1, <2>1, CutLater, CutParents
<1>7. \A f \in cut : f \in edges \ {moved} \/ f.to = d - 1
  <2> DEFINE first == [node |-> moved.node, parent |-> moved.parent, from |-> moved.from, to |-> d - 1, path |-> moved.path]
  <2>1. [moved EXCEPT !.to = d - 1] = first
    BY <1>1, EdgeExcept
  <2>2. first.to = d - 1
    OBVIOUS
  <2> HIDE DEF first
  <2> QED BY <2>1, <2>2 DEF Cut
<1>8. below \in SUBSET grafted
  BY <1>2 DEF Cut
<1> HIDE DEF cut
<1>9. ASSUME NEW f \in cut, NEW x \in Days, Covers(f, x) PROVE ~(f.node = n /\ x >= d)
  BY <1>5, <1>7, <1>9 DEF Covers, Edged, IsEdge, Days
<1>10. FromEdges(grafted, n, d, p)
  <2>1. ASSUME NEW x \in Days, Covers(new, x) PROVE x >= d
    BY <1>4, <2>1 DEF Covers, IsEdge, Days
  <2> QED BY <1>4, <1>6, <1>9, <2>1 DEF FromEdges, SameParents
<1>11. Edged(grafted)
  BY <1>4, <1>6 DEF Edged
<1> HIDE DEF grafted
<1>12. Edged(resliced) /\ SameParents(grafted, resliced)
  BY <1>2, <1>8, <1>11, ReslicedLater, ReslicedParents
<1> HIDE DEF resliced
<1>13. SameParents(resliced, after)
  BY <1>12, RewrittenParents
<1> HIDE DEF after
<1>14. SameParents(grafted, after)
  BY <1>12, <1>13 DEF SameParents
<1>15. FromEdges(after, n, d, p)
  <2> SUFFICES ASSUME NEW f \in after, NEW x \in Days, Covers(f, x)
               PROVE  \/ f.node = n /\ x >= d /\ f.parent = p
                      \/ /\ ~(f.node = n /\ x >= d)
                         /\ \E e \in edges : Covers(e, x) /\ e.node = f.node /\ e.parent = f.parent
    BY DEF FromEdges
  <2>1. PICK g \in grafted : Covers(g, x) /\ g.node = f.node /\ g.parent = f.parent
    BY <1>14 DEF SameParents
  <2> QED BY <1>10, <2>1 DEF FromEdges
<1> QED BY <1>3, <1>15

\* A split leaves the node with the hint h from d on.
LEMMA SplitHints ==
    ASSUME SlicesOK(slices), NEW s \in slices, NEW d \in Days, NEW h, Covers(s, d),
           \A r \in slices : r.from <= d
    PROVE  FromSlices(Split(s, h, d), s.node, d, h)
<1> USE HierarchyAssumption
<1> DEFINE after == Split(s, h, d)
           first == [node |-> s.node, hint |-> s.hint, from |-> s.from, to |-> d - 1]
           rest  == [node |-> s.node, hint |-> h, from |-> d, to |-> s.to]
<1>1. SliceRow(s)
  BY DEF SlicesOK
<1>2. [s EXCEPT !.to = d - 1] = first /\ [s EXCEPT !.from = d, !.hint = h] = rest
  <2>1. [s EXCEPT !.to = d - 1] = first
    BY <1>1, SliceExcept
  <2>2. [s EXCEPT !.from = d, !.hint = h] = rest
    BY <1>1, SliceRestExcept
  <2> QED BY <2>1, <2>2
<1>3. \A f \in after : f \in slices \ {s} \/ f = first \/ f = rest
  BY <1>2 DEF Split, Cut
<1>4. ASSUME NEW x \in Days, NEW r \in slices, r # s, r.node = s.node, Covers(r, x) PROVE x < d
  <2>1. ~Covers(r, d)
    BY <1>4 DEF SlicesOK, SliceRow, Valid, NoOverlap, Covers, Days
  <2> QED BY <1>4, <2>1 DEF SlicesOK, SliceRow, Covers, Days
<1>5. \A x \in Days : Covers(first, x) => x < d /\ Covers(s, x)
  BY <1>1 DEF SliceRow, Covers, Days
<1>6. \A x \in Days : Covers(rest, x) => x >= d
  BY <1>1 DEF SliceRow, Covers, Days
<1>7. first.node = s.node /\ first.hint = s.hint /\ rest.node = s.node /\ rest.hint = h
  OBVIOUS
<1> HIDE DEF after, first, rest
<1> SUFFICES ASSUME NEW f \in after, NEW x \in Days, Covers(f, x)
             PROVE  \/ f.node = s.node /\ x >= d /\ f.hint = h
                    \/ /\ ~(f.node = s.node /\ x >= d)
                       /\ \E r \in slices : Covers(r, x) /\ r.node = f.node /\ r.hint = f.hint
  BY DEF FromSlices, after
<1>8. CASE f \in slices \ {s}
  <2>1. ~(f.node = s.node /\ x >= d)
    BY <1>4, <1>8 DEF Days
  <2> QED BY <1>8, <2>1
<1>9. CASE f = first
  BY <1>5, <1>7, <1>9 DEF Days
<1>10. CASE f = rest
  BY <1>6, <1>7, <1>10
<1> QED BY <1>3, <1>8, <1>9, <1>10

\* No slice of the node is in force from d on, or the node keeps its hint.
LEMMA SameHints ==
    ASSUME NEW n, NEW d, NEW p,
           \A s \in slices, x \in Days : s.node = n /\ x >= d /\ Covers(s, x) => s.hint = p
    PROVE  FromSlices(slices, n, d, p)
BY DEF FromSlices

LEMMA CommittedHints ==
    ASSUME HintInv, NEW raised, NEW es, NEW ss, Transact(raised, es, ss), UNCHANGED nodes,
           NEW n \in nodes, NEW d, NEW p,
           raised \/ (Edged(es) /\ FromEdges(es, n, d, p) /\ SlicesOK(ss) /\ FromSlices(ss, n, d, p))
    PROVE  HintInv'
<1>1. CASE UNCHANGED <<edges, slices>>
  BY <1>1 DEF HintInv, Edged, IsEdge, NoOverlap, SlicesOK, SliceRow, Valid, GapFree, HintMatchesEdge
<1>2. CASE /\ edges' = es /\ slices' = ss /\ Valid(es)
           /\ Edged(es) /\ FromEdges(es, n, d, p) /\ SlicesOK(ss) /\ FromSlices(ss, n, d, p)
  <2>1. HintsAgree(es, ss)
    BY <1>2, HintsAfter DEF HintInv
  <2>2. ASSUME NEW e \in es PROVE e.node \in nodes
    <3>1. e.from \in Days /\ Covers(e, e.from)
      BY <1>2, HierarchyAssumption DEF Edged, IsEdge, Valid, Covers, Days
    <3> QED BY <1>2, <3>1 DEF FromEdges, HintInv
  <2>3. SlicesOK(slices)'
    BY <1>2 DEF SlicesOK, SliceRow, Valid, NoOverlap, GapFree
  <2>4. Edged(edges)' /\ NoOverlap(edges)' /\ (\A e \in edges : e.node \in nodes)'
    BY <1>2, <2>2 DEF Edged, IsEdge, Valid, NoOverlap
  <2>5. HintMatchesEdge'
    BY <1>2, <2>1 DEF HintsAgree, HintMatchesEdge
  <2> QED BY <2>3, <2>4, <2>5 DEF HintInv
<1> QED BY <1>1, <1>2 DEF Transact

LEMMA CreateHints ==
    ASSUME HintInv, NEW n \in Nodes, NEW p, NEW d \in Days, CreateNode(n, p, d)
    PROVE  HintInv'
<1> USE HierarchyAssumption
<1> DEFINE edge  == NewEdge(edges, p, n, d, EndOfTime)
           slice == [node |-> n, hint |-> p, from |-> d, to |-> EndOfTime]
           es    == edges \cup {edge}
           ss    == slices \cup {slice}
<1>1. n \notin nodes /\ nodes' = nodes \cup {n}
  BY DEF CreateNode
<1>2. PICK raised : Transact(raised, es, ss)
  BY DEF CreateNode
<1>3. (\A e \in edges : e.node # n) /\ (\A s \in slices : s.node # n)
  BY <1>1 DEF HintInv, SlicesOK, SliceRow
<1>4. IsEdge(edge) /\ edge.node = n /\ edge.parent = p /\ edge.from = d
  BY DEF NewEdge, IsEdge, Days
<1>5. /\ slice = [node |-> slice.node, hint |-> slice.hint, from |-> slice.from, to |-> slice.to]
      /\ slice.node = n /\ slice.hint = p /\ slice.from = d /\ slice.to \in Days
  BY DEF Days
<1> HIDE DEF edge, slice
<1>6. FromEdges(es, n, d, p)
  BY <1>3, <1>4 DEF FromEdges, Covers
<1>7. FromSlices(ss, n, d, p)
  BY <1>3, <1>5 DEF FromSlices, Covers
<1>8. HintsAgree(es, ss)
  BY <1>6, <1>7, HintsAfter DEF HintInv
<1>9. CASE UNCHANGED <<edges, slices>>
  BY <1>1, <1>9 DEF HintInv, Edged, IsEdge, NoOverlap, SlicesOK, SliceRow, Valid, GapFree, HintMatchesEdge
<1>10. CASE edges' = es /\ slices' = ss /\ Valid(es) /\ Valid(ss)
  <2>1. Edged(es) /\ \A e \in es : e.node \in nodes'
    BY <1>1, <1>4 DEF HintInv, Edged
  <2>2. Edged(edges)' /\ NoOverlap(edges)' /\ (\A e \in edges : e.node \in nodes)'
    BY <1>10, <2>1 DEF Edged, IsEdge, Valid, NoOverlap
  <2>3. \A s \in ss : SliceRow(s)'
    BY <1>1, <1>5 DEF HintInv, SlicesOK, SliceRow
  <2>4. SlicesOK(slices)'
    BY <1>10, <2>3 DEF SlicesOK, SliceRow, Valid, NoOverlap, GapFree
  <2>5. HintMatchesEdge'
    BY <1>8, <1>10 DEF HintsAgree, HintMatchesEdge
  <2> QED BY <2>2, <2>4, <2>5 DEF HintInv
<1> QED BY <1>2, <1>9, <1>10 DEF Transact

\* What a cut leaves: the other rows, and rows that end before d.
LEMMA CutRows ==
    ASSUME NEW es, Edged(es), NEW these \in SUBSET es, NEW d
    PROVE  /\ \A f \in es \ these : f \in Cut(es, these, d)
           /\ \A f \in Cut(es, these, d) :
                  \/ f \in es \ these
                  \/ f.from < d /\ f.to = d - 1 /\ \E e \in these : f.node = e.node
<1> DEFINE cut(e) == [e EXCEPT !.to = d - 1]
<1>1. ASSUME NEW e \in these PROVE cut(e).node = e.node /\ cut(e).from = e.from /\ cut(e).to = d - 1
  <2>1. cut(e) = [node |-> e.node, parent |-> e.parent, from |-> e.from, to |-> d - 1, path |-> e.path]
    BY EdgeExcept DEF Edged
  <2> QED BY <2>1
<1>2. Cut(es, these, d) = (es \ these) \cup {cut(e) : e \in {x \in these : x.from < d}}
  BY DEF Cut
<1> HIDE DEF cut
<1>3. ASSUME NEW e \in these, e.from < d, NEW f, f = cut(e)
      PROVE  f.from < d /\ f.to = d - 1 /\ \E x \in these : f.node = x.node
  BY <1>1, <1>3
<1> QED BY <1>2, <1>3

\* A closed slice differs in its days.
LEMMA SliceDaysExcept ==
    ASSUME NEW s, SliceRow(s), NEW d, NEW c
    PROVE  [s EXCEPT !.from = d, !.to = c] = [node |-> s.node, hint |-> s.hint, from |-> d, to |-> c]
<1> DEFINE Rec(n, x, f, t) == [node |-> n, hint |-> x, from |-> f, to |-> t]
           m == [s EXCEPT !.from = d]
<1>1. \A n, x, f, t : [Rec(n, x, f, t) EXCEPT !.to = c] = Rec(n, x, f, c)
  OBVIOUS
<1>2. [s EXCEPT !.from = d, !.to = c] = [m EXCEPT !.to = c]
  OBVIOUS
<1>3. m = Rec(s.node, s.hint, d, s.to)
  BY SliceFromExcept
<1> HIDE DEF Rec, m
<1>4. [m EXCEPT !.to = c] = Rec(s.node, s.hint, d, c)
  BY <1>1, <1>3
<1> QED BY <1>2, <1>4 DEF Rec

\* RescindNode: from d on the node has no edge, and the hint of its last slice.
LEMMA RescindHints ==
    ASSUME HintInv, "date_order" \in Discipline, NEW n \in Nodes, NEW d \in Days, RescindNode(n, d)
    PROVE  HintInv'
<1> USE HierarchyAssumption
<1> DEFINE laterE == {r \in edges : r.node = n /\ r.to >= d}
           laterS == {r \in slices : r.node = n /\ r.to >= d}
           es     == Cut(edges, laterE, d)
           closed(s) == [node |-> s.node, hint |-> s.hint, from |-> d, to |-> EndOfTime]
           first(s)  == [node |-> s.node, hint |-> s.hint, from |-> s.from, to |-> d - 1]
<1>1. PICK s \in slices : /\ s.node = n /\ Covers(s, d)
                          /\ Transact(FALSE, es, Cut(slices, laterS, d) \cup {[s EXCEPT !.from = d, !.to = EndOfTime]})
  BY DEF RescindNode
<1>2. InOrder(d) /\ UNCHANGED nodes
  BY DEF RescindNode
<1>3. (\A r \in slices : SliceRow(r)) /\ Edged(edges) /\ n \in nodes
  BY <1>1 DEF HintInv, SlicesOK, SliceRow
<1>4. Edged(es) /\ SameParents(edges, es)
  <2>1. laterE \in SUBSET edges /\ \A e \in laterE : e.to >= d
    OBVIOUS
  <2>2. Edged(es)
    BY <1>3, CutLater
  <2> HIDE DEF laterE
  <2> QED BY <1>3, <2>1, <2>2, CutParents
<1> DEFINE ss == (slices \ laterS) \cup {first(r) : r \in {x \in laterS : x.from < d}} \cup {closed(s)}
<1>5. Cut(slices, laterS, d) \cup {[s EXCEPT !.from = d, !.to = EndOfTime]} = ss
  <2> DEFINE cut(r) == [r EXCEPT !.to = d - 1]
  <2>1. \A r \in laterS : cut(r) = first(r)
    BY <1>3, SliceExcept
  <2>2. [s EXCEPT !.from = d, !.to = EndOfTime] = closed(s)
    BY <1>3, SliceDaysExcept
  <2>3. Cut(slices, laterS, d) = (slices \ laterS) \cup {cut(r) : r \in {x \in laterS : x.from < d}}
    BY DEF Cut
  <2> HIDE DEF cut, first, closed, laterS
  <2> QED BY <2>1, <2>2, <2>3
<1>6. ASSUME NEW f \in es, NEW x \in Days, Covers(f, x), f.node = n PROVE x < d
  <2>1. \A e \in edges \ laterE : e.node = n => e.to < d
    BY <1>3 DEF Edged, IsEdge, Days
  <2>2. \/ f \in edges \ laterE
        \/ f.from < d /\ f.to = d - 1 /\ \E e \in laterE : f.node = e.node
    BY <1>3, CutRows
  <2>3. f.to \in Int /\ x \in Int /\ d \in Int
    BY <1>4 DEF Edged, IsEdge, Days
  <2> HIDE DEF es, laterE
  <2> QED BY <1>6, <2>1, <2>2, <2>3 DEF Covers
<1>7. FromEdges(es, n, d, s.hint)
  <2> HIDE DEF es
  <2>1. \A f \in es, x \in Days : Covers(f, x) /\ f.node = n => ~(x >= d)
    BY <1>6 DEF Days
  <2> QED BY <1>4, <2>1 DEF FromEdges, SameParents
<1>8. \A r \in laterS : SliceRow(r) /\ r.node = n
  BY <1>3
<1>9. \A r \in ss : SliceRow(r)
  <2>1. \A r \in laterS : r.from < d => SliceRow(first(r))
    BY <1>3 DEF SliceRow, Days
  <2>2. SliceRow(closed(s))
    BY <1>3 DEF SliceRow, Days
  <2> HIDE DEF first, closed, laterS
  <2> QED BY <1>3, <2>1, <2>2
<1>10. FromSlices(ss, n, d, s.hint)
  <2>1. ASSUME NEW f \in slices \ laterS, NEW x \in Days, Covers(f, x) PROVE ~(f.node = n /\ x >= d)
    BY <1>3, <2>1 DEF SliceRow, Covers, Days
  <2>2. ASSUME NEW r \in laterS, NEW x \in Days, Covers(first(r), x)
        PROVE  x < d /\ Covers(r, x) /\ first(r).node = r.node /\ first(r).hint = r.hint
    BY <1>8, <2>2 DEF SliceRow, Covers, Days
  <2>3. ASSUME NEW x \in Days, Covers(closed(s), x)
        PROVE  x >= d /\ closed(s).node = n /\ closed(s).hint = s.hint
    BY <1>1, <2>3 DEF Covers, Days
  <2>4. laterS \subseteq slices
    OBVIOUS
  <2> HIDE DEF first, closed, laterS
  <2> SUFFICES ASSUME NEW f \in ss, NEW x \in Days, Covers(f, x)
               PROVE  \/ f.node = n /\ x >= d /\ f.hint = s.hint
                      \/ /\ ~(f.node = n /\ x >= d)
                         /\ \E r \in slices : Covers(r, x) /\ r.node = f.node /\ r.hint = f.hint
    BY DEF FromSlices
  <2>5. CASE f \in slices \ laterS
    BY <2>1, <2>5
  <2>6. ASSUME NEW r \in laterS, f = first(r) PROVE ~(x >= d) /\ \E q \in slices : Covers(q, x) /\ q.node = f.node /\ q.hint = f.hint
    <3>1. x < d /\ Covers(r, x) /\ f.node = r.node /\ f.hint = r.hint
      BY <2>2, <2>6
    <3> QED BY <2>4, <3>1 DEF Days
  <2>7. CASE f = closed(s)
    BY <2>3, <2>7
  <2> QED BY <2>5, <2>6, <2>7
<1> HIDE DEF es
<1>11. Transact(FALSE, es, ss)
  BY <1>1, <1>5
<1> HIDE DEF ss
<1>12. CASE Valid(ss)
  <2>1. SlicesOK(ss)
    BY <1>9, <1>12 DEF SlicesOK
  <2> QED BY <1>2, <1>3, <1>4, <1>7, <1>10, <1>11, <2>1, CommittedHints
<1>13. CASE ~Valid(ss)
  <2>1. UNCHANGED <<nodes, edges, slices>>
    BY <1>2, <1>11, <1>13 DEF Transact
  <2> QED BY <2>1 DEF HintInv, Edged, IsEdge, NoOverlap, SlicesOK, SliceRow, Valid, GapFree, HintMatchesEdge
<1> QED BY <1>12, <1>13

LEMMA HintStep ==
    ASSUME HintInv, "date_order" \in Discipline,
           Ops \subseteq {"create", "update", "move", "correct_move", "rescind"}, [Next]_vars
    PROVE  HintInv'
<1> Edged(edges) /\ NoOverlap(edges) /\ SlicesOK(slices)
  BY DEF HintInv
<1>1. ASSUME NEW n \in Nodes, NEW p \in Parents, NEW d \in Days, CreateNode(n, p, d) PROVE HintInv'
  BY <1>1, CreateHints
<1>2. ASSUME NEW n, NEW d \in Days, UpdateNode(n, d) PROVE HintInv'
  <2>1. PICK s \in slices : s.node = n /\ Covers(s, d) /\ Transact(FALSE, edges, Split(s, s.hint, d))
    BY <1>2 DEF UpdateNode
  <2>2. InOrder(d) /\ UNCHANGED nodes
    BY <1>2 DEF UpdateNode
  <2>3. SlicesOK(Split(s, s.hint, d)) /\ FromSlices(Split(s, s.hint, d), n, d, s.hint)
    BY <2>1, <2>2, SplitOK, SplitHints DEF InOrder
  <2>4. ASSUME NEW e \in edges, e.node = n, NEW x \in Days, x >= d, Covers(e, x) PROVE e.parent = s.hint
    <3>1. Covers(e, d)
      BY <2>2, <2>4, HierarchyAssumption DEF InOrder, Covers, Edged, IsEdge, Days
    <3> QED BY <2>1, <2>4, <3>1 DEF HintInv, HintMatchesEdge
  <2>5. FromEdges(edges, n, d, s.hint)
    BY <2>4 DEF FromEdges
  <2>6. n \in nodes
    BY <2>1 DEF SlicesOK, SliceRow
  <2> QED BY <2>1, <2>2, <2>3, <2>5, <2>6, CommittedHints
<1>3. ASSUME NEW n \in Nodes, NEW p \in Nodes, NEW d \in Days, MoveNode(n, p, d) \/ CorrectMoveNode(n, p, d)
      PROVE  HintInv'
  <2> DEFINE g == Regraft(n, p, d)
  <2>1. InOrder(d) /\ ExistsAt(edges, n, d) /\ UNCHANGED nodes
    BY <1>3 DEF MoveNode, CorrectMoveNode, MayMove
  <2>2. PICK ss : Transact(g.raised, g.edges, ss)
                  /\ \/ \E s \in slices : s.node = n /\ Covers(s, d) /\ ss = Split(s, p, d)
                     \/ ~ExistsAt(slices, n, d) /\ ss = slices
    <3>1. CASE MoveNode(n, p, d)
      BY <3>1 DEF MoveNode
    <3>2. CASE CorrectMoveNode(n, p, d)
      BY <3>2, RowAtIs DEF CorrectMoveNode
    <3> QED BY <1>3, <3>1, <3>2
  <2>3. SlicesOK(ss) /\ FromSlices(ss, n, d, p)
    <3>1. CASE \E s \in slices : s.node = n /\ Covers(s, d) /\ ss = Split(s, p, d)
      BY <2>1, <3>1, SplitOK, SplitHints DEF InOrder
    <3>2. CASE ~ExistsAt(slices, n, d) /\ ss = slices
      <4>1. ASSUME NEW s \in slices, NEW x \in Days, s.node = n, x >= d, Covers(s, x) PROVE FALSE
        <5>1. Covers(s, d)
          BY <2>1, <4>1, HierarchyAssumption DEF InOrder, Covers, SlicesOK, SliceRow, Days
        <5> QED BY <3>2, <4>1, <5>1 DEF ExistsAt
      <4> QED BY <3>2, <4>1, SameHints
    <3> QED BY <2>2, <3>1, <3>2
  <2>4. g.raised \/ (Edged(g.edges) /\ FromEdges(g.edges, n, d, p))
    BY <2>1, RegraftLater, RegraftParents DEF InOrder
  <2>5. n \in nodes
    BY <2>1 DEF ExistsAt, HintInv
  <2> HIDE DEF g
  <2> QED BY <2>1, <2>2, <2>3, <2>4, <2>5, CommittedHints
<1>4. CASE UNCHANGED vars
  BY <1>4 DEF vars, HintInv, Edged, IsEdge, NoOverlap, SlicesOK, SliceRow, Valid, GapFree, HintMatchesEdge
<1>5. ASSUME NEW n \in Nodes, NEW d \in Days, RescindNode(n, d) PROVE HintInv'
  BY <1>5, RescindHints
<1>6. ASSUME NEW n \in Nodes, NEW d \in Days
      PROVE  /\ ~DeleteNodeSliceAndStitch(n, d) /\ ~DeleteEdgeSliceAndStitch(n, d)
             /\ \A start \in Days : ~ShiftBoundaryNode(n, start, d)
  BY DEF DeleteNodeSliceAndStitch, DeleteEdgeSliceAndStitch, ShiftBoundaryNode
<1> QED BY <1>1, <1>2, <1>3, <1>4, <1>5, <1>6 DEF Next

\* In date order, as long as units are created, updated, moved and rescinded only, the hint
\* of a slice is the parent of the edge on every day that both cover, for any number of units
\* and days.
THEOREM HintsStayRight ==
    ASSUME "date_order" \in Discipline,
           Ops \subseteq {"create", "update", "move", "correct_move", "rescind"}
    PROVE  Spec => []HintMatchesEdge
<1>1. Init => HintInv
  BY DEF Init, HintInv, Edged, NoOverlap, SlicesOK, Valid, GapFree, HintMatchesEdge
<1>2. HintInv /\ [Next]_vars => HintInv'
  BY HintStep
<1>3. HintInv => HintMatchesEdge
  BY DEF HintInv
<1> QED BY <1>1, <1>2, <1>3, PTL DEF Spec

-----------------------------------------------------------------------------
(* Paths: units from the root down *)

\* A path lies below another when it goes through the same units first.
LEMMA PrefixIs ==
    ASSUME NEW s \in Seq(Nodes), NEW t \in Seq(Nodes)
    PROVE  InSubtree(t, s) <=> Len(s) <= Len(t) /\ \A i \in 1..Len(s) : s[i] = t[i]
<1>1. SubSeq(s, 1, Len(s)) = s
  OBVIOUS
<1>2. ASSUME Len(s) <= Len(t)
      PROVE  /\ SubSeq(t, 1, Len(s)) \in Seq(Nodes) /\ Len(SubSeq(t, 1, Len(s))) = Len(s)
             /\ \A i \in 1..Len(s) : SubSeq(t, 1, Len(s))[i] = t[i]
  BY <1>2
<1>3. ASSUME Len(s) <= Len(t), \A i \in 1..Len(s) : s[i] = t[i] PROVE s = SubSeq(t, 1, Len(s))
  BY <1>2, <1>3
<1> QED BY <1>1, <1>2, <1>3 DEF InSubtree, IsPrefix

\* The path with the new beginning instead of the old one.
Renamed(path, old, new) == new \o SubSeq(path, Len(old) + 1, Len(path))

\* What that is, unit by unit.
IsRenamed(q, path, old, new) ==
    /\ q \in Seq(Nodes) /\ Len(q) = Len(new) + Len(path) - Len(old)
    /\ \A i \in 1..Len(new) : q[i] = new[i]
    /\ \A i \in 1..Len(path) - Len(old) : q[Len(new) + i] = path[Len(old) + i]

LEMMA RenamedIs ==
    ASSUME NEW old \in Seq(Nodes), NEW new \in Seq(Nodes), NEW path \in Seq(Nodes), Len(old) <= Len(path)
    PROVE  IsRenamed(Renamed(path, old, new), path, old, new)
<1>1. PICK rest : rest = SubSeq(path, Len(old) + 1, Len(path))
  OBVIOUS
<1>2. rest \in Seq(Nodes) /\ Len(rest) = Len(path) - Len(old)
      /\ \A i \in 1..Len(path) - Len(old) : rest[i] = path[Len(old) + i]
  BY <1>1
<1>3. PICK q : q = new \o rest
  OBVIOUS
<1>4. q \in Seq(Nodes) /\ Len(q) = Len(new) + Len(rest)
  BY <1>2, <1>3, ConcatProperties
<1>5. \A i \in 1..Len(new) : q[i] = new[i]
  BY <1>2, <1>3
<1>6. \A i \in 1..Len(rest) : q[Len(new) + i] = rest[i]
  BY <1>2, <1>3
<1> QED BY <1>1, <1>2, <1>3, <1>4, <1>5, <1>6 DEF Renamed, IsRenamed

\* Nothing else is.
LEMMA RenamedOnly ==
    ASSUME NEW old \in Seq(Nodes), NEW new \in Seq(Nodes), NEW path \in Seq(Nodes), Len(old) <= Len(path),
           NEW q, IsRenamed(q, path, old, new)
    PROVE  q = Renamed(path, old, new)
<1>1. PICK r : r = Renamed(path, old, new)
  OBVIOUS
<1>2. IsRenamed(r, path, old, new)
  BY <1>1, RenamedIs
<1>3. q \in Seq(Nodes) /\ r \in Seq(Nodes) /\ Len(q) = Len(r) /\ Len(q) = Len(new) + Len(path) - Len(old)
  BY <1>2 DEF IsRenamed
<1>4. ASSUME NEW i \in 1..Len(q) PROVE q[i] = r[i]
  <2>1. CASE i <= Len(new)
    BY <1>2, <1>4, <2>1 DEF IsRenamed
  <2>2. CASE i > Len(new)
    <3>1. i - Len(new) \in 1..Len(path) - Len(old) /\ Len(new) + (i - Len(new)) = i
      BY <1>3, <1>4, <2>2
    <3> QED BY <1>2, <3>1 DEF IsRenamed
  <2> QED BY <1>3, <1>4, <2>1, <2>2
<1> QED BY <1>1, <1>3, <1>4, SeqEqual

\* A step further down.
LEMMA RenamedAppend ==
    ASSUME NEW old \in Seq(Nodes), NEW new \in Seq(Nodes), NEW path \in Seq(Nodes), Len(old) <= Len(path),
           NEW n \in Nodes
    PROVE  Renamed(Append(path, n), old, new) = Append(Renamed(path, old, new), n)
<1>1. PICK longer : longer = Append(path, n)
  OBVIOUS
<1>2. longer \in Seq(Nodes) /\ Len(longer) = Len(path) + 1 /\ longer[Len(path) + 1] = n
      /\ \A i \in 1..Len(path) : longer[i] = path[i]
  BY <1>1
<1>3. PICK one : one = Renamed(path, old, new)
  OBVIOUS
<1>4. IsRenamed(one, path, old, new)
  BY <1>3, RenamedIs
<1>5. PICK more : more = Append(one, n)
  OBVIOUS
<1>6. more \in Seq(Nodes) /\ Len(more) = Len(one) + 1 /\ more[Len(one) + 1] = n
      /\ \A i \in 1..Len(one) : more[i] = one[i]
  <2>1. one \in Seq(Nodes)
    BY <1>4 DEF IsRenamed
  <2> QED BY <1>5, <2>1, AppendProperties
<1>7. IsRenamed(more, longer, old, new)
  <2>1. Len(one) = Len(new) + Len(path) - Len(old)
    BY <1>4 DEF IsRenamed
  <2>2. \A i \in 1..Len(new) : more[i] = new[i]
    BY <1>4, <1>6, <2>1 DEF IsRenamed
  <2>3. ASSUME NEW i \in 1..Len(longer) - Len(old) PROVE more[Len(new) + i] = longer[Len(old) + i]
    <3>0. /\ Len(longer) = Len(path) + 1 /\ Len(path) \in Nat /\ Len(old) \in Nat /\ Len(new) \in Nat
          /\ i <= Len(path) - Len(old) \/ i = Len(path) - Len(old) + 1
      BY <1>2, <2>3
    <3>1. CASE i <= Len(path) - Len(old)
      <4>1. one[Len(new) + i] = path[Len(old) + i]
        BY <1>4, <2>3, <3>1 DEF IsRenamed
      <4>2. Len(new) + i \in 1..Len(one) /\ Len(old) + i \in 1..Len(path)
        BY <2>1, <2>3, <3>0, <3>1
      <4> QED BY <1>2, <1>6, <4>1, <4>2
    <3>2. CASE i = Len(path) - Len(old) + 1
      <4>1. Len(new) + i = Len(one) + 1 /\ Len(old) + i = Len(path) + 1
        BY <2>1, <3>2
      <4> QED BY <1>2, <1>6, <4>1
    <3> QED BY <3>0, <3>1, <3>2
  <2>4. Len(more) = Len(new) + Len(longer) - Len(old)
    BY <1>2, <1>6, <2>1
  <2> QED BY <1>6, <2>2, <2>3, <2>4 DEF IsRenamed
<1>8. Len(old) <= Len(longer)
  BY <1>2
<1> QED BY <1>1, <1>2, <1>3, <1>5, <1>7, <1>8, RenamedOnly

\* The old path becomes the new one, and nothing changes when they are the same.
LEMMA RenamedSelf ==
    ASSUME NEW path \in Seq(Nodes), NEW old \in Seq(Nodes), NEW new \in Seq(Nodes)
    PROVE  /\ InSubtree(path, old) => Renamed(path, old, old) = path
           /\ Renamed(old, old, new) = new
<1>1. ASSUME InSubtree(path, old) PROVE Renamed(path, old, old) = path
  <2>1. Len(old) <= Len(path) /\ \A i \in 1..Len(old) : old[i] = path[i]
    BY <1>1, PrefixIs
  <2>2. IsRenamed(path, path, old, old)
    BY <2>1 DEF IsRenamed
  <2> QED BY <2>1, <2>2, RenamedOnly
<1>2. Renamed(old, old, new) = new
  <2>1. IsRenamed(new, old, old, new)
    BY DEF IsRenamed
  <2>2. Len(old) <= Len(old)
    OBVIOUS
  <2> QED BY <2>1, <2>2, RenamedOnly
<1> QED BY <1>1, <1>2

-----------------------------------------------------------------------------
(* The tree of a day, as unit, parent and path *)

LEMMA SomeLeast ==
    ASSUME NEW S \in SUBSET Nat, S # {}
    PROVE  \E m \in S : \A n \in S : ~(n < m)
<1> DEFINE less == {ss \in Nat \X Nat : ss[1] < ss[2]}
<1>1. IsWellFoundedOn(less, Nat)
  BY NatLessThanWellFounded DEF OpToRel
<1> HIDE DEF less
<1>2. PICK m \in S : \A n \in S : ~(<<n, m>> \in less)
  BY <1>1, WFMin
<1> QED BY <1>2 DEF less

\* A path is the parent's path and one's own name.
Hangs(t, T) ==
    IF t[2] = None THEN t[3] = <<t[1]>> ELSE \E q \in T : q[1] = t[2] /\ t[3] = Append(q[3], t[1])

Rooted(T) == \A t \in T : Hangs(t, T)

IsTree(T) ==
    /\ \A t \in T : t = <<t[1], t[2], t[3]>> /\ t[1] \in Nodes /\ t[2] \in Parents /\ t[3] \in Seq(Nodes)
    /\ \A t, u \in T : t[1] = u[1] => t = u
    /\ Rooted(T)

\* q's path is how t's path begins.
Begins(q, t) == Len(q[3]) <= Len(t[3]) /\ \A j \in 1..Len(q[3]) : q[3][j] = t[3][j]

\* One step up.
LEMMA Above ==
    ASSUME NEW T, IsTree(T), NEW t \in T
    PROVE  /\ Len(t[3]) \in Nat /\ Len(t[3]) >= 1 /\ t[3][Len(t[3])] = t[1]
           /\ t[2] = None => Len(t[3]) = 1
           /\ t[2] # None => \E q \in T : /\ q[1] = t[2] /\ t[3] = Append(q[3], t[1])
                                          /\ Len(t[3]) = Len(q[3]) + 1 /\ Begins(q, t)
<1>1. t[1] \in Nodes /\ t[3] \in Seq(Nodes)
  BY DEF IsTree
<1>2. CASE t[2] = None
  <2>1. t[3] = <<t[1]>>
    BY <1>2 DEF IsTree, Rooted, Hangs
  <2> QED BY <1>1, <1>2, <2>1
<1>3. CASE t[2] # None
  <2>1. PICK q \in T : q[1] = t[2] /\ t[3] = Append(q[3], t[1])
    BY <1>3 DEF IsTree, Rooted, Hangs
  <2>2. q[3] \in Seq(Nodes)
    BY DEF IsTree
  <2>3. Len(t[3]) = Len(q[3]) + 1 /\ t[3][Len(t[3])] = t[1] /\ Len(q[3]) \in Nat
    BY <1>1, <2>1, <2>2
  <2>4. Begins(q, t)
    BY <1>1, <2>1, <2>2 DEF Begins
  <2> QED BY <1>3, <2>1, <2>3, <2>4
<1> QED BY <1>2, <1>3

\* Every unit that a path goes through has the path up to there.
LEMMA Through ==
    ASSUME NEW T, IsTree(T), NEW t \in T, NEW i \in 1..Len(t[3])
    PROVE  \E q \in T : q[1] = t[3][i] /\ Len(q[3]) = i /\ Begins(q, t)
<1> DEFINE Good(u) == \A j \in 1..Len(u[3]) : \E q \in T : q[1] = u[3][j] /\ Len(q[3]) = j /\ Begins(q, u)
           bad == {Len(u[3]) : u \in {v \in T : ~Good(v)}}
<1>1. SUFFICES ASSUME ~Good(t) PROVE FALSE
  OBVIOUS
<1>2. bad \in SUBSET Nat /\ bad # {}
  <2>1. \A u \in T : Len(u[3]) \in Nat
    BY Above
  <2> HIDE DEF Good
  <2> QED BY <1>1, <2>1
<1>3. PICK u \in T : ~Good(u) /\ \A v \in T : ~Good(v) => ~(Len(v[3]) < Len(u[3]))
  <2> HIDE DEF Good
  <2>1. PICK k \in bad : \A n \in bad : ~(n < k)
    BY <1>2, SomeLeast
  <2> QED BY <2>1
<1>4. PICK j \in 1..Len(u[3]) : ~\E q \in T : q[1] = u[3][j] /\ Len(q[3]) = j /\ Begins(q, u)
  BY <1>3
<1>5. j # Len(u[3])
  <2>1. Begins(u, u)
    BY Above DEF Begins
  <2> QED BY <1>4, <2>1, Above
<1>6. u[2] # None
  BY <1>4, <1>5, Above
<1>7. PICK p \in T : Len(u[3]) = Len(p[3]) + 1 /\ Begins(p, u)
  BY <1>6, Above
<1>8. Len(p[3]) \in Nat /\ Len(u[3]) \in Nat
  BY Above
<1>9. Good(p)
  BY <1>3, <1>7, <1>8
<1>10. j \in 1..Len(p[3])
  BY <1>4, <1>5, <1>7, <1>8
<1>11. PICK q \in T : q[1] = p[3][j] /\ Len(q[3]) = j /\ Begins(q, p)
  BY <1>9, <1>10
<1>12. q[1] = u[3][j] /\ Begins(q, u)
  BY <1>7, <1>8, <1>10, <1>11 DEF Begins
<1> QED BY <1>4, <1>11, <1>12

\* No path goes through a unit twice.
LEMMA Once ==
    ASSUME NEW T, IsTree(T), NEW t \in T, NEW i \in 1..Len(t[3]), NEW j \in 1..Len(t[3]), t[3][i] = t[3][j]
    PROVE  i = j
<1>1. PICK q \in T : q[1] = t[3][i] /\ Len(q[3]) = i
  BY Through
<1>2. PICK r \in T : r[1] = t[3][j] /\ Len(r[3]) = j
  BY Through
<1> QED BY <1>1, <1>2 DEF IsTree

\* The tree after a move: the node n hangs below q, and the paths of its subtree begin anew.
MovedEntry(t, m, q, new) ==
    IF InSubtree(t[3], m[3]) THEN <<t[1], IF t = m THEN q[1] ELSE t[2], Renamed(t[3], m[3], new)>> ELSE t

\* Whose path begins with m's is m or hangs below one whose path does.
LEMMA SubtreeUp ==
    ASSUME NEW T, IsTree(T), NEW m \in T, NEW t \in T, NEW q \in T, t[3] = Append(q[3], t[1])
    PROVE  /\ InSubtree(q[3], m[3]) => InSubtree(t[3], m[3]) /\ t # m
           /\ InSubtree(t[3], m[3]) /\ t # m => InSubtree(q[3], m[3])
<1>1. t[3] \in Seq(Nodes) /\ m[3] \in Seq(Nodes) /\ q[3] \in Seq(Nodes) /\ t[1] \in Nodes
  BY DEF IsTree
<1>2. Len(t[3]) = Len(q[3]) + 1 /\ Len(q[3]) \in Nat /\ \A i \in 1..Len(q[3]) : t[3][i] = q[3][i]
  BY <1>1
<1>3. ASSUME InSubtree(q[3], m[3]) PROVE InSubtree(t[3], m[3]) /\ t # m
  <2>1. Len(m[3]) <= Len(q[3]) /\ (\A i \in 1..Len(m[3]) : m[3][i] = q[3][i]) /\ Len(m[3]) \in Nat
    BY <1>1, <1>3, PrefixIs
  <2>2. Len(m[3]) <= Len(t[3]) /\ \A i \in 1..Len(m[3]) : m[3][i] = t[3][i]
    BY <1>2, <2>1
  <2>3. t # m
    BY <1>2, <2>1
  <2> QED BY <1>1, <2>2, <2>3, PrefixIs
<1>4. ASSUME InSubtree(t[3], m[3]), t # m PROVE InSubtree(q[3], m[3])
  <2>0. Len(m[3]) <= Len(t[3]) /\ \A i \in 1..Len(m[3]) : m[3][i] = t[3][i]
    BY <1>1, <1>4, PrefixIs
  <2>1. Len(m[3]) <= Len(t[3]) /\ (\A i \in 1..Len(m[3]) : m[3][i] = t[3][i]) /\ Len(m[3]) \in Nat
    BY <1>1, <2>0
  <2>2. Len(m[3]) # Len(t[3])
    <3>1. m[3][Len(m[3])] = m[1] /\ t[3][Len(t[3])] = t[1] /\ Len(t[3]) >= 1
      BY Above
    <3>2. t[1] # m[1]
      BY <1>4 DEF IsTree
    <3> QED BY <2>1, <3>1, <3>2
  <2>3. Len(m[3]) <= Len(q[3]) /\ \A i \in 1..Len(m[3]) : m[3][i] = q[3][i]
    BY <1>2, <2>1, <2>2
  <2> QED BY <1>1, <2>3, PrefixIs
<1> QED BY <1>3, <1>4

\* A path that is not m's and begins with it is longer.
LEMMA BelowLonger ==
    ASSUME NEW T, IsTree(T), NEW m \in T, NEW t \in T, InSubtree(t[3], m[3])
    PROVE  /\ Len(m[3]) \in Nat /\ Len(t[3]) \in Nat /\ Len(m[3]) <= Len(t[3])
           /\ t # m => Len(t[3]) > Len(m[3])
           /\ t[3][Len(m[3])] = m[1]
<1>1. t[3] \in Seq(Nodes) /\ m[3] \in Seq(Nodes)
  BY DEF IsTree
<1>2. Len(m[3]) <= Len(t[3]) /\ (\A i \in 1..Len(m[3]) : m[3][i] = t[3][i]) /\ Len(m[3]) \in Nat /\ Len(t[3]) \in Nat
  BY <1>1, PrefixIs
<1>3. Len(m[3]) >= 1 /\ m[3][Len(m[3])] = m[1] /\ t[3][Len(t[3])] = t[1]
  BY Above
<1>4. t[3][Len(m[3])] = m[1]
  BY <1>2, <1>3
<1>5. t # m => t[1] # m[1]
  BY DEF IsTree
<1> QED BY <1>2, <1>3, <1>4, <1>5

LEMMA MovedTree ==
    ASSUME NEW T, IsTree(T), NEW m \in T, NEW q \in T, ~InSubtree(q[3], m[3])
    PROVE  IsTree({MovedEntry(t, m, q, Append(q[3], m[1])) : t \in T})
<1> USE HierarchyAssumption
<1>0. PICK new : new = Append(q[3], m[1])
  OBVIOUS
<1> DEFINE E(t) == MovedEntry(t, m, q, new)
           after == {E(t) : t \in T}
<1>1. \A t \in T : t = <<t[1], t[2], t[3]>> /\ t[1] \in Nodes /\ t[2] \in Parents /\ t[3] \in Seq(Nodes)
  BY DEF IsTree
<1>2. new \in Seq(Nodes)
  BY <1>0, <1>1
<1>3. ASSUME NEW t \in T, InSubtree(t[3], m[3])
      PROVE  /\ E(t) = <<t[1], IF t = m THEN q[1] ELSE t[2], Renamed(t[3], m[3], new)>>
             /\ Renamed(t[3], m[3], new) \in Seq(Nodes)
  <2>1. Len(m[3]) <= Len(t[3])
    BY <1>3, BelowLonger
  <2> QED BY <1>1, <1>2, <1>3, <2>1, RenamedIs DEF MovedEntry, IsRenamed
<1>4. ASSUME NEW t \in T, ~InSubtree(t[3], m[3]) PROVE E(t) = t
  BY <1>4 DEF MovedEntry
<1> HIDE DEF E
<1>5. ASSUME NEW t \in T
      PROVE  E(t) = <<E(t)[1], E(t)[2], E(t)[3]>> /\ E(t)[1] = t[1] /\ E(t)[2] \in Parents /\ E(t)[3] \in Seq(Nodes)
  <2>1. CASE InSubtree(t[3], m[3])
    <3>1. E(t) = <<t[1], IF t = m THEN q[1] ELSE t[2], Renamed(t[3], m[3], new)>> /\ Renamed(t[3], m[3], new) \in Seq(Nodes)
      BY <1>3, <2>1
    <3>2. (IF t = m THEN q[1] ELSE t[2]) \in Parents
      BY <1>1 DEF Parents
    <3> QED BY <3>1, <3>2
  <2>2. CASE ~InSubtree(t[3], m[3])
    BY <1>1, <1>4, <2>2
  <2> QED BY <2>1, <2>2
<1>6. Rooted(after)
  <2> SUFFICES ASSUME NEW t \in T
               PROVE  Hangs(E(t), after)
    BY DEF Rooted
  <2>1. CASE t = m
    <3>1. InSubtree(t[3], m[3])
      BY <1>1, <2>1, PrefixIs
    <3>2. Renamed(m[3], m[3], new) = new
      <4>1. m[3] \in Seq(Nodes) /\ \A a \in Seq(Nodes) : Renamed(a, a, new) = new
        BY <1>1, <1>2, RenamedSelf
      <4> QED BY <4>1
    <3>3. E(t)[1] = m[1] /\ E(t)[2] = q[1] /\ E(t)[3] = new
      BY <1>3, <2>1, <3>1, <3>2
    <3>4. q \in after /\ q[1] # None
      BY <1>1, <1>4
    <3> HIDE DEF after
    <3> QED BY <1>0, <3>3, <3>4 DEF Hangs
  <2>2. CASE t # m /\ t[2] = None
    <3>1. ASSUME InSubtree(t[3], m[3]) PROVE FALSE
      <4>1. Len(t[3]) = 1 /\ Len(m[3]) >= 1 /\ Len(m[3]) \in Nat
        BY <2>2, Above
      <4>2. Len(t[3]) > Len(m[3])
        BY <2>2, <3>1, BelowLonger
      <4> QED BY <4>1, <4>2
    <3>2. t[3] = <<t[1]>>
      BY <2>2 DEF IsTree, Rooted, Hangs
    <3> QED BY <1>4, <2>2, <3>1, <3>2 DEF Hangs
  <2>3. CASE t # m /\ t[2] # None
    <3>1. PICK u \in T : u[1] = t[2] /\ t[3] = Append(u[3], t[1])
      BY <2>3, Above
    <3>2. CASE InSubtree(t[3], m[3])
      <4>1. InSubtree(u[3], m[3])
        BY <2>3, <3>1, <3>2, SubtreeUp
      <4>2. Len(m[3]) <= Len(u[3])
        BY <4>1, BelowLonger
      <4>3. Renamed(t[3], m[3], new) = Append(Renamed(u[3], m[3], new), t[1])
        <5>1. u[3] \in Seq(Nodes) /\ m[3] \in Seq(Nodes) /\ t[1] \in Nodes
          BY <1>1
        <5>2. \A a, b \in Seq(Nodes), x \in Nodes :
                  Len(b) <= Len(a) => Renamed(Append(a, x), b, new) = Append(Renamed(a, b, new), x)
          BY <1>2, RenamedAppend
        <5>3. Renamed(Append(u[3], t[1]), m[3], new) = Append(Renamed(u[3], m[3], new), t[1])
          BY <4>2, <5>1, <5>2, Zenon
        <5> QED BY <3>1, <5>3
      <4>4. E(t)[1] = t[1] /\ E(t)[2] = t[2] /\ E(t)[3] = Renamed(t[3], m[3], new)
        BY <1>3, <2>3, <3>2
      <4>5. E(u)[1] = u[1] /\ E(u)[3] = Renamed(u[3], m[3], new)
        BY <1>3, <4>1
      <4>6. E(u) \in after
        OBVIOUS
      <4> HIDE DEF after
      <4> QED BY <2>3, <3>1, <4>3, <4>4, <4>5, <4>6 DEF Hangs
    <3>3. CASE ~InSubtree(t[3], m[3])
      <4>1. ~InSubtree(u[3], m[3])
        BY <3>1, <3>3, SubtreeUp
      <4>2. E(t) = t /\ u \in after
        BY <1>4, <3>3, <4>1
      <4> HIDE DEF after
      <4> QED BY <2>3, <3>1, <4>2 DEF Hangs
    <3> QED BY <3>2, <3>3
  <2> QED BY <2>1, <2>2, <2>3
<1>7. \A t, u \in after : t[1] = u[1] => t = u
  BY <1>5 DEF IsTree
<1>8. \A t \in after : t = <<t[1], t[2], t[3]>> /\ t[1] \in Nodes /\ t[2] \in Parents /\ t[3] \in Seq(Nodes)
  BY <1>1, <1>5
<1>9. IsTree(after)
  BY <1>6, <1>7, <1>8 DEF IsTree
<1> QED BY <1>0, <1>9 DEF E

\* A new leaf, and a leaf that goes.
LEMMA GrownTree ==
    ASSUME NEW T, IsTree(T), NEW n \in Nodes, \A t \in T : t[1] # n,
           NEW leaf, \/ leaf = <<n, None, <<n>>>>
                     \/ \E q \in T : leaf = <<n, q[1], Append(q[3], n)>>
    PROVE  IsTree(T \cup {leaf})
<1> USE HierarchyAssumption
<1>1. \A t \in T : t = <<t[1], t[2], t[3]>> /\ t[1] \in Nodes /\ t[2] \in Parents /\ t[3] \in Seq(Nodes)
  BY DEF IsTree
<1>2. /\ leaf = <<leaf[1], leaf[2], leaf[3]>> /\ leaf[1] = n /\ leaf[2] \in Parents /\ leaf[3] \in Seq(Nodes)
      /\ IF leaf[2] = None THEN leaf[3] = <<leaf[1]>> ELSE \E q \in T : q[1] = leaf[2] /\ leaf[3] = Append(q[3], leaf[1])
  <2>1. CASE leaf = <<n, None, <<n>>>>
    BY <2>1 DEF Parents
  <2>2. ASSUME NEW q \in T, leaf = <<n, q[1], Append(q[3], n)>>
        PROVE  /\ leaf = <<leaf[1], leaf[2], leaf[3]>> /\ leaf[1] = n /\ leaf[2] \in Parents /\ leaf[3] \in Seq(Nodes)
               /\ leaf[2] # None /\ q[1] = leaf[2] /\ leaf[3] = Append(q[3], leaf[1])
    BY <1>1, <2>2 DEF Parents
  <2> QED BY <2>1, <2>2
<1>3. Rooted(T \cup {leaf})
  BY <1>2 DEF IsTree, Rooted, Hangs
<1>4. \A t, u \in T \cup {leaf} : t[1] = u[1] => t = u
  BY <1>2 DEF IsTree
<1> QED BY <1>1, <1>2, <1>3, <1>4 DEF IsTree

LEMMA PrunedTree ==
    ASSUME NEW T, IsTree(T), NEW n, \A t \in T : t[2] # n
    PROVE  IsTree({t \in T : t[1] # n})
BY DEF IsTree, Rooted, Hangs

-----------------------------------------------------------------------------
(* The re-inserted subtree: the paths that the trigger computes one after another *)

\* The trigger's path for the edge of n, given the paths f of those inserted before it.
Recomputed(f, es, tree, d, n) ==
    LET p == (CHOOSE e \in tree : e.node = n).parent IN
    IF \E e \in tree : e.node = p /\ Len(e.path) < Len((CHOOSE x \in tree : x.node = n).path)
    THEN Append(f[p], n)
    ELSE Append(PathAt(es, p, d), n)

Recomputes(f, es, tree, d) == f = [n \in {e.node : e \in tree} |-> Recomputed(f, es, tree, d, n)]

\* Rows of distinct units, whose paths have a length.
OneEach(tree) == (\A e, u \in tree : e.node = u.node => e = u) /\ \A e \in tree : Len(e.path) \in Nat

Agree(f, g, tree, k) == \A u \in tree : Len(u.path) < k => f[u.node] = g[u.node]

\* Only the paths of shallower edges of the tree are looked at.
LooksUp(e, es, tree, d) ==
    \A f, g : Agree(f, g, tree, Len(e.path)) => Recomputed(f, es, tree, d, e.node) = Recomputed(g, es, tree, d, e.node)

LEMMA SameAbove ==
    ASSUME NEW es, NEW tree, NEW d, OneEach(tree), NEW e \in tree
    PROVE  LooksUp(e, es, tree, d)
<1> SUFFICES ASSUME NEW f, NEW g, Agree(f, g, tree, Len(e.path))
             PROVE  Recomputed(f, es, tree, d, e.node) = Recomputed(g, es, tree, d, e.node)
  BY DEF LooksUp
<1>1. (CHOOSE x \in tree : x.node = e.node) = e
  BY DEF OneEach
<1>2. ASSUME NEW u \in tree, u.node = e.parent, Len(u.path) < Len(e.path) PROVE f[e.parent] = g[e.parent]
  <2>1. f[u.node] = g[u.node]
    BY <1>2 DEF Agree
  <2> QED BY <1>2, <2>1
<1>3. CASE \E u \in tree : u.node = e.parent /\ Len(u.path) < Len(e.path)
  <2>1. f[e.parent] = g[e.parent]
    BY <1>2, <1>3
  <2> QED BY <1>1, <1>3, <2>1 DEF Recomputed
<1>4. CASE ~\E u \in tree : u.node = e.parent /\ Len(u.path) < Len(e.path)
  BY <1>1, <1>4 DEF Recomputed
<1> QED BY <1>3, <1>4

\* Solutions for paths shorter than k.
Partial(f, es, tree, d, k) ==
    \A e \in tree : Len(e.path) < k => f[e.node] = Recomputed(f, es, tree, d, e.node)

LEMMA PartialOne ==
    ASSUME NEW es, NEW tree, NEW d, OneEach(tree),
           NEW k \in Nat, NEW f, NEW g, Partial(f, es, tree, d, k), Partial(g, es, tree, d, k)
    PROVE  Agree(f, g, tree, k)
<1> DEFINE wrong == {e \in tree : Len(e.path) < k /\ f[e.node] # g[e.node]}
           lens  == {Len(e.path) : e \in wrong}
<1>1. SUFFICES ASSUME NEW x \in wrong PROVE FALSE
  BY DEF Agree
<1>2. lens \in SUBSET Nat /\ lens # {}
  <2>1. \A e \in wrong : Len(e.path) \in Nat
    BY DEF OneEach
  <2>2. Len(x.path) \in lens
    OBVIOUS
  <2> QED BY <2>1, <2>2
<1>3. PICK j \in lens : \A i \in lens : ~(i < j)
  BY <1>2, SomeLeast
<1>4. PICK e \in tree : e \in wrong /\ j = Len(e.path)
  OBVIOUS
<1>5. Len(e.path) < k /\ f[e.node] # g[e.node]
  BY <1>4
<1>6. Agree(f, g, tree, Len(e.path))
  <2> SUFFICES ASSUME NEW u \in tree, Len(u.path) < Len(e.path), f[u.node] # g[u.node] PROVE FALSE
    BY DEF Agree
  <2>1. Len(u.path) \in Nat /\ Len(e.path) \in Nat
    BY DEF OneEach
  <2>2. Len(u.path) < k
    BY <1>5, <2>1
  <2>3. u \in wrong
    BY <2>2
  <2>4. Len(u.path) \in lens
    BY <2>3
  <2> QED BY <1>3, <1>4, <2>4
<1>7. Recomputed(f, es, tree, d, e.node) = Recomputed(g, es, tree, d, e.node)
  <2> HIDE DEF wrong
  <2>1. LooksUp(e, es, tree, d)
    BY SameAbove
  <2> QED BY <1>6, <2>1 DEF LooksUp
<1> QED BY <1>5, <1>7 DEF Partial

LEMMA PartialExists ==
    ASSUME NEW es, NEW tree, NEW d, OneEach(tree),
           NEW k \in Nat
    PROVE  \E f : Partial(f, es, tree, d, k)
<1> DEFINE bad == {i \in Nat : ~\E f : Partial(f, es, tree, d, i)}
<1>1. SUFFICES ASSUME bad # {} PROVE FALSE
  OBVIOUS
<1>2. PICK i \in bad : \A j \in bad : ~(j < i)
  BY <1>1, SomeLeast
<1>3. i \in Nat /\ ~\E f : Partial(f, es, tree, d, i)
  OBVIOUS
<1>4. i # 0
  <2> SUFFICES ASSUME i = 0 PROVE FALSE
    OBVIOUS
  <2>1. Partial(0, es, tree, d, i)
    BY DEF Partial
  <2> QED BY <1>3, <2>1
<1>5. i - 1 \in Nat /\ i - 1 \notin bad
  BY <1>2, <1>3, <1>4
<1>6. PICK f : Partial(f, es, tree, d, i - 1)
  BY <1>5
<1> DEFINE g == [n \in {e.node : e \in tree} |-> Recomputed(f, es, tree, d, n)]
<1>7. \A e \in tree : g[e.node] = Recomputed(f, es, tree, d, e.node)
  OBVIOUS
<1> HIDE DEF g, bad
<1>8. ASSUME NEW e \in tree, Len(e.path) < i PROVE g[e.node] = Recomputed(g, es, tree, d, e.node)
  <2>1. Agree(f, g, tree, Len(e.path))
    <3> SUFFICES ASSUME NEW u \in tree, Len(u.path) < Len(e.path) PROVE f[u.node] = g[u.node]
      BY DEF Agree
    <3>1. Len(u.path) < i - 1
      BY <1>3, <1>8 DEF OneEach
    <3> QED BY <1>6, <1>7, <3>1 DEF Partial
  <2>2. Recomputed(f, es, tree, d, e.node) = Recomputed(g, es, tree, d, e.node)
    <3>1. LooksUp(e, es, tree, d)
      BY SameAbove
    <3> QED BY <2>1, <3>1 DEF LooksUp
  <2> QED BY <1>7, <2>2
<1>9. Partial(g, es, tree, d, i)
  BY <1>8 DEF Partial
<1> QED BY <1>3, <1>9

\* The recursion has a solution on any rows of distinct units: it goes up to shorter paths.
LEMMA RecomputesExists ==
    ASSUME NEW es, NEW tree, NEW d, OneEach(tree)
    PROVE  \E f : Recomputes(f, es, tree, d)
<1> DEFINE edgeOf(n) == CHOOSE e \in tree : e.node = n
           Sol(k) == CHOOSE f : Partial(f, es, tree, d, k)
           F == [n \in {e.node : e \in tree} |-> Sol(Len(edgeOf(n).path) + 1)[n]]
<1>1. \A k \in Nat : Partial(Sol(k), es, tree, d, k)
  BY PartialExists
<1>2. \A e \in tree : edgeOf(e.node) = e
  BY DEF OneEach
<1> HIDE DEF Sol
<1>3. \A e \in tree : F[e.node] = Sol(Len(e.path) + 1)[e.node]
  BY <1>2
<1>4. ASSUME NEW e \in tree PROVE F[e.node] = Recomputed(F, es, tree, d, e.node)
  <2> HIDE DEF F
  <2> DEFINE k == Len(e.path) + 1
  <2>1. k \in Nat /\ Partial(Sol(k), es, tree, d, k)
    BY <1>1 DEF OneEach
  <2>2. ASSUME NEW u \in tree, Len(u.path) < Len(e.path) PROVE Sol(k)[u.node] = F[u.node]
    <3> DEFINE j == Len(u.path) + 1
    <3>1. j \in Nat /\ j <= k /\ Len(u.path) < j
      BY <2>2 DEF OneEach
    <3>2. Partial(Sol(j), es, tree, d, j)
      BY <1>1, <3>1
    <3>3. Partial(Sol(k), es, tree, d, j)
      BY <2>1, <3>1 DEF Partial, OneEach
    <3> HIDE DEF j, k
    <3>4. Agree(Sol(k), Sol(j), tree, j)
      BY <3>1, <3>2, <3>3, PartialOne
    <3> QED BY <1>3, <3>1, <3>4 DEF Agree, j
  <2>3. Recomputed(Sol(k), es, tree, d, e.node) = Recomputed(F, es, tree, d, e.node)
    <3>1. Agree(Sol(k), F, tree, Len(e.path))
      BY <2>2 DEF Agree
    <3>2. LooksUp(e, es, tree, d)
      BY SameAbove
    <3> HIDE DEF k
    <3> QED BY <3>1, <3>2 DEF LooksUp
  <2>4. Sol(k)[e.node] = Recomputed(Sol(k), es, tree, d, e.node)
    BY <2>1 DEF Partial, OneEach
  <2> QED BY <1>3, <2>3, <2>4
<1>5. ASSUME NEW n \in {e.node : e \in tree} PROVE Sol(Len(edgeOf(n).path) + 1)[n] = Recomputed(F, es, tree, d, n)
  <2>1. PICK e \in tree : n = e.node
    OBVIOUS
  <2> HIDE DEF F
  <2>2. Sol(Len(edgeOf(e.node).path) + 1)[e.node] = F[e.node]
    BY <1>2, <1>3
  <2> QED BY <1>4, <2>1, <2>2
<1>6. Recomputes(F, es, tree, d)
  BY <1>5 DEF Recomputes
<1> HIDE DEF F
<1> QED BY <1>6

\* What the re-inserted edges of a subtree are: their paths solve the recursion.
LEMMA ReslicedBy ==
    ASSUME NEW es, NEW tree, NEW d, OneEach(tree)
    PROVE  \E f : /\ Recomputes(f, es, tree, d)
                  /\ Resliced(es, tree, d)
                         = Cut(es, tree, d) \cup {[e EXCEPT !.from = d, !.path = f[e.node]] : e \in tree}
<1> DEFINE newPath == CHOOSE f : f = [n \in {e.node : e \in tree} |-> Recomputed(f, es, tree, d, n)]
<1>1. Recomputes(newPath, es, tree, d)
  <2>1. \E f : Recomputes(f, es, tree, d)
    BY RecomputesExists
  <2> QED BY <2>1 DEF Recomputes
<1>2. Resliced(es, tree, d)
          = Cut(es, tree, d) \cup {[e EXCEPT !.from = d, !.path = newPath[e.node]] : e \in tree}
  BY DEF Resliced, Recomputed
<1> QED BY <1>1, <1>2

\* e's parent is in the tree, or it is the moved unit, whose new path is known.
ParentIn(e, u) == u.node = e.parent /\ e.path = Append(u.path, e.node)
ParentMoved(e, es, tree, d, old, new) ==
    /\ \A u \in tree : u.node # e.parent
    /\ e.path = Append(old, e.node) /\ PathAt(es, e.parent, d) = new

SubtreeOf(es, tree, d, old, new) ==
    /\ \A e, u \in tree : e.node = u.node => e = u
    /\ \A e \in tree : e.node \in Nodes /\ e.path \in Seq(Nodes) /\ Len(old) <= Len(e.path)
    /\ \A e \in tree : (\E u \in tree : ParentIn(e, u)) \/ ParentMoved(e, es, tree, d, old, new)

\* The table after the edges of tree are re-inserted with the new beginning.
Replaced(es, tree, d, old, new) ==
    Cut(es, tree, d) \cup {[e EXCEPT !.from = d, !.path = Renamed(e.path, old, new)] : e \in tree}

\* Every edge of a subtree gets the path with the new beginning.
LEMMA ReslicedTo ==
    ASSUME NEW es, NEW tree, NEW d, NEW old \in Seq(Nodes), NEW new \in Seq(Nodes),
           SubtreeOf(es, tree, d, old, new)
    PROVE  Resliced(es, tree, d) = Replaced(es, tree, d, old, new)
<1> DEFINE edgeOf(n) == CHOOSE e \in tree : e.node = n
           R(e) == Renamed(e.path, old, new)
<1>0. \A e \in tree : e.node \in Nodes /\ e.path \in Seq(Nodes) /\ Len(old) <= Len(e.path)
  BY DEF SubtreeOf
<1>1. \A e \in tree : edgeOf(e.node) = e
  BY DEF SubtreeOf
<1>2. ASSUME NEW e \in tree, NEW u \in tree, ParentIn(e, u)
      PROVE  /\ Len(u.path) \in Nat /\ Len(u.path) < Len(e.path)
             /\ \A f : Recomputed(f, es, tree, d, e.node) = Append(f[u.node], e.node)
             /\ R(e) = Append(R(u), e.node)
  <2>1. Len(u.path) \in Nat /\ Len(u.path) < Len(e.path)
    BY <1>0, <1>2 DEF ParentIn
  <2>2. \A f : Recomputed(f, es, tree, d, e.node) = Append(f[u.node], e.node)
    BY <1>1, <1>2, <2>1 DEF Recomputed, ParentIn
  <2>3. R(e) = Append(R(u), e.node)
    <3>1. \A a \in Seq(Nodes), x \in Nodes :
              Len(old) <= Len(a) => Renamed(Append(a, x), old, new) = Append(Renamed(a, old, new), x)
      BY RenamedAppend
    <3>2. Renamed(Append(u.path, e.node), old, new) = Append(R(u), e.node)
      BY <1>0, <3>1
    <3> QED BY <1>2, <3>2 DEF ParentIn
  <2> QED BY <2>1, <2>2, <2>3
<1>3. ASSUME NEW e \in tree, ParentMoved(e, es, tree, d, old, new)
      PROVE  /\ \A f : Recomputed(f, es, tree, d, e.node) = Append(new, e.node)
             /\ R(e) = Append(new, e.node)
  <2>1. \A f : Recomputed(f, es, tree, d, e.node) = Append(new, e.node)
    BY <1>1, <1>3 DEF Recomputed, ParentMoved
  <2>2. R(e) = Append(new, e.node)
    <3>1. Renamed(Append(old, e.node), old, new) = Append(Renamed(old, old, new), e.node)
      <4>1. \A a \in Seq(Nodes), x \in Nodes :
                Len(old) <= Len(a) => Renamed(Append(a, x), old, new) = Append(Renamed(a, old, new), x)
        BY RenamedAppend
      <4> QED BY <1>0, <4>1
    <3>2. Renamed(old, old, new) = new
      BY RenamedSelf
    <3> QED BY <1>3, <3>1, <3>2 DEF ParentMoved
  <2> QED BY <2>1, <2>2
<1> HIDE DEF R
<1>5. \A e \in tree : (\E u \in tree : ParentIn(e, u)) \/ ParentMoved(e, es, tree, d, old, new)
  BY DEF SubtreeOf
<1>6. OneEach(tree)
  BY <1>0 DEF SubtreeOf, OneEach
<1>7. PICK f : /\ Recomputes(f, es, tree, d)
               /\ Resliced(es, tree, d)
                      = Cut(es, tree, d) \cup {[e EXCEPT !.from = d, !.path = f[e.node]] : e \in tree}
  BY <1>6, ReslicedBy
<1>8. \A e \in tree : f[e.node] = Recomputed(f, es, tree, d, e.node)
  BY <1>7 DEF Recomputes
<1>9. ASSUME NEW x \in tree, f[x.node] # R(x) PROVE FALSE
  <2> DEFINE wrong == {e \in tree : f[e.node] # R(e)}
             lens  == {Len(e.path) : e \in wrong}
  <2>1. x \in wrong
    BY <1>9
  <2>2. \A e \in wrong : e \in tree /\ f[e.node] # R(e)
    OBVIOUS
  <2>3. \A e \in tree : f[e.node] # R(e) => e \in wrong
    OBVIOUS
  <2> HIDE DEF wrong
  <2>4. lens \in SUBSET Nat /\ lens # {}
    <3>1. \A y \in wrong : Len(y.path) \in Nat
      BY <1>0, <2>2
    <3>2. Len(x.path) \in lens
      BY <2>1
    <3> QED BY <3>1, <3>2
  <2>5. PICK k \in lens : \A i \in lens : ~(i < k)
    BY <2>4, SomeLeast
  <2>6. PICK e \in wrong : \A y \in wrong : ~(Len(y.path) < Len(e.path))
    BY <2>5
  <2>7. ASSUME NEW u \in tree, ParentIn(e, u) PROVE FALSE
    <3>1. u \notin wrong
      BY <1>2, <2>2, <2>6, <2>7
    <3>2. f[u.node] = R(u)
      BY <2>3, <3>1
    <3>3. Recomputed(f, es, tree, d, e.node) = Append(f[u.node], e.node) /\ R(e) = Append(R(u), e.node)
      BY <1>2, <2>2, <2>7
    <3> QED BY <1>8, <2>2, <3>2, <3>3
  <2>8. ASSUME ParentMoved(e, es, tree, d, old, new) PROVE FALSE
    <3>1. Recomputed(f, es, tree, d, e.node) = Append(new, e.node) /\ R(e) = Append(new, e.node)
      BY <1>3, <2>2, <2>8
    <3> QED BY <1>8, <2>2, <3>1
  <2> QED BY <1>5, <2>2, <2>7, <2>8
<1>10. {[e EXCEPT !.from = d, !.path = f[e.node]] : e \in tree} = {[e EXCEPT !.from = d, !.path = R(e)] : e \in tree}
  BY <1>9
<1> QED BY <1>7, <1>10 DEF R, Replaced

\* In a moved subtree no path begins with the old one, unless the new one is the same.
LEMMA NotBelowOld ==
    ASSUME NEW T, IsTree(T), NEW m \in T, NEW q \in T, ~InSubtree(q[3], m[3]), NEW t \in T, InSubtree(t[3], m[3]),
           InSubtree(Renamed(t[3], m[3], Append(q[3], m[1])), m[3])
    PROVE  m[3] = Append(q[3], m[1])
<1>1. PICK new : new = Append(q[3], m[1])
  OBVIOUS
<1>2. PICK r : r = Renamed(t[3], m[3], new)
  OBVIOUS
<1>3. t[3] \in Seq(Nodes) /\ m[3] \in Seq(Nodes) /\ q[3] \in Seq(Nodes) /\ m[1] \in Nodes
  BY DEF IsTree
<1>4. /\ new \in Seq(Nodes) /\ Len(new) = Len(q[3]) + 1 /\ Len(q[3]) \in Nat
      /\ new[Len(new)] = m[1] /\ \A i \in 1..Len(q[3]) : new[i] = q[3][i]
  BY <1>1, <1>3
<1>5. Len(m[3]) <= Len(t[3])
  BY BelowLonger
<1>6. r \in Seq(Nodes) /\ Len(r) = Len(new) + Len(t[3]) - Len(m[3]) /\ \A i \in 1..Len(new) : r[i] = new[i]
  <2>1. IsRenamed(r, t[3], m[3], new)
    BY <1>2, <1>3, <1>4, <1>5, RenamedIs
  <2> QED BY <2>1 DEF IsRenamed
<1>7. InSubtree(r, m[3])
  BY <1>1, <1>2
<1>8. Len(m[3]) <= Len(r) /\ \A i \in 1..Len(m[3]) : m[3][i] = r[i]
  BY <1>3, <1>6, <1>7, PrefixIs
<1>9. Len(m[3]) \in Nat /\ Len(m[3]) >= 1 /\ m[3][Len(m[3])] = m[1]
  BY Above
<1>10. Len(m[3]) >= Len(new)
  <2> SUFFICES ASSUME Len(m[3]) <= Len(q[3]) PROVE FALSE
    BY <1>4, <1>9
  <2>1. ASSUME NEW i \in 1..Len(m[3]) PROVE m[3][i] = q[3][i]
    <3>1. i \in 1..Len(q[3]) /\ i \in 1..Len(new)
      BY <1>4, <1>9
    <3> QED BY <1>4, <1>6, <1>8, <3>1
  <2> QED BY <1>3, <2>1, PrefixIs
<1>11. Len(new) \in 1..Len(m[3]) /\ m[3][Len(new)] = m[1]
  BY <1>4, <1>6, <1>8, <1>9, <1>10
<1>12. Len(new) = Len(m[3])
  <2>1. Len(m[3]) \in 1..Len(m[3])
    BY <1>9
  <2> QED BY <1>9, <1>11, <2>1, Once
<1>13. \A i \in 1..Len(m[3]) : m[3][i] = new[i]
  BY <1>6, <1>8, <1>12
<1>14. m[3] = new
  BY <1>3, <1>4, <1>12, <1>13, SeqEqual
<1> QED BY <1>1, <1>14

-----------------------------------------------------------------------------
(* The trees of all days *)

Entry(e) == <<e.node, e.parent, e.path>>

PathInv ==
    /\ nodes \subseteq Nodes
    /\ Edged(edges) /\ Valid(edges) /\ \A e \in edges : e.node \in nodes
    /\ \A x \in Days : IsTree(TreeOn(edges, x))

LEMMA TreeOnIs ==
    ASSUME NEW es, NEW d
    PROVE  /\ \A e \in es : Covers(e, d) => Entry(e) \in TreeOn(es, d)
           /\ \A t \in TreeOn(es, d) : \E e \in es : Covers(e, d) /\ t = Entry(e)
BY DEF TreeOn, Entry

LEMMA EntryIs == ASSUME NEW e PROVE Entry(e)[1] = e.node /\ Entry(e)[2] = e.parent /\ Entry(e)[3] = e.path
BY DEF Entry

\* A unit has one row on a day.
LEMMA OneRow ==
    ASSUME NEW es, Edged(es), NoOverlap(es), NEW d \in Days, NEW e \in es, NEW f \in es,
           e.node = f.node, Covers(e, d), Covers(f, d)
    PROVE  e = f
BY HierarchyAssumption DEF NoOverlap, Covers, Edged, IsEdge, Days

LEMMA RowAtOne ==
    ASSUME NEW es, Edged(es), NoOverlap(es), NEW d \in Days, NEW e \in es, Covers(e, d)
    PROVE  RowAt(es, e.node, d) = e /\ PathAt(es, e.node, d) = e.path
<1>1. ExistsAt(es, e.node, d)
  BY DEF ExistsAt
<1>2. RowAt(es, e.node, d) = e
  BY <1>1, RowAtIs, OneRow
<1> QED BY <1>2 DEF PathAt

\* When no row starts after d, every later day shows what d shows.
LEMMA LaterDays ==
    ASSUME NEW es, Edged(es), Valid(es), NEW d \in Days, NEW x \in Days, d <= x, \A e \in es : e.from <= d
    PROVE  TreeOn(es, x) = TreeOn(es, d)
<1>1. \A e \in es : e.from \in Int /\ e.to \in Int
  BY HierarchyAssumption DEF Edged, IsEdge, Days
<1>2. d \in Int /\ x \in Int
  BY HierarchyAssumption DEF Days
<1>3. ASSUME NEW e \in es, Covers(e, x) PROVE Covers(e, d)
  BY <1>1, <1>2, <1>3 DEF Covers
<1>4. ASSUME NEW e \in es, Covers(e, d) PROVE Covers(e, x)
  <2>1. e.from <= x
    BY <1>1, <1>2, <1>4 DEF Covers
  <2>2. PICK r \in es : r.node = e.node /\ Covers(r, x)
    BY <2>1 DEF Valid, GapFree, ExistsAt
  <2>3. Covers(r, d)
    BY <1>3, <2>2
  <2>4. r = e
    BY <1>4, <2>2, <2>3, OneRow DEF Valid
  <2> QED BY <2>2, <2>4
<1> QED BY <1>3, <1>4 DEF TreeOn

\* In date order a transaction leaves every day a tree if it leaves its own day one.
LEMMA CommittedTree ==
    ASSUME PathInv, "date_order" \in Discipline, NEW d \in Days, InOrder(d),
           NEW raised, NEW es, NEW ss, Transact(raised, es, ss), nodes \subseteq nodes', nodes' \subseteq Nodes,
           raised \/ /\ Edged(es) /\ SameBefore(edges, es, d) /\ \A f \in es : f.from <= d /\ f.node \in nodes'
                     /\ Valid(es) => IsTree(TreeOn(es, d))
    PROVE  PathInv'
<1>1. CASE UNCHANGED edges
  BY <1>1 DEF PathInv, Edged
<1>2. CASE edges' = es /\ Valid(es) /\ ~raised
  <2>1. /\ Edged(es) /\ SameBefore(edges, es, d) /\ Valid(es) /\ IsTree(TreeOn(es, d))
        /\ \A f \in es : f.from <= d /\ f.node \in nodes'
    BY <1>2
  <2>2. ASSUME NEW x \in Days PROVE IsTree(TreeOn(es, x))
    <3>1. CASE x < d
      BY <2>1, <3>1 DEF SameBefore, PathInv
    <3>2. CASE d <= x
      <4>1. TreeOn(es, x) = TreeOn(es, d)
        BY <2>1, <3>2, LaterDays
      <4> QED BY <2>1, <4>1
    <3> QED BY <3>1, <3>2, HierarchyAssumption DEF Days
  <2>3. Edged(edges') /\ Valid(edges') /\ (\A e \in edges' : e.node \in nodes') /\ \A x \in Days : IsTree(TreeOn(edges', x))
    BY <1>2, <2>1, <2>2
  <2> QED BY <2>3 DEF PathInv, Edged
<1> QED BY <1>1, <1>2 DEF Transact

\* CreateNode: a new leaf.
LEMMA CreateKeepsTree ==
    ASSUME PathInv, "date_order" \in Discipline, NEW n \in Nodes, NEW d \in Days, NEW p \in Parents,
           CreateNode(n, p, d)
    PROVE  PathInv'
<1> DEFINE new == NewEdge(edges, p, n, d, EndOfTime)
           raised == TriggerRaises(edges, p, n, d)
<1>1. PICK ss : Transact(raised, edges \cup {new}, ss)
  BY DEF CreateNode
<1>2. InOrder(d) /\ n \notin nodes /\ nodes' = nodes \cup {n} /\ (p = None \/ ExistsAt(edges, p, d))
  BY DEF CreateNode
<1>3. /\ IsEdge(new) /\ new.from = d /\ new.to = EndOfTime /\ new.node = n /\ new.parent = p
      /\ new.path = IF p = None THEN <<n>> ELSE Append(PathAt(edges, p, d), n)
  <2>1. /\ new.from = d /\ new.to = EndOfTime /\ new.node = n /\ new.parent = p
        /\ new.path = IF p = None THEN <<n>> ELSE Append(PathAt(edges, p, d), n)
    BY DEF NewEdge
  <2>2. new = [node |-> new.node, parent |-> new.parent, from |-> new.from, to |-> new.to, path |-> new.path]
    BY DEF NewEdge
  <2>3. d \in Days /\ EndOfTime \in Days
    BY HierarchyAssumption DEF Days
  <2> HIDE DEF new
  <2> QED BY <2>1, <2>2, <2>3 DEF IsEdge
<1> HIDE DEF new
<1>4. Edged(edges \cup {new}) /\ SameBefore(edges, edges \cup {new}, d)
  <2>1. Edged({new}) /\ \A e \in {new} : e.from >= d
    BY <1>3, HierarchyAssumption DEF Edged, Days
  <2>2. SameBefore(edges, edges \cup {new}, d)
    BY <2>1, AddedLater
  <2> QED BY <1>3, <2>2 DEF Edged, PathInv
<1>5. \A f \in edges \cup {new} : f.from <= d /\ f.node \in nodes'
  BY <1>2, <1>3, HierarchyAssumption DEF InOrder, PathInv, Days
<1>6. IsTree(TreeOn(edges \cup {new}, d))
  <2> DEFINE T == TreeOn(edges, d)
  <2>1. IsTree(T)
    BY DEF PathInv
  <2>2. Covers(new, d)
    BY <1>3, HierarchyAssumption DEF Covers, Days
  <2>3. TreeOn(edges \cup {new}, d) = T \cup {Entry(new)}
    BY <2>2 DEF TreeOn, Entry
  <2>4. \A t \in T : t[1] # n
    BY <1>2, TreeOnIs, EntryIs DEF PathInv
  <2>5. \/ Entry(new) = <<n, None, <<n>>>>
        \/ \E q \in T : Entry(new) = <<n, q[1], Append(q[3], n)>>
    <3>1. CASE p = None
      BY <1>3, <3>1 DEF Entry
    <3>2. CASE p # None
      <4>1. PICK r \in edges : r.node = p /\ Covers(r, d)
        BY <1>2, <3>2 DEF ExistsAt
      <4>2. PathAt(edges, p, d) = r.path
        BY <4>1, RowAtOne DEF PathInv, Valid
      <4>3. Entry(r) \in T /\ Entry(r)[1] = p /\ Entry(r)[3] = r.path
        BY <4>1, TreeOnIs, EntryIs
      <4>4. Entry(new) = <<n, p, Append(r.path, n)>>
        BY <1>3, <3>2, <4>2 DEF Entry
      <4>5. Entry(new) = <<n, Entry(r)[1], Append(Entry(r)[3], n)>>
        BY <4>3, <4>4
      <4> QED BY <4>3, <4>5
    <3> QED BY <3>1, <3>2
  <2> HIDE DEF T
  <2>6. IsTree(T \cup {Entry(new)})
    BY <2>1, <2>4, <2>5, GrownTree
  <2> QED BY <2>3, <2>6
<1>7. nodes \subseteq nodes' /\ nodes' \subseteq Nodes
  BY <1>2 DEF PathInv
<1> QED BY <1>1, <1>2, <1>4, <1>5, <1>6, <1>7, CommittedTree

\* RescindNode: a leaf goes.
LEMMA RescindKeepsTree ==
    ASSUME PathInv, "date_order" \in Discipline, NEW n \in Nodes, NEW d \in Days, RescindNode(n, d)
    PROVE  PathInv'
<1> DEFINE later == {r \in edges : r.node = n /\ r.to >= d}
           after == Cut(edges, later, d)
<1>1. PICK ss : Transact(FALSE, after, ss)
  BY DEF RescindNode
<1>2. InOrder(d) /\ (~\E e \in edges : e.parent = n /\ Covers(e, d)) /\ UNCHANGED nodes
  BY DEF RescindNode
<1>3. Edged(after) /\ SameBefore(edges, after, d)
  BY CutLater DEF PathInv
<1>4. \A r \in edges : IsEdge(r) /\ r.from \in Int /\ r.to \in Int /\ r.from <= d /\ r.node \in nodes
  BY <1>2, HierarchyAssumption DEF PathInv, Edged, IsEdge, InOrder, Days
<1>5. \A r \in later : [r EXCEPT !.to = d - 1].node = r.node /\ [r EXCEPT !.to = d - 1].from = r.from
                       /\ [r EXCEPT !.to = d - 1].to = d - 1
  <2> SUFFICES ASSUME NEW r \in later PROVE [r EXCEPT !.to = d - 1].node = r.node /\ [r EXCEPT !.to = d - 1].from = r.from
                       /\ [r EXCEPT !.to = d - 1].to = d - 1
    OBVIOUS
  <2>1. [r EXCEPT !.to = d - 1] = [node |-> r.node, parent |-> r.parent, from |-> r.from, to |-> d - 1, path |-> r.path]
    BY <1>4, EdgeExcept
  <2> QED BY <2>1
<1>6. \A f \in after : f.from <= d /\ f.node \in nodes'
  <2>1. \A f \in after : f \in edges \/ (f.from < d /\ \E e \in later : f.node = e.node)
    BY CutRows DEF PathInv
  <2>2. \A f \in after : f.from \in Int
    BY <1>3, HierarchyAssumption DEF Edged, IsEdge, Days
  <2>3. d \in Int
    BY HierarchyAssumption DEF Days
  <2> HIDE DEF after
  <2> QED BY <1>2, <1>4, <2>1, <2>2, <2>3
<1>7. IsTree(TreeOn(after, d))
  <2> DEFINE T == TreeOn(edges, d)
  <2>1. TreeOn(after, d) = {t \in T : t[1] # n}
    <3>1. d \in Int
      BY HierarchyAssumption DEF Days
    <3>2. ASSUME NEW f \in after, Covers(f, d) PROVE f \in edges /\ f.node # n
      <4>1. f.to >= d
        BY <3>2 DEF Covers
      <4>2. ASSUME NEW r \in later, f = [r EXCEPT !.to = d - 1] PROVE FALSE
        <5>1. f.to = d - 1
          BY <1>5, <4>2
        <5> QED BY <3>1, <4>1, <5>1
      <4>3. f \in edges \ later
        BY <4>2 DEF Cut
      <4> QED BY <4>1, <4>3
    <3>3. ASSUME NEW f \in edges, Covers(f, d), f.node # n PROVE f \in after
      BY <3>3 DEF Cut
    <3>4. ASSUME NEW t \in TreeOn(after, d) PROVE t \in T /\ t[1] # n
      BY <3>2, TreeOnIs, EntryIs
    <3>5. ASSUME NEW t \in T, t[1] # n PROVE t \in TreeOn(after, d)
      <4>1. PICK f \in edges : Covers(f, d) /\ t = Entry(f)
        BY TreeOnIs
      <4>2. f.node # n
        BY <3>5, <4>1, EntryIs
      <4> QED BY <3>3, <4>1, <4>2, TreeOnIs
    <3> QED BY <3>4, <3>5
  <2>2. IsTree(T)
    BY DEF PathInv
  <2>3. \A t \in T : t[2] # n
    BY <1>2, TreeOnIs, EntryIs
  <2> HIDE DEF T
  <2>4. IsTree({t \in T : t[1] # n})
    BY <2>2, <2>3, PrunedTree
  <2> QED BY <2>1, <2>4
<1>8. nodes \subseteq nodes' /\ nodes' \subseteq Nodes
  BY <1>2 DEF PathInv
<1> HIDE DEF after
<1> QED BY <1>1, <1>2, <1>3, <1>6, <1>7, <1>8, CommittedTree

-----------------------------------------------------------------------------
(* Moves *)

LEMMA RowUnique ==
    ASSUME NEW es, NEW d, NEW e \in es, Covers(e, d), \A f \in es : f.node = e.node /\ Covers(f, d) => f = e
    PROVE  RowAt(es, e.node, d) = e /\ PathAt(es, e.node, d) = e.path
<1>1. ExistsAt(es, e.node, d)
  BY DEF ExistsAt
<1>2. RowAt(es, e.node, d) = e
  BY <1>1, RowAtIs
<1> QED BY <1>2 DEF PathAt

\* The table after the moved unit's edge is cut on d and its new edge is inserted.
Grafted(rows, moved, new, d) ==
    /\ Edged(rows) /\ IsEdge(new) /\ new.from = d /\ new.node = moved.node /\ Covers(new, d) /\ new \in rows
    /\ \A f \in rows : f.from <= d /\ f.node \in nodes
    /\ \A f \in rows : f.from >= d => Covers(f, d)
    /\ \A f \in rows : Covers(f, d) => f = new \/ (f \in edges /\ f # moved)
    /\ \A f \in edges : Covers(f, d) /\ f # moved => f \in rows

\* It hangs below q.
Hung(new, moved, q) == new.parent = q.node /\ new.path = Append(q.path, moved.node)

LEMMA GraftedIs ==
    ASSUME PathInv, NEW d \in Days, \A e \in edges : e.from <= d,
           NEW moved \in edges, Covers(moved, d), NEW q \in edges, Covers(q, d), q.node # moved.node, q.node \in Nodes,
           NEW new, new = NewEdge(Cut(edges, {moved}, d), q.node, moved.node, d, moved.to)
    PROVE  /\ Grafted(Cut(edges, {moved}, d) \cup {new}, moved, new, d)
           /\ Hung(new, moved, q)
<1> DEFINE cut == Cut(edges, {moved}, d)
<1>1. \A e \in edges : IsEdge(e) /\ e.from \in Int /\ e.to \in Int /\ e.from <= e.to /\ e.from <= d /\ e.node \in nodes
  BY HierarchyAssumption DEF PathInv, Edged, IsEdge, Days, Valid
<1>2. d \in Int /\ None \notin Nodes
  BY HierarchyAssumption DEF Days
<1>3. /\ \A f \in edges \ {moved} : f \in cut
      /\ \A f \in cut : f \in edges \ {moved} \/ (f.from < d /\ f.to = d - 1 /\ f.node = moved.node)
  <2>1. Edged(edges) /\ {moved} \in SUBSET edges
    BY DEF PathInv
  <2>2. \A e \in {moved} : e = moved
    OBVIOUS
  <2> HIDE DEF cut
  <2>3. /\ \A f \in edges \ {moved} : f \in cut
        /\ \A f \in cut : f \in edges \ {moved} \/ (f.from < d /\ f.to = d - 1 /\ \E e \in {moved} : f.node = e.node)
    BY <2>1, CutRows DEF cut
  <2> QED BY <2>2, <2>3
<1>4. Edged(cut)
  <2>1. \A e \in {moved} : e.to >= d
    BY <1>1, <1>2 DEF Covers
  <2>2. Edged(edges) /\ {moved} \in SUBSET edges
    BY DEF PathInv
  <2> QED BY <2>1, <2>2, CutLater
<1> HIDE DEF cut
<1>0. \A f \in cut : f.from \in Int /\ f.to \in Int
  BY <1>4, HierarchyAssumption DEF Edged, IsEdge, Days
<1>5. PathAt(cut, q.node, d) = q.path
  <2>1. q \in cut
    BY <1>3
  <2>2. \A f \in cut : f.node = q.node /\ Covers(f, d) => f = q
    BY <1>3, OneRow DEF PathInv, Valid
  <2> QED BY <2>1, <2>2, RowUnique
<1>6. /\ new.node = moved.node /\ new.parent = q.node /\ new.from = d /\ new.to = moved.to
      /\ new = [node |-> new.node, parent |-> new.parent, from |-> new.from, to |-> new.to, path |-> new.path]
      /\ new.path = Append(PathAt(cut, q.node, d), moved.node)
  BY <1>2 DEF NewEdge, cut
<1>7. IsEdge(new) /\ Covers(new, d)
  BY <1>1, <1>2, <1>6 DEF IsEdge, Covers
<1>8. Grafted(cut \cup {new}, moved, new, d)
  <2>1. Edged(cut \cup {new})
    BY <1>4, <1>7 DEF Edged
  <2>2. \A f \in cut \cup {new} : f.from <= d /\ f.node \in nodes
    <3>1. ASSUME NEW f \in cut PROVE f.from <= d /\ f.node \in nodes
      BY <1>0, <1>1, <1>2, <1>3, <3>1
    <3>2. new.from <= d /\ new.node \in nodes
      BY <1>1, <1>2, <1>6
    <3> QED BY <3>1, <3>2
  <2>3. \A f \in cut \cup {new} : f.from >= d => Covers(f, d)
    <3>1. ASSUME NEW f \in cut, f.from >= d PROVE Covers(f, d)
      <4>1. f \in edges
        BY <1>0, <1>2, <1>3, <3>1
      <4> QED BY <1>1, <1>2, <3>1, <4>1 DEF Covers
    <3> QED BY <1>7, <3>1
  <2>4. \A f \in cut \cup {new} : Covers(f, d) => f = new \/ (f \in edges /\ f # moved)
    <3>1. ASSUME NEW f \in cut, Covers(f, d) PROVE f \in edges /\ f # moved
      BY <1>2, <1>3, <3>1 DEF Covers
    <3> QED BY <3>1
  <2> QED BY <1>3, <1>6, <1>7, <2>1, <2>2, <2>3, <2>4 DEF Grafted
<1> QED BY <1>5, <1>6, <1>8 DEF cut, Hung

Below(moved, d) == Subtree(moved.path, d) \ {moved}

\* The parents of what is below the moved unit.
LEMMA BelowIs ==
    ASSUME PathInv, NEW d \in Days, NEW moved \in edges, Covers(moved, d), NEW rows, NEW new, Grafted(rows, moved, new, d)
    PROVE  SubtreeOf(rows, Below(moved, d), d, moved.path, new.path)
<1> DEFINE T == TreeOn(edges, d)
           m == Entry(moved)
<1>1. IsTree(T)
  BY DEF PathInv
<1>2. \A e \in edges : Covers(e, d) => Entry(e) \in T
  BY TreeOnIs
<1>3. \A t \in T : \E e \in edges : Covers(e, d) /\ t = Entry(e)
  BY TreeOnIs
<1>4. m \in T /\ m[3] = moved.path /\ m[1] = moved.node
  BY <1>2, EntryIs
<1> HIDE DEF T, m
<1>5. \A e \in Below(moved, d) : e \in edges /\ Covers(e, d) /\ InSubtree(e.path, moved.path) /\ e # moved
  BY DEF Below, Subtree
<1>6. \A e, u \in edges : Covers(e, d) /\ Covers(u, d) /\ e.node = u.node => e = u
  BY OneRow DEF PathInv, Valid
<1>7. ASSUME NEW e \in Below(moved, d)
      PROVE  /\ e.node \in Nodes /\ e.path \in Seq(Nodes) /\ Len(moved.path) <= Len(e.path)
             /\ (\E u \in Below(moved, d) : ParentIn(e, u)) \/ ParentMoved(e, rows, Below(moved, d), d, moved.path, new.path)
  <2>1. PICK t \in T : t = Entry(e)
    BY <1>2, <1>5
  <2>2. t[1] = e.node /\ t[2] = e.parent /\ t[3] = e.path
    BY <2>1, EntryIs
  <2>3. e.node \in Nodes /\ e.path \in Seq(Nodes)
    BY <1>1, <2>2 DEF IsTree
  <2>4. t # m
    BY <1>4, <1>5, <1>6, <2>2
  <2>5. InSubtree(t[3], m[3])
    BY <1>4, <1>5, <2>2
  <2>6. Len(m[3]) <= Len(t[3]) /\ Len(t[3]) > Len(m[3]) /\ Len(m[3]) \in Nat
    BY <1>1, <1>4, <2>4, <2>5, BelowLonger
  <2>7. Len(m[3]) >= 1 /\ (t[2] = None => Len(t[3]) = 1)
    BY <1>1, <1>4, Above
  <2>8. PICK z \in T : z[1] = t[2] /\ t[3] = Append(z[3], t[1])
    BY <1>1, <2>6, <2>7, Above
  <2>9. InSubtree(z[3], m[3])
    BY <1>1, <1>4, <2>4, <2>5, <2>8, SubtreeUp
  <2>10. PICK r \in edges : Covers(r, d) /\ z = Entry(r)
    BY <1>3
  <2>11. z[1] = r.node /\ z[3] = r.path
    BY <2>10, EntryIs
  <2>12. e.parent = r.node /\ e.path = Append(r.path, e.node)
    BY <2>2, <2>8, <2>11
  <2>13. CASE r = moved
    <3>1. \A u \in Below(moved, d) : u.node # e.parent
      BY <1>5, <1>6, <2>12, <2>13
    <3>2. PathAt(rows, new.node, d) = new.path /\ new.node = moved.node
      <4>1. new \in rows /\ Covers(new, d) /\ new.node = moved.node
        BY DEF Grafted
      <4>2. \A f \in rows : Covers(f, d) => f = new \/ (f \in edges /\ f # moved)
        BY DEF Grafted
      <4>3. \A f \in rows : f.node = new.node /\ Covers(f, d) => f = new
        BY <1>6, <4>1, <4>2
      <4> QED BY <4>1, <4>3, RowUnique
    <3> QED BY <1>4, <2>2, <2>3, <2>6, <2>12, <2>13, <3>1, <3>2 DEF ParentMoved
  <2>14. CASE r # moved
    <3>1. r \in Below(moved, d)
      BY <1>4, <2>9, <2>10, <2>11, <2>14 DEF Below, Subtree
    <3> QED BY <1>4, <2>2, <2>3, <2>6, <2>12, <3>1 DEF ParentIn
  <2> QED BY <2>13, <2>14
<1> QED BY <1>5, <1>6, <1>7 DEF SubtreeOf

LEMMA RewrittenIs ==
    ASSUME NEW es, NEW d, NEW old, NEW new
    PROVE  Rewritten(es, d, old, new)
               = {IF e.from >= d /\ InSubtree(e.path, old) /\ Len(e.path) > Len(old)
                  THEN [e EXCEPT !.path = Renamed(e.path, old, new)] ELSE e : e \in es}
BY DEF Rewritten, Renamed

\* The rewrite after the re-insertion finds nothing to rewrite, and what is in
\* force on d is the tree in which the moved unit hangs below q.
LEMMA RegraftedIs ==
    ASSUME PathInv, NEW d \in Days, NEW moved \in edges, Covers(moved, d), NEW q \in edges, Covers(q, d),
           ~InSubtree(q.path, moved.path), NEW rows, NEW new, Grafted(rows, moved, new, d), Hung(new, moved, q),
           NEW after, after = Rewritten(Resliced(rows, Below(moved, d), d), d, moved.path, new.path)
    PROVE  (\A f \in after : f.from <= d /\ f.node \in nodes) /\ IsTree(TreeOn(after, d))
<1> DEFINE T == TreeOn(edges, d)
           m == Entry(moved)
           k == Entry(q)
           old == moved.path
           below == Below(moved, d)
           R(e)  == Renamed(e.path, old, new.path)
           re(e) == [e EXCEPT !.from = d, !.path = R(e)]
           resliced == Resliced(rows, below, d)
           cut == Cut(rows, below, d)
<1>1. IsTree(T)
  BY DEF PathInv
<1>2. \A e \in edges : Covers(e, d) => Entry(e) \in T
  BY TreeOnIs
<1>3. \A t \in T : \E e \in edges : Covers(e, d) /\ t = Entry(e)
  BY TreeOnIs
<1>4. m \in T /\ m[3] = old /\ m[1] = moved.node /\ k \in T /\ k[3] = q.path /\ k[1] = q.node
  BY <1>2, EntryIs
<1>5. \A e \in below : e \in edges /\ Covers(e, d) /\ InSubtree(e.path, old) /\ e # moved
  BY DEF Below, Subtree
<1>6. \A e \in edges : Covers(e, d) /\ InSubtree(e.path, old) /\ e # moved => e \in below
  BY DEF Below, Subtree
<1>7. \A e, u \in edges : Covers(e, d) /\ Covers(u, d) /\ e.node = u.node => e = u
  BY OneRow DEF PathInv, Valid
<1>8. \A e \in edges : Covers(e, d) => e.node \in Nodes /\ e.path \in Seq(Nodes)
  <2> SUFFICES ASSUME NEW e \in edges, Covers(e, d) PROVE e.node \in Nodes /\ e.path \in Seq(Nodes)
    OBVIOUS
  <2>1. PICK t \in T : t = Entry(e)
    BY <1>2
  <2> QED BY <1>1, <2>1, EntryIs DEF IsTree
<1>9. /\ Edged(rows) /\ IsEdge(new) /\ new.from = d /\ new.node = moved.node /\ Covers(new, d) /\ new \in rows
      /\ \A f \in rows : f.from <= d /\ f.node \in nodes
      /\ \A f \in rows : f.from >= d => Covers(f, d)
      /\ \A f \in rows : Covers(f, d) => f = new \/ (f \in edges /\ f # moved)
      /\ \A f \in edges : Covers(f, d) /\ f # moved => f \in rows
  BY DEF Grafted
<1>10. new.parent = q.node /\ new.path = Append(q.path, moved.node)
  BY DEF Hung
<1>11. old \in Seq(Nodes) /\ new.path \in Seq(Nodes)
  BY <1>8, <1>10
<1>12. d \in Int
  BY HierarchyAssumption DEF Days
<1>13. \A e \in rows : IsEdge(e) /\ e.from \in Int /\ e.to \in Int
  BY <1>9, HierarchyAssumption DEF Edged, IsEdge, Days
<1> HIDE DEF T, m, k, below
<1>14. below \in SUBSET rows
  BY <1>5, <1>9
<1>15. resliced = cut \cup {re(e) : e \in below}
  <2>1. SubtreeOf(rows, below, d, old, new.path)
    BY BelowIs DEF below
  <2>2. resliced = Replaced(rows, below, d, old, new.path)
    BY <1>11, <2>1, ReslicedTo
  <2> HIDE DEF resliced
  <2> QED BY <2>2 DEF Replaced
<1>16. ASSUME NEW e \in below
       PROVE  /\ IsEdge(re(e)) /\ re(e).node = e.node /\ re(e).parent = e.parent
              /\ re(e).from = d /\ re(e).to = e.to /\ re(e).path = R(e) /\ Covers(re(e), d)
  <2> DEFINE x == R(e)
             rec == [node |-> e.node, parent |-> e.parent, from |-> d, to |-> e.to, path |-> x]
  <2>1. IsEdge(e) /\ Covers(e, d)
    BY <1>5, <1>13, <1>14
  <2> HIDE DEF x
  <2>2. [e EXCEPT !.from = d, !.path = x] = rec
    BY <2>1, EdgeRestExcept
  <2>3. /\ IsEdge(rec) /\ rec.node = e.node /\ rec.parent = e.parent
        /\ rec.from = d /\ rec.to = e.to /\ rec.path = x /\ Covers(rec, d)
    BY <1>12, <2>1 DEF IsEdge, Covers
  <2> HIDE DEF rec
  <2> QED BY <2>2, <2>3 DEF x
<1> HIDE DEF re
<1>17. /\ \A f \in rows \ below : f \in cut
       /\ \A f \in cut : f \in rows \ below \/ (f.from < d /\ f.to = d - 1 /\ \E e \in below : f.node = e.node)
  BY <1>9, <1>14, CutRows
<1>18. \A f \in cut : f.from \in Int /\ f.to \in Int
  <2>1. \A e \in below : e.to >= d
    BY <1>5 DEF Covers
  <2>2. Edged(cut)
    BY <1>9, <1>14, <2>1, CutLater
  <2> QED BY <2>2, HierarchyAssumption DEF Edged, IsEdge, Days
<1> HIDE DEF cut
\* The rewrite.
<1>19. ASSUME NEW e \in edges, Covers(e, d), InSubtree(e.path, old), InSubtree(R(e), old) PROVE old = new.path
  <2>1. PICK t \in T : t = Entry(e)
    BY <1>2, <1>19
  <2>2. t[3] = e.path
    BY <2>1, EntryIs
  <2>3. new.path = Append(k[3], m[1])
    BY <1>4, <1>10
  <2>4. InSubtree(t[3], m[3]) /\ InSubtree(Renamed(t[3], m[3], Append(k[3], m[1])), m[3]) /\ ~InSubtree(k[3], m[3])
    BY <1>4, <1>19, <2>2, <2>3
  <2>5. m[3] = Append(k[3], m[1])
    BY <1>1, <1>4, <2>4, NotBelowOld
  <2> QED BY <1>4, <2>3, <2>5
<1>20. ASSUME NEW f \in resliced, f.from >= d, InSubtree(f.path, old), Len(f.path) > Len(old)
       PROVE  IsEdge(f) /\ Renamed(f.path, old, new.path) = f.path
  <2>1. CASE f \in cut
    <3>1. f \in rows /\ f \notin below
      BY <1>12, <1>17, <1>18, <1>20, <2>1
    <3>2. Covers(f, d)
      BY <1>9, <1>20, <3>1
    <3>3. f = new
      BY <1>6, <1>9, <1>20, <3>1, <3>2
    <3>4. Renamed(old, old, new.path) = new.path /\ InSubtree(old, old)
      BY <1>11, RenamedSelf, PrefixIs
    <3>5. old = new.path
      BY <1>19, <1>20, <3>3, <3>4
    <3> QED BY <1>11, <1>20, <3>3, <3>5
  <2>2. CASE \E e \in below : f = re(e)
    <3>1. PICK e \in below : f = re(e)
      BY <2>2
    <3>2. IsEdge(f) /\ f.path = R(e)
      BY <1>16, <3>1
    <3>3. old = new.path
      BY <1>5, <1>19, <1>20, <3>2
    <3>4. e.path \in Seq(Nodes) /\ InSubtree(e.path, old)
      BY <1>5, <1>8
    <3>5. R(e) = e.path
      BY <1>11, <3>3, <3>4, RenamedSelf
    <3> QED BY <1>11, <3>2, <3>3, <3>4, <3>5, RenamedSelf
  <2> QED BY <1>15, <2>1, <2>2
<1>21. after = resliced
  <2> DEFINE same(f) == IF f.from >= d /\ InSubtree(f.path, old) /\ Len(f.path) > Len(old)
                        THEN [f EXCEPT !.path = Renamed(f.path, old, new.path)] ELSE f
  <2>1. after = {same(f) : f \in resliced}
    <3>1. Rewritten(resliced, d, old, new.path) = {same(f) : f \in resliced}
      <4> HIDE DEF resliced, old
      <4> QED BY RewrittenIs, Zenon
    <3>2. after = Rewritten(resliced, d, old, new.path)
      BY DEF below
    <3> HIDE DEF same, resliced, old
    <3> QED BY <3>1, <3>2
  <2>2. ASSUME NEW f \in resliced PROVE same(f) = f
    <3>1. CASE f.from >= d /\ InSubtree(f.path, old) /\ Len(f.path) > Len(old)
      <4>1. IsEdge(f) /\ Renamed(f.path, old, new.path) = f.path
        BY <1>20, <3>1
      <4>2. [f EXCEPT !.path = f.path] = f
        BY <4>1, EdgePathExcept DEF IsEdge
      <4> QED BY <3>1, <4>1, <4>2
    <3> QED BY <3>1
  <2> HIDE DEF same
  <2> QED BY <2>1, <2>2
\* The tree of the day.
<1>22. \A f \in after : f.from <= d /\ f.node \in nodes
  <2>1. ASSUME NEW f \in cut PROVE f.from <= d /\ f.node \in nodes
    <3>1. \A e \in below : e.node \in nodes
      BY <1>5 DEF PathInv
    <3> QED BY <1>9, <1>12, <1>17, <1>18, <3>1
  <2>2. ASSUME NEW e \in below PROVE re(e).from <= d /\ re(e).node \in nodes
    BY <1>5, <1>12, <1>16 DEF PathInv
  <2> QED BY <1>15, <1>21, <2>1, <2>2
<1> DEFINE ME(t) == MovedEntry(t, m, k, Append(k[3], m[1]))
<1>23. new.path = Append(k[3], m[1])
  BY <1>4, <1>10
<1>24. ME(m) = Entry(new)
  <2>1. InSubtree(old, old) /\ Renamed(old, old, new.path) = new.path
    BY <1>11, PrefixIs, RenamedSelf
  <2>2. ME(m) = <<m[1], k[1], new.path>>
    BY <1>4, <1>23, <2>1 DEF MovedEntry
  <2> QED BY <1>4, <1>9, <1>10, <2>2 DEF Entry
<1>25. ASSUME NEW e \in below PROVE ME(Entry(e)) = Entry(re(e))
  <2>1. Entry(e) # m
    BY <1>4, <1>5, <1>7, EntryIs
  <2>2. InSubtree(Entry(e)[3], m[3])
    BY <1>4, <1>5, EntryIs
  <2>3. ME(Entry(e)) = <<Entry(e)[1], Entry(e)[2], Renamed(Entry(e)[3], m[3], new.path)>>
    BY <1>23, <2>1, <2>2 DEF MovedEntry
  <2>4. ME(Entry(e)) = <<e.node, e.parent, R(e)>>
    BY <1>4, <2>3, EntryIs
  <2> QED BY <1>16, <2>4 DEF Entry
<1>26. ASSUME NEW e \in edges, Covers(e, d), e # moved, e \notin below PROVE ME(Entry(e)) = Entry(e)
  <2>1. ~InSubtree(Entry(e)[3], m[3])
    BY <1>4, <1>6, <1>26, EntryIs
  <2> QED BY <2>1 DEF MovedEntry
<1> HIDE DEF ME, R
<1>27. ASSUME NEW u \in TreeOn(after, d) PROVE \E t \in T : u = ME(t)
  <2>1. PICK f \in after : Covers(f, d) /\ u = Entry(f)
    BY TreeOnIs
  <2>2. CASE f \in cut
    <3>1. f \in rows /\ f \notin below
      BY <1>12, <1>17, <2>1, <2>2 DEF Covers
    <3>2. CASE f = new
      BY <1>4, <1>24, <2>1, <3>2
    <3>3. CASE f \in edges /\ f # moved
      BY <1>2, <1>26, <2>1, <3>1, <3>3
    <3> QED BY <1>9, <2>1, <3>1, <3>2, <3>3
  <2>3. CASE \E e \in below : f = re(e)
    <3>1. PICK e \in below : f = re(e)
      BY <2>3
    <3>2. Entry(e) \in T
      BY <1>2, <1>5
    <3> QED BY <1>25, <2>1, <3>1, <3>2
  <2> QED BY <1>15, <1>21, <2>1, <2>2, <2>3
<1>28. ASSUME NEW t \in T PROVE ME(t) \in TreeOn(after, d)
  <2>1. PICK e \in edges : Covers(e, d) /\ t = Entry(e)
    BY <1>3
  <2>2. CASE e = moved
    <3>1. new \in after
      <4>1. new \notin below
        BY <1>5, <1>7, <1>9
      <4> QED BY <1>9, <1>15, <1>17, <1>21, <4>1
    <3>2. ME(t) = Entry(new)
      BY <1>24, <2>1, <2>2 DEF m
    <3> QED BY <1>9, <3>1, <3>2, TreeOnIs
  <2>3. CASE e \in below
    <3>1. re(e) \in after
      BY <1>15, <1>21, <2>3
    <3> QED BY <1>16, <1>25, <2>1, <2>3, <3>1, TreeOnIs
  <2>4. CASE e # moved /\ e \notin below
    <3>1. e \in after
      BY <1>9, <1>15, <1>17, <1>21, <2>1, <2>4
    <3> QED BY <1>26, <2>1, <2>4, <3>1, TreeOnIs
  <2> QED BY <2>2, <2>3, <2>4
<1>29. TreeOn(after, d) = {ME(t) : t \in T}
  BY <1>27, <1>28
<1>30. IsTree({ME(t) : t \in T})
  BY <1>1, <1>4, MovedTree DEF ME
<1> QED BY <1>22, <1>29, <1>30

\* MoveNode and CorrectMoveNode.
LEMMA MoveKeepsTree ==
    ASSUME PathInv, "date_order" \in Discipline, "outside_subtree" \in Discipline,
           NEW n \in Nodes, NEW p \in Nodes, NEW d \in Days, MoveNode(n, p, d) \/ CorrectMoveNode(n, p, d)
    PROVE  PathInv'
<1> DEFINE moved   == RowAt(edges, n, d)
           q       == RowAt(edges, p, d)
           below   == Subtree(moved.path, d) \ {moved}
           cut     == Cut(edges, {moved}, d)
           new     == NewEdge(cut, p, n, d, moved.to)
           grafted == cut \cup {new}
           raised  == TriggerRaises(cut, p, n, d) \/ \E e \in below : TriggerRaises(Cut(grafted, {e}, d), e.parent, e.node, d)
           after   == Rewritten(Resliced(grafted, below, d), d, moved.path, new.path)
<1>1. PICK ss : Transact(Regraft(n, p, d).raised, Regraft(n, p, d).edges, ss)
  BY DEF MoveNode, CorrectMoveNode
<1>2. InOrder(d) /\ ExistsAt(edges, n, d) /\ ExistsAt(edges, p, d) /\ UNCHANGED nodes
  BY DEF MoveNode, CorrectMoveNode, MayMove
<1>3. p # n /\ ~InSubtree(q.path, moved.path)
  BY DEF MoveNode, CorrectMoveNode, MayMove, PathAt
<1>4. Regraft(n, p, d).raised = raised /\ Regraft(n, p, d).edges = IF raised THEN edges ELSE after
  BY DEF Regraft
<1>5. moved \in edges /\ moved.node = n /\ Covers(moved, d) /\ q \in edges /\ q.node = p /\ Covers(q, d)
  BY <1>2, RowAtIs
<1>6. Edged(Regraft(n, p, d).edges) /\ SameBefore(edges, Regraft(n, p, d).edges, d)
  BY <1>2, RegraftLater DEF PathInv
<1>7. \A e \in edges : e.from <= d
  BY <1>2 DEF InOrder
<1>8. new = NewEdge(Cut(edges, {moved}, d), q.node, moved.node, d, moved.to)
  BY <1>5
<1> HIDE DEF moved, q, new, raised
<1>9. Grafted(grafted, moved, new, d) /\ Hung(new, moved, q)
  BY <1>3, <1>5, <1>7, <1>8, GraftedIs
<1> HIDE DEF grafted
<1>10. (\A f \in after : f.from <= d /\ f.node \in nodes) /\ IsTree(TreeOn(after, d))
  <2>1. after = Rewritten(Resliced(grafted, Below(moved, d), d), d, moved.path, new.path)
    BY DEF Below
  <2> HIDE DEF after
  <2> QED BY <1>3, <1>5, <1>9, <2>1, RegraftedIs
<1> HIDE DEF after
<1>11. raised \/ Regraft(n, p, d).edges = after
  BY <1>4
<1>12. nodes \subseteq nodes' /\ nodes' \subseteq Nodes
  BY <1>2 DEF PathInv
<1>13. CASE raised
  BY <1>1, <1>2, <1>4, <1>12, <1>13, CommittedTree
<1>14. CASE ~raised
  <2>1. Regraft(n, p, d).edges = after
    BY <1>11, <1>14
  <2>2. Edged(after) /\ SameBefore(edges, after, d) /\ Transact(raised, after, ss)
    BY <1>1, <1>4, <1>6, <2>1
  <2>3. \A f \in after : f.from <= d /\ f.node \in nodes'
    BY <1>2, <1>10
  <2> QED BY <1>2, <1>10, <1>12, <2>2, <2>3, CommittedTree
<1> QED BY <1>13, <1>14

-----------------------------------------------------------------------------
(* Undoing a move *)

\* A rewritten row differs in its path, and only if it starts on d or later.
LEMMA RewrittenRows ==
    ASSUME NEW es, Edged(es), NEW d, NEW old, NEW new
    PROVE  /\ \A e \in es : \E f \in Rewritten(es, d, old, new) :
                  /\ f.node = e.node /\ f.parent = e.parent /\ f.from = e.from /\ f.to = e.to
                  /\ f.path = IF e.from >= d /\ InSubtree(e.path, old) /\ Len(e.path) > Len(old)
                              THEN Renamed(e.path, old, new) ELSE e.path
           /\ \A f \in Rewritten(es, d, old, new) : \E e \in es :
                  /\ f.node = e.node /\ f.parent = e.parent /\ f.from = e.from /\ f.to = e.to
                  /\ f.path = IF e.from >= d /\ InSubtree(e.path, old) /\ Len(e.path) > Len(old)
                              THEN Renamed(e.path, old, new) ELSE e.path
<1> DEFINE hit(e)   == e.from >= d /\ InSubtree(e.path, old) /\ Len(e.path) > Len(old)
           path(e)  == Renamed(e.path, old, new)
           image(e) == IF hit(e) THEN [e EXCEPT !.path = path(e)] ELSE e
<1>1. Rewritten(es, d, old, new) = {image(e) : e \in es}
  BY RewrittenIs, Zenon
<1> HIDE DEF hit, path
<1>2. ASSUME NEW e \in es
      PROVE  LET f == image(e) IN
             /\ f.node = e.node /\ f.parent = e.parent /\ f.from = e.from /\ f.to = e.to
             /\ f.path = IF hit(e) THEN path(e) ELSE e.path
  <2>1. [e EXCEPT !.path = path(e)] = [node |-> e.node, parent |-> e.parent, from |-> e.from, to |-> e.to, path |-> path(e)]
    BY EdgePathExcept DEF Edged
  <2> QED BY <2>1
<1> HIDE DEF image
<1>3. /\ \A e \in es : \E f \in Rewritten(es, d, old, new) :
             /\ f.node = e.node /\ f.parent = e.parent /\ f.from = e.from /\ f.to = e.to
             /\ f.path = IF hit(e) THEN path(e) ELSE e.path
      /\ \A f \in Rewritten(es, d, old, new) : \E e \in es :
             /\ f.node = e.node /\ f.parent = e.parent /\ f.from = e.from /\ f.to = e.to
             /\ f.path = IF hit(e) THEN path(e) ELSE e.path
  BY <1>1, <1>2
<1> QED BY <1>3 DEF hit, path

\* prev goes back in force on d, below p, where it was the day before.
Undone(target, prev, p, d) ==
    /\ target \in edges /\ prev \in edges /\ p \in edges
    /\ target.node = prev.node /\ target.from = d /\ prev.to = d - 1
    /\ p.node = prev.parent /\ Covers(p, d) /\ p.from < d

LEMMA UndoneIs ==
    ASSUME PathInv, NEW d \in Days, NEW target, NEW prev, NEW p, Undone(target, prev, p, d)
    PROVE  /\ prev.path = Append(p.path, target.node)
           /\ ~InSubtree(p.path, target.path)
           /\ \A e \in edges : Covers(e, d) /\ e.from < d /\ InSubtree(e.path, target.path) => target.path = prev.path
<1> DEFINE T  == TreeOn(edges, d)
           T0 == TreeOn(edges, d - 1)
           m  == Entry(target)
           b  == Entry(prev)
           k  == Entry(p)
<1>1. /\ target \in edges /\ prev \in edges /\ p \in edges
      /\ target.node = prev.node /\ target.from = d /\ prev.to = d - 1
      /\ p.node = prev.parent /\ Covers(p, d) /\ p.from < d
  BY DEF Undone
<1>2. \A e \in edges : e.from \in Nat /\ e.to \in Nat /\ e.from <= e.to /\ e.node \in Nodes
  BY HierarchyAssumption DEF PathInv, Edged, IsEdge, Days, Valid
<1>3. d \in Nat /\ d - 1 \in Days /\ None \notin Nodes
  BY <1>1, <1>2, HierarchyAssumption DEF Days
<1>4. Covers(target, d) /\ Covers(prev, d - 1) /\ \A e \in edges : Covers(e, d) /\ e.from < d => Covers(e, d - 1)
  BY <1>1, <1>2, <1>3 DEF Covers
<1>5. IsTree(T) /\ IsTree(T0)
  BY <1>3 DEF PathInv
<1>6. /\ \A e \in edges : Covers(e, d) => Entry(e) \in T
      /\ \A e \in edges : Covers(e, d - 1) => Entry(e) \in T0
  BY TreeOnIs
<1>7. m \in T /\ b \in T0 /\ k \in T0
  BY <1>1, <1>4, <1>6
<1>8. /\ m[1] = target.node /\ m[3] = target.path
      /\ b[1] = prev.node /\ b[2] = prev.parent /\ b[3] = prev.path /\ k[1] = p.node /\ k[3] = p.path
  BY EntryIs
<1> HIDE DEF T, T0, m, b, k
<1>9. \A t, u \in T0 : t[1] = u[1] => t = u
  BY <1>5 DEF IsTree
<1>10. \A t \in T \cup T0 : t[3] \in Seq(Nodes)
  BY <1>5 DEF IsTree
<1>11. b[3] = Append(k[3], b[1]) /\ Len(b[3]) = Len(k[3]) + 1 /\ Begins(k, b) /\ Len(b[3]) \in Nat /\ b[3][Len(b[3])] = b[1]
  <2>1. b[2] # None
    BY <1>1, <1>2, <1>3, <1>8
  <2>2. PICK z \in T0 : /\ z[1] = b[2] /\ b[3] = Append(z[3], b[1])
                        /\ Len(b[3]) = Len(z[3]) + 1 /\ Begins(z, b)
    BY <1>5, <1>7, <2>1, Above
  <2>3. z = k
    BY <1>1, <1>7, <1>8, <1>9, <2>2
  <2>4. Len(b[3]) \in Nat /\ b[3][Len(b[3])] = b[1]
    BY <1>5, <1>7, Above
  <2> QED BY <2>2, <2>3, <2>4
<1>12. Len(m[3]) \in Nat /\ Len(m[3]) >= 1 /\ m[3][Len(m[3])] = m[1]
  BY <1>5, <1>7, Above
<1>13. ~InSubtree(k[3], m[3])
  <2> SUFFICES ASSUME InSubtree(k[3], m[3]) PROVE FALSE
    OBVIOUS
  <2>1. Len(m[3]) <= Len(k[3]) /\ \A i \in 1..Len(m[3]) : m[3][i] = k[3][i]
    BY <1>7, <1>10, PrefixIs
  <2>2. Len(k[3]) \in Nat
    BY <1>7, <1>10
  <2>3. Len(m[3]) \in 1..Len(m[3]) /\ Len(m[3]) \in 1..Len(k[3]) /\ Len(m[3]) \in 1..Len(b[3]) /\ Len(b[3]) \in 1..Len(b[3])
    BY <1>11, <1>12, <2>1, <2>2
  <2>4. k[3][Len(m[3])] = b[3][Len(m[3])]
    BY <1>11, <2>3 DEF Begins
  <2>5. b[3][Len(m[3])] = b[3][Len(b[3])]
    BY <1>1, <1>8, <1>11, <1>12, <2>1, <2>3, <2>4
  <2>6. Len(m[3]) = Len(b[3])
    BY <1>5, <1>7, <2>3, <2>5, Once
  <2> QED BY <1>11, <2>1, <2>2, <2>6
<1>14. ASSUME NEW e \in edges, Covers(e, d), e.from < d, InSubtree(e.path, target.path) PROVE m[3] = b[3]
  <2>1. PICK t \in T : t = Entry(e)
    BY <1>6, <1>14
  <2>2. t \in T0
    BY <1>4, <1>6, <1>14, <2>1
  <2>3. t[3] = e.path
    BY <2>1, EntryIs
  <2>4. Len(m[3]) <= Len(t[3]) /\ \A i \in 1..Len(m[3]) : m[3][i] = t[3][i]
    BY <1>7, <1>8, <1>10, <1>14, <2>3, PrefixIs
  <2>5. Len(t[3]) \in Nat
    BY <1>10, <2>2
  <2>6. Len(m[3]) \in 1..Len(m[3]) /\ Len(m[3]) \in 1..Len(t[3])
    BY <1>12, <2>4, <2>5
  <2>7. PICK z \in T0 : z[1] = t[3][Len(m[3])] /\ Len(z[3]) = Len(m[3]) /\ Begins(z, t)
    BY <1>5, <2>2, <2>6, Through
  <2>8. z = b
    BY <1>1, <1>7, <1>8, <1>9, <1>12, <2>4, <2>6, <2>7
  <2>9. Len(b[3]) = Len(m[3]) /\ \A i \in 1..Len(m[3]) : m[3][i] = b[3][i]
    BY <2>4, <2>7, <2>8 DEF Begins
  <2> QED BY <1>7, <1>10, <2>9, SeqEqual
<1> QED BY <1>1, <1>8, <1>11, <1>13, <1>14

\* What is in force on d after the undo is the tree in which the unit hangs below p again.
LEMMA UndoneTree ==
    ASSUME PathInv, NEW d \in Days, \A e \in edges : e.from <= d,
           NEW target, NEW prev, NEW p, Undone(target, prev, p, d),
           NEW after, after = Rewritten((edges \ {target, prev}) \cup {[prev EXCEPT !.to = target.to]}, d, target.path, prev.path)
    PROVE  (\A f \in after : f.from <= d /\ f.node \in nodes) /\ IsTree(TreeOn(after, d))
<1> DEFINE T  == TreeOn(edges, d)
           m  == Entry(target)
           k  == Entry(p)
           a  == target.path
           b  == prev.path
           joined == [prev EXCEPT !.to = target.to]
           stitched == (edges \ {target, prev}) \cup {joined}
           path(e) == IF e.from >= d /\ InSubtree(e.path, a) /\ Len(e.path) > Len(a) THEN Renamed(e.path, a, b) ELSE e.path
           Same(f, e) == f.node = e.node /\ f.parent = e.parent /\ f.from = e.from /\ f.to = e.to
           ME(t) == MovedEntry(t, m, k, Append(k[3], m[1]))
<1>1. /\ target \in edges /\ prev \in edges /\ p \in edges
      /\ target.node = prev.node /\ target.from = d /\ prev.to = d - 1
      /\ p.node = prev.parent /\ Covers(p, d) /\ p.from < d
  BY DEF Undone
<1>2. /\ b = Append(p.path, target.node)
      /\ ~InSubtree(p.path, a)
      /\ \A e \in edges : Covers(e, d) /\ e.from < d /\ InSubtree(e.path, a) => a = b
  BY UndoneIs
<1>3. \A e \in edges : IsEdge(e) /\ e.from \in Nat /\ e.to \in Nat /\ e.from <= e.to /\ e.node \in nodes
  BY HierarchyAssumption DEF PathInv, Edged, IsEdge, Days, Valid
<1>4. d \in Nat
  BY HierarchyAssumption DEF Days
<1>5. IsTree(T)
  BY DEF PathInv
<1>6. \A e \in edges : Covers(e, d) => Entry(e) \in T
  BY TreeOnIs
<1>7. \A t \in T : \E e \in edges : Covers(e, d) /\ t = Entry(e)
  BY TreeOnIs
<1>8. Covers(target, d) /\ ~Covers(prev, d)
  BY <1>1, <1>3, <1>4 DEF Covers
<1>9. m \in T /\ m[1] = target.node /\ m[3] = a /\ k \in T /\ k[1] = p.node /\ k[3] = p.path
  BY <1>1, <1>6, <1>8, EntryIs
<1>10. \A e, u \in edges : Covers(e, d) /\ Covers(u, d) /\ e.node = u.node => e = u
  BY OneRow DEF PathInv, Valid
<1> HIDE DEF T, m, k
<1>11. \A t \in T : t[3] \in Seq(Nodes)
  BY <1>5 DEF IsTree
<1>12. a \in Seq(Nodes) /\ b \in Seq(Nodes) /\ \A e \in edges : Covers(e, d) => e.path \in Seq(Nodes)
  <2>1. \A e \in edges : Covers(e, d) => e.path \in Seq(Nodes)
    BY <1>6, <1>11, EntryIs
  <2>2. target.node \in Nodes
    BY <1>1, <1>3 DEF PathInv
  <2> QED BY <1>1, <1>2, <1>8, <2>1, <2>2
<1>13. /\ IsEdge(joined) /\ joined.node = prev.node /\ joined.parent = prev.parent
       /\ joined.from = prev.from /\ joined.to = target.to /\ joined.path = b
       /\ joined.from < d /\ Covers(joined, d)
  <2> DEFINE rec == [node |-> prev.node, parent |-> prev.parent, from |-> prev.from, to |-> target.to, path |-> b]
  <2>1. IsEdge(target) /\ IsEdge(prev)
    BY <1>1, <1>3
  <2>2. joined = rec
    BY <2>1, EdgeExcept
  <2>3. /\ IsEdge(rec) /\ rec.node = prev.node /\ rec.parent = prev.parent
        /\ rec.from = prev.from /\ rec.to = target.to /\ rec.path = b
    BY <2>1 DEF IsEdge
  <2>4. rec.from < d /\ Covers(rec, d)
    BY <1>1, <1>3, <1>4, <2>3 DEF Covers
  <2> HIDE DEF rec, joined
  <2> QED BY <2>2, <2>3, <2>4
<1> HIDE DEF joined
<1>14. /\ \A e \in stitched : \E f \in after : Same(f, e) /\ f.path = path(e)
       /\ \A f \in after : \E e \in stitched : Same(f, e) /\ f.path = path(e)
  <2>1. Edged(stitched)
    BY <1>3, <1>13 DEF Edged
  <2>2. after = Rewritten(stitched, d, a, b)
    BY DEF joined
  <2> HIDE DEF stitched, a, b
  <2>3. /\ \A e \in stitched : \E f \in Rewritten(stitched, d, a, b) : Same(f, e) /\ f.path = path(e)
        /\ \A f \in Rewritten(stitched, d, a, b) : \E e \in stitched : Same(f, e) /\ f.path = path(e)
    BY <2>1, RewrittenRows
  <2> QED BY <2>2, <2>3
<1>15. \A e \in stitched : e = joined \/ (e \in edges /\ e # target /\ e # prev)
  OBVIOUS
<1>16. joined \in stitched /\ \A e \in edges : e # target /\ e # prev => e \in stitched
  OBVIOUS
<1> HIDE DEF stitched
<1>17. \A f \in after : f.from <= d /\ f.node \in nodes
  <2> SUFFICES ASSUME NEW f \in after PROVE f.from <= d /\ f.node \in nodes
    OBVIOUS
  <2>1. PICK e \in stitched : Same(f, e)
    BY <1>14
  <2>2. e.from <= d /\ e.node \in nodes
    BY <1>1, <1>3, <1>13, <1>15
  <2> QED BY <2>1, <2>2
<1>18. InSubtree(a, a) /\ Renamed(a, a, b) = b
  BY <1>12, PrefixIs, RenamedSelf
<1>19. b = Append(k[3], m[1])
  BY <1>2, <1>9
<1>20. ME(m) = <<prev.node, prev.parent, path(joined)>>
  <2>1. ME(m) = <<m[1], k[1], b>>
    BY <1>9, <1>18, <1>19 DEF MovedEntry
  <2>2. path(joined) = b
    BY <1>1, <1>3, <1>4, <1>13
  <2> QED BY <1>1, <1>9, <2>1, <2>2
<1>21. ASSUME NEW e \in edges, Covers(e, d), e # target PROVE ME(Entry(e)) = <<e.node, e.parent, path(e)>>
  <2>1. PICK t \in T : t = Entry(e)
    BY <1>6, <1>21
  <2>2. t[1] = e.node /\ t[2] = e.parent /\ t[3] = e.path
    BY <2>1, EntryIs
  <2>3. t # m
    BY <1>1, <1>8, <1>9, <1>10, <1>21, <2>2
  <2>4. CASE ~InSubtree(e.path, a)
    <3>1. ME(t) = t
      BY <1>9, <2>2, <2>4 DEF MovedEntry
    <3>2. path(e) = e.path
      BY <2>4
    <3> HIDE DEF ME, path
    <3> QED BY <2>1, <3>1, <3>2 DEF Entry
  <2>5. CASE InSubtree(e.path, a)
    <3>1. InSubtree(t[3], m[3])
      BY <1>9, <2>2, <2>5
    <3>2. Len(e.path) > Len(a)
      BY <1>5, <1>9, <2>2, <2>3, <3>1, BelowLonger
    <3>3. ME(t) = <<e.node, e.parent, Renamed(e.path, a, b)>>
      BY <1>9, <1>19, <2>2, <2>3, <3>1 DEF MovedEntry
    <3>4. path(e) = Renamed(e.path, a, b)
      <4>1. CASE e.from >= d
        BY <2>5, <3>2, <4>1
      <4>2. CASE e.from < d
        <5>1. a = b
          BY <1>2, <1>21, <2>5, <4>2
        <5>2. path(e) = e.path
          BY <1>3, <1>4, <4>2
        <5>3. Renamed(e.path, a, a) = e.path
          BY <1>12, <1>21, <2>5, RenamedSelf
        <5> QED BY <5>1, <5>2, <5>3
      <4> QED BY <1>3, <1>4, <4>1, <4>2
    <3> HIDE DEF ME, path
    <3> QED BY <2>1, <3>3, <3>4
  <2> QED BY <2>4, <2>5
<1> HIDE DEF ME, path
<1>22. ASSUME NEW u \in TreeOn(after, d) PROVE \E t \in T : u = ME(t)
  <2>1. PICK f \in after : Covers(f, d) /\ u = Entry(f)
    BY TreeOnIs
  <2>2. PICK e \in stitched : Same(f, e) /\ f.path = path(e)
    BY <1>14
  <2>3. u = <<e.node, e.parent, path(e)>> /\ Covers(e, d)
    BY <2>1, <2>2 DEF Entry, Covers
  <2>4. CASE e = joined
    BY <1>9, <1>13, <1>20, <2>3, <2>4
  <2>5. CASE e # joined
    <3>1. e \in edges /\ e # target
      BY <1>15, <2>5
    <3>2. Entry(e) \in T
      BY <1>6, <2>3, <3>1
    <3> QED BY <1>21, <2>3, <3>1, <3>2
  <2> QED BY <2>4, <2>5
<1>23. ASSUME NEW t \in T PROVE ME(t) \in TreeOn(after, d)
  <2>1. PICK e \in edges : Covers(e, d) /\ t = Entry(e)
    BY <1>7
  <2>2. ASSUME NEW s \in stitched, Covers(s, d), ME(t) = <<s.node, s.parent, path(s)>> PROVE ME(t) \in TreeOn(after, d)
    <3>1. PICK f \in after : Same(f, s) /\ f.path = path(s)
      BY <1>14
    <3>2. Covers(f, d) /\ ME(t) = Entry(f)
      BY <2>2, <3>1 DEF Entry, Covers
    <3> QED BY <3>2, TreeOnIs
  <2>3. CASE e = target
    <3>1. t = m
      BY <2>1, <2>3 DEF m
    <3> QED BY <1>13, <1>16, <1>20, <2>2, <3>1
  <2>4. CASE e # target
    <3>1. e \in stitched
      BY <1>8, <1>16, <2>1, <2>4
    <3> QED BY <1>21, <2>1, <2>2, <2>4, <3>1
  <2> QED BY <2>3, <2>4
<1>24. TreeOn(after, d) = {ME(t) : t \in T}
  BY <1>22, <1>23
<1>25. IsTree({ME(t) : t \in T})
  BY <1>2, <1>5, <1>9, MovedTree DEF ME
<1> QED BY <1>17, <1>24, <1>25

\* DeleteEdgeSliceAndStitch.
LEMMA UndoKeepsTree ==
    ASSUME PathInv, "date_order" \in Discipline, "settled_undo" \in Discipline,
           NEW n \in Nodes, NEW d \in Days, DeleteEdgeSliceAndStitch(n, d)
    PROVE  PathInv'
<1>1. PICK target \in edges, prev \in edges :
          /\ target.node = n /\ target.from = d /\ prev.node = n /\ prev.to = d - 1
          /\ \E p \in edges : p.node = prev.parent /\ Covers(p, d) /\ p.from < d
          /\ LET stitched == (edges \ {target, prev}) \cup {[prev EXCEPT !.to = target.to]}
             IN  Transact(FALSE, Rewritten(stitched, d, target.path, prev.path), slices)
  BY DEF DeleteEdgeSliceAndStitch
<1> DEFINE stitched == (edges \ {target, prev}) \cup {[prev EXCEPT !.to = target.to]}
           after    == Rewritten(stitched, d, target.path, prev.path)
<1>2. PICK p \in edges : p.node = prev.parent /\ Covers(p, d) /\ p.from < d
  BY <1>1
<1>3. InOrder(d) /\ UNCHANGED nodes /\ Transact(FALSE, after, slices)
  BY <1>1 DEF DeleteEdgeSliceAndStitch
<1>4. \A e \in edges : e.from <= d
  BY <1>3 DEF InOrder
<1>5. Undone(target, prev, p, d)
  BY <1>1, <1>2 DEF Undone
<1>6. (\A f \in after : f.from <= d /\ f.node \in nodes) /\ IsTree(TreeOn(after, d))
  BY <1>4, <1>5, UndoneTree
<1>7. Edged(stitched) /\ SameBefore(edges, stitched, d)
  BY <1>1, StitchedLater DEF PathInv, HistoryInv, Valid
<1> HIDE DEF stitched
<1>8. Edged(after) /\ SameBefore(stitched, after, d)
  BY <1>7, RewrittenLater
<1> HIDE DEF after
<1>9. SameBefore(edges, after, d)
  BY <1>7, <1>8, SameBoth
<1>10. nodes \subseteq nodes' /\ nodes' \subseteq Nodes /\ \A f \in after : f.from <= d /\ f.node \in nodes'
  BY <1>3, <1>6 DEF PathInv
<1> QED BY <1>3, <1>6, <1>8, <1>9, <1>10, CommittedTree

LEMMA PathStep ==
    ASSUME PathInv, "date_order" \in Discipline, "outside_subtree" \in Discipline,
           "settled_undo" \in Discipline \/ "delete_edge" \notin Ops, [Next]_vars
    PROVE  PathInv'
<1>1. ASSUME NEW n \in Nodes, NEW d \in Days,
             UpdateNode(n, d) \/ (\E start \in Days : ShiftBoundaryNode(n, start, d)) \/ DeleteNodeSliceAndStitch(n, d)
      PROVE  PathInv'
  <2>1. UNCHANGED <<nodes, edges>>
    BY <1>1 DEF UpdateNode, ShiftBoundaryNode, DeleteNodeSliceAndStitch, Transact
  <2> QED BY <2>1 DEF PathInv, Edged
<1>2. ASSUME NEW n \in Nodes, NEW d \in Days, DeleteEdgeSliceAndStitch(n, d) PROVE PathInv'
  <2>1. "delete_edge" \in Ops
    BY <1>2 DEF DeleteEdgeSliceAndStitch
  <2> QED BY <1>2, <2>1, UndoKeepsTree
<1>3. CASE UNCHANGED vars
  BY <1>3 DEF vars, PathInv, Edged
<1>4. ASSUME NEW n \in Nodes, NEW d \in Days, \E p \in Parents : CreateNode(n, p, d) PROVE PathInv'
  BY <1>4, CreateKeepsTree
<1>5. ASSUME NEW n \in Nodes, NEW d \in Days, \E p \in Nodes : MoveNode(n, p, d) \/ CorrectMoveNode(n, p, d) PROVE PathInv'
  BY <1>5, MoveKeepsTree
<1>6. ASSUME NEW n \in Nodes, NEW d \in Days, RescindNode(n, d) PROVE PathInv'
  BY <1>6, RescindKeepsTree
<1> QED BY <1>1, <1>2, <1>3, <1>4, <1>5, <1>6 DEF Next

LEMMA PathInvariant ==
    ASSUME "date_order" \in Discipline, "outside_subtree" \in Discipline,
           "settled_undo" \in Discipline \/ "delete_edge" \notin Ops
    PROVE  Spec => []PathInv
<1>1. Init => PathInv
  BY DEF Init, PathInv, Edged, Valid, NoOverlap, GapFree, TreeOn, IsTree, Rooted
<1>2. PathInv /\ [Next]_vars => PathInv'
  BY PathStep
<1> QED BY <1>1, <1>2, PTL DEF Spec

LEMMA PathsHold == PathInv => PathsFollowTree /\ Acyclic
<1> SUFFICES ASSUME PathInv PROVE PathsFollowTree /\ Acyclic
  OBVIOUS
<1>1. ASSUME NEW d \in Days, NEW c \in edges, Covers(c, d)
      PROVE  \E t \in TreeOn(edges, d) : t = Entry(c) /\ t[1] = c.node /\ t[2] = c.parent /\ t[3] = c.path
  BY <1>1, TreeOnIs, EntryIs
<1>2. ASSUME NEW d \in Days, NEW t \in TreeOn(edges, d)
      PROVE  \E c \in edges : Covers(c, d) /\ t[1] = c.node /\ t[2] = c.parent /\ t[3] = c.path
  <2>1. PICK c \in edges : Covers(c, d) /\ t = Entry(c)
    BY TreeOnIs
  <2> QED BY <2>1, EntryIs
<1>3. PathsFollowTree
  <2> SUFFICES ASSUME NEW c \in edges, NEW d \in Days, Covers(c, d)
               PROVE  IF c.parent = None THEN c.path = <<c.node>>
                      ELSE \E p \in edges : p.node = c.parent /\ Covers(p, d) /\ c.path = Append(p.path, c.node)
    BY DEF PathsFollowTree
  <2>1. PICK t \in TreeOn(edges, d) : t[1] = c.node /\ t[2] = c.parent /\ t[3] = c.path
    BY <1>1
  <2>2. Hangs(t, TreeOn(edges, d))
    BY DEF PathInv, IsTree, Rooted
  <2>3. CASE c.parent = None
    BY <2>1, <2>2, <2>3 DEF Hangs
  <2>4. CASE c.parent # None
    <3>1. PICK z \in TreeOn(edges, d) : z[1] = t[2] /\ t[3] = Append(z[3], t[1])
      BY <2>1, <2>2, <2>4 DEF Hangs
    <3>2. PICK p \in edges : Covers(p, d) /\ z[1] = p.node /\ z[3] = p.path
      BY <1>2
    <3> QED BY <2>1, <2>4, <3>1, <3>2
  <2> QED BY <2>3, <2>4
<1>4. Acyclic
  <2> SUFFICES ASSUME NEW d \in Days, NEW cycle \in SUBSET {e \in edges : Covers(e, d) /\ e.parent # None},
                      NEW x \in cycle, \A e \in cycle : \E f \in cycle : f.node = e.parent
               PROVE  FALSE
    BY DEF Acyclic
  <2> DEFINE T == TreeOn(edges, d)
             lens == {Len(e.path) : e \in cycle}
  <2>1. IsTree(T)
    BY DEF PathInv
  <2>2. \A e \in cycle : e \in edges /\ Covers(e, d) /\ e.parent # None
    OBVIOUS
  <2>3. ASSUME NEW e \in cycle PROVE Len(e.path) \in Nat /\ \E f \in cycle : Len(f.path) < Len(e.path)
    <3>1. PICK t \in T : t[1] = e.node /\ t[2] = e.parent /\ t[3] = e.path
      BY <1>1, <2>2
    <3>2. PICK z \in T : z[1] = t[2] /\ Len(t[3]) = Len(z[3]) + 1
      BY <2>1, <2>2, <3>1, Above
    <3>3. PICK f \in cycle : f.node = e.parent
      OBVIOUS
    <3>4. PICK u \in T : u[1] = f.node /\ u[3] = f.path
      BY <1>1, <2>2
    <3>5. u = z
      BY <2>1, <3>1, <3>2, <3>3, <3>4 DEF IsTree
    <3>6. Len(t[3]) \in Nat /\ Len(z[3]) \in Nat
      BY <2>1, Above
    <3> QED BY <3>1, <3>2, <3>4, <3>5, <3>6
  <2>4. lens \in SUBSET Nat /\ lens # {}
    BY <2>3
  <2>5. PICK k \in lens : \A i \in lens : ~(i < k)
    BY <2>4, SomeLeast
  <2>6. PICK e \in cycle : k = Len(e.path)
    OBVIOUS
  <2> QED BY <2>3, <2>5, <2>6
<1> QED BY <1>3, <1>4

\* For any number of units and days: when callers write in date order, never move a unit
\* below itself and undo a move only while its earlier parent has not moved, the path that the
\* trigger computes, the re-insertion of a moved subtree and the prefix rewrites (of the moves
\* and of DeleteEdgeSliceAndStitch) leave every edge, on every day it covers, with the path of
\* its parent on that day and its own name.
THEOREM PathsStayRight ==
    ASSUME "date_order" \in Discipline, "outside_subtree" \in Discipline,
           "settled_undo" \in Discipline \/ "delete_edge" \notin Ops
    PROVE  Spec => []PathsFollowTree
<1>1. Spec => []PathInv
  BY PathInvariant
<1> QED BY <1>1, PathsHold, PTL

\* Under the same promises no day's parents ever close a circle: the only check of that in the
\* code compares paths of a single day.
THEOREM TreeStaysAcyclic ==
    ASSUME "date_order" \in Discipline, "outside_subtree" \in Discipline,
           "settled_undo" \in Discipline \/ "delete_edge" \notin Ops
    PROVE  Spec => []Acyclic
<1>1. Spec => []PathInv
  BY PathInvariant
<1> QED BY <1>1, PathsHold, PTL

-----------------------------------------------------------------------------
(* Types: whatever callers promise, a path is a path and ends with the unit's own name *)

EdgeTyped(e, ns) ==
    /\ e.node \in ns /\ e.parent \in Parents
    /\ e.path \in Seq(Nodes) /\ Len(e.path) >= 1 /\ e.path[Len(e.path)] = e.node
    /\ e.parent = None => e.node = Root /\ Len(e.path) = 1

Typed(es, ns) == \A e \in es : EdgeTyped(e, ns)

SliceTyped(s, ns) ==
    /\ s = [node |-> s.node, hint |-> s.hint, from |-> s.from, to |-> s.to]
    /\ s.node \in ns /\ s.hint \in Parents /\ s.from \in Days /\ s.to \in Days

SlicesTyped(ss, ns) == \A s \in ss : SliceTyped(s, ns)

TypeInv ==
    /\ nodes \subseteq Nodes
    /\ Edged(edges) /\ Valid(edges) /\ Typed(edges, nodes)
    /\ SlicesTyped(slices, nodes)
    /\ refusal \in {None, "trigger", "constraint"}

\* f is e but for its days.
LEMMA TypedAs ==
    ASSUME NEW e, NEW ns, EdgeTyped(e, ns), NEW f, f.node = e.node, f.parent = e.parent, f.path = e.path
    PROVE  EdgeTyped(f, ns)
BY DEF EdgeTyped

LEMMA CutTyped ==
    ASSUME NEW es, Edged(es), NEW ns, Typed(es, ns), NEW these \in SUBSET es, NEW d
    PROVE  Typed(Cut(es, these, d), ns)
<1> DEFINE cut(e) == [e EXCEPT !.to = d - 1]
<1>1. ASSUME NEW e \in es PROVE EdgeTyped(cut(e), ns)
  <2>1. cut(e) = [node |-> e.node, parent |-> e.parent, from |-> e.from, to |-> d - 1, path |-> e.path]
    BY EdgeExcept DEF Edged
  <2>2. cut(e).node = e.node /\ cut(e).parent = e.parent /\ cut(e).path = e.path
    BY <2>1
  <2>3. EdgeTyped(e, ns)
    BY DEF Typed
  <2> HIDE DEF cut
  <2> QED BY <2>2, <2>3, TypedAs
<1>2. Cut(es, these, d) = (es \ these) \cup {cut(e) : e \in {x \in these : x.from < d}}
  BY DEF Cut
<1> HIDE DEF cut
<1> QED BY <1>1, <1>2 DEF Typed

LEMMA RewrittenTyped ==
    ASSUME NEW es, Edged(es), NEW ns, Typed(es, ns), NEW d, NEW old \in Seq(Nodes), Len(old) >= 1, NEW new \in Seq(Nodes)
    PROVE  Typed(Rewritten(es, d, old, new), ns)
<1> SUFFICES ASSUME NEW f \in Rewritten(es, d, old, new) PROVE EdgeTyped(f, ns)
  BY DEF Typed
<1>1. PICK e \in es :
          /\ f.node = e.node /\ f.parent = e.parent
          /\ f.path = IF e.from >= d /\ InSubtree(e.path, old) /\ Len(e.path) > Len(old)
                      THEN Renamed(e.path, old, new) ELSE e.path
  BY RewrittenRows
<1>2. EdgeTyped(e, ns)
  BY DEF Typed
<1>3. CASE f.path = e.path
  BY <1>1, <1>2, <1>3, TypedAs
<1>4. CASE f.path = Renamed(e.path, old, new) /\ Len(e.path) > Len(old)
  <2>1. e.path \in Seq(Nodes) /\ Len(e.path) \in Nat /\ Len(old) \in Nat /\ Len(new) \in Nat /\ Len(old) <= Len(e.path)
    BY <1>2, <1>4 DEF EdgeTyped
  <2>2. IsRenamed(f.path, e.path, old, new)
    BY <1>4, <2>1, RenamedIs
  <2>3. f.path \in Seq(Nodes) /\ Len(f.path) = Len(new) + Len(e.path) - Len(old)
    BY <2>2 DEF IsRenamed
  <2>4. Len(e.path) - Len(old) \in 1..Len(e.path) - Len(old)
    BY <1>4, <2>1
  <2>5. f.path[Len(new) + (Len(e.path) - Len(old))] = e.path[Len(old) + (Len(e.path) - Len(old))]
    BY <2>2, <2>4 DEF IsRenamed
  <2>6. f.path[Len(f.path)] = e.path[Len(e.path)] /\ Len(f.path) >= 1
    <3>1. Len(new) + (Len(e.path) - Len(old)) = Len(f.path) /\ Len(old) + (Len(e.path) - Len(old)) = Len(e.path)
      BY <2>1, <2>3
    <3> QED BY <1>4, <2>1, <2>3, <2>5, <3>1
  <2>7. e.parent # None
    BY <1>2, <1>4, <2>1 DEF EdgeTyped
  <2> QED BY <1>1, <1>2, <2>3, <2>6, <2>7 DEF EdgeTyped
<1> QED BY <1>1, <1>3, <1>4

\* The trigger finds a path for each re-inserted edge.
LEMMA ReslicedTyped ==
    ASSUME NEW es, Edged(es), NEW ns \in SUBSET Nodes, Typed(es, ns), NEW tree \in SUBSET es, NEW d, OneEach(tree),
           \A e \in tree : e.parent # None /\ PathAt(es, e.parent, d) \in Seq(Nodes)
    PROVE  Typed(Resliced(es, tree, d), ns)
<1>1. PICK f : /\ Recomputes(f, es, tree, d)
               /\ Resliced(es, tree, d)
                      = Cut(es, tree, d) \cup {[e EXCEPT !.from = d, !.path = f[e.node]] : e \in tree}
  BY ReslicedBy
<1>2. \A e \in tree : f[e.node] = Recomputed(f, es, tree, d, e.node)
  BY <1>1 DEF Recomputes
<1>3. \A e \in tree : e.node \in Nodes /\ Len(e.path) \in Nat /\ e.parent # None /\ PathAt(es, e.parent, d) \in Seq(Nodes)
                      /\ EdgeTyped(e, ns) /\ IsEdge(e)
  BY DEF Typed, EdgeTyped, OneEach, Edged
<1> DEFINE Fits(e) == \E p \in Seq(Nodes) : f[e.node] = Append(p, e.node)
<1>4. ASSUME NEW e \in tree,
             \A u \in tree : Len(u.path) < Len(e.path) => f[u.node] \in Seq(Nodes)
      PROVE  Fits(e)
  <2>1. (CHOOSE x \in tree : x.node = e.node) = e
    BY DEF OneEach
  <2>2. CASE \E u \in tree : u.node = e.parent /\ Len(u.path) < Len(e.path)
    <3>1. PICK u \in tree : u.node = e.parent /\ Len(u.path) < Len(e.path)
      BY <2>2
    <3>2. f[u.node] \in Seq(Nodes)
      BY <1>4, <3>1
    <3>3. f[e.node] = Append(f[e.parent], e.node)
      BY <1>2, <2>1, <2>2 DEF Recomputed
    <3> QED BY <3>1, <3>2, <3>3
  <2>3. CASE ~\E u \in tree : u.node = e.parent /\ Len(u.path) < Len(e.path)
    <3>1. f[e.node] = Append(PathAt(es, e.parent, d), e.node)
      BY <1>2, <2>1, <2>3 DEF Recomputed
    <3> QED BY <1>3, <3>1
  <2> QED BY <2>2, <2>3
<1>5. \A e \in tree : Fits(e) => f[e.node] \in Seq(Nodes)
  BY <1>3
<1> HIDE DEF Fits
<1>6. ASSUME NEW x \in tree, ~Fits(x) PROVE FALSE
  <2> DEFINE wrong == {e \in tree : ~Fits(e)}
             lens  == {Len(e.path) : e \in wrong}
  <2>1. lens \in SUBSET Nat /\ lens # {}
    <3>1. \A e \in wrong : Len(e.path) \in Nat
      BY <1>3
    <3>2. x \in wrong
      BY <1>6
    <3> QED BY <3>1, <3>2
  <2>2. PICK j \in lens : \A i \in lens : ~(i < j)
    BY <2>1, SomeLeast
  <2>3. PICK e \in tree : ~Fits(e) /\ j = Len(e.path)
    OBVIOUS
  <2>4. \A u \in tree : Len(u.path) < Len(e.path) => f[u.node] \in Seq(Nodes)
    <3> SUFFICES ASSUME NEW u \in tree, Len(u.path) < Len(e.path) PROVE f[u.node] \in Seq(Nodes)
      OBVIOUS
    <3>1. Len(u.path) \notin lens
      BY <2>2, <2>3
    <3>2. Fits(u)
      BY <3>1
    <3> QED BY <1>5, <3>2
  <2> QED BY <1>4, <2>3, <2>4
<1> DEFINE re(e) == [e EXCEPT !.from = d, !.path = f[e.node]]
<1>7. ASSUME NEW e \in tree PROVE EdgeTyped(re(e), ns)
  <2>1. PICK p \in Seq(Nodes) : f[e.node] = Append(p, e.node)
    BY <1>6 DEF Fits
  <2>2. re(e) = [node |-> e.node, parent |-> e.parent, from |-> d, to |-> e.to, path |-> f[e.node]]
    BY <1>3, EdgeRestExcept
  <2>3. re(e).node = e.node /\ re(e).parent = e.parent /\ re(e).path = f[e.node]
    BY <2>2
  <2> HIDE DEF re
  <2>4. f[e.node] \in Seq(Nodes) /\ Len(f[e.node]) >= 1 /\ f[e.node][Len(f[e.node])] = e.node
    <3>1. PICK q : q = Append(p, e.node)
      OBVIOUS
    <3>2. q \in Seq(Nodes) /\ Len(q) >= 1 /\ q[Len(q)] = e.node
      BY <1>3, <3>1
    <3> QED BY <2>1, <3>1, <3>2
  <2> QED BY <1>3, <2>3, <2>4 DEF EdgeTyped
<1>8. Resliced(es, tree, d) = Cut(es, tree, d) \cup {re(e) : e \in tree}
  BY <1>1
<1>9. Typed(Cut(es, tree, d), ns)
  BY CutTyped
<1> HIDE DEF re
<1> QED BY <1>7, <1>8, <1>9 DEF Typed

LEMMA RegraftTyped ==
    ASSUME TypeInv, NEW n \in Nodes \ {Root}, NEW p \in Nodes, NEW d \in Days, ExistsAt(edges, n, d)
    PROVE  Edged(Regraft(n, p, d).edges) /\ Typed(Regraft(n, p, d).edges, nodes)
<1> DEFINE moved   == RowAt(edges, n, d)
           below   == Subtree(moved.path, d) \ {moved}
           cut     == Cut(edges, {moved}, d)
           new     == NewEdge(cut, p, n, d, moved.to)
           grafted == cut \cup {new}
           raised  == TriggerRaises(cut, p, n, d) \/ \E e \in below : TriggerRaises(Cut(grafted, {e}, d), e.parent, e.node, d)
           after   == Rewritten(Resliced(grafted, below, d), d, moved.path, new.path)
<1>1. Edged(edges) /\ NoOverlap(edges) /\ Typed(edges, nodes) /\ nodes \in SUBSET Nodes
  BY DEF TypeInv, Valid
<1>2. Edged(Regraft(n, p, d).edges)
  BY <1>1, RegraftLater
<1>3. Regraft(n, p, d).edges = IF raised THEN edges ELSE after
  BY DEF Regraft
<1>4. moved \in edges /\ moved.node = n /\ Covers(moved, d) /\ IsEdge(moved) /\ EdgeTyped(moved, nodes)
  BY <1>1, RowAtIs DEF Edged, Typed
<1>5. \A e \in below : e \in edges /\ Covers(e, d) /\ InSubtree(e.path, moved.path) /\ e # moved
  BY DEF Subtree
<1>6. p # None /\ d \in Int
  BY HierarchyAssumption DEF Days
<1>7. /\ new.node = n /\ new.parent = p /\ new.from = d /\ new.to = moved.to
      /\ new.path = Append(PathAt(cut, p, d), n)
      /\ new = [node |-> new.node, parent |-> new.parent, from |-> new.from, to |-> new.to, path |-> new.path]
  BY <1>6 DEF NewEdge
<1>8. SUFFICES ASSUME ~raised PROVE Typed(after, nodes)
  BY <1>1, <1>2, <1>3
<1>9. ~TriggerRaises(cut, p, n, d) /\ \A e \in below : ~TriggerRaises(Cut(grafted, {e}, d), e.parent, e.node, d)
  BY <1>8
<1> HIDE DEF moved, below, new, raised
<1>10. Edged(cut) /\ Typed(cut, nodes)
  <2>1. moved.to >= d
    BY <1>4, <1>6, HierarchyAssumption DEF Covers, IsEdge, Days
  <2>2. \A e \in {moved} : e.to >= d
    BY <2>1
  <2>3. {moved} \in SUBSET edges
    BY <1>4
  <2> QED BY <1>1, <2>2, <2>3, CutLater, CutTyped
<1>11. below \in SUBSET grafted
  BY <1>5 DEF Cut
<1> HIDE DEF cut
<1>12. new.path \in Seq(Nodes) /\ IsEdge(new) /\ EdgeTyped(new, nodes)
  <2>1. PathAt(cut, p, d) \in Seq(Nodes)
    <3>1. ExistsAt(cut, p, d)
      BY <1>6, <1>9 DEF TriggerRaises
    <3>2. RowAt(cut, p, d) \in cut
      BY <3>1, RowAtIs
    <3> QED BY <1>10, <3>2 DEF Typed, EdgeTyped, PathAt
  <2>2. PICK q \in Seq(Nodes) : q = PathAt(cut, p, d)
    BY <2>1
  <2>3. Append(q, n) \in Seq(Nodes) /\ Len(Append(q, n)) >= 1 /\ Append(q, n)[Len(Append(q, n))] = n
    <3>1. PICK w : w = Append(q, n)
      OBVIOUS
    <3>2. w \in Seq(Nodes) /\ Len(w) >= 1 /\ w[Len(w)] = n
      BY <3>1
    <3> QED BY <3>1, <3>2
  <2>4. new.path \in Seq(Nodes) /\ Len(new.path) >= 1 /\ new.path[Len(new.path)] = n
    BY <1>7, <2>2, <2>3
  <2>5. n \in nodes
    BY <1>4 DEF EdgeTyped
  <2> QED BY <1>4, <1>6, <1>7, <2>4, <2>5 DEF EdgeTyped, IsEdge, Parents
<1>13. Edged(grafted) /\ Typed(grafted, nodes)
  BY <1>10, <1>12 DEF Edged, Typed
<1> HIDE DEF grafted
<1>14. OneEach(below)
  <2>1. \A e, u \in below : e.node = u.node => e = u
    BY <1>1, <1>5, OneRow
  <2>2. \A e \in below : Len(e.path) \in Nat
    BY <1>1, <1>5 DEF Typed, EdgeTyped
  <2> QED BY <2>1, <2>2 DEF OneEach
<1>15. ASSUME NEW e \in below PROVE e.parent # None /\ PathAt(grafted, e.parent, d) \in Seq(Nodes)
  <2>1. e.parent # None
    <3> SUFFICES ASSUME e.parent = None PROVE FALSE
      OBVIOUS
    <3>1. EdgeTyped(e, nodes)
      BY <1>1, <1>5 DEF Typed
    <3>2. e.path \in Seq(Nodes) /\ Len(e.path) = 1 /\ e.path[1] = Root
      BY <3>1 DEF EdgeTyped
    <3>3. moved.path \in Seq(Nodes) /\ Len(moved.path) >= 1 /\ moved.path[Len(moved.path)] = n /\ Len(moved.path) \in Nat
      BY <1>4 DEF EdgeTyped
    <3>4. Len(moved.path) <= Len(e.path) /\ \A i \in 1..Len(moved.path) : moved.path[i] = e.path[i]
      BY <1>5, <3>2, <3>3, PrefixIs
    <3>5. Len(moved.path) = 1
      BY <3>2, <3>3, <3>4
    <3>6. moved.path[1] = e.path[1]
      BY <3>4, <3>5
    <3> QED BY <3>2, <3>3, <3>5, <3>6
  <2>2. ExistsAt(Cut(grafted, {e}, d), e.parent, d)
    BY <1>9, <2>1 DEF TriggerRaises, grafted
  <2>3. PICK r \in Cut(grafted, {e}, d) : r.node = e.parent /\ Covers(r, d)
    BY <2>2 DEF ExistsAt
  <2>4. r \in grafted
    <3>1. {e} \in SUBSET grafted
      BY <1>11
    <3>2. r \in grafted \ {e} \/ r.to = d - 1
      BY <1>13, <3>1, CutRows
    <3> QED BY <1>6, <2>3, <3>2 DEF Covers
  <2>5. RowAt(grafted, e.parent, d) \in grafted
    BY <2>3, <2>4, RowAtIs DEF ExistsAt
  <2>6. PathAt(grafted, e.parent, d) \in Seq(Nodes)
    BY <1>13, <2>5 DEF Typed, EdgeTyped, PathAt
  <2> QED BY <2>1, <2>6
<1>16. Typed(Resliced(grafted, below, d), nodes)
  BY <1>1, <1>11, <1>13, <1>14, <1>15, ReslicedTyped
<1>17. Edged(Resliced(grafted, below, d))
  BY <1>5, <1>11, <1>13, ReslicedLater
<1>18. moved.path \in Seq(Nodes) /\ Len(moved.path) >= 1
  BY <1>4 DEF EdgeTyped
<1>19. Typed(Rewritten(Resliced(grafted, below, d), d, moved.path, new.path), nodes)
  BY <1>12, <1>16, <1>17, <1>18, RewrittenTyped
<1> QED BY <1>19 DEF grafted

\* The slices.
LEMMA CutSlicesTyped ==
    ASSUME NEW ss, SlicesTyped(ss, nodes), NEW these \in SUBSET ss, NEW d \in Days
    PROVE  SlicesTyped(Cut(ss, these, d), nodes)
<1> DEFINE cut(s) == [s EXCEPT !.to = d - 1]
<1>1. ASSUME NEW s \in these, s.from < d PROVE SliceTyped(cut(s), nodes)
  <2>1. SliceTyped(s, nodes)
    BY DEF SlicesTyped
  <2>2. cut(s) = [node |-> s.node, hint |-> s.hint, from |-> s.from, to |-> d - 1]
    <3>1. SliceRow(s)
      BY <2>1 DEF SliceTyped, SliceRow
    <3> QED BY <3>1, SliceExcept
  <2>3. d - 1 \in Days
    BY <1>1, <2>1, HierarchyAssumption DEF SliceTyped, Days
  <2> HIDE DEF cut
  <2> QED BY <2>1, <2>2, <2>3 DEF SliceTyped
<1>2. Cut(ss, these, d) = (ss \ these) \cup {cut(s) : s \in {x \in these : x.from < d}}
  BY DEF Cut
<1> HIDE DEF cut
<1> QED BY <1>1, <1>2 DEF SlicesTyped

LEMMA SplitTyped ==
    ASSUME SlicesTyped(slices, nodes), NEW s \in slices, NEW d \in Days, NEW h \in Parents
    PROVE  SlicesTyped(Split(s, h, d), nodes)
<1>1. SliceTyped(s, nodes)
  BY DEF SlicesTyped
<1>2. [s EXCEPT !.from = d, !.hint = h] = [node |-> s.node, hint |-> h, from |-> d, to |-> s.to]
  <2>1. SliceRow(s)
    BY <1>1 DEF SliceTyped, SliceRow
  <2> QED BY <2>1, SliceRestExcept
<1>3. SliceTyped([s EXCEPT !.from = d, !.hint = h], nodes)
  BY <1>1, <1>2 DEF SliceTyped
<1>4. SlicesTyped(Cut(slices, {s}, d), nodes)
  <2>1. {s} \in SUBSET slices
    OBVIOUS
  <2> QED BY <2>1, CutSlicesTyped
<1> QED BY <1>3, <1>4 DEF Split, SlicesTyped

\* Another last day, another first day.
LEMMA SliceToTyped ==
    ASSUME NEW s, SliceTyped(s, nodes), NEW d \in Days
    PROVE  SliceTyped([s EXCEPT !.to = d], nodes) /\ SliceTyped([s EXCEPT !.from = d], nodes)
<1>1. [s EXCEPT !.to = d] = [node |-> s.node, hint |-> s.hint, from |-> s.from, to |-> d]
  <2>1. SliceRow(s)
    BY DEF SliceTyped, SliceRow
  <2> QED BY <2>1, SliceExcept
<1>2. [s EXCEPT !.from = d] = [node |-> s.node, hint |-> s.hint, from |-> d, to |-> s.to]
  <2>1. SliceRow(s)
    BY DEF SliceTyped, SliceRow
  <2> QED BY <2>1, SliceFromExcept
<1>3. SliceTyped([s EXCEPT !.to = d], nodes)
  BY <1>1 DEF SliceTyped
<1>4. SliceTyped([s EXCEPT !.from = d], nodes)
  BY <1>2 DEF SliceTyped
<1> QED BY <1>3, <1>4

LEMMA CommittedTyped ==
    ASSUME TypeInv, NEW raised, NEW es, NEW ss, Transact(raised, es, ss),
           nodes \subseteq nodes', nodes' \subseteq Nodes,
           raised \/ (Edged(es) /\ Typed(es, nodes') /\ SlicesTyped(ss, nodes'))
    PROVE  TypeInv'
<1>1. Typed(edges, nodes') /\ SlicesTyped(slices, nodes')
  BY DEF TypeInv, Typed, EdgeTyped, SlicesTyped, SliceTyped
<1>2. CASE UNCHANGED <<edges, slices>> /\ refusal' \in {"trigger", "constraint"}
  <2>1. Edged(edges') /\ Valid(edges') /\ Typed(edges', nodes') /\ SlicesTyped(slices', nodes')
    BY <1>1, <1>2 DEF TypeInv
  <2> QED BY <1>2, <2>1 DEF TypeInv, Edged, Typed, SlicesTyped
<1>3. CASE ~raised /\ Valid(es) /\ refusal' = None /\ edges' = es /\ slices' = ss
  <2>1. Edged(edges') /\ Valid(edges') /\ Typed(edges', nodes') /\ SlicesTyped(slices', nodes')
    BY <1>3
  <2> QED BY <1>3, <2>1 DEF TypeInv, Edged, Typed, SlicesTyped
<1> QED BY <1>2, <1>3 DEF Transact

LEMMA CreateKeepsTypes ==
    ASSUME TypeInv, NEW n \in Nodes, NEW d \in Days, NEW p \in Parents, CreateNode(n, p, d)
    PROVE  TypeInv'
<1> DEFINE new   == NewEdge(edges, p, n, d, EndOfTime)
           slice == [node |-> n, hint |-> p, from |-> d, to |-> EndOfTime]
<1>1. Transact(TriggerRaises(edges, p, n, d), edges \cup {new}, slices \cup {slice})
  BY DEF CreateNode
<1>2. nodes' = nodes \cup {n} /\ IF n = Root THEN p = None ELSE p # None /\ ExistsAt(edges, p, d)
  BY DEF CreateNode
<1>3. EndOfTime \in Days /\ Root \in Nodes /\ None \notin Nodes
  BY HierarchyAssumption DEF Days
<1>4. /\ new.node = n /\ new.parent = p /\ new.from = d /\ new.to = EndOfTime
      /\ new.path = IF p = None THEN <<n>> ELSE Append(PathAt(edges, p, d), n)
      /\ new = [node |-> new.node, parent |-> new.parent, from |-> new.from, to |-> new.to, path |-> new.path]
  <2>1. /\ new.node = n /\ new.parent = p /\ new.from = d /\ new.to = EndOfTime
        /\ new.path = IF p = None THEN <<n>> ELSE Append(PathAt(edges, p, d), n)
    BY DEF NewEdge
  <2>2. new = [node |-> new.node, parent |-> new.parent, from |-> new.from, to |-> new.to, path |-> new.path]
    BY DEF NewEdge
  <2> QED BY <2>1, <2>2
<1> HIDE DEF new
<1>5. IsEdge(new)
  BY <1>3, <1>4 DEF IsEdge
<1>6. EdgeTyped(new, nodes')
  <2>1. CASE p = None
    <3>1. n = Root /\ new.path = <<n>>
      BY <1>2, <1>4, <2>1
    <3> QED BY <1>2, <1>4, <2>1, <3>1 DEF EdgeTyped, Parents
  <2>2. CASE p # None
    <3>1. ExistsAt(edges, p, d)
      BY <1>2, <2>2
    <3>2. RowAt(edges, p, d) \in edges
      BY <3>1, RowAtIs
    <3>3. PICK q \in Seq(Nodes) : q = PathAt(edges, p, d)
      BY <3>2 DEF TypeInv, Typed, EdgeTyped, PathAt
    <3>4. new.path = Append(q, n)
      BY <1>4, <2>2, <3>3
    <3>5. new.path \in Seq(Nodes) /\ Len(new.path) >= 1 /\ new.path[Len(new.path)] = n
      <4>1. PICK w : w = Append(q, n)
        OBVIOUS
      <4>2. w \in Seq(Nodes) /\ Len(w) >= 1 /\ w[Len(w)] = n
        BY <4>1
      <4> QED BY <3>4, <4>1, <4>2
    <3> QED BY <1>2, <1>4, <2>2, <3>5 DEF EdgeTyped
  <2> QED BY <2>1, <2>2
<1>7. Typed(edges, nodes') /\ SlicesTyped(slices, nodes')
  BY <1>2 DEF TypeInv, Typed, EdgeTyped, SlicesTyped, SliceTyped
<1>8. SliceTyped(slice, nodes')
  BY <1>2, <1>3 DEF SliceTyped
<1> HIDE DEF slice
<1>9. Edged(edges \cup {new}) /\ Typed(edges \cup {new}, nodes') /\ SlicesTyped(slices \cup {slice}, nodes')
  BY <1>5, <1>6, <1>7, <1>8 DEF TypeInv, Edged, Typed, SlicesTyped
<1>10. nodes \subseteq nodes' /\ nodes' \subseteq Nodes
  BY <1>2 DEF TypeInv
<1> QED BY <1>1, <1>9, <1>10, CommittedTyped

LEMMA MoveKeepsTypes ==
    ASSUME TypeInv, NEW n \in Nodes, NEW p \in Nodes, NEW d \in Days, MoveNode(n, p, d) \/ CorrectMoveNode(n, p, d)
    PROVE  TypeInv'
<1>1. n # Root /\ ExistsAt(edges, n, d) /\ UNCHANGED nodes
  BY DEF MoveNode, CorrectMoveNode, MayMove
<1>2. SlicesTyped(slices, nodes) /\ nodes \subseteq Nodes
  BY DEF TypeInv
<1>3. p \in Parents
  BY DEF Parents
<1>4. \E ss : SlicesTyped(ss, nodes) /\ Transact(Regraft(n, p, d).raised, Regraft(n, p, d).edges, ss)
  <2>1. CASE MoveNode(n, p, d)
    <3>1. PICK s \in slices : Transact(Regraft(n, p, d).raised, Regraft(n, p, d).edges, Split(s, p, d))
      BY <2>1 DEF MoveNode
    <3>2. SlicesTyped(Split(s, p, d), nodes)
      BY <1>2, <1>3, SplitTyped
    <3> QED BY <3>1, <3>2
  <2>2. CASE CorrectMoveNode(n, p, d)
    <3> DEFINE ss == IF ExistsAt(slices, n, d) THEN Split(RowAt(slices, n, d), p, d) ELSE slices
    <3>1. Transact(Regraft(n, p, d).raised, Regraft(n, p, d).edges, ss)
      BY <2>2 DEF CorrectMoveNode
    <3>2. SlicesTyped(ss, nodes)
      <4>1. CASE ExistsAt(slices, n, d)
        BY <1>2, <1>3, <4>1, RowAtIs, SplitTyped
      <4> QED BY <1>2, <4>1
    <3> HIDE DEF ss
    <3> QED BY <3>1, <3>2
  <2> QED BY <2>1, <2>2
<1>5. PICK ss : SlicesTyped(ss, nodes) /\ Transact(Regraft(n, p, d).raised, Regraft(n, p, d).edges, ss)
  BY <1>4
<1>6. Edged(Regraft(n, p, d).edges) /\ Typed(Regraft(n, p, d).edges, nodes)
  BY <1>1, RegraftTyped
<1>7. nodes' = nodes
  BY <1>1
<1>8. Typed(Regraft(n, p, d).edges, nodes') /\ SlicesTyped(ss, nodes')
  BY <1>5, <1>6, <1>7
<1> QED BY <1>2, <1>5, <1>6, <1>7, <1>8, CommittedTyped

LEMMA RescindKeepsTypes ==
    ASSUME TypeInv, NEW n \in Nodes, NEW d \in Days, RescindNode(n, d)
    PROVE  TypeInv'
<1> DEFINE later(rows) == {r \in rows : r.node = n /\ r.to >= d}
           closed(s) == [s EXCEPT !.from = d, !.to = EndOfTime]
<1>1. PICK s \in slices : Transact(FALSE, Cut(edges, later(edges), d), Cut(slices, later(slices), d) \cup {closed(s)})
  BY DEF RescindNode
<1>2. nodes' = nodes
  BY DEF RescindNode
<1>3. Edged(edges) /\ Typed(edges, nodes) /\ SlicesTyped(slices, nodes) /\ nodes \subseteq Nodes
  BY DEF TypeInv
<1>4. later(edges) \in SUBSET edges /\ later(slices) \in SUBSET slices /\ \A e \in later(edges) : e.to >= d
  OBVIOUS
<1> HIDE DEF later
<1>5. Edged(Cut(edges, later(edges), d)) /\ Typed(Cut(edges, later(edges), d), nodes)
  BY <1>3, <1>4, CutLater, CutTyped
<1>6. SlicesTyped(Cut(slices, later(slices), d), nodes)
  BY <1>3, <1>4, CutSlicesTyped
<1>7. SliceTyped(closed(s), nodes)
  <2>1. SliceTyped(s, nodes)
    BY <1>3 DEF SlicesTyped
  <2>2. closed(s) = [node |-> s.node, hint |-> s.hint, from |-> d, to |-> EndOfTime]
    <3> DEFINE Rec(x, h, f, t) == [node |-> x, hint |-> h, from |-> f, to |-> t]
               m == [s EXCEPT !.from = d]
    <3>1. \A x, h, f, t : [Rec(x, h, f, t) EXCEPT !.to = EndOfTime] = Rec(x, h, f, EndOfTime)
      OBVIOUS
    <3>2. closed(s) = [m EXCEPT !.to = EndOfTime]
      OBVIOUS
    <3>3. m = Rec(s.node, s.hint, d, s.to)
      <4>1. SliceRow(s)
        BY <2>1 DEF SliceTyped, SliceRow
      <4> QED BY <4>1, SliceFromExcept
    <3> HIDE DEF Rec, m, closed
    <3>4. [m EXCEPT !.to = EndOfTime] = Rec(s.node, s.hint, d, EndOfTime)
      BY <3>1, <3>3
    <3> QED BY <3>2, <3>4 DEF Rec
  <2>3. EndOfTime \in Days
    BY HierarchyAssumption DEF Days
  <2> HIDE DEF closed
  <2> QED BY <2>1, <2>2, <2>3 DEF SliceTyped
<1> HIDE DEF closed
<1>8. SlicesTyped(Cut(slices, later(slices), d) \cup {closed(s)}, nodes)
  BY <1>6, <1>7 DEF SlicesTyped
<1>9. Typed(Cut(edges, later(edges), d), nodes') /\ SlicesTyped(Cut(slices, later(slices), d) \cup {closed(s)}, nodes')
  BY <1>2, <1>5, <1>8
<1> QED BY <1>1, <1>2, <1>3, <1>5, <1>9, CommittedTyped

\* The operations that change slices only.
LEMMA SlicesKeepTypes ==
    ASSUME TypeInv, NEW n \in Nodes, NEW d \in Days,
           UpdateNode(n, d) \/ (\E start \in Days : ShiftBoundaryNode(n, start, d)) \/ DeleteNodeSliceAndStitch(n, d)
    PROVE  TypeInv'
<1>1. nodes' = nodes
  BY DEF UpdateNode, ShiftBoundaryNode, DeleteNodeSliceAndStitch
<1>2. Edged(edges) /\ Typed(edges, nodes) /\ SlicesTyped(slices, nodes) /\ nodes \subseteq Nodes
  BY DEF TypeInv
<1>3. \A s \in slices : SliceTyped(s, nodes)
  BY <1>2 DEF SlicesTyped
<1>4. ASSUME UpdateNode(n, d) PROVE \E ss : SlicesTyped(ss, nodes) /\ Transact(FALSE, edges, ss)
  <2>1. PICK s \in slices : Transact(FALSE, edges, Split(s, s.hint, d))
    BY <1>4 DEF UpdateNode
  <2>2. s.hint \in Parents
    BY <1>3 DEF SliceTyped
  <2> QED BY <1>2, <2>1, <2>2, SplitTyped
<1>5. ASSUME NEW start \in Days, ShiftBoundaryNode(n, start, d)
      PROVE  \E ss : SlicesTyped(ss, nodes) /\ Transact(FALSE, edges, ss)
  <2>1. PICK target \in slices, prev \in slices :
            /\ d > prev.from
            /\ Transact(FALSE, edges, (slices \ {target, prev})
                                        \cup {[target EXCEPT !.from = d], [prev EXCEPT !.to = d - 1]})
    BY <1>5 DEF ShiftBoundaryNode
  <2>2. d - 1 \in Days
    BY <1>3, <2>1, HierarchyAssumption DEF SliceTyped, Days
  <2>3. SliceTyped([target EXCEPT !.from = d], nodes) /\ SliceTyped([prev EXCEPT !.to = d - 1], nodes)
    BY <1>3, <2>2, SliceToTyped
  <2>4. SlicesTyped((slices \ {target, prev}) \cup {[target EXCEPT !.from = d], [prev EXCEPT !.to = d - 1]}, nodes)
    BY <1>3, <2>3 DEF SlicesTyped
  <2> QED BY <2>1, <2>4
<1>6. ASSUME DeleteNodeSliceAndStitch(n, d) PROVE \E ss : SlicesTyped(ss, nodes) /\ Transact(FALSE, edges, ss)
  <2>1. PICK target \in slices :
            LET prev == {s \in slices : s.node = n /\ s.to = d - 1}
            IN  Transact(FALSE, edges, (slices \ (prev \cup {target})) \cup {[s EXCEPT !.to = target.to] : s \in prev})
    BY <1>6 DEF DeleteNodeSliceAndStitch
  <2> DEFINE prev == {s \in slices : s.node = n /\ s.to = d - 1}
             joined(s) == [s EXCEPT !.to = target.to]
             ss == (slices \ (prev \cup {target})) \cup {joined(s) : s \in prev}
  <2>2. target.to \in Days
    BY <1>3 DEF SliceTyped
  <2>3. \A s \in prev : SliceTyped(joined(s), nodes)
    BY <1>3, <2>2, SliceToTyped
  <2>4. Transact(FALSE, edges, ss)
    BY <2>1
  <2> HIDE DEF joined, prev
  <2>5. SlicesTyped(ss, nodes)
    BY <1>3, <2>3 DEF SlicesTyped
  <2> HIDE DEF ss
  <2> QED BY <2>4, <2>5
<1>7. PICK ss : SlicesTyped(ss, nodes) /\ Transact(FALSE, edges, ss)
  BY <1>4, <1>5, <1>6
<1>8. Typed(edges, nodes') /\ SlicesTyped(ss, nodes')
  BY <1>1, <1>2, <1>7
<1> QED BY <1>1, <1>2, <1>7, <1>8, CommittedTyped

LEMMA UndoKeepsTypes ==
    ASSUME TypeInv, NEW n \in Nodes, NEW d \in Days, DeleteEdgeSliceAndStitch(n, d)
    PROVE  TypeInv'
<1>1. PICK target \in edges, prev \in edges :
          /\ target.from = d /\ prev.to = d - 1
          /\ LET stitched == (edges \ {target, prev}) \cup {[prev EXCEPT !.to = target.to]}
             IN  Transact(FALSE, Rewritten(stitched, d, target.path, prev.path), slices)
  BY DEF DeleteEdgeSliceAndStitch
<1> DEFINE joined   == [prev EXCEPT !.to = target.to]
           stitched == (edges \ {target, prev}) \cup {joined}
           after    == Rewritten(stitched, d, target.path, prev.path)
<1>2. nodes' = nodes /\ Transact(FALSE, after, slices)
  BY <1>1 DEF DeleteEdgeSliceAndStitch
<1>3. Edged(edges) /\ Typed(edges, nodes) /\ SlicesTyped(slices, nodes) /\ nodes \subseteq Nodes
  BY DEF TypeInv
<1>4. EdgeTyped(target, nodes) /\ EdgeTyped(prev, nodes)
  BY <1>3 DEF Typed
<1>5. Edged(stitched)
  BY <1>1, StitchedLater DEF TypeInv, HistoryInv, Valid
<1>6. EdgeTyped(joined, nodes)
  <2>1. joined = [node |-> prev.node, parent |-> prev.parent, from |-> prev.from, to |-> target.to, path |-> prev.path]
    BY <1>3, EdgeExcept DEF Edged
  <2>2. joined.node = prev.node /\ joined.parent = prev.parent /\ joined.path = prev.path
    BY <2>1
  <2> HIDE DEF joined
  <2> QED BY <1>4, <2>2, TypedAs
<1> HIDE DEF joined
<1>7. Typed(stitched, nodes)
  BY <1>3, <1>6 DEF Typed
<1> HIDE DEF stitched
<1>8. target.path \in Seq(Nodes) /\ Len(target.path) >= 1 /\ prev.path \in Seq(Nodes)
  BY <1>4 DEF EdgeTyped
<1>9. Edged(after) /\ Typed(after, nodes)
  BY <1>5, <1>7, <1>8, RewrittenLater, RewrittenTyped
<1> HIDE DEF after
<1>10. Typed(after, nodes') /\ SlicesTyped(slices, nodes')
  BY <1>2, <1>3, <1>9
<1> QED BY <1>2, <1>3, <1>9, <1>10, CommittedTyped

LEMMA TypesHold == TypeInv => TypeOK
<1> SUFFICES ASSUME TypeInv PROVE TypeOK
  OBVIOUS
<1>1. ASSUME NEW e \in edges
      PROVE  e \in [node : nodes, parent : Parents, path : Seq(Nodes), from : Days, to : Days]
  <2>1. IsEdge(e) /\ EdgeTyped(e, nodes)
    BY DEF TypeInv, Edged, Typed
  <2> QED BY <2>1 DEF IsEdge, EdgeTyped
<1>2. ASSUME NEW s \in slices PROVE s \in [node : nodes, hint : Parents, from : Days, to : Days]
  <2>1. SliceTyped(s, nodes)
    BY DEF TypeInv, SlicesTyped
  <2> QED BY <2>1 DEF SliceTyped
<1>3. edges \subseteq [node : nodes, parent : Parents, path : Seq(Nodes), from : Days, to : Days]
  BY <1>1
<1>4. slices \subseteq [node : nodes, hint : Parents, from : Days, to : Days]
  BY <1>2
<1> QED BY <1>3, <1>4 DEF TypeInv, TypeOK

\* For any number of units and days, any operations and whatever callers promise: every edge
\* that is committed has a path of units.  The trigger is what guarantees it: it lets no edge
\* pass whose parent has no path on that day, in a re-inserted subtree neither.
THEOREM RowsAreTyped == Spec => []TypeOK
<1>1. Init => TypeInv
  BY DEF Init, TypeInv, Edged, Valid, NoOverlap, GapFree, Typed, SlicesTyped
<1>2. TypeInv /\ [Next]_vars => TypeInv'
  <2> SUFFICES ASSUME TypeInv, [Next]_vars PROVE TypeInv'
    OBVIOUS
  <2>1. CASE UNCHANGED vars
    BY <2>1 DEF vars, TypeInv, Edged, Typed, SlicesTyped
  <2>2. ASSUME NEW n \in Nodes, NEW d \in Days, \E p \in Parents : CreateNode(n, p, d) PROVE TypeInv'
    BY <2>2, CreateKeepsTypes
  <2>3. ASSUME NEW n \in Nodes, NEW d \in Days, \E p \in Nodes : MoveNode(n, p, d) \/ CorrectMoveNode(n, p, d)
        PROVE  TypeInv'
    BY <2>3, MoveKeepsTypes
  <2>4. ASSUME NEW n \in Nodes, NEW d \in Days, RescindNode(n, d) PROVE TypeInv'
    BY <2>4, RescindKeepsTypes
  <2>5. ASSUME NEW n \in Nodes, NEW d \in Days, DeleteEdgeSliceAndStitch(n, d) PROVE TypeInv'
    BY <2>5, UndoKeepsTypes
  <2>6. ASSUME NEW n \in Nodes, NEW d \in Days,
               UpdateNode(n, d) \/ (\E start \in Days : ShiftBoundaryNode(n, start, d)) \/ DeleteNodeSliceAndStitch(n, d)
        PROVE  TypeInv'
    BY <2>6, SlicesKeepTypes
  <2> QED BY <2>1, <2>2, <2>3, <2>4, <2>5, <2>6 DEF Next
<1>3. TypeInv => TypeOK
  BY TypesHold
<1> QED BY <1>1, <1>2, <1>3, PTL DEF Spec
=============================================================================
