---------------------------- MODULE OrgHierarchy ----------------------------
(***************************************************************************)
(* The effective-dated organization tree of modules/org: org_edges (who is *)
(* whose parent on which days, with the materialized ltree path) and       *)
(* org_node_slices (attributes and parent_hint), the service operations    *)
(* that write them, the trigger that computes a path and the constraints   *)
(* that are checked when a transaction commits.                            *)
(*                                                                         *)
(* One tenant; one action is one transaction.  Attributes other than       *)
(* parent_hint, positions, freeze windows and reason codes are left out.   *)
(***************************************************************************)
EXTENDS Integers, Sequences, SequencesExt

CONSTANTS
    Nodes, Root,    \* organization units, and the one created without a parent
    None,           \* no parent; no refusal
    EndOfTime,      \* the day 9999-12-31
    Ops,            \* the operations callers use
    Discipline      \* what callers promise, see Promises

AllOps   == {"create", "update", "move", "correct_move", "rescind", "shift", "delete_slice", "delete_edge"}
Promises ==
    {"date_order",      \* no operation is effective before an existing slice starts
     "outside_subtree", \* a node is never moved below itself
     "settled_undo"}    \* a move is undone only while its earlier parent has not moved

ASSUME HierarchyAssumption ==
    /\ Root \in Nodes /\ None \notin Nodes
    /\ EndOfTime \in Nat
    /\ Ops \subseteq AllOps
    /\ Discipline \subseteq Promises

Days    == 0..EndOfTime
Parents == Nodes \cup {None}

VARIABLES
    nodes,      \* org_nodes: units ever created
    edges,      \* org_edges
    slices,     \* org_node_slices
    refusal     \* what refused the last transaction in the database, or None

vars == <<nodes, edges, slices, refusal>>

Init == nodes = {} /\ edges = {} /\ slices = {} /\ refusal = None

-----------------------------------------------------------------------------
(* Rows *)

\* Both days are inclusive: effective_date <= d AND end_date >= d.
Covers(r, d) == r.from <= d /\ d <= r.to

ExistsAt(rows, n, d) == \E r \in rows : r.node = n /\ Covers(r, d)
RowAt(rows, n, d)    == CHOOSE r \in rows : r.node = n /\ Covers(r, d)
PathAt(es, n, d)     == RowAt(es, n, d).path

InSubtree(path, top) == IsPrefix(top, path)

\* Faulty variant: the row keeps the day on which its successor starts.
CutLate(rows, these, d) ==
    (rows \ these) \cup {[r EXCEPT !.to = d] : r \in {x \in these : x.from < d}}

\* Truncate rows to the day before d; those that start on d are deleted.
Cut(rows, these, d) ==
    (rows \ these) \cup {[r EXCEPT !.to = d - 1] : r \in {x \in these : x.from < d}}

NoOverlap(rows) ==
    \A r, s \in rows : r.node = s.node /\ r # s => r.to < s.from \/ s.to < r.from

\* From a node's first row on, every day up to the end of time has a row.
GapFree(rows) == \A r \in rows, d \in Days : r.from <= d => ExistsAt(rows, r.node, d)

Valid(rows) == NoOverlap(rows) /\ GapFree(rows) /\ \A r \in rows : r.from <= r.to

\* Commit, unless the trigger or a constraint has raised an error.
Transact(raised, es, ss) ==
    IF raised THEN refusal' = "trigger" /\ UNCHANGED <<edges, slices>>
    ELSE IF Valid(es) /\ Valid(ss) THEN refusal' = None /\ edges' = es /\ slices' = ss
    ELSE refusal' = "constraint" /\ UNCHANGED <<edges, slices>>

InOrder(d) == "date_order" \in Discipline => \A r \in edges \cup slices : r.from <= d

-----------------------------------------------------------------------------
(* Edges: the insert trigger and the path rewrite *)

\* The parent has no path on that day, or lies below the child's present path.
TriggerRaises(es, p, n, d) ==
    /\ p # None
    /\ \/ ~ExistsAt(es, p, d)
       \/ ExistsAt(es, n, d) /\ InSubtree(PathAt(es, p, d), PathAt(es, n, d))

\* Faulty variant: the path starts at the node itself.
NewEdgeUnrooted(es, p, n, from, to) ==
    [node |-> n, parent |-> p, from |-> from, to |-> to, path |-> <<n>>]

NewEdge(es, p, n, from, to) ==
    [node |-> n, parent |-> p, from |-> from, to |-> to,
     path |-> IF p = None THEN <<n>> ELSE Append(PathAt(es, p, from), n)]

\* The edges of a moved subtree are re-inserted from d on, shallow ones first, so
\* that each takes its parent's new path; a parent outside of the subtree, or one
\* that comes later, still has the old one.
Resliced(es, tree, d) ==
    LET edgeOf(n) == CHOOSE e \in tree : e.node = n
        newPath[n \in {e.node : e \in tree}] ==
            LET p == edgeOf(n).parent IN
            IF \E e \in tree : e.node = p /\ Len(e.path) < Len(edgeOf(n).path)
            THEN Append(newPath[p], n)
            ELSE Append(PathAt(es, p, d), n)
    IN  Cut(es, tree, d) \cup {[e EXCEPT !.from = d, !.path = newPath[e.node]] : e \in tree}

\* Faulty variant: the past is rewritten too.
RewrittenEver(es, d, old, new) ==
    {IF InSubtree(e.path, old) /\ Len(e.path) > Len(old)
     THEN [e EXCEPT !.path = new \o SubSeq(e.path, Len(old) + 1, Len(e.path))]
     ELSE e : e \in es}

\* RewriteDescendantEdgesPathPrefixFrom.
Rewritten(es, d, old, new) ==
    {IF e.from >= d /\ InSubtree(e.path, old) /\ Len(e.path) > Len(old)
     THEN [e EXCEPT !.path = new \o SubSeq(e.path, Len(old) + 1, Len(e.path))]
     ELSE e : e \in es}

\* Faulty variant: only the node itself.
SubtreeAlone(top, d) == {e \in edges : Covers(e, d) /\ e.path = top}

\* LockEdgesInSubtree.
Subtree(top, d) == {e \in edges : Covers(e, d) /\ InSubtree(e.path, top)}

\* What MoveNode and CorrectMoveNode do to the edges.
Regraft(n, p, d) ==
    LET moved   == RowAt(edges, n, d)
        below   == Subtree(moved.path, d) \ {moved}
        cut     == Cut(edges, {moved}, d)
        new     == NewEdge(cut, p, n, d, moved.to)
        grafted == cut \cup {new}
        raised  == TriggerRaises(cut, p, n, d) \/ \E e \in below : TriggerRaises(Cut(grafted, {e}, d), e.parent, e.node, d)
    IN  [raised |-> raised,
         edges  |-> IF raised THEN edges ELSE Rewritten(Resliced(grafted, below, d), d, moved.path, new.path)]

\* Faulty variant: the new slice keeps the old hint.
SplitKeepingHint(s, hint, d) == Cut(slices, {s}, d) \cup {[s EXCEPT !.from = d]}

\* A slice is cut and continued from d on; one that starts on d is patched.
Split(s, hint, d) == Cut(slices, {s}, d) \cup {[s EXCEPT !.from = d, !.hint = hint]}

-----------------------------------------------------------------------------
(* Operations *)

\* Faulty variant: no row in org_nodes.
CreateNodeUnregistered(n, p, d) ==
    /\ "create" \in Ops /\ InOrder(d)
    /\ n \notin nodes
    /\ IF n = Root THEN p = None ELSE p # None /\ ExistsAt(edges, p, d)
    /\ UNCHANGED nodes
    /\ Transact(TriggerRaises(edges, p, n, d),
                edges \cup {NewEdge(edges, p, n, d, EndOfTime)},
                slices \cup {[node |-> n, hint |-> p, from |-> d, to |-> EndOfTime]})

CreateNode(n, p, d) ==
    /\ "create" \in Ops /\ InOrder(d)
    /\ n \notin nodes
    /\ IF n = Root THEN p = None ELSE p # None /\ ExistsAt(edges, p, d)
    /\ nodes' = nodes \cup {n}
    /\ Transact(TriggerRaises(edges, p, n, d),
                edges \cup {NewEdge(edges, p, n, d, EndOfTime)},
                slices \cup {[node |-> n, hint |-> p, from |-> d, to |-> EndOfTime]})

\* UpdateNode starts a slice with new attributes.  (CorrectNode changes attributes in place.)
UpdateNode(n, d) ==
    /\ "update" \in Ops /\ InOrder(d)
    /\ \E s \in slices :
        /\ s.node = n /\ Covers(s, d) /\ s.from < d
        /\ Transact(FALSE, edges, Split(s, s.hint, d))
    /\ UNCHANGED nodes

\* Common to both moves: not the root, and both nodes are in the tree on that day.
MayMove(n, p, d) ==
    /\ InOrder(d)
    /\ n # Root
    /\ ExistsAt(edges, p, d) /\ ExistsAt(edges, n, d)
    /\ "outside_subtree" \in Discipline => p # n /\ ~InSubtree(PathAt(edges, p, d), PathAt(edges, n, d))

\* Neither the edge nor one of the subtree may start on d: CorrectMoveNode is for that.
MoveNode(n, p, d) ==
    /\ "move" \in Ops /\ MayMove(n, p, d)
    /\ RowAt(edges, n, d).from < d
    /\ \A e \in Subtree(PathAt(edges, n, d), d) : e.from < d
    /\ \E s \in slices :
        /\ s.node = n /\ Covers(s, d) /\ s.from < d
        /\ LET g == Regraft(n, p, d) IN Transact(g.raised, g.edges, Split(s, p, d))
    /\ UNCHANGED nodes

CorrectMoveNode(n, p, d) ==
    /\ "correct_move" \in Ops /\ MayMove(n, p, d)
    /\ RowAt(edges, n, d).from = d
    /\ LET ss == IF ExistsAt(slices, n, d) THEN Split(RowAt(slices, n, d), p, d) ELSE slices
           g  == Regraft(n, p, d)
       IN  Transact(g.raised, g.edges, ss)
    /\ UNCHANGED nodes

\* The node leaves the tree on d; its last slice becomes a rescinded one.
RescindNode(n, d) ==
    /\ "rescind" \in Ops /\ InOrder(d)
    /\ n # Root
    /\ ~\E e \in edges : e.parent = n /\ Covers(e, d)
    /\ \E s \in slices :
        /\ s.node = n /\ Covers(s, d)
        /\ LET later(rows) == {r \in rows : r.node = n /\ r.to >= d}
           IN  Transact(FALSE, Cut(edges, later(edges), d),
                        Cut(slices, later(slices), d) \cup {[s EXCEPT !.from = d, !.to = EndOfTime]})
    /\ UNCHANGED nodes

\* The boundary between a slice and the one before it moves to another day.
ShiftBoundaryNode(n, start, d) ==
    /\ "shift" \in Ops /\ InOrder(start) /\ InOrder(d)
    /\ \E target, prev \in slices :
        /\ target.node = n /\ target.from = start
        /\ prev.node = n /\ prev.to = start - 1
        /\ d <= target.to /\ d > prev.from
        /\ Transact(FALSE, edges, (slices \ {target, prev})
                                    \cup {[target EXCEPT !.from = d], [prev EXCEPT !.to = d - 1]})
    /\ UNCHANGED nodes

\* The slice is deleted and the one before it, if any, takes its days.
DeleteNodeSliceAndStitch(n, start) ==
    /\ "delete_slice" \in Ops /\ InOrder(start)
    /\ \E target \in slices :
        /\ target.node = n /\ target.from = start
        /\ LET prev == {s \in slices : s.node = n /\ s.to = start - 1}
           IN  Transact(FALSE, edges, (slices \ (prev \cup {target}))
                                        \cup {[s EXCEPT !.to = target.to] : s \in prev})
    /\ UNCHANGED nodes

\* Faulty variant: a first edge is deleted as a first slice is.
DeleteFirstEdgeToo(n, start) ==
    /\ "delete_edge" \in Ops /\ InOrder(start)
    /\ \E target \in edges :
        /\ target.node = n /\ target.from = start
        /\ LET prev == {e \in edges : e.node = n /\ e.to = start - 1}
           IN  Transact(FALSE, (edges \ (prev \cup {target}))
                                 \cup {[e EXCEPT !.to = target.to] : e \in prev}, slices)
    /\ UNCHANGED nodes

\* The same for an edge; its descendants' paths go back to the earlier edge's path.
DeleteEdgeSliceAndStitch(n, start) ==
    /\ "delete_edge" \in Ops /\ InOrder(start)
    /\ \E target, prev \in edges :
        /\ target.node = n /\ target.from = start
        /\ prev.node = n /\ prev.to = start - 1
        /\ "settled_undo" \in Discipline =>
               \E p \in edges : p.node = prev.parent /\ Covers(p, start) /\ p.from < start
        /\ LET stitched == (edges \ {target, prev}) \cup {[prev EXCEPT !.to = target.to]}
           IN  Transact(FALSE, Rewritten(stitched, start, target.path, prev.path), slices)
    /\ UNCHANGED nodes

Next ==
    \E n \in Nodes, d \in Days :
        \/ \E p \in Parents : CreateNode(n, p, d)
        \/ UpdateNode(n, d)
        \/ \E p \in Nodes : MoveNode(n, p, d) \/ CorrectMoveNode(n, p, d)
        \/ RescindNode(n, d)
        \/ \E start \in Days : ShiftBoundaryNode(n, start, d)
        \/ DeleteNodeSliceAndStitch(n, d)
        \/ DeleteEdgeSliceAndStitch(n, d)

Spec == Init /\ [][Next]_vars

-----------------------------------------------------------------------------
(* Properties *)

TypeOK ==
    /\ nodes \subseteq Nodes
    /\ edges  \subseteq [node : nodes, parent : Parents, path : Seq(Nodes), from : Days, to : Days]
    /\ slices \subseteq [node : nodes, hint : Parents, from : Days, to : Days]
    /\ refusal \in {None, "trigger", "constraint"}

\* "child_path = parent_path || child_key" (docs/dev-plans/069-org-long-name-parent-
\* display-mismatch-investigation.md, for the first day of a row): on every day a row
\* covers, so that subtree and ancestor queries by path are right on every day.
PathsFollowTree ==
    \A c \in edges, d \in Days : Covers(c, d) =>
        IF c.parent = None THEN c.path = <<c.node>>
        ELSE \E p \in edges : p.node = c.parent /\ Covers(p, d) /\ c.path = Append(p.path, c.node)

\* "Cycles are forbidden" (docs/dev-plans/020-organization-lifecycle.md): no set of
\* edges of the same day has every parent among its own nodes.
Acyclic ==
    \A d \in Days :
        \A cycle \in SUBSET {e \in edges : Covers(e, d) /\ e.parent # None} :
            cycle # {} => \E e \in cycle : \A f \in cycle : f.node # e.parent

\* "Orphans are forbidden" (ibid.): on every day of an edge its parent is in the tree.
NoOrphans ==
    \A e \in edges, d \in Days :
        Covers(e, d) /\ e.parent # None => ExistsAt(edges, e.parent, d)

\* "parent_hint must be the parent of the edge as of the same day"
\* (docs/dev-plans/024-org-crud-mainline.md).
HintMatchesEdge ==
    \A s \in slices, e \in edges, d \in Days :
        s.node = e.node /\ Covers(s, d) /\ Covers(e, d) => s.hint = e.parent

\* The trigger and the constraints are a safety net: an operation whose own checks
\* have passed is not refused when it commits.
NeverRefused == refusal = None

\* What the tree looks like on a day before the newest edge never changes again when
\* callers write in date order, whatever is moved, corrected or undone.
TreeOn(es, d) == {<<e.node, e.parent, e.path>> : e \in {x \in es : Covers(x, d)}}
HistoryUnchanged ==
    [][\A d \in Days : (\E e \in edges : d < e.from) => TreeOn(edges', d) = TreeOn(edges, d)]_vars
=============================================================================
