----------------------------- MODULE OrgStaffing -----------------------------
(***************************************************************************)
(* Positions and the primary assignments of people to them, both with      *)
(* effective dates: org_position_slices (capacity and the position one     *)
(* reports to) and org_assignments, the service operations that write them *)
(* and the constraints that are checked when a transaction commits.        *)
(*                                                                         *)
(* One tenant; one action is one transaction that runs alone               *)
(* (OrgStaffingTx has the locks).  Job profiles, restrictions, catalog     *)
(* modes, freeze windows, reason codes and the matrix and dotted types,    *)
(* which the default configuration disables, are left out.                 *)
(***************************************************************************)
EXTENDS Integers, FiniteSets

CONSTANTS
    People,
    Positions,      \* positions made by CreatePosition
    None,           \* no position to report to
    EndOfTime,      \* the day 9999-12-31
    Capacities,     \* the capacity_fte callers ask for
    Shares,         \* the allocated_fte callers ask for, in the unit of capacity_fte
    Reporting,      \* whether positions report to one another
    Ops,            \* the operations callers use
    InDateOrder     \* callers promise: nothing is effective before an existing row starts

AllOps ==
    {"create", "create_auto", "update", "update_auto", "correct", "rescind", "delete",
     "create_position", "update_position", "correct_position", "rescind_position", "shift_position", "delete_position"}

ASSUME StaffingAssumption ==
    /\ EndOfTime \in Nat
    /\ Capacities \subseteq Nat \ {0} /\ Shares \subseteq Nat \ {0}
    /\ Ops \subseteq AllOps
    /\ Reporting \in BOOLEAN /\ InDateOrder \in BOOLEAN

\* autoPositionID: one id for the unit and the person.
AutoPosition(n) == <<"auto", n>>
AutoCapacity    == 1

AllPositions == Positions \cup {AutoPosition(n) : n \in People}
Bosses       == IF Reporting THEN AllPositions \cup {None} ELSE {None}

ASSUME PositionAssumption == None \notin AllPositions

Days == 0..EndOfTime

VARIABLES
    assignments,    \* org_assignments of type primary
    slices,         \* org_position_slices
    patched         \* history: positions changed by an operation without a check, see Patch

vars == <<assignments, slices, patched>>

Init == assignments = {} /\ slices = {} /\ patched = {}

-----------------------------------------------------------------------------
(* Rows *)

\* Both days are inclusive: effective_date <= d AND end_date >= d.
Covers(r, d) == r.from <= d /\ d <= r.to

JobsOf(as, n)  == {a \in as : a.person = n}
SlicesOf(ss, p) == {s \in ss : s.position = p}

\* PositionExistsAt.
Open(ss, p, d)    == \E s \in SlicesOf(ss, p) : Covers(s, d)
SliceAt(ss, p, d) == CHOOSE s \in SlicesOf(ss, p) : Covers(s, d)

\* SumAllocatedFTEAt: the sum of the active people's shares, counted unit by unit.
Active(as, p, d)   == {a \in as : a.position = p /\ a.status = "active" /\ Covers(a, d)}
Occupied(as, p, d) == Cardinality(UNION {{a} \X (1..a.fte) : a \in Active(as, p, d)})

\* The rows of one person or of one position: no overlap (the exclusion constraints)
\* and, from the first day on, no gap (the deferred triggers).
Whole(rows) ==
    /\ \A r \in rows : r.from <= r.to
    /\ \A r, s \in rows : r # s => r.to < s.from \/ s.to < r.from
    /\ \A r \in rows, d \in Days : r.from <= d => \E s \in rows : Covers(s, d)

Valid(as, ss) ==
    /\ \A n \in People : Whole(JobsOf(as, n))
    /\ \A p \in AllPositions : Whole(SlicesOf(ss, p))

\* Commit; what the constraints refuse is rolled back.
Commit(as, ss) == Valid(as, ss) /\ assignments' = as /\ slices' = ss

\* Operations that check neither the capacity nor the line of report of the position they change.
Patch(ps) == patched' = patched \cup ps
Checked   == UNCHANGED patched

InOrder(d) == InDateOrder => \A r \in assignments \cup slices : r.from <= d

\* Truncate a row to the day before d; one that starts on d goes.
Cut(rows, r, d) == (rows \ {r}) \cup (IF r.from < d THEN {[r EXCEPT !.to = d - 1]} ELSE {})

-----------------------------------------------------------------------------
(* Assignments *)

Job(n, p, f, status, from, to) ==
    [person |-> n, position |-> p, fte |-> f, status |-> status, from |-> from, to |-> to]

\* CreateAssignment's own rule for the day: nobody has two primary assignments, and one
\* who left may come back.
MayStart(n, d) == \A a \in JobsOf(assignments, n) : Covers(a, d) => a.status = "inactive" /\ a.from < d

\* Faulty variant: the new share is forgotten.
FitsIgnoringShare(as, ss, p, f, d) == Open(ss, p, d) /\ Occupied(as, p, d) <= SliceAt(ss, p, d).capacity

\* The position exists on d and has room for f on that day.
Fits(as, ss, p, f, d) == Open(ss, p, d) /\ Occupied(as, p, d) + f <= SliceAt(ss, p, d).capacity

\* InsertAutoPosition: a slice from d on, unless just that slice is there.
AutoSlice(n, d) ==
    [position |-> AutoPosition(n), capacity |-> AutoCapacity, boss |-> None, live |-> TRUE,
     from |-> d, to |-> EndOfTime]

WithAuto(n, d) ==
    IF \E s \in SlicesOf(slices, AutoPosition(n)) : s.from = d /\ s.to = EndOfTime THEN slices
    ELSE slices \cup {AutoSlice(n, d)}

\* The assignments after a hire or a rehire.
Started(n, p, f, d) ==
    (assignments \ {a \in JobsOf(assignments, n) : Covers(a, d)})
        \cup {[a EXCEPT !.to = d - 1] : a \in {x \in JobsOf(assignments, n) : Covers(x, d)}}
        \cup {Job(n, p, f, "active", d, EndOfTime)}

CreateAssignment(n, p, f, d) ==
    /\ "create" \in Ops /\ InOrder(d)
    /\ MayStart(n, d)
    /\ Fits(assignments, slices, p, f, d)
    /\ Commit(Started(n, p, f, d), slices)
    /\ Checked

\* CreateAssignment with an organization unit instead of a position.
CreateAssignmentAuto(n, f, d) ==
    /\ "create_auto" \in Ops /\ InOrder(d)
    /\ MayStart(n, d)
    /\ Fits(assignments, WithAuto(n, d), AutoPosition(n), f, d)
    /\ Commit(Started(n, AutoPosition(n), f, d), WithAuto(n, d))
    /\ Checked

\* The assignments after a transfer, or a new share, from d to the end of the row.
Transferred(a, p, f, d) ==
    Cut(assignments, a, d) \cup {[a EXCEPT !.position = p, !.fte = f, !.from = d]}

\* One's own share does not count against a change within the position; it is taken off
\* even when one is inactive and has not been counted.
OthersIn(a, p, d) ==
    LET occupied == Occupied(assignments, p, d)
    IN  IF a.position # p THEN occupied
        ELSE IF occupied < a.fte THEN 0 ELSE occupied - a.fte

\* The new row has the old one's status.
Transfer(n, ss, p, f, d) ==
    \E a \in JobsOf(assignments, n) :
        /\ Covers(a, d) /\ a.from < d
        /\ Open(ss, p, d) /\ Open(ss, a.position, d)
        /\ OthersIn(a, p, d) + f <= SliceAt(ss, p, d).capacity
        /\ Commit(Transferred(a, p, f, d), ss)

UpdateAssignment(n, p, f, d) ==
    /\ "update" \in Ops /\ InOrder(d)
    /\ Transfer(n, slices, p, f, d)
    /\ Checked

\* UpdateAssignment with an organization unit instead of a position.
UpdateAssignmentAuto(n, f, d) ==
    /\ "update_auto" \in Ops /\ InOrder(d)
    /\ Transfer(n, WithAuto(n, d), AutoPosition(n), f, d)
    /\ Checked

\* A row is patched in place: another position, that exists on its first day, or another
\* person.  Nothing looks at the capacity.
CorrectAssignment(n, start, p, m) ==
    /\ "correct" \in Ops /\ InOrder(start)
    /\ \E a \in JobsOf(assignments, n) :
        /\ a.from = start
        /\ p # a.position => Open(slices, p, start)
        /\ Commit((assignments \ {a}) \cup {[a EXCEPT !.person = m, !.position = p]}, slices)
        /\ Patch({p} \ {a.position})

\* The person leaves on d: an inactive row follows.  An inactive row would leave a gap.
Left(a, d) ==
    Cut(assignments, a, d) \cup (IF a.status = "active" THEN {[a EXCEPT !.status = "inactive", !.from = d]} ELSE {})

RescindAssignment(n, d) ==
    /\ "rescind" \in Ops /\ InOrder(d)
    /\ \E a \in JobsOf(assignments, n) :
        /\ a.from < d /\ d <= a.to
        /\ Commit(Left(a, d), slices)
    /\ Checked

\* The row is deleted and the one before it, if any, takes its days, in its own position.
Previous(a) == {b \in JobsOf(assignments, a.person) : b.to = a.from - 1}

\* Faulty variant: the last day is taken for the first one after the row.
StitchedHalfOpen(a, prev) ==
    (assignments \ (prev \cup {a})) \cup {[b EXCEPT !.to = a.to + 1] : b \in prev}

Stitched(a, prev) ==
    (assignments \ (prev \cup {a})) \cup {[b EXCEPT !.to = a.to] : b \in prev}

DeleteAssignmentAndStitch(n, start) ==
    /\ "delete" \in Ops /\ InOrder(start)
    /\ \E a \in JobsOf(assignments, n) :
        /\ a.from = start
        /\ Commit(Stitched(a, Previous(a)), slices)
        /\ Patch({b.position : b \in Previous(a)})

-----------------------------------------------------------------------------
(* Positions *)

\* Those one reports to on d, from m up; the walk stops at a position that is not there.
\* 128 steps are allowed, more than there are positions.
BossesOf(ps, d) == {SliceAt(slices, q, d).boss : q \in {x \in ps : Open(slices, x, d)}}

Line(m, d) ==
    LET above[i \in 0..Cardinality(AllPositions)] ==
            IF i = 0 THEN {} ELSE BossesOf({m} \cup above[i - 1], d)
    IN  {m} \cup above[Cardinality(AllPositions)]

\* Faulty variants: only the position itself; the walk ends well at a position that is not
\* there.
MayReportToMissing(p, m, d) == p \notin Line(m, d)
MayReportToOther(p, m, d) == m = None \/ (m # p /\ Open(slices, m, d))

\* validateReportsToNoCycle: the line of m ends, without passing through p.
MayReportTo(p, m, d) ==
    \/ m = None
    \/ /\ p \notin Line(m, d) /\ None \in Line(m, d)
       /\ \A q \in Line(m, d) \ {None} : Open(slices, q, d)

CreatePosition(p, c, m, d) ==
    /\ "create_position" \in Ops /\ InOrder(d)
    /\ SlicesOf(slices, p) = {}
    /\ MayReportTo(p, m, d)
    /\ Commit(assignments, slices \cup {[position |-> p, capacity |-> c, boss |-> m, live |-> TRUE, from |-> d, to |-> EndOfTime]})
    /\ Checked

\* A slice is cut and continued with new data.  The people of that day must fit.
UpdatePosition(p, c, m, d) ==
    /\ "update_position" \in Ops /\ InOrder(d)
    /\ \E s \in SlicesOf(slices, p) :
        /\ Covers(s, d) /\ s.from < d
        /\ Occupied(assignments, p, d) <= c
        /\ MayReportTo(p, m, d)
        /\ Commit(assignments, Cut(slices, s, d) \cup {[s EXCEPT !.capacity = c, !.boss = m, !.from = d]})
    /\ Checked

\* A slice is patched in place; the people of its first day must fit a new capacity.
CorrectPosition(p, start, c, m) ==
    /\ "correct_position" \in Ops /\ InOrder(start)
    /\ \E s \in SlicesOf(slices, p) :
        /\ s.from = start
        /\ c # s.capacity => Occupied(assignments, p, start) <= c
        /\ MayReportTo(p, m, start)
        /\ Commit(assignments, (slices \ {s}) \cup {[s EXCEPT !.capacity = c, !.boss = m]})
    /\ Checked

\* Nobody is in the position on d and none that is not rescinded reports to it.
RescindPosition(p, d) ==
    /\ "rescind_position" \in Ops /\ InOrder(d)
    /\ Occupied(assignments, p, d) = 0
    /\ ~\E s \in slices : s.boss = p /\ s.live /\ Covers(s, d)
    /\ \E s \in SlicesOf(slices, p) :
        /\ Covers(s, d)
        /\ LET kept == slices \ {x \in SlicesOf(slices, p) : x.from > d}
           IN  Commit(assignments, Cut(kept, s, d) \cup {[s EXCEPT !.live = FALSE, !.from = d, !.to = EndOfTime]})
    /\ Checked

\* The boundary between a slice and the one before it moves to another day.
ShiftBoundaryPosition(p, start, d) ==
    /\ "shift_position" \in Ops /\ InOrder(start) /\ InOrder(d)
    /\ d < EndOfTime
    /\ \E target, prev \in SlicesOf(slices, p) :
        /\ target.from = start /\ prev.to = start - 1
        /\ d <= target.to /\ d > prev.from
        /\ Commit(assignments, (slices \ {target, prev}) \cup {[target EXCEPT !.from = d], [prev EXCEPT !.to = d - 1]})
    /\ Patch({p})

\* The slice is deleted and the one before it, if any, takes its days.
DeletePositionSliceAndStitch(p, start) ==
    /\ "delete_position" \in Ops /\ InOrder(start)
    /\ \E target \in SlicesOf(slices, p) :
        /\ target.from = start
        /\ LET prev == {s \in SlicesOf(slices, p) : s.to = start - 1}
           IN  Commit(assignments, (slices \ (prev \cup {target})) \cup {[s EXCEPT !.to = target.to] : s \in prev})
    /\ Patch({p})

-----------------------------------------------------------------------------

AssignmentStep(n, d) ==
    \/ \E p \in AllPositions, f \in Shares : CreateAssignment(n, p, f, d) \/ UpdateAssignment(n, p, f, d)
    \/ \E f \in Shares : CreateAssignmentAuto(n, f, d) \/ UpdateAssignmentAuto(n, f, d)
    \/ \E p \in AllPositions, m \in People : CorrectAssignment(n, d, p, m)
    \/ RescindAssignment(n, d)
    \/ DeleteAssignmentAndStitch(n, d)

PositionStep(p, d) ==
    \/ \E c \in Capacities, m \in Bosses :
        \/ p \in Positions /\ CreatePosition(p, c, m, d)
        \/ UpdatePosition(p, c, m, d) \/ CorrectPosition(p, d, c, m)
    \/ RescindPosition(p, d)
    \/ \E start \in Days : ShiftBoundaryPosition(p, start, d)
    \/ DeletePositionSliceAndStitch(p, d)

Next ==
    \/ \E n \in People, d \in Days : AssignmentStep(n, d)
    \/ \E p \in AllPositions, d \in Days : PositionStep(p, d)

Spec == Init /\ [][Next]_vars

-----------------------------------------------------------------------------
(* Properties *)

TypeOK ==
    /\ assignments \subseteq [person : People, position : AllPositions, fte : Nat \ {0},
                              status : {"active", "inactive"}, from : Days, to : Days]
    /\ slices \subseteq [position : AllPositions, capacity : Nat \ {0}, boss : AllPositions \cup {None},
                         live : BOOLEAN, from : Days, to : Days]
    /\ patched \subseteq AllPositions

\* "occupied_fte > capacity_fte must be blocked" (docs/dev-plans/053-position-core-schema-
\* service-api.md:378), on every day, although each operation looks at one day: it holds
\* in date order, for positions that no unchecked operation has touched.
WithinCapacity ==
    \A s \in slices, d \in Days :
        Covers(s, d) /\ s.position \notin patched => Occupied(assignments, s.position, d) <= s.capacity

\* Whoever works or reports works in, and reports to, a position that exists on every day
\* of the row, although only the first day is looked at.
PositionsExist ==
    /\ \A a \in assignments, d \in Days : Covers(a, d) /\ a.position \notin patched => Open(slices, a.position, d)
    /\ \A s \in slices, d \in Days :
        Covers(s, d) /\ s.boss \notin patched \cup {None} => Open(slices, s.boss, d)

\* No cycle of reports on any day, in date order, but through a position that an unchecked
\* operation has touched.
ReportsAcyclic ==
    \A d \in Days :
        \A cycle \in SUBSET {s \in slices : Covers(s, d) /\ s.boss # None} :
            (cycle # {} /\ \A s \in cycle : s.position \notin patched)
                => \E s \in cycle : \A t \in cycle : t.position # s.boss
=============================================================================
