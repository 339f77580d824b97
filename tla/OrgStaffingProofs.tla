-------------------------- MODULE OrgStaffingProofs --------------------------
(***************************************************************************)
(* Theorems about OrgStaffing: type correctness for all callers, and for   *)
(* callers in date order that everybody works in a position that exists,   *)
(* no position is over its capacity and no reports go round, on any day.   *)
(***************************************************************************)
EXTENDS OrgStaffing, FiniteSetTheorems, WellFoundedInduction, TLAPS

-----------------------------------------------------------------------------
(* Occupancy: how it changes with one row *)

\* The rows that Occupied counts, and what each adds.
Units(S) == UNION {{a} \X (1..a.fte) : a \in S}

Counts(a, p, d)  == a.position = p /\ a.status = "active" /\ Covers(a, d)
Weight(a, p, d)  == IF Counts(a, p, d) THEN a.fte ELSE 0

\* A table of assignments: finitely many, with whole shares.
Table(as) == IsFiniteSet(as) /\ \A a \in as : a.fte \in Nat

LEMMA WeightIs ==
    ASSUME NEW a, a.fte \in Nat, NEW p, NEW d
    PROVE  /\ Weight(a, p, d) \in Nat
           /\ Counts(a, p, d) => Weight(a, p, d) = a.fte
           /\ ~Counts(a, p, d) => Weight(a, p, d) = 0
BY DEF Weight

LEMMA UnitsFinite ==
    ASSUME NEW S, Table(S)
    PROVE  IsFiniteSet(Units(S)) /\ Cardinality(Units(S)) \in Nat
<1> DEFINE f == [a \in S |-> {a} \X (1..a.fte)]
           T == {f[a] : a \in S}
<1>1. f \in Surjection(S, T)
  BY DEF Surjection
<1>2. IsFiniteSet(T)
  <2> HIDE DEF f, T
  <2> QED BY <1>1, FS_Surjection DEF Table
<1>3. ASSUME NEW t \in T PROVE IsFiniteSet(t)
  <2>1. PICK a \in S : t = {a} \X (1..a.fte)
    OBVIOUS
  <2>2. IsFiniteSet({a})
    BY FS_Singleton
  <2>3. IsFiniteSet(1..a.fte)
    BY FS_Interval DEF Table
  <2> QED BY <2>1, <2>2, <2>3, FS_Product
<1>4. Units(S) = UNION T
  BY DEF Units
<1>5. IsFiniteSet(UNION T)
  BY <1>2, <1>3, FS_UNION
<1> QED BY <1>4, <1>5, FS_CardinalityType

\* The units of one more row are as many as its share.
LEMMA UnitsOfOne ==
    ASSUME NEW a, a.fte \in Nat
    PROVE  IsFiniteSet({a} \X (1..a.fte)) /\ Cardinality({a} \X (1..a.fte)) = a.fte
<1>1. IsFiniteSet({a}) /\ Cardinality({a}) = 1
  BY FS_Singleton
<1>2. IsFiniteSet(1..a.fte) /\ Cardinality(1..a.fte) = a.fte
  BY FS_Interval
<1>3. /\ IsFiniteSet({a} \X (1..a.fte))
      /\ Cardinality({a} \X (1..a.fte)) = Cardinality({a}) * Cardinality(1..a.fte)
  <2> DEFINE I == 1..a.fte
  <2> HIDE DEF I
  <2>1. IsFiniteSet(I)
    BY <1>2 DEF I
  <2>2. IsFiniteSet({a} \X I) /\ Cardinality({a} \X I) = Cardinality({a}) * Cardinality(I)
    BY <1>1, <2>1, FS_Product
  <2> QED BY <2>2 DEF I
<1>4. 1 * a.fte = a.fte
  OBVIOUS
<1> QED BY <1>1, <1>2, <1>3, <1>4

LEMMA UnitsAdd ==
    ASSUME NEW S, Table(S), NEW a, a.fte \in Nat, a \notin S
    PROVE  Cardinality(Units(S \cup {a})) = Cardinality(Units(S)) + a.fte
<1> DEFINE U == {a} \X (1..a.fte)
<1>1. Units(S \cup {a}) = Units(S) \cup U
  BY DEF Units
<1>2. Units(S) \cap U = {}
  BY DEF Units
<1>3. IsFiniteSet(Units(S)) /\ Cardinality(Units(S)) \in Nat
  BY UnitsFinite
<1>4. IsFiniteSet(U) /\ Cardinality(U) = a.fte
  BY UnitsOfOne
<1>5. Cardinality(Units(S) \cup U) = Cardinality(Units(S)) + a.fte - Cardinality({})
  <2> HIDE DEF U
  <2> QED BY <1>2, <1>3, <1>4, FS_Union
<1>6. Cardinality({}) = 0
  BY FS_EmptySet
<1> HIDE DEF U
<1>7. Cardinality(Units(S \cup {a})) = Cardinality(Units(S) \cup U)
  BY <1>1
<1> QED BY <1>3, <1>5, <1>6, <1>7

LEMMA OccupiedIs ==
    ASSUME NEW as, NEW p, NEW d
    PROVE  Occupied(as, p, d) = Cardinality(Units(Active(as, p, d)))
BY DEF Occupied, Units

LEMMA ActiveTable ==
    ASSUME NEW as, Table(as), NEW p, NEW d
    PROVE  Table(Active(as, p, d)) /\ Occupied(as, p, d) \in Nat
<1>1. Active(as, p, d) \subseteq as
  BY DEF Active
<1>2. Table(Active(as, p, d))
  BY <1>1, FS_Subset DEF Table
<1> QED BY <1>2, UnitsFinite, OccupiedIs

\* Fewer active rows, no more occupancy (of another day or another table, too).
LEMMA OccupiedSubset ==
    ASSUME NEW as, NEW bs, Table(as), NEW p, NEW d, NEW e,
           Active(bs, p, e) \subseteq Active(as, p, d)
    PROVE  Occupied(bs, p, e) <= Occupied(as, p, d)
<1>1. IsFiniteSet(Units(Active(as, p, d)))
  BY ActiveTable, UnitsFinite
<1>2. Units(Active(bs, p, e)) \subseteq Units(Active(as, p, d))
  BY DEF Units
<1> QED BY <1>1, <1>2, FS_Subset, OccupiedIs

LEMMA OccupiedAdd ==
    ASSUME NEW as, Table(as), NEW b, b.fte \in Nat, NEW p, NEW d
    PROVE  Occupied(as \cup {b}, p, d) <= Occupied(as, p, d) + Weight(b, p, d)
<1> DEFINE more == Occupied(as \cup {b}, p, d)
           less == Occupied(as, p, d)
           w    == Weight(b, p, d)
<1>1. Table(Active(as, p, d)) /\ Occupied(as, p, d) \in Nat
  BY ActiveTable
<1>2. CASE Counts(b, p, d) /\ b \notin as
  <2>1. Active(as \cup {b}, p, d) = Active(as, p, d) \cup {b}
    BY <1>2 DEF Active, Counts
  <2>2. b \notin Active(as, p, d)
    BY <1>2 DEF Active
  <2>3. Cardinality(Units(Active(as, p, d) \cup {b})) = Cardinality(Units(Active(as, p, d))) + b.fte
    BY <1>1, <2>2, UnitsAdd
  <2>4. Occupied(as \cup {b}, p, d) = Occupied(as, p, d) + b.fte
    BY <2>1, <2>3, OccupiedIs
  <2>5. less \in Nat /\ more = less + b.fte /\ w = b.fte
    BY <1>1, <1>2, <2>4, WeightIs
  <2> HIDE DEF more, less, w
  <2>6. more <= less + w
    BY <2>5
  <2> QED BY <2>6 DEF more, less, w
<1>3. CASE ~(Counts(b, p, d) /\ b \notin as)
  <2>1. Active(as \cup {b}, p, d) = Active(as, p, d)
    BY <1>3 DEF Active, Counts
  <2>2. Occupied(as \cup {b}, p, d) = Occupied(as, p, d)
    BY <2>1, OccupiedIs
  <2>3. less \in Nat /\ more = less /\ w \in Nat
    BY <1>1, <2>2, WeightIs
  <2> HIDE DEF more, less, w
  <2>4. more <= less + w
    BY <2>3
  <2> QED BY <2>4 DEF more, less, w
<1> QED BY <1>2, <1>3

LEMMA OccupiedRemove ==
    ASSUME NEW as, Table(as), NEW a \in as, NEW p, NEW d
    PROVE  Occupied(as \ {a}, p, d) + Weight(a, p, d) = Occupied(as, p, d)
<1> DEFINE rest == as \ {a}
<1>0. Table(rest)
  BY FS_RemoveElement DEF Table
<1>1. Table(Active(rest, p, d)) /\ Occupied(rest, p, d) \in Nat
  BY <1>0, ActiveTable
<1>2. CASE Counts(a, p, d)
  <2>1. Active(as, p, d) = Active(rest, p, d) \cup {a}
    BY <1>2 DEF Active, Counts
  <2>2. a \notin Active(rest, p, d)
    BY DEF Active
  <2>3. a.fte \in Nat
    BY DEF Table
  <2> HIDE DEF rest
  <2>4. Cardinality(Units(Active(rest, p, d) \cup {a})) = Cardinality(Units(Active(rest, p, d))) + a.fte
    BY <1>1, <2>2, <2>3, UnitsAdd
  <2>5. Occupied(as, p, d) = Occupied(rest, p, d) + a.fte
    BY <2>1, <2>4, OccupiedIs
  <2>6. Occupied(rest, p, d) + Weight(a, p, d) = Occupied(as, p, d)
    BY <1>2, <2>3, <2>5, WeightIs
  <2> QED BY <2>6 DEF rest
<1>3. CASE ~Counts(a, p, d)
  <2>1. Active(as, p, d) = Active(rest, p, d)
    BY <1>3 DEF Active, Counts
  <2>2. Occupied(as, p, d) = Occupied(rest, p, d)
    BY <2>1, OccupiedIs
  <2>3. a.fte \in Nat
    BY DEF Table
  <2> HIDE DEF rest
  <2>4. Occupied(rest, p, d) + Weight(a, p, d) = Occupied(as, p, d)
    BY <1>1, <1>3, <2>2, <2>3, WeightIs
  <2> QED BY <2>4 DEF rest
<1> QED BY <1>2, <1>3

\* One row replaced by another.
LEMMA OccupiedReplace ==
    ASSUME NEW as, Table(as), NEW a \in as, NEW b, b.fte \in Nat, NEW p, NEW d
    PROVE  /\ Table((as \ {a}) \cup {b})
           /\ Occupied((as \ {a}) \cup {b}, p, d) + Weight(a, p, d) <= Occupied(as, p, d) + Weight(b, p, d)
<1>1. Table(as \ {a})
  BY FS_RemoveElement DEF Table
<1>2. Table((as \ {a}) \cup {b})
  BY <1>1, FS_AddElement DEF Table
<1>3. /\ Occupied(as \ {a}, p, d) + Weight(a, p, d) = Occupied(as, p, d)
      /\ Occupied((as \ {a}) \cup {b}, p, d) <= Occupied(as \ {a}, p, d) + Weight(b, p, d)
  BY <1>1, OccupiedRemove, OccupiedAdd
<1>4. Weight(a, p, d) \in Nat /\ Weight(b, p, d) \in Nat
  BY WeightIs DEF Table
<1>5. /\ Occupied(as, p, d) \in Nat /\ Occupied(as \ {a}, p, d) \in Nat
      /\ Occupied((as \ {a}) \cup {b}, p, d) \in Nat
  BY <1>1, <1>2, ActiveTable
<1> DEFINE x == Occupied(as \ {a}, p, d)
           y == Occupied((as \ {a}) \cup {b}, p, d)
           z == Occupied(as, p, d)
           v == Weight(a, p, d)
           w == Weight(b, p, d)
<1>6. x \in Nat /\ y \in Nat /\ z \in Nat /\ v \in Nat /\ w \in Nat /\ x + v = z /\ y <= x + w
  BY <1>3, <1>4, <1>5
<1> HIDE DEF x, y, z, v, w
<1>7. y + v <= z + w
  BY <1>6
<1> QED BY <1>2, <1>7 DEF y, z, v, w
-----------------------------------------------------------------------------
(* Rows and their types *)

Jobs == [person : People, position : AllPositions, fte : Nat \ {0},
         status : {"active", "inactive"}, from : Days, to : Days]

SliceRows == [position : AllPositions, capacity : Nat \ {0}, boss : AllPositions \cup {None},
              live : BOOLEAN, from : Days, to : Days]

LEMMA DaysAreInts == Days \subseteq Nat
BY StaffingAssumption DEF Days

LEMMA TypeIs ==
    TypeOK <=> assignments \subseteq Jobs /\ slices \subseteq SliceRows /\ patched \subseteq AllPositions
BY DEF TypeOK, Jobs, SliceRows

\* A row with another last day.
EndsOn(r, d) == [r EXCEPT !.to = d]

LEMMA JobEndsOn ==
    ASSUME NEW a \in Jobs, NEW d \in Days
    PROVE  /\ EndsOn(a, d) \in Jobs
           /\ EndsOn(a, d).person = a.person /\ EndsOn(a, d).position = a.position
           /\ EndsOn(a, d).fte = a.fte /\ EndsOn(a, d).status = a.status
           /\ EndsOn(a, d).from = a.from /\ EndsOn(a, d).to = d
BY DEF EndsOn, Jobs

LEMMA SliceEndsOn ==
    ASSUME NEW s \in SliceRows, NEW d \in Days
    PROVE  /\ EndsOn(s, d) \in SliceRows
           /\ EndsOn(s, d).position = s.position /\ EndsOn(s, d).capacity = s.capacity
           /\ EndsOn(s, d).boss = s.boss /\ EndsOn(s, d).live = s.live
           /\ EndsOn(s, d).from = s.from /\ EndsOn(s, d).to = d
BY DEF EndsOn, SliceRows

\* The row that follows a transfer.
MovedTo(a, p, f, d) == [a EXCEPT !.position = p, !.fte = f, !.from = d]

LEMMA JobMovedTo ==
    ASSUME NEW a \in Jobs, NEW p \in AllPositions, NEW f \in Nat \ {0}, NEW d \in Days
    PROVE  /\ MovedTo(a, p, f, d) \in Jobs
           /\ MovedTo(a, p, f, d).position = p /\ MovedTo(a, p, f, d).fte = f
           /\ MovedTo(a, p, f, d).person = a.person
           /\ MovedTo(a, p, f, d).status = a.status
           /\ MovedTo(a, p, f, d).from = d /\ MovedTo(a, p, f, d).to = a.to
<1> DEFINE x == [a EXCEPT !.position = p]
           y == [x EXCEPT !.fte = f]
           z == [y EXCEPT !.from = d]
<1>1. MovedTo(a, p, f, d) = z
  BY DEF MovedTo
<1>2. x \in Jobs /\ x.position = p /\ x.person = a.person /\ x.status = a.status /\ x.to = a.to
  BY DEF Jobs
<1> HIDE DEF x
<1>3. /\ y \in Jobs /\ y.position = p /\ y.fte = f /\ y.person = a.person
      /\ y.status = a.status /\ y.to = a.to
  BY <1>2 DEF Jobs
<1> HIDE DEF y
<1>4. /\ z \in Jobs /\ z.position = p /\ z.fte = f /\ z.person = a.person
      /\ z.status = a.status /\ z.from = d /\ z.to = a.to
  BY <1>3 DEF Jobs
<1> QED BY <1>1, <1>4

\* The row after a correction.
CorrectedTo(a, m, p) == [a EXCEPT !.person = m, !.position = p]

LEMMA JobCorrectedTo ==
    ASSUME NEW a \in Jobs, NEW m \in People, NEW p \in AllPositions
    PROVE  /\ CorrectedTo(a, m, p) \in Jobs
           /\ CorrectedTo(a, m, p).position = p /\ CorrectedTo(a, m, p).fte = a.fte
           /\ CorrectedTo(a, m, p).status = a.status
           /\ CorrectedTo(a, m, p).from = a.from /\ CorrectedTo(a, m, p).to = a.to
<1> DEFINE x == [a EXCEPT !.person = m]
           y == [x EXCEPT !.position = p]
<1>1. CorrectedTo(a, m, p) = y
  BY DEF CorrectedTo
<1>2. x \in Jobs /\ x.fte = a.fte /\ x.status = a.status /\ x.from = a.from /\ x.to = a.to
  BY DEF Jobs
<1> HIDE DEF x
<1>3. /\ y \in Jobs /\ y.position = p /\ y.fte = a.fte /\ y.status = a.status
      /\ y.from = a.from /\ y.to = a.to
  BY <1>2 DEF Jobs
<1> QED BY <1>1, <1>3

\* The row of somebody who has left.
InactiveFrom(a, d) == [a EXCEPT !.status = "inactive", !.from = d]

LEMMA JobInactiveFrom ==
    ASSUME NEW a \in Jobs, NEW d \in Days
    PROVE  /\ InactiveFrom(a, d) \in Jobs
           /\ InactiveFrom(a, d).status = "inactive" /\ InactiveFrom(a, d).person = a.person
           /\ InactiveFrom(a, d).position = a.position
           /\ InactiveFrom(a, d).from = d /\ InactiveFrom(a, d).to = a.to
<1> DEFINE x == [a EXCEPT !.status = "inactive"]
           y == [x EXCEPT !.from = d]
<1>1. InactiveFrom(a, d) = y
  BY DEF InactiveFrom
<1>2. /\ x \in Jobs /\ x.status = "inactive" /\ x.person = a.person
      /\ x.position = a.position /\ x.to = a.to
  BY DEF Jobs
<1> HIDE DEF x
<1>3. /\ y \in Jobs /\ y.status = "inactive" /\ y.person = a.person
      /\ y.position = a.position /\ y.from = d /\ y.to = a.to
  BY <1>2 DEF Jobs
<1> QED BY <1>1, <1>3

\* Slices after an update, a correction, a rescission and a shift.
Redefined(s, c, m)          == [s EXCEPT !.capacity = c, !.boss = m]
RedefinedFrom(s, c, m, d)   == [s EXCEPT !.capacity = c, !.boss = m, !.from = d]
ClosedFrom(s, d)            == [s EXCEPT !.live = FALSE, !.from = d, !.to = EndOfTime]
StartsOn(s, d)              == [s EXCEPT !.from = d]

LEMMA SliceRedefined ==
    ASSUME NEW s \in SliceRows, NEW c \in Nat \ {0}, NEW m \in AllPositions \cup {None}
    PROVE  /\ Redefined(s, c, m) \in SliceRows
           /\ Redefined(s, c, m).position = s.position
           /\ Redefined(s, c, m).capacity = c /\ Redefined(s, c, m).boss = m
           /\ Redefined(s, c, m).from = s.from /\ Redefined(s, c, m).to = s.to
<1> DEFINE x == [s EXCEPT !.capacity = c]
           y == [x EXCEPT !.boss = m]
<1>1. Redefined(s, c, m) = y
  BY DEF Redefined
<1>2. x \in SliceRows /\ x.capacity = c /\ x.position = s.position /\ x.from = s.from /\ x.to = s.to
  BY DEF SliceRows
<1> HIDE DEF x
<1>3. /\ y \in SliceRows /\ y.capacity = c /\ y.position = s.position /\ y.boss = m
      /\ y.from = s.from /\ y.to = s.to
  BY <1>2 DEF SliceRows
<1> QED BY <1>1, <1>3

LEMMA SliceStartsOn ==
    ASSUME NEW s \in SliceRows, NEW d \in Days
    PROVE  /\ StartsOn(s, d) \in SliceRows
           /\ StartsOn(s, d).position = s.position /\ StartsOn(s, d).capacity = s.capacity
           /\ StartsOn(s, d).boss = s.boss
           /\ StartsOn(s, d).from = d /\ StartsOn(s, d).to = s.to
BY DEF StartsOn, SliceRows

LEMMA SliceRedefinedFrom ==
    ASSUME NEW s \in SliceRows, NEW c \in Nat \ {0}, NEW m \in AllPositions \cup {None}, NEW d \in Days
    PROVE  /\ RedefinedFrom(s, c, m, d) \in SliceRows
           /\ RedefinedFrom(s, c, m, d).position = s.position
           /\ RedefinedFrom(s, c, m, d).capacity = c /\ RedefinedFrom(s, c, m, d).boss = m
           /\ RedefinedFrom(s, c, m, d).from = d /\ RedefinedFrom(s, c, m, d).to = s.to
<1>1. RedefinedFrom(s, c, m, d) = StartsOn(Redefined(s, c, m), d)
  BY DEF RedefinedFrom, StartsOn, Redefined
<1> QED BY <1>1, SliceRedefined, SliceStartsOn

LEMMA SliceClosedFrom ==
    ASSUME NEW s \in SliceRows, NEW d \in Days
    PROVE  /\ ClosedFrom(s, d) \in SliceRows
           /\ ClosedFrom(s, d).position = s.position
           /\ ClosedFrom(s, d).capacity = s.capacity /\ ClosedFrom(s, d).boss = s.boss
           /\ ClosedFrom(s, d).from = d /\ ClosedFrom(s, d).to = EndOfTime
<1> DEFINE x == [s EXCEPT !.live = FALSE]
           y == [x EXCEPT !.from = d]
           z == [y EXCEPT !.to = EndOfTime]
<1>1. ClosedFrom(s, d) = z
  BY DEF ClosedFrom
<1>2. x \in SliceRows /\ x.position = s.position /\ x.capacity = s.capacity /\ x.boss = s.boss
  BY DEF SliceRows
<1> HIDE DEF x
<1>3. /\ y \in SliceRows /\ y.position = s.position /\ y.capacity = s.capacity
      /\ y.boss = s.boss /\ y.from = d
  BY <1>2 DEF SliceRows
<1> HIDE DEF y
<1>4. EndOfTime \in Days
  BY StaffingAssumption DEF Days
<1>5. /\ z \in SliceRows /\ z.position = s.position /\ z.capacity = s.capacity
      /\ z.boss = s.boss /\ z.from = d /\ z.to = EndOfTime
  BY <1>3, <1>4 DEF SliceRows
<1> QED BY <1>1, <1>5

-----------------------------------------------------------------------------
(* Type correctness *)

TypeInv == TypeOK /\ IsFiniteSet(assignments) /\ Valid(assignments, slices)

LEMMA ImageFinite ==
    ASSUME NEW C, IsFiniteSet(C), NEW d
    PROVE  IsFiniteSet({EndsOn(x, d) : x \in C})
<1> DEFINE f == [x \in C |-> EndsOn(x, d)]
           T == {f[x] : x \in C}
<1>1. f \in Surjection(C, T)
  BY DEF Surjection
<1>2. IsFiniteSet(T)
  <2> HIDE DEF f, T
  <2> QED BY <1>1, FS_Surjection
<1> QED BY <1>2

LEMMA DayBefore ==
    ASSUME NEW d \in Days, NEW c \in Days, c < d
    PROVE  d - 1 \in Days
BY StaffingAssumption DEF Days

LEMMA CutIs ==
    ASSUME NEW rows, NEW r, NEW d
    PROVE  Cut(rows, r, d) = (rows \ {r}) \cup (IF r.from < d THEN {EndsOn(r, d - 1)} ELSE {})
BY DEF Cut, EndsOn

\* A cut leaves rows.
LEMMA CutJobs ==
    ASSUME NEW as, as \subseteq Jobs, IsFiniteSet(as), NEW a \in as, NEW d \in Days
    PROVE  Cut(as, a, d) \subseteq Jobs /\ IsFiniteSet(Cut(as, a, d))
<1>1. IsFiniteSet(as \ {a})
  BY FS_RemoveElement
<1>2. CASE a.from < d
  <2>1. Cut(as, a, d) = (as \ {a}) \cup {EndsOn(a, d - 1)}
    BY <1>2, CutIs
  <2>2. EndsOn(a, d - 1) \in Jobs
    <3>1. a.from \in Days
      BY DEF Jobs
    <3> QED BY <1>2, <3>1, DayBefore, JobEndsOn
  <2>3. IsFiniteSet((as \ {a}) \cup {EndsOn(a, d - 1)})
    BY <1>1, FS_AddElement
  <2> QED BY <2>1, <2>2, <2>3
<1>3. CASE ~(a.from < d)
  <2>1. Cut(as, a, d) = as \ {a}
    BY <1>3, CutIs
  <2> QED BY <1>1, <2>1
<1> QED BY <1>2, <1>3

LEMMA CutSlices ==
    ASSUME NEW ss, ss \subseteq SliceRows, NEW s \in SliceRows, NEW d \in Days
    PROVE  Cut(ss, s, d) \subseteq SliceRows
<1>1. CASE s.from < d
  <2>1. EndsOn(s, d - 1) \in SliceRows
    <3>1. s.from \in Days
      BY DEF SliceRows
    <3> QED BY <1>1, <3>1, DayBefore, SliceEndsOn
  <2> QED BY <1>1, <2>1, CutIs
<1>2. CASE ~(s.from < d)
  BY <1>2, CutIs
<1> QED BY <1>1, <1>2

\* Those who are hired.
LEMMA StartedJobs ==
    ASSUME assignments \subseteq Jobs, IsFiniteSet(assignments),
           NEW n \in People, NEW p \in AllPositions, NEW f \in Shares, NEW d \in Days,
           MayStart(n, d)
    PROVE  Started(n, p, f, d) \subseteq Jobs /\ IsFiniteSet(Started(n, p, f, d))
<1> DEFINE C   == {a \in JobsOf(assignments, n) : Covers(a, d)}
           new == Job(n, p, f, "active", d, EndOfTime)
           E   == {EndsOn(a, d - 1) : a \in C}
<1>1. Started(n, p, f, d) = ((assignments \ C) \cup E) \cup {new}
  BY DEF Started, EndsOn
<1>2. new \in Jobs
  BY StaffingAssumption DEF Job, Jobs, Days
<1>3. C \subseteq assignments
  BY DEF JobsOf
<1>4. E \subseteq Jobs
  <2> SUFFICES ASSUME NEW a \in C PROVE EndsOn(a, d - 1) \in Jobs
    OBVIOUS
  <2>1. a \in Jobs /\ a.from < d
    BY <1>3 DEF MayStart
  <2>2. a.from \in Days
    BY <2>1 DEF Jobs
  <2> QED BY <2>1, <2>2, DayBefore, JobEndsOn
<1> HIDE DEF C, new
<1>5. IsFiniteSet(E) /\ IsFiniteSet(assignments \ C)
  BY <1>3, FS_Subset, ImageFinite
<1> HIDE DEF E
<1>6. IsFiniteSet((assignments \ C) \cup E)
  BY <1>5, FS_Union
<1>7. IsFiniteSet(((assignments \ C) \cup E) \cup {new})
  BY <1>6, FS_AddElement
<1> QED BY <1>1, <1>2, <1>4, <1>7

LEMMA AutoRows ==
    ASSUME slices \subseteq SliceRows, NEW n \in People, NEW d \in Days
    PROVE  AutoPosition(n) \in AllPositions /\ WithAuto(n, d) \subseteq SliceRows
<1>1. AutoPosition(n) \in AllPositions
  BY DEF AllPositions
<1>2. AutoSlice(n, d) \in SliceRows
  BY <1>1, StaffingAssumption DEF AutoSlice, SliceRows, Days, AutoCapacity
<1> QED BY <1>1, <1>2 DEF WithAuto

LEMMA TransferJobs ==
    ASSUME assignments \subseteq Jobs, IsFiniteSet(assignments),
           NEW p \in AllPositions, NEW f \in Shares, NEW d \in Days, NEW a \in assignments
    PROVE  Transferred(a, p, f, d) \subseteq Jobs /\ IsFiniteSet(Transferred(a, p, f, d))
<1>1. Transferred(a, p, f, d) = Cut(assignments, a, d) \cup {MovedTo(a, p, f, d)}
  BY DEF Transferred, MovedTo
<1>2. MovedTo(a, p, f, d) \in Jobs
  BY JobMovedTo, StaffingAssumption
<1>3. Cut(assignments, a, d) \subseteq Jobs /\ IsFiniteSet(Cut(assignments, a, d))
  BY CutJobs
<1> QED BY <1>1, <1>2, <1>3, FS_AddElement

LEMMA StitchedJobs ==
    ASSUME assignments \subseteq Jobs, IsFiniteSet(assignments), NEW a \in assignments
    PROVE  Stitched(a, Previous(a)) \subseteq Jobs /\ IsFiniteSet(Stitched(a, Previous(a)))
<1> DEFINE C == Previous(a)
           E == {EndsOn(b, a.to) : b \in C}
<1>1. Stitched(a, Previous(a)) = (assignments \ (C \cup {a})) \cup E
  BY DEF Stitched, EndsOn
<1>2. C \subseteq assignments
  BY DEF Previous, JobsOf
<1>3. E \subseteq Jobs
  <2>1. a.to \in Days
    BY DEF Jobs
  <2> QED BY <1>2, <2>1, JobEndsOn
<1> HIDE DEF C
<1>4. IsFiniteSet(E) /\ IsFiniteSet(assignments \ (C \cup {a}))
  BY <1>2, FS_Subset, ImageFinite
<1> HIDE DEF E
<1>5. IsFiniteSet((assignments \ (C \cup {a})) \cup E)
  BY <1>4, FS_Union
<1> QED BY <1>1, <1>3, <1>5

\* Whatever commits has rows of the right kind and keeps the constraints.
LEMMA CommitTypes ==
    ASSUME NEW as, NEW ss, Commit(as, ss), as \subseteq Jobs, ss \subseteq SliceRows, IsFiniteSet(as),
           patched' \subseteq AllPositions
    PROVE  TypeInv'
BY DEF Commit, TypeInv, TypeOK, Jobs, SliceRows, Valid

LEMMA TransferTypes ==
    ASSUME TypeInv, NEW n \in People, NEW p \in AllPositions, NEW f \in Shares, NEW d \in Days,
           NEW ss, ss \subseteq SliceRows, Transfer(n, ss, p, f, d), Checked
    PROVE  TypeInv'
<1>1. PICK a \in JobsOf(assignments, n) : Commit(Transferred(a, p, f, d), ss)
  BY DEF Transfer
<1>2. /\ assignments \subseteq Jobs /\ IsFiniteSet(assignments) /\ patched \subseteq AllPositions
      /\ a \in assignments
  BY TypeIs DEF TypeInv, JobsOf
<1>3. Transferred(a, p, f, d) \subseteq Jobs /\ IsFiniteSet(Transferred(a, p, f, d))
  BY <1>2, TransferJobs
<1> QED BY <1>1, <1>2, <1>3, CommitTypes DEF Checked

\* Every operation on assignments keeps the types.
LEMMA AssignmentTypes ==
    ASSUME TypeInv, NEW n \in People, NEW d \in Days, AssignmentStep(n, d)
    PROVE  TypeInv'
<1>0. /\ assignments \subseteq Jobs /\ slices \subseteq SliceRows /\ patched \subseteq AllPositions
      /\ IsFiniteSet(assignments)
  BY TypeIs DEF TypeInv
<1>1. ASSUME NEW p \in AllPositions, NEW f \in Shares, CreateAssignment(n, p, f, d)
      PROVE  TypeInv'
  <2>1. MayStart(n, d) /\ Commit(Started(n, p, f, d), slices) /\ Checked
    BY <1>1 DEF CreateAssignment
  <2>2. Started(n, p, f, d) \subseteq Jobs /\ IsFiniteSet(Started(n, p, f, d))
    BY <1>0, <2>1, StartedJobs
  <2> QED BY <1>0, <2>1, <2>2, CommitTypes DEF Checked
<1>2. ASSUME NEW f \in Shares, CreateAssignmentAuto(n, f, d)
      PROVE  TypeInv'
  <2>1. MayStart(n, d) /\ Commit(Started(n, AutoPosition(n), f, d), WithAuto(n, d)) /\ Checked
    BY <1>2 DEF CreateAssignmentAuto
  <2>2. AutoPosition(n) \in AllPositions /\ WithAuto(n, d) \subseteq SliceRows
    BY <1>0, AutoRows
  <2>3. /\ Started(n, AutoPosition(n), f, d) \subseteq Jobs
        /\ IsFiniteSet(Started(n, AutoPosition(n), f, d))
    BY <1>0, <2>1, <2>2, StartedJobs
  <2> QED BY <1>0, <2>1, <2>2, <2>3, CommitTypes DEF Checked
<1>3. ASSUME NEW p \in AllPositions, NEW f \in Shares, UpdateAssignment(n, p, f, d)
      PROVE  TypeInv'
  BY <1>0, <1>3, TransferTypes DEF UpdateAssignment
<1>4. ASSUME NEW f \in Shares, UpdateAssignmentAuto(n, f, d)
      PROVE  TypeInv'
  <2>1. AutoPosition(n) \in AllPositions /\ WithAuto(n, d) \subseteq SliceRows
    BY <1>0, AutoRows
  <2> QED BY <1>4, <2>1, TransferTypes DEF UpdateAssignmentAuto
<1>5. ASSUME NEW p \in AllPositions, NEW m \in People, CorrectAssignment(n, d, p, m)
      PROVE  TypeInv'
  <2>1. PICK a \in JobsOf(assignments, n) :
          /\ Commit((assignments \ {a}) \cup {CorrectedTo(a, m, p)}, slices)
          /\ Patch({p} \ {a.position})
    BY <1>5 DEF CorrectAssignment, CorrectedTo
  <2>2. CorrectedTo(a, m, p) \in Jobs
    BY <1>0, JobCorrectedTo DEF JobsOf
  <2>3. IsFiniteSet((assignments \ {a}) \cup {CorrectedTo(a, m, p)})
    BY <1>0, FS_RemoveElement, FS_AddElement
  <2>4. (assignments \ {a}) \cup {CorrectedTo(a, m, p)} \subseteq Jobs
    BY <1>0, <2>2
  <2>5. patched' \subseteq AllPositions
    BY <1>0, <2>1 DEF Patch
  <2> QED BY <1>0, <2>1, <2>3, <2>4, <2>5, CommitTypes
<1>6. CASE RescindAssignment(n, d)
  <2>1. PICK a \in JobsOf(assignments, n) : Commit(Left(a, d), slices)
    BY <1>6 DEF RescindAssignment
  <2>2. Left(a, d) = Cut(assignments, a, d) \cup (IF a.status = "active" THEN {InactiveFrom(a, d)} ELSE {})
    BY DEF Left, InactiveFrom
  <2>3. a \in assignments /\ a \in Jobs
    BY <1>0 DEF JobsOf
  <2>4. Cut(assignments, a, d) \subseteq Jobs /\ IsFiniteSet(Cut(assignments, a, d))
    BY <1>0, <2>3, CutJobs
  <2>5. InactiveFrom(a, d) \in Jobs
    BY <2>3, JobInactiveFrom
  <2>6. IsFiniteSet(Cut(assignments, a, d) \cup {InactiveFrom(a, d)})
    BY <2>4, FS_AddElement
  <2>7. Left(a, d) \subseteq Jobs /\ IsFiniteSet(Left(a, d))
    BY <2>2, <2>4, <2>5, <2>6
  <2>8. Checked
    BY <1>6 DEF RescindAssignment
  <2> QED BY <1>0, <2>1, <2>7, <2>8, CommitTypes DEF Checked
<1>7. CASE DeleteAssignmentAndStitch(n, d)
  <2>1. PICK a \in JobsOf(assignments, n) :
          /\ Commit(Stitched(a, Previous(a)), slices)
          /\ Patch({b.position : b \in Previous(a)})
    BY <1>7 DEF DeleteAssignmentAndStitch
  <2>2. a \in assignments
    BY DEF JobsOf
  <2>3. Stitched(a, Previous(a)) \subseteq Jobs /\ IsFiniteSet(Stitched(a, Previous(a)))
    BY <1>0, <2>2, StitchedJobs
  <2>4. {b.position : b \in Previous(a)} \subseteq AllPositions
    BY <1>0 DEF Previous, JobsOf, Jobs
  <2>5. patched' \subseteq AllPositions
    BY <1>0, <2>1, <2>4 DEF Patch
  <2> QED BY <1>0, <2>1, <2>3, <2>5, CommitTypes
<1> QED BY <1>1, <1>2, <1>3, <1>4, <1>5, <1>6, <1>7 DEF AssignmentStep

\* Every operation on positions keeps the types.
LEMMA PositionTypes ==
    ASSUME TypeInv, NEW p \in AllPositions, NEW d \in Days, PositionStep(p, d)
    PROVE  TypeInv'
<1>0. /\ assignments \subseteq Jobs /\ slices \subseteq SliceRows /\ patched \subseteq AllPositions
      /\ IsFiniteSet(assignments)
  BY TypeIs DEF TypeInv
<1>1. ASSUME NEW c \in Capacities, NEW m \in Bosses, CreatePosition(p, c, m, d)
      PROVE  TypeInv'
  <2> DEFINE new == [position |-> p, capacity |-> c, boss |-> m, live |-> TRUE, from |-> d, to |-> EndOfTime]
  <2>1. Commit(assignments, slices \cup {new}) /\ Checked
    BY <1>1 DEF CreatePosition
  <2>2. new \in SliceRows
    BY StaffingAssumption DEF SliceRows, Bosses, Days
  <2>3. slices \cup {new} \subseteq SliceRows
    BY <1>0, <2>2
  <2> HIDE DEF new
  <2> QED BY <1>0, <2>1, <2>3, CommitTypes DEF Checked
<1>2. ASSUME NEW c \in Capacities, NEW m \in Bosses, UpdatePosition(p, c, m, d)
      PROVE  TypeInv'
  <2>1. PICK s \in SlicesOf(slices, p) : Commit(assignments, Cut(slices, s, d) \cup {RedefinedFrom(s, c, m, d)})
    BY <1>2 DEF UpdatePosition, RedefinedFrom
  <2>2. s \in SliceRows
    BY <1>0 DEF SlicesOf
  <2>3. c \in Nat \ {0} /\ m \in AllPositions \cup {None}
    BY StaffingAssumption DEF Bosses
  <2>4. RedefinedFrom(s, c, m, d) \in SliceRows
    BY <2>2, <2>3, SliceRedefinedFrom
  <2>5. Cut(slices, s, d) \cup {RedefinedFrom(s, c, m, d)} \subseteq SliceRows
    BY <1>0, <2>2, <2>4, CutSlices
  <2>6. Checked
    BY <1>2 DEF UpdatePosition
  <2> QED BY <1>0, <2>1, <2>5, <2>6, CommitTypes DEF Checked
<1>3. ASSUME NEW c \in Capacities, NEW m \in Bosses, CorrectPosition(p, d, c, m)
      PROVE  TypeInv'
  <2>1. PICK s \in SlicesOf(slices, p) : Commit(assignments, (slices \ {s}) \cup {Redefined(s, c, m)})
    BY <1>3 DEF CorrectPosition, Redefined
  <2>2. s \in SliceRows
    BY <1>0 DEF SlicesOf
  <2>3. c \in Nat \ {0} /\ m \in AllPositions \cup {None}
    BY StaffingAssumption DEF Bosses
  <2>4. Redefined(s, c, m) \in SliceRows
    BY <2>2, <2>3, SliceRedefined
  <2>5. (slices \ {s}) \cup {Redefined(s, c, m)} \subseteq SliceRows
    BY <1>0, <2>4
  <2>6. Checked
    BY <1>3 DEF CorrectPosition
  <2> QED BY <1>0, <2>1, <2>5, <2>6, CommitTypes DEF Checked
<1>4. CASE RescindPosition(p, d)
  <2> DEFINE kept == slices \ {x \in SlicesOf(slices, p) : x.from > d}
  <2>1. PICK s \in SlicesOf(slices, p) : Commit(assignments, Cut(kept, s, d) \cup {ClosedFrom(s, d)})
    BY <1>4 DEF RescindPosition, ClosedFrom
  <2>2. s \in SliceRows /\ kept \subseteq SliceRows
    BY <1>0 DEF SlicesOf
  <2> HIDE DEF kept
  <2>3. Cut(kept, s, d) \subseteq SliceRows /\ ClosedFrom(s, d) \in SliceRows
    BY <2>2, CutSlices, SliceClosedFrom
  <2>4. Cut(kept, s, d) \cup {ClosedFrom(s, d)} \subseteq SliceRows
    BY <2>3
  <2>5. Checked
    BY <1>4 DEF RescindPosition
  <2> QED BY <1>0, <2>1, <2>4, <2>5, CommitTypes DEF Checked
<1>5. ASSUME NEW start \in Days, ShiftBoundaryPosition(p, start, d)
      PROVE  TypeInv'
  <2>1. PICK target \in SlicesOf(slices, p), prev \in SlicesOf(slices, p) :
          /\ d > prev.from
          /\ Commit(assignments, (slices \ {target, prev}) \cup {StartsOn(target, d), EndsOn(prev, d - 1)})
    BY <1>5 DEF ShiftBoundaryPosition, StartsOn, EndsOn
  <2>2. target \in SliceRows /\ prev \in SliceRows /\ prev.from \in Days
    BY <1>0 DEF SlicesOf, SliceRows
  <2>3. StartsOn(target, d) \in SliceRows /\ EndsOn(prev, d - 1) \in SliceRows
    <3>1. d - 1 \in Days
      BY <2>1, <2>2, DayBefore
    <3> QED BY <2>2, <3>1, SliceStartsOn, SliceEndsOn
  <2>4. (slices \ {target, prev}) \cup {StartsOn(target, d), EndsOn(prev, d - 1)} \subseteq SliceRows
    BY <1>0, <2>3
  <2>5. patched' \subseteq AllPositions
    BY <1>0, <1>5 DEF ShiftBoundaryPosition, Patch
  <2> QED BY <1>0, <2>1, <2>4, <2>5, CommitTypes
<1>6. CASE DeletePositionSliceAndStitch(p, d)
  <2>1. PICK target \in SlicesOf(slices, p) :
          LET prev == {s \in SlicesOf(slices, p) : s.to = d - 1}
          IN  Commit(assignments, (slices \ (prev \cup {target})) \cup {EndsOn(s, target.to) : s \in prev})
    BY <1>6 DEF DeletePositionSliceAndStitch, EndsOn
  <2> DEFINE prev == {s \in SlicesOf(slices, p) : s.to = d - 1}
  <2>2. target.to \in Days
    BY <1>0 DEF SlicesOf, SliceRows
  <2>3. \A s \in prev : EndsOn(s, target.to) \in SliceRows
    <3> SUFFICES ASSUME NEW s \in prev PROVE EndsOn(s, target.to) \in SliceRows
      OBVIOUS
    <3>1. s \in SliceRows
      BY <1>0 DEF SlicesOf
    <3> QED BY <2>2, <3>1, SliceEndsOn
  <2>4. (slices \ (prev \cup {target})) \cup {EndsOn(s, target.to) : s \in prev} \subseteq SliceRows
    BY <1>0, <2>3
  <2>5. patched' \subseteq AllPositions
    BY <1>0, <1>6 DEF DeletePositionSliceAndStitch, Patch
  <2> QED BY <1>0, <2>1, <2>4, <2>5, CommitTypes
<1> QED BY <1>1, <1>2, <1>3, <1>4, <1>5, <1>6 DEF PositionStep

LEMMA TypeStart == Init => TypeInv
<1>1. IsFiniteSet({})
  BY FS_EmptySet
<1> QED BY <1>1 DEF Init, TypeInv, TypeOK, Valid, Whole, JobsOf, SlicesOf

LEMMA TypeStep == TypeInv /\ [Next]_vars => TypeInv'
<1> SUFFICES ASSUME TypeInv, [Next]_vars PROVE TypeInv'
  OBVIOUS
<1>1. ASSUME NEW n \in People, NEW d \in Days, AssignmentStep(n, d) PROVE TypeInv'
  BY <1>1, AssignmentTypes
<1>2. ASSUME NEW p \in AllPositions, NEW d \in Days, PositionStep(p, d) PROVE TypeInv'
  BY <1>2, PositionTypes
<1>3. CASE UNCHANGED vars
  BY <1>3 DEF vars, TypeInv, TypeOK, Valid
<1> QED BY <1>1, <1>2, <1>3 DEF Next

\* The rows are of the right kind and no transaction that commits leaves an overlap or a
\* gap, whatever the days, the order and the operations.
THEOREM StaffingTypeCorrect == Spec => []TypeOK
<1>1. Spec => []TypeInv
  BY TypeStart, TypeStep, PTL DEF Spec
<1>2. TypeInv => TypeOK
  BY DEF TypeInv
<1> QED BY <1>1, <1>2, PTL

-----------------------------------------------------------------------------
(* Whole rows: who covers a day *)

\* Tables as they are in every state.
Typed(as, ss) == as \subseteq Jobs /\ ss \subseteq SliceRows /\ IsFiniteSet(as)

\* Rows that start on d or before.
StartedBy(rows, d) == \A r \in rows : r.from <= d

LEMMA OneCovers ==
    ASSUME NEW ss, ss \subseteq SliceRows, NEW p, Whole(SlicesOf(ss, p)), NEW d \in Days,
           NEW s \in SlicesOf(ss, p), Covers(s, d)
    PROVE  Open(ss, p, d) /\ SliceAt(ss, p, d) = s
<1>1. Open(ss, p, d)
  BY DEF Open
<1>2. SliceAt(ss, p, d) \in SlicesOf(ss, p) /\ Covers(SliceAt(ss, p, d), d)
  BY <1>1 DEF Open, SliceAt
<1> DEFINE t == SliceAt(ss, p, d)
<1>3. t \in SliceRows /\ s \in SliceRows
  BY <1>2 DEF SlicesOf
<1>4. t \in SlicesOf(ss, p) /\ Covers(t, d)
  BY <1>2
<1> HIDE DEF t
<1>5. t.from \in Nat /\ t.to \in Nat /\ s.from \in Nat /\ s.to \in Nat /\ d \in Nat
  BY <1>3, DaysAreInts DEF SliceRows
<1>6. t = s
  <2>1. ~(t.to < s.from) /\ ~(s.to < t.from)
    BY <1>4, <1>5 DEF Covers
  <2> QED BY <1>4, <2>1 DEF Whole
<1> QED BY <1>1, <1>6 DEF t

\* A position that exists on a day exists on every later one.
LEMMA OpenLater ==
    ASSUME NEW ss, ss \subseteq SliceRows, NEW p, Whole(SlicesOf(ss, p)),
           NEW d \in Days, NEW e \in Days, d <= e, Open(ss, p, d)
    PROVE  Open(ss, p, e)
<1>1. PICK s \in SlicesOf(ss, p) : Covers(s, d)
  BY DEF Open
<1>2. s \in SliceRows
  BY DEF SlicesOf
<1>3. s.from \in Nat /\ d \in Nat /\ e \in Nat
  BY <1>2, DaysAreInts DEF SliceRows
<1>4. s.from <= e
  BY <1>1, <1>3 DEF Covers
<1> QED BY <1>4 DEF Whole, Open

\* In date order, nobody comes to a position after the last day something started.
LEMMA OccupiedLater ==
    ASSUME NEW as, as \subseteq Jobs, IsFiniteSet(as), NEW p, NEW d \in Days, NEW e \in Days, d <= e,
           StartedBy(as, d)
    PROVE  Active(as, p, e) \subseteq Active(as, p, d) /\ Occupied(as, p, e) <= Occupied(as, p, d)
<1>1. Active(as, p, e) \subseteq Active(as, p, d)
  <2> SUFFICES ASSUME NEW a \in Active(as, p, e) PROVE a \in Active(as, p, d)
    OBVIOUS
  <2>1. a \in as /\ a \in Jobs
    BY DEF Active
  <2>2. a.from \in Nat /\ a.to \in Nat /\ d \in Nat /\ e \in Nat
    BY <2>1, DaysAreInts DEF Jobs
  <2>3. a.from <= d
    BY <2>1 DEF StartedBy
  <2>4. a.from <= e /\ e <= a.to /\ a.position = p /\ a.status = "active"
    BY DEF Active, Covers
  <2>5. d <= a.to
    BY <2>2, <2>4
  <2> QED BY <2>1, <2>3, <2>4, <2>5 DEF Active, Covers
<1>2. Table(as)
  BY DEF Table, Jobs
<1> QED BY <1>1, <1>2, OccupiedSubset

-----------------------------------------------------------------------------
(* What holds in date order *)

AssigneesHavePosition(as, ss, pat) ==
    \A a \in as, d \in Days : Covers(a, d) /\ a.position \notin pat => Open(ss, a.position, d)

BossesExist(ss, pat) ==
    \A s \in ss, d \in Days : Covers(s, d) /\ s.boss \notin pat \cup {None} => Open(ss, s.boss, d)

Roomy(as, ss, pat) ==
    \A s \in ss, d \in Days :
        Covers(s, d) /\ s.position \notin pat => Occupied(as, s.position, d) <= s.capacity

Sound(as, ss, pat) == AssigneesHavePosition(as, ss, pat) /\ BossesExist(ss, pat) /\ Roomy(as, ss, pat)

LEMMA SoundIs == Sound(assignments, slices, patched) <=> PositionsExist /\ WithinCapacity
BY DEF Sound, AssigneesHavePosition, BossesExist, Roomy, PositionsExist, WithinCapacity

\* Slices to which a hire or a transfer may add those of one position that had none.
Extends(ss, p, d) ==
    /\ slices \subseteq ss
    /\ \A s \in ss \ slices : s.position = p /\ s.from = d /\ s.boss = None
    /\ ss # slices => SlicesOf(slices, p) = {}

LEMMA AutoExtends ==
    ASSUME slices \subseteq SliceRows, Valid(assignments, slices),
           NEW n \in People, NEW d \in Days, NEW as, Valid(as, WithAuto(n, d))
    PROVE  Extends(WithAuto(n, d), AutoPosition(n), d)
<1> DEFINE p   == AutoPosition(n)
           new == AutoSlice(n, d)
<1>1. CASE WithAuto(n, d) = slices
  BY <1>1 DEF Extends
<1>2. CASE WithAuto(n, d) # slices
  <2>1. WithAuto(n, d) = slices \cup {new} /\ new \notin slices
    BY <1>2 DEF WithAuto
  <2>2. new.position = p /\ new.from = d /\ new.boss = None /\ new.to = EndOfTime
    BY DEF AutoSlice
  <2>3. SlicesOf(slices, p) = {}
    <3> SUFFICES ASSUME NEW s \in SlicesOf(slices, p) PROVE FALSE
      OBVIOUS
    <3>1. Whole(SlicesOf(slices \cup {new}, p))
      BY <2>1, AutoRows DEF Valid
    <3>2. s \in SlicesOf(slices \cup {new}, p) /\ new \in SlicesOf(slices \cup {new}, p) /\ s # new
      BY <2>1, <2>2 DEF SlicesOf
    <3>3. s \in SliceRows
      BY DEF SlicesOf
    <3>4. PICK t \in SlicesOf(slices, p) : Covers(t, EndOfTime)
      <4>1. s.from <= EndOfTime /\ EndOfTime \in Days
        BY StaffingAssumption DEF SlicesOf, SliceRows, Days
      <4> QED BY <4>1, AutoRows DEF Valid, Whole
    <3>5. t \in SlicesOf(slices \cup {new}, p) /\ t # new
      BY <2>1 DEF SlicesOf
    <3>6. t.to < new.from \/ new.to < t.from
      BY <3>1, <3>2, <3>5 DEF Whole
    <3>7. t.from \in Nat /\ t.to \in Nat /\ t.from <= EndOfTime /\ d <= EndOfTime /\ d \in Nat
      BY StaffingAssumption DEF SlicesOf, SliceRows, Days
    <3>8. EndOfTime <= t.to
      BY <3>4 DEF Covers
    <3> QED BY <2>2, <3>6, <3>7, <3>8, StaffingAssumption
  <2> QED BY <2>1, <2>2, <2>3 DEF Extends
<1> QED BY <1>1, <1>2

LEMMA OpenGrows ==
    ASSUME NEW ss, NEW tt, ss \subseteq tt, NEW p, NEW d, Open(ss, p, d)
    PROVE  Open(tt, p, d)
BY DEF Open, SlicesOf

LEMMA Nobody ==
    ASSUME NEW as, NEW p, NEW d, Active(as, p, d) = {}
    PROVE  Occupied(as, p, d) = 0
<1>1. Units({}) = {}
  BY DEF Units
<1> QED BY <1>1, OccupiedIs, FS_EmptySet

\* Nobody is in a position that is not there.
LEMMA NobodyNowhere ==
    ASSUME NEW as, NEW ss, NEW pat, AssigneesHavePosition(as, ss, pat),
           NEW p, p \notin pat, SlicesOf(ss, p) = {}, NEW d \in Days
    PROVE  Occupied(as, p, d) = 0
<1>1. Active(as, p, d) = {}
  BY DEF AssigneesHavePosition, Open, Active
<1> QED BY <1>1, Nobody

\* What holds between the transactions, with the promise of the caller of the next one.
OrderInv == TypeInv /\ Sound(assignments, slices, patched)

LEMMA BossesExtended ==
    ASSUME BossesExist(slices, patched), NEW ss, NEW p, NEW d, Extends(ss, p, d)
    PROVE  BossesExist(ss, patched)
BY DEF BossesExist, Extends, Open, SlicesOf

\* One day is looked at and every day is right.
LEMMA RoomAfter ==
    ASSUME OrderInv, NEW as, NEW ss, as \subseteq Jobs, IsFiniteSet(as), ss \subseteq SliceRows,
           Valid(as, ss), NEW p \in AllPositions, NEW d \in Days, Extends(ss, p, d), StartedBy(slices, d),
           \A q \in AllPositions, e \in Days :
               \/ Occupied(as, q, e) <= Occupied(assignments, q, e)
               \/ q = p /\ d <= e /\ Occupied(as, q, e) <= SliceAt(ss, p, d).capacity
    PROVE  Roomy(as, ss, patched)
<1> SUFFICES ASSUME NEW s \in ss, NEW e \in Days, Covers(s, e), s.position \notin patched
             PROVE  Occupied(as, s.position, e) <= s.capacity
  BY DEF Roomy
<1> DEFINE q   == s.position
           now == Occupied(as, q, e)
           was == Occupied(assignments, q, e)
<1>1. s \in SliceRows /\ q \in AllPositions /\ s.capacity \in Nat
  BY DEF SliceRows
<1>2. s.from \in Nat /\ s.to \in Nat /\ d \in Nat /\ e \in Nat
  BY <1>1, DaysAreInts DEF SliceRows
<1>3. assignments \subseteq Jobs /\ IsFiniteSet(assignments) /\ slices \subseteq SliceRows
  BY TypeIs DEF OrderInv, TypeInv
<1>4. now \in Nat /\ was \in Nat
  BY <1>3, ActiveTable DEF Table, Jobs
<1>5. \/ now <= was
      \/ q = p /\ d <= e /\ now <= SliceAt(ss, p, d).capacity
  BY <1>1
<1>6. ASSUME q = p, d <= e, s.from <= d PROVE SliceAt(ss, p, d) = s
  <2>1. Covers(s, d)
    BY <1>2, <1>6 DEF Covers
  <2>2. s \in SlicesOf(ss, p) /\ Whole(SlicesOf(ss, p))
    BY <1>6 DEF SlicesOf, Valid
  <2> QED BY <2>1, <2>2, OneCovers
<1>7. CASE s \in slices
  <2>1. was <= s.capacity
    BY <1>7 DEF OrderInv, Sound, Roomy
  <2>2. s.from <= d
    BY <1>7 DEF StartedBy
  <2> HIDE DEF now, was, q
  <2>3. now <= s.capacity
    BY <1>1, <1>4, <1>5, <1>6, <2>1, <2>2
  <2> QED BY <2>3 DEF now, q
<1>8. CASE s \notin slices
  <2>1. q = p /\ s.from = d /\ SlicesOf(slices, p) = {}
    BY <1>8 DEF Extends
  <2>2. d <= e
    BY <2>1 DEF Covers
  <2>3. was = 0
    BY <2>1, NobodyNowhere DEF OrderInv, Sound
  <2>4. SliceAt(ss, p, d) = s
    BY <1>2, <1>6, <2>1, <2>2
  <2> HIDE DEF now, was, q
  <2>5. now <= s.capacity
    BY <1>1, <1>4, <1>5, <2>3, <2>4
  <2> QED BY <2>5 DEF now, q
<1> QED BY <1>7, <1>8

\* A new row in a position that exists on its first day.
LEMMA PositionLasts ==
    ASSUME NEW as, NEW ss, ss \subseteq SliceRows, Valid(as, ss), NEW p \in AllPositions,
           NEW d \in Days, Open(ss, p, d), NEW e \in Days, NEW r, Covers(r, e), r.from = d
    PROVE  Open(ss, p, e)
<1>1. d <= e
  BY DEF Covers
<1>2. Whole(SlicesOf(ss, p))
  BY DEF Valid
<1> QED BY <1>1, <1>2, OpenLater

LEMMA StartKeeps ==
    ASSUME OrderInv, NEW n \in People, NEW p \in AllPositions, NEW f \in Shares, NEW d \in Days,
           NEW ss, ss \subseteq SliceRows, Extends(ss, p, d),
           StartedBy(assignments, d), StartedBy(slices, d),
           MayStart(n, d), Fits(assignments, ss, p, f, d), Valid(Started(n, p, f, d), ss)
    PROVE  Sound(Started(n, p, f, d), ss, patched)
<1> DEFINE C    == {a \in JobsOf(assignments, n) : Covers(a, d)}
           E    == {EndsOn(a, d - 1) : a \in C}
           rest == (assignments \ C) \cup E
           new  == Job(n, p, f, "active", d, EndOfTime)
<1>0. assignments \subseteq Jobs /\ IsFiniteSet(assignments) /\ slices \subseteq SliceRows /\ f \in Nat
  BY TypeIs, StaffingAssumption DEF OrderInv, TypeInv
<1>1. Started(n, p, f, d) = rest \cup {new}
  BY DEF Started, EndsOn
<1>2. Started(n, p, f, d) \subseteq Jobs /\ IsFiniteSet(Started(n, p, f, d))
  BY <1>0, StartedJobs
<1>3. new.position = p /\ new.status = "active" /\ new.fte = f /\ new.from = d
  BY DEF Job
<1>4. rest \subseteq Jobs /\ IsFiniteSet(rest)
  BY <1>1, <1>2, FS_Subset
<1>5. \A x \in E : \E a \in assignments :
          /\ x.position = a.position /\ x.status = "inactive"
          /\ \A e \in Days : Covers(x, e) => Covers(a, e)
  <2> SUFFICES ASSUME NEW a \in C
               PROVE  /\ EndsOn(a, d - 1).position = a.position /\ EndsOn(a, d - 1).status = "inactive"
                      /\ \A e \in Days : Covers(EndsOn(a, d - 1), e) => Covers(a, e)
    BY DEF JobsOf
  <2>1. a \in assignments /\ a \in Jobs /\ a.status = "inactive" /\ a.from < d /\ Covers(a, d)
    BY <1>0 DEF JobsOf, MayStart
  <2>2. a.from \in Days /\ a.from \in Nat /\ a.to \in Nat /\ d \in Nat
    BY <2>1, DaysAreInts DEF Jobs
  <2>3. d - 1 \in Days
    BY <2>1, <2>2, DayBefore
  <2>4. /\ EndsOn(a, d - 1).position = a.position /\ EndsOn(a, d - 1).status = a.status
        /\ EndsOn(a, d - 1).from = a.from /\ EndsOn(a, d - 1).to = d - 1
    BY <2>1, <2>3, JobEndsOn
  <2>5. \A e \in Days : Covers(EndsOn(a, d - 1), e) => Covers(a, e)
    BY <2>1, <2>2, <2>4, DaysAreInts DEF Covers
  <2> QED BY <2>1, <2>4, <2>5
<1>6. AssigneesHavePosition(Started(n, p, f, d), ss, patched)
  <2> SUFFICES ASSUME NEW x \in rest \cup {new}, NEW e \in Days, Covers(x, e), x.position \notin patched
               PROVE  Open(ss, x.position, e)
    BY <1>1 DEF AssigneesHavePosition
  <2>1. CASE x = new
    BY <1>3, <2>1, PositionLasts DEF Fits
  <2>2. CASE x \in rest
    <3>1. PICK a \in assignments : x.position = a.position /\ Covers(a, e)
      BY <1>5, <2>2
    <3>2. Open(slices, x.position, e)
      BY <3>1 DEF OrderInv, Sound, AssigneesHavePosition
    <3> QED BY <3>2, OpenGrows DEF Extends
  <2> QED BY <2>1, <2>2
<1>7. BossesExist(ss, patched)
  BY BossesExtended DEF OrderInv, Sound
<1>8. ASSUME NEW q \in AllPositions, NEW e \in Days
      PROVE  \/ Occupied(Started(n, p, f, d), q, e) <= Occupied(assignments, q, e)
             \/ q = p /\ d <= e /\ Occupied(Started(n, p, f, d), q, e) <= SliceAt(ss, p, d).capacity
  <2>1. Active(rest, q, e) \subseteq Active(assignments, q, e)
    BY <1>5 DEF Active
  <2>2. Table(assignments) /\ Table(rest)
    BY <1>0, <1>4 DEF Table, Jobs
  <2> DEFINE now  == Occupied(Started(n, p, f, d), q, e)
             mid  == Occupied(rest, q, e)
             was  == Occupied(assignments, q, e)
             then == Occupied(assignments, p, d)
             w    == Weight(new, q, e)
             cap  == SliceAt(ss, p, d).capacity
  <2>3. mid <= was
    BY <2>1, <2>2, OccupiedSubset
  <2> HIDE DEF rest, new
  <2>4. now <= mid + w
    BY <1>1, <1>0, <1>3, <2>2, OccupiedAdd
  <2>5. mid \in Nat /\ was \in Nat /\ then \in Nat
    BY <2>2, ActiveTable
  <2>6. now \in Nat
    BY <1>2, ActiveTable DEF Table, Jobs
  <2>7. w = 0 \/ (q = p /\ d <= e /\ w = f)
    BY <1>3, <1>0, WeightIs DEF Counts, Covers
  <2>8. q = p /\ d <= e => was <= then
    BY <1>0, OccupiedLater
  <2>9. then + f <= cap
    BY DEF Fits
  <2>10. cap \in Nat
    <3>1. PICK s \in SlicesOf(ss, p) : Covers(s, d)
      BY DEF Fits, Open
    <3>2. SliceAt(ss, p, d) = s
      BY <3>1, OneCovers DEF Valid
    <3> QED BY <3>2 DEF SlicesOf, SliceRows
  <2> HIDE DEF now, mid, was, then, w, cap
  <2>11. now <= was \/ (q = p /\ d <= e /\ now <= cap)
    BY <1>0, <2>3, <2>4, <2>5, <2>6, <2>7, <2>8, <2>9, <2>10
  <2> QED BY <2>11 DEF now, was, cap
<1>9. Roomy(Started(n, p, f, d), ss, patched)
  BY <1>2, <1>8, RoomAfter
<1> QED BY <1>6, <1>7, <1>9 DEF Sound

\* The rows of a transfer: the old one is cut and the new one follows.
LEMMA TransferKeeps ==
    ASSUME OrderInv, NEW p \in AllPositions, NEW f \in Shares, NEW d \in Days,
           NEW ss, ss \subseteq SliceRows, Extends(ss, p, d),
           StartedBy(assignments, d), StartedBy(slices, d),
           NEW a \in assignments, Covers(a, d), a.from < d, Open(ss, p, d),
           OthersIn(a, p, d) + f <= SliceAt(ss, p, d).capacity,
           Valid(Transferred(a, p, f, d), ss)
    PROVE  Sound(Transferred(a, p, f, d), ss, patched)
<1> DEFINE old  == EndsOn(a, d - 1)
           new  == MovedTo(a, p, f, d)
           rest == (assignments \ {a}) \cup {old}
           as   == Transferred(a, p, f, d)
<1>0. /\ assignments \subseteq Jobs /\ IsFiniteSet(assignments) /\ slices \subseteq SliceRows
      /\ f \in Nat /\ f \in Nat \ {0} /\ a \in Jobs
  BY TypeIs, StaffingAssumption DEF OrderInv, TypeInv
<1>1. a.from \in Days /\ a.from \in Nat /\ a.to \in Nat /\ d \in Nat /\ a.fte \in Nat /\ d - 1 \in Days
  BY <1>0, DaysAreInts, DayBefore DEF Jobs
<1>2. as = rest \cup {new}
  BY CutIs DEF Transferred, MovedTo
<1>3. as \subseteq Jobs /\ IsFiniteSet(as)
  BY <1>0, TransferJobs
<1>4. /\ old.position = a.position /\ old.status = a.status /\ old.fte = a.fte
      /\ old.from = a.from /\ old.to = d - 1
  BY <1>0, <1>1, JobEndsOn
<1>5. /\ new.position = p /\ new.fte = f /\ new.status = a.status
      /\ new.from = d /\ new.to = a.to
  BY <1>0, JobMovedTo
<1>6. \A e \in Days : Covers(old, e) => Covers(a, e) /\ e < d
  BY <1>1, <1>4, DaysAreInts DEF Covers
<1>7. AssigneesHavePosition(as, ss, patched)
  <2> SUFFICES ASSUME NEW x \in as, NEW e \in Days, Covers(x, e), x.position \notin patched
               PROVE  Open(ss, x.position, e)
    BY DEF AssigneesHavePosition
  <2>1. CASE x = new
    <3> HIDE DEF new, as
    <3>1. Valid(as, ss)
      BY DEF as
    <3> QED BY <1>5, <2>1, <3>1, PositionLasts
  <2>2. CASE x \in rest
    <3>1. PICK b \in assignments : x.position = b.position /\ Covers(b, e)
      BY <1>4, <1>6, <2>2
    <3>2. Open(slices, x.position, e)
      BY <3>1 DEF OrderInv, Sound, AssigneesHavePosition
    <3> QED BY <3>2, OpenGrows DEF Extends
  <2> QED BY <1>2, <2>1, <2>2
<1>8. BossesExist(ss, patched)
  BY BossesExtended DEF OrderInv, Sound
<1>9. ASSUME NEW q \in AllPositions, NEW e \in Days
      PROVE  \/ Occupied(as, q, e) <= Occupied(assignments, q, e)
             \/ q = p /\ d <= e /\ Occupied(as, q, e) <= SliceAt(ss, p, d).capacity
  <2> DEFINE now  == Occupied(as, q, e)
             mid  == Occupied(rest, q, e)
             was  == Occupied(assignments, q, e)
             then == Occupied(assignments, p, d)
             wa   == Weight(a, q, e)
             wold == Weight(old, q, e)
             wnew == Weight(new, q, e)
             wd   == Weight(a, p, d)
             cap  == SliceAt(ss, p, d).capacity
  <2>1. Table(assignments) /\ old.fte \in Nat /\ new.fte \in Nat
    BY <1>0, <1>1, <1>4, <1>5 DEF Table, Jobs
  <2>2. Table(rest) /\ mid + wa <= was + wold
    <3> HIDE DEF old
    <3> QED BY <2>1, OccupiedReplace
  <2>3. now <= mid + wnew
    <3> HIDE DEF rest, new, as
    <3> QED BY <1>2, <2>1, <2>2, OccupiedAdd
  <2>4. was \in Nat /\ then \in Nat /\ mid \in Nat
    BY <2>1, <2>2, ActiveTable
  <2>5. now \in Nat
    <3> HIDE DEF as
    <3> QED BY <1>3, ActiveTable DEF Table, Jobs
  <2>6. wa \in Nat /\ wold \in Nat /\ wnew \in Nat /\ wd \in Nat
    <3> HIDE DEF old, new
    <3> QED BY <1>1, <2>1, WeightIs
  <2>7. Counts(old, q, e) => Counts(a, q, e) /\ e < d
    <3> HIDE DEF old
    <3> QED BY <1>4, <1>6 DEF Counts
  <2>8. wold = 0 \/ (wold = wa /\ e < d)
    <3> HIDE DEF old
    <3> QED BY <1>1, <1>4, <2>7, WeightIs
  <2>9. Counts(new, q, e) => q = p /\ d <= e /\ e <= a.to /\ a.status = "active"
    <3> HIDE DEF new
    <3> QED BY <1>5 DEF Counts, Covers
  <2>10. wnew = 0 \/ (wnew = f /\ q = p /\ d <= e /\ e <= a.to /\ a.status = "active")
    <3> HIDE DEF new
    <3> QED BY <1>0, <1>5, <2>9, WeightIs
  <2>11. d <= e /\ q = p => was <= then
    BY <1>0, OccupiedLater
  <2>12. a.status = "active" /\ a.position = p => wd = a.fte /\ (d <= e /\ e <= a.to /\ q = p => wa = a.fte)
    <3>1. a.status = "active" /\ a.position = p => Counts(a, p, d)
      BY DEF Counts
    <3>2. a.status = "active" /\ a.position = p /\ d <= e /\ e <= a.to /\ q = p => Counts(a, q, e)
      BY <1>1, DaysAreInts DEF Counts, Covers
    <3> QED BY <1>1, <3>1, <3>2, WeightIs
  <2>13. then >= wd
    <3>1. Occupied(assignments \ {a}, p, d) + wd = then
      BY <2>1, OccupiedRemove
    <3>2. Table(assignments \ {a})
      BY <2>1, FS_RemoveElement DEF Table
    <3>3. Occupied(assignments \ {a}, p, d) \in Nat
      BY <3>2, ActiveTable
    <3> QED BY <2>4, <2>6, <3>1, <3>3
  <2>14. OthersIn(a, p, d) = IF a.position # p THEN then ELSE IF then < a.fte THEN 0 ELSE then - a.fte
    BY DEF OthersIn
  <2>15. cap \in Nat
    <3>1. PICK s \in SlicesOf(ss, p) : Covers(s, d)
      BY DEF Open
    <3>2. SliceAt(ss, p, d) = s
      BY <3>1, OneCovers DEF Valid
    <3> QED BY <3>2 DEF SlicesOf, SliceRows
  <2>16. OthersIn(a, p, d) + f <= cap
    OBVIOUS
  <2>17. e < d => ~(d <= e)
    BY <1>1, DaysAreInts
  <2> HIDE DEF now, mid, was, then, wa, wold, wnew, wd, cap
  <2>18. now <= was \/ (q = p /\ d <= e /\ now <= cap)
    <3>1. CASE wnew = 0
      <4>1. wold <= wa
        BY <2>6, <2>8
      <4> QED BY <2>2, <2>3, <2>4, <2>5, <2>6, <3>1, <4>1
    <3>2. CASE wnew # 0
      <4>1. wnew = f /\ q = p /\ d <= e /\ e <= a.to /\ a.status = "active"
        BY <2>10, <3>2
      <4>2. wold = 0
        BY <2>8, <2>17, <4>1
      <4>3. now + wa <= was + f
        BY <1>0, <2>2, <2>3, <2>4, <2>5, <2>6, <4>1, <4>2
      <4>4. CASE a.position # p
        BY <1>0, <2>4, <2>5, <2>6, <2>11, <2>14, <2>15, <2>16, <4>1, <4>3, <4>4
      <4>5. CASE a.position = p
        <5>1. wd = a.fte /\ wa = a.fte
          BY <2>12, <4>1, <4>5
        <5>2. then - a.fte + f <= cap
          BY <1>1, <2>4, <2>13, <2>14, <2>16, <4>5, <5>1
        <5> QED BY <1>0, <1>1, <2>4, <2>5, <2>11, <2>15, <4>1, <4>3, <5>1, <5>2
      <4> QED BY <4>4, <4>5
    <3> QED BY <3>1, <3>2
  <2> QED BY <2>18 DEF now, was, cap
<1>10. Roomy(as, ss, patched)
  <2> HIDE DEF as
  <2>1. Valid(as, ss)
    BY DEF as
  <2> QED BY <1>0, <1>3, <1>9, <2>1, RoomAfter
<1> QED BY <1>7, <1>8, <1>10 DEF Sound

\* Operations that fill nothing.
LEMMA EmptierKeeps ==
    ASSUME OrderInv, NEW as, as \subseteq Jobs, IsFiniteSet(as), NEW pat, patched \subseteq pat,
           \A x \in as : \/ x.position \in pat
                         \/ \E a \in assignments :
                                x.position = a.position /\ \A e \in Days : Covers(x, e) => Covers(a, e),
           \A q \in AllPositions \ pat, e \in Days : Occupied(as, q, e) <= Occupied(assignments, q, e)
    PROVE  Sound(as, slices, pat)
<1>1. AssigneesHavePosition(as, slices, pat)
  BY DEF AssigneesHavePosition, OrderInv, Sound
<1>2. BossesExist(slices, pat)
  BY DEF BossesExist, OrderInv, Sound
<1>3. Roomy(as, slices, pat)
  <2> SUFFICES ASSUME NEW s \in slices, NEW e \in Days, Covers(s, e), s.position \notin pat
               PROVE  Occupied(as, s.position, e) <= s.capacity
    BY DEF Roomy
  <2> DEFINE now == Occupied(as, s.position, e)
             was == Occupied(assignments, s.position, e)
  <2>1. assignments \subseteq Jobs /\ IsFiniteSet(assignments) /\ slices \subseteq SliceRows
    BY TypeIs DEF OrderInv, TypeInv
  <2>2. now \in Nat /\ was \in Nat
    BY <2>1, ActiveTable DEF Table, Jobs
  <2>3. s.position \in AllPositions /\ s.capacity \in Nat
    BY <2>1 DEF SliceRows
  <2>4. now <= was
    BY <2>3
  <2>5. was <= s.capacity
    BY DEF OrderInv, Sound, Roomy
  <2> HIDE DEF now, was
  <2>6. now <= s.capacity
    BY <2>2, <2>3, <2>4, <2>5
  <2> QED BY <2>6 DEF now
<1> QED BY <1>1, <1>2, <1>3 DEF Sound

LEMMA CorrectKeeps ==
    ASSUME OrderInv, NEW a \in assignments, NEW m \in People, NEW p \in AllPositions
    PROVE  Sound((assignments \ {a}) \cup {CorrectedTo(a, m, p)}, slices, patched \cup ({p} \ {a.position}))
<1> DEFINE new == CorrectedTo(a, m, p)
           as  == (assignments \ {a}) \cup {new}
           pat == patched \cup ({p} \ {a.position})
<1>0. assignments \subseteq Jobs /\ IsFiniteSet(assignments) /\ a \in Jobs /\ a.fte \in Nat
  BY TypeIs DEF OrderInv, TypeInv, Jobs
<1>1. /\ new \in Jobs /\ new.position = p /\ new.fte = a.fte
      /\ new.status = a.status /\ new.from = a.from /\ new.to = a.to
  BY <1>0, JobCorrectedTo
<1>2. as \subseteq Jobs /\ IsFiniteSet(as)
  <2>1. as \subseteq Jobs
    BY <1>0, <1>1
  <2> QED BY <1>0, <2>1, FS_RemoveElement, FS_AddElement
<1>3. \A e \in Days : Covers(new, e) => Covers(a, e)
  BY <1>1 DEF Covers
<1>4. \A x \in as : \/ x.position \in pat
                    \/ \E b \in assignments :
                           x.position = b.position /\ \A e \in Days : Covers(x, e) => Covers(b, e)
  <2> SUFFICES ASSUME NEW x \in as, x.position \notin pat
               PROVE  \E b \in assignments :
                          x.position = b.position /\ \A e \in Days : Covers(x, e) => Covers(b, e)
    OBVIOUS
  <2>1. CASE x = new
    BY <1>1, <1>3, <2>1
  <2>2. CASE x \in assignments
    BY <2>2
  <2> QED BY <2>1, <2>2
<1>5. ASSUME NEW q \in AllPositions \ pat, NEW e \in Days
      PROVE  Occupied(as, q, e) <= Occupied(assignments, q, e)
  <2> DEFINE now  == Occupied(as, q, e)
             was  == Occupied(assignments, q, e)
             wa   == Weight(a, q, e)
             wnew == Weight(new, q, e)
  <2>1. q # p \/ p = a.position
    OBVIOUS
  <2>2. Counts(new, q, e) => Counts(a, q, e)
    <3> HIDE DEF new
    <3> QED BY <1>1, <1>3, <2>1 DEF Counts
  <2>3. Table(assignments) /\ new.fte \in Nat
    BY <1>0, <1>1 DEF Table, Jobs
  <2>4. Table(as) /\ now + wa <= was + wnew
    <3> HIDE DEF new
    <3> QED BY <2>3, OccupiedReplace
  <2>5. now \in Nat /\ was \in Nat
    <3> HIDE DEF as
    <3> QED BY <2>3, <2>4, ActiveTable
  <2>6. wa \in Nat /\ wnew \in Nat /\ (wnew = 0 \/ wnew = wa)
    <3> HIDE DEF new
    <3> QED BY <1>0, <1>1, <2>2, <2>3, WeightIs
  <2> HIDE DEF now, was, wa, wnew
  <2>7. now <= was
    BY <2>4, <2>5, <2>6
  <2> QED BY <2>7 DEF now, was
<1> HIDE DEF as, pat
<1>6. patched \subseteq pat
  BY DEF pat
<1>7. Sound(as, slices, pat)
  BY <1>2, <1>4, <1>5, <1>6, EmptierKeeps
<1> QED BY <1>7 DEF as, pat

\* Who leaves makes room on some days and takes none.
LEMMA LeftOccupies ==
    ASSUME assignments \subseteq Jobs, IsFiniteSet(assignments),
           NEW a \in assignments, NEW d \in Days, a.from < d, d <= a.to
    PROVE  /\ Left(a, d) \subseteq Jobs /\ IsFiniteSet(Left(a, d))
           /\ \A x \in Left(a, d) : \E b \in assignments :
                  x.position = b.position /\ \A e \in Days : Covers(x, e) => Covers(b, e)
           /\ \A q, e : e \in Days => Occupied(Left(a, d), q, e) <= Occupied(assignments, q, e)
<1> DEFINE old  == EndsOn(a, d - 1)
           new  == InactiveFrom(a, d)
           as   == Left(a, d)
<1>0. a \in Jobs
  OBVIOUS
<1>1. a.from \in Days /\ a.from \in Nat /\ a.to \in Nat /\ d \in Nat /\ d - 1 \in Days
  BY <1>0, DaysAreInts, DayBefore DEF Jobs
<1>2. as = ((assignments \ {a}) \cup {old}) \cup (IF a.status = "active" THEN {new} ELSE {})
  BY CutIs DEF Left, InactiveFrom
<1>3. /\ old \in Jobs /\ old.position = a.position /\ old.status = a.status
      /\ old.fte = a.fte /\ old.from = a.from /\ old.to = d - 1
  BY <1>0, <1>1, JobEndsOn
<1>4. /\ new \in Jobs /\ new.position = a.position /\ new.status = "inactive"
      /\ new.from = d /\ new.to = a.to
  BY <1>0, JobInactiveFrom
<1>5. \A e \in Days : (Covers(old, e) => Covers(a, e)) /\ (Covers(new, e) => Covers(a, e))
  <2> SUFFICES ASSUME NEW e \in Days
               PROVE  (Covers(old, e) => Covers(a, e)) /\ (Covers(new, e) => Covers(a, e))
    OBVIOUS
  <2>1. e \in Nat
    BY DaysAreInts
  <2>2. Covers(old, e) => Covers(a, e)
    <3> HIDE DEF old
    <3> QED BY <1>1, <1>3, <2>1 DEF Covers
  <2>3. Covers(new, e) => Covers(a, e)
    <3> HIDE DEF new
    <3> QED BY <1>1, <1>4, <2>1 DEF Covers
  <2> QED BY <2>2, <2>3
<1>6. as \subseteq Jobs
  BY <1>0, <1>2, <1>3, <1>4
<1>7. IsFiniteSet(as)
  <2>1. IsFiniteSet((assignments \ {a}) \cup {old})
    BY <1>0, FS_RemoveElement, FS_AddElement
  <2>2. IsFiniteSet(((assignments \ {a}) \cup {old}) \cup {new})
    BY <2>1, FS_AddElement
  <2> HIDE DEF old, new
  <2> QED BY <1>2, <2>1, <2>2
<1>8. \A x \in as : \E b \in assignments :
          x.position = b.position /\ \A e \in Days : Covers(x, e) => Covers(b, e)
  <2> SUFFICES ASSUME NEW x \in as
               PROVE  \E b \in assignments :
                          x.position = b.position /\ \A e \in Days : Covers(x, e) => Covers(b, e)
    OBVIOUS
  <2>1. x \in assignments \/ x = old \/ x = new
    BY <1>2
  <2> HIDE DEF old, new
  <2> QED BY <1>3, <1>4, <1>5, <2>1
<1>9. ASSUME NEW q, NEW e \in Days
      PROVE  Occupied(as, q, e) <= Occupied(assignments, q, e)
  <2> DEFINE mid  == (assignments \ {a}) \cup {old}
             now  == Occupied(as, q, e)
             then == Occupied(mid, q, e)
             was  == Occupied(assignments, q, e)
             wa   == Weight(a, q, e)
             wold == Weight(old, q, e)
  <2>1. Table(assignments) /\ old.fte \in Nat /\ a.fte \in Nat
    BY <1>0, <1>3 DEF Table, Jobs
  <2>2. Table(mid) /\ then + wa <= was + wold
    <3> HIDE DEF old
    <3> QED BY <2>1, OccupiedReplace
  <2>3. Active(as, q, e) \subseteq Active(mid, q, e)
    <3> HIDE DEF old, new
    <3> QED BY <1>2, <1>4 DEF Active
  <2>4. now <= then
    <3> HIDE DEF mid, as
    <3> QED BY <2>2, <2>3, OccupiedSubset
  <2>5. then \in Nat /\ was \in Nat
    <3> HIDE DEF mid
    <3> QED BY <2>1, <2>2, ActiveTable
  <2>6. now \in Nat
    <3> HIDE DEF as
    <3> QED BY <1>6, <1>7, ActiveTable DEF Table, Jobs
  <2>7. Counts(old, q, e) => Counts(a, q, e)
    <3> HIDE DEF old
    <3> QED BY <1>3, <1>5 DEF Counts
  <2>8. wa \in Nat /\ wold \in Nat /\ (wold = 0 \/ wold = wa)
    <3> HIDE DEF old
    <3> QED BY <1>3, <2>1, <2>7, WeightIs
  <2> HIDE DEF now, then, was, wa, wold
  <2>9. now <= was
    BY <2>2, <2>4, <2>5, <2>6, <2>8
  <2> QED BY <2>9 DEF now, was
<1> QED BY <1>6, <1>7, <1>8, <1>9

LEMMA LeftKeeps ==
    ASSUME OrderInv, NEW a \in assignments, NEW d \in Days, a.from < d, d <= a.to
    PROVE  Sound(Left(a, d), slices, patched)
<1>1. assignments \subseteq Jobs /\ IsFiniteSet(assignments)
  BY TypeIs DEF OrderInv, TypeInv
<1> DEFINE as == Left(a, d)
<1>2. /\ as \subseteq Jobs /\ IsFiniteSet(as)
      /\ \A x \in as : \E b \in assignments :
             x.position = b.position /\ \A e \in Days : Covers(x, e) => Covers(b, e)
      /\ \A q, e : e \in Days => Occupied(as, q, e) <= Occupied(assignments, q, e)
  BY <1>1, LeftOccupies
<1> HIDE DEF as
<1>3. Sound(as, slices, patched)
  BY <1>2, EmptierKeeps
<1> QED BY <1>3 DEF as

LEMMA StitchKeeps ==
    ASSUME OrderInv, NEW a \in assignments
    PROVE  Sound(Stitched(a, Previous(a)), slices, patched \cup {b.position : b \in Previous(a)})
<1> DEFINE C   == Previous(a)
           as  == Stitched(a, C)
           pat == patched \cup {b.position : b \in C}
<1>0. assignments \subseteq Jobs /\ IsFiniteSet(assignments) /\ a \in Jobs
  BY TypeIs DEF OrderInv, TypeInv
<1>1. as \subseteq Jobs /\ IsFiniteSet(as)
  BY <1>0, StitchedJobs
<1>2. \A x \in as : x.position \in pat \/ x \in assignments
  <2> SUFFICES ASSUME NEW x \in as PROVE x.position \in pat \/ x \in assignments
    OBVIOUS
  <2>1. x \in assignments \/ \E b \in C : x = EndsOn(b, a.to)
    BY DEF Stitched, EndsOn
  <2>2. ASSUME NEW b \in C, x = EndsOn(b, a.to) PROVE x.position \in pat
    <3>1. b \in Jobs /\ a.to \in Days
      BY <1>0 DEF Previous, JobsOf, Jobs
    <3>2. x.position = b.position
      BY <2>2, <3>1, JobEndsOn
    <3> QED BY <3>2
  <2> QED BY <2>1, <2>2
<1>3. ASSUME NEW q \in AllPositions \ pat, NEW e \in Days
      PROVE  Occupied(as, q, e) <= Occupied(assignments, q, e)
  <2>1. Active(as, q, e) \subseteq Active(assignments, q, e)
    BY <1>2 DEF Active
  <2>2. Table(assignments)
    BY <1>0 DEF Table, Jobs
  <2> QED BY <2>1, <2>2, OccupiedSubset
<1>4. patched \subseteq pat
  OBVIOUS
<1>5. \A x \in as : \/ x.position \in pat
                    \/ \E b \in assignments :
                           x.position = b.position /\ \A e \in Days : Covers(x, e) => Covers(b, e)
  BY <1>2
<1> HIDE DEF as, pat
<1>6. Sound(as, slices, pat)
  BY <1>1, <1>3, <1>4, <1>5, EmptierKeeps
<1> QED BY <1>6 DEF as, pat

-----------------------------------------------------------------------------
(* The same for the operations on positions *)

\* Positions go on existing, unless they are given up as patched.
StillOpen(ss, pat) == \A q \in AllPositions \ pat, e \in Days : Open(slices, q, e) => Open(ss, q, e)

\* Who may be reported to on a day is there on every later day.
LEMMA BossLasts ==
    ASSUME OrderInv, NEW ss, ss \subseteq SliceRows, Valid(assignments, ss), NEW pat, StillOpen(ss, pat),
           NEW p, NEW m \in Bosses, NEW d \in Days, MayReportTo(p, m, d), NEW e \in Days, d <= e,
           m \notin pat \cup {None}
    PROVE  Open(ss, m, e)
<1>1. m \in AllPositions
  BY DEF Bosses
<1>2. m \in Line(m, d)
  BY DEF Line
<1>3. Open(slices, m, d)
  BY <1>2 DEF MayReportTo
<1>4. Open(ss, m, d)
  BY <1>1, <1>3 DEF StillOpen
<1>5. Whole(SlicesOf(ss, m))
  BY <1>1 DEF Valid
<1> QED BY <1>4, <1>5, OpenLater

\* A boss of an old slice is there on the later days, too.
LEMMA OldBossLasts ==
    ASSUME OrderInv, NEW ss, ss \subseteq SliceRows, Valid(assignments, ss), NEW pat, patched \subseteq pat,
           StillOpen(ss, pat), NEW s \in slices, NEW d \in Days, Covers(s, d), NEW e \in Days, d <= e,
           s.boss \notin pat \cup {None}
    PROVE  Open(ss, s.boss, e)
<1>1. slices \subseteq SliceRows
  BY TypeIs DEF OrderInv, TypeInv
<1>2. s.boss \in AllPositions
  BY <1>1 DEF SliceRows
<1>3. Open(slices, s.boss, d)
  BY DEF OrderInv, Sound, BossesExist
<1>4. Open(ss, s.boss, d)
  BY <1>2, <1>3 DEF StillOpen
<1>5. Whole(SlicesOf(ss, s.boss))
  BY <1>2 DEF Valid
<1> QED BY <1>2, <1>4, <1>5, OpenLater

\* What is left to show of an operation: the slices it changes.
LEMMA SlicesKeep ==
    ASSUME OrderInv, NEW ss, ss \subseteq SliceRows, NEW pat, patched \subseteq pat, StillOpen(ss, pat),
           \A t \in ss \ slices, e \in Days :
               /\ Covers(t, e) /\ t.boss \notin pat \cup {None} => Open(ss, t.boss, e)
               /\ Covers(t, e) /\ t.position \notin pat => Occupied(assignments, t.position, e) <= t.capacity
    PROVE  Sound(assignments, ss, pat)
<1>1. assignments \subseteq Jobs /\ slices \subseteq SliceRows
  BY TypeIs DEF OrderInv, TypeInv
<1>2. AssigneesHavePosition(assignments, ss, pat)
  <2> SUFFICES ASSUME NEW a \in assignments, NEW e \in Days, Covers(a, e), a.position \notin pat
               PROVE  Open(ss, a.position, e)
    BY DEF AssigneesHavePosition
  <2>1. a.position \in AllPositions
    BY <1>1 DEF Jobs
  <2>2. Open(slices, a.position, e)
    BY DEF OrderInv, Sound, AssigneesHavePosition
  <2> QED BY <2>1, <2>2 DEF StillOpen
<1>3. BossesExist(ss, pat)
  <2> SUFFICES ASSUME NEW t \in ss, NEW e \in Days, Covers(t, e), t.boss \notin pat \cup {None}
               PROVE  Open(ss, t.boss, e)
    BY DEF BossesExist
  <2>1. CASE t \in slices
    <3>1. t.boss \in AllPositions
      BY <1>1, <2>1 DEF SliceRows
    <3>2. Open(slices, t.boss, e)
      BY <2>1 DEF OrderInv, Sound, BossesExist
    <3> QED BY <3>1, <3>2 DEF StillOpen
  <2>2. CASE t \notin slices
    BY <2>2
  <2> QED BY <2>1, <2>2
<1>4. Roomy(assignments, ss, pat)
  BY DEF Roomy, OrderInv, Sound
<1> QED BY <1>2, <1>3, <1>4 DEF Sound

LEMMA OccupiedIsNat ==
    ASSUME TypeInv, NEW p, NEW d
    PROVE  Occupied(assignments, p, d) \in Nat
BY TypeIs, ActiveTable DEF TypeInv, Table, Jobs

LEMMA CreateKeeps ==
    ASSUME OrderInv, NEW p \in AllPositions, NEW c \in Capacities, NEW m \in Bosses, NEW d \in Days,
           StartedBy(assignments, d), SlicesOf(slices, p) = {}, MayReportTo(p, m, d),
           NEW new \in SliceRows, new.position = p, new.boss = m, new.from = d,
           Valid(assignments, slices \cup {new})
    PROVE  Sound(assignments, slices \cup {new}, patched)
<1>1. slices \cup {new} \subseteq SliceRows
  BY TypeIs DEF OrderInv, TypeInv
<1>2. StillOpen(slices \cup {new}, patched)
  BY DEF StillOpen, Open, SlicesOf
<1>3. ASSUME NEW e \in Days, Covers(new, e), m \notin patched \cup {None}
      PROVE  Open(slices \cup {new}, m, e)
  <2>1. d <= e
    BY <1>3 DEF Covers
  <2> QED BY <1>1, <1>2, <1>3, <2>1, BossLasts
<1>4. ASSUME NEW e \in Days, p \notin patched
      PROVE  Occupied(assignments, p, e) <= new.capacity
  <2>1. Occupied(assignments, p, e) = 0
    BY <1>4, NobodyNowhere DEF OrderInv, Sound
  <2>2. new.capacity \in Nat
    BY DEF SliceRows
  <2> QED BY <2>1, <2>2
<1> QED BY <1>1, <1>2, <1>3, <1>4, SlicesKeep

LEMMA UpdateKeeps ==
    ASSUME OrderInv, NEW p \in AllPositions, NEW c \in Capacities, NEW m \in Bosses, NEW d \in Days,
           StartedBy(assignments, d), NEW s \in SlicesOf(slices, p), Covers(s, d), s.from < d,
           Occupied(assignments, p, d) <= c, MayReportTo(p, m, d),
           Valid(assignments, Cut(slices, s, d) \cup {RedefinedFrom(s, c, m, d)})
    PROVE  Sound(assignments, Cut(slices, s, d) \cup {RedefinedFrom(s, c, m, d)}, patched)
<1> DEFINE old == EndsOn(s, d - 1)
           new == RedefinedFrom(s, c, m, d)
           ss  == Cut(slices, s, d) \cup {new}
<1>0. /\ assignments \subseteq Jobs /\ IsFiniteSet(assignments) /\ slices \subseteq SliceRows
      /\ s \in SliceRows /\ s \in slices /\ s.position = p
  BY TypeIs DEF OrderInv, TypeInv, SlicesOf
<1>1. /\ s.from \in Days /\ s.from \in Nat /\ s.to \in Nat /\ d \in Nat /\ d - 1 \in Days
      /\ c \in Nat \ {0} /\ c \in Nat /\ m \in AllPositions \cup {None}
  BY <1>0, DaysAreInts, DayBefore, StaffingAssumption DEF SliceRows, Bosses
<1>2. ss = (slices \ {s}) \cup {old, new}
  BY CutIs
<1>3. /\ old \in SliceRows /\ old.position = p /\ old.capacity = s.capacity /\ old.boss = s.boss
      /\ old.from = s.from /\ old.to = d - 1
  BY <1>0, <1>1, SliceEndsOn
<1>4. /\ new \in SliceRows /\ new.position = p /\ new.capacity = c /\ new.boss = m
      /\ new.from = d /\ new.to = s.to
  BY <1>0, <1>1, SliceRedefinedFrom, SMTT(40)
<1> HIDE DEF old, new
<1>5. ss \subseteq SliceRows
  BY <1>0, <1>2, <1>3, <1>4
<1>6. \A e \in Days : Covers(s, e) <=> Covers(old, e) \/ Covers(new, e)
  <2> SUFFICES ASSUME NEW e \in Days PROVE Covers(s, e) <=> Covers(old, e) \/ Covers(new, e)
    OBVIOUS
  <2>1. e \in Nat
    BY DaysAreInts
  <2>2. s.from <= d /\ d <= s.to
    BY DEF Covers
  <2> QED BY <1>1, <1>3, <1>4, <2>1, <2>2 DEF Covers
<1>7. StillOpen(ss, patched)
  <2> SUFFICES ASSUME NEW q, NEW e \in Days, NEW t \in SlicesOf(slices, q), Covers(t, e)
               PROVE  Open(ss, q, e)
    BY DEF StillOpen, Open
  <2>1. CASE t = s
    BY <1>0, <1>2, <1>3, <1>4, <1>6, <2>1 DEF Open, SlicesOf
  <2>2. CASE t # s
    BY <1>2, <2>2 DEF Open, SlicesOf
  <2> QED BY <2>1, <2>2
<1>8. Valid(assignments, ss)
  BY DEF new
<1> HIDE DEF ss
<1>9. ASSUME NEW e \in Days, Covers(new, e)
      PROVE  /\ m \notin patched \cup {None} => Open(ss, m, e)
             /\ Occupied(assignments, p, e) <= c
  <2>1. d <= e
    BY <1>4, <1>9 DEF Covers
  <2>2. Occupied(assignments, p, e) <= Occupied(assignments, p, d)
    BY <1>0, <2>1, OccupiedLater
  <2>3. Occupied(assignments, p, e) \in Nat /\ Occupied(assignments, p, d) \in Nat
    BY OccupiedIsNat DEF OrderInv
  <2>4. Occupied(assignments, p, e) <= c
    BY <1>1, <2>2, <2>3
  <2>5. m \notin patched \cup {None} => Open(ss, m, e)
    BY <1>5, <1>7, <1>8, <2>1, BossLasts
  <2> QED BY <2>4, <2>5
<1>10. ASSUME NEW e \in Days, Covers(old, e)
       PROVE  /\ s.boss \notin patched \cup {None} => Open(ss, s.boss, e)
              /\ p \notin patched => Occupied(assignments, p, e) <= s.capacity
  <2>1. Covers(s, e)
    BY <1>6, <1>10
  <2>2. p \notin patched => Occupied(assignments, p, e) <= s.capacity
    BY <1>0, <2>1 DEF OrderInv, Sound, Roomy
  <2>3. e <= e
    BY DaysAreInts
  <2>4. s.boss \notin patched \cup {None} => Open(ss, s.boss, e)
    BY <1>0, <1>5, <1>7, <1>8, <2>1, <2>3, OldBossLasts
  <2> QED BY <2>2, <2>4
<1>11. \A t \in ss \ slices, e \in Days :
           /\ Covers(t, e) /\ t.boss \notin patched \cup {None} => Open(ss, t.boss, e)
           /\ Covers(t, e) /\ t.position \notin patched => Occupied(assignments, t.position, e) <= t.capacity
  <2> SUFFICES ASSUME NEW t \in ss \ slices, NEW e \in Days, Covers(t, e)
               PROVE  /\ t.boss \notin patched \cup {None} => Open(ss, t.boss, e)
                      /\ t.position \notin patched => Occupied(assignments, t.position, e) <= t.capacity
    OBVIOUS
  <2>1. t = old \/ t = new
    BY <1>2
  <2> QED BY <1>3, <1>4, <1>9, <1>10, <2>1
<1>12. Sound(assignments, ss, patched)
  BY <1>5, <1>7, <1>11, SlicesKeep
<1> QED BY <1>12 DEF ss, new

LEMMA RedefineKeeps ==
    ASSUME OrderInv, NEW p \in AllPositions, NEW c \in Capacities, NEW m \in Bosses, NEW d \in Days,
           StartedBy(assignments, d), NEW s \in SlicesOf(slices, p), s.from = d,
           c # s.capacity => Occupied(assignments, p, d) <= c, MayReportTo(p, m, d),
           Valid(assignments, (slices \ {s}) \cup {Redefined(s, c, m)})
    PROVE  Sound(assignments, (slices \ {s}) \cup {Redefined(s, c, m)}, patched)
<1> DEFINE new == Redefined(s, c, m)
           ss  == (slices \ {s}) \cup {new}
<1>0. /\ assignments \subseteq Jobs /\ IsFiniteSet(assignments) /\ slices \subseteq SliceRows
      /\ s \in SliceRows /\ s \in slices /\ s.position = p
  BY TypeIs DEF OrderInv, TypeInv, SlicesOf
<1>1. /\ s.capacity \in Nat /\ c \in Nat \ {0} /\ c \in Nat /\ m \in AllPositions \cup {None}
  BY <1>0, StaffingAssumption DEF SliceRows, Bosses
<1>2. /\ new \in SliceRows /\ new.position = p /\ new.capacity = c /\ new.boss = m
      /\ new.from = d /\ new.to = s.to
  BY <1>0, <1>1, SliceRedefined
<1> HIDE DEF new
<1>3. ss \subseteq SliceRows
  BY <1>0, <1>2
<1>4. \A e \in Days : Covers(s, e) <=> Covers(new, e)
  BY <1>2 DEF Covers
<1>5. StillOpen(ss, patched)
  <2> SUFFICES ASSUME NEW q, NEW e \in Days, NEW t \in SlicesOf(slices, q), Covers(t, e)
               PROVE  Open(ss, q, e)
    BY DEF StillOpen, Open
  <2>1. CASE t = s
    BY <1>0, <1>2, <1>4, <2>1 DEF Open, SlicesOf
  <2>2. CASE t # s
    BY <2>2 DEF Open, SlicesOf
  <2> QED BY <2>1, <2>2
<1>6. Valid(assignments, ss)
  BY DEF new
<1>7. ASSUME NEW e \in Days, Covers(new, e)
      PROVE  /\ m \notin patched \cup {None} => Open(ss, m, e)
             /\ p \notin patched => Occupied(assignments, p, e) <= c
  <2>1. d <= e
    BY <1>2, <1>7 DEF Covers
  <2>2. Occupied(assignments, p, e) <= Occupied(assignments, p, d)
    BY <1>0, <2>1, OccupiedLater
  <2>3. Occupied(assignments, p, e) \in Nat /\ Occupied(assignments, p, d) \in Nat
    BY OccupiedIsNat DEF OrderInv
  <2>4. p \notin patched => Occupied(assignments, p, e) <= s.capacity
    BY <1>0, <1>4, <1>7 DEF OrderInv, Sound, Roomy
  <2>5. p \notin patched => Occupied(assignments, p, e) <= c
    BY <1>1, <2>2, <2>3, <2>4
  <2> HIDE DEF ss
  <2>6. m \notin patched \cup {None} => Open(ss, m, e)
    BY <1>3, <1>5, <1>6, <2>1, BossLasts
  <2> QED BY <2>5, <2>6
<1>8. \A t \in ss \ slices, e \in Days :
          /\ Covers(t, e) /\ t.boss \notin patched \cup {None} => Open(ss, t.boss, e)
          /\ Covers(t, e) /\ t.position \notin patched => Occupied(assignments, t.position, e) <= t.capacity
  <2> SUFFICES ASSUME NEW t \in ss \ slices, NEW e \in Days, Covers(t, e)
               PROVE  /\ t.boss \notin patched \cup {None} => Open(ss, t.boss, e)
                      /\ t.position \notin patched => Occupied(assignments, t.position, e) <= t.capacity
    OBVIOUS
  <2>1. t = new
    OBVIOUS
  <2> QED BY <1>2, <1>7, <2>1
<1> HIDE DEF ss
<1>9. Sound(assignments, ss, patched)
  BY <1>3, <1>5, <1>8, SlicesKeep
<1> QED BY <1>9 DEF ss, new

LEMMA CloseKeeps ==
    ASSUME OrderInv, NEW p \in AllPositions, NEW d \in Days,
           StartedBy(assignments, d), StartedBy(slices, d),
           Occupied(assignments, p, d) = 0, NEW s \in SlicesOf(slices, p), Covers(s, d),
           Valid(assignments, Cut(slices, s, d) \cup {ClosedFrom(s, d)})
    PROVE  Sound(assignments, Cut(slices, s, d) \cup {ClosedFrom(s, d)}, patched)
<1> DEFINE old == EndsOn(s, d - 1)
           new == ClosedFrom(s, d)
           ss  == Cut(slices, s, d) \cup {new}
<1>0. /\ assignments \subseteq Jobs /\ IsFiniteSet(assignments) /\ slices \subseteq SliceRows
      /\ s \in SliceRows /\ s \in slices /\ s.position = p
  BY TypeIs DEF OrderInv, TypeInv, SlicesOf
<1>1. /\ s.from \in Days /\ s.from \in Nat /\ s.to \in Nat /\ d \in Nat /\ s.capacity \in Nat
  BY <1>0, DaysAreInts DEF SliceRows
<1>2. /\ s.from < d => ss = (slices \ {s}) \cup {old, new}
      /\ ~(s.from < d) => ss = (slices \ {s}) \cup {new}
  BY CutIs
<1>3. s.from < d => /\ old \in SliceRows /\ old.position = p /\ old.capacity = s.capacity
                    /\ old.boss = s.boss /\ old.from = s.from /\ old.to = d - 1
  BY <1>0, <1>1, DayBefore, SliceEndsOn
<1>4. /\ new \in SliceRows /\ new.position = p /\ new.capacity = s.capacity /\ new.boss = s.boss
      /\ new.from = d /\ new.to = EndOfTime
  BY <1>0, SliceClosedFrom
<1> HIDE DEF old, new
<1>5. ss \subseteq SliceRows
  BY <1>0, <1>2, <1>3, <1>4
<1>6. s.from <= d /\ d <= s.to
  BY DEF Covers
<1>7. ASSUME NEW e \in Days, Covers(s, e)
      PROVE  (s.from < d /\ Covers(old, e)) \/ Covers(new, e)
  <2>1. e \in Nat /\ e <= EndOfTime
    BY DaysAreInts, StaffingAssumption DEF Days
  <2> QED BY <1>1, <1>3, <1>4, <1>6, <1>7, <2>1 DEF Covers
<1>8. StillOpen(ss, patched)
  <2> SUFFICES ASSUME NEW q, NEW e \in Days, NEW t \in SlicesOf(slices, q), Covers(t, e)
               PROVE  Open(ss, q, e)
    BY DEF StillOpen, Open
  <2>1. CASE t = s
    <3>1. q = p
      BY <1>0, <2>1 DEF SlicesOf
    <3>2. CASE Covers(new, e)
      BY <1>2, <1>4, <3>1, <3>2 DEF Open, SlicesOf
    <3>3. CASE s.from < d /\ Covers(old, e)
      BY <1>2, <1>3, <3>1, <3>3 DEF Open, SlicesOf
    <3> QED BY <1>7, <2>1, <3>2, <3>3
  <2>2. CASE t # s
    BY <1>2, <2>2 DEF Open, SlicesOf
  <2> QED BY <2>1, <2>2
<1>9. Valid(assignments, ss)
  BY DEF new
<1> HIDE DEF ss
<1>10. ASSUME NEW e \in Days, Covers(new, e)
       PROVE  /\ s.boss \notin patched \cup {None} => Open(ss, s.boss, e)
              /\ Occupied(assignments, p, e) <= s.capacity
  <2>1. d <= e
    BY <1>4, <1>10 DEF Covers
  <2>2. Occupied(assignments, p, e) <= Occupied(assignments, p, d)
    BY <1>0, <2>1, OccupiedLater
  <2>3. Occupied(assignments, p, e) \in Nat
    BY OccupiedIsNat DEF OrderInv
  <2>4. Occupied(assignments, p, e) <= s.capacity
    BY <1>1, <2>2, <2>3
  <2>5. s.boss \notin patched \cup {None} => Open(ss, s.boss, e)
    BY <1>0, <1>5, <1>8, <1>9, <2>1, OldBossLasts
  <2> QED BY <2>4, <2>5
<1>11. ASSUME NEW e \in Days, s.from < d, Covers(old, e)
       PROVE  /\ s.boss \notin patched \cup {None} => Open(ss, s.boss, e)
              /\ p \notin patched => Occupied(assignments, p, e) <= s.capacity
  <2>0. e \in Nat
    BY DaysAreInts
  <2>1. Covers(s, e)
    BY <1>1, <1>3, <1>6, <1>11, <2>0 DEF Covers
  <2>2. p \notin patched => Occupied(assignments, p, e) <= s.capacity
    BY <1>0, <2>1 DEF OrderInv, Sound, Roomy
  <2>3. e <= e
    BY <2>0
  <2>4. s.boss \notin patched \cup {None} => Open(ss, s.boss, e)
    BY <1>0, <1>5, <1>8, <1>9, <2>1, <2>3, OldBossLasts
  <2> QED BY <2>2, <2>4
<1>12. \A t \in ss \ slices, e \in Days :
           /\ Covers(t, e) /\ t.boss \notin patched \cup {None} => Open(ss, t.boss, e)
           /\ Covers(t, e) /\ t.position \notin patched => Occupied(assignments, t.position, e) <= t.capacity
  <2> SUFFICES ASSUME NEW t \in ss \ slices, NEW e \in Days, Covers(t, e)
               PROVE  /\ t.boss \notin patched \cup {None} => Open(ss, t.boss, e)
                      /\ t.position \notin patched => Occupied(assignments, t.position, e) <= t.capacity
    OBVIOUS
  <2>1. (s.from < d /\ t = old) \/ t = new
    BY <1>2
  <2> QED BY <1>3, <1>4, <1>10, <1>11, <2>1
<1>13. Sound(assignments, ss, patched)
  BY <1>5, <1>8, <1>12, SlicesKeep
<1> QED BY <1>13 DEF ss, new

\* The rows of a position that becomes patched: what it reports to is still there.
LEMMA PatchKeeps ==
    ASSUME OrderInv, NEW p \in AllPositions, NEW ss, ss \subseteq SliceRows, Valid(assignments, ss),
           \A q \in AllPositions \ {p} : SlicesOf(slices, q) \subseteq ss,
           \A t \in ss \ slices :
               /\ t.position = p
               /\ \E s \in slices, d \in Days :
                      s.boss = t.boss /\ Covers(s, d) /\ \A e \in Days : Covers(t, e) => d <= e
    PROVE  Sound(assignments, ss, patched \cup {p})
<1> DEFINE pat == patched \cup {p}
<1>1. StillOpen(ss, pat)
  BY DEF StillOpen, Open, SlicesOf
<1>2. patched \subseteq pat /\ p \in pat
  OBVIOUS
<1> HIDE DEF pat
<1>3. ASSUME NEW t \in ss \ slices, NEW e \in Days, Covers(t, e), t.boss \notin pat \cup {None}
      PROVE  Open(ss, t.boss, e)
  <2>1. PICK s \in slices, d \in Days : s.boss = t.boss /\ Covers(s, d) /\ d <= e
    BY <1>3
  <2>2. s.boss \notin pat \cup {None}
    BY <1>3, <2>1
  <2>3. Open(ss, s.boss, e)
    BY <1>1, <1>2, <2>1, <2>2, OldBossLasts
  <2> QED BY <2>1, <2>3
<1>4. Sound(assignments, ss, pat)
  BY <1>1, <1>2, <1>3, SlicesKeep
<1> QED BY <1>4 DEF pat

-----------------------------------------------------------------------------
(* The theorems *)

LEMMA InOrderMeans ==
    ASSUME InDateOrder, NEW d, InOrder(d)
    PROVE  StartedBy(assignments, d) /\ StartedBy(slices, d)
BY DEF InOrder, StartedBy

LEMMA CommitSounds ==
    ASSUME OrderInv, TypeInv', NEW as, NEW ss, NEW pat, Commit(as, ss), patched' = pat, Sound(as, ss, pat)
    PROVE  OrderInv'
<1>1. assignments' = as /\ slices' = ss
  BY DEF Commit
<1> QED BY <1>1 DEF OrderInv

\* A hire or a transfer, to a position or to a unit, keeps what holds.
LEMMA TransferSounds ==
    ASSUME InDateOrder, OrderInv, TypeInv', NEW n \in People, NEW p \in AllPositions, NEW f \in Shares,
           NEW d \in Days, InOrder(d), NEW ss, ss \subseteq SliceRows,
           \A as : Valid(as, ss) => Extends(ss, p, d),
           Transfer(n, ss, p, f, d), Checked
    PROVE  OrderInv'
<1>1. PICK a \in JobsOf(assignments, n) :
        /\ Covers(a, d) /\ a.from < d /\ Open(ss, p, d)
        /\ OthersIn(a, p, d) + f <= SliceAt(ss, p, d).capacity
        /\ Commit(Transferred(a, p, f, d), ss)
  BY DEF Transfer
<1>2. a \in assignments
  BY DEF JobsOf
<1>3. Valid(Transferred(a, p, f, d), ss)
  BY <1>1 DEF Commit
<1>4. Extends(ss, p, d)
  BY <1>3
<1>5. Sound(Transferred(a, p, f, d), ss, patched)
  BY <1>1, <1>2, <1>3, <1>4, InOrderMeans, TransferKeeps
<1> QED BY <1>1, <1>5, CommitSounds DEF Checked

LEMMA AssignmentSounds ==
    ASSUME InDateOrder, OrderInv, TypeInv', NEW n \in People, NEW d \in Days, AssignmentStep(n, d)
    PROVE  OrderInv'
<1>0. assignments \subseteq Jobs /\ slices \subseteq SliceRows /\ Valid(assignments, slices)
  BY TypeIs DEF OrderInv, TypeInv
<1>a. \A p \in AllPositions : Extends(slices, p, d)
  BY DEF Extends
<1>b. /\ AutoPosition(n) \in AllPositions /\ WithAuto(n, d) \subseteq SliceRows
      /\ \A as : Valid(as, WithAuto(n, d)) => Extends(WithAuto(n, d), AutoPosition(n), d)
  BY <1>0, AutoRows, AutoExtends
<1>1. ASSUME NEW p \in AllPositions, NEW f \in Shares, CreateAssignment(n, p, f, d)
      PROVE  OrderInv'
  <2>1. /\ InOrder(d) /\ MayStart(n, d) /\ Fits(assignments, slices, p, f, d)
        /\ Commit(Started(n, p, f, d), slices) /\ patched' = patched
    BY <1>1 DEF CreateAssignment, Checked
  <2>2. Valid(Started(n, p, f, d), slices)
    BY <2>1 DEF Commit
  <2>3. Sound(Started(n, p, f, d), slices, patched)
    BY <1>0, <1>a, <2>1, <2>2, InOrderMeans, StartKeeps
  <2> QED BY <2>1, <2>3, CommitSounds
<1>2. ASSUME NEW f \in Shares, CreateAssignmentAuto(n, f, d)
      PROVE  OrderInv'
  <2> DEFINE p  == AutoPosition(n)
             ss == WithAuto(n, d)
  <2>1. /\ InOrder(d) /\ MayStart(n, d) /\ Fits(assignments, ss, p, f, d)
        /\ Commit(Started(n, p, f, d), ss) /\ patched' = patched
    BY <1>2 DEF CreateAssignmentAuto, Checked
  <2>2. Valid(Started(n, p, f, d), ss)
    BY <2>1 DEF Commit
  <2>3. p \in AllPositions /\ ss \subseteq SliceRows /\ Extends(ss, p, d)
    BY <1>b, <2>2
  <2> HIDE DEF p, ss
  <2>4. Sound(Started(n, p, f, d), ss, patched)
    BY <2>1, <2>2, <2>3, InOrderMeans, StartKeeps
  <2> QED BY <2>1, <2>4, CommitSounds
<1>3. ASSUME NEW p \in AllPositions, NEW f \in Shares, UpdateAssignment(n, p, f, d)
      PROVE  OrderInv'
  BY <1>0, <1>a, <1>3, TransferSounds DEF UpdateAssignment
<1>4. ASSUME NEW f \in Shares, UpdateAssignmentAuto(n, f, d)
      PROVE  OrderInv'
  BY <1>b, <1>4, TransferSounds DEF UpdateAssignmentAuto
<1>5. ASSUME NEW p \in AllPositions, NEW m \in People, CorrectAssignment(n, d, p, m)
      PROVE  OrderInv'
  <2>1. PICK a \in JobsOf(assignments, n) :
          /\ Commit((assignments \ {a}) \cup {CorrectedTo(a, m, p)}, slices)
          /\ patched' = patched \cup ({p} \ {a.position})
    BY <1>5 DEF CorrectAssignment, CorrectedTo, Patch
  <2>2. a \in assignments
    BY DEF JobsOf
  <2>3. Sound((assignments \ {a}) \cup {CorrectedTo(a, m, p)}, slices, patched \cup ({p} \ {a.position}))
    BY <2>2, CorrectKeeps
  <2> QED BY <2>1, <2>3, CommitSounds
<1>6. CASE RescindAssignment(n, d)
  <2>1. PICK a \in JobsOf(assignments, n) : a.from < d /\ d <= a.to /\ Commit(Left(a, d), slices)
    BY <1>6 DEF RescindAssignment
  <2>2. a \in assignments /\ patched' = patched
    BY <1>6 DEF JobsOf, RescindAssignment, Checked
  <2>3. Sound(Left(a, d), slices, patched)
    BY <2>1, <2>2, LeftKeeps
  <2> QED BY <2>1, <2>2, <2>3, CommitSounds
<1>7. CASE DeleteAssignmentAndStitch(n, d)
  <2>1. PICK a \in JobsOf(assignments, n) :
          /\ Commit(Stitched(a, Previous(a)), slices)
          /\ patched' = patched \cup {b.position : b \in Previous(a)}
    BY <1>7 DEF DeleteAssignmentAndStitch, Patch
  <2>2. a \in assignments
    BY DEF JobsOf
  <2>3. Sound(Stitched(a, Previous(a)), slices, patched \cup {b.position : b \in Previous(a)})
    BY <2>2, StitchKeeps
  <2> QED BY <2>1, <2>3, CommitSounds
<1> QED BY <1>1, <1>2, <1>3, <1>4, <1>5, <1>6, <1>7 DEF AssignmentStep

LEMMA PositionSounds ==
    ASSUME InDateOrder, OrderInv, TypeInv', NEW p \in AllPositions, NEW d \in Days, PositionStep(p, d)
    PROVE  OrderInv'
<1>0. assignments \subseteq Jobs /\ slices \subseteq SliceRows /\ Valid(assignments, slices)
  BY TypeIs DEF OrderInv, TypeInv
<1>00. slices' \subseteq SliceRows
  BY DEF TypeInv, TypeOK, SliceRows
<1>1. ASSUME NEW c \in Capacities, NEW m \in Bosses, CreatePosition(p, c, m, d)
      PROVE  OrderInv'
  <2> DEFINE new == [position |-> p, capacity |-> c, boss |-> m, live |-> TRUE, from |-> d, to |-> EndOfTime]
  <2>1. /\ InOrder(d) /\ SlicesOf(slices, p) = {} /\ MayReportTo(p, m, d)
        /\ Commit(assignments, slices \cup {new}) /\ patched' = patched
    BY <1>1 DEF CreatePosition, Checked
  <2>2. new \in SliceRows
    BY <2>1, <1>00 DEF Commit
  <2>3. new.position = p /\ new.boss = m /\ new.from = d
    OBVIOUS
  <2> HIDE DEF new
  <2>4. Valid(assignments, slices \cup {new})
    BY <2>1 DEF Commit
  <2>5. Sound(assignments, slices \cup {new}, patched)
    BY <2>1, <2>2, <2>3, <2>4, InOrderMeans, CreateKeeps
  <2> QED BY <2>1, <2>5, CommitSounds
<1>2. ASSUME NEW c \in Capacities, NEW m \in Bosses, UpdatePosition(p, c, m, d)
      PROVE  OrderInv'
  <2>1. PICK s \in SlicesOf(slices, p) :
          /\ Covers(s, d) /\ s.from < d /\ Occupied(assignments, p, d) <= c /\ MayReportTo(p, m, d)
          /\ Commit(assignments, Cut(slices, s, d) \cup {RedefinedFrom(s, c, m, d)})
    BY <1>2 DEF UpdatePosition, RedefinedFrom
  <2>2. InOrder(d) /\ patched' = patched
    BY <1>2 DEF UpdatePosition, Checked
  <2>3. Valid(assignments, Cut(slices, s, d) \cup {RedefinedFrom(s, c, m, d)})
    BY <2>1 DEF Commit
  <2>4. Sound(assignments, Cut(slices, s, d) \cup {RedefinedFrom(s, c, m, d)}, patched)
    BY <2>1, <2>2, <2>3, InOrderMeans, UpdateKeeps
  <2> QED BY <2>1, <2>2, <2>4, CommitSounds
<1>3. ASSUME NEW c \in Capacities, NEW m \in Bosses, CorrectPosition(p, d, c, m)
      PROVE  OrderInv'
  <2>1. PICK s \in SlicesOf(slices, p) :
          /\ s.from = d /\ (c # s.capacity => Occupied(assignments, p, d) <= c) /\ MayReportTo(p, m, d)
          /\ Commit(assignments, (slices \ {s}) \cup {Redefined(s, c, m)})
    BY <1>3 DEF CorrectPosition, Redefined
  <2>2. InOrder(d) /\ patched' = patched
    BY <1>3 DEF CorrectPosition, Checked
  <2>3. Valid(assignments, (slices \ {s}) \cup {Redefined(s, c, m)})
    BY <2>1 DEF Commit
  <2>4. Sound(assignments, (slices \ {s}) \cup {Redefined(s, c, m)}, patched)
    BY <2>1, <2>2, <2>3, InOrderMeans, RedefineKeeps
  <2> QED BY <2>1, <2>2, <2>4, CommitSounds
<1>4. CASE RescindPosition(p, d)
  <2> DEFINE kept == slices \ {x \in SlicesOf(slices, p) : x.from > d}
  <2>1. PICK s \in SlicesOf(slices, p) :
          Covers(s, d) /\ Commit(assignments, Cut(kept, s, d) \cup {ClosedFrom(s, d)})
    BY <1>4 DEF RescindPosition, ClosedFrom
  <2>2. InOrder(d) /\ patched' = patched /\ Occupied(assignments, p, d) = 0
    BY <1>4 DEF RescindPosition, Checked
  <2>3. kept = slices
    <3> SUFFICES ASSUME NEW x \in slices PROVE ~(x.from > d)
      BY DEF SlicesOf
    <3>1. x.from \in Nat /\ d \in Nat
      BY <1>0, DaysAreInts DEF SliceRows
    <3>2. x.from <= d
      BY <2>2, InOrderMeans DEF StartedBy
    <3> QED BY <3>1, <3>2
  <2> HIDE DEF kept
  <2>4. Valid(assignments, Cut(slices, s, d) \cup {ClosedFrom(s, d)})
    BY <2>1, <2>3 DEF Commit
  <2>5. Sound(assignments, Cut(slices, s, d) \cup {ClosedFrom(s, d)}, patched)
    BY <2>1, <2>2, <2>4, InOrderMeans, CloseKeeps
  <2> QED BY <2>1, <2>2, <2>3, <2>5, CommitSounds
<1>5. ASSUME NEW start \in Days, ShiftBoundaryPosition(p, start, d)
      PROVE  OrderInv'
  <2>1. PICK target \in SlicesOf(slices, p), prev \in SlicesOf(slices, p) :
          /\ target.from = start /\ prev.from < d
          /\ Commit(assignments, (slices \ {target, prev}) \cup {StartsOn(target, d), EndsOn(prev, d - 1)})
    BY <1>5 DEF ShiftBoundaryPosition, StartsOn, EndsOn
  <2>2. InOrder(d) /\ patched' = patched \cup {p}
    BY <1>5 DEF ShiftBoundaryPosition, Patch
  <2> DEFINE ss == (slices \ {target, prev}) \cup {StartsOn(target, d), EndsOn(prev, d - 1)}
  <2>3. /\ target \in slices /\ prev \in slices /\ target.position = p /\ prev.position = p
        /\ target \in SliceRows /\ prev \in SliceRows
    BY <1>0 DEF SlicesOf
  <2>4. prev.from \in Days /\ target.from \in Days /\ d - 1 \in Days
    BY <2>1, <2>3, DayBefore DEF SliceRows
  <2>5. /\ StartsOn(target, d).position = p /\ StartsOn(target, d).boss = target.boss
        /\ StartsOn(target, d).from = d
        /\ EndsOn(prev, d - 1).position = p /\ EndsOn(prev, d - 1).boss = prev.boss
        /\ EndsOn(prev, d - 1).from = prev.from
    BY <2>3, <2>4, SliceStartsOn, SliceEndsOn, ZenonT(40)
  <2>6. Covers(prev, prev.from) /\ Covers(target, target.from) /\ target.from <= d
    <3>1. prev.from <= prev.to /\ target.from <= target.to
      BY <1>0 DEF Valid, Whole
    <3>2. target.from <= d
      BY <2>2, <2>3, InOrderMeans DEF StartedBy
    <3>3. prev.from \in Nat /\ target.from \in Nat
      BY <2>4, DaysAreInts
    <3> QED BY <3>1, <3>2, <3>3 DEF Covers
  <2>7. \A q \in AllPositions \ {p} : SlicesOf(slices, q) \subseteq ss
    BY <2>3 DEF SlicesOf
  <2>8. \A t \in ss \ slices :
            /\ t.position = p
            /\ \E s \in slices, c \in Days :
                   s.boss = t.boss /\ Covers(s, c) /\ \A e \in Days : Covers(t, e) => c <= e
    <3> SUFFICES ASSUME NEW t \in ss \ slices
                 PROVE  /\ t.position = p
                        /\ \E s \in slices, c \in Days :
                               s.boss = t.boss /\ Covers(s, c) /\ \A e \in Days : Covers(t, e) => c <= e
      OBVIOUS
    <3>1. CASE t = StartsOn(target, d)
      <4>1. \A e \in Days : Covers(t, e) => target.from <= e
        <5> SUFFICES ASSUME NEW e \in Days, Covers(t, e) PROVE target.from <= e
          OBVIOUS
        <5>1. target.from \in Nat /\ d \in Nat /\ e \in Nat
          BY <2>4, DaysAreInts
        <5>2. d <= e
          BY <2>5, <3>1 DEF Covers
        <5> QED BY <2>6, <5>1, <5>2
      <4> QED BY <2>3, <2>4, <2>5, <2>6, <3>1, <4>1
    <3>2. CASE t = EndsOn(prev, d - 1)
      <4>1. \A e \in Days : Covers(t, e) => prev.from <= e
        BY <2>5, <3>2 DEF Covers
      <4> QED BY <2>3, <2>4, <2>5, <2>6, <3>2, <4>1
    <3> QED BY <3>1, <3>2
  <2>9. ss \subseteq SliceRows /\ Valid(assignments, ss)
    BY <1>00, <2>1 DEF Commit
  <2>10. Commit(assignments, ss)
    BY <2>1
  <2> HIDE DEF ss
  <2>11. Sound(assignments, ss, patched \cup {p})
    BY <2>7, <2>8, <2>9, PatchKeeps
  <2> QED BY <2>2, <2>10, <2>11, CommitSounds
<1>6. CASE DeletePositionSliceAndStitch(p, d)
  <2> DEFINE prev == {s \in SlicesOf(slices, p) : s.to = d - 1}
  <2>1. PICK target \in SlicesOf(slices, p) :
          Commit(assignments, (slices \ (prev \cup {target})) \cup {EndsOn(s, target.to) : s \in prev})
    BY <1>6 DEF DeletePositionSliceAndStitch, EndsOn
  <2>2. patched' = patched \cup {p}
    BY <1>6 DEF DeletePositionSliceAndStitch, Patch
  <2> DEFINE ss == (slices \ (prev \cup {target})) \cup {EndsOn(s, target.to) : s \in prev}
  <2>3. \A q \in AllPositions \ {p} : SlicesOf(slices, q) \subseteq ss
    BY DEF SlicesOf
  <2>4. \A t \in ss \ slices :
            /\ t.position = p
            /\ \E s \in slices, c \in Days :
                   s.boss = t.boss /\ Covers(s, c) /\ \A e \in Days : Covers(t, e) => c <= e
    <3> SUFFICES ASSUME NEW s \in prev
                 PROVE  /\ EndsOn(s, target.to).position = p
                        /\ \E r \in slices, c \in Days :
                               /\ r.boss = EndsOn(s, target.to).boss /\ Covers(r, c)
                               /\ \A e \in Days : Covers(EndsOn(s, target.to), e) => c <= e
      OBVIOUS
    <3>1. s \in slices /\ s \in SliceRows /\ s.position = p /\ s.from \in Days /\ target.to \in Days
      BY <1>0 DEF SlicesOf, SliceRows
    <3>2. /\ EndsOn(s, target.to).position = p /\ EndsOn(s, target.to).boss = s.boss
          /\ EndsOn(s, target.to).from = s.from
      BY <3>1, SliceEndsOn
    <3>3. s.from <= s.to
      BY <1>0 DEF Valid, Whole
    <3>4. Covers(s, s.from)
      <4>1. s.from \in Nat
        BY <3>1, DaysAreInts
      <4> QED BY <3>3, <4>1 DEF Covers
    <3>5. \A e \in Days : Covers(EndsOn(s, target.to), e) => s.from <= e
      BY <3>2 DEF Covers
    <3> QED BY <3>1, <3>2, <3>4, <3>5
  <2>5. ss \subseteq SliceRows /\ Valid(assignments, ss)
    BY <1>00, <2>1 DEF Commit
  <2>6. Commit(assignments, ss)
    BY <2>1
  <2> HIDE DEF ss
  <2>7. Sound(assignments, ss, patched \cup {p})
    BY <2>3, <2>4, <2>5, PatchKeeps
  <2> QED BY <2>2, <2>6, <2>7, CommitSounds
<1> QED BY <1>1, <1>2, <1>3, <1>4, <1>5, <1>6 DEF PositionStep

LEMMA OrderStart == Init => OrderInv
<1>1. Init => TypeInv
  BY TypeStart
<1> QED BY <1>1 DEF Init, OrderInv, Sound, AssigneesHavePosition, BossesExist, Roomy

LEMMA OrderStep ==
    ASSUME InDateOrder
    PROVE  OrderInv /\ [Next]_vars => OrderInv'
<1> SUFFICES ASSUME OrderInv, [Next]_vars PROVE OrderInv'
  OBVIOUS
<1>0. TypeInv'
  BY TypeStep DEF OrderInv
<1>1. ASSUME NEW n \in People, NEW d \in Days, AssignmentStep(n, d) PROVE OrderInv'
  BY <1>0, <1>1, AssignmentSounds
<1>2. ASSUME NEW p \in AllPositions, NEW d \in Days, PositionStep(p, d) PROVE OrderInv'
  BY <1>0, <1>2, PositionSounds
<1>3. CASE UNCHANGED vars
  BY <1>0, <1>3 DEF vars, OrderInv
<1> QED BY <1>1, <1>2, <1>3 DEF Next

THEOREM SoundInDateOrder ==
    ASSUME InDateOrder
    PROVE  Spec => []OrderInv
BY OrderStart, OrderStep, PTL DEF Spec

\* In date order nobody works in, or reports to, a position that is missing on a day of
\* the row, although every operation looks at one day only.
THEOREM PositionsDoExist ==
    ASSUME InDateOrder
    PROVE  Spec => []PositionsExist
<1>1. OrderInv => PositionsExist
  BY SoundIs DEF OrderInv
<1> QED BY <1>1, SoundInDateOrder, PTL

\* In date order a position that no unchecked operation has touched is within its capacity
\* on every day, although every operation adds up one day only.
THEOREM CapacityIsKept ==
    ASSUME InDateOrder
    PROVE  Spec => []WithinCapacity
<1>1. OrderInv => WithinCapacity
  BY SoundIs DEF OrderInv
<1> QED BY <1>1, SoundInDateOrder, PTL

-----------------------------------------------------------------------------
(* The line of report of a position *)

\* A set of natural numbers has a least one.
LEMMA SomeLeast ==
    ASSUME NEW S \in SUBSET Nat, S # {}
    PROVE  \E m \in S : \A n \in S : ~(n < m)
<1> DEFINE less == {ss \in Nat \X Nat : ss[1] < ss[2]}
<1>1. IsWellFoundedOn(less, Nat)
  BY NatLessThanWellFounded DEF OpToRel
<1> HIDE DEF less
<1>2. PICK m \in S : \A n \in S : ~(<<n, m>> \in less)
  BY <1>1, WFMin
<1> QED BY <1>2 DEF less

\* The recursion of Line, as far as k steps.
Walks(g, m, d, k) == g = [i \in 0..k |-> IF i = 0 THEN {} ELSE BossesOf({m} \cup g[i - 1], d)]

LEMMA WalkIs ==
    ASSUME NEW g, NEW m, NEW d, NEW k \in Nat, Walks(g, m, d, k)
    PROVE  g[0] = {} /\ \A i \in 1..k : g[i] = BossesOf({m} \cup g[i - 1], d)
<1>1. g = [i \in 0..k |-> IF i = 0 THEN {} ELSE BossesOf({m} \cup g[i - 1], d)]
  BY DEF Walks
<1>2. \A i \in 0..k : g[i] = IF i = 0 THEN {} ELSE BossesOf({m} \cup g[i - 1], d)
  BY <1>1, Zenon
<1>3. 0 \in 0..k /\ \A i \in 1..k : i \in 0..k /\ i # 0
  OBVIOUS
<1> QED BY <1>2, <1>3, Zenon

\* The recursion has a solution for any number of steps.
LEMMA WalkExists ==
    ASSUME NEW m, NEW d, NEW k \in Nat
    PROVE  \E g : Walks(g, m, d, k)
<1> DEFINE without == {n \in Nat : ~\E g : Walks(g, m, d, n)}
<1> SUFFICES ASSUME without # {} PROVE FALSE
  OBVIOUS
<1>1. PICK n \in without : \A j \in without : ~(j < n)
  <2>1. without \in SUBSET Nat
    OBVIOUS
  <2> HIDE DEF without
  <2> QED BY <2>1, SomeLeast
<1>2. n \in Nat /\ ~\E g : Walks(g, m, d, n)
  OBVIOUS
<1>3. CASE n = 0
  <2> DEFINE g == [i \in 0..0 |-> {}]
  <2>1. g = [i \in 0..0 |-> IF i = 0 THEN {} ELSE BossesOf({m} \cup g[i - 1], d)]
    OBVIOUS
  <2>2. Walks(g, m, d, n)
    BY <1>3, <2>1 DEF Walks
  <2> QED BY <1>2, <2>2
<1>4. CASE n # 0
  <2>1. n - 1 \in Nat /\ n - 1 < n
    BY <1>2, <1>4
  <2>2. n - 1 \notin without
    BY <1>1, <2>1
  <2>3. PICK g : Walks(g, m, d, n - 1)
    BY <2>1, <2>2
  <2> DEFINE h == [i \in 0..n |-> IF i = 0 THEN {} ELSE BossesOf({m} \cup g[i - 1], d)]
  <2>4. ASSUME NEW i \in 0..n, i # 0 PROVE h[i - 1] = g[i - 1]
    <3>1. i - 1 \in 0..n /\ (i - 1 # 0 => i - 1 \in 1..(n - 1))
      BY <1>2, <2>4
    <3>2. g[0] = {} /\ \A j \in 1..(n - 1) : g[j] = BossesOf({m} \cup g[j - 1], d)
      BY <2>1, <2>3, WalkIs
    <3>3. CASE i - 1 = 0
      BY <3>1, <3>2, <3>3
    <3>4. CASE i - 1 # 0
      BY <3>1, <3>2, <3>4
    <3> QED BY <3>3, <3>4
  <2>5. h = [i \in 0..n |-> IF i = 0 THEN {} ELSE BossesOf({m} \cup h[i - 1], d)]
    <3> DEFINE H(i) == IF i = 0 THEN {} ELSE BossesOf({m} \cup g[i - 1], d)
               I(i) == IF i = 0 THEN {} ELSE BossesOf({m} \cup h[i - 1], d)
    <3>1. \A i \in 0..n : H(i) = I(i)
      BY <2>4
    <3>2. [i \in 0..n |-> H(i)] = [i \in 0..n |-> I(i)]
      <4> HIDE DEF H, I, h
      <4> QED BY <3>1
    <3> QED BY <3>2
  <2>6. Walks(h, m, d, n)
    BY <2>5 DEF Walks
  <2> QED BY <1>2, <2>6
<1> QED BY <1>3, <1>4

\* The walk of Line: there are finitely many positions.
LEMMA LineIs ==
    ASSUME IsFiniteSet(AllPositions), NEW m, NEW d
    PROVE  \E k \in Nat : \E g : Walks(g, m, d, k) /\ Line(m, d) = {m} \cup g[k]
<1> DEFINE k     == Cardinality(AllPositions)
           above == CHOOSE f : f = [i \in 0..k |-> IF i = 0 THEN {} ELSE BossesOf({m} \cup f[i - 1], d)]
<1>1. k \in Nat
  BY FS_CardinalityType
<1>2. Line(m, d) = {m} \cup above[k]
  BY DEF Line
<1>3. \E f : Walks(f, m, d, k)
  <2> HIDE DEF k
  <2> QED BY <1>1, WalkExists
<1>4. Walks(above, m, d, k)
  BY <1>3 DEF Walks
<1> HIDE DEF k, above
<1> QED BY <1>1, <1>2, <1>4

\* One step more reaches no fewer.
LEMMA WalkGrows ==
    ASSUME NEW g, NEW m, NEW d, NEW k \in Nat, Walks(g, m, d, k)
    PROVE  \A i \in 0..k : g[i] \subseteq g[k]
<1> DEFINE upTo(j) == \A i \in 0..j : g[i] \subseteq g[j]
           without == {j \in 0..k : ~upTo(j)}
<1>1. g[0] = {} /\ \A i \in 1..k : g[i] = BossesOf({m} \cup g[i - 1], d)
  BY WalkIs
<1> SUFFICES ASSUME without # {} PROVE FALSE
  <2>1. k \in 0..k
    OBVIOUS
  <2> QED BY <2>1
<1>2. PICK n \in without : \A j \in without : ~(j < n)
  <2>1. without \in SUBSET Nat
    OBVIOUS
  <2> HIDE DEF without
  <2> QED BY <2>1, SomeLeast
<1>3. n \in 0..k /\ ~upTo(n)
  OBVIOUS
<1>4. n # 0
  <2>1. upTo(0)
    OBVIOUS
  <2> QED BY <1>3, <2>1
<1>5. n \in 1..k /\ n - 1 \in 0..k /\ n - 1 < n
  BY <1>3, <1>4
<1>6. upTo(n - 1)
  BY <1>2, <1>5
<1>7. g[n] = BossesOf({m} \cup g[n - 1], d)
  BY <1>1, <1>5
<1>8. ASSUME NEW i \in 0..n PROVE g[i] \subseteq g[n]
  <2>1. CASE i = n
    BY <2>1
  <2>2. CASE i = 0
    BY <1>1, <2>2
  <2>3. CASE i # n /\ i # 0
    <3>1. i \in 1..k /\ i - 1 \in 0..(n - 1)
      BY <1>5, <2>3
    <3>2. g[i] = BossesOf({m} \cup g[i - 1], d)
      BY <1>1, <3>1
    <3>3. g[i - 1] \subseteq g[n - 1]
      BY <1>6, <3>1
    <3>4. BossesOf({m} \cup g[i - 1], d) \subseteq BossesOf({m} \cup g[n - 1], d)
      BY <3>3 DEF BossesOf
    <3> QED BY <1>7, <3>2, <3>4
  <2> QED BY <2>1, <2>2, <2>3
<1> QED BY <1>3, <1>8

\* A set of positions that is closed under reporting, except for p, holds the whole line
\* of its members, unless p is on the line.
LEMMA LineWithin ==
    ASSUME IsFiniteSet(AllPositions), NEW p, NEW P, NEW m \in P, NEW d, p \notin Line(m, d),
           \A x \in P \ {p} : Open(slices, x, d) => SliceAt(slices, x, d).boss \in P
    PROVE  Line(m, d) \subseteq P
<1>0. PICK k \in Nat : \E g : Walks(g, m, d, k) /\ Line(m, d) = {m} \cup g[k]
  BY LineIs
<1>1. PICK g : Walks(g, m, d, k) /\ Line(m, d) = {m} \cup g[k]
  BY <1>0
<1>2. g[0] = {} /\ \A i \in 1..k : g[i] = BossesOf({m} \cup g[i - 1], d)
  BY <1>1, WalkIs
<1>3. \A i \in 0..k : p \notin {m} \cup g[i]
  BY <1>1, WalkGrows
<1> DEFINE without == {j \in 0..k : ~(g[j] \subseteq P)}
<1> SUFFICES ASSUME without # {} PROVE FALSE
  BY <1>1
<1>4. PICK n \in without : \A j \in without : ~(j < n)
  <2>1. without \in SUBSET Nat
    OBVIOUS
  <2> HIDE DEF without
  <2> QED BY <2>1, SomeLeast
<1>5. n \in 1..k /\ n - 1 \in 0..k /\ n - 1 < n
  BY <1>2
<1>6. {m} \cup g[n - 1] \subseteq P
  BY <1>4, <1>5
<1>7. p \notin {m} \cup g[n - 1]
  BY <1>3, <1>5
<1>8. g[n] = BossesOf({m} \cup g[n - 1], d)
  BY <1>2, <1>5
<1>9. BossesOf({m} \cup g[n - 1], d) \subseteq P
  BY <1>6, <1>7 DEF BossesOf
<1> QED BY <1>8, <1>9

-----------------------------------------------------------------------------
(* Loops of reports *)

\* Slices of a day that report to one another, with no way out.
Loop(ss, pat, d, loop) ==
    /\ loop # {}
    /\ \A s \in loop : s \in ss /\ Covers(s, d) /\ s.boss # None /\ s.position \notin pat
    /\ \A s \in loop : \E t \in loop : t.position = s.boss

NoLoop(ss, pat) == \A d \in Days : \A loop : ~Loop(ss, pat, d, loop)

LEMMA NoLoopIs == NoLoop(slices, patched) <=> ReportsAcyclic
<1>1. ASSUME ReportsAcyclic, NEW d \in Days, NEW loop, Loop(slices, patched, d, loop) PROVE FALSE
  <2>1. loop \in SUBSET {s \in slices : Covers(s, d) /\ s.boss # None}
    BY <1>1 DEF Loop
  <2>2. loop # {} /\ \A s \in loop : s.position \notin patched
    BY <1>1 DEF Loop
  <2>3. \E s \in loop : \A t \in loop : t.position # s.boss
    BY <1>1, <2>1, <2>2 DEF ReportsAcyclic
  <2> QED BY <1>1, <2>3 DEF Loop
<1>2. ASSUME NoLoop(slices, patched), NEW d \in Days,
             NEW cycle \in SUBSET {s \in slices : Covers(s, d) /\ s.boss # None},
             cycle # {}, \A s \in cycle : s.position \notin patched,
             \A s \in cycle : \E t \in cycle : t.position = s.boss
      PROVE  FALSE
  <2>1. Loop(slices, patched, d, cycle)
    BY <1>2 DEF Loop
  <2> QED BY <1>2, <2>1 DEF NoLoop
<1> QED BY <1>1, <1>2 DEF NoLoop, ReportsAcyclic

\* Rows that report like rows of one day, e, do not make a new loop.
LEMMA SameReports ==
    ASSUME NoLoop(slices, patched), NEW ss, NEW pat, patched \subseteq pat,
           NEW d \in Days, NEW e \in Days, NEW loop, Loop(ss, pat, d, loop),
           \A t \in loop : \E s \in slices : Covers(s, e) /\ s.position = t.position /\ s.boss = t.boss
    PROVE  FALSE
<1> DEFINE old == {s \in slices : Covers(s, e) /\ \E t \in loop : s.position = t.position /\ s.boss = t.boss}
<1>1. old # {}
  BY DEF Loop
<1>2. \A s \in old : s \in slices /\ Covers(s, e) /\ s.boss # None /\ s.position \notin patched
  BY DEF Loop
<1>3. ASSUME NEW s \in old PROVE \E u \in old : u.position = s.boss
  <2>1. PICK t \in loop : s.position = t.position /\ s.boss = t.boss
    OBVIOUS
  <2>2. PICK v \in loop : v.position = t.boss
    BY DEF Loop
  <2>3. PICK u \in slices : Covers(u, e) /\ u.position = v.position /\ u.boss = v.boss
    OBVIOUS
  <2>4. u \in old
    BY <2>3
  <2> QED BY <2>1, <2>2, <2>3, <2>4
<1>4. Loop(slices, patched, e, old)
  BY <1>1, <1>2, <1>3 DEF Loop
<1> QED BY <1>4 DEF NoLoop

\* A day's row of a row of a later day: in date order it is the same one.
LEMMA CoversEarlier ==
    ASSUME NEW s \in SliceRows, NEW d \in Days, NEW e \in Days, d <= e, s.from <= d, Covers(s, e)
    PROVE  Covers(s, d)
<1>1. s.from \in Nat /\ s.to \in Nat /\ d \in Nat /\ e \in Nat
  BY DaysAreInts DEF SliceRows
<1> QED BY <1>1 DEF Covers

\* The checked boss of a position closes no loop: its line would stay within the loop,
\* and it ends.
LEMMA CheckedBoss ==
    ASSUME IsFiniteSet(AllPositions), TypeInv, NEW p, NEW m, NEW d \in Days, MayReportTo(p, m, d),
           NEW ss, ss \subseteq SliceRows, NEW pat, NEW e \in Days, NEW loop, Loop(ss, pat, e, loop),
           NEW new \in loop, new.boss = m,
           \A t \in loop : t.position # p => t \in slices /\ Covers(t, d)
    PROVE  FALSE
<1> DEFINE P == {t.position : t \in loop}
<1>1. m # None /\ m \in P
  BY DEF Loop
<1>2. p \notin Line(m, d) /\ None \in Line(m, d)
  BY <1>1 DEF MayReportTo
<1>3. ASSUME NEW x \in P \ {p} PROVE SliceAt(slices, x, d).boss \in P
  <2>1. PICK t \in loop : t.position = x
    OBVIOUS
  <2>2. t \in slices /\ Covers(t, d)
    BY <1>3, <2>1
  <2>3. slices \subseteq SliceRows /\ Valid(assignments, slices)
    BY TypeIs DEF TypeInv
  <2>4. x \in AllPositions /\ t \in SlicesOf(slices, x)
    BY <2>1, <2>2, <2>3 DEF SliceRows, SlicesOf
  <2>5. SliceAt(slices, x, d) = t
    BY <2>2, <2>3, <2>4, OneCovers DEF Valid
  <2>6. PICK u \in loop : u.position = t.boss
    BY DEF Loop
  <2> QED BY <2>5, <2>6
<1>4. Line(m, d) \subseteq P
  <2> HIDE DEF P
  <2> QED BY <1>1, <1>2, <1>3, LineWithin
<1>5. None \notin P
  BY PositionAssumption DEF Loop, SliceRows
<1> QED BY <1>2, <1>4, <1>5

\* New rows that report to nobody, or belong to unchecked positions, make no loop.
LEMMA OldReports ==
    ASSUME NoLoop(slices, patched), NEW ss, NEW pat, patched \subseteq pat,
           \A s \in ss : s.boss # None /\ s.position \notin pat => s \in slices
    PROVE  NoLoop(ss, pat)
<1> SUFFICES ASSUME NEW e \in Days, NEW loop, Loop(ss, pat, e, loop) PROVE FALSE
  BY DEF NoLoop
<1>1. \A t \in loop : \E s \in slices : Covers(s, e) /\ s.position = t.position /\ s.boss = t.boss
  BY DEF Loop
<1> QED BY <1>1, SameReports

\* A truncated slice reports as it did.
LEMMA CutReports ==
    ASSUME slices \subseteq SliceRows, NEW s \in slices, NEW d \in Days, Covers(s, d),
           NEW e \in Days, NEW t \in Cut(slices, s, d), Covers(t, e)
    PROVE  \/ t \in slices
           \/ Covers(s, e) /\ s.position = t.position /\ s.boss = t.boss
<1>1. CASE t \notin slices
  <2>1. s.from < d /\ t = EndsOn(s, d - 1)
    BY <1>1, CutIs
  <2>2. s \in SliceRows /\ s.from \in Days /\ d - 1 \in Days
    BY <2>1, DayBefore DEF SliceRows
  <2>3. /\ t.position = s.position /\ t.boss = s.boss /\ t.from = s.from /\ t.to = d - 1
    BY <2>1, <2>2, SliceEndsOn
  <2>4. s.from \in Nat /\ s.to \in Nat /\ d \in Nat /\ e \in Nat
    BY <2>2, DaysAreInts DEF SliceRows
  <2>5. Covers(s, e)
    BY <2>3, <2>4 DEF Covers
  <2> QED BY <2>3, <2>5
<1> QED BY <1>1

\* A slice with a checked boss, and rows that report as before, make no loop.
LEMMA CheckedReports ==
    ASSUME IsFiniteSet(AllPositions), TypeInv, NoLoop(slices, patched),
           NEW p, NEW m, NEW d \in Days, MayReportTo(p, m, d), StartedBy(slices, d),
           NEW rest, NEW new, rest \cup {new} \subseteq SliceRows,
           new.position = p, new.boss = m, new.from = d,
           \A t \in rest : t \notin slices => t.position = p,
           \A t \in rest, e \in Days : Covers(t, e) =>
               \E s \in slices : Covers(s, e) /\ s.position = t.position /\ s.boss = t.boss
    PROVE  NoLoop(rest \cup {new}, patched)
<1> DEFINE ss == rest \cup {new}
<1> SUFFICES ASSUME NEW e \in Days, NEW loop, Loop(ss, patched, e, loop) PROVE FALSE
  BY DEF NoLoop
<1>1. \A t \in loop : t \in ss /\ Covers(t, e)
  BY DEF Loop
<1>2. CASE new \notin loop
  <2>1. \A t \in loop : \E s \in slices : Covers(s, e) /\ s.position = t.position /\ s.boss = t.boss
    BY <1>1, <1>2
  <2> HIDE DEF ss
  <2> QED BY <2>1, SameReports
<1>3. CASE new \in loop
  <2>1. d <= e
    BY <1>1, <1>3 DEF Covers
  <2>2. ASSUME NEW t \in loop, t.position # p PROVE t \in slices /\ Covers(t, d)
    <3>1. t \in slices /\ Covers(t, e) /\ t \in SliceRows
      BY <1>1, <2>2
    <3>2. t.from <= d
      BY <3>1 DEF StartedBy
    <3> QED BY <2>1, <3>1, <3>2, CoversEarlier
  <2>3. ss \subseteq SliceRows
    OBVIOUS
  <2> HIDE DEF ss
  <2> QED BY <1>3, <2>2, <2>3, CheckedBoss
<1> QED BY <1>2, <1>3

\* The days after d of a rescinded slice report as the slice does on d.
LEMMA ClosedReports ==
    ASSUME TypeInv, NoLoop(slices, patched), NEW s \in slices, NEW d \in Days, Covers(s, d),
           StartedBy(slices, d)
    PROVE  NoLoop(Cut(slices, s, d) \cup {ClosedFrom(s, d)}, patched)
<1> DEFINE new == ClosedFrom(s, d)
           ss  == Cut(slices, s, d) \cup {new}
<1>0. slices \subseteq SliceRows /\ s \in SliceRows
  BY TypeIs DEF TypeInv
<1>1. new.position = s.position /\ new.boss = s.boss /\ new.from = d
  BY <1>0, SliceClosedFrom
<1> HIDE DEF new
<1> SUFFICES ASSUME NEW e \in Days, NEW loop, Loop(ss, patched, e, loop) PROVE FALSE
  BY DEF NoLoop, new
<1>2. \A t \in loop : t \in ss /\ Covers(t, e)
  BY DEF Loop
<1>3. CASE new \notin loop
  <2>1. ASSUME NEW t \in loop
        PROVE  \E r \in slices : Covers(r, e) /\ r.position = t.position /\ r.boss = t.boss
    <3>1. t \in Cut(slices, s, d) /\ Covers(t, e)
      BY <1>2, <1>3
    <3> QED BY <1>0, <3>1, CutReports
  <2> HIDE DEF ss
  <2> QED BY <2>1, SameReports
<1>4. CASE new \in loop
  <2>1. d <= e
    BY <1>1, <1>2, <1>4 DEF Covers
  <2>2. ASSUME NEW t \in loop
        PROVE  \E r \in slices : Covers(r, d) /\ r.position = t.position /\ r.boss = t.boss
    <3>1. CASE t = new
      BY <1>1, <3>1
    <3>2. CASE t \in Cut(slices, s, d)
      <4>1. t \in slices \/ (s.position = t.position /\ s.boss = t.boss)
        BY <1>0, <1>2, <3>2, CutReports
      <4>2. ASSUME t \in slices PROVE Covers(t, d)
        <5>1. t.from <= d /\ t \in SliceRows /\ Covers(t, e)
          BY <1>0, <1>2, <4>2 DEF StartedBy
        <5> QED BY <2>1, <5>1, CoversEarlier
      <4> QED BY <4>1, <4>2
    <3> QED BY <1>2, <3>1, <3>2
  <2> HIDE DEF ss
  <2> QED BY <2>2, SameReports
<1> QED BY <1>3, <1>4

\* The slices that an assignment brings with it report to nobody.
LEMMA AutoReports ==
    ASSUME NoLoop(slices, patched), NEW n, NEW d
    PROVE  NoLoop(WithAuto(n, d), patched)
<1>1. \A s \in WithAuto(n, d) : s.boss # None => s \in slices
  BY DEF WithAuto, AutoSlice
<1> QED BY <1>1, OldReports

LEMMA AssignmentLoops ==
    ASSUME NoLoop(slices, patched), NEW n \in People, NEW d \in Days, AssignmentStep(n, d)
    PROVE  NoLoop(slices', patched')
<1>1. CASE slices' = slices /\ patched \subseteq patched'
  <2>1. \A s \in slices' : s.boss # None /\ s.position \notin patched' => s \in slices
    BY <1>1
  <2> QED BY <1>1, <2>1, OldReports
<1>2. CASE slices' = WithAuto(n, d) /\ patched' = patched
  <2>1. NoLoop(WithAuto(n, d), patched)
    BY AutoReports
  <2> QED BY <1>2, <2>1
<1>3. \/ slices' = slices /\ patched \subseteq patched'
      \/ slices' = WithAuto(n, d) /\ patched' = patched
  BY DEF AssignmentStep, CreateAssignment, UpdateAssignment, CreateAssignmentAuto, UpdateAssignmentAuto,
         CorrectAssignment, RescindAssignment, DeleteAssignmentAndStitch, Transfer, Commit, Checked, Patch
<1> QED BY <1>1, <1>2, <1>3

LEMMA PositionLoops ==
    ASSUME IsFiniteSet(AllPositions), InDateOrder, TypeInv, TypeInv', NoLoop(slices, patched),
           NEW p \in AllPositions, NEW d \in Days, PositionStep(p, d)
    PROVE  NoLoop(slices', patched')
<1>0. slices \subseteq SliceRows /\ slices' \subseteq SliceRows
  BY TypeIs DEF TypeInv, TypeOK, SliceRows
<1>1. ASSUME NEW c \in Capacities, NEW m \in Bosses, CreatePosition(p, c, m, d)
      PROVE  NoLoop(slices', patched')
  <2> DEFINE new == [position |-> p, capacity |-> c, boss |-> m, live |-> TRUE, from |-> d, to |-> EndOfTime]
  <2>1. /\ InOrder(d) /\ MayReportTo(p, m, d)
        /\ slices' = slices \cup {new} /\ patched' = patched
    BY <1>1 DEF CreatePosition, Checked, Commit
  <2>2. new.position = p /\ new.boss = m /\ new.from = d
    OBVIOUS
  <2> HIDE DEF new
  <2>3. slices \cup {new} \subseteq SliceRows
    BY <1>0, <2>1
  <2>4. StartedBy(slices, d)
    BY <2>1, InOrderMeans
  <2>5. NoLoop(slices \cup {new}, patched)
    BY <2>1, <2>2, <2>3, <2>4, CheckedReports
  <2> QED BY <2>1, <2>5
<1>2. ASSUME NEW c \in Capacities, NEW m \in Bosses, UpdatePosition(p, c, m, d)
      PROVE  NoLoop(slices', patched')
  <2>1. PICK s \in SlicesOf(slices, p) :
          /\ Covers(s, d) /\ MayReportTo(p, m, d)
          /\ slices' = Cut(slices, s, d) \cup {RedefinedFrom(s, c, m, d)}
    BY <1>2 DEF UpdatePosition, RedefinedFrom, Commit
  <2>2. StartedBy(slices, d) /\ patched' = patched
    BY <1>2, InOrderMeans DEF UpdatePosition, Checked
  <2>3. s \in slices /\ s \in SliceRows /\ s.position = p
    BY <1>0 DEF SlicesOf
  <2> DEFINE new  == RedefinedFrom(s, c, m, d)
             rest == Cut(slices, s, d)
  <2>4. new.position = p /\ new.boss = m /\ new.from = d
    <3>1. c \in Nat \ {0} /\ m \in AllPositions \cup {None}
      BY StaffingAssumption DEF Bosses
    <3> QED BY <2>3, <3>1, SliceRedefinedFrom
  <2>5. rest \cup {new} \subseteq SliceRows
    BY <1>0, <2>1
  <2>6. ASSUME NEW t \in rest, NEW e \in Days, Covers(t, e)
        PROVE  \E r \in slices : Covers(r, e) /\ r.position = t.position /\ r.boss = t.boss
    BY <1>0, <2>1, <2>3, <2>6, CutReports
  <2>7. ASSUME NEW t \in rest, t \notin slices PROVE t.position = p
    <3>1. s.from < d /\ t = EndsOn(s, d - 1)
      BY <2>7, CutIs
    <3>2. s.from \in Days /\ d - 1 \in Days
      BY <2>3, <3>1, DayBefore DEF SliceRows
    <3> QED BY <2>3, <3>1, <3>2, SliceEndsOn
  <2> HIDE DEF new, rest
  <2>8. NoLoop(rest \cup {new}, patched)
    BY <2>1, <2>2, <2>4, <2>5, <2>6, <2>7, CheckedReports
  <2> QED BY <2>1, <2>2, <2>8 DEF rest, new
<1>3. ASSUME NEW c \in Capacities, NEW m \in Bosses, CorrectPosition(p, d, c, m)
      PROVE  NoLoop(slices', patched')
  <2>1. PICK s \in SlicesOf(slices, p) :
          /\ s.from = d /\ MayReportTo(p, m, d)
          /\ slices' = (slices \ {s}) \cup {Redefined(s, c, m)}
    BY <1>3 DEF CorrectPosition, Redefined, Commit
  <2>2. StartedBy(slices, d) /\ patched' = patched
    BY <1>3, InOrderMeans DEF CorrectPosition, Checked
  <2>3. s \in slices /\ s \in SliceRows /\ s.position = p
    BY <1>0 DEF SlicesOf
  <2> DEFINE new  == Redefined(s, c, m)
             rest == slices \ {s}
  <2>4. new.position = p /\ new.boss = m /\ new.from = d
    <3>1. c \in Nat \ {0} /\ m \in AllPositions \cup {None}
      BY StaffingAssumption DEF Bosses
    <3> QED BY <2>1, <2>3, <3>1, SliceRedefined
  <2> HIDE DEF new
  <2>5. rest \cup {new} \subseteq SliceRows
    BY <1>0, <2>1 DEF new
  <2>6. NoLoop(rest \cup {new}, patched)
    BY <2>1, <2>2, <2>4, <2>5, CheckedReports
  <2> QED BY <2>1, <2>2, <2>6 DEF new
<1>4. CASE RescindPosition(p, d)
  <2> DEFINE kept == slices \ {x \in SlicesOf(slices, p) : x.from > d}
  <2>1. PICK s \in SlicesOf(slices, p) :
          Covers(s, d) /\ slices' = Cut(kept, s, d) \cup {ClosedFrom(s, d)}
    BY <1>4 DEF RescindPosition, ClosedFrom, Commit
  <2>2. StartedBy(slices, d) /\ patched' = patched
    BY <1>4, InOrderMeans DEF RescindPosition, Checked
  <2>3. kept = slices
    <3> SUFFICES ASSUME NEW x \in slices PROVE ~(x.from > d)
      BY DEF SlicesOf
    <3>1. x.from \in Nat /\ d \in Nat
      BY <1>0, DaysAreInts DEF SliceRows
    <3>2. x.from <= d
      BY <2>2 DEF StartedBy
    <3> QED BY <3>1, <3>2
  <2> HIDE DEF kept
  <2>4. s \in slices
    BY DEF SlicesOf
  <2>5. NoLoop(Cut(slices, s, d) \cup {ClosedFrom(s, d)}, patched)
    BY <2>1, <2>2, <2>4, ClosedReports
  <2> QED BY <2>1, <2>2, <2>3, <2>5
<1>5. ASSUME NEW start \in Days, ShiftBoundaryPosition(p, start, d)
      PROVE  NoLoop(slices', patched')
  <2>1. PICK target \in SlicesOf(slices, p), prev \in SlicesOf(slices, p) :
          /\ prev.from < d
          /\ slices' = (slices \ {target, prev}) \cup {StartsOn(target, d), EndsOn(prev, d - 1)}
    BY <1>5 DEF ShiftBoundaryPosition, StartsOn, EndsOn, Commit
  <2>2. patched' = patched \cup {p}
    BY <1>5 DEF ShiftBoundaryPosition, Patch
  <2>3. target \in SliceRows /\ prev \in SliceRows /\ target.position = p /\ prev.position = p
    BY <1>0 DEF SlicesOf
  <2>4. d - 1 \in Days
    <3>1. prev.from \in Days
      BY <2>3 DEF SliceRows
    <3> QED BY <2>1, <3>1, DayBefore
  <2>5. StartsOn(target, d).position = p /\ EndsOn(prev, d - 1).position = p
    BY <2>3, <2>4, SliceStartsOn, SliceEndsOn
  <2>6. \A s \in slices' : s.boss # None /\ s.position \notin patched' => s \in slices
    BY <2>1, <2>2, <2>5
  <2> QED BY <2>2, <2>6, OldReports
<1>6. CASE DeletePositionSliceAndStitch(p, d)
  <2> DEFINE prev == {s \in SlicesOf(slices, p) : s.to = d - 1}
  <2>1. PICK target \in SlicesOf(slices, p) :
          slices' = (slices \ (prev \cup {target})) \cup {EndsOn(s, target.to) : s \in prev}
    BY <1>6 DEF DeletePositionSliceAndStitch, EndsOn, Commit
  <2>2. patched' = patched \cup {p}
    BY <1>6 DEF DeletePositionSliceAndStitch, Patch
  <2>3. ASSUME NEW s \in prev PROVE EndsOn(s, target.to).position = p
    <3>1. s \in SliceRows /\ s.position = p /\ target.to \in Days
      BY <1>0 DEF SlicesOf, SliceRows
    <3> QED BY <3>1, SliceEndsOn
  <2>4. \A s \in slices' : s.boss # None /\ s.position \notin patched' => s \in slices
    BY <2>1, <2>2, <2>3
  <2> QED BY <2>2, <2>4, OldReports
<1> QED BY <1>1, <1>2, <1>3, <1>4, <1>5, <1>6 DEF PositionStep

ReportInv == TypeInv /\ NoLoop(slices, patched)

LEMMA ReportStart == Init => ReportInv
<1>1. Init => TypeInv
  BY TypeStart
<1> QED BY <1>1 DEF Init, ReportInv, NoLoop, Loop

LEMMA ReportStep ==
    ASSUME InDateOrder, IsFiniteSet(AllPositions)
    PROVE  ReportInv /\ [Next]_vars => ReportInv'
<1> SUFFICES ASSUME ReportInv, [Next]_vars PROVE TypeInv' /\ NoLoop(slices', patched')
  BY DEF ReportInv
<1>0. TypeInv /\ TypeInv' /\ NoLoop(slices, patched)
  BY TypeStep DEF ReportInv
<1>1. ASSUME NEW n \in People, NEW d \in Days, AssignmentStep(n, d) PROVE NoLoop(slices', patched')
  BY <1>0, <1>1, AssignmentLoops
<1>2. ASSUME NEW p \in AllPositions, NEW d \in Days, PositionStep(p, d) PROVE NoLoop(slices', patched')
  BY <1>0, <1>2, PositionLoops
<1>3. CASE UNCHANGED vars
  BY <1>0, <1>3 DEF vars
<1> QED BY <1>0, <1>1, <1>2, <1>3 DEF Next

\* In date order nobody reports to themselves through others on any day, but through a
\* position that an unchecked operation has touched: the line of a new boss is followed on
\* one day only, for at most as many steps as there are positions.
THEOREM NoReportLoops ==
    ASSUME InDateOrder, IsFiniteSet(AllPositions)
    PROVE  Spec => []ReportsAcyclic
<1>1. ReportInv => ReportsAcyclic
  BY NoLoopIs DEF ReportInv
<1> QED BY <1>1, ReportStart, ReportStep, PTL DEF Spec
=============================================================================
