------------------------ MODULE OrgStaffingLockProofs ------------------------
(***************************************************************************)
(* Theorem about OrgStaffingTx: no transactions wait for one another in a  *)
(* circle, for any number of connections, people, positions and days.      *)
(***************************************************************************)
EXTENDS OrgStaffingTxProofs, FunctionTheorems, WellFoundedInduction

-----------------------------------------------------------------------------
(* The order of the locks: a person's timeline, then a row of it, then the *)
(* slices of positions by the ids of the positions.                        *)

Level(kind, of) == IF kind = "person" THEN 0 ELSE IF kind = "job" THEN 1 ELSE 1 + Rank[of]

WantLevel(w) == Level(w.kind, w.of)
KeyLevel(k)  == Level(k[1], k[2])

\* The level of a transaction that has all its locks.
Top == 2 + Cardinality(AllPositions)

Wants ==
    {w \in [kind : {"person", "job", "slice"}, of : People \cup AllPositions, day : Days] :
        w.kind = "slice" => w.of \in AllPositions}

\* A transaction x with the locks h goes up: it asks for locks above all that it has, each
\* above the one before, and waits only for the one it asks for.
Rising(x, h) ==
    /\ x.want \in Seq(Wants) /\ \A k \in h : KeyLevel(k) \in Nat
    /\ \A i \in 1..Len(x.want), k \in h : KeyLevel(k) < WantLevel(x.want[i])
    /\ \A i, j \in 1..Len(x.want) : i < j => WantLevel(x.want[i]) < WantLevel(x.want[j])
    /\ x.want # <<>> /\ x.waits # None =>
           x.waits[1] = Head(x.want).kind /\ x.waits[2] = Head(x.want).of

LockOrder == \A t \in Txs : tx[t].stage # "idle" => Rising(tx[t], held[t])

LockInv == SerialInv /\ LockOrder

LEMMA RankIs ==
    /\ Rank \in [AllPositions -> 1..Cardinality(AllPositions)]
    /\ \A p, q \in AllPositions : p # q => Rank[p] # Rank[q]
    /\ Cardinality(AllPositions) \in Nat
<1> DEFINE P == AllPositions
           R == 1..Cardinality(P)
<1>1. Cardinality(P) \in Nat /\ ExistsBijection(R, P)
  BY FinitePositions, FS_CardinalityType
<1>2. ExistsBijection(P, R)
  BY <1>1, Fun_ExistsBijSymmetric
<1>3. PICK f \in [P -> R] : IsInjective(f)
  BY <1>2 DEF ExistsBijection, Bijection, Injection
<1>4. \A p, q \in P : p # q => f[p] # f[q]
  BY <1>3 DEF IsInjective
<1> QED BY <1>1, <1>3, <1>4 DEF Rank

LEMMA WantLevels ==
    ASSUME NEW w \in Wants
    PROVE  /\ WantLevel(w) \in Nat /\ WantLevel(w) < Top
           /\ w.kind = "slice" => WantLevel(w) > 1
           /\ Top \in Nat
<1>1. w.kind \in {"person", "job", "slice"} /\ (w.kind = "slice" => w.of \in AllPositions)
  BY DEF Wants
<1>2. w.kind = "slice" => Rank[w.of] \in 1..Cardinality(AllPositions)
  BY <1>1, RankIs
<1> QED BY <1>1, <1>2, RankIs DEF WantLevel, Level, Top

LEMMA KeysAsWanted ==
    ASSUME NEW w \in Wants, NEW k \in KeysOf(w)
    PROVE  k[1] = w.kind /\ k[2] = w.of /\ KeyLevel(k) = WantLevel(w)
<1>1. w.kind \in {"person", "job", "slice"}
  BY DEF Wants
<1> QED BY <1>1 DEF KeysOf, KeyLevel, WantLevel

-----------------------------------------------------------------------------
(* Sequences of locks to take *)

\* Nothing is held and nothing is wanted of what is not there.
LEMMA NoneWanted ==
    ASSUME NEW x, x.want = <<>>, NEW h, \A k \in h : KeyLevel(k) \in Nat
    PROVE  Rising(x, h)
BY DEF Rising

LEMMA TailRises ==
    ASSUME NEW x, NEW h, Rising(x, h), x.want # <<>>,
           NEW y, y.want = Tail(x.want), y.waits = None,
           NEW g, \A k \in g : k \in h \/ KeyLevel(k) = WantLevel(Head(x.want))
    PROVE  Rising(y, g)
<1> DEFINE s == x.want
<1>1. s \in Seq(Wants) /\ s # <<>>
  BY DEF Rising
<1>2. /\ Tail(s) \in Seq(Wants) /\ Len(Tail(s)) = Len(s) - 1 /\ Len(s) \in Nat
      /\ \A i \in 1..Len(Tail(s)) : Tail(s)[i] = s[i + 1] /\ i + 1 \in 1..Len(s)
      /\ Head(s) = s[1] /\ 1 \in 1..Len(s)
  BY <1>1
<1>3. ASSUME NEW i \in 1..Len(Tail(s)), NEW k \in g
      PROVE  KeyLevel(k) < WantLevel(Tail(s)[i])
  <2>1. i + 1 \in 1..Len(s) /\ Tail(s)[i] = s[i + 1] /\ 1 < i + 1
    BY <1>2
  <2>2. CASE k \in h
    BY <2>1, <2>2 DEF Rising
  <2>3. CASE KeyLevel(k) = WantLevel(s[1])
    BY <1>2, <2>1, <2>3 DEF Rising
  <2> QED BY <1>2, <2>2, <2>3
<1>4. ASSUME NEW i \in 1..Len(Tail(s)), NEW j \in 1..Len(Tail(s)), i < j
      PROVE  WantLevel(Tail(s)[i]) < WantLevel(Tail(s)[j])
  <2>1. /\ i + 1 \in 1..Len(s) /\ j + 1 \in 1..Len(s) /\ i + 1 < j + 1
        /\ Tail(s)[i] = s[i + 1] /\ Tail(s)[j] = s[j + 1]
    BY <1>2, <1>4
  <2> QED BY <2>1 DEF Rising
<1>5. ASSUME NEW k \in g PROVE KeyLevel(k) \in Nat
  <2>1. WantLevel(Head(s)) \in Nat
    BY <1>1, <1>2, WantLevels
  <2> QED BY <2>1 DEF Rising
<1> QED BY <1>2, <1>3, <1>4, <1>5 DEF Rising

LEMMA OneWanted ==
    ASSUME NEW w \in Wants, NEW x, x.want = <<w>>, x.waits = None,
           NEW h, \A k \in h : KeyLevel(k) \in Nat /\ KeyLevel(k) < WantLevel(w)
    PROVE  Rising(x, h)
<1>1. <<w>> \in Seq(Wants) /\ Len(<<w>>) = 1 /\ <<w>>[1] = w
  OBVIOUS
<1> QED BY <1>1 DEF Rising

LEMMA TwoWanted ==
    ASSUME NEW v \in Wants, NEW w \in Wants, NEW x, x.want = <<v, w>>, x.waits = None,
           WantLevel(v) < WantLevel(w),
           NEW h, \A k \in h : KeyLevel(k) \in Nat /\ KeyLevel(k) < WantLevel(v) /\ KeyLevel(k) < WantLevel(w)
    PROVE  Rising(x, h)
<1>1. <<v, w>> \in Seq(Wants) /\ Len(<<v, w>>) = 2 /\ <<v, w>>[1] = v /\ <<v, w>>[2] = w
  OBVIOUS
<1> QED BY <1>1 DEF Rising

LEMMA FewWants ==
    ASSUME NEW n \in People, NEW p \in AllPositions, NEW d \in Days
    PROVE  /\ Want("person", n, 0) \in Wants /\ WantLevel(Want("person", n, 0)) = 0
           /\ Want("job", n, d) \in Wants /\ WantLevel(Want("job", n, d)) = 1
           /\ Want("slice", p, d) \in Wants /\ WantLevel(Want("slice", p, d)) = 1 + Rank[p]
<1>1. 0 \in Days
  BY StaffingAssumption DEF Days
<1> QED BY <1>1 DEF Wants, Want, WantLevel, Level

\* What a request asks for first.
LEMMA FirstRises ==
    ASSUME NEW op \in {"create", "update", "rescind", "correct_position"}, NEW n, NEW p, NEW d \in Days,
           op # "correct_position" => n \in People,
           op \in {"create", "correct_position"} => p \in Positions,
           NEW y, y.want = FirstWants(op, n, p, d), y.waits = None
    PROVE  Rising(y, {})
<1> DEFINE person == Want("person", n, 0)
           job    == Want("job", n, d)
           slice  == Want("slice", p, d)
<1>1. CASE op = "create"
  <2>1. person \in Wants /\ job \in Wants /\ slice \in Wants
    BY <1>1, FewWants DEF AllPositions
  <2>2. WantLevel(person) = 0 /\ WantLevel(job) = 1 /\ WantLevel(slice) > 1
    <3>1. p \in AllPositions
      BY <1>1 DEF AllPositions
    <3>2. Rank[p] \in Nat /\ Rank[p] > 0
      BY <3>1, RankIs
    <3> QED BY <1>1, <3>1, <3>2, FewWants
  <2>3. y.want = <<person, job, slice>>
    BY <1>1 DEF FirstWants
  <2> HIDE DEF person, job, slice
  <2>4. /\ <<person, job, slice>> \in Seq(Wants) /\ Len(<<person, job, slice>>) = 3
        /\ <<person, job, slice>>[1] = person /\ <<person, job, slice>>[2] = job
        /\ <<person, job, slice>>[3] = slice
    BY <2>1
  <2>5. WantLevel(slice) \in Nat
    BY <2>1, WantLevels
  <2> QED BY <2>2, <2>3, <2>4, <2>5 DEF Rising
<1>2. CASE op \in {"update", "rescind"}
  <2>1. job \in Wants
    BY <1>2 DEF Wants, Want
  <2>2. y.want = <<job>>
    BY <1>2 DEF FirstWants
  <2> HIDE DEF job
  <2> QED BY <2>1, <2>2, OneWanted
<1>3. CASE op = "correct_position"
  <2>1. slice \in Wants
    BY <1>3 DEF Wants, Want, AllPositions
  <2>2. y.want = <<slice>>
    BY <1>3 DEF FirstWants
  <2> HIDE DEF slice
  <2> QED BY <2>1, <2>2, OneWanted
<1> QED BY <1>1, <1>2, <1>3

\* The slices of the old and the new position, from the lower id to the higher.
LEMMA SlicesRise ==
    ASSUME NEW old \in AllPositions, NEW new \in AllPositions, NEW d \in Days,
           NEW y, y.want = SliceWants(old, new, d), y.waits = None,
           NEW h, \A k \in h : KeyLevel(k) \in Nat /\ KeyLevel(k) < 2
    PROVE  Rising(y, h)
<1> DEFINE v == Want("slice", old, d)
           w == Want("slice", new, d)
<1>1. v \in Wants /\ w \in Wants /\ WantLevel(v) = 1 + Rank[old] /\ WantLevel(w) = 1 + Rank[new]
  BY DEF Wants, Want, WantLevel, Level
<1>2. /\ Rank[old] \in Nat /\ Rank[new] \in Nat /\ Rank[old] > 0 /\ Rank[new] > 0
      /\ old # new => Rank[old] # Rank[new]
  BY RankIs
<1>3. \A k \in h : KeyLevel(k) < WantLevel(v) /\ KeyLevel(k) < WantLevel(w)
  BY <1>1, <1>2
<1>4. \/ y.want = <<w>>
      \/ y.want = <<v, w>> /\ WantLevel(v) < WantLevel(w)
      \/ y.want = <<w, v>> /\ WantLevel(w) < WantLevel(v)
  BY <1>1, <1>2 DEF SliceWants
<1> HIDE DEF v, w
<1> QED BY <1>1, <1>3, <1>4, OneWanted, TwoWanted

-----------------------------------------------------------------------------
(* Every step keeps the order *)

LEMMA OwnOrder ==
    ASSUME LockInv, NEW t \in Txs, NEW y, NEW h,
           tx' = [tx EXCEPT ![t] = y], held' = [held EXCEPT ![t] = h],
           y.stage # "idle" => Rising(y, h)
    PROVE  LockOrder'
<1>1. /\ tx'[t] = y /\ held'[t] = h
      /\ \A u \in Txs : u # t => tx'[u] = tx[u] /\ held'[u] = held[u]
  BY DEF LockInv, SerialInv
<1>2. ASSUME NEW u \in Txs, tx'[u].stage # "idle" PROVE Rising(tx'[u], held'[u])
  BY <1>1, <1>2 DEF LockInv, LockOrder
<1> QED BY <1>2 DEF LockOrder, Rising, WantLevel, KeyLevel, Level
LEMMA WentWaits ==
    ASSUME NEW x, Request(x), NEW w
    PROVE  Went(x, w).want = w /\ Went(x, w).waits = None /\ Went(x, w).stage = x.stage
<1> DEFINE y == [x EXCEPT !.waits = None]
           z == [y EXCEPT !.want = w]
<1>1. Went(x, w) = z
  BY DEF Went
<1>2. y = [op |-> x.op, person |-> x.person, position |-> x.position, amount |-> x.amount, day |-> x.day,
           stage |-> x.stage, want |-> x.want, waits |-> None, old |-> x.old, new |-> x.new]
  BY DEF Request
<1> HIDE DEF y
<1>3. z = [op |-> x.op, person |-> x.person, position |-> x.position, amount |-> x.amount, day |-> x.day,
           stage |-> x.stage, want |-> w, waits |-> None, old |-> x.old, new |-> x.new]
  BY <1>2
<1> HIDE DEF z
<1> QED BY <1>1, <1>3

LEMMA WaitsOnWaits ==
    ASSUME NEW x, Request(x), NEW k
    PROVE  WaitsOn(x, k).want = x.want /\ WaitsOn(x, k).waits = k
<1>1. WaitsOn(x, k) =
          [op |-> x.op, person |-> x.person, position |-> x.position, amount |-> x.amount, day |-> x.day,
           stage |-> x.stage, want |-> x.want, waits |-> k, old |-> x.old, new |-> x.new]
  BY DEF Request, WaitsOn
<1> QED BY <1>1

LEMMA HeadWanted ==
    ASSUME NEW x, NEW h, Rising(x, h), x.want # <<>>
    PROVE  /\ Head(x.want) \in Wants /\ WantLevel(Head(x.want)) \in Nat
           /\ \A k \in h : KeyLevel(k) \in Nat /\ KeyLevel(k) < WantLevel(Head(x.want))
<1>1. x.want \in Seq(Wants) /\ x.want # <<>>
  BY DEF Rising
<1>2. Head(x.want) = x.want[1] /\ 1 \in 1..Len(x.want) /\ Head(x.want) \in Wants
  BY <1>1
<1>3. WantLevel(Head(x.want)) \in Nat
  BY <1>2, WantLevels
<1> QED BY <1>2, <1>3 DEF Rising

LEMMA BeginRises ==
    ASSUME LockInv, NEW t \in Txs, NEW op, NEW n, NEW p, NEW f, NEW d \in Days,
           Begin(t, op, n, p, f, d),
           \/ op \in {"create", "update"} /\ n \in People /\ p \in Positions
           \/ op = "rescind" /\ n \in People
           \/ op = "correct_position" /\ p \in Positions
    PROVE  LockOrder'
<1> DEFINE y == [op |-> op, person |-> n, position |-> p, amount |-> f, day |-> d,
                 stage |-> "lock", want |-> FirstWants(op, n, p, d), waits |-> None,
                 old |-> {}, new |-> {}]
<1>1. y.want = FirstWants(op, n, p, d) /\ y.waits = None
  OBVIOUS
<1>2. tx' = [tx EXCEPT ![t] = y] /\ held' = held /\ tx[t].stage = "idle"
  BY DEF Begin, Stage
<1> HIDE DEF y
<1>3. held[t] = {} /\ held' = [held EXCEPT ![t] = {}]
  BY <1>2 DEF LockInv, SerialInv, Exclusive
<1>4. Rising(y, {})
  BY <1>1, FirstRises
<1> QED BY <1>2, <1>3, <1>4, OwnOrder

LEMMA TakeRises ==
    ASSUME LockInv, NEW t \in Txs, Asks(t), NEW k \in KeysOf(Head(tx[t].want)), Take(t, k)
    PROVE  LockOrder'
<1> DEFINE x == tx[t]
           w == Head(x.want)
           h == held[t] \cup {k}
           y == Went(x, GoesOnWith(x, k))
           rows == {r \in Selected(w) : r.from = k[3]}
<1>1. x.stage = "lock" /\ x.want # <<>>
  BY DEF Asks, Stage
<1>2. Rising(x, held[t]) /\ Request(x)
  BY <1>1, MyTx DEF LockInv, LockOrder
<1>3. tx' = [tx EXCEPT ![t] = y] /\ held' = [held EXCEPT ![t] = h]
  <2>1. tx' = [tx EXCEPT ![t].waits = None, ![t].want = GoesOnWith(tx[t], k)]
    BY DEF Take, GoesOnWith
  <2>2. tx = [u \in Txs |-> tx[u]]
    BY DEF LockInv, SerialInv
  <2>3. tx' = [tx EXCEPT ![t] = Went(tx[t], GoesOnWith(tx[t], k))]
    BY <2>1, <2>2 DEF Went
  <2>4. held' = [held EXCEPT ![t] = h]
    BY DEF Take
  <2> QED BY <2>3, <2>4
<1>4. y.want = GoesOnWith(x, k) /\ y.waits = None
  BY <1>2, WentWaits
<1>5. /\ w \in Wants /\ WantLevel(w) \in Nat
      /\ \A j \in held[t] : KeyLevel(j) \in Nat /\ KeyLevel(j) < WantLevel(w)
  BY <1>1, <1>2, HeadWanted
<1>6. KeyLevel(k) = WantLevel(w)
  BY <1>5, KeysAsWanted
<1>7. Rising(y, h)
  <2>1. CASE w.kind = "job" /\ x.op = "update"
    <3> DEFINE a == CHOOSE r \in rows : TRUE
    <3>1. \E r \in Selected(w) : k = <<"job", w.of, r.from>>
      BY <2>1 DEF KeysOf
    <3>2. rows # {} /\ rows \subseteq Selected(w)
      BY <3>1
    <3>3. Selected(w) \subseteq assignments
      BY <2>1 DEF Selected, JobsOf
    <3>4. a \in assignments
      BY <3>2, <3>3
    <3>5. a.position \in AllPositions /\ x.position \in AllPositions /\ x.day \in Days
      BY <1>2, <2>1, <3>4 DEF LockInv, SerialInv, PlainTables, AllPositions, Request
    <3>6. y.want = SliceWants(a.position, x.position, x.day)
      BY <1>4, <2>1 DEF GoesOnWith
    <3>7. WantLevel(w) = 1
      BY <2>1 DEF WantLevel, Level
    <3>8. \A j \in h : KeyLevel(j) \in Nat /\ KeyLevel(j) < 2
      BY <1>5, <1>6, <3>7
    <3> HIDE DEF a, x, y, h, w
    <3> QED BY <1>4, <3>5, <3>6, <3>8, SlicesRise
  <2>2. CASE ~(w.kind = "job" /\ x.op = "update")
    <3>1. y.want = Tail(x.want)
      BY <1>4, <2>2 DEF GoesOnWith
    <3>2. \A j \in h : j \in held[t] \/ KeyLevel(j) = WantLevel(w)
      BY <1>6
    <3> HIDE DEF x, y, h
    <3> QED BY <1>1, <1>2, <1>4, <3>1, <3>2, TailRises
  <2> QED BY <2>1, <2>2
<1> HIDE DEF y, h
<1> QED BY <1>3, <1>7, OwnOrder

LEMMA WaitRises ==
    ASSUME LockInv, NEW t \in Txs, Wait(t)
    PROVE  LockOrder'
<1> DEFINE x == tx[t]
<1>1. x.stage = "lock" /\ x.want # <<>> /\ held' = held
  BY DEF Wait, Asks, Stage
<1>2. PICK k \in KeysOf(Head(x.want)) : tx' = [tx EXCEPT ![t].waits = k]
  BY DEF Wait
<1> DEFINE y == WaitsOn(x, k)
<1>3. tx' = [tx EXCEPT ![t] = y] /\ held' = [held EXCEPT ![t] = held[t]]
  BY <1>1, <1>2 DEF WaitsOn, LockInv, SerialInv
<1>4. Rising(x, held[t]) /\ Request(x)
  BY <1>1, MyTx DEF LockInv, LockOrder
<1>5. y.want = x.want /\ y.waits = k
  BY <1>4, WaitsOnWaits
<1>6. k[1] = Head(x.want).kind /\ k[2] = Head(x.want).of
  BY <1>1, <1>2, <1>4, HeadWanted, KeysAsWanted
<1> HIDE DEF y
<1>7. Rising(y, held[t])
  BY <1>4, <1>5, <1>6 DEF Rising
<1> QED BY <1>3, <1>7, OwnOrder

LEMMA GoOnRises ==
    ASSUME LockInv, NEW t \in Txs, GoOnWithout(t)
    PROVE  LockOrder'
<1> DEFINE x == tx[t]
           y == Went(x, Tail(x.want))
<1>1. x.stage = "lock" /\ x.want # <<>> /\ held' = held
  BY DEF GoOnWithout, Asks, Stage
<1>2. tx' = [tx EXCEPT ![t] = y] /\ held' = [held EXCEPT ![t] = held[t]]
  <2>1. tx' = [tx EXCEPT ![t].waits = None, ![t].want = Tail(@)]
    BY DEF GoOnWithout
  <2>2. tx' = [tx EXCEPT ![t].waits = None, ![t].want = Tail(tx[t].want)]
    BY <2>1
  <2> QED BY <1>1, <2>2, ProgressIs DEF LockInv, SerialInv
<1>3. Rising(x, held[t]) /\ Request(x)
  BY <1>1, MyTx DEF LockInv, LockOrder
<1>4. y.want = Tail(x.want) /\ y.waits = None
  BY <1>3, WentWaits
<1> HIDE DEF x, y
<1>5. Rising(y, held[t])
  BY <1>1, <1>3, <1>4, TailRises
<1> QED BY <1>2, <1>5, OwnOrder

LEMMA CheckRises ==
    ASSUME LockInv, NEW t \in Txs, Check(t)
    PROVE  LockOrder'
<1> DEFINE x == tx[t]
           y == HasChecked(x)
<1>1. x.stage = "lock" /\ x.want = <<>> /\ held' = held
  BY DEF Check, Stage
<1>2. tx' = [tx EXCEPT ![t] = y] /\ held' = [held EXCEPT ![t] = held[t]]
  BY <1>1 DEF Check, HasChecked, LockInv, SerialInv
<1>3. Rising(x, held[t]) /\ Request(x)
  BY <1>1, MyTx DEF LockInv, LockOrder
<1>4. y.want = <<>>
  BY <1>1, <1>3, HasCheckedIs
<1> HIDE DEF x, y
<1>5. Rising(y, held[t])
  BY <1>3, <1>4, NoneWanted DEF Rising
<1> QED BY <1>2, <1>5, OwnOrder

LEMMA WriteRises ==
    ASSUME LockInv, NEW t \in Txs, Write(t)
    PROVE  LockOrder'
<1> DEFINE x   == tx[t]
           old == Replaced(t)
           new == Replacement(t)
           y   == HasWritten(x, old, new)
<1>1. x.stage = "checked" /\ held' = held
  BY DEF Write, Stage
<1>2. tx' = [tx EXCEPT ![t] = y] /\ held' = [held EXCEPT ![t] = held[t]]
  <2>1. tx' = [tx EXCEPT ![t].stage = "written", ![t].old = old, ![t].new = new]
    BY DEF Write
  <2>2. tx = [u \in Txs |-> tx[u]] /\ held = [u \in Txs |-> held[u]]
    BY DEF LockInv, SerialInv
  <2> HIDE DEF old, new
  <2>3. tx' = [tx EXCEPT ![t] = HasWritten(tx[t], old, new)]
    BY <2>1, <2>2 DEF HasWritten
  <2> QED BY <1>1, <2>2, <2>3
<1>3. Rising(x, held[t]) /\ Request(x) /\ x.want = <<>>
  BY <1>1, MyTx DEF LockInv, LockOrder, TxOK, Planned
<1> HIDE DEF old, new
<1>4. y.want = <<>>
  BY <1>3, HasWrittenIs
<1> HIDE DEF x, y
<1>5. Rising(y, held[t])
  BY <1>3, <1>4, NoneWanted DEF Rising
<1> QED BY <1>2, <1>5, OwnOrder

LEMMA EndRises ==
    ASSUME LockInv, NEW t \in Txs, End(t)
    PROVE  LockOrder'
<1>1. Idle.stage = "idle"
  BY DEF Idle
<1> QED BY <1>1, OwnOrder DEF End

LEMMA LockStep ==
    ASSUME ~InDateOrder, LockInv, [TxNext]_allVars
    PROVE  LockInv'
<1>1. SerialInv'
  BY SerialStep DEF LockInv
<1>2. LockOrder'
  <2>1. CASE UNCHANGED allVars
    <3>1. tx' = tx /\ held' = held
      BY <2>1 DEF allVars
    <3> QED BY <3>1 DEF LockInv, LockOrder
  <2>2. ASSUME NEW t \in Txs, NEW op, NEW n, NEW p, NEW f, NEW d \in Days, Begin(t, op, n, p, f, d),
               \/ op \in {"create", "update"} /\ n \in People /\ p \in Positions
               \/ op = "rescind" /\ n \in People
               \/ op = "correct_position" /\ p \in Positions
        PROVE  LockOrder'
    BY <2>2, BeginRises
  <2>3. ASSUME NEW t \in Txs, LockNow(t) \/ Granted(t) PROVE LockOrder'
    <3>1. PICK k \in KeysOf(Head(tx[t].want)) : Take(t, k)
      BY <2>3 DEF LockNow, Granted
    <3>2. Asks(t)
      BY <2>3 DEF LockNow, Granted
    <3> QED BY <3>1, <3>2, TakeRises
  <2>4. ASSUME NEW t \in Txs, Wait(t) PROVE LockOrder'
    BY <2>4, WaitRises
  <2>5. ASSUME NEW t \in Txs, GoOnWithout(t) PROVE LockOrder'
    BY <2>5, GoOnRises
  <2>6. ASSUME NEW t \in Txs, Check(t) PROVE LockOrder'
    BY <2>6, CheckRises
  <2>7. ASSUME NEW t \in Txs, Write(t) PROVE LockOrder'
    BY <2>7, WriteRises
  <2>8. ASSUME NEW t \in Txs, CommitTx(t) \/ RollbackTx(t) PROVE LockOrder'
    BY <2>8, EndRises DEF CommitTx, RollbackTx
  <2> QED BY <2>1, <2>2, <2>3, <2>4, <2>5, <2>6, <2>7, <2>8 DEF TxNext
<1> QED BY <1>1, <1>2 DEF LockInv

-----------------------------------------------------------------------------
(* Whoever waits is lower than the one it waits for *)

Height(t) ==
    IF tx[t].stage = "lock" /\ tx[t].want # <<>> THEN WantLevel(Head(tx[t].want))
    ELSE IF tx[t].stage = "written" THEN Top + 1 ELSE Top

LEMMA HeightIs ==
    ASSUME LockInv, NEW t \in Txs
    PROVE  Height(t) \in Nat /\ Height(t) <= Top + 1 /\ Top \in Nat
<1>1. Top \in Nat
  BY RankIs DEF Top
<1>2. CASE tx[t].stage = "lock" /\ tx[t].want # <<>>
  <2>1. Head(tx[t].want) \in Wants
    BY <1>2, HeadWanted DEF LockInv, LockOrder
  <2> QED BY <1>1, <1>2, <2>1, WantLevels DEF Height
<1> QED BY <1>1, <1>2 DEF Height

LEMMA WaitsUp ==
    ASSUME LockInv, NEW t \in Txs, NEW u \in Txs, WaitsFor(t, u)
    PROVE  Height(t) < Height(u)
<1>1. CASE Asks(t) /\ tx[t].waits # None /\ tx[t].waits \in held[u]
  <2> DEFINE k == tx[t].waits
             w == Head(tx[t].want)
  <2>1. tx[t].stage = "lock" /\ tx[t].want # <<>>
    BY <1>1 DEF Asks, Stage
  <2>2. Rising(tx[t], held[t])
    BY <2>1 DEF LockInv, LockOrder
  <2>3. Height(t) = WantLevel(w) /\ KeyLevel(k) = WantLevel(w)
    BY <1>1, <2>1, <2>2 DEF Rising, Height, WantLevel, KeyLevel
  <2>4. WantLevel(w) \in Nat /\ WantLevel(w) < Top /\ Top \in Nat
    BY <2>1, <2>2, HeadWanted, WantLevels
  <2>5. tx[u].stage # "idle" /\ k \in held[u]
    BY <1>1 DEF LockInv, SerialInv, Exclusive
  <2>6. Rising(tx[u], held[u])
    BY <2>5 DEF LockInv, LockOrder
  <2>7. CASE tx[u].stage = "lock" /\ tx[u].want # <<>>
    <3>1. KeyLevel(k) < WantLevel(Head(tx[u].want))
      BY <2>5, <2>6, <2>7, HeadWanted
    <3> QED BY <2>3, <2>7, <3>1 DEF Height
  <2>8. CASE ~(tx[u].stage = "lock" /\ tx[u].want # <<>>)
    BY <2>3, <2>4, <2>8 DEF Height
  <2> QED BY <2>7, <2>8
<1>2. CASE WriteWaitsFor(t, u)
  <2>1. tx[t].stage = "checked" /\ tx[u].stage = "written"
    BY <1>2 DEF WriteWaitsFor, Stage
  <2> QED BY <2>1, RankIs DEF Height, Top
<1> QED BY <1>1, <1>2 DEF WaitsFor

LEMMA NoCircle ==
    ASSUME LockInv
    PROVE  NoWaitCycle
<1> SUFFICES ASSUME NEW circle \in SUBSET Txs, circle # {},
                    \A t \in circle : \E u \in circle : WaitsFor(t, u)
             PROVE  FALSE
  BY DEF NoWaitCycle
<1> DEFINE Depth(t) == Top + 1 - Height(t)
           depths   == {Depth(t) : t \in circle}
<1>1. \A t \in circle : Height(t) \in Nat /\ Depth(t) \in Nat
  BY HeightIs
<1>2. depths \in SUBSET Nat /\ depths # {}
  BY <1>1
<1>3. PICK t \in circle : \A u \in circle : ~(Depth(u) < Depth(t))
  BY <1>2, SomeLeast
<1>4. PICK u \in circle : WaitsFor(t, u)
  OBVIOUS
<1>5. Height(t) < Height(u)
  BY <1>4, WaitsUp
<1> QED BY <1>1, <1>3, <1>5, HeightIs

\* For any number of connections, people, positions and days, no transactions wait for one
\* another in a circle: every request takes the timeline of a person before the rows of it,
\* these before the slices of positions, and slices in the order of their ids.
THEOREM NoDeadlock ==
    ASSUME ~InDateOrder
    PROVE  TxSpec => []NoWaitCycle
<1>1. TxInit => LockInv
  <2>1. TxInit => SerialInv
    BY SerialStart
  <2>2. TxInit => \A t \in Txs : tx[t].stage = "idle"
    BY DEF TxInit, Idle
  <2> QED BY <2>1, <2>2 DEF LockInv, LockOrder
<1>2. LockInv /\ [TxNext]_allVars => LockInv'
  BY LockStep
<1>3. LockInv => NoWaitCycle
  BY NoCircle
<1> QED BY <1>1, <1>2, <1>3, PTL DEF TxSpec
=============================================================================
