------------------------- MODULE OrgStaffingTxProofs -------------------------
(***************************************************************************)
(* Theorem about OrgStaffingTx: under READ COMMITTED, with the locks the   *)
(* operations take, what is committed is what the operations do one after  *)
(* the other, for any number of connections, people, positions and days.   *)
(***************************************************************************)
EXTENDS OrgStaffingTx, OrgStaffingProofs

-----------------------------------------------------------------------------
(* The invariant *)

\* Every position has one slice, for ever, as TxInit makes them; nobody is in an automatic
\* position.
PlainTables ==
    /\ \A a \in assignments : a.position \in Positions
    /\ \A s \in slices : s.position \in Positions /\ s.from = 0 /\ s.to = EndOfTime /\ s.boss = None
    /\ \A s, r \in slices : s.position = r.position => s = r
    /\ \A p \in Positions : SlicesOf(slices, p) # {}

\* Nobody shares a lock, and a connection without a transaction has none.
Exclusive ==
    /\ \A t, u \in Txs : t # u => held[t] \cap held[u] = {}
    /\ \A t \in Txs : tx[t].stage = "idle" => held[t] = {}

\* What a transaction x has been asked for.
Request(x) ==
    /\ x = [op |-> x.op, person |-> x.person, position |-> x.position, amount |-> x.amount, day |-> x.day,
            stage |-> x.stage, want |-> x.want, waits |-> x.waits, old |-> x.old, new |-> x.new]
    /\ x.op \in Ops /\ x.day \in Days /\ x.stage \in {"lock", "checked", "written"}
    /\ \/ x.op \in {"create", "update"} /\ x.person \in People /\ x.position \in Positions /\ x.amount \in Shares
       \/ x.op = "rescind" /\ x.person \in People
       \/ x.op = "correct_position" /\ x.position \in Positions /\ x.amount \in Capacities

OnJob(x)     == x.op # "correct_position"
PersonWant(x) == Want("person", x.person, 0)
JobWant(x)   == Want("job", x.person, x.day)
SliceWant(x, p) == Want("slice", p, x.day)
SliceKey(p)  == <<"slice", p, 0>>

\* The rows that the locks h stand for.
LockedJobs(as, h, n)   == {a \in JobsOf(as, n) : <<"job", n, a.from>> \in h}
LockedSlices(ss, h, p) == {s \in SlicesOf(ss, p) : <<"slice", p, s.from>> \in h}

\* A transaction has the locks h or is still going to take them.
PlannedCreate(x, h) ==
    \/ x.want \in {<<PersonWant(x), JobWant(x), SliceWant(x, x.position)>>,
                   <<JobWant(x), SliceWant(x, x.position)>>, <<SliceWant(x, x.position)>>}
    \/ x.want = <<>> /\ SliceKey(x.position) \in h

PlannedUpdate(x, h, as) ==
    \/ x.want = <<JobWant(x)>>
    \/ \E a \in LockedJobs(as, h, x.person) :
        \/ x.want \in {<<SliceWant(x, x.position), SliceWant(x, a.position)>>,
                       <<SliceWant(x, a.position), SliceWant(x, x.position)>>}
        \/ x.want = <<SliceWant(x, x.position)>> /\ (a.position = x.position \/ SliceKey(a.position) \in h)
        \/ x.want = <<SliceWant(x, a.position)>> /\ SliceKey(x.position) \in h
        \/ x.want = <<>> /\ SliceKey(x.position) \in h /\ SliceKey(a.position) \in h

PlannedRescind(x, h, as) ==
    \/ x.want = <<JobWant(x)>>
    \/ x.want = <<>> /\ LockedJobs(as, h, x.person) # {}

PlannedCorrect(x, h) ==
    \/ x.want = <<SliceWant(x, x.position)>>
    \/ x.want = <<>> /\ SliceKey(x.position) \in h

Planned(x, h, as) ==
    /\ x.op = "create" => PlannedCreate(x, h)
    /\ x.op = "update" => PlannedUpdate(x, h, as)
    /\ x.op = "rescind" => PlannedRescind(x, h, as)
    /\ x.op = "correct_position" => PlannedCorrect(x, h)
    /\ x.stage # "lock" => x.want = <<>>

\* A locked row is there, and is one the operation may change.
RowsThere(x, h, as) ==
    /\ \A n \in People, d \in Days :
        <<"job", n, d>> \in h => n = x.person /\ OnJob(x) /\ \E a \in JobsOf(as, n) : a.from = d
    /\ OnJob(x) => \A a \in LockedJobs(as, h, x.person) :
        Covers(a, x.day) /\ a.from < x.day /\ (x.op = "create" => a.status = "inactive")

\* HasRoom, OthersIn, Replaced and Replacement of a transaction x, locks h and tables.
Others(as, a, p, d) ==
    LET occupied == Occupied(as, p, d)
    IN  IF a.position # p THEN occupied
        ELSE IF occupied < a.fte THEN 0 ELSE occupied - a.fte

Room(x, h, as, ss) ==
    /\ x.op = "create" =>
        \E s \in SlicesOf(ss, x.position) :
            Covers(s, x.day) /\ Occupied(as, x.position, x.day) + x.amount <= s.capacity
    /\ x.op = "update" =>
        \E s \in LockedSlices(ss, h, x.position), a \in LockedJobs(as, h, x.person) :
            Covers(s, x.day) /\ Others(as, a, x.position, x.day) + x.amount <= s.capacity
    /\ x.op = "correct_position" =>
        \E s \in LockedSlices(ss, h, x.position) :
            x.amount # s.capacity => Occupied(as, x.position, s.from) <= x.amount

Mine(x, h, as, ss) ==
    IF x.op = "correct_position" THEN LockedSlices(ss, h, x.position) ELSE LockedJobs(as, h, x.person)

Renewed(x, mine) ==
    CASE x.op = "create"  -> {EndsOn(a, x.day - 1) : a \in mine}
                                \cup {Job(x.person, x.position, x.amount, "active", x.day, EndOfTime)}
      [] x.op = "update"  -> {EndsOn(a, x.day - 1) : a \in mine}
                                \cup {MovedTo(a, x.position, x.amount, x.day) : a \in mine}
      [] x.op = "rescind" -> {EndsOn(a, x.day - 1) : a \in mine}
                                \cup {InactiveFrom(a, x.day) : a \in {b \in mine : b.status = "active"}}
      [] x.op = "correct_position" -> {[s EXCEPT !.capacity = x.amount] : s \in mine}

\* What is written replaces the locked rows and meets no other.
WrittenOK(x, h, as, ss) ==
    /\ x.old = Mine(x, h, as, ss) /\ x.new = Renewed(x, x.old)
    /\ OnJob(x) => \A r \in x.new, s \in as \ x.old : ~Meets(r, s)

TxOK(x, h, as, ss) ==
    /\ Request(x) /\ Planned(x, h, as) /\ RowsThere(x, h, as)
    /\ x.stage # "lock" => Room(x, h, as, ss)
    /\ x.stage = "written" => WrittenOK(x, h, as, ss)

WritesJob(t) == tx[t].stage = "written" /\ OnJob(tx[t])

\* Rows written at the same time do not meet.
Apart ==
    \A t, u \in Txs : t # u /\ WritesJob(t) /\ WritesJob(u) =>
        \A r \in tx[t].new, s \in tx[u].new : ~Meets(r, s)

SerialInv ==
    /\ TypeInv /\ PlainTables /\ Exclusive /\ Apart
    /\ tx = [t \in Txs |-> tx[t]] /\ held = [t \in Txs |-> held[t]]
    /\ \A t \in Txs : tx[t].stage # "idle" => TxOK(tx[t], held[t], assignments, slices)

-----------------------------------------------------------------------------
(* Fields of a transaction *)

Went(x, w)       == [x EXCEPT !.waits = None, !.want = w]
WaitsOn(x, k)    == [x EXCEPT !.waits = k]
HasChecked(x)    == [x EXCEPT !.stage = "checked"]
HasWritten(x, old, new) == [x EXCEPT !.stage = "written", !.old = old, !.new = new]

\* y is about the same request as x.
SameRequest(x, y) ==
    /\ y.op = x.op /\ y.person = x.person /\ y.position = x.position
    /\ y.amount = x.amount /\ y.day = x.day

LEMMA WentIs ==
    ASSUME NEW x, Request(x), NEW w
    PROVE  /\ Request(Went(x, w)) /\ SameRequest(x, Went(x, w))
           /\ Went(x, w).stage = x.stage /\ Went(x, w).want = w
<1> DEFINE y == [x EXCEPT !.waits = None]
           z == [y EXCEPT !.want = w]
<1>1. Went(x, w) = z
  BY DEF Went
<1>2. y = [op |-> x.op, person |-> x.person, position |-> x.position, amount |-> x.amount, day |-> x.day,
           stage |-> x.stage, want |-> x.want, waits |-> None, old |-> x.old, new |-> x.new]
  BY DEF Request
<1> HIDE DEF y
<1>3. z = [op |-> x.op, person |-> x.person, position |-> x.position, amount |-> x.amount, day |-> x.day,
           stage |-> x.stage, want |-> w, waits |-> None, old |-> x.old, new |-> x.new]
  BY <1>2
<1> HIDE DEF z
<1> QED BY <1>1, <1>3 DEF Request, SameRequest

LEMMA WaitsOnIs ==
    ASSUME NEW x, Request(x), NEW k
    PROVE  /\ Request(WaitsOn(x, k)) /\ SameRequest(x, WaitsOn(x, k))
           /\ WaitsOn(x, k).stage = x.stage /\ WaitsOn(x, k).want = x.want
           /\ WaitsOn(x, k).old = x.old /\ WaitsOn(x, k).new = x.new
<1>1. WaitsOn(x, k) =
          [op |-> x.op, person |-> x.person, position |-> x.position, amount |-> x.amount, day |-> x.day,
           stage |-> x.stage, want |-> x.want, waits |-> k, old |-> x.old, new |-> x.new]
  BY DEF Request, WaitsOn
<1> QED BY <1>1 DEF Request, SameRequest

LEMMA HasCheckedIs ==
    ASSUME NEW x, Request(x)
    PROVE  /\ Request(HasChecked(x)) /\ SameRequest(x, HasChecked(x))
           /\ HasChecked(x).stage = "checked" /\ HasChecked(x).want = x.want
<1>1. HasChecked(x) =
          [op |-> x.op, person |-> x.person, position |-> x.position, amount |-> x.amount, day |-> x.day,
           stage |-> "checked", want |-> x.want, waits |-> x.waits, old |-> x.old, new |-> x.new]
  BY DEF Request, HasChecked
<1> QED BY <1>1 DEF Request, SameRequest

LEMMA HasWrittenIs ==
    ASSUME NEW x, Request(x), NEW old, NEW new
    PROVE  /\ Request(HasWritten(x, old, new)) /\ SameRequest(x, HasWritten(x, old, new))
           /\ HasWritten(x, old, new).stage = "written" /\ HasWritten(x, old, new).want = x.want
           /\ HasWritten(x, old, new).old = old /\ HasWritten(x, old, new).new = new
<1> DEFINE y == [x EXCEPT !.stage = "written"]
           z == [y EXCEPT !.old = old]
           v == [z EXCEPT !.new = new]
<1>1. HasWritten(x, old, new) = v
  BY DEF HasWritten
<1>2. y = [op |-> x.op, person |-> x.person, position |-> x.position, amount |-> x.amount, day |-> x.day,
           stage |-> "written", want |-> x.want, waits |-> x.waits, old |-> x.old, new |-> x.new]
  BY DEF Request
<1> HIDE DEF y
<1>3. z = [op |-> x.op, person |-> x.person, position |-> x.position, amount |-> x.amount, day |-> x.day,
           stage |-> "written", want |-> x.want, waits |-> x.waits, old |-> old, new |-> x.new]
  BY <1>2
<1> HIDE DEF z
<1>4. v = [op |-> x.op, person |-> x.person, position |-> x.position, amount |-> x.amount, day |-> x.day,
           stage |-> "written", want |-> x.want, waits |-> x.waits, old |-> old, new |-> new]
  BY <1>3
<1> HIDE DEF v
<1> QED BY <1>1, <1>4 DEF Request, SameRequest

\* Everything but the progress depends on the request only.
LEMMA SameData ==
    ASSUME NEW x, NEW y, SameRequest(x, y), NEW h, NEW as, NEW ss
    PROVE  /\ OnJob(y) = OnJob(x)
           /\ RowsThere(x, h, as) => RowsThere(y, h, as)
           /\ Room(x, h, as, ss) => Room(y, h, as, ss)
           /\ Mine(y, h, as, ss) = Mine(x, h, as, ss)
           /\ \A mine : Renewed(y, mine) = Renewed(x, mine)
<1>1. OnJob(y) = OnJob(x)
  BY DEF OnJob, SameRequest
<1>2. RowsThere(x, h, as) => RowsThere(y, h, as)
  BY <1>1 DEF RowsThere, SameRequest
<1>3. Room(x, h, as, ss) => Room(y, h, as, ss)
  BY DEF Room, SameRequest
<1>4. Mine(y, h, as, ss) = Mine(x, h, as, ss)
  BY DEF Mine, SameRequest
<1>5. \A mine : Renewed(y, mine) = Renewed(x, mine)
  BY DEF Renewed, SameRequest
<1> QED BY <1>1, <1>2, <1>3, <1>4, <1>5

-----------------------------------------------------------------------------
(* Steps of one transaction that leave the tables alone *)

LEMMA MeetsBoth ==
    ASSUME NEW r, NEW s
    PROVE  Meets(r, s) <=> Meets(s, r)
BY DEF Meets

LEMMA OwnStep ==
    ASSUME SerialInv, NEW t \in Txs, NEW y, NEW h,
           tx' = [tx EXCEPT ![t] = y], held' = [held EXCEPT ![t] = h], UNCHANGED vars,
           y.stage # "idle" => TxOK(y, h, assignments, slices),
           y.stage = "idle" => h = {},
           \A u \in Txs : u # t => h \cap held[u] = {},
           y.stage = "written" /\ OnJob(y) =>
               \A u \in Txs : u # t /\ WritesJob(u) => \A r \in y.new, s \in tx[u].new : ~Meets(r, s)
    PROVE  SerialInv'
<1>1. /\ tx'[t] = y /\ held'[t] = h
      /\ \A u \in Txs : u # t => tx'[u] = tx[u] /\ held'[u] = held[u]
      /\ tx' = [u \in Txs |-> tx'[u]] /\ held' = [u \in Txs |-> held'[u]]
  BY DEF SerialInv
<1>2. assignments' = assignments /\ slices' = slices /\ patched' = patched
  BY DEF vars
<1>3. TypeInv' /\ PlainTables'
  BY <1>2 DEF SerialInv, TypeInv, TypeOK, PlainTables, SlicesOf
<1>4. Exclusive'
  BY <1>1 DEF SerialInv, Exclusive
<1>5. Apart'
  <2> SUFFICES ASSUME NEW u \in Txs, NEW v \in Txs, u # v, WritesJob(u)', WritesJob(v)',
                      NEW r \in tx'[u].new, NEW s \in tx'[v].new
               PROVE  ~Meets(r, s)
    BY DEF Apart
  <2>1. CASE u # t /\ v # t
    BY <1>1, <2>1 DEF SerialInv, Apart, WritesJob
  <2>2. CASE u = t
    BY <1>1, <2>2 DEF WritesJob
  <2>3. CASE v = t
    <3>1. ~Meets(s, r)
      BY <1>1, <2>3 DEF WritesJob
    <3> QED BY <3>1, MeetsBoth
  <2> QED BY <2>1, <2>2, <2>3
<1>6. \A u \in Txs : tx'[u].stage # "idle" => TxOK(tx'[u], held'[u], assignments', slices')
  BY <1>1, <1>2 DEF SerialInv
<1> QED BY <1>1, <1>3, <1>4, <1>5, <1>6 DEF SerialInv

LEMMA MyTx ==
    ASSUME SerialInv, NEW t \in Txs, tx[t].stage # "idle"
    PROVE  /\ TxOK(tx[t], held[t], assignments, slices) /\ Request(tx[t])
           /\ \A u \in Txs : u # t => held[t] \cap held[u] = {}
           /\ held' = held => held' = [held EXCEPT ![t] = held[t]]
BY DEF SerialInv, TxOK, Exclusive

LEMMA SamePlan ==
    ASSUME NEW x, NEW y, SameRequest(x, y), y.want = x.want, y.stage # "lock" => y.want = <<>>,
           NEW h, NEW as, Planned(x, h, as)
    PROVE  Planned(y, h, as)
<1>1. JobWant(y) = JobWant(x) /\ PersonWant(y) = PersonWant(x) /\ \A p : SliceWant(y, p) = SliceWant(x, p)
  BY DEF JobWant, PersonWant, SliceWant, SameRequest
<1>2. PlannedCreate(x, h) => PlannedCreate(y, h)
  BY <1>1 DEF PlannedCreate, SameRequest
<1>3. PlannedUpdate(x, h, as) => PlannedUpdate(y, h, as)
  BY <1>1 DEF PlannedUpdate, SameRequest
<1>4. PlannedRescind(x, h, as) => PlannedRescind(y, h, as)
  BY <1>1 DEF PlannedRescind, SameRequest
<1>5. PlannedCorrect(x, h) => PlannedCorrect(y, h)
  BY <1>1 DEF PlannedCorrect, SameRequest
<1> QED BY <1>2, <1>3, <1>4, <1>5 DEF Planned, SameRequest

LEMMA NoLocks ==
    ASSUME NEW x, NEW as
    PROVE  RowsThere(x, {}, as)
BY DEF RowsThere, LockedJobs

LEMMA BeginKeeps ==
    ASSUME SerialInv, NEW t \in Txs, NEW op, NEW n, NEW p, NEW f, NEW d \in Days,
           Begin(t, op, n, p, f, d),
           \/ op \in {"create", "update"} /\ n \in People /\ p \in Positions /\ f \in Shares
           \/ op = "rescind" /\ n \in People
           \/ op = "correct_position" /\ p \in Positions /\ f \in Capacities
    PROVE  SerialInv'
<1> DEFINE y == [op |-> op, person |-> n, position |-> p, amount |-> f, day |-> d,
                 stage |-> "lock", want |-> FirstWants(op, n, p, d), waits |-> None,
                 old |-> {}, new |-> {}]
<1>1. /\ y.op = op /\ y.person = n /\ y.position = p /\ y.amount = f /\ y.day = d
      /\ y.stage = "lock" /\ y.want = FirstWants(op, n, p, d)
  OBVIOUS
<1>2. op \in Ops /\ tx' = [tx EXCEPT ![t] = y] /\ held' = held /\ UNCHANGED vars /\ tx[t].stage = "idle"
  BY DEF Begin, Stage
<1>3. Request(y)
  BY <1>2 DEF Request
<1> HIDE DEF y
<1>4. held[t] = {} /\ held' = [held EXCEPT ![t] = {}]
  BY <1>2 DEF SerialInv, Exclusive
<1>5. RowsThere(y, {}, assignments)
  BY NoLocks
<1>6. Planned(y, {}, assignments)
  <2>1. CASE op = "create"
    BY <1>1, <2>1 DEF Planned, PlannedCreate, FirstWants, PersonWant, JobWant, SliceWant
  <2>2. CASE op = "update"
    BY <1>1, <2>2 DEF Planned, PlannedUpdate, FirstWants, JobWant
  <2>3. CASE op = "rescind"
    BY <1>1, <2>3 DEF Planned, PlannedRescind, FirstWants, JobWant
  <2>4. CASE op = "correct_position"
    BY <1>1, <2>4 DEF Planned, PlannedCorrect, FirstWants, SliceWant
  <2> QED BY <2>1, <2>2, <2>3, <2>4
<1>7. TxOK(y, {}, assignments, slices)
  BY <1>1, <1>3, <1>5, <1>6 DEF TxOK
<1> QED BY <1>1, <1>2, <1>4, <1>7, OwnStep, ZenonT(40)

LEMMA WaitKeeps ==
    ASSUME SerialInv, NEW t \in Txs, Wait(t)
    PROVE  SerialInv'
<1>1. PICK k : tx' = [tx EXCEPT ![t].waits = k]
  BY DEF Wait
<1> DEFINE x == tx[t]
           y == WaitsOn(x, k)
<1>2. x.stage = "lock" /\ held' = held /\ UNCHANGED vars
  BY DEF Wait, Asks, Stage
<1>3. tx' = [tx EXCEPT ![t] = y]
  BY <1>1 DEF WaitsOn, SerialInv
<1>4. /\ TxOK(x, held[t], assignments, slices) /\ Request(x)
      /\ \A u \in Txs : u # t => held[t] \cap held[u] = {}
      /\ held' = [held EXCEPT ![t] = held[t]]
  BY <1>2, MyTx
<1>5. Request(y) /\ SameRequest(x, y) /\ y.stage = "lock" /\ y.want = x.want
  BY <1>2, <1>4, WaitsOnIs
<1> HIDE DEF x, y
<1>6. Planned(y, held[t], assignments) /\ RowsThere(y, held[t], assignments)
  BY <1>4, <1>5, SamePlan, SameData DEF TxOK
<1>7. TxOK(y, held[t], assignments, slices)
  BY <1>5, <1>6 DEF TxOK
<1> QED BY <1>2, <1>3, <1>4, <1>5, <1>7, OwnStep

LEMMA ProgressIs ==
    ASSUME NEW t \in Txs, NEW w, tx = [u \in Txs |-> tx[u]],
           tx' = [tx EXCEPT ![t].waits = None, ![t].want = w]
    PROVE  tx' = [tx EXCEPT ![t] = Went(tx[t], w)]
BY DEF Went

LEMMA GoOnKeeps ==
    ASSUME SerialInv, NEW t \in Txs, GoOnWithout(t)
    PROVE  SerialInv'
<1> DEFINE x == tx[t]
           y == Went(x, Tail(x.want))
<1>1. /\ x.stage = "lock" /\ held' = held /\ UNCHANGED vars /\ x.op = "create"
      /\ Head(x.want).kind = "job" /\ x.want # <<>>
  BY DEF GoOnWithout, Asks, Stage
<1>2. tx' = [tx EXCEPT ![t] = y]
  <2>1. tx' = [tx EXCEPT ![t].waits = None, ![t].want = Tail(@)]
    BY DEF GoOnWithout
  <2>2. tx' = [tx EXCEPT ![t].waits = None, ![t].want = Tail(tx[t].want)]
    BY <2>1
  <2> QED BY <2>2, ProgressIs DEF SerialInv
<1>3. /\ TxOK(x, held[t], assignments, slices) /\ Request(x)
      /\ \A u \in Txs : u # t => held[t] \cap held[u] = {}
      /\ held' = [held EXCEPT ![t] = held[t]]
  BY <1>1, MyTx
<1>4. Request(y) /\ SameRequest(x, y) /\ y.stage = "lock" /\ y.want = Tail(x.want)
  BY <1>1, <1>3, WentIs
<1> HIDE DEF x, y
<1>5. RowsThere(y, held[t], assignments)
  BY <1>3, <1>4, SameData DEF TxOK
<1>6. Planned(y, held[t], assignments)
  <2>1. PlannedCreate(x, held[t]) /\ x.want # <<>>
    BY <1>1, <1>3 DEF TxOK, Planned
  <2>2. x.want = <<JobWant(x), SliceWant(x, x.position)>>
    BY <1>1, <2>1 DEF PlannedCreate, PersonWant, JobWant, SliceWant, Want
  <2>3. y.want = <<SliceWant(y, y.position)>>
    BY <1>4, <2>2 DEF SameRequest, SliceWant
  <2> QED BY <1>1, <1>4, <2>3 DEF Planned, PlannedCreate, SameRequest
<1>7. TxOK(y, held[t], assignments, slices)
  BY <1>4, <1>5, <1>6 DEF TxOK
<1> QED BY <1>1, <1>2, <1>3, <1>4, <1>7, OwnStep

LEMMA RollbackKeeps ==
    ASSUME SerialInv, NEW t \in Txs, RollbackTx(t)
    PROVE  SerialInv'
BY OwnStep DEF RollbackTx, End, Idle

LEMMA RoomIs ==
    ASSUME NEW t \in Txs, Request(tx[t])
    PROVE  HasRoom(t) => Room(tx[t], held[t], assignments, slices)
<1>1. /\ \A n : MyJobs(t, n) = LockedJobs(assignments, held[t], n)
      /\ \A p : MySlices(t, p) = LockedSlices(slices, held[t], p)
      /\ \A a, p, d : OthersIn(a, p, d) = Others(assignments, a, p, d)
  BY DEF MyJobs, MySlices, LockedJobs, LockedSlices, OthersIn, Others
<1>2. CASE tx[t].op = "create"
  BY <1>2 DEF HasRoom, Room
<1>3. CASE tx[t].op = "update"
  BY <1>1, <1>3 DEF HasRoom, Room
<1>4. CASE tx[t].op = "rescind"
  BY <1>4 DEF HasRoom, Room
<1>5. CASE tx[t].op = "correct_position"
  BY <1>1, <1>5 DEF HasRoom, Room
<1> QED BY <1>2, <1>3, <1>4, <1>5 DEF Request

LEMMA CheckKeeps ==
    ASSUME SerialInv, NEW t \in Txs, Check(t)
    PROVE  SerialInv'
<1> DEFINE x == tx[t]
           y == HasChecked(x)
<1>1. x.stage = "lock" /\ held' = held /\ UNCHANGED vars /\ x.want = <<>> /\ HasRoom(t)
  BY DEF Check, Stage
<1>2. tx' = [tx EXCEPT ![t] = y]
  BY DEF Check, HasChecked
<1>3. /\ TxOK(x, held[t], assignments, slices) /\ Request(x)
      /\ \A u \in Txs : u # t => held[t] \cap held[u] = {}
      /\ held' = [held EXCEPT ![t] = held[t]]
  BY <1>1, MyTx
<1>4. Request(y) /\ SameRequest(x, y) /\ y.stage = "checked" /\ y.want = x.want
  BY <1>3, HasCheckedIs
<1>5. Room(x, held[t], assignments, slices)
  BY <1>1, <1>3, RoomIs
<1> HIDE DEF x, y
<1>6. Planned(y, held[t], assignments)
  BY <1>1, <1>3, <1>4, SamePlan DEF TxOK
<1>7. RowsThere(y, held[t], assignments) /\ Room(y, held[t], assignments, slices)
  BY <1>3, <1>4, <1>5, SameData DEF TxOK
<1>8. TxOK(y, held[t], assignments, slices)
  BY <1>4, <1>6, <1>7 DEF TxOK
<1> QED BY <1>1, <1>2, <1>3, <1>4, <1>8, OwnStep

LEMMA RenewedIs ==
    ASSUME NEW t \in Txs, Request(tx[t])
    PROVE  /\ Replaced(t) = Mine(tx[t], held[t], assignments, slices)
           /\ Replacement(t) = Renewed(tx[t], Replaced(t))
<1>1. Replaced(t) = Mine(tx[t], held[t], assignments, slices)
  BY DEF Replaced, Mine, MyJobs, MySlices, LockedJobs, LockedSlices
<1>2. CASE tx[t].op = "create"
  <2>1. Replacement(t) = {[a EXCEPT !.to = tx[t].day - 1] : a \in Replaced(t)}
            \cup {Job(tx[t].person, tx[t].position, tx[t].amount, "active", tx[t].day, EndOfTime)}
    BY <1>2 DEF Replacement
  <2>2. Renewed(tx[t], Replaced(t)) = {EndsOn(a, tx[t].day - 1) : a \in Replaced(t)}
            \cup {Job(tx[t].person, tx[t].position, tx[t].amount, "active", tx[t].day, EndOfTime)}
    BY <1>2 DEF Renewed
  <2> QED BY <1>1, <2>1, <2>2 DEF EndsOn
<1>3. CASE tx[t].op = "update"
  <2>1. Replacement(t) = {[a EXCEPT !.to = tx[t].day - 1] : a \in Replaced(t)}
            \cup {[a EXCEPT !.position = tx[t].position, !.fte = tx[t].amount, !.from = tx[t].day] : a \in Replaced(t)}
    BY <1>3 DEF Replacement
  <2>2. Renewed(tx[t], Replaced(t)) = {EndsOn(a, tx[t].day - 1) : a \in Replaced(t)}
            \cup {MovedTo(a, tx[t].position, tx[t].amount, tx[t].day) : a \in Replaced(t)}
    BY <1>3 DEF Renewed
  <2> QED BY <1>1, <2>1, <2>2 DEF EndsOn, MovedTo
<1>4. CASE tx[t].op = "rescind"
  <2> DEFINE active == {b \in Replaced(t) : b.status = "active"}
  <2>1. Replacement(t) = {[a EXCEPT !.to = tx[t].day - 1] : a \in Replaced(t)}
            \cup {[a EXCEPT !.status = "inactive", !.from = tx[t].day] : a \in active}
    BY <1>4 DEF Replacement
  <2>2. Renewed(tx[t], Replaced(t)) = {EndsOn(a, tx[t].day - 1) : a \in Replaced(t)}
            \cup {InactiveFrom(a, tx[t].day) : a \in active}
    BY <1>4 DEF Renewed
  <2> QED BY <1>1, <2>1, <2>2 DEF EndsOn, InactiveFrom
<1>5. CASE tx[t].op = "correct_position"
  <2>1. Replacement(t) = {[s EXCEPT !.capacity = tx[t].amount] : s \in Replaced(t)}
    BY <1>5 DEF Replacement
  <2>2. Renewed(tx[t], Replaced(t)) = {[s EXCEPT !.capacity = tx[t].amount] : s \in Replaced(t)}
    BY <1>5 DEF Renewed
  <2> QED BY <1>1, <2>1, <2>2
<1> QED BY <1>1, <1>2, <1>3, <1>4, <1>5 DEF Request

LEMMA WriteKeeps ==
    ASSUME SerialInv, NEW t \in Txs, Write(t)
    PROVE  SerialInv'
<1> DEFINE x   == tx[t]
           old == Replaced(t)
           new == Replacement(t)
           y   == HasWritten(x, old, new)
<1>1. x.stage = "checked" /\ held' = held /\ UNCHANGED vars
  BY DEF Write, Stage
<1>2. tx' = [tx EXCEPT ![t] = y]
  <2>1. tx' = [tx EXCEPT ![t].stage = "written", ![t].old = old, ![t].new = new]
    BY DEF Write
  <2>2. tx = [u \in Txs |-> tx[u]]
    BY DEF SerialInv
  <2> HIDE DEF old, new
  <2>3. tx' = [tx EXCEPT ![t] = HasWritten(tx[t], old, new)]
    BY <2>1, <2>2 DEF HasWritten
  <2> QED BY <2>3
<1>3. /\ TxOK(x, held[t], assignments, slices) /\ Request(x)
      /\ \A u \in Txs : u # t => held[t] \cap held[u] = {}
      /\ held' = [held EXCEPT ![t] = held[t]]
  BY <1>1, MyTx
<1>4. /\ Request(y) /\ SameRequest(x, y) /\ y.stage = "written" /\ y.want = x.want
      /\ y.old = old /\ y.new = new
  BY <1>3, HasWrittenIs
<1>5. old = Mine(x, held[t], assignments, slices) /\ new = Renewed(x, old)
  BY <1>3, RenewedIs
<1>6. OnJob(x) => \A r \in new, s \in assignments \ old : ~Meets(r, s)
  BY DEF Write, OnJob
<1>7. ASSUME OnJob(y), NEW u \in Txs, u # t, WritesJob(u), NEW r \in new, NEW s \in tx[u].new
      PROVE  ~Meets(r, s)
  <2>1. tx[t].op # "correct_position" /\ tx[u].op # "correct_position" /\ tx[u].stage = "written"
    BY <1>4, <1>7 DEF OnJob, WritesJob, SameRequest
  <2>2. ~WriteWaitsFor(t, u)
    BY DEF Write
  <2> QED BY <1>1, <1>7, <2>1, <2>2 DEF WriteWaitsFor, Stage
<1> HIDE DEF x, old, new, y
<1>8. Planned(y, held[t], assignments)
  <2>1. x.want = <<>>
    BY <1>1, <1>3 DEF TxOK, Planned
  <2> QED BY <1>3, <1>4, <2>1, SamePlan DEF TxOK
<1>9. RowsThere(y, held[t], assignments) /\ Room(y, held[t], assignments, slices)
  BY <1>1, <1>3, <1>4, SameData DEF TxOK
<1>10. WrittenOK(y, held[t], assignments, slices)
  BY <1>4, <1>5, <1>6, SameData DEF WrittenOK
<1>11. TxOK(y, held[t], assignments, slices)
  BY <1>4, <1>8, <1>9, <1>10 DEF TxOK
<1> QED BY <1>1, <1>2, <1>3, <1>4, <1>7, <1>11, OwnStep

-----------------------------------------------------------------------------
(* A lock is taken *)

\* The rows of a person: one for a day, one that starts on a day.
LEMMA OneJob ==
    ASSUME TypeInv, NEW n \in People, NEW a \in JobsOf(assignments, n), NEW b \in JobsOf(assignments, n),
           \/ a.from = b.from
           \/ \E d \in Days : Covers(a, d) /\ Covers(b, d)
    PROVE  a = b
<1>1. Whole(JobsOf(assignments, n))
  BY DEF TypeInv, Valid
<1>2. a \in Jobs /\ b \in Jobs
  BY TypeIs DEF TypeInv, JobsOf
<1>3. a.from \in Nat /\ a.to \in Nat /\ b.from \in Nat /\ b.to \in Nat
  BY <1>2, DaysAreInts DEF Jobs
<1>4. a.from <= a.to /\ b.from <= b.to
  BY <1>1 DEF Whole
<1>5. ~(a.to < b.from) /\ ~(b.to < a.from)
  <2>1. CASE a.from = b.from
    BY <1>3, <1>4, <2>1
  <2>2. CASE \E d \in Days : Covers(a, d) /\ Covers(b, d)
    <3>1. PICK d \in Days : Covers(a, d) /\ Covers(b, d)
      BY <2>2
    <3>2. d \in Nat
      BY DaysAreInts
    <3> QED BY <1>3, <3>1, <3>2 DEF Covers
  <2> QED BY <2>1, <2>2
<1> QED BY <1>1, <1>5 DEF Whole

LEMMA LocksGrow ==
    ASSUME NEW as, NEW h, NEW k, NEW n
    PROVE  LockedJobs(as, h, n) \subseteq LockedJobs(as, h \cup {k}, n)
BY DEF LockedJobs

LEMMA NotAJob ==
    ASSUME NEW x, NEW h, NEW as, RowsThere(x, h, as), NEW k, k[1] # "job"
    PROVE  RowsThere(x, h \cup {k}, as)
<1>1. \A n, d : <<"job", n, d>> \in h \cup {k} => <<"job", n, d>> \in h
  OBVIOUS
<1>2. LockedJobs(as, h \cup {k}, x.person) = LockedJobs(as, h, x.person)
  BY <1>1 DEF LockedJobs
<1> QED BY <1>1, <1>2 DEF RowsThere

LEMMA PersonTaken ==
    ASSUME NEW x, NEW k \in KeysOf(PersonWant(x))
    PROVE  k[1] # "job"
BY DEF KeysOf, PersonWant, Want

LEMMA SliceTaken ==
    ASSUME PlainTables, NEW x, NEW p, NEW k \in KeysOf(SliceWant(x, p))
    PROVE  k = SliceKey(p) /\ k[1] # "job"
<1> DEFINE w == SliceWant(x, p)
<1>1. w.kind = "slice" /\ w.of = p
  BY DEF SliceWant, Want
<1> HIDE DEF w
<1>2. PICK r \in Selected(w) : k = <<"slice", p, r.from>>
  BY <1>1 DEF KeysOf, w
<1>3. r \in slices
  BY <1>1 DEF Selected, SlicesOf
<1> QED BY <1>2, <1>3 DEF PlainTables, SliceKey

LEMMA JobTaken ==
    ASSUME TypeInv, NEW x, OnJob(x), x.person \in People, x.day \in Days, NEW h, RowsThere(x, h, assignments),
           NEW k \in KeysOf(JobWant(x)), NEW rows, rows = {r \in Selected(JobWant(x)) : r.from = k[3]},
           \A a \in rows : a.from < x.day /\ (x.op = "create" => a.status = "inactive")
    PROVE  /\ RowsThere(x, h \cup {k}, assignments)
           /\ (CHOOSE a \in rows : TRUE) \in LockedJobs(assignments, h \cup {k}, x.person)
<1> DEFINE w == JobWant(x)
           g == h \cup {k}
<1>1. w.kind = "job" /\ w.of = x.person /\ w.day = x.day
  BY DEF JobWant, Want
<1>2. Selected(w) = {a \in JobsOf(assignments, x.person) : Covers(a, x.day)}
  <2> HIDE DEF w
  <2> QED BY <1>1 DEF Selected
<1>3. PICK a \in Selected(w) : k = <<"job", x.person, a.from>>
  <2> HIDE DEF w
  <2>1. k \in KeysOf(w)
    BY DEF w
  <2> QED BY <1>1, <2>1 DEF KeysOf
<1>4. a \in JobsOf(assignments, x.person) /\ Covers(a, x.day)
  BY <1>2
<1>5. rows = {a}
  <2>1. rows = {r \in Selected(w) : r.from = a.from}
    BY <1>3
  <2>2. \A r \in Selected(w) : r.from = a.from => r = a
    BY <1>2, <1>4, OneJob
  <2> HIDE DEF w
  <2> QED BY <2>1, <2>2
<1>6. a \in LockedJobs(assignments, g, x.person)
  BY <1>3, <1>4 DEF LockedJobs
<1>7. \A b \in LockedJobs(assignments, g, x.person) : b = a \/ b \in LockedJobs(assignments, h, x.person)
  <2> SUFFICES ASSUME NEW b \in LockedJobs(assignments, g, x.person), <<"job", x.person, b.from>> = k
               PROVE  b = a
    BY DEF LockedJobs
  <2>1. b.from = a.from /\ b \in JobsOf(assignments, x.person)
    BY <1>3 DEF LockedJobs
  <2> QED BY <1>4, <2>1, OneJob
<1>8. RowsThere(x, g, assignments)
  <2>1. ASSUME NEW n \in People, NEW d \in Days, <<"job", n, d>> \in g
        PROVE  n = x.person /\ OnJob(x) /\ \E b \in JobsOf(assignments, n) : b.from = d
    <3>1. CASE <<"job", n, d>> = k
      BY <1>3, <1>4, <3>1
    <3>2. CASE <<"job", n, d>> \in h
      BY <3>2 DEF RowsThere
    <3> QED BY <2>1, <3>1, <3>2
  <2>2. ASSUME NEW b \in LockedJobs(assignments, g, x.person)
        PROVE  Covers(b, x.day) /\ b.from < x.day /\ (x.op = "create" => b.status = "inactive")
    <3>1. CASE b = a
      BY <1>4, <1>5, <3>1
    <3>2. CASE b \in LockedJobs(assignments, h, x.person)
      BY <3>2 DEF RowsThere
    <3> QED BY <1>7, <3>1, <3>2
  <2> HIDE DEF g
  <2> QED BY <2>1, <2>2 DEF RowsThere
<1>9. (CHOOSE b \in rows : TRUE) = a
  BY <1>5
<1> QED BY <1>6, <1>8, <1>9

\* The wants of a transaction do not change with its progress.
LEMMA SameWants ==
    ASSUME NEW x, NEW y, SameRequest(x, y)
    PROVE  /\ y.op = x.op /\ y.position = x.position /\ y.person = x.person
           /\ JobWant(y) = JobWant(x) /\ \A p : SliceWant(y, p) = SliceWant(x, p)
BY DEF SameRequest, JobWant, SliceWant

LEMMA WantKinds ==
    ASSUME NEW x, NEW p
    PROVE  /\ PersonWant(x).kind = "person" /\ JobWant(x).kind = "job" /\ SliceWant(x, p).kind = "slice"
BY DEF PersonWant, JobWant, SliceWant, Want

\* What a transaction goes on with when it has the lock k.
GoesOnWith(x, k) ==
    LET w    == Head(x.want)
        rows == {r \in Selected(w) : r.from = k[3]}
    IN  IF w.kind = "job" /\ x.op = "update"
        THEN SliceWants((CHOOSE a \in rows : TRUE).position, x.position, x.day) ELSE Tail(x.want)

LEMMA CreateTakes ==
    ASSUME SerialInv, NEW x, Request(x), NEW h, x.op = "create", PlannedCreate(x, h), RowsThere(x, h, assignments),
           x.want # <<>>, NEW k \in KeysOf(Head(x.want)),
           Head(x.want).kind = "job" =>
               \A a \in {r \in Selected(Head(x.want)) : r.from = k[3]} : a.from < x.day /\ a.status = "inactive",
           NEW y, SameRequest(x, y), y.want = GoesOnWith(x, k)
    PROVE  PlannedCreate(y, h \cup {k}) /\ RowsThere(x, h \cup {k}, assignments)
<1>1. y.want = Tail(x.want)
  BY DEF GoesOnWith
<1>2. CASE x.want = <<PersonWant(x), JobWant(x), SliceWant(x, x.position)>>
  <2>1. Head(x.want) = PersonWant(x) /\ y.want = <<JobWant(x), SliceWant(x, x.position)>>
    BY <1>1, <1>2
  <2>2. PlannedCreate(y, h \cup {k})
    BY <2>1, SameWants DEF PlannedCreate
  <2> QED BY <2>1, <2>2, PersonTaken, NotAJob
<1>3. CASE x.want = <<JobWant(x), SliceWant(x, x.position)>>
  <2>1. Head(x.want) = JobWant(x) /\ y.want = <<SliceWant(x, x.position)>>
    BY <1>1, <1>3
  <2>2. PlannedCreate(y, h \cup {k})
    BY <2>1, SameWants DEF PlannedCreate
  <2> DEFINE rows == {r \in Selected(JobWant(x)) : r.from = k[3]}
  <2>3. /\ rows = {r \in Selected(JobWant(x)) : r.from = k[3]}
        /\ \A a \in rows : a.from < x.day /\ (x.op = "create" => a.status = "inactive")
    BY <2>1, WantKinds
  <2>4. OnJob(x) /\ x.person \in People /\ x.day \in Days /\ TypeInv
    BY DEF OnJob, Request, SerialInv
  <2>5. k \in KeysOf(JobWant(x))
    BY <2>1
  <2> HIDE DEF rows
  <2>6. RowsThere(x, h \cup {k}, assignments)
    BY <2>3, <2>4, <2>5, JobTaken
  <2> QED BY <2>2, <2>6
<1>4. CASE x.want = <<SliceWant(x, x.position)>>
  <2>1. Head(x.want) = SliceWant(x, x.position) /\ y.want = <<>>
    BY <1>1, <1>4
  <2>2. k = SliceKey(x.position) /\ k[1] # "job"
    BY <2>1, SliceTaken DEF SerialInv
  <2>3. PlannedCreate(y, h \cup {k})
    BY <2>1, <2>2, SameWants DEF PlannedCreate
  <2> QED BY <2>2, <2>3, NotAJob
<1> QED BY <1>2, <1>3, <1>4 DEF PlannedCreate

LEMMA RescindTakes ==
    ASSUME SerialInv, NEW x, Request(x), NEW h, x.op = "rescind",
           PlannedRescind(x, h, assignments), RowsThere(x, h, assignments),
           x.want # <<>>, NEW k \in KeysOf(Head(x.want)),
           Head(x.want).kind = "job" =>
               \A a \in {r \in Selected(Head(x.want)) : r.from = k[3]} : a.from < x.day,
           NEW y, SameRequest(x, y), y.want = GoesOnWith(x, k)
    PROVE  PlannedRescind(y, h \cup {k}, assignments) /\ RowsThere(x, h \cup {k}, assignments)
<1>1. y.want = Tail(x.want) /\ x.want = <<JobWant(x)>>
  BY DEF GoesOnWith, PlannedRescind
<1>2. Head(x.want) = JobWant(x) /\ y.want = <<>>
  BY <1>1
<1> DEFINE rows == {r \in Selected(JobWant(x)) : r.from = k[3]}
<1>3. /\ rows = {r \in Selected(JobWant(x)) : r.from = k[3]}
      /\ \A a \in rows : a.from < x.day /\ (x.op = "create" => a.status = "inactive")
  BY <1>2, WantKinds
<1>4. OnJob(x) /\ x.person \in People /\ x.day \in Days /\ TypeInv
  BY DEF OnJob, Request, SerialInv
<1>5. k \in KeysOf(JobWant(x))
  BY <1>2
<1> HIDE DEF rows
<1>6. /\ RowsThere(x, h \cup {k}, assignments)
      /\ (CHOOSE a \in rows : TRUE) \in LockedJobs(assignments, h \cup {k}, x.person)
  BY <1>3, <1>4, <1>5, JobTaken
<1>7. PlannedRescind(y, h \cup {k}, assignments)
  BY <1>2, <1>6, SameWants DEF PlannedRescind
<1> QED BY <1>6, <1>7

LEMMA CorrectTakes ==
    ASSUME SerialInv, NEW x, NEW h, x.op = "correct_position",
           PlannedCorrect(x, h), RowsThere(x, h, assignments),
           x.want # <<>>, NEW k \in KeysOf(Head(x.want)),
           NEW y, SameRequest(x, y), y.want = GoesOnWith(x, k)
    PROVE  PlannedCorrect(y, h \cup {k}) /\ RowsThere(x, h \cup {k}, assignments)
<1>1. y.want = Tail(x.want) /\ x.want = <<SliceWant(x, x.position)>>
  BY DEF GoesOnWith, PlannedCorrect
<1>2. Head(x.want) = SliceWant(x, x.position) /\ y.want = <<>>
  BY <1>1
<1>3. k = SliceKey(x.position) /\ k[1] # "job"
  BY <1>2, SliceTaken DEF SerialInv
<1>4. PlannedCorrect(y, h \cup {k})
  BY <1>2, <1>3, SameWants DEF PlannedCorrect
<1> QED BY <1>3, <1>4, NotAJob

LEMMA UpdateTakes ==
    ASSUME SerialInv, NEW x, Request(x), NEW h, x.op = "update",
           PlannedUpdate(x, h, assignments), RowsThere(x, h, assignments),
           x.want # <<>>, NEW k \in KeysOf(Head(x.want)),
           Head(x.want).kind = "job" =>
               \A a \in {r \in Selected(Head(x.want)) : r.from = k[3]} : a.from < x.day,
           NEW y, SameRequest(x, y), y.want = GoesOnWith(x, k)
    PROVE  PlannedUpdate(y, h \cup {k}, assignments) /\ RowsThere(x, h \cup {k}, assignments)
<1>1. CASE x.want = <<JobWant(x)>>
  <2>1. Head(x.want) = JobWant(x)
    BY <1>1
  <2> DEFINE rows == {r \in Selected(JobWant(x)) : r.from = k[3]}
  <2>2. /\ rows = {r \in Selected(JobWant(x)) : r.from = k[3]}
        /\ \A a \in rows : a.from < x.day /\ (x.op = "create" => a.status = "inactive")
    BY <2>1, WantKinds
  <2>3. OnJob(x) /\ x.person \in People /\ x.day \in Days /\ TypeInv
    BY DEF OnJob, Request, SerialInv
  <2>4. k \in KeysOf(JobWant(x))
    BY <2>1
  <2>5. /\ RowsThere(x, h \cup {k}, assignments)
        /\ (CHOOSE a \in rows : TRUE) \in LockedJobs(assignments, h \cup {k}, x.person)
    <3> HIDE DEF rows
    <3> QED BY <2>2, <2>3, <2>4, JobTaken
  <2> DEFINE a == CHOOSE b \in rows : TRUE
  <2>6. a \in LockedJobs(assignments, h \cup {k}, x.person)
    BY <2>5
  <2>7. Head(x.want).kind = "job"
    BY <2>1, WantKinds
  <2>8. y.want = SliceWants(a.position, x.position, x.day)
    BY <2>1, <2>7 DEF GoesOnWith
  <2> HIDE DEF a
  <2>9. \/ (y.want = <<SliceWant(x, x.position)>> /\ a.position = x.position)
         \/ y.want = <<SliceWant(x, a.position), SliceWant(x, x.position)>>
         \/ y.want = <<SliceWant(x, x.position), SliceWant(x, a.position)>>
    BY <2>8 DEF SliceWants, SliceWant
  <2>10. PlannedUpdate(y, h \cup {k}, assignments)
    BY <2>6, <2>9, SameWants DEF PlannedUpdate
  <2> QED BY <2>5, <2>10
<1>2. CASE x.want # <<JobWant(x)>>
  <2> DEFINE g == h \cup {k}
  <2>1. PICK a \in LockedJobs(assignments, h, x.person) :
        \/ x.want \in {<<SliceWant(x, x.position), SliceWant(x, a.position)>>,
                       <<SliceWant(x, a.position), SliceWant(x, x.position)>>}
        \/ x.want = <<SliceWant(x, x.position)>> /\ (a.position = x.position \/ SliceKey(a.position) \in h)
        \/ x.want = <<SliceWant(x, a.position)>> /\ SliceKey(x.position) \in h
        \/ x.want = <<>> /\ SliceKey(x.position) \in h /\ SliceKey(a.position) \in h
    BY <1>2 DEF PlannedUpdate
  <2>2. a \in LockedJobs(assignments, g, x.person)
    BY <2>1, LocksGrow
  <2>3. Head(x.want).kind = "slice" => y.want = Tail(x.want)
    BY DEF GoesOnWith
  <2>4. CASE x.want = <<SliceWant(x, x.position), SliceWant(x, a.position)>>
    <3>1. Head(x.want) = SliceWant(x, x.position) /\ y.want = <<SliceWant(x, a.position)>>
      BY <2>3, <2>4, WantKinds
    <3>2. k = SliceKey(x.position) /\ k[1] # "job"
      BY <3>1, SliceTaken DEF SerialInv
    <3>3. PlannedUpdate(y, g, assignments)
      BY <2>2, <3>1, <3>2, SameWants DEF PlannedUpdate
    <3> QED BY <3>2, <3>3, NotAJob
  <2>5. CASE x.want = <<SliceWant(x, a.position), SliceWant(x, x.position)>>
    <3>1. Head(x.want) = SliceWant(x, a.position) /\ y.want = <<SliceWant(x, x.position)>>
      BY <2>3, <2>5, WantKinds
    <3>2. k = SliceKey(a.position) /\ k[1] # "job"
      BY <3>1, SliceTaken DEF SerialInv
    <3>3. PlannedUpdate(y, g, assignments)
      BY <2>2, <3>1, <3>2, SameWants DEF PlannedUpdate
    <3> QED BY <3>2, <3>3, NotAJob
  <2>6. CASE x.want = <<SliceWant(x, x.position)>> /\ (a.position = x.position \/ SliceKey(a.position) \in h)
    <3>1. Head(x.want) = SliceWant(x, x.position) /\ y.want = <<>>
      BY <2>3, <2>6, WantKinds
    <3>2. k = SliceKey(x.position) /\ k[1] # "job"
      BY <3>1, SliceTaken DEF SerialInv
    <3>3. SliceKey(x.position) \in g /\ SliceKey(a.position) \in g
      BY <2>6, <3>2
    <3>4. PlannedUpdate(y, g, assignments)
      BY <2>2, <3>1, <3>3, SameWants DEF PlannedUpdate
    <3> QED BY <3>2, <3>4, NotAJob
  <2>7. CASE x.want = <<SliceWant(x, a.position)>> /\ SliceKey(x.position) \in h
    <3>1. Head(x.want) = SliceWant(x, a.position) /\ y.want = <<>>
      BY <2>3, <2>7, WantKinds
    <3>2. k = SliceKey(a.position) /\ k[1] # "job"
      BY <3>1, SliceTaken DEF SerialInv
    <3>3. SliceKey(x.position) \in g /\ SliceKey(a.position) \in g
      BY <2>7, <3>2
    <3>4. PlannedUpdate(y, g, assignments)
      BY <2>2, <3>1, <3>3, SameWants DEF PlannedUpdate
    <3> QED BY <3>2, <3>4, NotAJob
  <2> QED BY <2>1, <2>4, <2>5, <2>6, <2>7
<1> QED BY <1>1, <1>2

LEMMA TakeKeeps ==
    ASSUME SerialInv, NEW t \in Txs, Asks(t), NEW k \in KeysOf(Head(tx[t].want)), Take(t, k)
    PROVE  SerialInv'
<1> DEFINE x == tx[t]
           h == held[t] \cup {k}
           y == Went(x, GoesOnWith(x, k))
           rows == {r \in Selected(Head(x.want)) : r.from = k[3]}
<1>1. x.stage = "lock" /\ x.want # <<>> /\ UNCHANGED vars
  BY DEF Asks, Stage, Take
<1>2. tx' = [tx EXCEPT ![t] = y] /\ held' = [held EXCEPT ![t] = h]
  <2>1. tx' = [tx EXCEPT ![t].waits = None, ![t].want = GoesOnWith(tx[t], k)]
    BY DEF Take, GoesOnWith
  <2>2. tx = [u \in Txs |-> tx[u]]
    BY DEF SerialInv
  <2>3. tx' = [tx EXCEPT ![t] = Went(tx[t], GoesOnWith(tx[t], k))]
    BY <2>1, <2>2 DEF Went
  <2>4. held' = [held EXCEPT ![t] = h]
    BY DEF Take
  <2> QED BY <2>3, <2>4
<1>3. /\ TxOK(x, held[t], assignments, slices) /\ Request(x)
      /\ \A u \in Txs : u # t => held[t] \cap held[u] = {}
  BY <1>1, MyTx
<1>4. Request(y) /\ SameRequest(x, y) /\ y.stage = "lock" /\ y.want = GoesOnWith(x, k)
  BY <1>1, <1>3, WentIs
<1>5. \A u \in Txs : u # t => h \cap held[u] = {}
  BY <1>3 DEF Take, Holders
<1>6. Head(x.want).kind = "job" => \A a \in rows : a.from < x.day /\ (x.op = "create" => a.status = "inactive")
  BY DEF Take, MayUse
<1>7. RowsThere(x, held[t], assignments) /\ Planned(x, held[t], assignments)
  BY <1>3 DEF TxOK
<1>8. Planned(y, h, assignments) /\ RowsThere(x, h, assignments)
  <2> DEFINE g == held[t]
  <2> HIDE DEF x, y, g
  <2>0. y.op = x.op /\ k \in KeysOf(Head(x.want))
    BY <1>4 DEF SameRequest, x
  <2>1. CASE x.op = "create"
    <3>1. PlannedCreate(x, g)
      BY <1>7, <2>1 DEF Planned, g
    <3>2. PlannedCreate(y, g \cup {k}) /\ RowsThere(x, g \cup {k}, assignments)
      BY <1>1, <1>3, <1>4, <1>6, <1>7, <2>0, <2>1, <3>1, CreateTakes DEF g
    <3> QED BY <1>4, <2>0, <2>1, <3>2 DEF Planned, g
  <2>2. CASE x.op = "update"
    <3>1. PlannedUpdate(x, g, assignments)
      BY <1>7, <2>2 DEF Planned, g
    <3>2. PlannedUpdate(y, g \cup {k}, assignments) /\ RowsThere(x, g \cup {k}, assignments)
      BY <1>1, <1>3, <1>4, <1>6, <1>7, <2>0, <2>2, <3>1, UpdateTakes DEF g
    <3> QED BY <1>4, <2>0, <2>2, <3>2 DEF Planned, g
  <2>3. CASE x.op = "rescind"
    <3>1. PlannedRescind(x, g, assignments)
      BY <1>7, <2>3 DEF Planned, g
    <3>2. PlannedRescind(y, g \cup {k}, assignments) /\ RowsThere(x, g \cup {k}, assignments)
      BY <1>1, <1>3, <1>4, <1>6, <1>7, <2>0, <2>3, <3>1, RescindTakes DEF g
    <3> QED BY <1>4, <2>0, <2>3, <3>2 DEF Planned, g
  <2>4. CASE x.op = "correct_position"
    <3>1. PlannedCorrect(x, g)
      BY <1>7, <2>4 DEF Planned, g
    <3>2. PlannedCorrect(y, g \cup {k}) /\ RowsThere(x, g \cup {k}, assignments)
      BY <1>1, <1>4, <1>7, <2>0, <2>4, <3>1, CorrectTakes DEF g
    <3> QED BY <1>4, <2>0, <2>4, <3>2 DEF Planned, g
  <2> QED BY <1>3, <2>1, <2>2, <2>3, <2>4 DEF Request
<1> HIDE DEF x, y, h
<1>9. RowsThere(y, h, assignments)
  BY <1>4, <1>8, SameData
<1>10. TxOK(y, h, assignments, slices)
  BY <1>4, <1>8, <1>9 DEF TxOK
<1> QED BY <1>1, <1>2, <1>4, <1>5, <1>10, OwnStep

-----------------------------------------------------------------------------
(* A commit is a step of OrgStaffing *)

\* Somebody's rows as a transaction x with the locks h is going to write them.
LEMMA NewRows ==
    ASSUME TypeInv, PlainTables, NEW x, Request(x), OnJob(x), NEW h, RowsThere(x, h, assignments),
           NEW mine, mine = LockedJobs(assignments, h, x.person)
    PROVE  \A r \in Renewed(x, mine) :
               /\ r \in Jobs /\ r.person = x.person /\ r.position \in Positions /\ r.from <= r.to
               /\ x.op = "create" => r.status = "inactive" \/ r.position = x.position
               /\ x.op = "update" => r.position = x.position \/ \E a \in mine : r.position = a.position
<1> DEFINE Good(r) ==
               /\ r \in Jobs /\ r.person = x.person /\ r.position \in Positions /\ r.from <= r.to
               /\ x.op = "create" => r.status = "inactive" \/ r.position = x.position
               /\ x.op = "update" => r.position = x.position \/ \E a \in mine : r.position = a.position
<1>0. x.day \in Days /\ x.day \in Nat
  BY DaysAreInts DEF Request
<1>1. ASSUME NEW a \in mine
      PROVE  /\ a \in Jobs /\ a.person = x.person /\ a.position \in Positions
             /\ a.from < x.day /\ x.day <= a.to /\ (x.op = "create" => a.status = "inactive")
             /\ x.day - 1 \in Days /\ a.from \in Nat
  <2>1. a \in assignments /\ a.person = x.person /\ Covers(a, x.day) /\ a.from < x.day
        /\ (x.op = "create" => a.status = "inactive")
    BY DEF LockedJobs, JobsOf, RowsThere
  <2>2. a \in Jobs
    BY <2>1, TypeIs DEF TypeInv
  <2>3. a.from \in Days /\ a.from \in Nat
    BY <2>2, DaysAreInts DEF Jobs
  <2> QED BY <1>0, <2>1, <2>2, <2>3, DayBefore DEF Covers, PlainTables
<1>2. ASSUME NEW a \in mine PROVE Good(EndsOn(a, x.day - 1))
  <2>1. /\ EndsOn(a, x.day - 1) \in Jobs
        /\ EndsOn(a, x.day - 1).person = a.person /\ EndsOn(a, x.day - 1).position = a.position
        /\ EndsOn(a, x.day - 1).status = a.status
        /\ EndsOn(a, x.day - 1).from = a.from /\ EndsOn(a, x.day - 1).to = x.day - 1
    BY <1>1, JobEndsOn
  <2>2. a.from <= x.day - 1
    BY <1>0, <1>1
  <2> QED BY <1>1, <2>1, <2>2
<1>3. CASE x.op = "create"
  <2> DEFINE new == Job(x.person, x.position, x.amount, "active", x.day, EndOfTime)
  <2>1. Good(new)
    <3>1. x.person \in People /\ x.position \in Positions /\ x.amount \in Shares
      BY <1>3 DEF Request
    <3>2. x.day <= EndOfTime
      BY <1>0, StaffingAssumption DEF Days
    <3>3. /\ new.person = x.person /\ new.position = x.position /\ new.from = x.day /\ new.to = EndOfTime
      BY DEF Job
    <3>4. x.amount \in Nat \ {0} /\ EndOfTime \in Days /\ x.position \in AllPositions
      <4>1. x.amount \in Nat \ {0}
        BY <3>1, StaffingAssumption
      <4>2. EndOfTime \in Days
        BY StaffingAssumption DEF Days
      <4> QED BY <3>1, <4>1, <4>2 DEF AllPositions
    <3>5. new \in Jobs
      BY <1>0, <3>1, <3>4 DEF Job, Jobs
    <3> HIDE DEF new
    <3> QED BY <1>3, <3>1, <3>2, <3>3, <3>5
  <2>2. Renewed(x, mine) = {EndsOn(a, x.day - 1) : a \in mine} \cup {new}
    BY <1>3 DEF Renewed
  <2> HIDE DEF Good, new
  <2>3. \A r \in Renewed(x, mine) : Good(r)
    BY <1>2, <2>1, <2>2
  <2> QED BY <2>3 DEF Good
<1>4. CASE x.op = "update"
  <2>1. ASSUME NEW a \in mine PROVE Good(MovedTo(a, x.position, x.amount, x.day))
    <3>1. x.position \in Positions /\ x.position \in AllPositions /\ x.amount \in Nat \ {0}
      BY <1>4, StaffingAssumption DEF Request, AllPositions
    <3>2. /\ MovedTo(a, x.position, x.amount, x.day) \in Jobs
          /\ MovedTo(a, x.position, x.amount, x.day).position = x.position
          /\ MovedTo(a, x.position, x.amount, x.day).person = a.person
          /\ MovedTo(a, x.position, x.amount, x.day).from = x.day
          /\ MovedTo(a, x.position, x.amount, x.day).to = a.to
      BY <1>0, <1>1, <3>1, JobMovedTo
    <3> QED BY <1>1, <1>4, <3>1, <3>2
  <2>2. Renewed(x, mine) = {EndsOn(a, x.day - 1) : a \in mine}
                               \cup {MovedTo(a, x.position, x.amount, x.day) : a \in mine}
    BY <1>4 DEF Renewed
  <2> HIDE DEF Good
  <2>3. \A r \in Renewed(x, mine) : Good(r)
    BY <1>2, <2>1, <2>2
  <2> QED BY <2>3 DEF Good
<1>5. CASE x.op = "rescind"
  <2>1. ASSUME NEW a \in mine PROVE Good(InactiveFrom(a, x.day))
    <3>1. /\ InactiveFrom(a, x.day) \in Jobs
          /\ InactiveFrom(a, x.day).person = a.person /\ InactiveFrom(a, x.day).position = a.position
          /\ InactiveFrom(a, x.day).from = x.day /\ InactiveFrom(a, x.day).to = a.to
      BY <1>0, <1>1, JobInactiveFrom
    <3> QED BY <1>1, <1>5, <3>1
  <2>2. Renewed(x, mine) = {EndsOn(a, x.day - 1) : a \in mine}
                               \cup {InactiveFrom(a, x.day) : a \in {b \in mine : b.status = "active"}}
    BY <1>5 DEF Renewed
  <2> HIDE DEF Good
  <2>3. \A r \in Renewed(x, mine) : Good(r)
    BY <1>2, <2>1, <2>2
  <2> QED BY <2>3 DEF Good
<1> QED BY <1>3, <1>4, <1>5 DEF Request, OnJob

\* The state of a transaction that commits, and what it does to the tables.
LEMMA CommitMeans ==
    ASSUME SerialInv, NEW t \in Txs, CommitTx(t)
    PROVE  /\ TxOK(tx[t], held[t], assignments, slices) /\ Request(tx[t])
           /\ RowsThere(tx[t], held[t], assignments)
           /\ Room(tx[t], held[t], assignments, slices) /\ WrittenOK(tx[t], held[t], assignments, slices)
           /\ tx[t].want = <<>> /\ Planned(tx[t], held[t], assignments)
           /\ tx[t].stage = "written" /\ patched' = patched
           /\ tx' = [tx EXCEPT ![t] = Idle] /\ held' = [held EXCEPT ![t] = {}]
           /\ OnJob(tx[t]) =>
                  /\ assignments' = (assignments \ tx[t].old) \cup tx[t].new /\ slices' = slices
                  /\ Whole(JobsOf(assignments', tx[t].person))
           /\ ~OnJob(tx[t]) => slices' = (slices \ tx[t].old) \cup tx[t].new /\ assignments' = assignments
<1>1. tx[t].stage = "written"
  BY DEF CommitTx, Stage
<1>2. TxOK(tx[t], held[t], assignments, slices) /\ Request(tx[t])
  BY <1>1, MyTx
<1>3. /\ patched' = patched
      /\ tx' = [tx EXCEPT ![t] = Idle] /\ held' = [held EXCEPT ![t] = {}]
      /\ OnJob(tx[t]) =>
             /\ assignments' = (assignments \ tx[t].old) \cup tx[t].new /\ slices' = slices
             /\ Whole(JobsOf(assignments', tx[t].person))
      /\ ~OnJob(tx[t]) => slices' = (slices \ tx[t].old) \cup tx[t].new /\ assignments' = assignments
  BY DEF CommitTx, Checked, End, After, OnJob
<1> QED BY <1>1, <1>2, <1>3 DEF TxOK, Planned

LEMMA CommitJobsValid ==
    ASSUME SerialInv, NEW t \in Txs, CommitTx(t), OnJob(tx[t])
    PROVE  Valid(assignments', slices') /\ tx[t].old = LockedJobs(assignments, held[t], tx[t].person)
           /\ tx[t].new = Renewed(tx[t], tx[t].old)
<1> DEFINE x == tx[t]
<1>1. /\ Request(x) /\ RowsThere(x, held[t], assignments) /\ WrittenOK(x, held[t], assignments, slices)
      /\ assignments' = (assignments \ x.old) \cup x.new /\ slices' = slices
      /\ Whole(JobsOf(assignments', x.person))
  BY CommitMeans
<1>2. x.old = LockedJobs(assignments, held[t], x.person) /\ x.new = Renewed(x, x.old)
  BY <1>1 DEF WrittenOK, Mine, OnJob
<1>3. TypeInv /\ PlainTables
  BY DEF SerialInv
<1>4. \A r \in x.new : r.person = x.person
  BY <1>1, <1>2, <1>3, NewRows
<1>5. \A r \in x.old : r.person = x.person
  BY <1>2 DEF LockedJobs, JobsOf
<1> HIDE DEF x
<1>6. ASSUME NEW n \in People PROVE Whole(JobsOf(assignments', n))
  <2>1. CASE n = x.person
    BY <1>1, <2>1
  <2>2. CASE n # x.person
    <3>1. JobsOf(assignments', n) = JobsOf(assignments, n)
      BY <1>1, <1>4, <1>5, <2>2 DEF JobsOf
    <3> QED BY <1>3, <3>1 DEF TypeInv, Valid
  <2> QED BY <2>1, <2>2
<1> QED BY <1>1, <1>2, <1>3, <1>6 DEF TypeInv, Valid, x

LEMMA OpenAlways ==
    ASSUME PlainTables, NEW p \in Positions, NEW d \in Days
    PROVE  Open(slices, p, d)
<1>1. PICK s \in SlicesOf(slices, p) : TRUE
  BY DEF PlainTables
<1>2. s.from = 0 /\ s.to = EndOfTime
  BY DEF PlainTables, SlicesOf
<1>3. Covers(s, d)
  BY <1>2, StaffingAssumption DEF Covers, Days
<1> QED BY <1>3 DEF Open

LEMMA RoomAtSlice ==
    ASSUME TypeInv, NEW p \in Positions, NEW d \in Days, NEW s \in SlicesOf(slices, p), Covers(s, d)
    PROVE  Open(slices, p, d) /\ SliceAt(slices, p, d) = s
<1>1. p \in AllPositions
  BY DEF AllPositions
<1>2. slices \subseteq SliceRows /\ Whole(SlicesOf(slices, p))
  BY <1>1, TypeIs DEF TypeInv, Valid
<1> QED BY <1>2, OneCovers

LEMMA CreateCommits ==
    ASSUME ~InDateOrder, SerialInv, NEW t \in Txs, CommitTx(t), tx[t].op = "create"
    PROVE  CreateAssignment(tx[t].person, tx[t].position, tx[t].amount, tx[t].day)
<1> DEFINE x    == tx[t]
           n    == x.person
           p    == x.position
           f    == x.amount
           d    == x.day
           mine == LockedJobs(assignments, held[t], n)
           new  == Job(n, p, f, "active", d, EndOfTime)
           C    == {a \in JobsOf(assignments, n) : Covers(a, d)}
<1>1. /\ Request(x) /\ RowsThere(x, held[t], assignments) /\ Room(x, held[t], assignments, slices)
      /\ WrittenOK(x, held[t], assignments, slices) /\ patched' = patched
  BY CommitMeans
<1>2. OnJob(x)
  BY DEF OnJob
<1>3. /\ Valid(assignments', slices') /\ x.old = mine /\ x.new = Renewed(x, mine)
      /\ assignments' = (assignments \ x.old) \cup x.new /\ slices' = slices
  BY <1>2, CommitJobsValid, CommitMeans
<1>4. x.new = {EndsOn(a, d - 1) : a \in mine} \cup {new}
  BY <1>3 DEF Renewed
<1>5. x.op \in Ops /\ n \in People /\ p \in Positions /\ f \in Shares /\ d \in Days /\ d \in Nat
  BY <1>1, DaysAreInts DEF Request
<1>6. mine = C
  <2>1. mine \subseteq C
    BY <1>1, <1>2 DEF LockedJobs, RowsThere
  <2>2. ASSUME NEW c \in C, c \notin mine PROVE FALSE
    <3>1. c \in assignments \ x.old /\ c.person = n /\ Covers(c, d)
      BY <1>3, <2>2 DEF JobsOf
    <3>2. new \in x.new /\ new.person = n /\ new.from = d /\ new.to = EndOfTime
      BY <1>4 DEF Job
    <3>3. ~Meets(new, c)
      BY <1>1, <1>2, <3>1, <3>2 DEF WrittenOK
    <3>4. c \in Jobs
      BY <3>1, TypeIs DEF SerialInv, TypeInv
    <3>5. c.from <= EndOfTime
      BY <3>4, StaffingAssumption DEF Jobs, Days
    <3> HIDE DEF new
    <3> QED BY <3>1, <3>2, <3>3, <3>5 DEF Meets, Covers
  <2> QED BY <2>1, <2>2
<1>7. MayStart(n, d)
  BY <1>1, <1>2, <1>6 DEF MayStart, RowsThere
<1>8. Started(n, p, f, d) = (assignments \ C) \cup {EndsOn(a, d - 1) : a \in C} \cup {new}
  BY DEF Started, EndsOn
<1>9. Fits(assignments, slices, p, f, d)
  <2>1. PICK s \in SlicesOf(slices, p) : Covers(s, d) /\ Occupied(assignments, p, d) + f <= s.capacity
    BY <1>1 DEF Room
  <2>2. Open(slices, p, d) /\ SliceAt(slices, p, d) = s
    BY <1>5, <2>1, RoomAtSlice DEF SerialInv
  <2> QED BY <2>1, <2>2 DEF Fits
<1> HIDE DEF mine, new, C
<1>10. assignments' = Started(n, p, f, d)
  BY <1>3, <1>4, <1>6, <1>8
<1>11. Commit(Started(n, p, f, d), slices)
  BY <1>3, <1>10 DEF Commit
<1> QED BY <1>1, <1>5, <1>7, <1>9, <1>11 DEF CreateAssignment, InOrder, Checked

LEMMA UpdateCommits ==
    ASSUME ~InDateOrder, SerialInv, NEW t \in Txs, CommitTx(t), tx[t].op = "update"
    PROVE  UpdateAssignment(tx[t].person, tx[t].position, tx[t].amount, tx[t].day)
<1> DEFINE x    == tx[t]
           n    == x.person
           p    == x.position
           f    == x.amount
           d    == x.day
           mine == LockedJobs(assignments, held[t], n)
<1>1. /\ Request(x) /\ RowsThere(x, held[t], assignments) /\ Room(x, held[t], assignments, slices)
      /\ WrittenOK(x, held[t], assignments, slices) /\ patched' = patched
  BY CommitMeans
<1>2. OnJob(x)
  BY DEF OnJob
<1>3. /\ Valid(assignments', slices') /\ x.old = mine /\ x.new = Renewed(x, mine)
      /\ assignments' = (assignments \ x.old) \cup x.new /\ slices' = slices
  BY <1>2, CommitJobsValid, CommitMeans
<1>4. x.op \in Ops /\ n \in People /\ p \in Positions /\ f \in Shares /\ d \in Days
  BY <1>1 DEF Request
<1>5. PICK s \in LockedSlices(slices, held[t], p), a \in mine :
          Covers(s, d) /\ Others(assignments, a, p, d) + f <= s.capacity
  BY <1>1 DEF Room
<1>6. a \in JobsOf(assignments, n) /\ Covers(a, d) /\ a.from < d /\ a.position \in Positions
  BY <1>1, <1>2 DEF RowsThere, LockedJobs, JobsOf, SerialInv, PlainTables
<1>7. mine = {a}
  <2>1. \A b \in mine : b \in JobsOf(assignments, n) /\ Covers(b, d)
    BY <1>1, <1>2 DEF RowsThere, LockedJobs
  <2>2. TypeInv
    BY DEF SerialInv
  <2>3. ASSUME NEW b \in mine PROVE b = a
    BY <1>4, <1>6, <2>1, <2>2, OneJob
  <2> QED BY <2>3
<1>8. Open(slices, p, d) /\ SliceAt(slices, p, d) = s /\ Open(slices, a.position, d)
  <2>1. s \in SlicesOf(slices, p)
    BY DEF LockedSlices
  <2> QED BY <1>4, <1>5, <1>6, <2>1, RoomAtSlice, OpenAlways DEF SerialInv
<1>9. OthersIn(a, p, d) + f <= SliceAt(slices, p, d).capacity
  BY <1>5, <1>8 DEF OthersIn, Others
<1>10. assignments' = Transferred(a, p, f, d)
  <2>1. x.new = {EndsOn(b, d - 1) : b \in mine} \cup {MovedTo(b, p, f, d) : b \in mine}
    BY <1>3 DEF Renewed
  <2>2. x.new = {EndsOn(a, d - 1)} \cup {MovedTo(a, p, f, d)}
    BY <1>7, <2>1
  <2>3. Transferred(a, p, f, d) = ((assignments \ {a}) \cup {EndsOn(a, d - 1)}) \cup {MovedTo(a, p, f, d)}
    BY <1>6, CutIs DEF Transferred, MovedTo
  <2> QED BY <1>3, <1>7, <2>2, <2>3
<1>11. Commit(Transferred(a, p, f, d), slices)
  BY <1>3, <1>10 DEF Commit
<1>12. Transfer(n, slices, p, f, d)
  BY <1>6, <1>8, <1>9, <1>11 DEF Transfer
<1> QED BY <1>1, <1>4, <1>12 DEF UpdateAssignment, InOrder, Checked

LEMMA RescindCommits ==
    ASSUME ~InDateOrder, SerialInv, NEW t \in Txs, CommitTx(t), tx[t].op = "rescind"
    PROVE  /\ RescindAssignment(tx[t].person, tx[t].day)
           /\ \E a \in assignments :
                  assignments' = Left(a, tx[t].day) /\ a.from < tx[t].day /\ tx[t].day <= a.to
<1> DEFINE x    == tx[t]
           n    == x.person
           d    == x.day
           mine == LockedJobs(assignments, held[t], n)
<1>1. /\ Request(x) /\ RowsThere(x, held[t], assignments) /\ Planned(x, held[t], assignments)
      /\ patched' = patched /\ x.want = <<>>
  BY CommitMeans
<1>2. OnJob(x)
  BY DEF OnJob
<1>3. /\ Valid(assignments', slices') /\ x.old = mine /\ x.new = Renewed(x, mine)
      /\ assignments' = (assignments \ x.old) \cup x.new /\ slices' = slices
  BY <1>2, CommitJobsValid, CommitMeans
<1>4. x.op \in Ops /\ n \in People /\ d \in Days
  BY <1>1 DEF Request
<1>5. PICK a \in mine : TRUE
  BY <1>1 DEF Planned, PlannedRescind
<1>6. a \in JobsOf(assignments, n) /\ Covers(a, d) /\ a.from < d /\ a \in assignments
  BY <1>1, <1>2 DEF RowsThere, LockedJobs, JobsOf
<1>7. mine = {a}
  <2>1. \A b \in mine : b \in JobsOf(assignments, n) /\ Covers(b, d)
    BY <1>1, <1>2 DEF RowsThere, LockedJobs
  <2>2. TypeInv
    BY DEF SerialInv
  <2>3. ASSUME NEW b \in mine PROVE b = a
    BY <1>4, <1>6, <2>1, <2>2, OneJob
  <2> QED BY <2>3
<1>8. assignments' = Left(a, d)
  <2>1. x.new = {EndsOn(b, d - 1) : b \in mine} \cup {InactiveFrom(b, d) : b \in {c \in mine : c.status = "active"}}
    BY <1>3 DEF Renewed
  <2>2. x.new = {EndsOn(a, d - 1)} \cup (IF a.status = "active" THEN {InactiveFrom(a, d)} ELSE {})
    BY <1>7, <2>1
  <2>3. Left(a, d) = ((assignments \ {a}) \cup {EndsOn(a, d - 1)})
                         \cup (IF a.status = "active" THEN {InactiveFrom(a, d)} ELSE {})
    BY <1>6, CutIs DEF Left, InactiveFrom
  <2> QED BY <1>3, <1>7, <2>2, <2>3
<1>9. Commit(Left(a, d), slices)
  BY <1>3, <1>8 DEF Commit
<1> QED BY <1>1, <1>4, <1>6, <1>8, <1>9 DEF RescindAssignment, InOrder, Checked, Covers

LEMMA PlainWhole ==
    ASSUME NEW ss, \A s \in ss : s.from = 0 /\ s.to = EndOfTime,
           \A s, r \in ss : s.position = r.position => s = r, NEW p
    PROVE  Whole(SlicesOf(ss, p))
<1> DEFINE rows == SlicesOf(ss, p)
<1>1. /\ \A s \in rows : s.from = 0 /\ s.to = EndOfTime
      /\ \A s, r \in rows : s = r
  BY DEF SlicesOf
<1> HIDE DEF rows
<1>2. \A s \in rows : s.from <= s.to
  BY <1>1, StaffingAssumption
<1>3. \A r \in rows, d \in Days : Covers(r, d)
  BY <1>1, StaffingAssumption DEF Covers, Days
<1>4. Whole(rows)
  BY <1>1, <1>2, <1>3 DEF Whole
<1> QED BY <1>4 DEF rows

LEMMA CorrectCommits ==
    ASSUME ~InDateOrder, SerialInv, NEW t \in Txs, CommitTx(t), tx[t].op = "correct_position"
    PROVE  /\ CorrectPosition(tx[t].position, 0, tx[t].amount, None) /\ PlainTables'
           /\ \E s \in slices :
                  /\ SliceKey(tx[t].position) \in held[t] /\ s.position = tx[t].position
                  /\ slices' = (slices \ {s}) \cup {Redefined(s, tx[t].amount, None)}
                  /\ Redefined(s, tx[t].amount, None).position = s.position
<1> DEFINE x    == tx[t]
           p    == x.position
           c    == x.amount
           mine == LockedSlices(slices, held[t], p)
<1>1. /\ Request(x) /\ Room(x, held[t], assignments, slices) /\ WrittenOK(x, held[t], assignments, slices)
      /\ Planned(x, held[t], assignments) /\ x.want = <<>> /\ patched' = patched
  BY CommitMeans
<1>2. slices' = (slices \ x.old) \cup x.new /\ assignments' = assignments
  BY CommitMeans DEF OnJob
<1>3. x.old = mine /\ x.new = {[s EXCEPT !.capacity = c] : s \in mine}
  BY <1>1 DEF WrittenOK, Mine, Renewed
<1>4. x.op \in Ops /\ p \in Positions /\ p \in AllPositions /\ c \in Capacities /\ c \in Nat \ {0}
  BY <1>1, StaffingAssumption DEF Request, AllPositions
<1>5. PICK s \in mine : c # s.capacity => Occupied(assignments, p, s.from) <= c
  BY <1>1 DEF Room
<1>6. TypeInv /\ PlainTables
  BY DEF SerialInv
<1>7. /\ s \in slices /\ s \in SlicesOf(slices, p) /\ s \in SliceRows /\ s.from = 0 /\ s.to = EndOfTime
      /\ s.boss = None /\ s.position = p
  BY <1>6, TypeIs DEF LockedSlices, SlicesOf, TypeInv, PlainTables
<1>8. mine = {s}
  BY <1>6, <1>7 DEF LockedSlices, SlicesOf, PlainTables
<1> DEFINE new == Redefined(s, c, None)
<1>9. [s EXCEPT !.capacity = c] = new
  BY <1>7 DEF Redefined, SliceRows
<1>10. slices' = (slices \ {s}) \cup {new}
  BY <1>2, <1>3, <1>8, <1>9
<1>11. /\ new \in SliceRows /\ new.position = p /\ new.boss = None
       /\ new.from = 0 /\ new.to = EndOfTime
  BY <1>4, <1>7, SliceRedefined
<1>12. PlainTables'
  <2> HIDE DEF new
  <2>1. /\ \A a \in assignments' : a.position \in Positions
        /\ \A r \in slices' : r.position \in Positions /\ r.from = 0 /\ r.to = EndOfTime /\ r.boss = None
    BY <1>2, <1>4, <1>6, <1>10, <1>11 DEF PlainTables
  <2>2. \A r, v \in slices' : r.position = v.position => r = v
    BY <1>6, <1>7, <1>10, <1>11 DEF PlainTables
  <2>3. ASSUME NEW q \in Positions PROVE SlicesOf(slices', q) # {}
    <3>1. PICK r \in slices : r.position = q
      BY <1>6 DEF PlainTables, SlicesOf
    <3>2. CASE r = s
      BY <1>7, <1>10, <1>11, <3>1, <3>2 DEF SlicesOf
    <3>3. CASE r # s
      BY <1>10, <3>1, <3>3 DEF SlicesOf
    <3> QED BY <3>2, <3>3
  <2> QED BY <2>1, <2>2, <2>3 DEF PlainTables
<1>13. Valid(assignments, slices')
  <2>1. ASSUME NEW q \in AllPositions PROVE Whole(SlicesOf(slices', q))
    BY <1>12, PlainWhole DEF PlainTables
  <2> QED BY <1>6, <2>1 DEF Valid, TypeInv
<1>14. Commit(assignments, (slices \ {s}) \cup {[s EXCEPT !.capacity = c, !.boss = None]})
  BY <1>2, <1>10, <1>13 DEF Commit, Redefined
<1>15. SliceKey(p) \in held[t]
  BY <1>1 DEF Planned, PlannedCorrect
<1>16. CorrectPosition(p, 0, c, None)
  <2>1. c # s.capacity => Occupied(assignments, p, 0) <= c
    BY <1>5, <1>7
  <2>2. MayReportTo(p, None, 0) /\ InOrder(0) /\ Checked
    BY <1>1 DEF MayReportTo, InOrder, Checked
  <2> QED BY <1>4, <1>7, <1>14, <2>1, <2>2 DEF CorrectPosition
<1> QED BY <1>7, <1>10, <1>11, <1>12, <1>15, <1>16

\* Every commit is an operation that runs alone.
LEMMA CommitSerial ==
    ASSUME ~InDateOrder, SerialInv, NEW t \in Txs, CommitTx(t)
    PROVE  Next
<1> DEFINE x == tx[t]
<1>1. Request(x)
  BY CommitMeans
<1>2. CASE x.op = "create"
  <2>1. CreateAssignment(x.person, x.position, x.amount, x.day)
    BY <1>2, CreateCommits
  <2>2. x.person \in People /\ x.position \in AllPositions /\ x.amount \in Shares /\ x.day \in Days
    BY <1>1, <1>2 DEF Request, AllPositions
  <2> HIDE DEF x
  <2>3. AssignmentStep(x.person, x.day)
    BY <2>1, <2>2 DEF AssignmentStep
  <2> QED BY <2>2, <2>3 DEF Next
<1>3. CASE x.op = "update"
  <2>1. UpdateAssignment(x.person, x.position, x.amount, x.day)
    BY <1>3, UpdateCommits
  <2>2. x.person \in People /\ x.position \in AllPositions /\ x.amount \in Shares /\ x.day \in Days
    BY <1>1, <1>3 DEF Request, AllPositions
  <2> HIDE DEF x
  <2>3. AssignmentStep(x.person, x.day)
    BY <2>1, <2>2 DEF AssignmentStep
  <2> QED BY <2>2, <2>3 DEF Next
<1>4. CASE x.op = "rescind"
  <2>1. RescindAssignment(x.person, x.day)
    BY <1>4, RescindCommits
  <2>2. x.person \in People /\ x.day \in Days
    BY <1>1, <1>4 DEF Request
  <2> HIDE DEF x
  <2>3. AssignmentStep(x.person, x.day)
    BY <2>1 DEF AssignmentStep
  <2> QED BY <2>2, <2>3 DEF Next
<1>5. CASE x.op = "correct_position"
  <2>1. CorrectPosition(x.position, 0, x.amount, None)
    BY <1>5, CorrectCommits
  <2>2. x.position \in AllPositions /\ x.amount \in Capacities /\ None \in Bosses /\ 0 \in Days
    <3>1. x.position \in AllPositions /\ x.amount \in Capacities
      BY <1>1, <1>5 DEF Request, AllPositions
    <3>2. None \in Bosses
      BY DEF Bosses
    <3>3. 0 \in Days
      BY StaffingAssumption DEF Days
    <3> QED BY <3>1, <3>2, <3>3
  <2> HIDE DEF x
  <2>3. PositionStep(x.position, 0)
    BY <2>1, <2>2 DEF PositionStep
  <2> QED BY <2>2, <2>3 DEF Next
<1> QED BY <1>1, <1>2, <1>3, <1>4, <1>5 DEF Request

-----------------------------------------------------------------------------
(* A commit and the other transactions *)

LEMMA HeldApart ==
    ASSUME SerialInv, NEW t \in Txs, NEW u \in Txs, t # u, NEW k, k \in held[t], k \in held[u]
    PROVE  FALSE
BY DEF SerialInv, Exclusive

LEMMA JobsStay ==
    ASSUME SerialInv, NEW u \in Txs, CommitTx(u), NEW t \in Txs, t # u, NEW n \in People,
           RowsThere(tx[t], held[t], assignments)
    PROVE  /\ LockedJobs(assignments', held[t], n) = LockedJobs(assignments, held[t], n)
           /\ \A d \in Days :
                  <<"job", n, d>> \in held[t] => \E a \in JobsOf(assignments', n) : a.from = d
<1> DEFINE x == tx[u]
           h == held[t]
<1>0. \A d \in Days : <<"job", n, d>> \in h => \E a \in JobsOf(assignments, n) : a.from = d
  BY DEF RowsThere
<1>1. CASE ~OnJob(x)
  <2>1. assignments' = assignments
    BY <1>1, CommitMeans
  <2> QED BY <1>0, <2>1
<1>2. CASE OnJob(x)
  <2>1. /\ Request(x) /\ RowsThere(x, held[u], assignments) /\ WrittenOK(x, held[u], assignments, slices)
        /\ assignments' = (assignments \ x.old) \cup x.new
        /\ x.old = LockedJobs(assignments, held[u], x.person) /\ x.new = Renewed(x, x.old)
    BY <1>2, CommitMeans, CommitJobsValid
  <2>2. \A r \in x.new, a \in assignments : a \notin x.old => ~Meets(r, a)
    BY <1>2, <2>1 DEF WrittenOK
  <2>3. \A r \in x.new : r \in Jobs /\ r.from <= r.to
    BY <1>2, <2>1, NewRows DEF SerialInv
  <2> DEFINE old == x.old
             new == x.new
  <2>4. ASSUME NEW a \in JobsOf(assignments, n), <<"job", n, a.from>> \in h PROVE a \notin old
    <3>1. SUFFICES ASSUME a \in old PROVE FALSE
      OBVIOUS
    <3>2. <<"job", n, a.from>> \in held[u]
      BY <2>1, <3>1 DEF LockedJobs, JobsOf
    <3> QED BY <2>4, <3>2, HeldApart
  <2>5. ASSUME NEW r \in new, r.person = n, <<"job", n, r.from>> \in h PROVE FALSE
    <3>1. r.from \in Days /\ r.from \in Nat /\ r.to \in Nat
      BY <2>3, DaysAreInts DEF Jobs
    <3>2. PICK b \in JobsOf(assignments, n) : b.from = r.from
      BY <1>0, <2>5, <3>1
    <3>3. b \notin old /\ b \in assignments /\ b.person = n
      BY <2>4, <2>5, <3>2 DEF JobsOf
    <3>4. ~Meets(r, b)
      BY <2>2, <3>3
    <3>5. b.from <= b.to
      BY <3>2 DEF SerialInv, TypeInv, Valid, Whole
    <3>6. b \in Jobs
      BY <3>3, TypeIs DEF SerialInv, TypeInv
    <3>7. b.to \in Nat
      BY <3>6, DaysAreInts DEF Jobs
    <3> QED BY <2>3, <2>5, <3>1, <3>2, <3>3, <3>4, <3>5, <3>7 DEF Meets
  <2> HIDE DEF old, new, x
  <2>6. assignments' = (assignments \ old) \cup new
    BY <2>1 DEF old, new, x
  <2>7. LockedJobs(assignments', h, n) = LockedJobs(assignments, h, n)
    BY <2>4, <2>5, <2>6 DEF LockedJobs, JobsOf
  <2>8. ASSUME NEW d \in Days, <<"job", n, d>> \in h
        PROVE  \E a \in JobsOf(assignments', n) : a.from = d
    <3>1. PICK a \in JobsOf(assignments, n) : a.from = d
      BY <1>0, <2>8
    <3>2. a \in JobsOf(assignments', n)
      BY <2>4, <2>6, <2>8, <3>1 DEF JobsOf
    <3> QED BY <3>1, <3>2
  <2> QED BY <2>7, <2>8
<1> QED BY <1>1, <1>2

LEMMA OccupiedStays ==
    ASSUME ~InDateOrder, SerialInv, NEW u \in Txs, CommitTx(u), NEW t \in Txs, t # u,
           NEW p, SliceKey(p) \in held[t], NEW d \in Days
    PROVE  /\ Occupied(assignments', p, d) <= Occupied(assignments, p, d)
           /\ Occupied(assignments', p, d) \in Nat /\ Occupied(assignments, p, d) \in Nat
<1> DEFINE x == tx[u]
<1>1. TypeInv /\ assignments \subseteq Jobs /\ IsFiniteSet(assignments)
  BY TypeIs DEF SerialInv, TypeInv
<1>2. TypeInv'
  BY <1>1, CommitSerial, TypeStep
<1>3. assignments' \subseteq Jobs /\ IsFiniteSet(assignments')
  BY <1>2 DEF TypeInv, TypeOK, Jobs
<1>4. Table(assignments) /\ Table(assignments')
  BY <1>1, <1>3 DEF Table, Jobs
<1>5. Occupied(assignments', p, d) \in Nat /\ Occupied(assignments, p, d) \in Nat
  BY <1>4, ActiveTable
<1>6. SliceKey(p) \notin held[u]
  BY HeldApart
<1>7. Request(x) /\ Planned(x, held[u], assignments) /\ x.want = <<>> /\ RowsThere(x, held[u], assignments)
  BY CommitMeans
<1>8. ASSUME \A r \in x.new : r.status = "active" => SliceKey(r.position) \in held[u], OnJob(x)
      PROVE  Occupied(assignments', p, d) <= Occupied(assignments, p, d)
  <2>1. assignments' = (assignments \ x.old) \cup x.new
    BY <1>8, CommitMeans
  <2>2. Active(assignments', p, d) \subseteq Active(assignments, p, d)
    <3> HIDE DEF x
    <3> QED BY <1>6, <1>8, <2>1 DEF Active
  <2> QED BY <1>4, <2>2, OccupiedSubset
<1>9. CASE x.op = "create"
  <2>1. OnJob(x) /\ SliceKey(x.position) \in held[u]
    BY <1>7, <1>9 DEF OnJob, Planned, PlannedCreate
  <2>2. x.old = LockedJobs(assignments, held[u], x.person) /\ x.new = Renewed(x, x.old)
    BY <2>1, CommitJobsValid
  <2>3. \A r \in x.new : r.status = "inactive" \/ r.position = x.position
    BY <1>7, <1>9, <2>1, <2>2, NewRows DEF SerialInv
  <2> QED BY <1>5, <1>8, <2>1, <2>3
<1>10. CASE x.op = "update"
  <2>1. OnJob(x)
    BY <1>10 DEF OnJob
  <2>2. x.old = LockedJobs(assignments, held[u], x.person) /\ x.new = Renewed(x, x.old)
    BY <2>1, CommitJobsValid
  <2>3. PICK a \in LockedJobs(assignments, held[u], x.person) :
            SliceKey(x.position) \in held[u] /\ SliceKey(a.position) \in held[u]
    BY <1>7, <1>10 DEF Planned, PlannedUpdate
  <2>4. x.person \in People /\ x.day \in Days
    BY <1>7, <1>10 DEF Request
  <2>5. \A b \in x.old : b \in JobsOf(assignments, x.person) /\ Covers(b, x.day)
    BY <1>7, <2>1, <2>2 DEF LockedJobs, RowsThere
  <2>6. \A b \in x.old : b = a
    BY <1>1, <2>2, <2>3, <2>4, <2>5, OneJob
  <2>7. \A r \in x.new : r.position = x.position \/ \E b \in x.old : r.position = b.position
    BY <1>7, <1>10, <2>1, <2>2, NewRows DEF SerialInv
  <2>8. \A r \in x.new : SliceKey(r.position) \in held[u]
    BY <2>3, <2>6, <2>7
  <2> QED BY <1>5, <1>8, <2>1, <2>8
<1>11. CASE x.op = "rescind"
  <2>1. PICK a \in assignments : assignments' = Left(a, x.day) /\ a.from < x.day /\ x.day <= a.to
    BY <1>11, RescindCommits
  <2>2. x.day \in Days
    BY <1>7 DEF Request
  <2>3. Occupied(Left(a, x.day), p, d) <= Occupied(assignments, p, d)
    <3> HIDE DEF x
    <3> QED BY <1>1, <2>1, <2>2, LeftOccupies
  <2> QED BY <1>5, <2>1, <2>3
<1>12. CASE x.op = "correct_position"
  <2>1. assignments' = assignments
    BY <1>12, CommitMeans DEF OnJob
  <2> QED BY <1>5, <2>1
<1> QED BY <1>5, <1>7, <1>9, <1>10, <1>11, <1>12 DEF Request

LEMMA PlainStays ==
    ASSUME ~InDateOrder, SerialInv, NEW u \in Txs, CommitTx(u)
    PROVE  PlainTables'
<1> DEFINE x == tx[u]
<1>1. CASE ~OnJob(x)
  BY <1>1, CorrectCommits DEF OnJob
<1>2. CASE OnJob(x)
  <2>1. /\ Request(x) /\ RowsThere(x, held[u], assignments)
        /\ assignments' = (assignments \ x.old) \cup x.new /\ slices' = slices
        /\ x.old = LockedJobs(assignments, held[u], x.person) /\ x.new = Renewed(x, x.old)
    BY <1>2, CommitMeans, CommitJobsValid
  <2>2. \A r \in x.new : r.position \in Positions
    BY <1>2, <2>1, NewRows DEF SerialInv
  <2> HIDE DEF x
  <2> QED BY <2>1, <2>2 DEF SerialInv, PlainTables, SlicesOf
<1> QED BY <1>1, <1>2

LEMMA SlicesStay ==
    ASSUME ~InDateOrder, SerialInv, NEW u \in Txs, CommitTx(u), NEW t \in Txs, t # u,
           NEW p, SliceKey(p) \in held[t]
    PROVE  SlicesOf(slices', p) = SlicesOf(slices, p)
<1> DEFINE x == tx[u]
<1>1. CASE OnJob(x)
  BY <1>1, CommitMeans DEF SlicesOf
<1>2. CASE ~OnJob(x)
  <2>1. PICK s \in slices :
            /\ SliceKey(x.position) \in held[u] /\ s.position = x.position
            /\ slices' = (slices \ {s}) \cup {Redefined(s, x.amount, None)}
            /\ Redefined(s, x.amount, None).position = s.position
    BY <1>2, CorrectCommits DEF OnJob
  <2>2. x.position # p
    BY <2>1, HeldApart
  <2> HIDE DEF x
  <2> QED BY <2>1, <2>2 DEF SlicesOf
<1> QED BY <1>1, <1>2

LEMMA OthersFall ==
    ASSUME NEW as, NEW bs, NEW a, a.fte \in Nat, NEW p, NEW d,
           Occupied(as, p, d) \in Nat, Occupied(bs, p, d) \in Nat, Occupied(bs, p, d) <= Occupied(as, p, d)
    PROVE  /\ Others(bs, a, p, d) <= Others(as, a, p, d)
           /\ Others(bs, a, p, d) \in Nat /\ Others(as, a, p, d) \in Nat
<1> DEFINE now == Occupied(bs, p, d)
           was == Occupied(as, p, d)
<1>1. now \in Nat /\ was \in Nat /\ now <= was
  OBVIOUS
<1> HIDE DEF now, was
<1>2. CASE a.position # p
  BY <1>1, <1>2 DEF Others, now, was
<1>3. CASE a.position = p
  <2>1. /\ Others(bs, a, p, d) = IF now < a.fte THEN 0 ELSE now - a.fte
        /\ Others(as, a, p, d) = IF was < a.fte THEN 0 ELSE was - a.fte
    BY <1>3 DEF Others, now, was
  <2> QED BY <1>1, <2>1
<1> QED BY <1>2, <1>3

LEMMA RoomStays ==
    ASSUME ~InDateOrder, SerialInv, NEW u \in Txs, CommitTx(u), NEW t \in Txs, t # u,
           TxOK(tx[t], held[t], assignments, slices), tx[t].stage # "lock"
    PROVE  Room(tx[t], held[t], assignments', slices')
<1> DEFINE x == tx[t]
           h == held[t]
<1>1. /\ Request(x) /\ RowsThere(x, h, assignments) /\ Room(x, h, assignments, slices)
      /\ Planned(x, h, assignments) /\ x.want = <<>> /\ x.day \in Days
  BY DEF TxOK, Planned, Request
<1>2. slices \subseteq SliceRows /\ assignments \subseteq Jobs /\ PlainTables
  BY TypeIs DEF SerialInv, TypeInv
<1>3. ASSUME x.op = "create"
      PROVE  \E s \in SlicesOf(slices', x.position) :
                 Covers(s, x.day) /\ Occupied(assignments', x.position, x.day) + x.amount <= s.capacity
  <2>1. SliceKey(x.position) \in h
    BY <1>1, <1>3 DEF Planned, PlannedCreate
  <2>2. PICK s \in SlicesOf(slices, x.position) :
            Covers(s, x.day) /\ Occupied(assignments, x.position, x.day) + x.amount <= s.capacity
    BY <1>1, <1>3 DEF Room
  <2>3. s \in SlicesOf(slices', x.position)
    BY <2>1, SlicesStay
  <2> DEFINE now == Occupied(assignments', x.position, x.day)
             was == Occupied(assignments, x.position, x.day)
  <2>4. now <= was /\ now \in Nat /\ was \in Nat
    BY <1>1, <2>1, OccupiedStays
  <2>5. x.amount \in Nat /\ s.capacity \in Nat
    BY <1>1, <1>2, <1>3, StaffingAssumption DEF Request, SlicesOf, SliceRows
  <2>6. was + x.amount <= s.capacity
    BY <2>2
  <2> HIDE DEF now, was, x
  <2>7. now + x.amount <= s.capacity
    BY <2>4, <2>5, <2>6
  <2> QED BY <2>2, <2>3, <2>7 DEF now
<1>4. ASSUME x.op = "update"
      PROVE  \E s \in LockedSlices(slices', h, x.position), a \in LockedJobs(assignments', h, x.person) :
                 Covers(s, x.day) /\ Others(assignments', a, x.position, x.day) + x.amount <= s.capacity
  <2>1. SliceKey(x.position) \in h
    BY <1>1, <1>4 DEF Planned, PlannedUpdate
  <2>2. PICK s \in LockedSlices(slices, h, x.position), a \in LockedJobs(assignments, h, x.person) :
            Covers(s, x.day) /\ Others(assignments, a, x.position, x.day) + x.amount <= s.capacity
    BY <1>1, <1>4 DEF Room
  <2>3. s \in LockedSlices(slices', h, x.position)
    BY <2>1, SlicesStay DEF LockedSlices
  <2>4. x.person \in People
    BY <1>1, <1>4 DEF Request
  <2>5. a \in LockedJobs(assignments', h, x.person)
    BY <1>1, <2>4, JobsStay
  <2> DEFINE now == Others(assignments', a, x.position, x.day)
             was == Others(assignments, a, x.position, x.day)
  <2>6. a.fte \in Nat /\ s.capacity \in Nat
    BY <1>2 DEF LockedJobs, JobsOf, Jobs, LockedSlices, SlicesOf, SliceRows
  <2>7. x.amount \in Nat
    BY <1>1, <1>4, StaffingAssumption DEF Request
  <2>8. /\ Occupied(assignments', x.position, x.day) <= Occupied(assignments, x.position, x.day)
        /\ Occupied(assignments', x.position, x.day) \in Nat
        /\ Occupied(assignments, x.position, x.day) \in Nat
    BY <1>1, <2>1, OccupiedStays
  <2>9. now <= was /\ now \in Nat /\ was \in Nat
    BY <2>6, <2>8, OthersFall
  <2>10. was + x.amount <= s.capacity
    BY <2>2
  <2> HIDE DEF now, was, x
  <2>11. now + x.amount <= s.capacity
    BY <2>6, <2>7, <2>9, <2>10
  <2> QED BY <2>2, <2>3, <2>5, <2>11 DEF now
<1>5. ASSUME x.op = "correct_position"
      PROVE  \E s \in LockedSlices(slices', h, x.position) :
                 x.amount # s.capacity => Occupied(assignments', x.position, s.from) <= x.amount
  <2>1. SliceKey(x.position) \in h
    BY <1>1, <1>5 DEF Planned, PlannedCorrect
  <2>2. PICK s \in LockedSlices(slices, h, x.position) :
            x.amount # s.capacity => Occupied(assignments, x.position, s.from) <= x.amount
    BY <1>1, <1>5 DEF Room
  <2>3. s \in LockedSlices(slices', h, x.position)
    BY <2>1, SlicesStay DEF LockedSlices
  <2>4. s.from \in Days /\ x.amount \in Nat
    BY <1>1, <1>2, <1>5, StaffingAssumption DEF Request, LockedSlices, SlicesOf, SliceRows
  <2> DEFINE now == Occupied(assignments', x.position, s.from)
             was == Occupied(assignments, x.position, s.from)
  <2>5. now <= was /\ now \in Nat /\ was \in Nat
    BY <2>1, <2>4, OccupiedStays
  <2>6. x.amount # s.capacity => was <= x.amount
    BY <2>2
  <2> HIDE DEF now, was, x
  <2>7. x.amount # s.capacity => now <= x.amount
    BY <2>4, <2>5, <2>6
  <2> QED BY <2>3, <2>7 DEF now
<1> QED BY <1>3, <1>4, <1>5 DEF Room

LEMMA OtherStays ==
    ASSUME ~InDateOrder, SerialInv, NEW u \in Txs, CommitTx(u), NEW t \in Txs, t # u, tx[t].stage # "idle"
    PROVE  TxOK(tx[t], held[t], assignments', slices')
<1> DEFINE x == tx[t]
           h == held[t]
<1>1. TxOK(x, h, assignments, slices)
  BY MyTx
<1>2. Request(x) /\ RowsThere(x, h, assignments) /\ Planned(x, h, assignments)
  BY <1>1 DEF TxOK
<1>3. /\ \A n \in People : LockedJobs(assignments', h, n) = LockedJobs(assignments, h, n)
      /\ \A n \in People, d \in Days :
             <<"job", n, d>> \in h => \E a \in JobsOf(assignments', n) : a.from = d
  BY <1>2, JobsStay
<1>4. OnJob(x) => x.person \in People
  BY <1>2 DEF OnJob, Request
<1>5. RowsThere(x, h, assignments')
  BY <1>2, <1>3, <1>4 DEF RowsThere
<1>6. Planned(x, h, assignments')
  <2>1. x.op = "update" => PlannedUpdate(x, h, assignments')
    <3> SUFFICES ASSUME x.op = "update" PROVE PlannedUpdate(x, h, assignments')
      OBVIOUS
    <3>1. LockedJobs(assignments', h, x.person) = LockedJobs(assignments, h, x.person)
      BY <1>3, <1>4 DEF OnJob
    <3> QED BY <1>2, <3>1 DEF Planned, PlannedUpdate
  <2>2. x.op = "rescind" => PlannedRescind(x, h, assignments')
    <3> SUFFICES ASSUME x.op = "rescind" PROVE PlannedRescind(x, h, assignments')
      OBVIOUS
    <3>1. LockedJobs(assignments', h, x.person) = LockedJobs(assignments, h, x.person)
      BY <1>3, <1>4 DEF OnJob
    <3> QED BY <1>2, <3>1 DEF Planned, PlannedRescind
  <2> QED BY <1>2, <2>1, <2>2 DEF Planned
<1>7. x.stage # "lock" => Room(x, h, assignments', slices')
  BY <1>1, RoomStays
<1>8. ASSUME x.stage = "written"
      PROVE  WrittenOK(x, h, assignments', slices')
  <2>1. WrittenOK(x, h, assignments, slices)
    BY <1>1, <1>8 DEF TxOK
  <2>2. Mine(x, h, assignments', slices') = Mine(x, h, assignments, slices)
    <3>1. CASE x.op = "correct_position"
      <4>a. PlannedCorrect(x, h) /\ x.want = <<>>
        BY <1>2, <1>8, <3>1 DEF Planned
      <4>b. <<SliceWant(x, x.position)>> # <<>>
        OBVIOUS
      <4>1. SliceKey(x.position) \in h
        BY <4>a, <4>b DEF PlannedCorrect
      <4>2. SlicesOf(slices', x.position) = SlicesOf(slices, x.position)
        BY <4>1, SlicesStay
      <4> QED BY <3>1, <4>2 DEF Mine, LockedSlices
    <3>2. CASE x.op # "correct_position"
      BY <1>3, <1>4, <3>2 DEF Mine, OnJob
    <3> QED BY <3>1, <3>2
  <2>3. ASSUME OnJob(x), NEW r \in x.new, NEW s \in assignments' \ x.old PROVE ~Meets(r, s)
    <3>1. CASE s \in assignments
      BY <2>1, <2>3, <3>1 DEF WrittenOK
    <3>2. CASE s \notin assignments
      <4>1. s \in tx[u].new /\ OnJob(tx[u]) /\ tx[u].stage = "written"
        BY <3>2, CommitMeans
      <4>2. WritesJob(t) /\ WritesJob(u)
        BY <1>8, <2>3, <4>1 DEF WritesJob
      <4> QED BY <4>1, <4>2 DEF SerialInv, Apart
    <3> QED BY <3>1, <3>2
  <2> HIDE DEF x, h
  <2> QED BY <2>1, <2>2, <2>3 DEF WrittenOK
<1> HIDE DEF x, h
<1>9. TxOK(x, h, assignments', slices')
  BY <1>2, <1>5, <1>6, <1>7, <1>8 DEF TxOK
<1> QED BY <1>9 DEF x, h

LEMMA CommitKeeps ==
    ASSUME ~InDateOrder, SerialInv, NEW u \in Txs, CommitTx(u)
    PROVE  SerialInv'
<1>1. tx' = [tx EXCEPT ![u] = Idle] /\ held' = [held EXCEPT ![u] = {}]
  BY CommitMeans
<1>2. /\ tx'[u] = Idle /\ held'[u] = {} /\ tx'[u].stage = "idle"
      /\ \A t \in Txs : t # u => tx'[t] = tx[t] /\ held'[t] = held[t]
      /\ tx' = [t \in Txs |-> tx'[t]] /\ held' = [t \in Txs |-> held'[t]]
  BY <1>1 DEF SerialInv, Idle
<1>3. TypeInv' /\ PlainTables'
  BY CommitSerial, TypeStep, PlainStays DEF SerialInv
<1>4. Exclusive'
  BY <1>2 DEF SerialInv, Exclusive
<1>5. Apart'
  <2> SUFFICES ASSUME NEW t \in Txs, NEW v \in Txs, t # v, WritesJob(t)', WritesJob(v)',
                      NEW r \in tx'[t].new, NEW s \in tx'[v].new
               PROVE  ~Meets(r, s)
    BY DEF Apart
  <2>1. t # u /\ v # u
    BY <1>2 DEF WritesJob
  <2> QED BY <1>2, <2>1 DEF SerialInv, Apart, WritesJob
<1>6. ASSUME NEW t \in Txs, tx'[t].stage # "idle" PROVE TxOK(tx'[t], held'[t], assignments', slices')
  <2>1. t # u
    BY <1>2, <1>6
  <2> QED BY <1>2, <1>6, <2>1, OtherStays
<1> QED BY <1>2, <1>3, <1>4, <1>5, <1>6 DEF SerialInv

-----------------------------------------------------------------------------

LEMMA SerialStart ==
    ASSUME TxInit
    PROVE  SerialInv
<1>1. PICK capacity \in [Positions -> Capacities] :
          slices = {[position |-> p, capacity |-> capacity[p], boss |-> None, live |-> TRUE,
                     from |-> 0, to |-> EndOfTime] : p \in Positions}
  BY DEF TxInit
<1> DEFINE slice(p) == [position |-> p, capacity |-> capacity[p], boss |-> None, live |-> TRUE,
                        from |-> 0, to |-> EndOfTime]
<1>2. assignments = {} /\ patched = {} /\ tx = [t \in Txs |-> Idle] /\ held = [t \in Txs |-> {}]
  BY DEF TxInit
<1>3. ASSUME NEW s \in slices
      PROVE  /\ s \in SliceRows /\ s.position \in Positions
             /\ s.from = 0 /\ s.to = EndOfTime /\ s.boss = None
  <2>1. PICK p \in Positions : s = slice(p)
    BY <1>1
  <2>2. p \in AllPositions
    BY DEF AllPositions
  <2>3. capacity[p] \in Nat \ {0}
    BY StaffingAssumption
  <2>4. 0 \in Days /\ EndOfTime \in Days
    BY StaffingAssumption DEF Days
  <2> QED BY <2>1, <2>2, <2>3, <2>4 DEF SliceRows
<1>4. PlainTables
  <2>1. /\ \A p : slice(p).position = p
        /\ \A s \in slices : \E p \in Positions : s = slice(p)
        /\ \A p \in Positions : slice(p) \in slices
    BY <1>1
  <2> HIDE DEF slice
  <2>2. \A s, r \in slices : s.position = r.position => s = r
    BY <2>1
  <2>3. \A p \in Positions : SlicesOf(slices, p) # {}
    BY <2>1 DEF SlicesOf
  <2> QED BY <1>2, <1>3, <2>2, <2>3 DEF PlainTables
<1>5. TypeInv
  <2>1. TypeOK
    BY <1>2, <1>3, TypeIs
  <2>2. IsFiniteSet(assignments)
    BY <1>2, FS_EmptySet
  <2>3. \A p \in AllPositions : Whole(SlicesOf(slices, p))
    BY <1>4, PlainWhole DEF PlainTables
  <2>4. \A n \in People : Whole(JobsOf(assignments, n))
    BY <1>2 DEF JobsOf, Whole
  <2> QED BY <2>1, <2>2, <2>3, <2>4 DEF TypeInv, Valid
<1>6. \A t \in Txs : tx[t].stage = "idle" /\ held[t] = {}
  BY <1>2 DEF Idle
<1>7. Exclusive /\ Apart
  BY <1>6 DEF Exclusive, Apart, WritesJob
<1> QED BY <1>2, <1>4, <1>5, <1>6, <1>7 DEF SerialInv

LEMMA SerialStep ==
    ASSUME ~InDateOrder, SerialInv, [TxNext]_allVars
    PROVE  SerialInv' /\ (UNCHANGED vars \/ (vars' # vars /\ Next))
<1>1. CASE UNCHANGED allVars
  <2>1. UNCHANGED vars /\ tx' = tx /\ held' = held
    BY <1>1 DEF allVars, vars
  <2> QED BY <2>1 DEF SerialInv, vars, TypeInv, TypeOK, PlainTables, SlicesOf, Exclusive, Apart, WritesJob
<1>2. ASSUME NEW t \in Txs, NEW op, NEW n, NEW p, NEW f, NEW d \in Days, Begin(t, op, n, p, f, d),
             \/ op \in {"create", "update"} /\ n \in People /\ p \in Positions /\ f \in Shares
             \/ op = "rescind" /\ n \in People
             \/ op = "correct_position" /\ p \in Positions /\ f \in Capacities
      PROVE  SerialInv' /\ UNCHANGED vars
  BY <1>2, BeginKeeps DEF Begin
<1>3. ASSUME NEW t \in Txs, LockNow(t) \/ Granted(t) PROVE SerialInv' /\ UNCHANGED vars
  <2>1. PICK k \in KeysOf(Head(tx[t].want)) : Take(t, k)
    BY <1>3 DEF LockNow, Granted
  <2>2. Asks(t)
    BY <1>3 DEF LockNow, Granted
  <2> QED BY <2>1, <2>2, TakeKeeps DEF Take
<1>4. ASSUME NEW t \in Txs, Wait(t) PROVE SerialInv' /\ UNCHANGED vars
  BY <1>4, WaitKeeps DEF Wait
<1>5. ASSUME NEW t \in Txs, GoOnWithout(t) PROVE SerialInv' /\ UNCHANGED vars
  BY <1>5, GoOnKeeps DEF GoOnWithout
<1>6. ASSUME NEW t \in Txs, Check(t) PROVE SerialInv' /\ UNCHANGED vars
  BY <1>6, CheckKeeps DEF Check
<1>7. ASSUME NEW t \in Txs, Write(t) PROVE SerialInv' /\ UNCHANGED vars
  BY <1>7, WriteKeeps DEF Write
<1>8. ASSUME NEW t \in Txs, CommitTx(t) PROVE SerialInv' /\ Next
  BY <1>8, CommitKeeps, CommitSerial
<1>9. ASSUME NEW t \in Txs, RollbackTx(t) PROVE SerialInv' /\ UNCHANGED vars
  BY <1>9, RollbackKeeps DEF RollbackTx
<1> QED BY <1>1, <1>2, <1>3, <1>4, <1>5, <1>6, <1>7, <1>8, <1>9 DEF TxNext

\* For any number of connections, people, positions and days, operations that run at the
\* same time commit what they would have done alone, one after the other: a check made
\* under the locks still holds when the transaction commits.
THEOREM CommitsAreSerial ==
    ASSUME ~InDateOrder
    PROVE  TxSpec => Serializable
<1>1. TxInit => SerialInv
  BY SerialStart
<1>2. SerialInv /\ [TxNext]_allVars => SerialInv'
  BY SerialStep
<1>3. SerialInv /\ [TxNext]_allVars => [vars' # vars /\ Next]_vars
  BY SerialStep
<1> QED BY <1>1, <1>2, <1>3, PTL DEF TxSpec, Serializable
=============================================================================
