---------------------------- MODULE OrgStaffingTx ----------------------------
(***************************************************************************)
(* The operations of OrgStaffing as database transactions that run at the  *)
(* same time under READ COMMITTED: the advisory lock on a person's         *)
(* timeline, SELECT ... FOR UPDATE on assignments and position slices, the *)
(* capacity check between the locks and the write, the exclusion           *)
(* constraints at the write and the deferred triggers before the commit.   *)
(*                                                                         *)
(* A row is named by its owner and its first day, which no operation here  *)
(* changes.  A refused transaction is one that is rolled back.             *)
(***************************************************************************)
EXTENDS OrgStaffing, Sequences

CONSTANT Txs        \* database connections

\* A table has finitely many rows.
ASSUME FinitePositions == IsFiniteSet(AllPositions)

VARIABLES
    tx,     \* the transaction of each connection, or Idle
    held    \* the locks it holds

allVars == <<assignments, slices, patched, tx, held>>

Idle == [stage |-> "idle"]

\* Every position was made on the first day, and nobody is in one yet.
TxInit ==
    /\ assignments = {} /\ patched = {}
    /\ \E capacity \in [Positions -> Capacities] :
        slices = {[position |-> p, capacity |-> capacity[p], boss |-> None, live |-> TRUE,
                   from |-> 0, to |-> EndOfTime] : p \in Positions}
    /\ tx = [t \in Txs |-> Idle] /\ held = [t \in Txs |-> {}]

-----------------------------------------------------------------------------
(* Locks *)

Want(kind, of, day) == [kind |-> kind, of |-> of, day |-> day]

\* The rows a locking statement selects.
Selected(w) ==
    CASE w.kind = "job"   -> {a \in JobsOf(assignments, w.of) : Covers(a, w.day)}
      [] w.kind = "slice" -> {s \in SlicesOf(slices, w.of) : Covers(s, w.day)}

\* The locks it asks for; pg_advisory_xact_lock has no row.
KeysOf(w) ==
    IF w.kind = "person" THEN {<<"person", w.of, 0>>}
    ELSE {<<IF w.kind = "slice" THEN "slice" ELSE "job", w.of, r.from>> : r \in Selected(w)}

Holders(k) == {t \in Txs : k \in held[t]}

\* Ids are compared as text: some order, the same for everybody.
Rank == CHOOSE rank \in [AllPositions -> 1..Cardinality(AllPositions)] :
            \A p, q \in AllPositions : p # q => rank[p] # rank[q]

\* Faulty variant: the old position is locked first.
SliceWantsUnsorted(old, new, d) ==
    IF old = new THEN <<Want("slice", new, d)>>
    ELSE <<Want("slice", old, d), Want("slice", new, d)>>

\* UpdateAssignment locks the slices of the old and the new position in the order of their ids.
SliceWants(old, new, d) ==
    IF old = new THEN <<Want("slice", new, d)>>
    ELSE IF Rank[old] < Rank[new] THEN <<Want("slice", old, d), Want("slice", new, d)>>
    ELSE <<Want("slice", new, d), Want("slice", old, d)>>

\* Faulty variants: CreateAssignment reads the slice without a lock, or the timeline
\* without the advisory lock.
FirstWantsUnlockedSlice(op, n, p, d) ==
    CASE op = "create"           -> <<Want("person", n, 0), Want("job", n, d)>>
      [] op = "update"           -> <<Want("job", n, d)>>
      [] op = "rescind"          -> <<Want("job", n, d)>>
      [] op = "correct_position" -> <<Want("slice", p, d)>>

\* The locks each operation takes, in order; UpdateAssignment goes on with SliceWants.
FirstWants(op, n, p, d) ==
    CASE op = "create"           -> <<Want("person", n, 0), Want("job", n, d), Want("slice", p, d)>>
      [] op = "update"           -> <<Want("job", n, d)>>
      [] op = "rescind"          -> <<Want("job", n, d)>>
      [] op = "correct_position" -> <<Want("slice", p, d)>>

\* The assignments of n and the slice of p that t has locked: nobody else changes them.
MyJobs(t, n)   == {a \in JobsOf(assignments, n) : <<"job", n, a.from>> \in held[t]}
MySlices(t, p) == {s \in SlicesOf(slices, p) : <<"slice", p, s.from>> \in held[t]}

-----------------------------------------------------------------------------
(* Steps of a transaction *)

Stage(t, stages) == tx[t].stage \in stages

\* A request starts; one for a row that is not there ends at once, and is left out.
Begin(t, op, n, p, f, d) ==
    /\ Stage(t, {"idle"})
    /\ op \in Ops /\ InOrder(d)
    /\ op # "create" => Selected(Head(FirstWants(op, n, p, d))) # {}
    /\ tx' = [tx EXCEPT ![t] = [op |-> op, person |-> n, position |-> p, amount |-> f, day |-> d,
                                stage |-> "lock", want |-> FirstWants(op, n, p, d), waits |-> None,
                                old |-> {}, new |-> {}]]
    /\ UNCHANGED <<vars, held>>

\* The rules each operation checks on an assignment it has just locked.
MayUse(t, a) ==
    a.from < tx[t].day /\ (tx[t].op = "create" => a.status = "inactive")

\* Lock k and go on.
Take(t, k) ==
    LET w    == Head(tx[t].want)
        rows == {r \in Selected(w) : r.from = k[3]}
    IN  /\ Holders(k) \subseteq {t}
        /\ w.kind = "job" => \A a \in rows : MayUse(t, a)
        /\ held' = [held EXCEPT ![t] = @ \cup {k}]
        /\ tx' = [tx EXCEPT ![t].waits = None,
                            ![t].want =
                                IF w.kind = "job" /\ tx[t].op = "update"
                                THEN SliceWants((CHOOSE a \in rows : TRUE).position, tx[t].position, tx[t].day)
                                ELSE Tail(@)]
        /\ UNCHANGED vars

Asks(t) == Stage(t, {"lock"}) /\ tx[t].want # <<>>

LockNow(t) ==
    /\ Asks(t) /\ tx[t].waits = None
    /\ \E k \in KeysOf(Head(tx[t].want)) : Take(t, k)

\* Another transaction has the row: the statement waits for it.
Wait(t) ==
    /\ Asks(t) /\ tx[t].waits = None
    /\ \E k \in KeysOf(Head(tx[t].want)) :
        /\ Holders(k) \ {t} # {}
        /\ tx' = [tx EXCEPT ![t].waits = k]
    /\ UNCHANGED <<vars, held>>

\* When the other one has ended the row is looked at again, and no other row.
Granted(t) ==
    /\ Asks(t) /\ tx[t].waits # None
    /\ tx[t].waits \in KeysOf(Head(tx[t].want))
    /\ Take(t, tx[t].waits)

\* A hire needs no row before it.  (The row waited for may be gone, or no longer match.)
GoOnWithout(t) ==
    /\ Asks(t)
    /\ tx[t].op = "create" /\ Head(tx[t].want).kind = "job"
    /\ IF tx[t].waits = None THEN KeysOf(Head(tx[t].want)) = {}
       ELSE Holders(tx[t].waits) = {} /\ tx[t].waits \notin KeysOf(Head(tx[t].want))
    /\ tx' = [tx EXCEPT ![t].waits = None, ![t].want = Tail(@)]
    /\ UNCHANGED <<vars, held>>

\* The capacity check reads what is committed now, on the operation's day only.
HasRoom(t) ==
    LET x == tx[t]
    IN  CASE x.op = "create" ->
                 \E s \in SlicesOf(slices, x.position) :
                     Covers(s, x.day) /\ Occupied(assignments, x.position, x.day) + x.amount <= s.capacity
          [] x.op = "update" ->
                 \E s \in MySlices(t, x.position), a \in MyJobs(t, x.person) :
                     Covers(s, x.day) /\ OthersIn(a, x.position, x.day) + x.amount <= s.capacity
          [] x.op = "correct_position" ->
                 \E s \in MySlices(t, x.position) :
                     x.amount # s.capacity => Occupied(assignments, x.position, s.from) <= x.amount
          [] OTHER -> TRUE

Check(t) ==
    /\ Stage(t, {"lock"}) /\ tx[t].want = <<>>
    /\ HasRoom(t)
    /\ tx' = [tx EXCEPT ![t].stage = "checked"]
    /\ UNCHANGED <<vars, held>>

\* The rows an operation replaces, and their replacements.
Replaced(t) ==
    IF tx[t].op = "correct_position" THEN MySlices(t, tx[t].position) ELSE MyJobs(t, tx[t].person)

Replacement(t) ==
    LET x    == tx[t]
        mine == Replaced(t)
        cut  == {[a EXCEPT !.to = x.day - 1] : a \in mine}
    IN  CASE x.op = "create"  -> cut \cup {Job(x.person, x.position, x.amount, "active", x.day, EndOfTime)}
          [] x.op = "update"  -> cut \cup {[a EXCEPT !.position = x.position, !.fte = x.amount, !.from = x.day] : a \in mine}
          [] x.op = "rescind" -> cut \cup {[a EXCEPT !.status = "inactive", !.from = x.day] : a \in {b \in mine : b.status = "active"}}
          [] x.op = "correct_position" -> {[s EXCEPT !.capacity = x.amount] : s \in mine}

Meets(r, s) == r.person = s.person /\ r.from <= s.to /\ s.from <= r.to

\* The exclusion constraint waits for a transaction that is writing the same days.
WriteWaitsFor(t, u) ==
    /\ u # t /\ Stage(t, {"checked"}) /\ Stage(u, {"written"})
    /\ tx[t].op # "correct_position" /\ tx[u].op # "correct_position"
    /\ \E r \in Replacement(t), s \in tx[u].old \cup tx[u].new : Meets(r, s)

Write(t) ==
    /\ Stage(t, {"checked"})
    /\ \A u \in Txs : ~WriteWaitsFor(t, u)
    /\ tx[t].op # "correct_position" =>
           ~\E r \in Replacement(t), s \in assignments \ Replaced(t) : Meets(r, s)
    /\ tx' = [tx EXCEPT ![t].stage = "written", ![t].old = Replaced(t), ![t].new = Replacement(t)]
    /\ UNCHANGED <<vars, held>>

After(t, rows) == (rows \ tx[t].old) \cup tx[t].new

End(t) ==
    /\ tx'   = [tx EXCEPT ![t] = Idle]
    /\ held' = [held EXCEPT ![t] = {}]

\* The deferred trigger looks at what is committed and at its own rows.
CommitTx(t) ==
    /\ Stage(t, {"written"})
    /\ tx[t].op # "correct_position" => Whole(JobsOf(After(t, assignments), tx[t].person))
    /\ IF tx[t].op = "correct_position"
       THEN slices' = After(t, slices) /\ UNCHANGED assignments
       ELSE assignments' = After(t, assignments) /\ UNCHANGED slices
    /\ Checked
    /\ End(t)

\* Refused, cancelled, or chosen by the deadlock detector.
RollbackTx(t) ==
    /\ ~Stage(t, {"idle"})
    /\ End(t)
    /\ UNCHANGED vars

TxNext ==
    \E t \in Txs :
        \/ \E n \in People, p \in Positions, d \in Days :
            \/ \E op \in {"create", "update"}, f \in Shares : Begin(t, op, n, p, f, d)
            \/ Begin(t, "rescind", n, None, 0, d)
            \/ \E c \in Capacities : Begin(t, "correct_position", None, p, c, d)
        \/ LockNow(t) \/ Wait(t) \/ Granted(t) \/ GoOnWithout(t)
        \/ Check(t) \/ Write(t) \/ CommitTx(t) \/ RollbackTx(t)

TxSpec == TxInit /\ [][TxNext]_allVars

-----------------------------------------------------------------------------
(* Properties *)

\* Transactions that run at the same time have the effect of running alone, one after the
\* other as they commit: every check still holds when its transaction commits.
Serializable == [][vars' # vars /\ Next]_vars

\* t waits for a lock or a row of u.
WaitsFor(t, u) ==
    \/ t # u /\ Asks(t) /\ tx[t].waits # None /\ tx[t].waits \in held[u]
    \/ WriteWaitsFor(t, u)

\* No circle of transactions that wait for one another: the locks have one order ("to
\* avoid deadlock", docs/dev-plans/053-position-core-schema-service-api.md:429).
NoWaitCycle ==
    \A circle \in (SUBSET Txs) \ {{}} : ~\A t \in circle : \E u \in circle : WaitsFor(t, u)
=============================================================================
