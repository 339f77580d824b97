--------------------------- MODULE OrgCacheProofs ---------------------------
(***************************************************************************)
(* When the tenant cache is out of date, for any number of processes,      *)
(* keys, concurrent reads, writes and personnel events.                    *)
(***************************************************************************)
EXTENDS OrgCache, TLAPS

\* Every entry is in the tenant's index, where InvalidateTenant finds it.
Indexed == \A p \in Procs, k \in Keys : entries[p][k] # Missing => k \in index[p]

\* Nothing is answered, or about to be, and nothing was read that is not committed.
Committed ==
    /\ \A p \in Procs : acked[p] <= version
    /\ \A w \in Writers : write[w] # None => write[w].version <= version
    /\ \A p \in Procs, k \in Keys : entries[p][k] # Missing => entries[p][k].version <= version
    /\ \A r \in Readers : fill[r] # None => fill[r].version <= version

\* What was read lost one of the two races.
Raced(x) == x.races \cap {"write", "early"} # {}

\* Whatever process p has stored, or is about to, without write n, lost a race.
Covered(p, n) ==
    /\ \A k \in Keys : entries[p][k] # Missing /\ entries[p][k].version < n => Raced(entries[p][k])
    /\ \A r \in Readers : fill[r] # None /\ fill[r].proc = p /\ fill[r].version < n => Raced(fill[r])

AnsweredCovered == \A p \in Procs : Covered(p, acked[p])

\* A personnel event that has invalidated has done what it will do for the cache: of
\* all that was read so far whatever is still there lost a race with it, and no
\* more happens between its commit and its answer.
Relied(w, p, n) ==
    /\ write[w] # None /\ write[w].proc = p
    /\ \/ write[w].step = "invalidated" /\ n = version + 1
       \/ write[w].kind = "nested" /\ write[w].step = "committed" /\ n = write[w].version

NestedCovered == \A w \in Writers, p \in Procs, n \in Nat : Relied(w, p, n) => Covered(p, n)

CacheInv == TypeOK /\ Indexed /\ Committed /\ AnsweredCovered /\ NestedCovered

-----------------------------------------------------------------------------

\* An invalidation marks reads and removes entries, of whatever process.
LEMMA InvalidationTyped ==
    ASSUME TypeOK, NEW p \in Procs, NEW by \in {"write", "event"}, NEW n, InvalidateTenant(p, by, n)
    PROVE  /\ entries' \in [Procs -> [Keys -> Results \cup {Missing}]]
           /\ index' \in [Procs -> SUBSET Keys]
           /\ fill' \in [Readers -> Fills \cup {None}]
<1> USE DEF TypeOK, InvalidateTenant
<1>1. entries' \in [Procs -> [Keys -> Results \cup {Missing}]] /\ index' \in [Procs -> SUBSET Keys]
  OBVIOUS
<1>2. ASSUME NEW f \in Fills PROVE [f EXCEPT !.races = @ \cup {by}] \in Fills
  BY DEF Fills, Races
<1> QED BY <1>1, <1>2

\* Every step preserves the types, whoever reads, writes, delivers or restarts.
LEMMA TypeStep == TypeOK /\ [Next]_vars => TypeOK'
<1> SUFFICES ASSUME TypeOK, [Next]_vars PROVE TypeOK'
  OBVIOUS
<1> USE CacheAssumption, NoneAssumption DEF TypeOK, Versions
<1>1. ASSUME NEW r \in Readers, ReaderStep(r) PROVE TypeOK'
  <2>1. CASE EndFill(r)
    <3>1. fill[r] \in Fills /\ Result(fill[r]) \in Results
      BY <2>1 DEF EndFill, Fills, Result, Results
    <3>2. fill[r].proc \in Procs /\ fill[r].key \in Keys
      BY <3>1 DEF Fills
    <3> QED BY <2>1, <3>1, <3>2 DEF EndFill
  <2>2. ASSUME NEW p \in Procs, NEW k \in Keys, StartFill(r, p, k) PROVE TypeOK'
    <3>1. [proc |-> p, key |-> k, version |-> version,
           races |-> IF Uncommitted(p) THEN {"early"} ELSE {}] \in Fills
      BY DEF Fills, Races
    <3> QED BY <2>2, <3>1 DEF StartFill
  <2> QED BY <1>1, <2>1, <2>2 DEF ReaderStep
<1>2. ASSUME NEW w \in Writers, WriterStep(w) PROVE TypeOK'
  <2>1. ASSUME NEW p \in Procs, NEW kind \in Kinds, BeginWrite(w, p, kind) PROVE TypeOK'
    BY <2>1 DEF BeginWrite, Writes
  <2>2. CASE InvalidateInside(w)
    <3>1. write[w] \in Writes /\ write[w].proc \in Procs
      BY <2>2 DEF InvalidateInside, Writes
    <3>2. [write[w] EXCEPT !.step = "invalidated"] \in Writes
      BY <3>1 DEF Writes
    <3> QED BY <2>2, <3>1, <3>2, InvalidationTyped DEF InvalidateInside
  <2>3. CASE Commit(w)
    <3>1. version' \in Versions /\ version' # 0 /\ write[w] \in Writes
      BY <2>3 DEF Commit, ReadyToCommit
    <3>2. write' \in [Writers -> Writes \cup {None}]
      BY <2>3, <3>1 DEF Commit, Writes
    <3> QED BY <2>3, <3>1, <3>2 DEF Commit
  <2>4. CASE Rollback(w)
    BY <2>4 DEF Rollback, Writes
  <2>5. CASE FinishPlain(w)
    <3>1. write[w].proc \in Procs /\ write[w].version \in Versions
      BY <2>5 DEF FinishPlain, Writes
    <3>2. acked' \in [Procs -> Versions] /\ write' \in [Writers -> Writes \cup {None}]
      BY <2>5, <3>1 DEF FinishPlain, Answer
    <3> QED BY <2>5, <3>1, <3>2, InvalidationTyped DEF FinishPlain, Answer
  <2>6. CASE FinishNested(w)
    BY <2>6 DEF FinishNested, Answer, Writes
  <2> QED BY <1>2, <2>1, <2>2, <2>3, <2>4, <2>5, <2>6 DEF WriterStep
<1>3. ASSUME NEW e \in events, Deliver(e) PROVE TypeOK'
  BY <1>3, InvalidationTyped DEF Deliver
<1>4. ASSUME NEW p \in Procs, Takeover(p) PROVE TypeOK'
  BY <1>4 DEF Takeover
<1>5. ASSUME NEW p \in Procs, Restart(p) PROVE TypeOK'
  BY <1>5 DEF Restart, Empty
<1>6. CASE UNCHANGED vars
  BY <1>6 DEF vars
<1> QED BY <1>1, <1>2, <1>3, <1>4, <1>5, <1>6 DEF Next

\* Types hold in every reachable state, for every process, key and request.
THEOREM CacheTypeCorrect == Spec => []TypeOK
<1>1. Init => TypeOK
  BY CacheAssumption DEF Init, TypeOK, Versions, Empty
<1> QED BY <1>1, TypeStep, PTL DEF Spec

-----------------------------------------------------------------------------

\* After an invalidation for write n the process has no entry of the tenant left,
\* and its reads in flight without the write are marked; the others are as before.
LEMMA InvalidationEmpties ==
    ASSUME NEW p \in Procs, NEW by \in {"write", "event"}, NEW n, CacheInv, InvalidateTenant(p, by, n)
    PROVE  /\ \A k \in Keys : entries'[p][k] = Missing
           /\ \A q \in Procs \ {p} : entries'[q] = entries[q] /\ index'[q] = index[q]
           /\ \A r \in Readers : fill[r] = None <=> fill'[r] = None
           /\ \A r \in Readers : fill[r] # None =>
                /\ fill'[r].proc = fill[r].proc /\ fill'[r].version = fill[r].version
                /\ Raced(fill[r]) => Raced(fill'[r])
                /\ by = "write" /\ fill[r].proc = p /\ fill[r].version < n => Raced(fill'[r])
<1> USE NoneAssumption DEF CacheInv, TypeOK, InvalidateTenant
<1>1. \A k \in Keys : entries'[p][k] = Missing
  BY DEF Indexed
<1>2. \A q \in Procs \ {p} : entries'[q] = entries[q] /\ index'[q] = index[q]
  OBVIOUS
<1>3. ASSUME NEW r \in Readers, fill[r] = None PROVE fill'[r] = None
  BY <1>3
<1>4. ASSUME NEW r \in Readers, fill[r] # None
      PROVE  /\ fill'[r] # None
             /\ fill'[r].proc = fill[r].proc /\ fill'[r].version = fill[r].version
             /\ Raced(fill[r]) => Raced(fill'[r])
             /\ by = "write" /\ fill[r].proc = p /\ fill[r].version < n => Raced(fill'[r])
  <2>1. fill[r] \in Fills
    BY <1>4
  <2>2. CASE fill[r].proc = p /\ fill[r].version < n
    <3>1. fill'[r] = [fill[r] EXCEPT !.races = @ \cup {by}]
      BY <1>4, <2>2
    <3>2. fill'[r] \in Fills /\ fill'[r].races = fill[r].races \cup {by}
      BY <2>1, <3>1 DEF Fills, Races
    <3>3. fill'[r].proc = fill[r].proc /\ fill'[r].version = fill[r].version
      BY <2>1, <3>1 DEF Fills
    <3> QED BY <3>2, <3>3 DEF Raced
  <2>3. CASE ~(fill[r].proc = p /\ fill[r].version < n)
    <3>1. fill'[r] = fill[r]
      BY <2>3
    <3> QED BY <1>4, <2>3, <3>1
  <2> QED BY <2>2, <2>3
<1> QED BY <1>1, <1>2, <1>3, <1>4

\* An invalidation covers nothing up: what was covered stays so, in every process,
\* and the writer's own covers its process.
LEMMA InvalidationCovers ==
    ASSUME NEW p \in Procs, NEW by \in {"write", "event"}, NEW n, CacheInv, InvalidateTenant(p, by, n)
    PROVE  /\ Indexed'
           /\ \A q \in Procs : \A m : Covered(q, m) => Covered(q, m)'
           /\ by = "write" => Covered(p, n)'
           /\ \A q \in Procs, k \in Keys : entries'[q][k] # Missing => entries'[q][k] = entries[q][k]
           /\ \A r \in Readers : fill'[r] # None => fill[r] # None /\ fill'[r].version = fill[r].version
<1>1. /\ \A k \in Keys : entries'[p][k] = Missing
      /\ \A q \in Procs \ {p} : entries'[q] = entries[q] /\ index'[q] = index[q]
      /\ \A r \in Readers : fill[r] = None <=> fill'[r] = None
      /\ \A r \in Readers : fill[r] # None =>
           /\ fill'[r].proc = fill[r].proc /\ fill'[r].version = fill[r].version
           /\ Raced(fill[r]) => Raced(fill'[r])
           /\ by = "write" /\ fill[r].proc = p /\ fill[r].version < n => Raced(fill'[r])
  BY InvalidationEmpties
<1>2. Indexed'
  BY <1>1 DEF CacheInv, Indexed
<1>3. ASSUME NEW q \in Procs, NEW m, Covered(q, m) PROVE Covered(q, m)'
  <2>1. \A k \in Keys : entries'[q][k] = Missing \/ entries'[q][k] = entries[q][k]
    BY <1>1
  <2> QED BY <1>1, <1>3, <2>1 DEF Covered
<1>4. by = "write" => Covered(p, n)'
  BY <1>1 DEF Covered
<1>5. \A q \in Procs, k \in Keys : entries'[q][k] # Missing => entries'[q][k] = entries[q][k]
  BY <1>1
<1> QED BY <1>1, <1>2, <1>3, <1>4, <1>5

\* A read that begins is of the present state of the tables, and is marked when a
\* personnel event has invalidated already.
LEMMA StartFillStep ==
    ASSUME CacheInv, TypeOK', NEW r \in Readers, NEW p \in Procs, NEW k \in Keys, StartFill(r, p, k)
    PROVE  CacheInv'
<1> USE NoneAssumption, CacheAssumption
<1> DEFINE new == [proc |-> p, key |-> k, version |-> version,
                   races |-> IF Uncommitted(p) THEN {"early"} ELSE {}]
<1>1. /\ fill' = [fill EXCEPT ![r] = new]
      /\ UNCHANGED <<version, entries, index, write, acked, events, leader>>
  BY DEF StartFill
<1>2. new.version = version /\ new.proc = p /\ (Uncommitted(p) => Raced(new))
  BY DEF Raced
<1>3. fill'[r] = new /\ \A s \in Readers \ {r} : fill'[s] = fill[s]
  BY <1>1 DEF CacheInv, TypeOK
<1>4. version \in Nat
  BY DEF CacheInv, TypeOK, Versions
<1> HIDE DEF new
<1>5. ASSUME NEW q \in Procs, NEW n \in Int, Covered(q, n), n > version /\ q = p => Uncommitted(p)
      PROVE  Covered(q, n)'
  BY <1>1, <1>2, <1>3, <1>4, <1>5 DEF Covered
<1>6. Indexed' /\ Committed'
  BY <1>1, <1>2, <1>3, <1>4 DEF CacheInv, Indexed, Committed
<1>7. AnsweredCovered'
  <2>1. \A q \in Procs : acked[q] \in Int /\ ~(acked[q] > version)
    BY <1>4 DEF CacheInv, TypeOK, Versions, Committed
  <2> QED BY <1>1, <1>5, <2>1 DEF CacheInv, AnsweredCovered
<1>8. NestedCovered'
  <2> SUFFICES ASSUME NEW w \in Writers, NEW q \in Procs, NEW n \in Nat, Relied(w, q, n)'
               PROVE  Covered(q, n)'
    BY DEF NestedCovered
  <2>1. Relied(w, q, n)
    BY <1>1 DEF Relied
  <2>2. n > version => write[w].step = "invalidated" /\ write[w].proc = q
    BY <1>4, <2>1 DEF Relied, CacheInv, TypeOK, Writes, Versions, Committed
  <2>3. n > version /\ q = p => Uncommitted(p)
    BY <2>1, <2>2 DEF Uncommitted, Relied
  <2>4. Covered(q, n)
    BY <2>1 DEF CacheInv, NestedCovered
  <2> QED BY <1>5, <2>3, <2>4
<1> QED BY <1>6, <1>7, <1>8 DEF CacheInv

\* A result is stored with the races its read has lost.
LEMMA EndFillStep ==
    ASSUME CacheInv, TypeOK', NEW r \in Readers, EndFill(r)
    PROVE  CacheInv'
<1> USE NoneAssumption
<1> DEFINE p == fill[r].proc
           k == fill[r].key
<1>1. fill[r] # None /\ fill[r] \in Fills /\ p \in Procs /\ k \in Keys
  BY DEF CacheInv, TypeOK, EndFill, Fills
<1>2. /\ Result(fill[r]) # Missing
      /\ Result(fill[r]).version = fill[r].version
      /\ Raced(fill[r]) => Raced(Result(fill[r]))
  BY <1>1 DEF Result, Results, Fills, Raced
<1>3. /\ entries' = [entries EXCEPT ![p][k] = Result(fill[r])]
      /\ index' = [index EXCEPT ![p] = @ \cup {k}]
      /\ fill' = [fill EXCEPT ![r] = None]
      /\ UNCHANGED <<version, write, acked, events, leader>>
  BY DEF EndFill
<1>4. /\ fill'[r] = None
      /\ \A s \in Readers : fill'[s] # None => fill'[s] = fill[s]
      /\ entries'[p][k] = Result(fill[r])
      /\ \A q \in Procs, l \in Keys : q # p \/ l # k => entries'[q][l] = entries[q][l]
  BY <1>1, <1>3 DEF CacheInv, TypeOK
<1>5. ASSUME NEW q \in Procs, NEW n, Covered(q, n) PROVE Covered(q, n)'
  BY <1>1, <1>2, <1>4, <1>5 DEF Covered
<1>6. Indexed'
  BY <1>1, <1>3, <1>4 DEF CacheInv, TypeOK, Indexed
<1>7. Committed'
  BY <1>1, <1>2, <1>3, <1>4 DEF CacheInv, Committed
<1>8. AnsweredCovered'
  BY <1>3, <1>5 DEF CacheInv, AnsweredCovered
<1>9. NestedCovered'
  <2>1. \A w \in Writers, q \in Procs, n \in Nat : Relied(w, q, n)' => Relied(w, q, n)
    BY <1>3 DEF Relied
  <2> QED BY <1>5, <2>1 DEF CacheInv, NestedCovered
<1> QED BY <1>6, <1>7, <1>8, <1>9 DEF CacheInv

\* A commit leaves the cache alone: for a personnel event everything older is covered
\* already, a plain write has its invalidation before it.
LEMMA CommitStep ==
    ASSUME CacheInv, TypeOK', NEW w \in Writers, Commit(w)
    PROVE  CacheInv'
<1> USE NoneAssumption
<1>1. /\ version' = version + 1
      /\ UNCHANGED <<entries, index, fill, acked, leader>>
      /\ write[w] # None /\ write[w] \in Writes
      /\ write[w].kind = "nested" => write[w].step = "invalidated"
      /\ write' = [write EXCEPT ![w].step = "committed", ![w].version = version']
  BY DEF Commit, ReadyToCommit, CacheInv, TypeOK
<1>2. /\ version \in Nat /\ version' \in Nat
      /\ \A p \in Procs : acked[p] \in Nat
      /\ \A u \in Writers : write[u] # None => write[u].version \in Nat /\ write[u].proc \in Procs
      /\ \A p \in Procs, k \in Keys : entries[p][k] # Missing => entries[p][k].version \in Nat
      /\ \A r \in Readers : fill[r] # None => fill[r].version \in Nat
  BY <1>1, CacheAssumption DEF CacheInv, TypeOK, Versions, Writes, Results, Fills
<1>3. /\ write'[w].proc = write[w].proc /\ write'[w].kind = write[w].kind
      /\ write'[w].step = "committed" /\ write'[w].version = version + 1
      /\ \A u \in Writers \ {w} : write'[u] = write[u]
  BY <1>1 DEF CacheInv, TypeOK, Writes
<1>4. ASSUME NEW p \in Procs, NEW n, Covered(p, n) PROVE Covered(p, n)'
  BY <1>1, <1>4 DEF Covered
<1>5. Indexed' /\ AnsweredCovered'
  BY <1>1, <1>2, <1>4 DEF CacheInv, Indexed, AnsweredCovered
<1>6. Committed'
  <2>1. \A n \in Nat : n <= version => n <= version'
    BY <1>1, <1>2
  <2>2. \A p \in Procs : acked'[p] <= version'
    BY <1>1, <1>2, <2>1 DEF CacheInv, Committed
  <2>3. ASSUME NEW u \in Writers, write'[u] # None PROVE write'[u].version <= version'
    <3>1. CASE u = w
      BY <1>1, <1>2, <1>3, <3>1
    <3>2. CASE u # w
      BY <1>1, <1>2, <1>3, <2>1, <2>3, <3>2 DEF CacheInv, Committed
    <3> QED BY <3>1, <3>2
  <2>4. \A p \in Procs, k \in Keys : entries'[p][k] # Missing => entries'[p][k].version <= version'
    BY <1>1, <1>2, <2>1 DEF CacheInv, Committed
  <2>5. \A r \in Readers : fill'[r] # None => fill'[r].version <= version'
    BY <1>1, <1>2, <2>1 DEF CacheInv, Committed
  <2> QED BY <2>2, <2>3, <2>4, <2>5 DEF Committed
<1>7. NestedCovered'
  <2> SUFFICES ASSUME NEW u \in Writers, NEW p \in Procs, NEW n \in Nat, Relied(u, p, n)'
               PROVE  Covered(p, n)
    BY <1>4 DEF NestedCovered
  <2>1. CASE u = w
    <3>1. n = version + 1 /\ write[w].step = "invalidated" /\ write[w].proc = p
      BY <1>1, <1>3, <2>1 DEF Relied
    <3>2. Relied(w, p, n)
      BY <1>1, <3>1 DEF Relied
    <3> QED BY <3>2 DEF CacheInv, NestedCovered
  <2>2. CASE u # w /\ n = version' + 1 /\ write[u].step = "invalidated"
    <3>1. Relied(u, p, version + 1)
      BY <1>3, <2>2 DEF Relied
    <3>2. Covered(p, version + 1)
      BY <1>2, <3>1 DEF CacheInv, NestedCovered
    <3>3. \A k \in Keys : entries[p][k] # Missing => entries[p][k].version < version + 1
      BY <1>2 DEF CacheInv, Committed
    <3>4. \A r \in Readers : fill[r] # None => fill[r].version < version + 1
      BY <1>2 DEF CacheInv, Committed
    <3> QED BY <3>2, <3>3, <3>4 DEF Covered
  <2>3. CASE u # w /\ write[u].kind = "nested" /\ write[u].step = "committed" /\ n = write[u].version
    <3>1. Relied(u, p, n)
      BY <1>3, <2>3 DEF Relied
    <3> QED BY <3>1 DEF CacheInv, NestedCovered
  <2> QED BY <1>3, <2>1, <2>2, <2>3 DEF Relied
<1> QED BY <1>5, <1>6, <1>7 DEF CacheInv

\* Three kinds of steps invalidate, and each asks of the cache no more than its
\* invalidation gives: that the writer's process is covered up to its write.
LEMMA InvalidatingStep ==
    ASSUME CacheInv, TypeOK', version' = version,
           NEW p \in Procs, NEW by \in {"write", "event"}, NEW n, InvalidateTenant(p, by, n),
           \A q \in Procs : acked'[q] <= version /\ (acked'[q] = acked[q] \/ (by = "write" /\ q = p /\ acked'[q] = n)),
           \A u \in Writers : write'[u] # None => write'[u].version <= version,
           \A u \in Writers, q \in Procs, m \in Nat :
               Relied(u, q, m)' => Relied(u, q, m) \/ (by = "write" /\ q = p /\ m = n)
    PROVE  CacheInv'
<1>1. /\ Indexed'
      /\ \A q \in Procs : \A m : Covered(q, m) => Covered(q, m)'
      /\ by = "write" => Covered(p, n)'
      /\ \A q \in Procs, k \in Keys : entries'[q][k] # Missing => entries'[q][k] = entries[q][k]
      /\ \A r \in Readers : fill'[r] # None => fill[r] # None /\ fill'[r].version = fill[r].version
  BY InvalidationCovers
<1>2. Committed'
  BY <1>1 DEF CacheInv, Committed
<1>3. AnsweredCovered'
  <2> SUFFICES ASSUME NEW q \in Procs, NEW m, m = acked'[q] PROVE Covered(q, m)'
    BY DEF AnsweredCovered, Covered
  <2>1. CASE m = acked[q]
    BY <1>1, <2>1 DEF CacheInv, AnsweredCovered
  <2>2. CASE by = "write" /\ q = p /\ m = n
    BY <1>1, <2>2
  <2> QED BY <2>1, <2>2
<1>4. NestedCovered'
  <2> SUFFICES ASSUME NEW u \in Writers, NEW q \in Procs, NEW m \in Nat, Relied(u, q, m)'
               PROVE  Covered(q, m)'
    BY DEF NestedCovered
  <2>1. CASE Relied(u, q, m)
    BY <1>1, <2>1 DEF CacheInv, NestedCovered
  <2>2. CASE by = "write" /\ q = p /\ m = n
    BY <1>1, <2>2
  <2> QED BY <2>1, <2>2
<1> QED BY <1>1, <1>2, <1>3, <1>4 DEF CacheInv

LEMMA InvalidateInsideStep ==
    ASSUME CacheInv, TypeOK', NEW w \in Writers, InvalidateInside(w)
    PROVE  CacheInv'
<1>1. PICK p \in Procs : p = write[w].proc
  BY NoneAssumption DEF InvalidateInside, CacheInv, TypeOK, Writes
<1>2. /\ write[w] # None /\ write[w].kind = "nested" /\ write[w] \in Writes
      /\ InvalidateTenant(p, "write", version + 1)
      /\ write' = [write EXCEPT ![w].step = "invalidated"]
      /\ UNCHANGED <<version, acked, events, leader>>
  BY <1>1 DEF InvalidateInside, CacheInv, TypeOK
<1>3. /\ write'[w].proc = p /\ write'[w].step = "invalidated" /\ write'[w].version = write[w].version
      /\ \A u \in Writers \ {w} : write'[u] = write[u]
  BY <1>1, <1>2 DEF CacheInv, TypeOK, Writes
<1>4. \A q \in Procs : acked'[q] <= version /\ acked'[q] = acked[q]
  BY <1>2 DEF CacheInv, Committed
<1>5. \A u \in Writers : write'[u] # None => write'[u].version <= version
  BY <1>2, <1>3 DEF CacheInv, Committed
<1>6. ASSUME NEW u \in Writers, NEW q \in Procs, NEW m \in Nat, Relied(u, q, m)'
      PROVE  Relied(u, q, m) \/ (q = p /\ m = version + 1)
  <2>1. CASE u = w
    BY <1>2, <1>3, <1>6, <2>1 DEF Relied
  <2>2. CASE u # w
    BY <1>2, <1>3, <1>6, <2>2 DEF Relied
  <2> QED BY <2>1, <2>2
<1> QED BY <1>2, <1>4, <1>5, <1>6, InvalidatingStep

\* What an answer changes: the writer is done, and its process owes its write.
LEMMA AnswerIs ==
    ASSUME CacheInv, NEW w \in Writers, write[w] # None, Answer(w)
    PROVE  /\ version' = version
           /\ \A u \in Writers : write'[u] # None => write'[u] = write[u] /\ write[u].version <= version
           /\ \A q \in Procs : /\ acked'[q] <= version
                               /\ acked'[q] = acked[q] \/ (q = write[w].proc /\ acked'[q] = write[w].version)
           /\ \A u \in Writers, q \in Procs, m \in Nat : Relied(u, q, m)' => Relied(u, q, m)
<1>1. /\ version' = version
      /\ acked' = [acked EXCEPT ![write[w].proc] = IF write[w].version > @ THEN write[w].version ELSE @]
      /\ write' = [write EXCEPT ![w] = None]
  BY DEF Answer
<1>2. \A u \in Writers : write'[u] # None => write'[u] = write[u] /\ write[u].version <= version
  BY <1>1 DEF CacheInv, TypeOK, Committed
<1>3. \A q \in Procs : /\ acked'[q] <= version
                       /\ acked'[q] = acked[q] \/ (q = write[w].proc /\ acked'[q] = write[w].version)
  BY <1>1 DEF CacheInv, TypeOK, Committed
<1> QED BY <1>1, <1>2, <1>3 DEF Relied

LEMMA FinishPlainStep ==
    ASSUME CacheInv, TypeOK', NEW w \in Writers, FinishPlain(w)
    PROVE  CacheInv'
<1>1. PICK p \in Procs : p = write[w].proc
  BY NoneAssumption DEF FinishPlain, CacheInv, TypeOK, Writes
<1>2. write[w] # None /\ InvalidateTenant(p, "write", write[w].version) /\ Answer(w)
  BY <1>1 DEF FinishPlain
<1>3. PICK n : n = write[w].version
  OBVIOUS
<1>4. InvalidateTenant(p, "write", n)
  BY <1>2, <1>3
<1> QED BY <1>1, <1>2, <1>3, <1>4, AnswerIs, InvalidatingStep

\* A personnel event answers without touching the cache: it is covered already.
LEMMA FinishNestedStep ==
    ASSUME CacheInv, TypeOK', NEW w \in Writers, FinishNested(w)
    PROVE  CacheInv'
<1>1. /\ write[w] # None /\ write[w].kind = "nested" /\ write[w].step = "committed"
      /\ UNCHANGED <<entries, index, fill>> /\ Answer(w)
  BY DEF FinishNested
<1>2. write[w].proc \in Procs /\ write[w].version \in Nat
  BY <1>1, CacheAssumption DEF CacheInv, TypeOK, Writes, Versions
<1>3. /\ version' = version
      /\ \A u \in Writers : write'[u] # None => write'[u] = write[u] /\ write[u].version <= version
      /\ \A q \in Procs : /\ acked'[q] <= version
                          /\ acked'[q] = acked[q] \/ (q = write[w].proc /\ acked'[q] = write[w].version)
      /\ \A u \in Writers, q \in Procs, m \in Nat : Relied(u, q, m)' => Relied(u, q, m)
  BY <1>1, AnswerIs
<1>4. ASSUME NEW q \in Procs, NEW n, Covered(q, n) PROVE Covered(q, n)'
  BY <1>1, <1>4 DEF Covered
<1>5. Indexed' /\ Committed'
  BY <1>1, <1>3 DEF CacheInv, Indexed, Committed
<1>6. AnsweredCovered'
  <2>1. Covered(write[w].proc, write[w].version)
    BY <1>1, <1>2 DEF CacheInv, NestedCovered, Relied
  <2>2. \A q \in Procs : Covered(q, acked'[q])
    BY <1>2, <1>3, <2>1 DEF CacheInv, AnsweredCovered
  <2> QED BY <1>1, <2>2 DEF AnsweredCovered, Covered
<1>7. NestedCovered'
  BY <1>3, <1>4 DEF CacheInv, NestedCovered
<1> QED BY <1>5, <1>6, <1>7 DEF CacheInv

\* A process that restarts has nothing stored and nothing under way.
LEMMA RestartStep ==
    ASSUME CacheInv, TypeOK', NEW p \in Procs, Restart(p)
    PROVE  CacheInv'
<1> USE NoneAssumption
<1>1. /\ UNCHANGED <<version, acked>>
      /\ \A q \in Procs, k \in Keys : entries'[q][k] # Missing =>
           q # p /\ entries'[q][k] = entries[q][k] /\ index'[q] = index[q]
      /\ \A r \in Readers : fill'[r] # None => fill'[r] = fill[r]
      /\ \A w \in Writers : write'[w] # None => write'[w] = write[w]
  BY DEF Restart, Empty, CacheInv, TypeOK
<1>2. ASSUME NEW q \in Procs, NEW n, Covered(q, n) PROVE Covered(q, n)'
  BY <1>1, <1>2 DEF Covered
<1>3. Indexed' /\ Committed'
  BY <1>1 DEF CacheInv, Indexed, Committed
<1>4. \A w \in Writers, q \in Procs, n \in Nat : Relied(w, q, n)' => Relied(w, q, n)
  BY <1>1 DEF Relied
<1>5. AnsweredCovered' /\ NestedCovered'
  BY <1>1, <1>2, <1>4 DEF CacheInv, AnsweredCovered, NestedCovered
<1> QED BY <1>3, <1>5 DEF CacheInv

\* Steps that leave the cache, its reads and what writes have done as they are.
LEMMA CalmStep ==
    ASSUME CacheInv, TypeOK', UNCHANGED <<version, entries, index, fill, acked>>,
           \A w \in Writers : write'[w] # None => write'[w] = write[w] \/ (write'[w].step = "begun" /\ write'[w].version = 0)
    PROVE  CacheInv'
<1>1. version \in Nat
  BY CacheAssumption DEF CacheInv, TypeOK, Versions
<1>2. ASSUME NEW q \in Procs, NEW n, Covered(q, n) PROVE Covered(q, n)'
  BY <1>2 DEF Covered
<1>3. \A w \in Writers, q \in Procs, n \in Nat : Relied(w, q, n)' => Relied(w, q, n)
  BY DEF Relied
<1>4. Indexed' /\ Committed'
  BY <1>1 DEF CacheInv, Indexed, Committed
<1>5. AnsweredCovered' /\ NestedCovered'
  BY <1>2, <1>3 DEF CacheInv, AnsweredCovered, NestedCovered
<1> QED BY <1>4, <1>5 DEF CacheInv

LEMMA CacheStep == CacheInv /\ [Next]_vars => CacheInv'
<1> SUFFICES ASSUME CacheInv, [Next]_vars PROVE CacheInv'
  OBVIOUS
<1> USE NoneAssumption
<1>0. TypeOK'
  BY TypeStep DEF CacheInv
<1>1. ASSUME NEW r \in Readers, ReaderStep(r) PROVE CacheInv'
  BY <1>0, <1>1, StartFillStep, EndFillStep DEF ReaderStep
<1>2. ASSUME NEW w \in Writers, WriterStep(w) PROVE CacheInv'
  <2>1. ASSUME NEW p \in Procs, NEW kind \in Kinds, BeginWrite(w, p, kind) PROVE CacheInv'
    <3>1. \A u \in Writers : write'[u] # None => write'[u] = write[u] \/ (write'[u].step = "begun" /\ write'[u].version = 0)
      BY <2>1 DEF BeginWrite, CacheInv, TypeOK
    <3> QED BY <1>0, <2>1, <3>1, CalmStep DEF BeginWrite
  <2>2. CASE Rollback(w)
    <3>1. \A u \in Writers : write'[u] # None => write'[u] = write[u]
      BY <2>2 DEF Rollback, CacheInv, TypeOK
    <3> QED BY <1>0, <2>2, <3>1, CalmStep DEF Rollback
  <2> QED BY <1>0, <1>2, <2>1, <2>2, InvalidateInsideStep, CommitStep, FinishPlainStep, FinishNestedStep DEF WriterStep
<1>3. ASSUME NEW e \in events, Deliver(e) PROVE CacheInv'
  <2>1. leader \in Procs /\ InvalidateTenant(leader, "event", e) /\ UNCHANGED <<version, write, acked>>
    BY <1>3 DEF Deliver, CacheInv, TypeOK
  <2>2. \A q \in Procs : acked'[q] <= version /\ acked'[q] = acked[q]
    BY <2>1 DEF CacheInv, Committed
  <2>3. \A u \in Writers : write'[u] # None => write'[u].version <= version
    BY <2>1 DEF CacheInv, Committed
  <2>4. \A u \in Writers, q \in Procs, m \in Nat : Relied(u, q, m)' => Relied(u, q, m)
    BY <2>1 DEF Relied
  <2> QED BY <1>0, <2>1, <2>2, <2>3, <2>4, InvalidatingStep
<1>4. ASSUME NEW p \in Procs, Takeover(p) PROVE CacheInv'
  BY <1>0, <1>4, CalmStep DEF Takeover
<1>5. ASSUME NEW p \in Procs, Restart(p) PROVE CacheInv'
  BY <1>0, <1>5, RestartStep
<1>6. CASE UNCHANGED vars
  BY <1>0, <1>6, CalmStep DEF vars
<1> QED BY <1>1, <1>2, <1>3, <1>4, <1>5, <1>6 DEF Next

\* A process serves less than it has answered only if a writer's invalidation
\* overtook the read, or the read was begun inside a personnel event that had
\* invalidated already: whatever else runs at the same time, there is no third way.
THEOREM OutdatedOnlyInTwoWays == Spec => []OutdatedOnlyByRace
<1>1. Init => CacheInv
  BY CacheAssumption DEF Init, CacheInv, TypeOK, Versions, Empty, Indexed, Committed, Covered,
     AnsweredCovered, Relied, NestedCovered
<1>2. CacheInv => OutdatedOnlyByRace
  BY DEF CacheInv, AnsweredCovered, Covered, Raced, OutdatedOnlyByRace, Outdated
<1> QED BY <1>1, <1>2, CacheStep, PTL DEF Spec
=============================================================================
