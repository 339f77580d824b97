------------------------------ MODULE OrgCache ------------------------------
(***************************************************************************)
(* The tenant cache of modules/org/services: every server process keeps    *)
(* its own map of query results, filled by reads that miss and emptied by  *)
(* tenant, by the process that commits a write and by the process in which *)
(* the outbox relay delivers the write's event.                            *)
(*                                                                         *)
(* One tenant.  What a query returns is abstracted to the number of writes *)
(* committed when its transaction read the tables.                         *)
(***************************************************************************)
EXTENDS Integers

CONSTANTS
    Procs,          \* server processes
    Keys,           \* cache keys of the tenant (kind, date, ...)
    Readers,        \* concurrent reads that missed
    Writers,        \* concurrent writes
    Kinds,          \* "plain": a service call or a batch; "nested": a personnel event
    Missing,        \* no entry
    None,           \* no read or write going on
    Takeovers,      \* the relay's leadership moves between processes
    MaxWrites       \* bound: committed writes

ASSUME CacheAssumption ==
    /\ Kinds \subseteq {"plain", "nested"}
    /\ Takeovers \in BOOLEAN
    /\ MaxWrites \in Nat

Versions == 0..MaxWrites

\* How a read can end up with less than its process has answered: it was stored
\* after the invalidation for a write it had not seen ("write", or "event" when the
\* relay invalidated), or it began between the invalidation inside a personnel
\* event and the commit of that event ("early").
Races    == SUBSET {"write", "event", "early"}
Results  == [version : Versions, races : Races]
Fills    == [proc : Procs, key : Keys, version : Versions, races : Races]
Writes   == [proc : Procs, kind : Kinds, step : {"begun", "invalidated", "committed"}, version : Versions]

ASSUME NoneAssumption == None \notin Fills /\ None \notin Writes /\ Missing \notin Results

VARIABLES
    version,    \* writes committed
    entries,    \* entries[p][k]: orgCache.entries of process p (and, a ghost, the
                \* races of the read that stored the entry)
    index,      \* index[p]: orgCache.tenantIndex of the tenant
    fill,       \* what a reader has read and not yet stored
    write,      \* the write a writer is executing
    acked,      \* acked[p]: the last write process p has answered
    events,     \* committed writes whose event the relay has not delivered
    leader      \* the process that runs the relay

vars == <<version, entries, index, fill, write, acked, events, leader>>

Empty == [k \in Keys |-> Missing]

Init ==
    /\ version = 0
    /\ entries = [p \in Procs |-> Empty]
    /\ index   = [p \in Procs |-> {}]
    /\ fill    = [r \in Readers |-> None]
    /\ write   = [w \in Writers |-> None]
    /\ acked   = [p \in Procs |-> 0]
    /\ events  = {}
    /\ leader \in Procs

-----------------------------------------------------------------------------
(* Reads *)

\* A personnel event of the process has invalidated and not committed.
Uncommitted(p) == \E w \in Writers : write[w] # None /\ write[w].proc = p /\ write[w].step = "invalidated"

\* A Get that misses, and the transaction that reads the tables.  (A Get that
\* hits returns the entry: a stutter.)
StartFill(r, p, k) ==
    /\ fill[r] = None
    /\ entries[p][k] = Missing
    /\ fill' = [fill EXCEPT ![r] = [proc |-> p, key |-> k, version |-> version,
                                   races |-> IF Uncommitted(p) THEN {"early"} ELSE {}]]
    /\ UNCHANGED <<version, entries, index, write, acked, events, leader>>

Result(f) == [version |-> f.version, races |-> f.races]

\* Faulty variant: the key is not entered in the tenant's index.
EndFillUnindexed(r) ==
    /\ fill[r] # None
    /\ entries' = [entries EXCEPT ![fill[r].proc][fill[r].key] = Result(fill[r])]
    /\ fill'    = [fill EXCEPT ![r] = None]
    /\ UNCHANGED <<version, index, write, acked, events, leader>>

\* Set: the entry is stored whatever happened since the read.
EndFill(r) ==
    /\ fill[r] # None
    /\ entries' = [entries EXCEPT ![fill[r].proc][fill[r].key] = Result(fill[r])]
    /\ index'   = [index EXCEPT ![fill[r].proc] = @ \cup {fill[r].key}]
    /\ fill'    = [fill EXCEPT ![r] = None]
    /\ UNCHANGED <<version, write, acked, events, leader>>

\* The invalidation of process p for write n: it empties the cache, and (the ghost)
\* overtakes the reads in flight that have not seen the write.
InvalidateTenant(p, by, n) ==
    /\ fill' = [r \in Readers |->
                  IF fill[r] # None /\ fill[r].proc = p /\ fill[r].version < n
                    THEN [fill[r] EXCEPT !.races = @ \cup {by}] ELSE fill[r]]
    /\ entries' = [entries EXCEPT ![p] = [k \in Keys |-> IF k \in index[p] THEN Missing ELSE @[k]]]
    /\ index'   = [index EXCEPT ![p] = {}]

-----------------------------------------------------------------------------
(* Writes *)

BeginWrite(w, p, kind) ==
    /\ write[w] = None
    /\ write' = [write EXCEPT ![w] = [proc |-> p, kind |-> kind, step |-> "begun", version |-> 0]]
    /\ UNCHANGED <<version, entries, index, fill, acked, events, leader>>

\* The service call inside a personnel event: its inTx joins the outer
\* transaction and does not commit, its invalidation is not skipped.
InvalidateInside(w) ==
    /\ write[w] # None /\ write[w].kind = "nested" /\ write[w].step = "begun"
    /\ InvalidateTenant(write[w].proc, "write", version + 1)
    /\ write' = [write EXCEPT ![w].step = "invalidated"]
    /\ UNCHANGED <<version, acked, events, leader>>

ReadyToCommit(w) ==
    /\ write[w] # None
    /\ write[w].step = IF write[w].kind = "nested" THEN "invalidated" ELSE "begun"

\* The write and its outbox row are committed together.
Commit(w) ==
    /\ ReadyToCommit(w)
    /\ version < MaxWrites
    /\ version' = version + 1
    /\ events'  = events \cup {version'}
    /\ write'   = [write EXCEPT ![w].step = "committed", ![w].version = version']
    /\ UNCHANGED <<entries, index, fill, acked, leader>>

\* Faulty variant: the outbox row is written outside of the transaction.
RollbackKeepingEvent(w) ==
    /\ ReadyToCommit(w)
    /\ events' = events \cup {write[w].version}
    /\ write'  = [write EXCEPT ![w] = None]
    /\ UNCHANGED <<version, entries, index, fill, acked, leader>>

\* An error, or the dry run of a batch.
Rollback(w) ==
    /\ ReadyToCommit(w)
    /\ write' = [write EXCEPT ![w] = None]
    /\ UNCHANGED <<version, entries, index, fill, acked, events, leader>>

Answer(w) ==
    /\ acked' = [acked EXCEPT ![write[w].proc] = IF write[w].version > @ THEN write[w].version ELSE @]
    /\ write' = [write EXCEPT ![w] = None]
    /\ UNCHANGED <<version, events, leader>>

\* "write_commit", then the answer.
FinishPlain(w) ==
    /\ write[w] # None /\ write[w].kind = "plain" /\ write[w].step = "committed"
    /\ InvalidateTenant(write[w].proc, "write", write[w].version)
    /\ Answer(w)

\* A personnel event answers right after its commit.
FinishNested(w) ==
    /\ write[w] # None /\ write[w].kind = "nested" /\ write[w].step = "committed"
    /\ UNCHANGED <<entries, index, fill>>
    /\ Answer(w)

-----------------------------------------------------------------------------
(* Events and processes *)

\* Faulty variant: the handler drops the event.
DeliverIgnored(e) ==
    /\ e \in events
    /\ events' = events \ {e}
    /\ UNCHANGED <<version, entries, index, fill, write, acked, leader>>

\* The relay dispatches the event on the event bus of its own process.
Deliver(e) ==
    /\ e \in events
    /\ InvalidateTenant(leader, "event", e)
    /\ events' = events \ {e}
    /\ UNCHANGED <<version, write, acked, leader>>

\* Another process becomes the relay's leader.
Takeover(p) ==
    /\ Takeovers /\ p # leader
    /\ leader' = p
    /\ UNCHANGED <<version, entries, index, fill, write, acked, events>>

\* A process restarts with an empty cache and none of its requests.
Restart(p) ==
    /\ entries' = [entries EXCEPT ![p] = Empty]
    /\ index'   = [index EXCEPT ![p] = {}]
    /\ fill'    = [r \in Readers |-> IF fill[r] # None /\ fill[r].proc = p THEN None ELSE fill[r]]
    /\ write'   = [w \in Writers |-> IF write[w] # None /\ write[w].proc = p THEN None ELSE write[w]]
    /\ UNCHANGED <<version, acked, events, leader>>

-----------------------------------------------------------------------------

ReaderStep(r) == EndFill(r) \/ \E p \in Procs, k \in Keys : StartFill(r, p, k)

WriterStep(w) ==
    \/ \E p \in Procs, kind \in Kinds : BeginWrite(w, p, kind)
    \/ InvalidateInside(w) \/ Commit(w) \/ Rollback(w)
    \/ FinishPlain(w) \/ FinishNested(w)

Next ==
    \/ \E r \in Readers : ReaderStep(r)
    \/ \E w \in Writers : WriterStep(w)
    \/ \E e \in events : Deliver(e)
    \/ \E p \in Procs : Takeover(p) \/ Restart(p)

Spec == Init /\ [][Next]_vars

\* Reads that started store their result, committed writes are answered, and the
\* relay delivers every event.
Fairness ==
    /\ \A r \in Readers : WF_vars(EndFill(r))
    /\ \A w \in Writers : WF_vars(FinishPlain(w) \/ FinishNested(w))
    /\ \A e \in 1..MaxWrites : WF_vars(Deliver(e))

FairSpec == Spec /\ Fairness

-----------------------------------------------------------------------------
(* Properties *)

TypeOK ==
    /\ version \in Versions
    /\ entries \in [Procs -> [Keys -> Results \cup {Missing}]]
    /\ index   \in [Procs -> SUBSET Keys]
    /\ fill    \in [Readers -> Fills \cup {None}]
    /\ write   \in [Writers -> Writes \cup {None}]
    /\ acked   \in [Procs -> Versions]
    /\ events  \in SUBSET (Versions \ {0})
    /\ leader  \in Procs

\* Process p serves an entry that is older than a write it has answered.
Outdated(p, k) == entries[p][k] # Missing /\ entries[p][k].version < acked[p]

\* "After the write transaction commits this process invalidates the tenant at
\* once, so that it reads its own writes" (docs/dev-plans/026-org-api-authz-and-
\* events.md): an invalidation comes after the commit, so that only a read that the
\* invalidation itself overtook can be served out of date.
ReadYourWrites ==
    \A p \in Procs, k \in Keys : Outdated(p, k) => "write" \in entries[p][k].races

\* There are two ways, and no third, for a process to serve less than it has
\* answered, with any number of reads, writes and personnel events at once,
\* deliveries, takeovers and restarts: a read in flight was overtaken by a writer's
\* invalidation, or it was begun inside a personnel event that had invalidated
\* before it committed.  A read that begins after the answer never is.
OutdatedOnlyByRace ==
    \A p \in Procs, k \in Keys : Outdated(p, k) => entries[p][k].races \cap {"write", "early"} # {}

\* An entry older than the tables that no delivery has overtaken.
Stale(p, k) ==
    /\ entries[p][k] # Missing
    /\ entries[p][k].version < version
    /\ "event" \notin entries[p][k].races

\* In the process that runs the relay every stale entry goes away, whichever
\* process committed the write and whatever races its own invalidations lost: only
\* a read in flight while the event is delivered can leave one for good.
LeaderRefreshed == \A p \in Procs, k \in Keys : leader = p /\ Stale(p, k) ~> ~Stale(p, k)
=============================================================================
