------------------------------- MODULE Outbox -------------------------------
(***************************************************************************)
(* The transactional outbox of pkg/outbox: rows are enqueued by business   *)
(* transactions, claimed in batches by relays under a lease, dispatched    *)
(* outside any transaction, then acknowledged, rescheduled or declared     *)
(* dead, and finally removed by the cleaner.                               *)
(*                                                                         *)
(* Time is abstracted to the predicates the SQL evaluates: a row is due    *)
(* (available_at <= now) or not, and its lock is absent, held or expired   *)
(* (locked_at < now - lock_ttl).  Each relay of the pool reads its own     *)
(* clock, so a lease may be seen to expire at any moment.                  *)
(***************************************************************************)
EXTENDS Integers, FiniteSets

CONSTANTS
    Msgs,           \* the outbox rows (by primary key) of one table
    Relays,         \* the processes that run a relay on the table
    NoClaim,        \* what a relay holds between two dispatches
    MaxAttempts,    \* RelayOptions.MaxAttempts
    BatchSize,      \* RelayOptions.BatchSize
    DeadRetention,  \* CleanerOptions.DeadRetention > 0
    Prompt,         \* every batch is finished within RelayOptions.LockTTL
    Poison,         \* rows whose handler always fails
    MaxFaults,      \* bound: crashes, lost claims, transient handler errors
    MaxReplays      \* bound: manual replays of one row

ASSUME AttemptsAssumption == MaxAttempts \in Nat \ {0} /\ BatchSize \in Nat \ {0}
ASSUME BoundsAssumption   == MaxFaults \in Nat /\ MaxReplays \in Nat
ASSUME FlagsAssumption    == DeadRetention \in BOOLEAN /\ Prompt \in BOOLEAN

\* A claimed row as the relay remembers it: the attempt number it read and
\* incremented, and (a ghost) which replay of the row the attempt belongs to.
Claims == [id : Msgs, gen : Nat, attempts : 1..MaxAttempts]

ASSUME ClaimAssumption == NoClaim \notin Claims

VARIABLES
    row,        \* row[m]: "absent", "pending", "published" or "deleted"
    attempts,   \* the attempts column
    lock,       \* locked_at: "none", "held" (within the TTL) or "expired"
    due,        \* available_at <= now
    gen,        \* ghost: how many times the row was replayed
    pc,         \* what each relay is doing
    todo,       \* the claims of the batch a relay has still to dispatch
    cur,        \* the claim a relay is dispatching or settling
    opened,     \* history: every claim ever committed
    delivered,  \* history: rows whose handler returned no error once
    faults      \* faults so far

dbVars    == <<row, attempts, lock, due, gen>>
relayVars == <<pc, todo, cur>>
vars      == <<dbVars, relayVars, opened, delivered, faults>>

Init ==
    /\ row       = [m \in Msgs |-> "absent"]
    /\ attempts  = [m \in Msgs |-> 0]
    /\ lock      = [m \in Msgs |-> "none"]
    /\ due       = [m \in Msgs |-> FALSE]
    /\ gen       = [m \in Msgs |-> 0]
    /\ pc        = [r \in Relays |-> "idle"]
    /\ todo      = [r \in Relays |-> {}]
    /\ cur       = [r \in Relays |-> NoClaim]
    /\ opened    = {}
    /\ delivered = {}
    /\ faults    = 0

-----------------------------------------------------------------------------
(* Publisher *)

\* INSERT in the business transaction, seen when that transaction commits.  A
\* second INSERT of the same event_id is the no-op ON CONFLICT arm: a stutter.
Enqueue(m) ==
    /\ row[m] = "absent"
    /\ row' = [row EXCEPT ![m] = "pending"]
    /\ due' = [due EXCEPT ![m] = TRUE]
    /\ UNCHANGED <<attempts, lock, gen, relayVars, opened, delivered, faults>>

-----------------------------------------------------------------------------
(* Relay *)

\* Faulty variants of the claim's WHERE clause: without the attempt limit,
\* without the lease, and without the recovery of expired leases.
ClaimableWithoutLimit(m) == row[m] = "pending" /\ due[m] /\ lock[m] # "held"
ClaimableWithoutLease(m) == row[m] = "pending" /\ due[m] /\ attempts[m] < MaxAttempts
ClaimableUnlocked(m) ==
    row[m] = "pending" /\ due[m] /\ attempts[m] < MaxAttempts /\ lock[m] = "none"

\* The WHERE clause of the claim.
Claimable(m) ==
    /\ row[m] = "pending"
    /\ due[m]
    /\ attempts[m] < MaxAttempts
    /\ lock[m] # "held"

Attempt(m, n) == [id |-> m, gen |-> gen[m], attempts |-> n]

ClaimOf(m) == Attempt(m, attempts[m] + 1)

\* Faulty variant: the claim takes the lease and forgets attempts + 1.
TakeLeasesUncounted(B) ==
    /\ B # {}
    /\ \A m \in B : Claimable(m)
    /\ lock'   = [m \in Msgs |-> IF m \in B THEN "held" ELSE lock[m]]
    /\ opened' = opened \cup {ClaimOf(m) : m \in B}
    /\ UNCHANGED <<row, attempts, due, gen, delivered>>

\* The committed claim of batch B.  ORDER BY with LIMIT and SKIP LOCKED may leave
\* any claimable row for later, so B is any batch of claimable rows.
TakeLeases(B) ==
    /\ B # {}
    /\ \A m \in B : Claimable(m)
    /\ lock'     = [m \in Msgs |-> IF m \in B THEN "held" ELSE lock[m]]
    /\ attempts' = [m \in Msgs |-> IF m \in B THEN attempts[m] + 1 ELSE attempts[m]]
    /\ opened'   = opened \cup {ClaimOf(m) : m \in B}
    /\ UNCHANGED <<row, due, gen, delivered>>

\* claim returns the batch.
Claim(r, B) ==
    /\ pc[r] = "idle"
    /\ TakeLeases(B)
    /\ todo' = [todo EXCEPT ![r] = {ClaimOf(m) : m \in B}]
    /\ pc'   = [pc EXCEPT ![r] = "loop"]
    /\ UNCHANGED <<cur, faults>>

\* The claim commits but Commit reports an error (or the process dies before it
\* returns): processOnce gives up the tick, the leases stay taken.
ClaimLost(r, B) ==
    /\ pc[r] = "idle"
    /\ faults < MaxFaults
    /\ TakeLeases(B)
    /\ faults' = faults + 1
    /\ UNCHANGED relayVars

\* The next iteration of the loop over the batch: Dispatch is entered.
StartDispatch(r, c) ==
    /\ pc[r] = "loop"
    /\ c \in todo[r]
    /\ todo' = [todo EXCEPT ![r] = @ \ {c}]
    /\ cur'  = [cur EXCEPT ![r] = c]
    /\ pc'   = [pc EXCEPT ![r] = "dispatch"]
    /\ UNCHANGED <<dbVars, opened, delivered, faults>>

\* Dispatch returns nil.
DispatchOk(r) ==
    /\ pc[r] = "dispatch"
    /\ cur[r].id \notin Poison
    /\ delivered' = delivered \cup {cur[r].id}
    /\ pc' = [pc EXCEPT ![r] = "ack"]
    /\ UNCHANGED <<dbVars, todo, cur, opened, faults>>

\* Faulty variant: the last failure is acknowledged like a success.
DispatchFailAcked(r) ==
    /\ pc[r] = "dispatch"
    /\ \/ cur[r].id \in Poison /\ faults' = faults
       \/ faults < MaxFaults /\ faults' = faults + 1
    /\ pc' = [pc EXCEPT ![r] = IF cur[r].attempts >= MaxAttempts THEN "ack" ELSE "nack"]
    /\ UNCHANGED <<dbVars, todo, cur, opened, delivered>>

\* Dispatch returns an error: from a poison row's handler, or a transient one.
\* The branch compares the attempt number remembered since the claim.
DispatchFail(r) ==
    /\ pc[r] = "dispatch"
    /\ \/ cur[r].id \in Poison /\ faults' = faults
       \/ faults < MaxFaults /\ faults' = faults + 1
    /\ pc' = [pc EXCEPT ![r] = IF cur[r].attempts >= MaxAttempts THEN "dead" ELSE "nack"]
    /\ UNCHANGED <<dbVars, todo, cur, opened, delivered>>

\* The rest of the iteration: on to the next claim, or back to the ticker.
EndItem(r) ==
    /\ pc'  = [pc EXCEPT ![r] = IF todo[r] = {} THEN "idle" ELSE "loop"]
    /\ cur' = [cur EXCEPT ![r] = NoClaim]
    /\ UNCHANGED <<attempts, gen, todo, opened, delivered>>

\* The three updates match "id = $1 AND published_at IS NULL" and nothing else:
\* not the lease, so they also land on a row another relay has claimed since.
Ack(r) ==
    LET m == cur[r].id IN
    /\ pc[r] = "ack"
    /\ IF row[m] = "pending"
         THEN /\ row'  = [row EXCEPT ![m] = "published"]
              /\ lock' = [lock EXCEPT ![m] = "none"]
         ELSE UNCHANGED <<row, lock>>
    /\ EndItem(r)
    /\ UNCHANGED <<due, faults>>

\* nack (next available_at in the future) and dead (available_at = now).
Release(r, label, isDue) ==
    LET m == cur[r].id IN
    /\ pc[r] = label
    /\ IF row[m] = "pending"
         THEN /\ lock' = [lock EXCEPT ![m] = "none"]
              /\ due'  = [due EXCEPT ![m] = isDue]
         ELSE UNCHANGED <<lock, due>>
    /\ EndItem(r)
    /\ UNCHANGED <<row, faults>>

Nack(r) == Release(r, "nack", FALSE)
Dead(r) == Release(r, "dead", TRUE)

\* The update fails: logged, and the loop goes on with the lease still taken.
SettleLost(r) ==
    /\ pc[r] \in {"ack", "nack", "dead"}
    /\ EndItem(r)
    /\ UNCHANGED <<row, lock, due, faults>>

\* The process dies and loses its batch; a new one starts with none.
Crash(r) ==
    /\ pc[r] # "down"
    /\ faults < MaxFaults
    /\ faults' = faults + 1
    /\ pc'   = [pc EXCEPT ![r] = "down"]
    /\ todo' = [todo EXCEPT ![r] = {}]
    /\ cur'  = [cur EXCEPT ![r] = NoClaim]
    /\ UNCHANGED <<dbVars, opened, delivered>>

Restart(r) ==
    /\ pc[r] = "down"
    /\ pc' = [pc EXCEPT ![r] = "idle"]
    /\ UNCHANGED <<dbVars, todo, cur, opened, delivered, faults>>

-----------------------------------------------------------------------------
(* Time *)

\* The claims a relay holds in memory.
Held(r) == todo[r] \cup ({cur[r]} \ {NoClaim})

InFlight(m) == \E r \in Relays : \E c \in Held(r) : c.id = m

\* lock_ttl elapses since locked_at.
LeaseExpires(m) ==
    /\ lock[m] = "held"
    /\ Prompt => ~InFlight(m)
    /\ lock' = [lock EXCEPT ![m] = "expired"]
    /\ UNCHANGED <<row, attempts, due, gen, relayVars, opened, delivered, faults>>

\* The backoff elapses.
BecomesDue(m) ==
    /\ row[m] = "pending" /\ ~due[m]
    /\ due' = [due EXCEPT ![m] = TRUE]
    /\ UNCHANGED <<row, attempts, lock, gen, relayVars, opened, delivered, faults>>

-----------------------------------------------------------------------------
(* Cleaner and operator *)

\* Faulty variant: the threshold is off by one.
RemovableEarly(m) ==
    \/ row[m] = "published"
    \/ DeadRetention /\ row[m] = "pending" /\ attempts[m] >= MaxAttempts - 1

\* What a cleaner tick may delete, whatever its age: retention and
\* dead_retention are compared with published_at and created_at only.
Removable(m) ==
    \/ row[m] = "published"
    \/ DeadRetention /\ row[m] = "pending" /\ attempts[m] >= MaxAttempts

Clean(D) ==
    /\ D # {}
    /\ \A m \in D : Removable(m)
    /\ row' = [m \in Msgs |-> IF m \in D THEN "deleted" ELSE row[m]]
    /\ UNCHANGED <<attempts, lock, due, gen, relayVars, opened, delivered, faults>>

\* The runbook's "reset and replay one row".
Replay(m) ==
    /\ row[m] \in {"pending", "published"}
    /\ gen[m] < MaxReplays
    /\ gen'      = [gen EXCEPT ![m] = @ + 1]
    /\ attempts' = [attempts EXCEPT ![m] = 0]
    /\ due'      = [due EXCEPT ![m] = TRUE]
    /\ lock'     = [lock EXCEPT ![m] = "none"]
    /\ UNCHANGED <<row, relayVars, opened, delivered, faults>>

-----------------------------------------------------------------------------

Batches == {B \in SUBSET Msgs : Cardinality(B) <= BatchSize}

RelayStep(r) ==
    \/ \E B \in Batches : Claim(r, B) \/ ClaimLost(r, B)
    \/ \E c \in todo[r] : StartDispatch(r, c)
    \/ DispatchOk(r) \/ DispatchFail(r)
    \/ Ack(r) \/ Nack(r) \/ Dead(r) \/ SettleLost(r)
    \/ Crash(r) \/ Restart(r)

RowStep(m) == Enqueue(m) \/ LeaseExpires(m) \/ BecomesDue(m) \/ Replay(m)

Next ==
    \/ \E r \in Relays : RelayStep(r)
    \/ \E m \in Msgs : RowStep(m)
    \/ \E D \in SUBSET Msgs : Clean(D)

Spec == Init /\ [][Next]_vars

\* The ticker fires while the process runs, handlers and statements return, time
\* passes and a dead process is restarted.  A due row is claimed in the end: it
\* is claimable until it is claimed, relays keep coming back to the ticker, and
\* ORDER BY available_at, sequence serves the rows that wait longest first.
Fairness ==
    /\ \A r \in Relays :
         /\ WF_vars(\E c \in todo[r] : StartDispatch(r, c))
         /\ WF_vars(DispatchOk(r) \/ DispatchFail(r))
         /\ WF_vars(Ack(r) \/ Nack(r) \/ Dead(r) \/ SettleLost(r))
         /\ WF_vars(Restart(r))
    /\ \A m \in Msgs :
         /\ WF_vars(LeaseExpires(m))
         /\ WF_vars(BecomesDue(m))
         /\ SF_vars(\E r \in Relays, B \in Batches : m \in B /\ Claim(r, B))

FairSpec == Spec /\ Fairness

-----------------------------------------------------------------------------
(* Properties *)

TypeOK ==
    /\ row       \in [Msgs -> {"absent", "pending", "published", "deleted"}]
    /\ attempts  \in [Msgs -> 0..MaxAttempts]
    /\ lock      \in [Msgs -> {"none", "held", "expired"}]
    /\ due       \in [Msgs -> BOOLEAN]
    /\ gen       \in [Msgs -> 0..MaxReplays]
    /\ pc        \in [Relays -> {"idle", "loop", "dispatch", "ack", "nack", "dead", "down"}]
    /\ todo      \in [Relays -> SUBSET Claims]
    /\ cur       \in [Relays -> Claims \cup {NoClaim}]
    /\ opened    \in SUBSET Claims
    /\ delivered \in SUBSET Msgs
    /\ faults    \in 0..MaxFaults

\* An attempt of a row belongs to one relay: two relays may hold claims on the
\* same row (a lease expired), never the same attempt of it.
UniqueAttempt == \A r, s \in Relays : r # s => Held(r) \cap Held(s) = {}

\* A claim a relay comes to hold was never made before, by it or by another, and
\* a relay never takes one back: no attempt is dispatched twice, so a row is
\* dispatched at most MaxAttempts times between two replays, across crashes,
\* expired leases and lost updates.
NoAttemptReused == [][\A r \in Relays : (Held(r)' \ Held(r)) \cap opened = {}]_vars

\* The attempts column counts exactly the claims made since the last replay.
AttemptsCounted ==
    \A m \in Msgs, n \in 1..MaxAttempts : Attempt(m, n) \in opened <=> n <= attempts[m]

\* A row is published only if a dispatch of it succeeded, whichever of several
\* concurrent relays acknowledges it.
PublishedDelivered == \A m \in Msgs : row[m] = "published" => m \in delivered

\* The cleaner forgets a row only after a successful dispatch of it or after the last
\* attempt since its last replay was claimed: nothing is lost with attempts left, and
\* the attempts of before a replay, in flight or not, do not count against the row.
NothingLost ==
    \A m \in Msgs : row[m] = "deleted" => m \in delivered \/ Attempt(m, MaxAttempts) \in opened

\* When every batch ends within its lease and no operator interferes, at most one
\* relay holds a row, although acks and nacks do not check who holds the lease.
AtMostOneHolder ==
    \A r, s \in Relays : \A c \in Held(r), d \in Held(s) : c.id = d.id => r = s /\ c = d

\* Under the same conditions a row that was published is not dispatched again.
NoDispatchAfterPublish ==
    [][\A r \in Relays : pc[r] = "loop" /\ pc'[r] = "dispatch" => row[cur'[r].id] # "published"]_vars

\* The relays, the cleaner and the runbook implement AtLeastOnce: the open
\* attempts are the claims relays hold in memory.
Open == UNION {Held(r) : r \in Relays}

Delivery == INSTANCE AtLeastOnce WITH open <- Open
ImplementsAtLeastOnce == Delivery!Spec

\* Every accepted row is published, removed, or out of attempts with nobody
\* working on it: no row is forgotten with attempts left.
Settled(m) ==
    \/ row[m] \in {"published", "deleted"}
    \/ attempts[m] = MaxAttempts /\ ~InFlight(m)

EventuallySettled == \A m \in Msgs : row[m] = "pending" ~> Settled(m)

\* With fewer faults than attempts, the handler of every accepted row that can
\* succeed does: leases that expire, batches that are lost and rows that are
\* cleaned or replayed never cost the delivery.
GoodDelivered == \A m \in Msgs \ Poison : row[m] = "pending" ~> m \in delivered
=============================================================================
