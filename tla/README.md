# Verification of the outbox and the org module

TLA+ models of this server's own core logic, the TLC configurations that check
them on small instances, and theorems that TLAPS proves about them for every
value of the constants.  Paths are relative to the repository.

1. [Inventory](#1-inventory)
2. [Modules](#2-modules)
3. [Outbox](#3-outbox), [4. Leader](#4-single-active-relay),
   [5. Cache](#5-org-cache), [6. Hierarchy](#6-org-hierarchy),
   [7. Staffing](#7-positions-and-assignments),
   [8. Deep-read builds](#8-deep-read-builds)
9. [Runs](#9-runs)
10. [Proofs](#10-proofs)
11. [What is not modelled](#11-what-is-not-modelled)
12. [Plan](#12-plan)

## 1. Inventory

The program is a multi-tenant web server (`cmd/server`) over PostgreSQL.  Most
modules are CRUD screens.  What carries logic of its own is the `org` module, an
effective-dated organization structure, and the transactional outbox that
publishes its events.

| Part | State | Operations | What makes it hard | What makes it correct |
|---|---|---|---|---|
| Outbox (`pkg/outbox`: publisher, relay, cleaner) | a table with `attempts`, `available_at`, `locked_at`, `published_at`; per relay, the batch in memory | `Enqueue`, `claim`, dispatch, `ack`, `nack`, `dead`, cleaner tick, manual replay | several relays, leases that expire while work goes on, crashes and lost answers between any two steps | at-least-once delivery, attempts counted and never used twice, nothing lost with attempts left |
| Single-active relay (`runSingleActive`) | an advisory lock bound to one connection | acquire, lose the connection, take over | the lock and the holder's belief in it differ for a while | one live leader; somebody delivers |
| Org cache (`modules/org/services/cache.go`) | per process, entries and a tenant index | get, fill, invalidate after a commit, invalidate on an outbox event | a fill races an invalidation; nested transactions; other processes | no process serves data older than a write it answered |
| Org hierarchy (`org_edges`, `org_node_slices`) | rows with inclusive validity days, a materialized path, a copied parent hint | create, update, move, correct move, rescind, shift boundary, delete and stitch | retroactive changes, derived data that several operations rewrite, constraints that are checked only at commit | a tree on every day, paths that follow it, no gaps, no orphans |
| Positions and assignments (`org_position_slices`, `org_assignments`) | timelines of positions (capacity in FTE, the position reported to) and of people | hire, transfer, correct, terminate, delete and stitch; create, update, correct, rescind, shift and delete positions | checks of one day for rows of many; two hires or transfers at once, row locks in an order | capacity and positions hold on every day, reports make no cycle, concurrent transactions act as if in turn, none wait in a circle |
| Deep-read builds (`org_hierarchy_closure_builds`) | builds with a status and an active flag, their rows | build in three transactions, mark failed, activate, prune, read in two statements | overlapping commands, one that dies or misses an answer, a prune under a build or a read | the active build is one, whole, and does not go away |
| Personnel events | `org_personnel_events` | hire, transfer, terminate | retries of a request; a transaction inside a transaction | applied once |
| Change requests, job catalog, freeze window, exports | one table each | draft, submit, cancel; CRUD | a status read before it is written | see section 11 |
| Event bus (`pkg/eventbus`) | list of subscribers | publish, subscribe | a handler fails or does not return | a failure reaches the relay, which tries again |
| Core: sessions, users, roles, authorization | CRUD tables, Casbin policies | log in, edit, reload | policy reload | section 11 |
| WebSocket hub, lens, rate limits, spotlight, website chat | in-memory maps | register, broadcast, cache | mutexes and goroutines | section 11 |
| UI, generated code, tools | none of interest | | | |

How the parts interact.  A write of the org service runs in one transaction
(`inTx`), which also inserts the events of the write in `org_outbox`
(`enqueueOutboxEvents`).  After the commit the process invalidates its cache of
the tenant.  The relay, single-active by default, claims rows, and dispatches
them on the event bus of its own process, where `OutboxEventsHandler` invalidates
that process's cache.  Reads fill the cache from transactions of their own.

The hazards that follow from this are listed, each at its line, in
`PROJECT.json`.

## 2. Modules

| Module | Models | Relation |
|---|---|---|
| `AtLeastOnce` | what the outbox promises | abstract specification |
| `Outbox` | `pkg/outbox` with any number of relays | implements `AtLeastOnce` (`INSTANCE ... WITH`) |
| `OutboxLeader` | `RelayOptions.SingleActive` | extends `Outbox`: each of its steps is one of `Outbox` and what the sessions allow |
| `OutboxProofs`, `OutboxLeaderProofs` | theorems | |
| `OrgCache` | the tenant cache in several processes | takes of the outbox that an event is delivered after its commit, in the leader's process |
| `OrgCacheProofs` | theorems | |
| `OrgHierarchy` | `org_edges` and `org_node_slices` | |
| `OrgHierarchyProofs` | theorems | |
| `OrgStaffing` | `org_position_slices` and `org_assignments`, one transaction at a time | |
| `OrgStaffingTx` | hires, transfers, terminations and capacity corrections as concurrent transactions with their locks | extends `OrgStaffing`; each of its commits is one of its steps |
| `OrgStaffingProofs`, `OrgStaffingTxProofs`, `OrgStaffingLockProofs` | theorems | |
| `DeepReadBuilds` | the life of a closure build and the reads of it | |
| `DeepReadBuildsProofs` | theorems | |
| `MCOutbox`, `MCOutboxLeader`, `MCOrgCache`, `MCOrgHierarchy`, `MCOrgStaffing`, `MCOrgStaffingTx`, `MCDeepReadBuilds` | symmetry sets for TLC | |

An operator introduced as "Faulty variant" is never used by the specification.  It
is a plausible mistake in the definition below it: put in its place it makes a run
fail, and so shows that the property is about that definition.

## 3. Outbox

**State.** `row`, `attempts`, `lock`, `due` are the columns of the outbox table as
the claim's SQL sees them: time is reduced to "due or not" and to a lease that is
absent, held or expired.  `pc`, `todo`, `cur` are a relay's loop, the rest of
its batch and the claim in hand.  `gen` (a row's manual replays), `opened` and
`delivered` are history; no guard of a step reads `opened` or `delivered`.

**Actions.** `Claim` and `ClaimLost` are `Relay.claim`: `SKIP LOCKED` and `LIMIT` may
return any batch of claimable rows, and the commit may succeed although the relay
gets an error.  `StartDispatch`, `DispatchOk`, `DispatchFail` are one iteration of
`processOnce`; the branch between nack and dead looks at the attempt number
remembered since the claim.  `Ack`, `Nack` and `Dead` match an unpublished row by
its id, not by its lease, and `SettleLost` is the update that fails.  `Crash` loses
the batch at any point, `Restart` is a new process.  `LeaseExpires` may happen
while the batch is still worked on, unless `Prompt`.  `Clean` removes what the
cleaner's two statements match, `Replay` is the update of
`docs/runbooks/transactional-outbox.md`.

**Fairness** (`FairSpec`).  Weak fairness on what a running process does by itself
(statements return, the loop goes on, a dead process is restarted) and on the
clock.  Strong fairness on the claim of each row: relays keep coming back to the
ticker, a due row stays claimable until it is claimed, and `ORDER BY available_at,
sequence` serves the longest waiting first.  No fairness on enqueueing, faults,
replays or the cleaner.  Every handler is assumed to return: one that does not stops
its relay (section 9, last table).

## 4. Single-active relay

`session` is what a relay believes (`none`, `leader`, or `broken`: it was leader and
its connection is gone), `owner` is what the server has.  `TryAcquireLeader`,
`ConnLost`, `ServerFreesLock` and `LeaderCrash` change them; `OnConn`, `OffConn`
and `SettleOnBroken` divide the relay's steps by whether they need the leader's
connection.  `runLoop` logs the errors of `processOnce` and goes on, so a broken
leader stays broken until its process ends; section 9's last table has the document it contradicts.
`LeaderFairness` adds that the server notices a dead session and that a standby
polls for the lock.

## 5. Org cache

A cached value is the number of writes committed when it was read.  A read that
misses is `StartFill` (`Get` and the transaction) and `EndFill` (`Set`), with anything
in between.  A plain write is `BeginWrite`, `Commit`, `FinishPlain` (invalidation
and answer: no entry of the process can tell the two apart); a personnel event is
`BeginWrite`, `InvalidateInside`, `Commit`, `FinishNested`, because the service
call it makes joins the outer transaction but not its end.  `Deliver` invalidates in
the leader's process only.  There is no eviction and no expiry in the code and none
in the model.

Any number of reads, writes and deliveries overlap, and the code does nothing against
it: a read that began before a write may store its result after the invalidation for that
write, and then nothing removes it before the next invalidation.  `races` is history, kept with a
read and then with the entry it stored: a writer's invalidation overtook the read (`write`),
a delivery's did (`event`), or the read began inside a personnel event of its process that had
invalidated and not committed (`early`).  Only reads that lack the write are marked, and no guard
looks at the marks.  They let the properties say what the code gives without excluding a
behaviour: `OutdatedOnlyByRace` that there is no third way to serve less than was answered,
`ReadYourWrites` what the document says, which excuses the first way only, `LeaderRefreshed`
that in the leader's process a stale entry goes away unless a delivery overtook its read.

**Fairness** (`FairSpec`).  Weak: a read that has read stores, a committed write is answered,
the relay delivers each event.  Nothing makes a write commit or a read begin.

## 6. Org hierarchy

**State.** `edges` and `slices` are sets of rows with inclusive days `from..to`,
where day `EndOfTime` is 9999-12-31.  A path is a sequence of nodes (`ltree`).
`refusal` says whether the trigger or a constraint refused the last transaction.

**One action is one transaction**, with the guard of the service's own checks (a
request they refuse is no step), and every statement in its order:

- `CreateNode`, `UpdateNode`, `MoveNode` are in `org_service.go`; `CorrectMoveNode`,
  `RescindNode`, `ShiftBoundaryNode` in `org_service_025.go`;
  `DeleteNodeSliceAndStitch`, `DeleteEdgeSliceAndStitch` in `org_service_066.go`.
  `CorrectNode` changes attributes in place, nothing here sees it.
- `Regraft` is what both moves do to the edges: cut the node's edge, insert the new
  one, re-insert the edges of the subtree from the day on, shallow ones first, and
  rewrite the path prefix of later edges of descendants.  It reads the subtree
  before it cuts, and the trigger (`TriggerRaises`, `NewEdge`) sees the table
  after the cut, as in the code.
- `Transact` is the end: an error of the trigger, or the deferred gap-free and the
  no-overlap constraints (`Valid`), undo the transaction.

With the prefix rewrite of dev-plan 069 the order of the re-inserts no longer
matters in the instances checked: re-inserting in any order gives the same paths.

**What callers promise.**  Several properties hold only of callers that behave in a
way the code does not enforce.  `Discipline` names each promise, and each is necessary:

| Promise | Meaning | Violated without it |
|---|---|---|
| `outside_subtree` | a node is not moved below itself | `Acyclic` |
| `date_order` | no operation is effective before an existing slice starts | `Acyclic`, `PathsFollowTree`, `HintMatchesEdge`, `HistoryUnchanged`; with `rescind`, `NoOrphans` |
| `settled_undo` | a move is undone only while its earlier parent has not moved | `Acyclic` |

`Ops` says which operations a run uses.

## 7. Positions and assignments

**State.** `assignments` and `slices` are the rows of `org_assignments` (primary type)
and `org_position_slices`, with inclusive days as in section 6.  Capacity and share are
whole units, of which `Shares` and `Capacities` say how many callers ask for; what is
compared is only their sum with a capacity.  `patched` is history: the positions that an
operation has changed which the code documents as unchecked (`Patch`: a correction that
moves an assignment to another position, an undone termination, a shifted or deleted
slice).  No guard reads it.

**Actions.**  As in the hierarchy one action is one transaction, with the service's own
checks as guards and the constraints of the commit (`Valid`: no overlap, no gap, one
person or position at a time) at its end.  `CreateAssignment`, `UpdateAssignment` and
their `Auto` forms, in which the position is made for the person in the same transaction
(`autoPositionID`), are in `org_service.go`; `CorrectAssignment` and
`RescindAssignment` in `org_service_025.go`; `DeleteAssignmentAndStitch` and
`DeletePositionSliceAndStitch` in `org_service_066.go`; the other operations on positions
in `org_service_053.go`.  `MayReportTo` is the service's walk up the line of reports;
`Reporting = FALSE` is a tenant whose positions report to nobody.

**What callers promise.**  `InDateOrder`: no operation is effective before a row that is
already there starts.  The capacity, the occupants and the line of reports are looked at
on one day (section 9, last table), and only in date order does that day decide the
later ones.

**Concurrent transactions** (`OrgStaffingTx`).  A transaction is its request, the locks it
has yet to ask for (`want`) and those it holds.  `LockNow`, `Wait`, `Granted`, `GoOnWithout`
are a `SELECT ... FOR UPDATE` or an advisory lock under READ COMMITTED: the statement
selects rows as they are committed when it starts, waits for a lock that is taken, and
then looks at the locked row again and at no other.  `Check` is the capacity check, which
reads what is committed then; `Write` waits for a transaction that is writing the same
person's days (the exclusion constraint); `CommitTx` checks the deferred trigger against
what is committed and its own rows.  `RollbackTx` is a refusal, a cancelled request or the
choice of the deadlock detector, and may happen at any step.  A row is named by its owner
and its first day.  The tables start with one slice for each position, as
`CreatePosition` leaves it (`TxInit`).

Left out of the concurrent model, because `Serializable` or `NoWaitCycle` is then false of
the code (section 9, last table): the operations that make a second slice of a position,
and the deletions.  The `Auto` forms, `CorrectAssignment` and reports are left out to bound it.

## 8. Deep-read builds

`builds` is `org_hierarchy_closure_builds`: the identity of a build is its place in the
order of `built_at`, the rows that belong to it are the number of writes to `org_edges`
that its `INSERT ... SELECT` saw.  `job` is a build command between its transactions,
`read` a request between its two statements.

Every transaction takes the same advisory lock first, which makes it one step; the lock is
free between the transactions of a command, which is where everything else happens.
`StartBuild` is apart from `Register` because `built_at` is the start of the transaction,
before it has the lock.  `Fill` fails on the foreign key when the build has been pruned
meanwhile, `Activate` when its update changes no row.  `FillLost` and `ActivateLost` are
commits whose answer does not arrive, and `MarkFailed` is the note a command leaves
when it has seen an error.  `Die` is a command that is killed, or whose note fails as well.
`ActivateBuild` and `Prune` are the operators' commands.  `LookUp` and `ReadRows` are
`activeClosureBuildID` and the query after it.

`alone` is history: no other command has run since this one started.  `QuietPrune` is a
promise of operators, who prune while no request is between its statements; without it
`ReadsAreWhole` is false.

## 9. Runs

"pass" runs finish with no error; the "violation" run checks one statement of the
repository's documents that the code does not fulfil, and is the finding of
`PROJECT.json`.

| Run | Question |
|---|---|
| `outbox_safety` | attempts unique, counted, never reused; published only if delivered; nothing lost; implements `AtLeastOnce` |
| `outbox_prompt` | when batches end within the lease: one holder per row, no dispatch after publication, every row settles, a good row is delivered beside a poison row |
| `leader` | one live leader; two dispatch at once only if one lost its connection; what the old one holds is behind what the new one has; delivery goes on after a crash and a broken connection if a standby is left |
| `cache_races` | a process serves less than it answered only in the two known ways, whatever races |
| `cache_leader` | stale entries go away in the leader's process, unless the delivery overtook the read |
| `cache_nested` | VIOLATED: a process reads its own writes after a personnel event |
| `tree_moves` | paths and hints follow the tree, no cycle, no refusal at commit |
| `tree_undo` | with all eight operations: no cycle, no orphan, history does not change |
| `staffing_jobs` | no position is over its capacity on any day |
| `staffing_positions` | people work in, and positions report to, positions that exist on all of their days; no cycle of reports |
| `staffing_tx` | concurrent transactions act as if in turn; none wait in a circle |
| `deep_read` | one active build, which has its rows and does not go away; reads get all rows; a build that is alone is never older |

**Bounds.**  Outbox: two rows share a batch and can differ (poison beside good); two
relays suffice for every overlap of claims of a row, three for a holder to be
followed by two others; two or three attempts make a first, a middle and a last;
`MaxFaults` and `MaxReplays` bound crashes, lost answers, transient errors and
replays, `MaxConnLosses` broken connections.  Where delivery is claimed there are fewer
faults than attempts, otherwise the faults alone use the attempts up, which is what
the code intends.  Cache: two processes (the leader and another), two
writers that overlap and a reader (one writer where the property is a liveness property or
false), each in either process, `MaxWrites` two, so that an old value and two newer ones meet.  Keys share nothing but the
index, which is per process and empties as a whole; the theorem is for any number of keys,
readers and writers, and so for two reads that store over each other.  Hierarchy: four nodes are a root, a moved
node, its child and another parent; three nodes where a chain of three is enough.
Three days make a past, a present and a future slice.  Staffing: two people are needed to
fill a position twice, two positions for a transfer and for two transfers in opposite
directions, two connections for every pair of transactions; the line of reports has a
position, an automatic one and nobody.  Two days make a row that is in force on a day it
was not checked for; the run about positions has three, so that a slice can be shifted
both ways.  Every
row of these modules belongs to one person or position, and their theorems are for any
number of each.  Deep-read: two commands, three builds (one active, two in the making) and
two writes, so that the older of two fills can be activated last; `Keep` is one, the least
the code accepts and the hardest on a build in the making.
The tree, staffing and build runs have no deadlock check because requests come from users
and the days or builds of the instance run out; the other runs without one stop when every row is settled or
every request is answered.

**Disagreements that are not kept as runs.**  Each was found with these modules and can
be reproduced as described; each is a property that is false of the code.

| Document | Code | Instance |
|---|---|---|
| `docs/dev-plans/017-transactional-outbox.md:306`: a row whose worker crashed can be claimed again after its lease | `pkg/outbox/relay.go:239` claims only while `attempts < MaxAttempts`, and the claim has counted the last attempt | `Outbox`: one row, one relay, `MaxAttempts = 1`, a crash; the expired lease stays |
| 017:308: a row that keeps timing out does not block later ones | `modules/org/infrastructure/outbox/dispatcher.go:22` drops the context with the timeout, and the relay waits for the handler | `Outbox` without a `DispatchOk` or `DispatchFail` for one row: its relay stays in `StartDispatch`'s state |
| 017:265, :310: only rows whose last dispatch failed are removed as dead | `pkg/outbox/cleaner.go:87` looks at `attempts` only, which the last claim has raised | `DeadRetention = TRUE`, `MaxAttempts = 1`: `Clean` while the row is held |
| 017:311: one instance dispatches at any moment | `pkg/outbox/relay.go:114`: nothing looks at the leader's connection while a batch is dispatched | `leader` with `OverlapNeedsLostConn` without its exception for a `broken` relay |
| `docs/dev-plans/026-org-api-authz-and-events.md:343`: a process reads its own writes | `modules/org/services/org_service.go:420`: a fill stores whatever was invalidated since its read | `cache_races` with plain writes alone, and `OutdatedOnlyByRace` without `"write"` |
| 026:344: other instances invalidate on the outbox event | `modules/org/handlers/outbox_events_handler.go:25` runs in the leader's process only | `cache_leader` with `LeaderRefreshed` stated of every process |
| `docs/dev-plans/020-organization-lifecycle.md:38`: no cycles | `modules/org/services/org_service_066.go:496`: the earlier edge comes back without a check of its parent | `tree_undo` without `settled_undo`: `Acyclic` |
| 020:38: no cycles | `modules/org/services/org_service_025.go:518`: a correction compares the paths of its own day, and a node that is below on a later day becomes a parent on it | three nodes, three days, `create`, `move` and `correct_move` with `outside_subtree` alone: `Acyclic` |
| `docs/dev-plans/069-org-long-name-parent-display-mismatch-investigation.md` 4.1.1: child path = parent path and child key on the child's first day | `modules/org/infrastructure/persistence/org_crud_repository.go:423`: a retroactive move rewrites past the end of the moved edge | four nodes, five days, `create` and `move` without `date_order`: `PathsFollowTree` |
| `modules/org/services/org_025_time_and_audit_integration_test.go:146`: a node can be rescinded on a later day | `modules/org/services/org_service_025.go:244` truncates the edge, and the gap-free constraint of `org-schema.sql:1097` refuses the commit | `tree_undo` with the property `NeverRefused` |
| 020:38: no orphans | `modules/org/services/org_service_025.go:200` looks for children on one day and removes the node from all later ones | `tree_undo` without `date_order`: `NoOrphans` |
| `docs/dev-plans/024-org-crud-mainline.md:77`: the hint is the parent of the edge on the same day | `modules/org/services/org_service.go:949`: edges and slices end on different days | `tree_moves` without `date_order`, or with `delete_edge`: `HintMatchesEdge` |
| 017:227: the relay is safe with several instances, can retry and recovers | `pkg/outbox/relay.go:141`: an error of the leader's dead connection is logged, and the loop goes on with it for ever | `OutboxLeader`, one relay, `MaxConnLosses = 1`: `EventuallySettled` |
| `docs/dev-plans/024-org-crud-mainline.md:323`: the trigger refuses a node below its own descendant | `modules/org/services/org_service.go:923` cuts the edge in which the trigger looks for the node's path (`org-schema.sql:92`) | three nodes, two days, `create` and `move` without `outside_subtree`: `Acyclic` |
| `docs/dev-plans/053-position-core-schema-service-api.md:378`: occupied over capacity must be blocked | `modules/org/services/org_service.go:1300` looks at the effective day only; `org_service_066.go:679` and `org_service_025.go` bring people back or move them without a check | `staffing_jobs` with `InDateOrder = FALSE`, or `WithinCapacity` without `patched` |
| `docs/dev-plans/066-auto-stitch-time-slices-on-delete.md:92`, step 1: the timeline's lock is taken first, then the slice | `modules/org/services/org_service_066.go:640` locks the row first, `CreateAssignment` the other way round | `OrgStaffingTx` with a deletion that asks for the row, then the person: `NoWaitCycle` |
| 053:429: locks in one order, so that capacity holds when transactions overlap | a position with two slices has two locks: a transfer on a later day and a hire on an earlier one lock different rows, and each reads the occupancy without the other | `OrgStaffingTx` starting with two slices of one position: `Serializable` |
| `docs/dev-plans/029-org-closure-and-deep-read-optimization.md:257`: builds of one tenant do not run over each other | `modules/org/infrastructure/persistence/org_deep_read_build_repository.go:412`: the lock is held for a transaction, not for a build | `deep_read` with `BuildsMoveForward` without `alone`: the older rows become active last |
| 029:255: a failed build does not affect what is read | the same file, line 446: a command that missed the answer of its activation marks the active build failed and inactive | `deep_read` with `NeverDark` without `lost' = 0`: no build is active, and reads fail |
| 029:260: a prune removes builds that are not active | `org_deep_read_repository.go:111`: a request that has found a build may read it after it was superseded and pruned | `deep_read` with `QuietPrune = FALSE`: `ReadsAreWhole`, an empty answer |

## 10. Proofs

TLAPS proves, with no assumption other than the named `ASSUME`s of the modules and
those in the statement:

| Theorem | States |
|---|---|
| `TypeCorrect` | `TypeOK` of `Outbox` |
| `AttemptsAreUnique`, `AttemptsAreCounted`, `AttemptsAreFresh` | `UniqueAttempt`, `AttemptsCounted`, `NoAttemptReused` |
| `PublishedIsDelivered`, `NothingIsLost` | `PublishedDelivered`; `NothingLost` |
| `PromptBatchesExclude`, `PromptBatchesDispatchOnce` | with `Prompt` and no replays, `AtMostOneHolder`; `NoDispatchAfterPublish` |
| `OutboxIsAtLeastOnce` | `Outbox` implements `AtLeastOnce` |
| `LeaderTypeCorrect`, `LeaderIsUnique` | `LeaderTypeOK`; `OneLiveLeader` |
| `OverlapMeansLostConn`, `OldLeadersAreBehind` | `OverlapNeedsLostConn`; `OldLeaderIsBehind` |
| `CacheTypeCorrect`, `OutdatedOnlyInTwoWays` | `TypeOK` of `OrgCache`; `OutdatedOnlyByRace` |
| `RowsAreTyped` | `TypeOK` of `OrgHierarchy`, for all callers |
| `AcceptedOperationsCommit` | without `rescind`, and with `outside_subtree`: `NeverRefused`, in any order of days |
| `ParentsAreInTree` | without `rescind`, or with `date_order`: `NoOrphans` |
| `PathsStayRight`, `TreeStaysAcyclic` | with `date_order`, `outside_subtree` and, where moves are undone, `settled_undo`: `PathsFollowTree`; `Acyclic` |
| `HistoryStands` | with `date_order`, for all operations: `HistoryUnchanged` |
| `HintsStayRight` | with `date_order`, for `create`, `update`, `move`, `correct_move` and `rescind`: `HintMatchesEdge` |
| `StaffingTypeCorrect` | `TypeOK` of `OrgStaffing` |
| `CapacityIsKept`, `PositionsDoExist` | in date order: `WithinCapacity`; `PositionsExist` |
| `NoReportLoops` | in date order, with finitely many positions: `ReportsAcyclic` |
| `CommitsAreSerial` | `Serializable` of `OrgStaffingTx`, for operations in any order of days (`~InDateOrder`) |
| `NoDeadlock` | `NoWaitCycle` of `OrgStaffingTx`, with the same restriction and finitely many positions |
| `DeepTypeCorrect`, `WholeBuildActive`, `AlwaysOneActive`, `ForwardAlone` | `TypeOK`, `ActiveIsWhole`, `NeverDark`, `BuildsMoveForward` of `DeepReadBuilds` |
| `WholeBuildRead` | with `QuietPrune`: `ReadsAreWhole` |

**The argument for the outbox.**  `UniqueAttempt` is not inductive: nothing in it says
that the next number is new.  `AttemptInv` adds that the column counts exactly the
opened attempts of the present generation (`AttemptsCounted`), that opened attempts
are of past or present generations (`OpenedGen`) and that what relays hold was opened
(`HeldOpened`).  Then a claim opens fresh numbers, and a held number is never opened
again.  `DeliveryInv` adds that a relay about to ack has delivered; a removed row is never
replayed (`LastAttemptFixed`), so that the last attempt that let the cleaner take it stays the last.  `ExclusionInv`
says that a row somebody holds has a lease that has not expired and is not published:
without replays only its holder can release it, which is why updates that do
not look at the lease are harmless as long as batches are prompt.  For the refinement,
`AtLeastOnce`'s open attempts are the claims held by relays; each relay step that ends
with a claim closes exactly that attempt, because of `UniqueAttempt`.

**The argument for the leader.**  `LeaderInv` says that the server's lock and the relays' roles
agree, and that a relay that does not lead and never lost its connection has nothing in hand.
`OneLiveLeader` and `OverlapNeedsLostConn` follow.  For `OldLeaderIsBehind` that is not enough:
every step is one of `Outbox` (the lemma `LeaderSteps`), so that `AttemptInv` holds, and `Behind`
is kept by the two steps that could disturb it.  A relay becomes leader with nothing in hand
(`NewLeaderIdle`), and a claim, which only the live leader makes (`LeaderClaims`), has a
number above all opened ones of the row's generation, and a generation not below theirs
(`ClaimIsLater`).

**The argument for the cache.**  `OutdatedOnlyByRace` speaks of entries, and an entry is what a
read carried.  `CacheInv` adds that every entry is in the index (`Indexed`: otherwise an
invalidation misses it), that answered writes are committed (`Committed`), and that each entry
and each read in flight that lacks an answered write is marked (`AnsweredCovered`).  When a
write is answered the marks must be in place: for a plain write the invalidation that comes
with the answer makes them; for a nested one `NestedCovered` says that since its invalidation
every entry and read of the process that lacks the write is marked, because the invalidation
overtook it (`write`) or it began after that (`early`).

**The argument for the hierarchy.**  `OrderInv` says that both tables are timelines (no
overlap, no gap up to the end of time, days in order), that every edge's parent is in
the tree on the edge's first day, and that nobody is their own parent.  Every statement
of the service is one of four changes of a timeline: a set of rows split on a day they
cover (`SplitsValid`: both halves of a move, the subtree's re-insertion, a new slice), two
rows joined that meet (`JoinValid`: delete and stitch), a first row dropped
(`DropFirstValid`), other columns changed (`RelabelValid`: the path rewrite);
`ShiftBoundaryNode` is a join followed by a split.  Each keeps the order, and those that
change edges (all but the drop) take no day from a node, so that a parent in the tree on one day is there on every later day
(`AttachedKept`).  The trigger finds the parent of every edge a move inserts because the
row cut just before is the node's own (`CutGone`).  The paths play no part here, and the
recursion that computes them is not unfolded (`ReslicedIs`).  `NoOrphans` needs less than
that (`AttachedInv`, the edges alone): a move below the node itself is refused by the trigger,
and in date order a node that has no children on the day it is rescinded has none later.

`HistoryStands` and `HintsStayRight` need date order and neither `OrderInv` nor a promise
about subtrees.  For the first, each statement leaves the rows of the days before the
operation's day as they were (`SameBefore`): what it cuts it cuts there, what it adds or
relabels starts there or later, and no edge that a day must precede starts later.  For
the second, a row of the moved unit that is in force on a later day is in force on the
operation's day as well, and is the one row that is cut; from that day on the unit has the
new parent in both tables and everything else keeps its own (`FromEdges`, `FromSlices`).

**The argument for paths.**  Neither `PathsFollowTree` nor `Acyclic` is inductive: a move
finds the descendants by their paths, so that it needs paths to be right, and paths are right
after it only if the descendants it found are the descendants there are.  `PathInv` says
that on each day the edges in force, as unit, parent and path, are a tree (`IsTree`): one row
per unit, every path its parent's path and the unit's own name.  In such a tree the path of
a unit names its ancestors (`Above`, `Through`), each once (`Once`), and so no parents close a
circle.  A move turns a tree into one (`MovedTree`): a unit with everything below it under a
parent outside, all paths renamed from the old prefix to the new one.  That the code does so
is `RegraftedIs`: the recursion over the re-inserted edges has a solution, since parents have
shorter paths (`RecomputesExists`, by the least counterexample, because the library's
induction takes an operator), that solution is the renaming (`ReslicedTo`), and the prefix
rewrite after it finds nothing left to do on those days (`NotBelowOld`).
`DeleteEdgeSliceAndStitch` does the same by the rewrite alone (`UndoneTree`); creation and
rescission add and remove a leaf (`GrownTree`, `PrunedTree`).  In date order it is enough to
look at the day of the operation (`CommittedTree`): the days before it stay as they were, and
on the days after it the same edges are in force.

**The argument for types.**  Everything in `TypeOK` but the paths is read off the
operations.  A path is one of units only if the parent had one, and `EdgeTyped` says that
every committed edge has a path that ends with its own unit; the trigger raises an error
for an edge whose parent is not in the tree on its first day, for every re-inserted edge of a
subtree as well.

**The argument for staffing.**  `OrderInv` is `TypeInv` and `Sound`: the tables satisfy the
constraints of a commit; on every day of a slice an untouched position is within its
capacity and the position it reports to is open; on every day of an assignment its position
is open.  The code looks at one day `d`, and the rows it writes are in force on later
ones.  In date order every row starts by `d`, so a row that covers a later day covers `d`
as well: the active people of a position on a later day are among those of `d`
(`OccupiedLater`), and a boss who is there on `d` is there later (`BossLasts`).  That is why
one day is enough, and why it is not without date order.  `Occupied` counts the units of
the active rows, so that occupancy grows by exactly the share of a row that is added.

A cycle of reports is a set of slices of one day whose bosses are all among their
positions (`Loop`).  `ReportInv` is `TypeInv` and that there is none among untouched
positions.  Suppose a slice with a new boss closed one.  The positions of the cycle hold the
boss and, but for the changed position, whoever they report to, so the whole walk from
the boss stays among them (`LineWithin`); but the walk was accepted because it ends, at nobody,
and nobody is not in a cycle (`CheckedBoss`).  It takes no count of steps: the walk may stop
short only by not ending, and then it is refused.  All other rows of the cycle were in force
on the day of the check, because of date order; a cut, closed or stitched row reports as
it did before (`SameReports`).

**The argument for concurrent transactions.**  `SerialInv` has for every transaction: the
rows it has locked are there, and only their holder changes them; what it still wants
follows from what it holds (`Planned`); once it has its locks and has passed the check there
is room (`Room`); the rows it is about to commit meet nobody else's (`WrittenOK`).  A row on
another person's timeline cannot take the room: whoever adds to a position's occupancy has
locked the slice of it, and whoever has not can only take away.  The exclusion constraint
keeps rows of the same person that are written at the same time from meeting.  A commit then
finds the checks of the sequential operation true of the tables as they are
(`CommitSerial`), which is `Serializable`.  The theorem is for operations in any order of
days: what `InOrder` would ask at the start of a transaction need not hold at its end.

**The argument for deadlocks.**  Locks have levels: a person's timeline, then a row of it,
then slices by the rank of the position's id, and the write to `org_assignments` above them
all.  `LockOrder` says of every transaction that it wants locks of rising levels, all above
those it has (`Rising`); `SlicesRise` is where `UpdateAssignment`'s comparison of the two ids is
needed.  So whoever waits is lower than the one it waits for (`WaitsUp`), and of the
transactions of a circle the highest would wait for a higher one (`NoCircle`).

**The argument for the builds.**  No property is inductive: that an activation makes an
active build whole needs that its command has filled it, and that a failure takes
nothing down needs that the failed build is not active.  `JobInv` says so for every command
(its build is still `building`, unless an activation's answer was lost) and that no two
commands have one build.  `AloneInv` says that while a command is alone no build has newer
rows than its own.  A prune keeps the active build because it is the first of the prune's
order and `Keep` is positive (`ActiveIsKept`).  `ReadInv` is `ReadsAreWhole` for a
request between its statements.

Only model-checked: the liveness properties (`EventuallySettled`, `GoodDelivered`,
`TakeoverSettles`, `LeaderRefreshed`), which need fairness.  Every invariant and every
action property of a passing run is stated by a theorem.  The theorems of `OrgHierarchy` hold
under the restrictions the table names, those of `OrgStaffing` about capacity, positions and
reports for operations in date order; section 9 says which restrictions are necessary.

## 11. What is not modelled

Metrics, logging, texts of errors and JSON; authorization of the callers; tenants other
than the one (every statement has the tenant in its WHERE clause); attributes of nodes
other than the hint, and the unique names of siblings; the freeze window, a guard on the
effective date.

Hierarchy: concurrent transactions.  The model's transactions run one after
another, while the code runs them under READ COMMITTED with row locks and, in the
delete-and-stitch operations, an advisory lock.  A move locks the edges of its own subtree
only, so that two moves that put each one's node below the other's do not meet.  The check
that a rescinded node has no positions is left out: the two modules have no unit in common.
So is the refusal of a move that touches more than 5000 edges.

Staffing: matrix and dotted assignments (the default configuration disables them), job
profiles, catalog modes and restrictions, staffing transitions of a whole unit, the lifecycle
status that callers may give a position when they create, update or correct it; of the
concurrent model what section 7 names.

Deep-read: which rows a build has.  Builds of a snapshot are made in the same way and are
neither switched nor pruned; the report made from one is left out.

Change requests (`change_request_service.go`): one row and three statuses.  `Submit` and
`Cancel` read the status in one statement and write it in another that compares
nothing, so that two of them at once may end in either status, whatever order they ran in.

Only a small share of the repository's lines is covered: most of them are screens,
generated templates and controllers, SQL text, parsing and tools, which keep no state
that two steps could disagree on.  Every other part is in `PROJECT.json` with its reason.

## 12. Plan

Done, in this order: the outbox with its abstract specification, the single-active relay,
the cache, the hierarchy, staffing alone and concurrent, the deep-read builds.  What would
come next:

1. Two moves at once, with the rows `LockEdgesInSubtree` locks, and which properties
   of section 6 survive.
2. A deadline that ends the relay while its process goes on.
3. Change requests and personnel events whose requests are repeated.
4. The back-off with its overflow, and attribute inheritance, as functions checked against
   reference definitions.
5. `WsHub`, the lens executor's cache, org-data's import and rollback.

Theorems still worth proving: `Serializable` for operations that make a second slice of a
position, once their locks are modelled; and whatever the modules above will state.
