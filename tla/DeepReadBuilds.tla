--------------------------- MODULE DeepReadBuilds ---------------------------
(***************************************************************************)
(* The life of the deep-read builds of modules/org: a build command makes  *)
(* org_hierarchy_closure anew from org_edges and then makes its build the  *)
(* active one, an operator switches back to an older build or prunes old   *)
(* builds, and requests read whichever build is active.                    *)
(*                                                                         *)
(* Every command's transactions take one advisory lock, and hold it for    *)
(* one transaction only: a transaction is one step, and between the three  *)
(* of a build anything else may happen.  Requests take no lock; their two  *)
(* statements are two steps.  The rows of a build are abstracted to the    *)
(* number of writes to org_edges that their INSERT ... SELECT saw.         *)
(* There is at least one edge.  Builds of a snapshot (the rows of one day)  *)
(* live in the same way, but nobody switches or prunes them.               *)
(***************************************************************************)
EXTENDS Integers, FiniteSets

CONSTANTS
    Commands,       \* concurrent build commands
    Readers,        \* concurrent requests
    None,           \* no row, no rows, no command, no request
    Keep,           \* --keep of the prune command
    QuietPrune,     \* operators prune only while no request is between its statements
    MaxBuilds,      \* bound: builds ever started
    MaxWrites,      \* bound: writes to org_edges
    MaxLost         \* bound: commits whose answer is lost

Versions == 0..MaxWrites
Ids      == 1..MaxBuilds    \* in the order of built_at, which is when their transactions began

Builds == [status : {"building", "ready", "failed"}, active : BOOLEAN, rows : Versions \cup {None}]
Jobs   == [id : Ids, stage : {"register", "fill", "activate", "fail"}, alone : BOOLEAN]
Reads  == [id : Ids, open : BOOLEAN, rows : Versions \cup {None}]

ASSUME BuildsAssumption ==
    /\ Keep \in Nat \ {0} /\ QuietPrune \in BOOLEAN
    /\ MaxBuilds \in Nat /\ MaxWrites \in Nat /\ MaxLost \in Nat
    /\ None \notin Builds \cup Jobs \cup Reads \cup Versions

VARIABLES
    version,    \* committed writes to org_edges
    started,    \* builds started so far
    builds,     \* builds[i]: its row in org_hierarchy_closure_builds and its rows
    job,        \* job[c]: the build a command is making
    read,       \* read[r]: the build a request has found, and what it got from it
    lost        \* commits whose answer was lost so far

vars == <<version, started, builds, job, read, lost>>

Init ==
    /\ version = 0 /\ started = 0 /\ lost = 0
    /\ builds = [i \in Ids |-> None]
    /\ job    = [c \in Commands |-> None]
    /\ read   = [r \in Readers |-> None]

-----------------------------------------------------------------------------

There(i)  == builds[i] # None
Active(i) == There(i) /\ builds[i].active

Stage(c, stage) == job[c] # None /\ job[c].stage = stage
GoTo(c, stage)  == job' = [job EXCEPT ![c].stage = stage]
Stop(c)         == job' = [job EXCEPT ![c] = None]

\* Both statements of a switch: is_active=false where it is true, then true for i.
SwitchedTo(i) ==
    [j \in Ids |-> IF j = i THEN [builds[j] EXCEPT !.status = "ready", !.active = TRUE]
                   ELSE IF Active(j) THEN [builds[j] EXCEPT !.active = FALSE]
                   ELSE builds[j]]

\* A write to org_edges commits.
WriteEdges ==
    /\ version < MaxWrites
    /\ version' = version + 1
    /\ UNCHANGED <<started, builds, job, read, lost>>

-----------------------------------------------------------------------------
(* The build command *)

\* The first transaction begins: now() is taken, the lock is not.  (History: alone says
\* that no other command has run since.)
StartBuild(c) ==
    /\ job[c] = None
    /\ started < MaxBuilds
    /\ started' = started + 1
    /\ job' = [x \in Commands |->
                  IF x = c THEN [id |-> started', stage |-> "register", alone |-> \A y \in Commands : job[y] = None]
                  ELSE IF job[x] # None THEN [job[x] EXCEPT !.alone = FALSE]
                  ELSE None]
    /\ UNCHANGED <<version, builds, read, lost>>

\* Faulty variant: a status of its own for a build that has no rows yet.
RegisterAsPending(c) ==
    /\ Stage(c, "register")
    /\ builds' = [builds EXCEPT ![job[c].id] = [status |-> "pending", active |-> FALSE, rows |-> None]]
    /\ GoTo(c, "fill")
    /\ UNCHANGED <<version, started, read, lost>>

Register(c) ==
    /\ Stage(c, "register")
    /\ builds' = [builds EXCEPT ![job[c].id] = [status |-> "building", active |-> FALSE, rows |-> None]]
    /\ GoTo(c, "fill")
    /\ UNCHANGED <<version, started, read, lost>>

\* Faulty variant: the edges are read before the transaction has the lock.
FillFromBefore(c) ==
    /\ Stage(c, "fill") /\ There(job[c].id)
    /\ \E seen \in 0..version : builds' = [builds EXCEPT ![job[c].id].rows = seen]
    /\ GoTo(c, "activate")
    /\ UNCHANGED <<version, started, read, lost>>

\* INSERT ... SELECT sees one state of org_edges; the foreign key needs the build's row.
Fill(c) ==
    /\ Stage(c, "fill") /\ There(job[c].id)
    /\ builds' = [builds EXCEPT ![job[c].id].rows = version]
    /\ GoTo(c, "activate")
    /\ UNCHANGED <<version, started, read, lost>>

\* The same, but the commit's answer is lost and taken for an error.
FillLost(c) ==
    /\ Stage(c, "fill") /\ There(job[c].id)
    /\ lost < MaxLost
    /\ lost' = lost + 1
    /\ builds' = [builds EXCEPT ![job[c].id].rows = version]
    /\ GoTo(c, "fail")
    /\ UNCHANGED <<version, started, read>>

\* The build's row is not there, or any other error: the transaction is rolled back.
Refused(c, stage) ==
    /\ Stage(c, stage)
    /\ GoTo(c, "fail")
    /\ UNCHANGED <<version, started, builds, read, lost>>

FillFails(c)     == Refused(c, "fill")
ActivateFails(c) == Refused(c, "activate")

\* Faulty variant: the number of rows the second statement changed is not looked at.
ActivateBlindly(c) ==
    /\ Stage(c, "activate")
    /\ builds' = [j \in Ids |-> IF ~There(j) THEN None ELSE SwitchedTo(job[c].id)[j]]
    /\ Stop(c)
    /\ UNCHANGED <<version, started, read, lost>>

\* Ready and active in one transaction, if the build's row is there.
Activate(c) ==
    /\ Stage(c, "activate") /\ There(job[c].id)
    /\ builds' = SwitchedTo(job[c].id)
    /\ Stop(c)
    /\ UNCHANGED <<version, started, read, lost>>

\* Activated, with the answer lost.
ActivateLost(c) ==
    /\ Stage(c, "activate") /\ There(job[c].id)
    /\ lost < MaxLost
    /\ lost' = lost + 1
    /\ builds' = SwitchedTo(job[c].id)
    /\ GoTo(c, "fail")
    /\ UNCHANGED <<version, started, read>>

\* The note of a failure.  (After a failed fill is_active is not written; it is false.)
MarkFailed(c) ==
    /\ Stage(c, "fail")
    /\ builds' = [builds EXCEPT ![job[c].id] =
                     IF There(job[c].id) THEN [@ EXCEPT !.status = "failed", !.active = FALSE] ELSE None]
    /\ Stop(c)
    /\ UNCHANGED <<version, started, read, lost>>

\* The command dies, or gives up without a note: what it has committed stays.
Die(c) ==
    /\ job[c] # None
    /\ Stop(c)
    /\ UNCHANGED <<version, started, builds, read, lost>>

-----------------------------------------------------------------------------
(* Operators *)

\* Faulty variant: any build will do.
ActivateAnyBuild(i) ==
    /\ There(i)
    /\ builds' = SwitchedTo(i)
    /\ UNCHANGED <<version, started, job, read, lost>>

\* ActivateDeepReadClosureBuild; a build that is not ready rolls it back.
ActivateBuild(i) ==
    /\ There(i) /\ builds[i].status = "ready"
    /\ builds' = SwitchedTo(i)
    /\ UNCHANGED <<version, started, job, read, lost>>

\* ORDER BY is_active DESC, built_at DESC.
Before(i, j) == IF Active(i) = Active(j) THEN i > j ELSE Active(i)

Kept(j) == Cardinality({i \in Ids : There(i) /\ Before(i, j)}) < Keep

Reading(r) == read[r] # None /\ read[r].open

\* The rows of a build go with it.
Prune ==
    /\ QuietPrune => \A r \in Readers : ~Reading(r)
    /\ \E i \in Ids : There(i) /\ ~Kept(i)
    /\ builds' = [i \in Ids |-> IF There(i) /\ Kept(i) THEN builds[i] ELSE None]
    /\ UNCHANGED <<version, started, job, read, lost>>

-----------------------------------------------------------------------------
(* Requests *)

\* Faulty variant: the newest build is taken for the active one.
LookUpNewest(r) ==
    /\ ~Reading(r)
    /\ \E i \in Ids :
        /\ There(i) /\ \A j \in Ids : There(j) => j <= i
        /\ read' = [read EXCEPT ![r] = [id |-> i, open |-> TRUE, rows |-> None]]
    /\ UNCHANGED <<version, started, builds, job, lost>>

\* activeClosureBuildID; without an active build the request fails.
LookUp(r) ==
    /\ ~Reading(r)
    /\ \E i \in Ids :
        /\ Active(i) /\ builds[i].status = "ready"
        /\ read' = [read EXCEPT ![r] = [id |-> i, open |-> TRUE, rows |-> None]]
    /\ UNCHANGED <<version, started, builds, job, lost>>

\* The rows with that build_id; none if the build has been pruned.
ReadRows(r) ==
    /\ Reading(r)
    /\ read' = [read EXCEPT ![r].open = FALSE,
                            ![r].rows = IF There(read[r].id) THEN builds[read[r].id].rows ELSE None]
    /\ UNCHANGED <<version, started, builds, job, lost>>

-----------------------------------------------------------------------------

CommandStep(c) ==
    \/ StartBuild(c) \/ Register(c)
    \/ Fill(c) \/ FillLost(c) \/ FillFails(c)
    \/ Activate(c) \/ ActivateLost(c) \/ ActivateFails(c)
    \/ MarkFailed(c) \/ Die(c)

Next ==
    \/ WriteEdges
    \/ \E c \in Commands : CommandStep(c)
    \/ \E i \in Ids : ActivateBuild(i)
    \/ Prune
    \/ \E r \in Readers : LookUp(r) \/ ReadRows(r)

Spec == Init /\ [][Next]_vars

-----------------------------------------------------------------------------
(* Properties *)

TypeOK ==
    /\ version \in Versions /\ started \in 0..MaxBuilds /\ lost \in 0..MaxLost
    /\ builds \in [Ids -> Builds \cup {None}]
    /\ job    \in [Commands -> Jobs \cup {None}]
    /\ read   \in [Readers -> Reads \cup {None}]

\* "Only when it is ready is a build made active; a failed build does not affect what is
\* read" (docs/dev-plans/029-org-closure-and-deep-read-optimization.md:255): there is at
\* most one active build, and it has all of its rows, wherever a command failed or died and
\* whatever operators did meanwhile.
ActiveIsWhole ==
    \A i, j \in Ids : Active(i) =>
        /\ builds[i].status = "ready" /\ builds[i].rows # None
        /\ Active(j) => i = j

\* Once there is an active build there always is one: no failure, no prune and no switch
\* takes it away, as long as no commit's answer is lost.
NeverDark == [][lost' = 0 /\ (\E i \in Ids : Active(i)) => (\E i \in Ids : Active(i)')]_vars

\* A command that no other one overlapped never makes older rows active than were there.
\* (The lock is free between its transactions, so that overlapping ones do.)
BuildsMoveForward ==
    [][\A c \in Commands, i, j \in Ids :
         Stage(c, "activate") /\ job[c].alone /\ job[c].id = j /\ Active(i) /\ Active(j)' =>
             builds[j].rows >= builds[i].rows]_vars

\* A request that has found a build gets all of its rows, if operators prune in quiet times.
ReadsAreWhole == \A r \in Readers : read[r] # None /\ ~read[r].open => read[r].rows # None
=============================================================================
