---------------------------- MODULE OutboxLeader ----------------------------
(***************************************************************************)
(* The outbox with RelayOptions.SingleActive, the default of cmd/server: a *)
(* relay polls for a session-level advisory lock on a pooled connection,   *)
(* and the one that gets it runs every statement of its loop on that       *)
(* connection for as long as its process lives.  Nothing in the loop asks  *)
(* whether the connection is still there: after it breaks, each statement  *)
(* fails and is logged, and the lock the server frees is never asked for   *)
(* again by that process.                                                  *)
(***************************************************************************)
EXTENDS Outbox

CONSTANTS
    NoOne,          \* owner of a free advisory lock
    MaxConnLosses   \* bound: connections that break

ASSUME LeaderAssumption == NoOne \notin Relays /\ MaxConnLosses \in Nat

VARIABLES
    session,    \* a relay's view: "none", "leader" or "broken"
    owner,      \* the server's view: whose session holds the advisory lock
    losses      \* connections broken so far

leaderVars == <<session, owner, losses>>
allVars    == <<vars, leaderVars>>

LeaderInit ==
    /\ Init
    /\ session = [r \in Relays |-> "none"]
    /\ owner   = NoOne
    /\ losses  = 0

\* Faulty variant: the result of pg_try_advisory_lock is ignored.
TryAcquireLeaderUnchecked(r) ==
    /\ pc[r] = "idle" /\ session[r] = "none"
    /\ owner'   = r
    /\ session' = [session EXCEPT ![r] = "leader"]
    /\ UNCHANGED <<losses, vars>>

\* A turn of runSingleActive that finds the lock free.  (A turn that does not
\* releases the connection and sleeps: a stutter.)
TryAcquireLeader(r) ==
    /\ pc[r] = "idle" /\ session[r] = "none"
    /\ owner = NoOne
    /\ owner'   = r
    /\ session' = [session EXCEPT ![r] = "leader"]
    /\ UNCHANGED <<losses, vars>>

\* The held connection breaks, at any point of the loop.
ConnLost(r) ==
    /\ session[r] = "leader"
    /\ losses < MaxConnLosses
    /\ losses'  = losses + 1
    /\ session' = [session EXCEPT ![r] = "broken"]
    /\ UNCHANGED <<owner, vars>>

\* The server ends a session whose client is gone and frees its lock.
ServerFreesLock ==
    /\ owner # NoOne
    /\ session[owner] # "leader"
    /\ owner' = NoOne
    /\ UNCHANGED <<session, losses, vars>>

\* Steps that need the connection, steps that do not, and the steps a broken
\* connection leaves: the claim of each tick fails (a stutter), so does the
\* update after each dispatch.
OnConn(r) ==
    /\ session[r] = "leader"
    /\ \/ \E B \in Batches : Claim(r, B) \/ ClaimLost(r, B)
       \/ Ack(r) \/ Nack(r) \/ Dead(r) \/ SettleLost(r)
    /\ UNCHANGED leaderVars

OffConn(r) ==
    /\ \/ \E c \in todo[r] : StartDispatch(r, c)
       \/ DispatchOk(r) \/ DispatchFail(r)
       \/ Restart(r)
    /\ UNCHANGED leaderVars

SettleOnBroken(r) ==
    /\ session[r] = "broken"
    /\ SettleLost(r)
    /\ UNCHANGED leaderVars

\* The process dies, and its session with it: the server notices later.
LeaderCrash(r) ==
    /\ Crash(r)
    /\ session' = [session EXCEPT ![r] = "none"]
    /\ UNCHANGED <<owner, losses>>

LeaderNext ==
    \/ \E r \in Relays :
         \/ TryAcquireLeader(r) \/ ConnLost(r) \/ LeaderCrash(r)
         \/ OnConn(r) \/ OffConn(r) \/ SettleOnBroken(r)
    \/ ServerFreesLock
    \/ \E m \in Msgs : RowStep(m) /\ UNCHANGED leaderVars
    \/ \E D \in SUBSET Msgs : Clean(D) /\ UNCHANGED leaderVars

LeaderSpec == LeaderInit /\ [][LeaderNext]_allVars

\* As in Outbox; a standby polls for the lock and the server notices a dead
\* session (TCP keepalive).  Nothing makes a broken leader acquire again.
LeaderFairness ==
    /\ WF_allVars(ServerFreesLock)
    /\ \A r \in Relays :
         /\ SF_allVars(TryAcquireLeader(r))
         /\ WF_allVars(\E c \in todo[r] : StartDispatch(r, c) /\ UNCHANGED leaderVars)
         /\ WF_allVars((DispatchOk(r) \/ DispatchFail(r)) /\ UNCHANGED leaderVars)
         /\ WF_allVars(session[r] = "leader" /\ (Ack(r) \/ Nack(r) \/ Dead(r) \/ SettleLost(r)) /\ UNCHANGED leaderVars)
         /\ WF_allVars(SettleOnBroken(r))
         /\ WF_allVars(Restart(r) /\ UNCHANGED leaderVars)
    /\ \A m \in Msgs :
         /\ WF_allVars(LeaseExpires(m) /\ UNCHANGED leaderVars)
         /\ WF_allVars(BecomesDue(m) /\ UNCHANGED leaderVars)
         /\ SF_allVars(\E r \in Relays, B \in Batches :
                         /\ m \in B /\ session[r] = "leader"
                         /\ Claim(r, B) /\ UNCHANGED leaderVars)

FairLeaderSpec == LeaderSpec /\ LeaderFairness

-----------------------------------------------------------------------------
(* Properties *)

LeaderTypeOK ==
    /\ TypeOK
    /\ session \in [Relays -> {"none", "leader", "broken"}]
    /\ owner \in Relays \cup {NoOne}
    /\ losses \in 0..MaxConnLosses

\* The lock the server keeps and the role a relay believes in agree: no two
\* relays have a live leader connection, through crashes and takeovers.
OneLiveLeader == \A r, s \in Relays : session[r] = "leader" /\ session[s] = "leader" => r = s

\* Single-active delivery: "at any time only one instance executes dispatch"
\* (docs/dev-plans/017-transactional-outbox.md:311).  That is true only of instances
\* with a live connection: a leader whose connection broke goes on with its batch, and
\* may still dispatch when a standby starts to.  Nothing else makes two dispatch at
\* once: no crash, restart, lost answer, expired lease or takeover.
OverlapNeedsLostConn ==
    \A r, s \in Relays : pc[r] = "dispatch" /\ pc[s] = "dispatch" /\ session[r] # "broken" =>
        r = s \/ session[s] = "broken"

Later(d, c) == d.gen > c.gen \/ (d.gen = c.gen /\ d.attempts > c.attempts)

\* What an old leader still has in its batch is behind what the new one has: a claim
\* held beside the live leader's is of a relay whose connection broke, and if it is of
\* the same row (the lease expired) it is an earlier attempt than the leader's.
OldLeaderIsBehind ==
    \A r, s \in Relays : r # s /\ session[s] = "leader" =>
        \A c \in Held(r), d \in Held(s) : session[r] = "broken" /\ (c.id = d.id => Later(d, c))

\* A standby takes over a dead or disconnected leader: no accepted row is
\* forgotten with attempts left while one process has not lost its connection.
TakeoverSettles == EventuallySettled
=============================================================================
