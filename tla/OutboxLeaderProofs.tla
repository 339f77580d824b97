------------------------- MODULE OutboxLeaderProofs -------------------------
(***************************************************************************)
(* Proofs about the single-active outbox, for any number of relays, broken *)
(* connections, crashes and replays: its live leader is unique, only a     *)
(* broken connection lets two relays dispatch at once, and what the older  *)
(* of them holds is behind what the newer one does.                        *)
(***************************************************************************)
EXTENDS OutboxLeader, OutboxProofs

\* Every step of the single-active relays is a step of Outbox: what is proved of
\* the rows and the attempts holds here too.
LEMMA LeaderSteps == LeaderSpec => Spec
  <1>1. LeaderInit => Init
    BY DEF LeaderInit
  <1>2. [LeaderNext]_allVars => [Next]_vars
    BY DEF LeaderNext, allVars, Next, RelayStep, TryAcquireLeader, ConnLost, ServerFreesLock,
           OnConn, OffConn, SettleOnBroken, LeaderCrash
  <1> QED
    BY <1>1, <1>2, PTL DEF LeaderSpec, Spec

\* The server's lock and the relays' roles agree, and a relay with a batch is or
\* was a leader.
LeaderInv ==
    /\ session \in [Relays -> {"none", "leader", "broken"}]
    /\ losses \in Nat
    /\ \A r \in Relays : session[r] = "leader" => owner = r
    /\ \A r \in Relays : session[r] = "broken" => losses > 0
    /\ \A r \in Relays : session[r] = "none" => pc[r] \in {"idle", "down"}

LEMMA LeaderInvStep ==
    ASSUME TypeOK, LeaderInv, [LeaderNext]_allVars
    PROVE  LeaderInv'
  <1> USE LeaderAssumption DEF TypeOK, LeaderInv
  <1>1. ASSUME NEW r \in Relays, TryAcquireLeader(r) PROVE LeaderInv'
    BY <1>1 DEF TryAcquireLeader, vars, relayVars
  <1>2. ASSUME NEW r \in Relays, ConnLost(r) PROVE LeaderInv'
    BY <1>2 DEF ConnLost, vars, relayVars
  <1>3. ASSUME NEW r \in Relays, LeaderCrash(r) PROVE LeaderInv'
    BY <1>3 DEF LeaderCrash, Crash
  <1>4. ASSUME NEW r \in Relays, OnConn(r) \/ SettleOnBroken(r) PROVE LeaderInv'
    <2>1. session[r] # "none" /\ UNCHANGED leaderVars /\ (pc' = pc \/ pc' = [pc EXCEPT ![r] = pc'[r]])
      BY <1>4 DEF OnConn, SettleOnBroken, Claim, ClaimLost, relayVars, Ack, Nack, Dead, Release, SettleLost, EndItem
    <2> QED
      BY <2>1 DEF leaderVars
  <1>5. ASSUME NEW r \in Relays, OffConn(r) PROVE LeaderInv'
    BY <1>5 DEF OffConn, leaderVars, StartDispatch, DispatchOk, DispatchFail, Restart
  <1>6. CASE ServerFreesLock
    BY <1>6 DEF ServerFreesLock, vars, relayVars
  <1>7. ASSUME NEW m \in Msgs, RowStep(m), UNCHANGED leaderVars PROVE LeaderInv'
    BY <1>7 DEF RowStep, Enqueue, LeaseExpires, BecomesDue, Replay, relayVars, leaderVars
  <1>8. ASSUME NEW D \in SUBSET Msgs, Clean(D), UNCHANGED leaderVars PROVE LeaderInv'
    BY <1>8 DEF Clean, relayVars, leaderVars
  <1>9. CASE UNCHANGED allVars
    BY <1>9 DEF allVars, leaderVars, vars, relayVars
  <1> QED
    BY <1>1, <1>2, <1>3, <1>4, <1>5, <1>6, <1>7, <1>8, <1>9 DEF LeaderNext

LEMMA LeaderInvariant == LeaderSpec => []LeaderInv
  <1>1. LeaderInit => LeaderInv
    BY DEF LeaderInit, Init, LeaderInv
  <1>2. LeaderSpec => []TypeOK
    BY LeaderSteps, TypeCorrect, PTL
  <1>3. TypeOK /\ LeaderInv /\ [LeaderNext]_allVars => LeaderInv'
    BY LeaderInvStep
  <1> QED
    BY <1>1, <1>2, <1>3, PTL DEF LeaderSpec

\* No two relays have a live leader connection, through crashes, broken
\* connections and takeovers.
THEOREM LeaderIsUnique == LeaderSpec => []OneLiveLeader
  <1>1. LeaderInv => OneLiveLeader
    BY DEF LeaderInv, OneLiveLeader
  <1> QED
    BY <1>1, LeaderInvariant, PTL

\* Two relays dispatch at once only if the connection of one of them broke while it led.
THEOREM OverlapMeansLostConn == LeaderSpec => []OverlapNeedsLostConn
  <1>1. LeaderInv => OverlapNeedsLostConn
    <2> SUFFICES ASSUME LeaderInv, NEW r \in Relays, NEW s \in Relays, pc[r] = "dispatch",
                        pc[s] = "dispatch", session[r] # "broken", session[s] # "broken"
                 PROVE  r = s
      BY DEF OverlapNeedsLostConn
    <2>1. session[r] = "leader" /\ session[s] = "leader"
      BY DEF LeaderInv
    <2> QED
      BY <2>1 DEF LeaderInv
  <1> QED
    BY <1>1, LeaderInvariant, PTL

-----------------------------------------------------------------------------
(* The claims an old leader still holds *)

\* Beside a live leader, the attempts others hold of its rows are earlier ones.
Behind ==
    \A r, s \in Relays : r # s /\ session[s] = "leader" =>
        \A c \in Held(r), d \in Held(s) : c.id = d.id => Later(d, c)

\* A relay becomes leader with nothing in its hands.
LEMMA NewLeaderIdle ==
    ASSUME TypeOK, LeaderInv, [LeaderNext]_allVars, NEW s \in Relays, session'[s] = "leader"
    PROVE  session[s] = "leader" \/ pc[s] = "idle"
  <1> USE DEF LeaderInv
  <1>1. ASSUME NEW r \in Relays, TryAcquireLeader(r) PROVE session[s] = "leader" \/ pc[s] = "idle"
    BY <1>1 DEF TryAcquireLeader
  <1>2. ASSUME NEW r \in Relays, ConnLost(r) \/ LeaderCrash(r) PROVE session[s] = "leader"
    BY <1>2 DEF ConnLost, LeaderCrash
  <1>3. CASE UNCHANGED session
    BY <1>3
  <1> QED
    BY <1>1, <1>2, <1>3 DEF LeaderNext, OnConn, OffConn, SettleOnBroken, ServerFreesLock, leaderVars, allVars

\* Only the live leader claims.
LEMMA LeaderClaims ==
    ASSUME TypeOK, LeaderInv, [LeaderNext]_allVars, NEW q \in Relays, NEW B \in Batches, Claim(q, B)
    PROVE  session[q] = "leader" /\ session' = session
  <1> USE DEF TypeOK, LeaderInv
  <1>1. pc[q] = "idle" /\ pc'[q] = "loop"
    BY DEF Claim
  <1>2. ASSUME NEW r \in Relays, OnConn(r) PROVE session[q] = "leader" /\ session' = session
    <2>1. pc' = pc \/ pc' = [pc EXCEPT ![r] = pc'[r]]
      BY <1>2 DEF OnConn, Claim, ClaimLost, relayVars, Ack, Nack, Dead, Release, SettleLost, EndItem
    <2>2. q = r
      BY <1>1, <2>1
    <2> QED
      BY <1>2, <2>2 DEF OnConn, leaderVars
  <1>3. ~(UNCHANGED relayVars)
    BY <1>1 DEF relayVars
  <1>4. ASSUME NEW r \in Relays, OffConn(r) \/ SettleOnBroken(r) \/ LeaderCrash(r) PROVE FALSE
    BY <1>1, <1>4 DEF OffConn, SettleOnBroken, LeaderCrash, StartDispatch, DispatchOk, DispatchFail,
                      Restart, SettleLost, EndItem, Crash
  <1> QED
    BY <1>2, <1>3, <1>4
    DEF LeaderNext, TryAcquireLeader, ConnLost, ServerFreesLock, RowStep, Enqueue, LeaseExpires,
        BecomesDue, Replay, Clean, vars, allVars

\* A new claim of a row is later than every claim opened of it.
LEMMA ClaimIsLater ==
    ASSUME AttemptInv, NEW m \in Msgs, NEW c \in opened, c.id = m
    PROVE  Later(ClaimOf(m), c)
  <1>1. /\ c = [id |-> m, gen |-> c.gen, attempts |-> c.attempts]
        /\ c.gen \in Nat /\ c.attempts \in 1..MaxAttempts /\ c.gen <= gen[m]
        /\ gen[m] \in Nat /\ attempts[m] \in Nat
    BY AttemptsAssumption, BoundsAssumption DEF AttemptInv, TypeOK, Claims, OpenedGen
  <1>2. CASE c.gen = gen[m]
    <2>1. Attempt(m, c.attempts) \in opened
      BY <1>1, <1>2 DEF Attempt
    <2>2. c.attempts <= attempts[m]
      BY <1>1, <2>1 DEF AttemptInv, AttemptsCounted
    <2> QED
      BY <1>1, <1>2, <2>2, AttemptsAssumption DEF Later, ClaimOf, Attempt
  <1> QED
    BY <1>1, <1>2 DEF Later, ClaimOf, Attempt

LEMMA BehindStep ==
    ASSUME AttemptInv, LeaderInv, Behind, [LeaderNext]_allVars, [Next]_vars
    PROVE  Behind'
  <1>1. TypeOK /\ ControlOK
    BY DEF AttemptInv
  <1>2. CASE \A r \in Relays : Held(r)' \subseteq Held(r)
    <2> SUFFICES ASSUME NEW r \in Relays, NEW s \in Relays, r # s, session'[s] = "leader",
                        NEW c \in Held(r)', NEW d \in Held(s)', c.id = d.id
                 PROVE  Later(d, c)
      BY DEF Behind, Later
    <2>1. c \in Held(r) /\ d \in Held(s)
      BY <1>2
    <2>2. session[s] = "leader"
      <3>1. pc[s] # "idle"
        BY <1>1, <2>1 DEF Held, ControlOK
      <3> QED
        BY <1>1, <3>1, NewLeaderIdle
    <2> QED
      BY <2>1, <2>2 DEF Behind
  <1>3. ASSUME NEW q \in Relays, NEW B \in Batches, Claim(q, B), Held(q)' = New(B),
               \A s \in Relays \ {q} : Held(s)' = Held(s)
        PROVE  Behind'
    <2>1. session[q] = "leader" /\ session' = session
      BY <1>1, <1>3, LeaderClaims
    <2> SUFFICES ASSUME NEW r \in Relays, NEW s \in Relays, r # s, session[s] = "leader",
                        NEW c \in Held(r)', NEW d \in Held(s)', c.id = d.id
                 PROVE  Later(d, c)
      BY <2>1 DEF Behind, Later
    <2>2. s = q
      BY <2>1 DEF LeaderInv
    <2>3. PICK m \in B : d = ClaimOf(m)
      BY <1>3, <2>2 DEF New
    <2>4. m \in Msgs /\ d.id = m
      BY <2>3 DEF Batches, ClaimOf, Attempt
    <2>5. c \in opened
      BY <1>3, <2>2 DEF AttemptInv, HeldOpened
    <2> QED
      BY <2>3, <2>4, <2>5, ClaimIsLater
  <1> QED
    BY <1>1, <1>2, <1>3, HeldStep

\* What a leader that lost its connection still has to dispatch, nack or acknowledge is
\* an earlier attempt than the present leader's of the same row.
THEOREM OldLeadersAreBehind == LeaderSpec => []OldLeaderIsBehind
  <1>1. LeaderInit => Behind
    BY DEF LeaderInit, Init, Behind, Held
  <1>2. LeaderSpec => []AttemptInv /\ [][Next]_vars
    BY LeaderSteps, AttemptInvariant, PTL DEF Spec
  <1>3. AttemptInv /\ LeaderInv /\ Behind /\ [LeaderNext]_allVars /\ [Next]_vars => Behind'
    BY BehindStep
  <1>4. AttemptInv /\ LeaderInv /\ Behind => OldLeaderIsBehind
    <2> SUFFICES ASSUME AttemptInv, LeaderInv, NEW r \in Relays, NEW s \in Relays, r # s,
                        session[s] = "leader", NEW c \in Held(r)
                 PROVE  session[r] = "broken"
      BY DEF OldLeaderIsBehind, Behind
    <2>1. pc[r] \notin {"idle", "down"}
      BY DEF AttemptInv, ControlOK, Held
    <2> QED
      BY <2>1 DEF LeaderInv
  <1> QED
    BY <1>1, <1>2, <1>3, <1>4, LeaderInvariant, PTL DEF LeaderSpec

-----------------------------------------------------------------------------
(* Types *)

\* What a relay believes, who owns the lock and how many connections broke.
SessionTypes ==
    /\ session \in [Relays -> {"none", "leader", "broken"}]
    /\ owner \in Relays \cup {NoOne}
    /\ losses \in 0..MaxConnLosses

LEMMA SessionStep == SessionTypes /\ [LeaderNext]_allVars => SessionTypes'
  <1> SUFFICES ASSUME SessionTypes, [LeaderNext]_allVars PROVE SessionTypes'
    OBVIOUS
  <1> USE LeaderAssumption DEF SessionTypes
  <1>1. ASSUME NEW r \in Relays, TryAcquireLeader(r) PROVE SessionTypes'
    BY <1>1 DEF TryAcquireLeader
  <1>2. ASSUME NEW r \in Relays, ConnLost(r) PROVE SessionTypes'
    BY <1>2 DEF ConnLost
  <1>3. ASSUME NEW r \in Relays, LeaderCrash(r) PROVE SessionTypes'
    BY <1>3 DEF LeaderCrash
  <1>4. CASE ServerFreesLock
    BY <1>4 DEF ServerFreesLock
  <1>5. CASE UNCHANGED leaderVars
    BY <1>5 DEF leaderVars
  <1> QED
    BY <1>1, <1>2, <1>3, <1>4, <1>5 DEF LeaderNext, OnConn, OffConn, SettleOnBroken, allVars

\* The types are right in every state, through crashes, broken connections and takeovers.
THEOREM LeaderTypeCorrect == LeaderSpec => []LeaderTypeOK
  <1>1. LeaderInit => SessionTypes
    BY LeaderAssumption DEF LeaderInit, SessionTypes
  <1>2. LeaderSpec => []TypeOK
    BY LeaderSteps, TypeCorrect, PTL
  <1>3. TypeOK /\ SessionTypes => LeaderTypeOK
    BY DEF LeaderTypeOK, SessionTypes
  <1> QED
    BY <1>1, <1>2, <1>3, SessionStep, PTL DEF LeaderSpec
=============================================================================
