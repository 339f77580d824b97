---------------------------- MODULE OutboxProofs ----------------------------
(***************************************************************************)
(* Proofs about Outbox, for every set of rows and relays, every batch size *)
(* and attempt limit, and any number of faults and replays.                *)
(***************************************************************************)
EXTENDS Outbox, TLAPS

-----------------------------------------------------------------------------
(* Type correctness *)

\* The claims a batch opens are well-formed: the WHERE clause of the claim keeps
\* the incremented attempt number within MaxAttempts.
LEMMA ClaimType ==
    ASSUME TypeOK, NEW m \in Msgs, Claimable(m)
    PROVE  ClaimOf(m) \in Claims
  BY AttemptsAssumption, BoundsAssumption DEF TypeOK, Claimable, ClaimOf, Attempt, Claims

\* Taking the leases of a batch keeps the types of what it changes.
LEMMA LeaseType ==
    ASSUME TypeOK, NEW B \in Batches, TakeLeases(B)
    PROVE  /\ lock' \in [Msgs -> {"none", "held", "expired"}]
           /\ attempts' \in [Msgs -> 0..MaxAttempts]
           /\ opened' \in SUBSET Claims
           /\ {ClaimOf(m) : m \in B} \subseteq Claims
  <1>1. B \subseteq Msgs
    BY DEF Batches
  <1>2. {ClaimOf(m) : m \in B} \subseteq Claims
    BY <1>1, ClaimType DEF TakeLeases
  <1>3. \A m \in B : attempts[m] + 1 \in 0..MaxAttempts
    BY <1>1, AttemptsAssumption DEF TypeOK, TakeLeases, Claimable
  <1> QED
    BY <1>1, <1>2, <1>3 DEF TypeOK, TakeLeases

\* A relay has a current claim exactly while it dispatches or settles one, no
\* claim left when it waits for the ticker, and never the current claim twice.
ControlOK ==
    \A r \in Relays :
        /\ pc[r] \in {"dispatch", "ack", "nack", "dead"} <=> cur[r] # NoClaim
        /\ pc[r] \in {"idle", "down"} => todo[r] = {}
        /\ cur[r] \notin todo[r]

\* Every step of the outbox keeps every variable within its type.  A relay that
\* dispatches or settles has a claim to read: that is ControlOK.
LEMMA TypeStep == TypeOK /\ ControlOK /\ [Next]_vars => TypeOK'
  <1> SUFFICES ASSUME TypeOK, ControlOK, [Next]_vars PROVE TypeOK'
    OBVIOUS
  <1> USE AttemptsAssumption, BoundsAssumption
  <1>1. ASSUME NEW r \in Relays, NEW B \in Batches, Claim(r, B) PROVE TypeOK'
    BY <1>1, LeaseType DEF Claim, TakeLeases, TypeOK
  <1>2. ASSUME NEW r \in Relays, NEW B \in Batches, ClaimLost(r, B) PROVE TypeOK'
    BY <1>2, LeaseType DEF ClaimLost, TakeLeases, TypeOK, relayVars
  <1>3. ASSUME NEW r \in Relays, NEW c \in todo[r], StartDispatch(r, c) PROVE TypeOK'
    BY <1>3 DEF StartDispatch, TypeOK, dbVars
  <1>4. ASSUME NEW r \in Relays, DispatchOk(r) PROVE TypeOK'
    <2>1. cur[r].id \in Msgs
      BY <1>4 DEF DispatchOk, ControlOK, TypeOK, Claims
    <2> QED
      BY <1>4, <2>1 DEF DispatchOk, TypeOK, dbVars
  <1>5. ASSUME NEW r \in Relays, DispatchFail(r) PROVE TypeOK'
    BY <1>5 DEF DispatchFail, TypeOK, dbVars
  <1>6. ASSUME NEW r \in Relays, Ack(r) PROVE TypeOK'
    BY <1>6 DEF Ack, EndItem, TypeOK
  <1>7. ASSUME NEW r \in Relays, Nack(r) PROVE TypeOK'
    BY <1>7 DEF Nack, Release, EndItem, TypeOK
  <1>8. ASSUME NEW r \in Relays, Dead(r) PROVE TypeOK'
    BY <1>8 DEF Dead, Release, EndItem, TypeOK
  <1>9. ASSUME NEW r \in Relays, SettleLost(r) PROVE TypeOK'
    BY <1>9 DEF SettleLost, EndItem, TypeOK
  <1>10. ASSUME NEW r \in Relays, Crash(r) PROVE TypeOK'
    BY <1>10 DEF Crash, TypeOK, dbVars
  <1>11. ASSUME NEW r \in Relays, Restart(r) PROVE TypeOK'
    BY <1>11 DEF Restart, TypeOK, dbVars
  <1>12. ASSUME NEW m \in Msgs, RowStep(m) PROVE TypeOK'
    <2>1. CASE Enqueue(m)
      BY <2>1 DEF Enqueue, TypeOK, relayVars
    <2>2. CASE LeaseExpires(m)
      BY <2>2 DEF LeaseExpires, TypeOK, relayVars
    <2>3. CASE BecomesDue(m)
      BY <2>3 DEF BecomesDue, TypeOK, relayVars
    <2>4. CASE Replay(m)
      BY <2>4 DEF Replay, TypeOK, relayVars
    <2> QED
      BY <1>12, <2>1, <2>2, <2>3, <2>4 DEF RowStep
  <1>13. ASSUME NEW D \in SUBSET Msgs, Clean(D) PROVE TypeOK'
    BY <1>13 DEF Clean, TypeOK, relayVars
  <1>14. CASE UNCHANGED vars
    BY <1>14 DEF vars, dbVars, relayVars, TypeOK
  <1> QED
    BY <1>1, <1>2, <1>3, <1>4, <1>5, <1>6, <1>7, <1>8, <1>9, <1>10, <1>11, <1>12, <1>13, <1>14
    DEF Next, RelayStep

\* Every step keeps the control state of each relay in order.
LEMMA ControlStep == TypeOK /\ ControlOK /\ [Next]_vars => ControlOK'
  <1> SUFFICES ASSUME TypeOK, ControlOK, [Next]_vars, NEW r \in Relays
               PROVE  /\ pc'[r] \in {"dispatch", "ack", "nack", "dead"} <=> cur'[r] # NoClaim
                      /\ pc'[r] \in {"idle", "down"} => todo'[r] = {}
                      /\ cur'[r] \notin todo'[r]
    BY DEF ControlOK
  <1> USE ClaimAssumption DEF TypeOK, ControlOK
  <1>1. ASSUME NEW q \in Relays, NEW B \in Batches, Claim(q, B) \/ ClaimLost(q, B)
        PROVE  ControlOK'
    BY <1>1, LeaseType DEF Claim, ClaimLost, relayVars
  <1>2. ASSUME NEW q \in Relays, NEW c \in todo[q], StartDispatch(q, c) PROVE ControlOK'
    BY <1>2 DEF StartDispatch
  <1>3. ASSUME NEW q \in Relays, DispatchOk(q) \/ DispatchFail(q) PROVE ControlOK'
    BY <1>3 DEF DispatchOk, DispatchFail
  <1>4. ASSUME NEW q \in Relays, EndItem(q) PROVE ControlOK'
    BY <1>4 DEF EndItem
  <1>5. ASSUME NEW q \in Relays, Ack(q) \/ Nack(q) \/ Dead(q) \/ SettleLost(q) PROVE EndItem(q)
    BY <1>5 DEF Ack, Nack, Dead, Release, SettleLost
  <1>6. ASSUME NEW q \in Relays, Crash(q) \/ Restart(q) PROVE ControlOK'
    BY <1>6 DEF Crash, Restart
  <1>7. CASE UNCHANGED relayVars
    BY <1>7 DEF relayVars
  <1>8. ASSUME NEW m \in Msgs, RowStep(m) PROVE UNCHANGED relayVars
    BY <1>8 DEF RowStep, Enqueue, LeaseExpires, BecomesDue, Replay
  <1> QED
    BY <1>1, <1>2, <1>3, <1>4, <1>5, <1>6, <1>7, <1>8 DEF Next, RelayStep, Clean, vars

LEMMA TypeInvariant == Spec => [](TypeOK /\ ControlOK)
  <1>1. Init => TypeOK /\ ControlOK
    BY AttemptsAssumption, BoundsAssumption DEF Init, TypeOK, ControlOK
  <1>2. TypeOK /\ ControlOK /\ [Next]_vars => (TypeOK /\ ControlOK)'
    BY TypeStep, ControlStep
  <1> QED
    BY <1>1, <1>2, PTL DEF Spec

\* The types are right in every state, whatever crashes, expires or is replayed.
THEOREM TypeCorrect == Spec => []TypeOK
  BY TypeInvariant, PTL

-----------------------------------------------------------------------------
(* Attempts: opened once, held by one relay *)

\* The claims of a batch.
New(B) == {ClaimOf(m) : m \in B}

\* A step gives a relay the new claims of a batch it took while it had none, or
\* takes claims away.
LEMMA HeldStep ==
    ASSUME TypeOK, ControlOK, [Next]_vars
    PROVE  \/ \A r \in Relays : Held(r)' \subseteq Held(r)
           \/ \E r \in Relays, B \in Batches :
                /\ Claim(r, B)
                /\ Held(r)' = New(B)
                /\ \A s \in Relays \ {r} : Held(s)' = Held(s)
  <1> DEFINE Fewer == \A r \in Relays : Held(r)' \subseteq Held(r)
  <1> USE DEF TypeOK, ControlOK, Held
  <1>1. ASSUME NEW r \in Relays, NEW B \in Batches, Claim(r, B)
        PROVE  /\ Held(r)' = New(B)
               /\ \A s \in Relays \ {r} : Held(s)' = Held(s)
    <2>1. todo'[r] = New(B) /\ cur'[r] = NoClaim
      BY <1>1 DEF Claim, New
    <2>2. NoClaim \notin New(B)
      BY <1>1, LeaseType, ClaimAssumption DEF Claim, New
    <2> QED
      BY <1>1, <2>1, <2>2 DEF Claim
  <1>2. CASE UNCHANGED relayVars
    BY <1>2 DEF relayVars
  <1>3. ASSUME NEW r \in Relays, NEW c \in todo[r], StartDispatch(r, c) PROVE Fewer
    BY <1>3 DEF StartDispatch
  <1>4. ASSUME NEW r \in Relays, DispatchOk(r) \/ DispatchFail(r) \/ Restart(r) PROVE Fewer
    BY <1>4 DEF DispatchOk, DispatchFail, Restart
  <1>5. ASSUME NEW r \in Relays, EndItem(r) PROVE Fewer
    BY <1>5 DEF EndItem
  <1>6. ASSUME NEW r \in Relays, Ack(r) \/ Nack(r) \/ Dead(r) \/ SettleLost(r) PROVE EndItem(r)
    BY <1>6 DEF Ack, Nack, Dead, Release, SettleLost
  <1>7. ASSUME NEW r \in Relays, Crash(r) PROVE Fewer
    BY <1>7 DEF Crash
  <1>8. ASSUME NEW m \in Msgs, RowStep(m) PROVE UNCHANGED relayVars
    BY <1>8 DEF RowStep, Enqueue, LeaseExpires, BecomesDue, Replay
  <1> QED
    BY <1>1, <1>2, <1>3, <1>4, <1>5, <1>6, <1>7, <1>8
    DEF Next, RelayStep, ClaimLost, Clean, vars

\* No claim belongs to a replay that has not happened yet.
OpenedGen == \A c \in opened : c.gen <= gen[c.id]

\* What a relay holds was opened.
HeldOpened == \A r \in Relays : Held(r) \subseteq opened

AttemptInv ==
    TypeOK /\ ControlOK /\ AttemptsCounted /\ OpenedGen /\ HeldOpened /\ UniqueAttempt

\* The claims of a batch carry numbers above every number opened so far.
LEMMA Fresh ==
    ASSUME TypeOK, AttemptsCounted, NEW B \in Batches, TakeLeases(B)
    PROVE  New(B) \cap opened = {}
  <1> SUFFICES ASSUME NEW m \in B PROVE ClaimOf(m) \notin opened
    BY DEF New
  <1>1. m \in Msgs /\ attempts[m] + 1 \in 1..MaxAttempts
    BY AttemptsAssumption DEF Batches, TakeLeases, Claimable, TypeOK
  <1> QED
    BY <1>1 DEF AttemptsCounted, ClaimOf, TypeOK

\* opened, attempts and gen change only when leases are taken or a row replayed.
LEMMA CountersStep ==
    ASSUME [Next]_vars
    PROVE  \/ UNCHANGED <<opened, attempts, gen>>
           \/ \E B \in Batches : TakeLeases(B)
           \/ \E m \in Msgs : Replay(m)
  BY DEF Next, RelayStep, RowStep, Claim, ClaimLost, StartDispatch, DispatchOk, DispatchFail, Ack,
         Nack, Dead, Release, SettleLost, EndItem, Crash, Restart, Enqueue, LeaseExpires,
         BecomesDue, Clean, vars, dbVars

\* The attempts column keeps counting the claims: a claim opens the next number,
\* a replay starts a generation that has none.
LEMMA CountedStep ==
    ASSUME TypeOK, AttemptsCounted, OpenedGen, [Next]_vars
    PROVE  AttemptsCounted' /\ OpenedGen'
  <1> USE AttemptsAssumption DEF TypeOK
  <1>1. ASSUME NEW B \in Batches, TakeLeases(B) PROVE AttemptsCounted' /\ OpenedGen'
    <2>1. B \subseteq Msgs /\ opened' = opened \cup New(B) /\ gen' = gen
      BY <1>1 DEF TakeLeases, Batches, New
    <2>2. OpenedGen'
      BY <2>1 DEF OpenedGen, New, ClaimOf, Attempt
    <2>3. ASSUME NEW m \in Msgs, NEW n \in 1..MaxAttempts
          PROVE  Attempt(m, n) \in opened' <=> n <= attempts'[m]
      <3>1. Attempt(m, n) \in New(B) <=> m \in B /\ n = attempts[m] + 1
        BY DEF New, ClaimOf, Attempt
      <3>2. attempts'[m] = IF m \in B THEN attempts[m] + 1 ELSE attempts[m]
        BY <1>1 DEF TakeLeases
      <3>3. Attempt(m, n) \in opened <=> n <= attempts[m]
        BY DEF AttemptsCounted
      <3> QED
        BY <2>1, <3>1, <3>2, <3>3
    <2> QED
      BY <2>1, <2>2, <2>3 DEF AttemptsCounted, Attempt
  <1>2. ASSUME NEW k \in Msgs, Replay(k) PROVE AttemptsCounted' /\ OpenedGen'
    <2>1. opened' = opened /\ gen' = [gen EXCEPT ![k] = @ + 1]
                           /\ attempts' = [attempts EXCEPT ![k] = 0]
      BY <1>2 DEF Replay
    <2>2. \A m \in Msgs : gen[m] \in Nat
      BY BoundsAssumption
    <2>3. \A c \in opened : c.id \in Msgs /\ c.gen \in Nat
      BY DEF Claims
    <2>4. OpenedGen'
      BY <2>1, <2>2, <2>3 DEF OpenedGen
    <2>5. ASSUME NEW m \in Msgs, NEW n \in 1..MaxAttempts
          PROVE  [id |-> m, gen |-> gen'[m], attempts |-> n] \in opened <=> n <= attempts'[m]
      <3>1. CASE m = k
        <4>1. [id |-> m, gen |-> gen[m] + 1, attempts |-> n] \notin opened
          BY <2>2 DEF OpenedGen
        <4> QED
          BY <2>1, <3>1, <4>1
      <3>2. CASE m # k
        BY <2>1, <3>2 DEF AttemptsCounted, Attempt
      <3> QED
        BY <3>1, <3>2
    <2> QED
      BY <2>1, <2>4, <2>5 DEF AttemptsCounted, Attempt
  <1>3. CASE UNCHANGED <<opened, attempts, gen>>
    BY <1>3 DEF AttemptsCounted, OpenedGen, Attempt
  <1> QED
    BY <1>1, <1>2, <1>3, CountersStep

\* History only grows.
LEMMA OpenedGrows == [Next]_vars => opened \subseteq opened'
  <1> SUFFICES ASSUME [Next]_vars PROVE opened \subseteq opened'
    OBVIOUS
  <1> QED
    BY CountersStep DEF TakeLeases, Replay

\* Every step keeps the attempt invariant, and the claims a relay newly holds
\* were not opened before.
LEMMA AttemptStep ==
    ASSUME AttemptInv, [Next]_vars
    PROVE  AttemptInv' /\ \A r \in Relays : (Held(r)' \ Held(r)) \cap opened = {}
  <1>1. TypeOK' /\ ControlOK' /\ AttemptsCounted' /\ OpenedGen'
    BY TypeStep, ControlStep, CountedStep DEF AttemptInv
  <1>2. CASE \A r \in Relays : Held(r)' \subseteq Held(r)
    BY <1>1, <1>2, OpenedGrows DEF AttemptInv, HeldOpened, UniqueAttempt
  <1>3. ASSUME NEW r \in Relays, NEW B \in Batches, Claim(r, B), Held(r)' = New(B),
               \A s \in Relays \ {r} : Held(s)' = Held(s)
        PROVE  AttemptInv' /\ \A s \in Relays : (Held(s)' \ Held(s)) \cap opened = {}
    <2>1. TakeLeases(B) /\ opened' = opened \cup New(B)
      BY <1>3 DEF Claim, TakeLeases, New
    <2>2. New(B) \cap opened = {}
      BY <2>1, Fresh DEF AttemptInv
    <2>3. \A s \in Relays \ {r} : Held(s)' \cap New(B) = {}
      BY <1>3, <2>2 DEF AttemptInv, HeldOpened
    <2>4. HeldOpened'
      BY <1>3, <2>1 DEF AttemptInv, HeldOpened
    <2>5. UniqueAttempt'
      BY <1>3, <2>3 DEF AttemptInv, UniqueAttempt
    <2> QED
      BY <1>1, <1>3, <2>2, <2>4, <2>5 DEF AttemptInv
  <1> QED
    BY <1>2, <1>3, HeldStep DEF AttemptInv

\* The attempt invariant holds from the start.
LEMMA AttemptInit == Init => AttemptInv
  BY AttemptsAssumption, BoundsAssumption
  DEF Init, AttemptInv, TypeOK, ControlOK, AttemptsCounted, OpenedGen, HeldOpened, UniqueAttempt, Held

\* In every reachable state, whatever crashes, expires or is replayed.
LEMMA AttemptInvariant == Spec => []AttemptInv
  <1>1. AttemptInv /\ [Next]_vars => AttemptInv'
    BY AttemptStep
  <1> QED
    BY <1>1, AttemptInit, PTL DEF Spec

\* Two relays never hold the same attempt of a row.
THEOREM AttemptsAreUnique == Spec => []UniqueAttempt
  <1>1. AttemptInv => UniqueAttempt
    BY DEF AttemptInv
  <1> QED
    BY <1>1, AttemptInvariant, PTL

\* The attempts column is the number of claims made since the last replay.
THEOREM AttemptsAreCounted == Spec => []AttemptsCounted
  <1>1. AttemptInv => AttemptsCounted
    BY DEF AttemptInv
  <1> QED
    BY <1>1, AttemptInvariant, PTL

\* No relay ever comes to hold an attempt that was opened before: an attempt is
\* dispatched at most once.
THEOREM AttemptsAreFresh == Spec => NoAttemptReused
  <1>1. AttemptInv /\ [Next]_vars => [\A r \in Relays : (Held(r)' \ Held(r)) \cap opened = {}]_vars
    BY AttemptStep
  <1> QED
    BY <1>1, AttemptInvariant, PTL DEF Spec, NoAttemptReused

-----------------------------------------------------------------------------
(* Delivery *)

\* A relay acknowledges only what it delivered.
AckDelivered == \A r \in Relays : pc[r] = "ack" => cur[r].id \in delivered

DeliveryInv == AckDelivered /\ PublishedDelivered /\ NothingLost

\* Rows become published by an acknowledgement and deleted by the cleaner.
LEMMA RowStepKinds ==
    ASSUME TypeOK, [Next]_vars, NEW m \in Msgs, row'[m] # row[m]
    PROVE  \/ Enqueue(m)
           \/ row'[m] = "deleted" /\ Removable(m) /\ UNCHANGED <<opened, delivered>>
           \/ \E r \in Relays : /\ pc[r] = "ack" /\ cur[r].id = m
                                /\ row[m] = "pending" /\ row'[m] = "published"
                                /\ delivered' = delivered
  <1> USE DEF TypeOK
  <1>1. ASSUME NEW D \in SUBSET Msgs, Clean(D) PROVE row'[m] = "deleted" /\ Removable(m) /\ UNCHANGED <<opened, delivered>>
    BY <1>1 DEF Clean
  <1>2. ASSUME NEW r \in Relays, Ack(r)
        PROVE  /\ pc[r] = "ack" /\ cur[r].id = m /\ delivered' = delivered
               /\ row[m] = "pending" /\ row'[m] = "published"
    BY <1>2 DEF Ack, EndItem
  <1>3. ASSUME NEW k \in Msgs, RowStep(k) PROVE Enqueue(m)
    BY <1>3 DEF RowStep, Enqueue, LeaseExpires, BecomesDue, Replay
  <1>4. ASSUME NEW r \in Relays, RelayStep(r) PROVE Ack(r)
    BY <1>4 DEF RelayStep, Claim, ClaimLost, TakeLeases, StartDispatch, DispatchOk, DispatchFail,
                Nack, Dead, Release, SettleLost, Crash, Restart, dbVars
  <1> QED
    BY <1>1, <1>2, <1>3, <1>4 DEF Next, vars, dbVars

\* Deliveries are never forgotten.
LEMMA DeliveredGrows == [Next]_vars => delivered \subseteq delivered'
  BY DEF Next, RelayStep, RowStep, Claim, ClaimLost, TakeLeases, StartDispatch, DispatchOk,
         DispatchFail, Ack, Nack, Dead, Release, SettleLost, EndItem, Crash, Restart, Enqueue,
         LeaseExpires, BecomesDue, Replay, Clean, vars

\* A removed row is not replayed: its generation, and with it its last attempt, is fixed.
LEMMA LastAttemptFixed ==
    ASSUME TypeOK, [Next]_vars, NEW m \in Msgs, row'[m] = "deleted"
    PROVE  Attempt(m, MaxAttempts)' = Attempt(m, MaxAttempts)
  <1>1. gen'[m] = gen[m]
    <2>1. ASSUME NEW k \in Msgs, Replay(k) PROVE gen'[m] = gen[m]
      BY <2>1 DEF Replay, TypeOK
    <2> QED
      BY <2>1, CountersStep DEF TakeLeases
  <1> QED
    BY <1>1 DEF Attempt

\* A relay reaches its acknowledgement from a dispatch that returned nil.
LEMMA AckStep ==
    ASSUME TypeOK, ControlOK, AckDelivered, [Next]_vars PROVE AckDelivered'
  <1> USE DEF TypeOK, AckDelivered
  <1>1. CASE UNCHANGED <<pc, cur>>
    BY <1>1, DeliveredGrows
  <1>2. ASSUME NEW r \in Relays, DispatchOk(r) PROVE AckDelivered'
    BY <1>2 DEF DispatchOk
  <1>3. ASSUME NEW r \in Relays, NEW B \in Batches, Claim(r, B) PROVE AckDelivered'
    BY <1>3, DeliveredGrows DEF Claim
  <1>4. ASSUME NEW r \in Relays, NEW c \in todo[r], StartDispatch(r, c) PROVE AckDelivered'
    BY <1>4, DeliveredGrows DEF StartDispatch
  <1>5. ASSUME NEW r \in Relays, DispatchFail(r) \/ Crash(r) \/ Restart(r) PROVE AckDelivered'
    BY <1>5, DeliveredGrows DEF DispatchFail, Crash, Restart
  <1>6. ASSUME NEW r \in Relays, EndItem(r) PROVE AckDelivered'
    BY <1>6, DeliveredGrows DEF EndItem
  <1>7. ASSUME NEW r \in Relays, Ack(r) \/ Nack(r) \/ Dead(r) \/ SettleLost(r) PROVE EndItem(r)
    BY <1>7 DEF Ack, Nack, Dead, Release, SettleLost
  <1> QED
    BY <1>1, <1>2, <1>3, <1>4, <1>5, <1>6, <1>7
    DEF Next, RelayStep, RowStep, ClaimLost, Enqueue, LeaseExpires, BecomesDue, Replay, Clean,
        relayVars, vars

\* Every step keeps the delivery invariant; the attempt counter is what tells
\* the cleaner that the last attempt was claimed.
LEMMA DeliveryStep ==
    ASSUME AttemptInv, DeliveryInv, [Next]_vars PROVE DeliveryInv'
  <1> USE DEF AttemptInv, DeliveryInv
  <1>1. AckDelivered'
    BY AckStep
  <1>2. ASSUME NEW m \in Msgs, row'[m] = row[m]
        PROVE  /\ row'[m] = "published" => m \in delivered'
               /\ row'[m] = "deleted" => m \in delivered' \/ Attempt(m, MaxAttempts) \in opened'
    BY <1>2, DeliveredGrows, OpenedGrows DEF PublishedDelivered, NothingLost
  <1>3. ASSUME NEW m \in Msgs, Removable(m)
        PROVE  m \in delivered \/ Attempt(m, MaxAttempts) \in opened
    <2>1. CASE row[m] = "published"
      BY <2>1 DEF PublishedDelivered
    <2>2. CASE attempts[m] >= MaxAttempts
      <3>1. Attempt(m, MaxAttempts) \in opened
        BY <2>2, AttemptsAssumption DEF AttemptsCounted, TypeOK
      <3> QED
        BY <3>1 DEF Attempt
    <2> QED
      BY <1>3, <2>1, <2>2 DEF Removable
  <1>4. ASSUME NEW m \in Msgs, row'[m] # row[m]
        PROVE  /\ row'[m] = "published" => m \in delivered'
               /\ row'[m] = "deleted" => m \in delivered' \/ Attempt(m, MaxAttempts) \in opened'
    <2>1. CASE Enqueue(m)
      BY <2>1 DEF Enqueue, TypeOK
    <2>2. CASE row'[m] = "deleted" /\ Removable(m) /\ UNCHANGED <<opened, delivered>>
      BY <2>2, <1>3
    <2>3. ASSUME NEW r \in Relays, pc[r] = "ack", cur[r].id = m, row'[m] = "published",
                 delivered' = delivered
          PROVE  m \in delivered' /\ row'[m] # "deleted"
      BY <2>3 DEF AckDelivered
    <2> QED
      BY <1>4, <2>1, <2>2, <2>3, RowStepKinds
  <1> QED
    <2>1. \A m \in Msgs : row'[m] = "deleted" => Attempt(m, MaxAttempts)' = Attempt(m, MaxAttempts)
      BY LastAttemptFixed
    <2>2. NothingLost'
      BY <1>2, <1>4, <2>1 DEF NothingLost
    <2>3. PublishedDelivered'
      BY <1>2, <1>4 DEF PublishedDelivered
    <2> QED
      BY <1>1, <2>2, <2>3

LEMMA DeliveryInvariant == Spec => [](AttemptInv /\ DeliveryInv)
  <1>1. Init => DeliveryInv
    BY DEF Init, DeliveryInv, AckDelivered, PublishedDelivered, NothingLost
  <1>2. AttemptInv /\ DeliveryInv /\ [Next]_vars => (AttemptInv /\ DeliveryInv)'
    BY AttemptStep, DeliveryStep
  <1> QED
    BY <1>1, <1>2, AttemptInit, PTL DEF Spec

\* A published row was delivered, whichever of several relays acknowledged it.
THEOREM PublishedIsDelivered == Spec => []PublishedDelivered
  <1>1. DeliveryInv => PublishedDelivered
    BY DEF DeliveryInv
  <1> QED
    BY <1>1, DeliveryInvariant, PTL

\* A row the cleaner removed was delivered or had its last attempt: nothing accepted
\* is lost with attempts left.
THEOREM NothingIsLost == Spec => []NothingLost
  <1>1. DeliveryInv => NothingLost
    BY DEF DeliveryInv
  <1> QED
    BY <1>1, DeliveryInvariant, PTL

-----------------------------------------------------------------------------
(* Mutual exclusion when batches end within their lease *)

\* A row somebody holds is leased or will never be claimed again, and it is not
\* published yet.
HeldLeased ==
    \A r \in Relays : \A c \in Held(r) :
        row[c.id] = "deleted" \/ (row[c.id] = "pending" /\ lock[c.id] = "held")

ExclusionInv == HeldLeased /\ AtMostOneHolder

\* A step that only lets go of claims and leaves the rows still held as they are
\* (or deletes them) keeps the exclusion.
LEMMA LetGo ==
    ASSUME TypeOK, ExclusionInv, \A r \in Relays : Held(r)' \subseteq Held(r),
           \A r \in Relays : \A c \in Held(r)' :
                row'[c.id] = "deleted" \/ (row'[c.id] = row[c.id] /\ lock'[c.id] = lock[c.id])
    PROVE  ExclusionInv'
  BY DEF ExclusionInv, HeldLeased, AtMostOneHolder

\* With prompt batches and no manual replay, every step keeps the exclusion, and
\* what a relay dispatches is not published.
LEMMA ExclusionStep ==
    ASSUME Prompt, MaxReplays = 0, AttemptInv, ExclusionInv, [Next]_vars
    PROVE  /\ ExclusionInv'
           /\ \A r \in Relays : pc[r] = "loop" /\ pc'[r] = "dispatch" => row[cur'[r].id] # "published"
  <1> DEFINE Final == \A r \in Relays : pc[r] = "loop" /\ pc'[r] = "dispatch" => row[cur'[r].id] # "published"
  <1> DEFINE Same == \A m \in Msgs : InFlight(m) =>
                         row'[m] = "deleted" \/ (row'[m] = row[m] /\ lock'[m] = lock[m])
  <1>1. /\ TypeOK /\ ControlOK
        /\ \A r \in Relays : Held(r) \subseteq Claims
        /\ \A r \in Relays : \A c \in Held(r) : c.id \in Msgs /\ InFlight(c.id)
    BY DEF AttemptInv, TypeOK, Held, Claims, InFlight
  <1>2. ASSUME \A r \in Relays : Held(r)' \subseteq Held(r), Same PROVE ExclusionInv'
    BY <1>1, <1>2, LetGo
  <1>3. ASSUME NEW r \in Relays, NEW B \in Batches, TakeLeases(B)
        PROVE  /\ Same
               /\ \A m \in B : m \in Msgs /\ row'[m] = "pending" /\ lock'[m] = "held" /\ ~InFlight(m)
    <2>1. \A m \in B : m \in Msgs /\ row[m] = "pending" /\ lock[m] # "held"
      BY <1>3 DEF TakeLeases, Claimable, Batches
    <2>2. \A m \in B : ~InFlight(m)
      BY <2>1 DEF ExclusionInv, HeldLeased, InFlight
    <2> QED
      BY <1>3, <2>1, <2>2 DEF TakeLeases
  <1>4. ASSUME NEW r \in Relays, NEW B \in Batches, Claim(r, B), Held(r)' = New(B),
               \A s \in Relays \ {r} : Held(s)' = Held(s)
        PROVE  ExclusionInv' /\ Final
    <2>1. /\ Same
          /\ \A m \in B : m \in Msgs /\ row'[m] = "pending" /\ lock'[m] = "held" /\ ~InFlight(m)
      BY <1>3, <1>4 DEF Claim
    <2>2. \A c \in New(B) : c.id \in B /\ c = ClaimOf(c.id)
      BY DEF New, ClaimOf, Attempt
    <2>3. \A s \in Relays \ {r} : \A c \in Held(s) : c.id \notin B
      BY <1>1, <2>1
    <2>4. HeldLeased'
      BY <1>1, <1>4, <2>1, <2>2 DEF ExclusionInv, HeldLeased
    <2>5. AtMostOneHolder'
      BY <1>4, <2>2, <2>3 DEF ExclusionInv, AtMostOneHolder
    <2>6. Final
      BY <1>1, <1>4 DEF Claim, TypeOK
    <2> QED
      BY <2>4, <2>5, <2>6 DEF ExclusionInv
  <1>5. ASSUME \A r \in Relays : Held(r)' \subseteq Held(r) PROVE ExclusionInv' /\ Final
    <2>1. ASSUME NEW r \in Relays, NEW c \in todo[r], StartDispatch(r, c) PROVE Same /\ Final
      <3>1. Same
        BY <2>1 DEF StartDispatch, dbVars
      <3>2. row[c.id] # "published"
        BY <1>1, <2>1 DEF ExclusionInv, HeldLeased, Held, ControlOK, TypeOK
      <3> QED
        BY <1>1, <2>1, <3>1, <3>2 DEF StartDispatch, TypeOK
    <2>2. ASSUME NEW r \in Relays, cur[r] # NoClaim, EndItem(r), pc[r] # "loop",
                 \A m \in Msgs \ {cur[r].id} : row'[m] = row[m] /\ lock'[m] = lock[m]
          PROVE  ExclusionInv' /\ Final
      <3>1. cur[r] \in Held(r) /\ cur[r] \notin Held(r)'
        BY <1>1, <2>2, ClaimAssumption DEF Held, EndItem, ControlOK, TypeOK
      <3>2. \A s \in Relays : \A c \in Held(s)' : c.id \in Msgs \ {cur[r].id}
        BY <1>1, <1>5, <3>1 DEF ExclusionInv, AtMostOneHolder
      <3>3. ExclusionInv'
        BY <1>1, <1>5, <2>2, <3>2, LetGo
      <3> QED
        BY <1>1, <2>2, <3>3 DEF EndItem, TypeOK
    <2>3. ASSUME NEW r \in Relays, Ack(r) \/ Nack(r) \/ Dead(r) \/ SettleLost(r)
          PROVE  ExclusionInv' /\ Final
      <3>1. EndItem(r) /\ cur[r] # NoClaim /\ pc[r] # "loop"
        BY <1>1, <2>3 DEF Ack, Nack, Dead, Release, SettleLost, ControlOK
      <3>2. \A m \in Msgs \ {cur[r].id} : row'[m] = row[m] /\ lock'[m] = lock[m]
        BY <1>1, <2>3 DEF Ack, Nack, Dead, Release, SettleLost, TypeOK
      <3> QED
        BY <2>2, <3>1, <3>2
    <2>4. ASSUME NEW r \in Relays, DispatchOk(r) \/ DispatchFail(r) \/ Crash(r) \/ Restart(r)
          PROVE  Same /\ Final
      BY <1>1, <2>4 DEF DispatchOk, DispatchFail, Crash, Restart, dbVars, TypeOK
    <2>5. ASSUME NEW m \in Msgs, RowStep(m) PROVE Same /\ Final
      <3>1. ~Replay(m)
        BY <1>1 DEF Replay, TypeOK
      <3>2. CASE Enqueue(m)
        <4>1. ~InFlight(m)
          BY <3>2 DEF Enqueue, ExclusionInv, HeldLeased, InFlight
        <4> QED
          BY <1>1, <3>2, <4>1 DEF Enqueue, relayVars, TypeOK
      <3>3. CASE LeaseExpires(m)
        BY <1>1, <3>3 DEF LeaseExpires, relayVars, TypeOK
      <3>4. CASE BecomesDue(m)
        BY <3>4 DEF BecomesDue, relayVars
      <3> QED
        BY <2>5, <3>1, <3>2, <3>3, <3>4 DEF RowStep
    <2>6. ASSUME NEW D \in SUBSET Msgs, Clean(D) PROVE Same /\ Final
      BY <2>6 DEF Clean, relayVars
    <2>7. ASSUME NEW r \in Relays, NEW B \in Batches, ClaimLost(r, B) PROVE Same /\ Final
      BY <1>3, <2>7 DEF ClaimLost, relayVars
    <2>8. ASSUME NEW r \in Relays, NEW B \in Batches, Claim(r, B) PROVE Same /\ Final
      BY <1>1, <1>3, <2>8 DEF Claim, TypeOK
    <2>9. CASE UNCHANGED vars
      <3>1. Same /\ Final
        BY <2>9 DEF vars, dbVars, relayVars
      <3> QED
        BY <1>2, <1>5, <3>1
    <2> QED
      BY <1>2, <1>5, <2>1, <2>3, <2>4, <2>5, <2>6, <2>7, <2>8, <2>9 DEF Next, RelayStep
  <1> QED
    BY <1>1, <1>4, <1>5, HeldStep

LEMMA ExclusionInvariant ==
    ASSUME Prompt, MaxReplays = 0
    PROVE  Spec => [](AttemptInv /\ ExclusionInv)
  <1>1. Init => ExclusionInv
    BY DEF Init, ExclusionInv, HeldLeased, AtMostOneHolder, Held
  <1>2. AttemptInv /\ ExclusionInv /\ [Next]_vars => AttemptInv' /\ ExclusionInv'
    BY AttemptStep, ExclusionStep
  <1> QED
    BY <1>1, <1>2, AttemptInit, PTL DEF Spec

\* When batches end within their lease and nobody replays rows by hand, at most
\* one relay holds a row, although acks and nacks do not check who holds the lease.
THEOREM PromptBatchesExclude ==
    ASSUME Prompt, MaxReplays = 0
    PROVE  Spec => []AtMostOneHolder
  <1>1. ExclusionInv => AtMostOneHolder
    BY DEF ExclusionInv
  <1> QED
    BY <1>1, ExclusionInvariant, PTL

\* Under the same conditions no relay starts to dispatch a row that is published, although
\* the row was read when it was claimed and the batch before it may have taken long.
THEOREM PromptBatchesDispatchOnce ==
    ASSUME Prompt, MaxReplays = 0
    PROVE  Spec => NoDispatchAfterPublish
  <1>1. AttemptInv /\ ExclusionInv /\ [Next]_vars
        => [\A r \in Relays : pc[r] = "loop" /\ pc'[r] = "dispatch" => row[cur'[r].id] # "published"]_vars
    BY ExclusionStep
  <1> QED
    BY <1>1, ExclusionInvariant, PTL DEF Spec, NoDispatchAfterPublish

-----------------------------------------------------------------------------
(* Refinement of AtLeastOnce *)

\* When a relay is done with its current claim, exactly that attempt is closed:
\* nobody else holds it.
LEMMA EndItemCloses ==
    ASSUME AttemptInv, NEW r \in Relays, EndItem(r), cur[r] # NoClaim
    PROVE  cur[r] \in Open /\ Open' = Open \ {cur[r]}
  <1>1. TypeOK /\ ControlOK /\ UniqueAttempt
    BY DEF AttemptInv
  <1>2. Held(r)' = Held(r) \ {cur[r]} /\ cur[r] \in Held(r)
    BY <1>1 DEF EndItem, Held, TypeOK, ControlOK
  <1>3. \A s \in Relays \ {r} : Held(s)' = Held(s) /\ cur[r] \notin Held(s)
    BY <1>1, <1>2, SMTT(30) DEF EndItem, Held, TypeOK, UniqueAttempt
  <1> QED
    BY <1>2, <1>3 DEF Open

\* Every step of the outbox is a step of AtLeastOnce or changes nothing it speaks of.
LEMMA DeliveryRefinesStep ==
    ASSUME AttemptInv, DeliveryInv, [Next]_vars
    PROVE  [Delivery!Next]_(Delivery!vars)
  <1> DEFINE Fixed == UNCHANGED <<row, gen, opened, delivered>>
  <1> USE DEF Delivery!vars
  <1>1. TypeOK /\ ControlOK
    BY DEF AttemptInv
  <1>2. ASSUME NEW r \in Relays, NEW B \in Batches, TakeLeases(B),
               Open' = Open \/ Open' = Open \cup New(B)
        PROVE  Delivery!Next
    <2> DEFINE n == [m \in B |-> attempts[m] + 1]
    <2>1. B \in SUBSET Msgs /\ n \in [B -> 1..MaxAttempts]
      BY <1>1, <1>2, AttemptsAssumption DEF TakeLeases, Claimable, Batches, TypeOK
    <2>2. New(B) = {Delivery!Attempt(m, n[m]) : m \in B}
      BY DEF New, ClaimOf, Attempt, Delivery!Attempt
    <2>3. New(B) \cap opened = {}
      BY <1>1, <1>2, Fresh DEF AttemptInv
    <2>4. Delivery!OpenAttempts(B, n)
      BY <1>2, <2>1, <2>2, <2>3 DEF Delivery!OpenAttempts, TakeLeases, Claimable, New
    <2> QED
      BY <2>1, <2>4 DEF Delivery!Next
  <1>3. ASSUME NEW r \in Relays, NEW B \in Batches, Claim(r, B) PROVE Open' = Open \cup New(B)
    <2>1. Held(r) = {}
      BY <1>1, <1>3 DEF Claim, Held, ControlOK
    <2>2. Held(r)' = New(B)
      <3>1. todo'[r] = New(B) /\ cur'[r] = NoClaim
        BY <1>1, <1>3 DEF Claim, New, TypeOK, ControlOK
      <3>2. NoClaim \notin New(B)
        BY <1>1, <1>3, LeaseType, ClaimAssumption DEF Claim, New
      <3> QED
        BY <3>1, <3>2 DEF Held
    <2>3. \A s \in Relays \ {r} : Held(s)' = Held(s)
      BY <1>1, <1>3 DEF Claim, Held, TypeOK
    <2> QED
      BY <2>1, <2>2, <2>3 DEF Open
  <1>4. ASSUME UNCHANGED <<todo, cur>> PROVE Open' = Open
    BY <1>4 DEF Open, Held
  <1>5. ASSUME NEW r \in Relays, NEW c \in todo[r], StartDispatch(r, c) PROVE UNCHANGED Delivery!vars
    <2>1. cur[r] = NoClaim /\ c # NoClaim
      BY <1>1, <1>5, ClaimAssumption DEF StartDispatch, ControlOK, TypeOK
    <2>2. \A s \in Relays : Held(s)' = Held(s)
      BY <1>1, <1>5, <2>1 DEF StartDispatch, Held, TypeOK
    <2> QED
      BY <1>5, <2>2 DEF StartDispatch, dbVars, Open
  <1>6. ASSUME NEW r \in Relays, DispatchOk(r) PROVE Delivery!Next
    <2>1. cur[r] \in Open
      BY <1>1, <1>6 DEF DispatchOk, ControlOK, Open, Held
    <2>2. Delivery!Deliver(cur[r])
      BY <1>4, <1>6, <2>1 DEF DispatchOk, Delivery!Deliver, dbVars
    <2> QED
      BY <2>1, <2>2 DEF Delivery!Next
  <1>7. ASSUME NEW r \in Relays, DispatchFail(r) PROVE UNCHANGED Delivery!vars
    BY <1>4, <1>7 DEF DispatchFail, dbVars
  <1>8. ASSUME NEW r \in Relays, Ack(r) \/ Nack(r) \/ Dead(r) \/ SettleLost(r)
        PROVE  /\ cur[r] \in Open /\ Open' = Open \ {cur[r]}
               /\ UNCHANGED <<gen, opened, delivered>>
    <2>1. EndItem(r) /\ cur[r] # NoClaim
      BY <1>1, <1>8 DEF Ack, Nack, Dead, Release, SettleLost, ControlOK
    <2> QED
      BY <2>1, EndItemCloses DEF EndItem
  <1>9. ASSUME NEW S \in SUBSET Open, Open' = Open \ S, Fixed PROVE Delivery!Next
    BY <1>9 DEF Delivery!Next, Delivery!Abandon
  <1>10. ASSUME NEW r \in Relays, Ack(r) PROVE Delivery!Next
    <2>1. CASE row[cur[r].id] = "pending"
      <3>1. cur[r].id \in delivered
        BY <1>10 DEF Ack, DeliveryInv, AckDelivered
      <3>2. Delivery!Publish(cur[r])
        BY <1>8, <1>10, <2>1, <3>1 DEF Ack, Delivery!Publish
      <3> QED
        BY <1>8, <1>10, <3>2 DEF Delivery!Next
    <2>2. CASE row[cur[r].id] # "pending"
      <3>1. Fixed
        BY <1>8, <1>10, <2>2 DEF Ack
      <3> QED
        BY <1>8, <1>9, <1>10, <3>1
    <2> QED
      BY <2>1, <2>2
  <1>11. ASSUME NEW r \in Relays, Nack(r) \/ Dead(r) \/ SettleLost(r) PROVE Delivery!Next
    <2>1. Fixed
      BY <1>8, <1>11 DEF Nack, Dead, Release, SettleLost
    <2> QED
      BY <1>8, <1>9, <1>11, <2>1
  <1>12. ASSUME NEW r \in Relays, Crash(r) PROVE Delivery!Next
    <2>1. Held(r)' = {} /\ \A s \in Relays \ {r} : Held(s)' = Held(s)
      BY <1>1, <1>12 DEF Crash, Held, TypeOK
    <2>2. \A s \in Relays \ {r} : Held(s) \cap Held(r) = {}
      BY DEF AttemptInv, UniqueAttempt
    <2>3. Held(r) \in SUBSET Open /\ Open' = Open \ Held(r)
      BY <2>1, <2>2 DEF Open
    <2>4. Fixed
      BY <1>12 DEF Crash, dbVars
    <2> QED
      BY <1>9, <2>3, <2>4
  <1>13. ASSUME NEW r \in Relays, Restart(r) PROVE UNCHANGED Delivery!vars
    BY <1>4, <1>13 DEF Restart, dbVars
  <1>14. ASSUME NEW m \in Msgs, RowStep(m) PROVE [Delivery!Next]_(Delivery!vars)
    <2>1. CASE Enqueue(m)
      BY <1>4, <2>1 DEF Enqueue, relayVars, Delivery!Next, Delivery!Accept
    <2>2. CASE LeaseExpires(m) \/ BecomesDue(m)
      BY <1>4, <2>2 DEF LeaseExpires, BecomesDue, relayVars
    <2>3. CASE Replay(m)
      BY <1>4, <2>3 DEF Replay, relayVars, Delivery!Next, Delivery!Renew
    <2> QED
      BY <1>14, <2>1, <2>2, <2>3 DEF RowStep
  <1>15. ASSUME NEW D \in SUBSET Msgs, Clean(D) PROVE Delivery!Next
    <2>1. ASSUME NEW m \in D
          PROVE  \/ row[m] = "published"
                 \/ row[m] = "pending" /\ \E c \in opened : c.id = m /\ c.attempts = MaxAttempts
      <3>1. CASE row[m] = "pending" /\ attempts[m] >= MaxAttempts
        <4>1. Attempt(m, MaxAttempts) \in opened
          BY <1>1, <3>1, AttemptsAssumption DEF AttemptInv, AttemptsCounted, TypeOK
        <4> QED
          BY <3>1, <4>1 DEF Attempt
      <3> QED
        BY <1>15, <3>1 DEF Clean, Removable
    <2>2. Delivery!Forget(D)
      BY <1>4, <1>15, <2>1 DEF Clean, Delivery!Forget, relayVars
    <2> QED
      BY <2>2 DEF Delivery!Next
  <1>16. CASE UNCHANGED vars
    BY <1>4, <1>16 DEF vars, dbVars, relayVars
  <1>17. ASSUME NEW r \in Relays, NEW B \in Batches, Claim(r, B) \/ ClaimLost(r, B) PROVE Delivery!Next
    <2>1. TakeLeases(B)
      BY <1>17 DEF Claim, ClaimLost
    <2>2. Open' = Open \/ Open' = Open \cup New(B)
      BY <1>3, <1>4, <1>17 DEF ClaimLost, relayVars
    <2> QED
      BY <1>2, <2>1, <2>2
  <1> QED
    BY <1>5, <1>6, <1>7, <1>10, <1>11, <1>12, <1>13, <1>14, <1>15, <1>16, <1>17 DEF Next, RelayStep

\* The relays, the cleaner and the runbook's replay implement AtLeastOnce: every
\* attempt is opened once, and a row is published or forgotten only as it allows.
THEOREM OutboxIsAtLeastOnce == Spec => ImplementsAtLeastOnce
  <1>1. Init => Delivery!Init
    BY DEF Init, Delivery!Init, Open, Held
  <1>2. AttemptInv /\ DeliveryInv /\ [Next]_vars => [Delivery!Next]_(Delivery!vars)
    BY DeliveryRefinesStep
  <1> QED
    BY <1>1, <1>2, DeliveryInvariant, PTL DEF Spec, ImplementsAtLeastOnce, Delivery!Spec
=============================================================================
