---------------------------- MODULE AtLeastOnce ----------------------------
(***************************************************************************)
(* What the outbox promises, without relays, leases or clocks.  Work on a  *)
(* row is split into numbered attempts.  An attempt is opened once, at     *)
(* most MaxAttempts of them between two replays of the row; a row is       *)
(* published only by an attempt still open after a successful delivery;    *)
(* and it is forgotten only when it was published or has used up its       *)
(* attempts.  Attempts may be abandoned at any time.                       *)
(***************************************************************************)
EXTENDS Integers

CONSTANTS Msgs, MaxAttempts

VARIABLES
    row,        \* row[m]: "absent", "pending", "published" or "deleted"
    gen,        \* gen[m]: how many times the row was replayed
    opened,     \* the attempts ever opened: records [id, gen, attempts]
    open,       \* those somebody may still be working on
    delivered   \* rows with a successful delivery

vars == <<row, gen, opened, open, delivered>>

Init ==
    /\ row       = [m \in Msgs |-> "absent"]
    /\ gen       = [m \in Msgs |-> 0]
    /\ opened    = {}
    /\ open      = {}
    /\ delivered = {}

Accept(m) ==
    /\ row[m] = "absent"
    /\ row' = [row EXCEPT ![m] = "pending"]
    /\ UNCHANGED <<gen, opened, open, delivered>>

Attempt(m, n) == [id |-> m, gen |-> gen[m], attempts |-> n]

\* An attempt is opened on each row of B, numbered by n and never opened before;
\* whoever opens them may be lost before it learns of them.
OpenAttempts(B, n) ==
    LET new == {Attempt(m, n[m]) : m \in B} IN
    /\ \A m \in B : row[m] = "pending"
    /\ new \cap opened = {}
    /\ opened' = opened \cup new
    /\ open' \in {open, open \cup new}
    /\ UNCHANGED <<row, gen, delivered>>

Deliver(c) ==
    /\ c \in open
    /\ delivered' = delivered \cup {c.id}
    /\ UNCHANGED <<row, gen, opened, open>>

Publish(c) ==
    /\ c \in open
    /\ row[c.id] = "pending"
    /\ c.id \in delivered
    /\ row' = [row EXCEPT ![c.id] = "published"]
    /\ open' = open \ {c}
    /\ UNCHANGED <<gen, opened, delivered>>

Abandon(S) ==
    /\ S \subseteq open
    /\ open' = open \ S
    /\ UNCHANGED <<row, gen, opened, delivered>>

Forget(D) ==
    /\ D \in SUBSET Msgs
    /\ \A m \in D : \/ row[m] = "published"
                    \/ /\ row[m] = "pending"
                       /\ \E c \in opened : c.id = m /\ c.attempts = MaxAttempts
    /\ row' = [m \in Msgs |-> IF m \in D THEN "deleted" ELSE row[m]]
    /\ UNCHANGED <<gen, opened, open, delivered>>

Renew(m) ==
    /\ row[m] \in {"pending", "published"}
    /\ gen' = [gen EXCEPT ![m] = @ + 1]
    /\ UNCHANGED <<row, opened, open, delivered>>

Next ==
    \/ \E m \in Msgs : Accept(m) \/ Renew(m)
    \/ \E B \in SUBSET Msgs : \E n \in [B -> 1..MaxAttempts] : OpenAttempts(B, n)
    \/ \E c \in open : Deliver(c) \/ Publish(c)
    \/ \E S \in SUBSET open : Abandon(S)
    \/ \E D \in SUBSET Msgs : Forget(D)

Spec == Init /\ [][Next]_vars
=============================================================================
