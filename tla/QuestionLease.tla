--------------------------- MODULE QuestionLease ---------------------------
(***************************************************************************)
(* What the question queue promises to agents and humans, without rows,    *)
(* locks, transactions or stale clocks: a question is asked once, is       *)
(* leased to at most one agent for at most TTL, and leaves the queue in a  *)
(* single step, either through the agent that leases it or through a human *)
(* while no lease on it is live.  MatrixQueue implements it.               *)
(***************************************************************************)
EXTENDS Naturals

CONSTANTS Client, Item, TTL

VARIABLES
    now,      \* the time
    asked,    \* questions ever asked
    queue,    \* questions to be dealt with
    made,     \* made[i]: matrix items made of question i
    leases    \* who works on which question, and until when

vars == <<now, asked, queue, made, leases>>

Lease == [client : Client, item : Item, expires : Nat]

LeasesOn(i) == {l \in leases : l.item = i}

Init ==
    /\ now = 0 /\ asked = {} /\ queue = {} /\ leases = {}
    /\ made = [i \in Item |-> 0]

Ask(batch) ==
    /\ batch \cap asked = {}
    /\ asked' = asked \cup batch
    /\ queue' = queue \cup batch
    /\ UNCHANGED <<now, made, leases>>

\* Client c takes question i over; a lease that ran out on either may be dropped.
Take(c, i, expires) ==
    /\ i \in queue
    /\ expires <= now + TTL
    /\ \A l \in leases : (l.client = c \/ l.item = i) => l.expires <= now
    /\ leases' = {l \in leases : l.client # c /\ l.item # i}
                   \cup {[client |-> c, item |-> i, expires |-> expires]}
    /\ UNCHANGED <<now, asked, queue, made>>

\* The agent that leased i last makes an item of it.  It may be late: a lease is
\* not taken away for running out, only when another agent or a human needs it.
Finish(i) ==
    /\ LeasesOn(i) # {}
    /\ made' = [made EXCEPT ![i] = @ + 1]
    /\ queue' = queue \ {i}
    /\ leases' = leases \ LeasesOn(i)
    /\ UNCHANGED <<now, asked>>

\* A human makes an item of i (n = 1) or rejects it (n = 0).
Decide(i, n) ==
    /\ i \in queue
    /\ \A l \in LeasesOn(i) : l.expires <= now
    /\ made' = [made EXCEPT ![i] = @ + n]
    /\ queue' = queue \ {i}
    /\ leases' = leases \ LeasesOn(i)
    /\ UNCHANGED <<now, asked>>

\* The agent, an operator or a revocation gives a lease up.
GiveUp(l) == leases' = leases \ {l} /\ UNCHANGED <<now, asked, queue, made>>

Tick == now' = now + 1 /\ UNCHANGED <<asked, queue, made, leases>>

Next ==
    \/ \E batch \in SUBSET Item : Ask(batch)
    \/ \E c \in Client, i \in Item, t \in 0..(now + TTL) : Take(c, i, t)
    \/ \E i \in Item : Finish(i) \/ \E n \in {0, 1} : Decide(i, n)
    \/ \E l \in leases : GiveUp(l)
    \/ Tick

Spec == Init /\ [][Next]_vars
=============================================================================
