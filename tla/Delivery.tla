------------------------------ MODULE Delivery ------------------------------
(***************************************************************************)
(* What the ingestion outbox promises the rest of the platform, without    *)
(* rows, locks, workers or retries: an event that was accepted can be put  *)
(* on the Kafka log, it is settled only when a copy of it is on the log,   *)
(* and once it is settled or dead-lettered it is not published again.      *)
(***************************************************************************)
EXTENDS Sequences

CONSTANT Events

VARIABLES
    accepted,  \* events whose transaction has committed
    log,       \* the Kafka log, oldest record first
    settled,   \* events reported as published
    dead       \* events given up on

vars == <<accepted, log, settled, dead>>

OnLog == {log[i] : i \in DOMAIN log}

Open == accepted \ (settled \cup dead)

Init ==
    /\ accepted = {}
    /\ log = <<>>
    /\ settled = {}
    /\ dead = {}

\* One application transaction makes a set of events the outbox's duty.
Accept ==
    /\ \E S \in SUBSET Events : accepted' = accepted \cup S
    /\ UNCHANGED <<log, settled, dead>>

Publish(e) ==
    /\ log' = Append(log, e)
    /\ UNCHANGED <<accepted, settled, dead>>

Settle(e) ==
    /\ e \in OnLog
    /\ settled' = settled \cup {e}
    /\ UNCHANGED <<accepted, log, dead>>

Abandon(e) ==
    /\ dead' = dead \cup {e}
    /\ UNCHANGED <<accepted, log, settled>>

Next ==
    \/ Accept
    \/ \E e \in Open : Publish(e) \/ Settle(e) \/ Abandon(e)

Spec == Init /\ [][Next]_vars
=============================================================================
