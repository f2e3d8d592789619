------------------------------ MODULE Delivery ------------------------------
(***************************************************************************)
(* What pkg/lib/queueinformer promises to the syncers that use it, without *)
(* caches, queues, rate limits and workers: a change of an object is owed  *)
(* a sync until one succeeds on the object as it is now or the last retry  *)
(* on it fails, and the delete handler is called once for a deletion.      *)
(***************************************************************************)
EXTENDS Integers

CONSTANT Keys

VARIABLES
    open,      \* the control loop has not stopped
    exists,    \* the keys of the objects there are
    current,   \* the version of each
    synced,    \* the newest version a sync succeeded on
    owed,      \* the objects that a sync is still to come for
    given,     \* the versions that were given up
    removed,   \* deletions
    cleaned    \* those the delete handler was called for

vars == <<open, exists, current, synced, owed, given, removed, cleaned>>

Init ==
    /\ open = TRUE
    /\ exists = {} /\ owed = {} /\ given = {} /\ removed = {} /\ cleaned = {}
    /\ current = [k \in Keys |-> 0]
    /\ synced = [k \in Keys |-> 0]

Change(k) ==
    /\ open
    /\ exists' = exists \cup {k}
    /\ current' = [current EXCEPT ![k] = @ + 1]
    /\ owed' = owed \cup {k}
    /\ UNCHANGED <<open, synced, given, removed, cleaned>>

Remove(k) ==
    /\ open
    /\ k \in exists
    /\ exists' = exists \ {k}
    /\ owed' = owed \ {k}
    /\ removed' = removed \cup {<<k, current[k]>>}
    /\ UNCHANGED <<open, current, synced, given, cleaned>>

\* A resync, or a request of other code.
Renew ==
    /\ owed \subseteq owed' /\ owed' \subseteq exists
    /\ UNCHANGED <<open, exists, current, synced, given, removed, cleaned>>

\* Only what was done with version v of the object as it is now settles what is
\* owed.
Settles(k, v) == owed' = owed \/ (v = current[k] /\ owed' = owed \ {k})

Succeed(k, v) ==
    /\ v <= current[k]
    /\ synced' = [synced EXCEPT ![k] = IF v > @ THEN v ELSE @]
    /\ Settles(k, v)
    /\ UNCHANGED <<open, exists, current, given, removed, cleaned>>

GiveUp(k, v) ==
    /\ given' = given \cup {<<k, v>>}
    /\ Settles(k, v)
    /\ UNCHANGED <<open, exists, current, synced, removed, cleaned>>

Clean(d) ==
    /\ d \in removed \ cleaned
    /\ cleaned' = cleaned \cup {d}
    /\ UNCHANGED <<open, exists, current, synced, owed, given, removed>>

Close ==
    /\ open /\ open' = FALSE
    /\ UNCHANGED <<exists, current, synced, owed, given, removed, cleaned>>

\* A loop that has stopped owes nothing.
Drop ==
    /\ ~open
    /\ owed' \subseteq owed
    /\ UNCHANGED <<open, exists, current, synced, given, removed, cleaned>>

Next ==
    \/ \E k \in Keys : Change(k) \/ Remove(k)
    \/ \E k \in Keys : \E v \in 0..current[k] : Succeed(k, v) \/ GiveUp(k, v)
    \/ \E d \in removed : Clean(d)
    \/ Renew \/ Close \/ Drop

Spec == Init /\ [][Next]_vars
=============================================================================
