----------------------------- MODULE LockService -----------------------------
(***************************************************************************)
(* What the callers of DistributedLockManager::try_lock() and unlock() may *)
(* rely on, whatever the threads inside do: every lock has at most one     *)
(* owner, and it passes from one owner to another only through being free. *)
(***************************************************************************)
CONSTANTS Name, Owner, Nobody

VARIABLE owner      \* owner[n]: who holds lock n, or Nobody

Init == owner = [n \in Name |-> Nobody]

Acquire(n, o) ==
    /\ owner[n] = Nobody
    /\ owner' = [owner EXCEPT ![n] = o]

\* Locks are taken from their owners: by an unlock, an administrator, their age or a shutdown.
Release(S) ==
    owner' = [n \in Name |-> IF n \in S THEN Nobody ELSE owner[n]]

Next ==
    \/ \E n \in Name, o \in Owner : Acquire(n, o)
    \/ \E S \in SUBSET Name : Release(S)

Spec == Init /\ [][Next]_owner
=============================================================================
