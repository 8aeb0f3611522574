------------------------ MODULE DistributedLockManager ------------------------
(***************************************************************************)
(* The lock table of one broker, src/torrent/broker/dlm.cpp.  A call of    *)
(* try_lock() or unlock() takes table_mutex once per phase and gives it up *)
(* in between, so a call is several steps of its thread, and the calls of  *)
(* other threads, the cleanup thread and shutdown() interleave with them.  *)
(* The proposal to Raft between the phases is a stub in the source that    *)
(* always succeeds and changes nothing.                                    *)
(***************************************************************************)
EXTENDS Integers, FiniteSets

CONSTANTS
    Thread,         \* threads of the broker that call the manager
    Name, Owner,    \* lock names and owners, both non-empty strings
    Nobody,         \* the empty owner
    lock_ttl,       \* DLMConfig::lock_ttl, in ticks of the clock
    max_locks       \* DLMConfig::max_locks

CONSTANTS           \* bounds of the explored state space
    MaxTime,        \* the clock stops here
    MaxCalls,       \* calls of try_lock
    MaxShutdowns

VARIABLES
    lock_table,     \* lock_table[n]: the LockState of lock n
    thread,         \* thread[t]: the call t is inside, at which phase
    cleaner,        \* where cleanup_loop() is
    cleanup_running,
    running,
    now,            \* system_clock
    used,           \* how much of the bounds has been used
    life,           \* history: how often lock n has been entered in the table
    grants          \* history: every grant, with the life it was made in

vars == <<lock_table, thread, cleaner, cleanup_running, running, now, used, life, grants>>

ASSUME OwnerAssumption == Nobody \notin Owner
ASSUME FiniteAssumption == IsFiniteSet(Name) /\ IsFiniteSet(Thread)
ASSUME LimitAssumption == lock_ttl \in Nat /\ max_locks \in Nat \ {0}
ASSUME BoundAssumption == MaxTime \in Nat /\ MaxCalls \in Nat /\ MaxShutdowns \in Nat
-----------------------------------------------------------------------------
LockState ==
    [tracked : BOOLEAN,         \* is there an entry in lock_table?
     owner : Owner \cup {Nobody}, fencing_token : Nat, last_activity : Nat]
Absent == [tracked |-> FALSE, owner |-> Nobody, fencing_token |-> 0, last_activity |-> 0]

Idle == [pc |-> "idle", name |-> Nobody, owner |-> Nobody]
Call == [pc : {"capacity", "grant", "clear"}, name : Name, owner : Owner]

is_held(s) == s.owner # Nobody
is_expired(s) == is_held(s) /\ now - s.last_activity > lock_ttl
\* Mutant: the activity is dated back, so that the lock expires with its call.
touch_dated_back(s) == [s EXCEPT !.last_activity = now - lock_ttl]

touch(s) == [s EXCEPT !.last_activity = now]
next_fencing_token(s) == [s EXCEPT !.fencing_token = @ + 1]
clear(s) == [s EXCEPT !.owner = Nobody]

Tracked == {n \in Name : lock_table[n].tracked}

validate_fencing(n, o, token) ==
    /\ is_held(lock_table[n])
    /\ lock_table[n].owner = o
    /\ lock_table[n].fencing_token = token
-----------------------------------------------------------------------------
Init ==
    /\ lock_table = [n \in Name |-> Absent]
    /\ thread = [t \in Thread |-> Idle]
    /\ cleaner = "gone" /\ cleanup_running = FALSE /\ running = FALSE
    /\ now = 0
    /\ used = [calls |-> 0, shutdowns |-> 0]
    /\ life = [n \in Name |-> 0]
    /\ grants = {}

lifecycle == <<cleaner, cleanup_running, running, now>>
history == <<life, grants>>

(* try_lock() *)

\* Phase 1.  A lock held by somebody else ends the call here and changes nothing.
TryLock(t) ==
    /\ thread[t] = Idle
    /\ used.calls < MaxCalls
    /\ \E n \in Name, o \in Owner :
        \/ /\ lock_table[n].owner = o       \* re-entrant
           /\ lock_table' = [lock_table EXCEPT ![n] = touch(@)]
           /\ UNCHANGED thread
        \/ /\ ~is_held(lock_table[n])
           /\ thread' = [thread EXCEPT ![t] = [pc |-> "capacity", name |-> n, owner |-> o]]
           /\ UNCHANGED lock_table
    /\ used' = [used EXCEPT !.calls = @ + 1]
    /\ UNCHANGED <<lifecycle, history>>

\* Mutant: one lock too many.
CheckCapacity_off_by_one(t) ==
    /\ thread[t].pc = "capacity"
    /\ thread' = [thread EXCEPT ![t] = IF Cardinality(Tracked) > max_locks THEN Idle
                                       ELSE [@ EXCEPT !.pc = "grant"]]
    /\ UNCHANGED <<lock_table, used, lifecycle, history>>

\* Phase 2.
CheckCapacity(t) ==
    /\ thread[t].pc = "capacity"
    /\ thread' = [thread EXCEPT ![t] = IF Cardinality(Tracked) >= max_locks THEN Idle
                                       ELSE [@ EXCEPT !.pc = "grant"]]
    /\ UNCHANGED <<lock_table, used, lifecycle, history>>

\* Mutant: a free entry is given out under the token of its last grant.
granted_same_token(s, o) == touch([s EXCEPT !.tracked = TRUE, !.owner = o])

granted(s, o) == next_fencing_token(touch([s EXCEPT !.tracked = TRUE, !.owner = o]))

\* Mutant: what phase 1 saw is taken to hold still.
contested_never(s, o) == FALSE

\* Has another owner won since phase 1?
contested(s, o) == is_held(s) /\ s.owner # o

\* Phase 4, after the proposal.
Grant(t) ==
    LET n == thread[t].name
        o == thread[t].owner
        s == granted(lock_table[n], o)
        lives == IF lock_table[n].tracked THEN life[n] ELSE life[n] + 1
    IN  /\ thread[t].pc = "grant"
        /\ \/ /\ ~contested(lock_table[n], o)
              /\ lock_table' = [lock_table EXCEPT ![n] = s]
              /\ life' = [life EXCEPT ![n] = lives]
              /\ grants' = grants \cup {[name |-> n, owner |-> o,
                                         token |-> s.fencing_token, life |-> lives]}
           \/ /\ contested(lock_table[n], o)
              /\ UNCHANGED <<lock_table, history>>
        /\ thread' = [thread EXCEPT ![t] = Idle]
        /\ UNCHANGED <<used, lifecycle>>

(* unlock() and force_release() *)

\* Phase 1.
Unlock(t) ==
    /\ thread[t] = Idle
    /\ \E n \in Name, o \in Owner :
        /\ lock_table[n].owner = o
        /\ thread' = [thread EXCEPT ![t] = [pc |-> "clear", name |-> n, owner |-> o]]
    /\ UNCHANGED <<lock_table, used, lifecycle, history>>

\* Phase 3, after the proposal: whoever the owner is by now.
Clear(t) ==
    /\ thread[t].pc = "clear"
    /\ lock_table' = [lock_table EXCEPT ![thread[t].name] = clear(@)]
    /\ thread' = [thread EXCEPT ![t] = Idle]
    /\ UNCHANGED <<used, lifecycle, history>>

ForceRelease(n) ==
    /\ is_held(lock_table[n])
    /\ lock_table' = [lock_table EXCEPT ![n] = clear(@)]
    /\ UNCHANGED <<thread, used, lifecycle, history>>

(* cleanup_loop() *)

CleanupWake ==
    /\ cleaner = "asleep"
    /\ cleaner' = IF cleanup_running THEN "scanning" ELSE "gone"
    /\ UNCHANGED <<lock_table, thread, cleanup_running, running, now, used, history>>

\* Mutant: only free entries are looked at.
swept_only_free(s) ==
    IF ~is_held(s) /\ now - s.last_activity > 2 * lock_ttl THEN Absent ELSE s

\* A silent owner loses the lock; an entry nobody has used for twice as long goes, and
\* its fencing token with it.
swept(s) ==
    IF is_expired(s) THEN clear(s)
    ELSE IF ~is_held(s) /\ now - s.last_activity > 2 * lock_ttl THEN Absent
    ELSE s

CleanupScan ==
    /\ cleaner = "scanning"
    /\ lock_table' = [n \in Name |-> swept(lock_table[n])]
    /\ cleaner' = "asleep"
    /\ UNCHANGED <<thread, cleanup_running, running, now, used, history>>

(* start() and shutdown(), called by the thread that owns the broker *)

Start ==
    /\ ~running
    /\ cleanup_running' = TRUE /\ cleaner' = "asleep" /\ running' = TRUE
    /\ UNCHANGED <<lock_table, thread, now, used, history>>

ShutdownBegin ==
    /\ running /\ cleanup_running
    /\ used.shutdowns < MaxShutdowns
    /\ cleanup_running' = FALSE
    /\ used' = [used EXCEPT !.shutdowns = @ + 1]
    /\ UNCHANGED <<lock_table, thread, cleaner, running, now, history>>

\* The cleanup thread has been joined.
ShutdownEnd ==
    /\ running /\ ~cleanup_running
    /\ cleaner = "gone"
    /\ lock_table' = [n \in Name |-> Absent]
    /\ running' = FALSE
    /\ UNCHANGED <<thread, cleaner, cleanup_running, now, used, history>>

Tick ==
    /\ now < MaxTime
    /\ now' = now + 1
    /\ UNCHANGED <<lock_table, thread, cleaner, cleanup_running, running, used, history>>

Next ==
    \/ \E t \in Thread : \/ TryLock(t) \/ CheckCapacity(t) \/ Grant(t)
                         \/ Unlock(t) \/ Clear(t)
    \/ \E n \in Name : ForceRelease(n)
    \/ CleanupWake \/ CleanupScan
    \/ Start \/ ShutdownBegin \/ ShutdownEnd
    \/ Tick

Spec == Init /\ [][Next]_vars

\* cleanup_loop() is a loop around sleep_for(): the thread always comes back.
FairSpec == Spec /\ WF_vars(CleanupWake) /\ WF_vars(CleanupScan)
-----------------------------------------------------------------------------
(* Properties. *)

\* Every field has its type.
TypeOK ==
    /\ lock_table \in [Name -> LockState]
    /\ thread \in [Thread -> Call \cup {Idle}]
    /\ cleaner \in {"asleep", "scanning", "gone"}
    /\ cleanup_running \in BOOLEAN /\ running \in BOOLEAN
    /\ now \in Nat
    /\ used \in [calls : Nat, shutdowns : Nat]
    /\ life \in [Name -> Nat]
    /\ grants \subseteq [name : Name, owner : Owner, token : Nat, life : Nat]

Service == INSTANCE LockService WITH owner <- [n \in Name |-> lock_table[n].owner]

\* The manager implements the lock service: although a grant acts on a check made under
\* an earlier hold of table_mutex, no owner is ever displaced by another (the re-check in
\* phase 4 of try_lock).
ImplementsLockService == Service!Spec

\* Does the grant g still pass validate_fencing() on the entry it was made on?
Valid(g) == life[g.name] = g.life /\ validate_fencing(g.name, g.owner, g.token)

\* Fencing: once a grant no longer validates (its lock was released, expired, forced or
\* granted anew, even to the same owner), it never validates again on that entry.
FencedForGood == [][\A g \in grants : ~Valid(g) => ~Valid(g)']_vars

\* The threads that have passed the check of max_locks and not yet inserted.
Past == {t \in Thread : thread[t].pc = "grant"}

\* try_lock() checks max_locks and inserts under different holds of table_mutex.  The entries
\* and the threads that may still add one outgrow the limit by no more than the other threads,
\* whatever is released, erased or granted between check and insertion.
TableBounded ==
    Cardinality(Tracked) + Cardinality(Past) <= max_locks - 1 + Cardinality(Thread)

\* A lock whose owner has been silent for longer than lock_ttl is taken away, unless its
\* owner comes back or the manager is shut down (cleanup_loop).
SilentOwnerLoses ==
    \A n \in Name : running /\ is_expired(lock_table[n])
                    ~> ~cleanup_running \/ ~is_expired(lock_table[n])
=============================================================================
