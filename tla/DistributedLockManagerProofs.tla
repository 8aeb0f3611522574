--------------------- MODULE DistributedLockManagerProofs ---------------------
(***************************************************************************)
(* Theorems about the lock manager, for any number of threads, names and   *)
(* owners and for any bounds.                                              *)
(***************************************************************************)
EXTENDS DistributedLockManager, FiniteSetTheorems, TLAPS

\* A record in LockState keeps its type under the updates the manager makes.
LEMMA LockStateUpdates ==
    ASSUME NEW s \in LockState, now \in Nat
    PROVE  /\ touch(s) \in LockState
           /\ clear(s) \in LockState
           /\ Absent \in LockState
           /\ swept(s) \in LockState
           /\ \A o \in Owner : granted(s, o) \in LockState
<1>1. touch(s) \in LockState /\ clear(s) \in LockState /\ Absent \in LockState
  BY DEF LockState, touch, clear, Absent
<1>2. swept(s) \in LockState
  BY <1>1 DEF swept
<1>3. ASSUME NEW o \in Owner PROVE granted(s, o) \in LockState
  <2> DEFINE given == [s EXCEPT !.tracked = TRUE, !.owner = o]
  <2>1. given \in LockState
    BY DEF LockState
  <2> DEFINE touched == [given EXCEPT !.last_activity = now]
  <2>2. touched \in LockState
    BY <2>1 DEF LockState
  <2>3. granted(s, o) = [touched EXCEPT !.fencing_token = touched.fencing_token + 1]
    BY DEF granted, next_fencing_token, touch
  <2> HIDE DEF touched
  <2> QED
    BY <2>2, <2>3 DEF LockState
<1> QED
  BY <1>1, <1>2, <1>3

\* What each update does to the fields.
LEMMA LockStateFields ==
    ASSUME NEW s \in LockState, now \in Nat
    PROVE  /\ touch(s).owner = s.owner /\ touch(s).tracked = s.tracked
           /\ touch(s).fencing_token = s.fencing_token
           /\ clear(s).owner = Nobody /\ clear(s).tracked = s.tracked
           /\ clear(s).fencing_token = s.fencing_token
           /\ \A o \in Owner : /\ granted(s, o).owner = o
                               /\ granted(s, o).tracked = TRUE
                               /\ granted(s, o).fencing_token = s.fencing_token + 1
  BY DEF LockState, touch, clear, granted, next_fencing_token

\* The call a thread is inside, by its phase.
LEMMA InsideCall ==
    ASSUME TypeOK, NEW t \in Thread, thread[t].pc # "idle"
    PROVE  thread[t] \in Call /\ thread[t].name \in Name /\ thread[t].owner \in Owner
  BY DEF TypeOK, Call, Idle

\* The type invariant is inductive.
THEOREM LockTypeCorrect == Spec => []TypeOK
<1>1. Init => TypeOK
  <2> HAVE Init
  <2>1. Absent \in LockState
    BY DEF LockState, Absent
  <2>2. lock_table \in [Name -> LockState] /\ thread \in [Thread -> Call \cup {Idle}]
    BY <2>1 DEF Init
  <2> QED
    BY <2>2 DEF Init, TypeOK
<1>2. TypeOK /\ [Next]_vars => TypeOK'
  <2> SUFFICES ASSUME TypeOK, [Next]_vars PROVE TypeOK'
    OBVIOUS
  <2> USE DEF lifecycle, history
  <2>1. ASSUME NEW t \in Thread, TryLock(t) PROVE TypeOK'
    BY <2>1, LockStateUpdates DEF TryLock, TypeOK, Call
  <2>2. ASSUME NEW t \in Thread, CheckCapacity(t) PROVE TypeOK'
    <3>1. thread[t] \in Call
      BY <2>2, InsideCall DEF CheckCapacity
    <3>2. [thread[t] EXCEPT !.pc = "grant"] \in Call
      BY <3>1 DEF Call
    <3>3. thread' \in [Thread -> Call \cup {Idle}]
      BY <2>2, <3>2 DEF CheckCapacity, TypeOK
    <3> QED
      BY <2>2, <3>3 DEF CheckCapacity, TypeOK
  <2>3. ASSUME NEW t \in Thread, Grant(t) PROVE TypeOK'
    <3>1. thread[t].name \in Name /\ thread[t].owner \in Owner
      BY <2>3, InsideCall DEF Grant
    <3> DEFINE s == granted(lock_table[thread[t].name], thread[t].owner)
    <3>2. s \in LockState /\ s.fencing_token \in Nat
      BY <3>1, LockStateUpdates DEF TypeOK, LockState
    <3>3. thread' \in [Thread -> Call \cup {Idle}]
      BY <2>3 DEF Grant, TypeOK
    <3>4. lock_table' \in [Name -> LockState]
      BY <2>3, <3>1, <3>2 DEF Grant, TypeOK
    <3>5. life' \in [Name -> Nat]
          /\ grants' \subseteq [name : Name, owner : Owner, token : Nat, life : Nat]
      BY <2>3, <3>1, <3>2 DEF Grant, TypeOK
    <3> QED
      BY <2>3, <3>3, <3>4, <3>5 DEF Grant, TypeOK
  <2>4. ASSUME NEW t \in Thread, Unlock(t) PROVE TypeOK'
    BY <2>4 DEF Unlock, TypeOK, Call
  <2>5. ASSUME NEW t \in Thread, Clear(t) PROVE TypeOK'
    BY <2>5, LockStateUpdates, InsideCall DEF Clear, TypeOK
  <2>6. ASSUME NEW n \in Name, ForceRelease(n) PROVE TypeOK'
    BY <2>6, LockStateUpdates DEF ForceRelease, TypeOK
  <2>7. CASE CleanupWake
    BY <2>7 DEF CleanupWake, TypeOK
  <2>8. CASE CleanupScan
    BY <2>8, LockStateUpdates DEF CleanupScan, TypeOK
  <2>9. CASE Start
    BY <2>9 DEF Start, TypeOK
  <2>10. CASE ShutdownBegin
    <3>1. used' \in [calls : Nat, shutdowns : Nat]
      BY <2>10 DEF ShutdownBegin, TypeOK
    <3> QED
      BY <2>10, <3>1 DEF ShutdownBegin, TypeOK
  <2>11. CASE ShutdownEnd
    <3>1. Absent \in LockState
      BY DEF Absent, LockState
    <3> QED
      BY <2>11, <3>1 DEF ShutdownEnd, TypeOK
  <2>12. CASE Tick
    <3>1. now' \in Nat
      BY <2>12 DEF Tick, TypeOK
    <3> QED
      BY <2>12, <3>1 DEF Tick, TypeOK
  <2>13. CASE UNCHANGED vars
    BY <2>13 DEF vars, TypeOK
  <2> QED
    BY <2>1, <2>2, <2>3, <2>4, <2>5, <2>6, <2>7, <2>8, <2>9, <2>10, <2>11, <2>12, <2>13 DEF Next
<1> QED
  BY <1>1, <1>2, PTL DEF Spec

\* Only a grant writes the history.
LEMMA OnlyGrantsRecord ==
    ASSUME [Next]_vars, \A t \in Thread : ~Grant(t)
    PROVE  UNCHANGED <<life, grants>>
  BY DEF Next, vars, history, TryLock, CheckCapacity, Unlock, Clear, ForceRelease,
         CleanupWake, CleanupScan, Start, ShutdownBegin, ShutdownEnd, Tick

\* Every step but a grant leaves an owner as it is or takes the lock away, keeps the token
\* of an entry that stays, and creates no entry.
LEMMA OnlyGrantsGive ==
    ASSUME TypeOK, [Next]_vars, \A t \in Thread : ~Grant(t), NEW n \in Name
    PROVE  /\ lock_table'[n].owner \in {lock_table[n].owner, Nobody}
           /\ lock_table'[n].tracked => lock_table[n].tracked
           /\ lock_table'[n].owner # Nobody =>
                 /\ lock_table'[n].tracked = lock_table[n].tracked
                 /\ lock_table'[n].fencing_token = lock_table[n].fencing_token
           /\ lock_table'[n].tracked =>
                 lock_table'[n].fencing_token = lock_table[n].fencing_token
<1> USE DEF lifecycle
<1>a. lock_table \in [Name -> LockState] /\ now \in Nat
  BY DEF TypeOK
<1>b. lock_table[n] \in LockState
  BY <1>a
<1>c. Absent.owner = Nobody /\ Absent.tracked = FALSE
  BY DEF Absent
<1>1. ASSUME NEW t \in Thread, TryLock(t)
      PROVE  lock_table'[n] \in {lock_table[n], touch(lock_table[n])}
  BY <1>1, <1>a DEF TryLock
<1>2. ASSUME NEW t \in Thread, CheckCapacity(t) \/ Unlock(t)
      PROVE  lock_table' = lock_table
  BY <1>2 DEF CheckCapacity, Unlock
<1>3. ASSUME NEW t \in Thread, Clear(t)
      PROVE  lock_table'[n] \in {lock_table[n], clear(lock_table[n])}
  BY <1>3, <1>a DEF Clear
<1>4. ASSUME NEW k \in Name, ForceRelease(k)
      PROVE  lock_table'[n] \in {lock_table[n], clear(lock_table[n])}
  BY <1>4, <1>a DEF ForceRelease
<1>5. CASE CleanupScan
  <2>1. lock_table'[n] \in {lock_table[n], clear(lock_table[n]), Absent}
    BY <1>5 DEF CleanupScan, swept
  <2> QED
    BY <2>1, <1>5, <1>b, <1>c, <1>a, LockStateFields DEF CleanupScan
<1>6. CASE ShutdownEnd
  BY <1>6, <1>c DEF ShutdownEnd
<1>7. CASE CleanupWake \/ Start \/ ShutdownBegin \/ Tick \/ UNCHANGED vars
  BY <1>7 DEF CleanupWake, Start, ShutdownBegin, Tick, vars
<1>8. CASE lock_table'[n] \in {lock_table[n], touch(lock_table[n]), clear(lock_table[n])}
          
  BY <1>8, <1>a, <1>b, LockStateFields
<1> QED
  BY <1>1, <1>2, <1>3, <1>4, <1>5, <1>6, <1>7, <1>8 DEF Next

\* Grant, in terms of the owners and tokens.
LEMMA GrantGives ==
    ASSUME TypeOK, NEW t \in Thread, Grant(t)
    PROVE  LET n == thread[t].name
               o == thread[t].owner
           IN  /\ n \in Name /\ o \in Owner
               /\ \A k \in Name \ {n} : lock_table'[k] = lock_table[k] /\ life'[k] = life[k]
               /\ \/ UNCHANGED <<lock_table, life, grants>>
                  \/ /\ ~contested(lock_table[n], o)
                     /\ lock_table'[n].owner = o /\ lock_table'[n].tracked = TRUE
                     /\ lock_table'[n].fencing_token = lock_table[n].fencing_token + 1
                     /\ life'[n] = IF lock_table[n].tracked THEN life[n] ELSE life[n] + 1
                     /\ grants' = grants \cup
                            {[name |-> n, owner |-> o,
                              token |-> lock_table'[n].fencing_token, life |-> life'[n]]}
<1> DEFINE n == thread[t].name
           o == thread[t].owner
           s == granted(lock_table[n], o)
<1>1. n \in Name /\ o \in Owner
  BY InsideCall DEF Grant
<1>2. lock_table[n] \in LockState /\ now \in Nat /\ lock_table \in [Name -> LockState]
      /\ life \in [Name -> Nat]
  BY <1>1 DEF TypeOK
<1>3. /\ s.owner = o /\ s.tracked = TRUE
      /\ s.fencing_token = lock_table[n].fencing_token + 1
  BY <1>1, <1>2, LockStateFields
<1>4. CASE UNCHANGED <<lock_table, life, grants>>
  BY <1>4, <1>1
<1>5. CASE /\ ~contested(lock_table[n], o)
           /\ lock_table' = [lock_table EXCEPT ![n] = s]
           /\ life' = [life EXCEPT ![n] = IF lock_table[n].tracked THEN life[n] ELSE life[n] + 1]
           /\ grants' = grants \cup
                 {[name |-> n, owner |-> o, token |-> s.fencing_token,
                   life |-> IF lock_table[n].tracked THEN life[n] ELSE life[n] + 1]}
  <2>1. lock_table'[n] = s /\ \A k \in Name \ {n} : lock_table'[k] = lock_table[k]
    BY <1>5, <1>1, <1>2
  <2>2. /\ life'[n] = IF lock_table[n].tracked THEN life[n] ELSE life[n] + 1
        /\ \A k \in Name \ {n} : life'[k] = life[k]
    BY <1>5, <1>1, <1>2
  <2> HIDE DEF s
  <2> QED
    BY <2>1, <2>2, <1>1, <1>3, <1>5
<1> HIDE DEF n, o, s
<1> QED
  BY <1>4, <1>5 DEF Grant, history, n, o, s

\* The manager implements the lock service: a step that changes owners is one Acquire of a
\* free lock or one Release.
THEOREM LocksImplementService == Spec => ImplementsLockService
<1> DEFINE owner == [n \in Name |-> lock_table[n].owner]
<1>1. Init => Service!Init
  BY DEF Init, Service!Init, Absent
<1>2. TypeOK /\ [Next]_vars => [Service!Next]_owner
  <2> SUFFICES ASSUME TypeOK, [Next]_vars PROVE Service!Next \/ owner' = owner
    OBVIOUS
  <2>1. ASSUME NEW t \in Thread, Grant(t) PROVE Service!Next \/ owner' = owner
    <3> DEFINE m == thread[t].name
               o == thread[t].owner
    <3>1. m \in Name /\ o \in Owner
      BY <2>1, GrantGives
    <3>2. CASE UNCHANGED lock_table
      BY <3>2
    <3>3. CASE ~contested(lock_table[m], o) /\ lock_table'[m].owner = o
               /\ \A k \in Name \ {m} : lock_table'[k] = lock_table[k]
      <4>1. lock_table[m].owner = Nobody \/ lock_table[m].owner = o
        BY <3>3 DEF contested, is_held
      <4>2. owner' = [owner EXCEPT ![m] = o]
        BY <3>1, <3>3
      <4>3. CASE lock_table[m].owner = Nobody
        BY <3>1, <4>2, <4>3 DEF Service!Next, Service!Acquire
      <4>4. CASE lock_table[m].owner = o
        BY <3>1, <4>2, <4>4
      <4> QED
        BY <4>1, <4>3, <4>4
    <3> QED
      BY <2>1, <3>2, <3>3, GrantGives
  <2>2. ASSUME \A t \in Thread : ~Grant(t) PROVE Service!Next \/ owner' = owner
    <3> DEFINE S == {n \in Name : lock_table'[n].owner = Nobody}
    <3>1. \A n \in Name : lock_table'[n].owner \in {lock_table[n].owner, Nobody}
      BY <2>2, OnlyGrantsGive
    <3>2. owner' = [n \in Name |-> IF n \in S THEN Nobody ELSE owner[n]]
      BY <3>1
    <3> QED
      BY <3>2 DEF Service!Next, Service!Release
  <2> QED
    BY <2>1, <2>2
<1> QED
  BY <1>1, <1>2, LockTypeCorrect, PTL DEF Spec, ImplementsLockService, Service!Spec

\* What a grant leaves behind: it belongs to this life of the entry or an earlier one, and
\* its token is not ahead of an entry that is still there.
GrantsBehind ==
    \A g \in grants :
        /\ g.life <= life[g.name]
        /\ lock_table[g.name].tracked /\ g.life = life[g.name]
              => g.token <= lock_table[g.name].fencing_token

\* A lock without an entry has no owner.
UntrackedIsFree == \A n \in Name : ~lock_table[n].tracked => lock_table[n].owner = Nobody

\* The invariant behind the fencing tokens is inductive.
LEMMA GrantsBehindStep ==
    ASSUME TypeOK, TypeOK', GrantsBehind, UntrackedIsFree, [Next]_vars
    PROVE  GrantsBehind' /\ UntrackedIsFree'
<1>a. /\ lock_table \in [Name -> LockState] /\ life \in [Name -> Nat]
      /\ grants \subseteq [name : Name, owner : Owner, token : Nat, life : Nat]
  BY DEF TypeOK
<1>b. \A k \in Name : lock_table[k].fencing_token \in Nat /\ life[k] \in Nat
                     /\ lock_table[k].tracked \in BOOLEAN
  BY <1>a DEF LockState
<1>c. \A g \in grants : g.name \in Name /\ g.token \in Nat /\ g.life \in Nat
  BY <1>a
<1>1. ASSUME NEW t \in Thread, Grant(t) PROVE GrantsBehind' /\ UntrackedIsFree'
  <2> DEFINE n == thread[t].name
             o == thread[t].owner
  <2>1. n \in Name /\ o \in Owner
    BY <1>1, GrantGives
  <2>2. CASE UNCHANGED <<lock_table, life, grants>>
    BY <2>2 DEF GrantsBehind, UntrackedIsFree
  <2>3. ASSUME lock_table'[n].tracked = TRUE,
               lock_table'[n].fencing_token = lock_table[n].fencing_token + 1,
               life'[n] = (IF lock_table[n].tracked THEN life[n] ELSE life[n] + 1),
               grants' = grants \cup
                   {[name |-> n, owner |-> o,
                     token |-> lock_table'[n].fencing_token, life |-> life'[n]]},
               \A k \in Name \ {n} : lock_table'[k] = lock_table[k] /\ life'[k] = life[k]
        PROVE  GrantsBehind' /\ UntrackedIsFree'
    <3>1. UntrackedIsFree'
      BY <2>1, <2>3 DEF UntrackedIsFree
    <3>2. ASSUME NEW g \in grants
          PROVE  /\ g.life <= life'[g.name]
                 /\ lock_table'[g.name].tracked /\ g.life = life'[g.name]
                       => g.token <= lock_table'[g.name].fencing_token
      <4>1. CASE g.name # n
        BY <4>1, <2>3, <1>c DEF GrantsBehind
      <4>2. CASE g.name = n
        BY <4>2, <2>3, <1>b, <1>c, <2>1 DEF GrantsBehind
      <4> QED
        BY <4>1, <4>2
    <3>3. life'[n] \in Nat /\ lock_table'[n].fencing_token \in Nat
      BY <2>1, <2>3, <1>b
    <3>4. GrantsBehind'
      BY <2>3, <3>2, <3>3 DEF GrantsBehind
    <3> QED
      BY <3>1, <3>4
  <2> HIDE DEF n, o
  <2> QED
    BY <1>1, <2>2, <2>3, GrantGives DEF n, o
<1>2. ASSUME \A t \in Thread : ~Grant(t) PROVE GrantsBehind' /\ UntrackedIsFree'
  <2>1. /\ UNCHANGED <<life, grants>>
        /\ \A n \in Name :
              /\ lock_table'[n].owner \in {lock_table[n].owner, Nobody}
              /\ lock_table'[n].owner # Nobody => lock_table'[n].tracked = lock_table[n].tracked
              /\ lock_table'[n].tracked =>
                    /\ lock_table[n].tracked
                    /\ lock_table'[n].fencing_token = lock_table[n].fencing_token
    BY <1>2, OnlyGrantsGive, OnlyGrantsRecord
  <2> QED
    BY <2>1, <1>c DEF GrantsBehind, UntrackedIsFree
<1> QED
  BY <1>1, <1>2

\* A grant that no longer validates on its entry never does again.
THEOREM FencingHolds == Spec => FencedForGood
<1> DEFINE FInv == TypeOK /\ GrantsBehind /\ UntrackedIsFree
<1>1. Init => GrantsBehind /\ UntrackedIsFree
  BY DEF Init, GrantsBehind, UntrackedIsFree, Absent
<1>2. FInv /\ TypeOK' /\ [Next]_vars => (GrantsBehind /\ UntrackedIsFree)'
  BY GrantsBehindStep
<1>3. FInv /\ TypeOK' /\ [Next]_vars => \A g \in grants : ~Valid(g) => ~Valid(g)'
  <2> SUFFICES ASSUME FInv, TypeOK', [Next]_vars, NEW g \in grants, ~Valid(g), Valid(g)'
               PROVE  FALSE
    OBVIOUS
  <2>a. /\ g.name \in Name /\ g.owner \in Owner /\ g.token \in Nat /\ g.life \in Nat
        /\ life[g.name] \in Nat /\ lock_table[g.name] \in LockState
    BY DEF TypeOK
  <2>b. lock_table[g.name].fencing_token \in Nat /\ lock_table[g.name].tracked \in BOOLEAN
    BY <2>a DEF LockState
  <2>c. /\ life'[g.name] = g.life /\ lock_table'[g.name].owner = g.owner
        /\ lock_table'[g.name].fencing_token = g.token
    BY DEF Valid, validate_fencing
  <2>d. /\ g.life <= life[g.name]
        /\ lock_table[g.name].tracked /\ g.life = life[g.name]
              => g.token <= lock_table[g.name].fencing_token
    BY DEF GrantsBehind
  <2>e. Nobody # g.owner
    BY <2>a, OwnerAssumption
  <2>1. CASE lock_table'[g.name] = lock_table[g.name] /\ life'[g.name] = life[g.name]
    BY <2>1, <2>c, <2>e DEF Valid, validate_fencing, is_held
  <2>2. ASSUME NEW t \in Thread, Grant(t) PROVE FALSE
    <3>1. CASE g.name # thread[t].name \/ UNCHANGED <<lock_table, life>>
      BY <3>1, <2>a, <2>1, <2>2, GrantGives
    <3>2. ASSUME g.name = thread[t].name,
                 lock_table'[g.name].fencing_token = lock_table[g.name].fencing_token + 1,
                 life'[g.name] = (IF lock_table[g.name].tracked THEN life[g.name]
                                                               ELSE life[g.name] + 1)
          PROVE  FALSE
      BY <3>2, <2>a, <2>b, <2>c, <2>d
    <3> QED
      BY <2>2, <3>1, <3>2, GrantGives
  <2>3. ASSUME \A t \in Thread : ~Grant(t) PROVE FALSE
    <3>1. lock_table'[g.name].owner = lock_table[g.name].owner
          /\ lock_table'[g.name].fencing_token = lock_table[g.name].fencing_token
      BY <2>3, <2>a, <2>c, <2>e, OnlyGrantsGive
    <3>2. life' = life
      BY <2>3, OnlyGrantsRecord
    <3> QED
      BY <3>1, <3>2, <2>c, <2>e DEF Valid, validate_fencing, is_held
  <2> QED
    BY <2>2, <2>3
<1>4. FInv /\ TypeOK' /\ [Next]_vars => [\A g \in grants : ~Valid(g) => ~Valid(g)']_vars
  BY <1>3
<1> QED
  BY <1>1, <1>2, <1>4, LockTypeCorrect, PTL DEF Spec, FencedForGood

\* Tracked and Past are finite sets, and Past is a part of Thread.
LEMMA Countable ==
    /\ IsFiniteSet(Tracked) /\ Cardinality(Tracked) \in Nat
    /\ IsFiniteSet(Past) /\ Cardinality(Past) \in Nat
    /\ Cardinality(Past) <= Cardinality(Thread) /\ Cardinality(Thread) \in Nat
<1>1. Tracked \subseteq Name /\ Past \subseteq Thread
  BY DEF Tracked, Past
<1> QED
  BY <1>1, FiniteAssumption, FS_Subset, FS_CardinalityType

\* The same of the next state.
LEMMA CountableNext ==
    /\ IsFiniteSet(Tracked') /\ Cardinality(Tracked') \in Nat
    /\ IsFiniteSet(Past') /\ Cardinality(Past') \in Nat
    /\ Cardinality(Past') <= Cardinality(Thread)
<1>1. Tracked' \subseteq Name /\ Past' \subseteq Thread
  BY DEF Tracked, Past
<1> QED
  BY <1>1, FiniteAssumption, FS_Subset, FS_CardinalityType

\* The entries and the threads that may still add one outgrow max_locks by no more than the
\* other threads inside try_lock().
THEOREM TableIsBounded == Spec => []TableBounded
<1>1. Init => TableBounded
  <2> SUFFICES ASSUME Init PROVE TableBounded
    OBVIOUS
  <2>1. Tracked = {} /\ Past = {}
    BY DEF Init, Tracked, Past, Absent, Idle
  <2> QED
    BY <2>1, FS_EmptySet, Countable, LimitAssumption DEF TableBounded
<1>2. TypeOK /\ TableBounded /\ [Next]_vars => TableBounded'
  <2> SUFFICES ASSUME TypeOK, TableBounded, [Next]_vars PROVE TableBounded'
    OBVIOUS
  <2>a. thread \in [Thread -> Call \cup {Idle}]
    BY DEF TypeOK
  <2>1. ASSUME NEW t \in Thread, Grant(t) PROVE TableBounded'
    <3> DEFINE n == thread[t].name
    <3>1. thread' = [thread EXCEPT ![t] = Idle] /\ thread[t].pc = "grant"
      BY <2>1 DEF Grant
    <3>2. Past' = Past \ {t} /\ t \in Past
      BY <3>1, <2>a DEF Past, Idle
    <3>3. Cardinality(Past') = Cardinality(Past) - 1
      BY <3>2, Countable, FS_RemoveElement
    <3>4. Tracked' \subseteq Tracked \cup {n}
      BY <2>1, GrantGives DEF Tracked
    <3>5. /\ IsFiniteSet(Tracked \cup {n})
          /\ Cardinality(Tracked \cup {n}) <= Cardinality(Tracked) + 1
      <4> HIDE DEF n
      <4>1. /\ IsFiniteSet(Tracked \cup {n})
            /\ \/ Cardinality(Tracked \cup {n}) = Cardinality(Tracked)
               \/ Cardinality(Tracked \cup {n}) = Cardinality(Tracked) + 1
        BY Countable, FS_AddElement
      <4> QED
        BY <4>1, Countable
    <3>6. Cardinality(Tracked') <= Cardinality(Tracked \cup {n})
      BY <3>4, <3>5, FS_Subset
    <3>7. Cardinality(Tracked \cup {n}) \in Nat
      BY <3>5, FS_CardinalityType
    <3> QED
      BY <3>3, <3>5, <3>6, <3>7, Countable, CountableNext, LimitAssumption
         DEF TableBounded
  <2>2. ASSUME \A t \in Thread : ~Grant(t) PROVE TableBounded'
    <3>1. Cardinality(Tracked') <= Cardinality(Tracked)
      <4>1. Tracked' \subseteq Tracked
        BY <2>2, OnlyGrantsGive DEF Tracked
      <4> QED
        BY <4>1, Countable, FS_Subset
    <3>2. CASE Past' \subseteq Past
      <4>1. Cardinality(Past') <= Cardinality(Past)
        BY <3>2, Countable, FS_Subset
      <4> QED
        BY <3>1, <4>1, Countable, CountableNext, LimitAssumption DEF TableBounded
    <3>3. CASE Cardinality(Tracked) < max_locks
      BY <3>1, <3>3, Countable, CountableNext, LimitAssumption DEF TableBounded
    <3>4. ASSUME NEW t \in Thread, CheckCapacity(t)
          PROVE  Past' \subseteq Past \/ Cardinality(Tracked) < max_locks
      <4>1. CASE Cardinality(Tracked) >= max_locks
        <5>1. thread' = [thread EXCEPT ![t] = Idle]
          BY <3>4, <4>1 DEF CheckCapacity
        <5> QED
          BY <5>1, <2>a DEF Past, Idle
      <4> QED
        BY <4>1, Countable, LimitAssumption
    <3>5. ASSUME NEW t \in Thread, TryLock(t) \/ Unlock(t) \/ Clear(t)
          PROVE  Past' \subseteq Past
      BY <3>5, <2>a DEF TryLock, Unlock, Clear, Past, Idle
    <3>6. CASE UNCHANGED thread
      BY <3>2, <3>6 DEF Past
    <3>7. ASSUME NEW n \in Name, ForceRelease(n) PROVE UNCHANGED thread
      BY <3>7 DEF ForceRelease
    <3>8. CASE \/ CleanupWake \/ CleanupScan \/ Start \/ ShutdownBegin \/ ShutdownEnd \/ Tick
               \/ UNCHANGED vars
      BY <3>6, <3>8 DEF CleanupWake, CleanupScan, Start, ShutdownBegin, ShutdownEnd, Tick, vars
    <3> QED
      BY <2>2, <3>2, <3>3, <3>4, <3>5, <3>6, <3>7, <3>8 DEF Next
  <2> QED
    BY <2>1, <2>2
<1> QED
  BY <1>1, <1>2, LockTypeCorrect, PTL DEF Spec
=============================================================================
