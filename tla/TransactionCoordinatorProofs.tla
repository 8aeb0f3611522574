-------------------- MODULE TransactionCoordinatorProofs --------------------
(***************************************************************************)
(* Proofs of the safety properties of TransactionCoordinator, for any      *)
(* number of threads and transactional ids and for every bound.            *)
(***************************************************************************)
EXTENDS TransactionCoordinator, FiniteSetTheorems, TLAPS

(* What the operations do to an entry. *)

LEMMA EntryFields ==
    ASSUME NEW e \in TransactionalIdState
    PROVE  /\ e.producer_id \in Pid
           /\ e.producer_epoch \in Epoch
           /\ e.txn_state \in TxnState
           /\ e.timed_out \in BOOLEAN
           /\ e.expired \in BOOLEAN
           /\ e.object \in Nat
           /\ e.by \in SUBSET Epoch
BY DEF TransactionalIdState

LEMMA NewEntryFields ==
    ASSUME NEW pid \in Pid, NEW o \in Nat
    PROVE  /\ NewEntry(pid, o) \in TransactionalIdState
           /\ NewEntry(pid, o).producer_id = pid
           /\ NewEntry(pid, o).txn_state = "empty"
           /\ NewEntry(pid, o).by = {}
BY EpochAssumption DEF NewEntry, TransactionalIdState, Epoch, TxnState

LEMMA BumpedEpoch ==
    ASSUME NEW e \in Epoch
    PROVE  bumped(e) \in Epoch
BY EpochAssumption DEF bumped, Epoch

LEMMA ResetFields ==
    ASSUME NEW e \in TransactionalIdState
    PROVE  /\ reset_transaction(e) \in TransactionalIdState
           /\ reset_transaction(e).producer_id = e.producer_id
           /\ reset_transaction(e).producer_epoch = e.producer_epoch
           /\ reset_transaction(e).txn_state = "empty"
           /\ reset_transaction(e).by = {}
BY DEF reset_transaction, TransactionalIdState, TxnState

\* A producer that comes back finds no transaction, if one without a transaction has no work.
LEMMA ReinitializedFields ==
    ASSUME NEW e \in TransactionalIdState
    PROVE  /\ reinitialized(e) \in TransactionalIdState
           /\ reinitialized(e).producer_id = e.producer_id
           /\ reinitialized(e).txn_state = "empty"
           /\ (e.txn_state = "empty" => e.by = {}) => reinitialized(e).by = {}
<1> DEFINE r == IF e.txn_state = "empty" THEN e ELSE reset_transaction(e)
<1>1. /\ r \in TransactionalIdState
      /\ r.producer_id = e.producer_id
      /\ r.txn_state = "empty"
      /\ (e.txn_state = "empty" => e.by = {}) => r.by = {}
  BY ResetFields
<1>2. reinitialized(e) = [r EXCEPT !.producer_epoch = bumped(r.producer_epoch), !.expired = FALSE]
  BY DEF reinitialized
<1>3. bumped(r.producer_epoch) \in Epoch
  BY <1>1, EntryFields, BumpedEpoch
<1> HIDE DEF r
<1> QED BY <1>1, <1>2, <1>3 DEF TransactionalIdState

LEMMA AddedFields ==
    ASSUME NEW e \in TransactionalIdState, NEW c \in Epoch, NEW failed \in BOOLEAN
    PROVE  /\ added(e, c, failed) \in TransactionalIdState
           /\ added(e, c, failed).producer_id = e.producer_id
           /\ added(e, c, failed).producer_epoch = e.producer_epoch
           /\ added(e, c, failed).txn_state = "ongoing"
           /\ added(e, c, failed).by = e.by \cup {c}
BY EntryFields DEF added, TransactionalIdState, TxnState

\* An entry is exchanged for another of the same transactional id.
LEMMA Exchange ==
    ASSUME TypeOK, NEW i \in TxnId, NEW new \in TransactionalIdState,
           txn_states' = [txn_states EXCEPT ![i] = new]
    PROVE  /\ txn_states' \in [TxnId -> TransactionalIdState \cup {NoEntry}]
           /\ txn_states'[i] = new
           /\ \A j \in TxnId \ {i} : txn_states'[j] = txn_states[j]
           /\ Known' = Known \cup {i}
           /\ i \in Known => Known' = Known
           /\ Busy' = IF new.txn_state = "empty" THEN Busy \ {i} ELSE Busy \cup {i}
<1>1. /\ txn_states' \in [TxnId -> TransactionalIdState \cup {NoEntry}]
      /\ txn_states'[i] = new
      /\ \A j \in TxnId \ {i} : txn_states'[j] = txn_states[j]
  BY DEF TypeOK
<1>2. Known' = Known \cup {i}
  BY <1>1, EntryAssumption DEF Known
<1>3. Busy' = IF new.txn_state = "empty" THEN Busy \ {i} ELSE Busy \cup {i}
  BY <1>1, <1>2 DEF Busy, Known
<1> QED BY <1>1, <1>2, <1>3

LEMMA KnownTyped ==
    ASSUME TypeOK
    PROVE  \A i \in Known : i \in TxnId /\ txn_states[i] \in TransactionalIdState
BY DEF TypeOK, Known

LEMMA LockedKnown == Locked \subseteq Known
BY DEF Locked, Live, Points

\* An operation that goes on at its entry finds it in the map.
LEMMA EntryThere ==
    ASSUME TypeOK, NEW t \in Thread, NEW op, AtEntry(t, op)
    PROVE  thread[t] \in Call /\ thread[t].epoch \in Epoch /\ thread[t].id \in Known
<1>1. thread[t] \in Call
  BY DEF TypeOK, AtEntry, Idle
<1> QED BY <1>1 DEF AtEntry, Live, Points, Call
-----------------------------------------------------------------------------
(* Types, and what a call and the loops carry from one step to the next. *)

\* A call that is about to create an entry has allocated its producer id, the list of
\* timeout_loop() no longer has the id it is at, and expiry_loop() has a producer id to unmap.
Carried ==
    /\ \A t \in Thread : thread[t].at = "creating" => thread[t].pid \in Pid
    /\ timeouter.at \notin timeouter.todo
    /\ timeouter.at \in TxnId <=> timeouter.pc \in {"found", "marked"}
    /\ expirer.pc = "unmap" => expirer.pid \in Pid

IInv == TypeOK /\ Carried

LEMMA InitIInv == Init => IInv
<1> SUFFICES ASSUME Init PROVE IInv
  OBVIOUS
<1>1. TypeOK
  <2>1. /\ txn_states \in [TxnId -> TransactionalIdState \cup {NoEntry}]
        /\ pid_to_transactional_id \in [Pid -> TxnId \cup {None}]
        /\ next_pid \in 0 .. MaxPid + 1
        /\ thread \in [Thread -> Call \cup {Idle}]
    BY BoundAssumption DEF Init
  <2> QED BY <2>1 DEF Init, TypeOK, kInvalidProducerId
<1>2. Carried
  BY SetsAssumption DEF Init, Carried, Idle
<1> QED BY <1>1, <1>2 DEF IInv

LEMMA NextIInv == IInv /\ [Next]_vars => IInv'
<1> SUFFICES ASSUME IInv, [Next]_vars PROVE IInv'
  OBVIOUS
<1> USE DEF IInv
<1>t. TypeOK /\ Carried
  OBVIOUS
<1>k. \A i \in Known : i \in TxnId /\ txn_states[i] \in TransactionalIdState
  BY KnownTyped
<1>l. Locked \subseteq Known
  BY LockedKnown
<1>1. ASSUME NEW t \in Thread, InitOneShot(t) PROVE IInv'
  <2>1. TypeOK'
    BY <1>1, BoundAssumption DEF InitOneShot, Begin, allocate, TypeOK, maps, loops, counters
  <2>2. Carried'
    BY <1>1 DEF InitOneShot, Carried, Known, maps, loops
  <2> QED BY <2>1, <2>2
<1>2. ASSUME NEW t \in Thread, InitExisting(t) PROVE IInv'
  <2>1. PICK i \in Known \ Locked : txn_states' = [txn_states EXCEPT ![i] = reinitialized(txn_states[i])]
    BY <1>2 DEF InitExisting
  <2>2. txn_states' \in [TxnId -> TransactionalIdState \cup {NoEntry}] /\ Known' = Known
    <3>1. i \in TxnId /\ reinitialized(txn_states[i]) \in TransactionalIdState
      BY <1>k, ReinitializedFields
    <3> QED BY <1>t, <2>1, <3>1, Exchange
  <2>3. TypeOK'
    BY <1>2, <2>2 DEF InitExisting, Begin, TypeOK, loops
  <2>4. Carried'
    BY <1>2, <2>2 DEF InitExisting, Carried, loops
  <2> QED BY <2>3, <2>4
<1>3. ASSUME NEW t \in Thread, InitWaits(t) PROVE IInv'
  <2>1. PICK i \in Locked :
          /\ thread' = [thread EXCEPT ![t] = [[Idle EXCEPT !.op = "init", !.id = i] EXCEPT !.at = "stuck"]]
          /\ states_held' = "shared"
    BY <1>3 DEF InitWaits, Stuck
  <2> DEFINE c == [[Idle EXCEPT !.op = "init", !.id = i] EXCEPT !.at = "stuck"]
  <2>c. c \in Call /\ c.at = "stuck"
    <3>1. i \in TxnId /\ 0 \in Epoch
      BY <1>k, <1>l, EpochAssumption DEF Epoch
    <3> QED BY <3>1 DEF Idle, Call
  <2> HIDE DEF c
  <2>d. thread' = [thread EXCEPT ![t] = c]
    BY <2>1 DEF c
  <2>2. TypeOK'
    BY <1>3, <2>1, <2>c, <2>d DEF InitWaits, Begin, TypeOK, maps, loops
  <2>3. Carried'
    BY <1>3, <2>c, <2>d DEF InitWaits, Carried, TypeOK, maps, loops
  <2> QED BY <2>2, <2>3
<1>4. ASSUME NEW t \in Thread, InitAllocate(t) PROVE IInv'
  <2>1. PICK i \in TxnId \ Known :
          thread' = [thread EXCEPT ![t] = [Idle EXCEPT !.at = "creating", !.op = "init", !.id = i,
                                                       !.pid = next_pid]]
    BY <1>4 DEF InitAllocate
  <2>2. next_pid \in Pid /\ next_pid' = next_pid + 1
    BY <1>4, BoundAssumption DEF InitAllocate, allocate, TypeOK, Pid
  <2> DEFINE c == [Idle EXCEPT !.at = "creating", !.op = "init", !.id = i, !.pid = next_pid]
  <2>c. c \in Call /\ c.pid \in Pid
    <3>1. 0 \in Epoch
      BY EpochAssumption DEF Epoch
    <3> QED BY <2>2, <3>1 DEF Idle, Call
  <2> HIDE DEF c
  <2>d. thread' = [thread EXCEPT ![t] = c]
    BY <2>1 DEF c
  <2>3. TypeOK'
    <3>1. thread' \in [Thread -> Call \cup {Idle}]
      BY <2>c, <2>d DEF TypeOK
    <3>2. next_pid' \in 0 .. MaxPid + 1
      BY <2>2, BoundAssumption DEF Pid
    <3> QED BY <1>4, <3>1, <3>2 DEF InitAllocate, Begin, TypeOK, maps, loops
  <2>4. Carried'
    BY <1>4, <2>c, <2>d DEF InitAllocate, Carried, TypeOK, maps, loops
  <2> QED BY <2>3, <2>4
<1>5. ASSUME NEW t \in Thread, InitCreate(t) PROVE IInv'
  <2> DEFINE i == thread[t].id
             pid == thread[t].pid
  <2>1. i \in TxnId /\ pid \in Pid
    BY <1>5 DEF InitCreate, TypeOK, Call, Idle, Carried
  <2>2. used.made + 1 \in Nat
    BY DEF TypeOK
  <2>3. txn_states' \in [TxnId -> TransactionalIdState \cup {NoEntry}]
    <3>1. NewEntry(pid, used.made + 1) \in TransactionalIdState
      BY <2>1, <2>2, NewEntryFields
    <3> QED BY <1>5, <1>t, <2>1, <3>1, Exchange DEF InitCreate
  <2>4. TypeOK'
    <3>1. pid_to_transactional_id' \in [Pid -> TxnId \cup {None}]
      BY <1>5, <2>1 DEF InitCreate, TypeOK
    <3>2. used' \in [calls : Nat, starts : Nat, made : Nat]
      BY <1>5 DEF InitCreate, TypeOK
    <3> QED BY <1>5, <2>3, <3>1, <3>2 DEF InitCreate, Return, TypeOK, loops
  <2>5. Carried'
    BY <1>5 DEF InitCreate, Return, Carried, TypeOK, Idle, loops
  <2> QED BY <2>4, <2>5
<1>6. ASSUME NEW t \in Thread, Resolve(t) PROVE IInv'
  <2>1. PICK p \in Pid, e \in Epoch, op \in {"add", "offsets", "end"} :
          /\ pid_to_transactional_id[p] # None
          /\ thread' = [thread EXCEPT ![t] = [Idle EXCEPT !.at = "resolved", !.op = op,
                                              !.id = pid_to_transactional_id[p],
                                              !.epoch = e]]
    BY <1>6 DEF Resolve
  <2> DEFINE c == [Idle EXCEPT !.at = "resolved", !.op = op, !.id = pid_to_transactional_id[p],
                               !.epoch = e]
  <2>2. c \in Call /\ c.at = "resolved"
    BY <2>1 DEF Idle, Call, TypeOK
  <2> HIDE DEF c
  <2>d. thread' = [thread EXCEPT ![t] = c]
    BY <2>1 DEF c
  <2>3. TypeOK'
    BY <1>6, <2>2, <2>d DEF Resolve, Begin, TypeOK, maps, loops
  <2>4. Carried'
    BY <1>6, <2>2, <2>d DEF Resolve, Carried, TypeOK, maps, loops
  <2> QED BY <2>3, <2>4
<1>7. ASSUME NEW t \in Thread, Find(t) PROVE IInv'
  <2>1. thread[t] \in Call
    BY <1>7 DEF Find, TypeOK, Idle
  <2>2. CASE /\ thread[t].id \in Known
             /\ thread' = [thread EXCEPT ![t].at = "found", ![t].object = txn_states[thread[t].id].object]
    <3>0. txn_states[thread[t].id].object \in Nat
      BY <2>2, <1>k, EntryFields
    <3>1. TypeOK'
      <4>1. thread' \in [Thread -> Call \cup {Idle}]
        BY <2>1, <2>2, <3>0 DEF TypeOK, Call
      <4> QED BY <1>7, <4>1 DEF Find, TypeOK, maps, loops, counters
    <3>2. Carried'
      BY <1>7, <2>1, <2>2 DEF Find, Carried, TypeOK, Call, Known, maps, loops
    <3> QED BY <3>1, <3>2
  <2>3. CASE Return(t)
    <3>1. TypeOK'
      BY <1>7, <2>3 DEF Find, Return, TypeOK, maps, loops, counters
    <3>2. Carried'
      BY <1>7, <2>3 DEF Find, Return, Carried, TypeOK, Idle, Known, maps, loops
    <3> QED BY <3>1, <3>2
  <2> QED BY <1>7, <2>2, <2>3 DEF Find
<1>8. ASSUME NEW t \in Thread, NEW op, Refused(t, op) PROVE IInv'
  <2>1. TypeOK'
    BY <1>8 DEF Refused, Return, TypeOK, maps, loops, counters
  <2>2. Carried'
    BY <1>8 DEF Refused, Return, Carried, TypeOK, Idle, Known, maps, loops
  <2> QED BY <2>1, <2>2
<1>9. ASSUME NEW t \in Thread, AddPartitionsToTxn(t) PROVE IInv'
  <2> DEFINE i == thread[t].id
  <2>1. i \in Known /\ thread[t].epoch \in Epoch
    BY <1>9, EntryThere DEF AddPartitionsToTxn
  <2>2. PICK failed \in BOOLEAN :
          txn_states' = [txn_states EXCEPT ![i] = added(txn_states[i], thread[t].epoch, failed)]
    BY <1>9 DEF AddPartitionsToTxn
  <2>3. txn_states' \in [TxnId -> TransactionalIdState \cup {NoEntry}] /\ Known' = Known
    <3>1. i \in TxnId /\ added(txn_states[i], thread[t].epoch, failed) \in TransactionalIdState
      BY <2>1, <1>k, AddedFields
    <3> QED BY <1>t, <2>1, <2>2, <3>1, Exchange
  <2>4. active_transactions' \in Nat
    BY <1>9 DEF AddPartitionsToTxn, TypeOK
  <2>5. TypeOK'
    BY <1>9, <2>3, <2>4 DEF AddPartitionsToTxn, Return, TypeOK, loops
  <2>6. Carried'
    BY <1>9, <2>3 DEF AddPartitionsToTxn, Return, Carried, TypeOK, Idle, loops
  <2> QED BY <2>5, <2>6
<1>10. ASSUME NEW t \in Thread, AddOffsetsToTxn(t) PROVE IInv'
  <2> DEFINE i == thread[t].id
             new == [txn_states[i] EXCEPT !.expired = FALSE, !.by = @ \cup {thread[t].epoch}]
  <2>1. i \in Known /\ thread[t].epoch \in Epoch
    BY <1>10, EntryThere DEF AddOffsetsToTxn
  <2>2. new \in TransactionalIdState
    BY <2>1, <1>k DEF TransactionalIdState
  <2>3. txn_states' = [txn_states EXCEPT ![i] = new]
    BY <1>10 DEF AddOffsetsToTxn
  <2>4. txn_states' \in [TxnId -> TransactionalIdState \cup {NoEntry}] /\ Known' = Known
    <3> HIDE DEF new
    <3> QED BY <1>t, <1>k, <2>1, <2>2, <2>3, Exchange
  <2>5. TypeOK'
    <3>1. /\ thread' = [thread EXCEPT ![t] = Idle]
          /\ UNCHANGED <<pid_to_transactional_id, next_pid, loops, states_held, counters, freed_use>>
      BY <1>10 DEF AddOffsetsToTxn, Return
    <3> QED BY <2>4, <3>1 DEF TypeOK, loops, counters
  <2>6. Carried'
    BY <1>10, <2>4 DEF AddOffsetsToTxn, Return, Carried, TypeOK, Idle, loops
  <2> QED BY <2>5, <2>6
<1>11. ASSUME NEW t \in Thread, EndTxn(t) PROVE IInv'
  <2> DEFINE i == thread[t].id
  <2>1. i \in Known /\ thread[t].epoch \in Epoch
    BY <1>11, EntryThere DEF EndTxn
  <2>2. PICK p \in Prepared :
          txn_states' = [txn_states EXCEPT ![i].txn_state = p, ![i].by = @ \cup {thread[t].epoch}]
    BY <1>11 DEF EndTxn
  <2> DEFINE new == [txn_states[i] EXCEPT !.txn_state = p, !.by = @ \cup {thread[t].epoch}]
  <2>3. new \in TransactionalIdState
    BY <2>1, <1>k DEF TransactionalIdState, TxnState
  <2>4. txn_states' = [txn_states EXCEPT ![i] = new]
    BY <2>2
  <2>5. txn_states' \in [TxnId -> TransactionalIdState \cup {NoEntry}] /\ Known' = Known
    <3> HIDE DEF new
    <3> QED BY <1>t, <1>k, <2>1, <2>3, <2>4, Exchange
  <2>6. thread[t] \in Call
    BY <1>11 DEF EndTxn, AtEntry, TypeOK, Idle
  <2>7. thread' \in [Thread -> Call \cup {Idle}]
    BY <1>11, <2>6 DEF EndTxn, TypeOK, Call
  <2>8. TypeOK'
    BY <1>11, <2>5, <2>7 DEF EndTxn, TypeOK, loops, counters
  <2>9. Carried'
    BY <1>11, <2>5, <2>6 DEF EndTxn, Carried, TypeOK, Call, loops
  <2> QED BY <2>8, <2>9
<1>12. ASSUME NEW t \in Thread, EndTxnMarkers(t) PROVE IInv'
  <2>1. thread[t] \in Call
    BY <1>12 DEF EndTxnMarkers, TypeOK, Idle
  <2>2. thread' \in [Thread -> Call \cup {Idle}]
    BY <1>12, <2>1 DEF EndTxnMarkers, TypeOK, Call
  <2>3. TypeOK'
    BY <1>12, <2>2 DEF EndTxnMarkers, TypeOK, maps, loops, counters
  <2>4. Carried'
    BY <1>12, <2>1 DEF EndTxnMarkers, Carried, TypeOK, Call, Known, maps, loops
  <2> QED BY <2>3, <2>4
<1>13. ASSUME NEW t \in Thread, EndTxnFreed(t) PROVE IInv'
  <2>1. TypeOK'
    BY <1>13 DEF EndTxnFreed, Return, Less1, TypeOK, maps, loops, counters
  <2>2. Carried'
    BY <1>13 DEF EndTxnFreed, Return, Carried, TypeOK, Idle, Known, maps, loops
  <2> QED BY <2>1, <2>2
<1>14. ASSUME NEW t \in Thread, Dangling(t) PROVE IInv'
  <2>1. TypeOK'
    BY <1>14 DEF Dangling, Return, Less1, TypeOK, maps, loops, counters
  <2>2. Carried'
    BY <1>14 DEF Dangling, Return, Carried, TypeOK, Idle, Known, maps, loops
  <2> QED BY <2>1, <2>2
<1>15. ASSUME TimeoutAwake PROVE IInv'
  <2>1. TypeOK'
    BY <1>15 DEF TimeoutAwake, TypeOK, maps, counters
  <2>2. Carried'
    BY <1>15 DEF TimeoutAwake, Carried, TypeOK, Known, maps
  <2> QED BY <2>1, <2>2
<1>16. ASSUME TimeoutScan PROVE IInv'
  <2>1. timed_out_ids \in SUBSET TxnId
    BY DEF timed_out_ids, Busy, Known
  <2>2. TypeOK'
    <3>1. timeouter' \in [pc : {"off", "awake", "scan", "abort", "found", "marked", "count",
                                "stuck"},
                          todo : SUBSET TxnId, at : TxnId \cup {None}, object : Nat]
      BY <1>16, <2>1 DEF TimeoutScan, TypeOK
    <3> QED BY <1>16, <3>1 DEF TimeoutScan, TypeOK, maps, counters
  <2>3. Carried'
    <3>1. /\ timeouter'.at = timeouter.at
          /\ timeouter'.pc \in {"abort", "stuck"}
      BY <1>16 DEF TimeoutScan, TypeOK
    <3>2. timeouter'.at \notin timeouter'.todo
      <4>1. timeouter.at \notin TxnId
        BY <1>16 DEF TimeoutScan, Carried
      <4>2. timeouter'.todo \subseteq TxnId
        BY <2>2 DEF TypeOK
      <4> QED BY <3>1, <4>1, <4>2
    <3> QED BY <1>16, <3>1, <3>2 DEF TimeoutScan, Carried, Known, maps
  <2> QED BY <2>2, <2>3
<1>17. ASSUME TimeoutDone PROVE IInv'
  <2>1. TypeOK'
    BY <1>17 DEF TimeoutDone, TypeOK, maps, counters
  <2>2. Carried'
    BY <1>17 DEF TimeoutDone, Carried, TypeOK, Known, maps
  <2> QED BY <2>1, <2>2
<1>18. ASSUME TimeoutFind PROVE IInv'
  <2>1. TypeOK'
    <3>1. \A i \in Known : txn_states[i].object \in Nat
      BY <1>k, EntryFields
    <3> QED BY <1>18, <3>1 DEF TimeoutFind, TypeOK, maps, counters
  <2>2. Carried'
    BY <1>18 DEF TimeoutFind, Carried, TypeOK, Known, maps
  <2> QED BY <2>1, <2>2
<1>19. ASSUME TimeoutMarkers PROVE IInv'
  <2>1. TypeOK'
    BY <1>19 DEF TimeoutMarkers, TypeOK, maps, counters
  <2>2. Carried'
    BY <1>19 DEF TimeoutMarkers, Carried, TypeOK, Known, maps
  <2> QED BY <2>1, <2>2
<1>20. ASSUME TimeoutReset PROVE IInv'
  <2>1. txn_states' \in [TxnId -> TransactionalIdState \cup {NoEntry}] /\ Known' = Known
    <3>1. CASE /\ Points(timeouter.at, timeouter.object)
               /\ txn_states' = [txn_states EXCEPT ![timeouter.at] = reset_transaction(txn_states[timeouter.at])]
      <4>1. timeouter.at \in Known
        BY <3>1 DEF Points
      <4>2. reset_transaction(txn_states[timeouter.at]) \in TransactionalIdState
        BY <4>1, <1>k, ResetFields
      <4> QED BY <1>t, <1>k, <3>1, <4>1, <4>2, Exchange
    <3>2. CASE UNCHANGED txn_states
      BY <3>2 DEF TypeOK, Known
    <3> QED BY <1>20, <3>1, <3>2 DEF TimeoutReset
  <2>2. /\ timeouter' = [pc |-> "count", todo |-> timeouter.todo, at |-> None, object |-> 0]
        /\ timeouter.todo \in SUBSET TxnId
        /\ freed_use' \in BOOLEAN
    BY <1>20 DEF TimeoutReset, TypeOK
  <2>3. TypeOK'
    BY <1>20, <2>1, <2>2 DEF TimeoutReset, TypeOK, counters
  <2>4. Carried'
    BY <1>20, <2>1, <2>2, SetsAssumption DEF TimeoutReset, Carried
  <2> QED BY <2>3, <2>4
<1>21. ASSUME TimeoutCount PROVE IInv'
  <2>1. TypeOK'
    BY <1>21 DEF TimeoutCount, Less1, TypeOK, maps, counters
  <2>2. Carried'
    BY <1>21 DEF TimeoutCount, Carried, TypeOK, Known, maps
  <2> QED BY <2>1, <2>2
<1>22. ASSUME ExpiryAwake PROVE IInv'
  <2>1. TypeOK'
    BY <1>22 DEF ExpiryAwake, TypeOK, maps, counters
  <2>2. Carried'
    BY <1>22 DEF ExpiryAwake, Carried, TypeOK, Known, maps
  <2> QED BY <2>1, <2>2
<1>23. ASSUME ExpiryScan PROVE IInv'
  <2>1. {i \in Known \ Busy : txn_states[i].expired} \in SUBSET TxnId
    BY DEF Known
  <2>2. TypeOK'
    <3>1. expirer' \in [pc : {"off", "awake", "scan", "expire", "unmap", "stuck"},
                        todo : SUBSET TxnId, pid : Pid \cup {kInvalidProducerId}]
      BY <1>23, <2>1 DEF ExpiryScan, TypeOK
    <3> QED BY <1>23, <3>1 DEF ExpiryScan, TypeOK, maps, counters
  <2>3. Carried'
    BY <1>23 DEF ExpiryScan, Carried, TypeOK, Known, maps
  <2> QED BY <2>2, <2>3
<1>24. ASSUME ExpiryErase PROVE IInv'
  <2>1. PICK i \in expirer.todo \cap Known :
          /\ txn_states' = [txn_states EXCEPT ![i] = NoEntry]
          /\ expirer' = [pc |-> "unmap", todo |-> expirer.todo \ {i},
                         pid |-> txn_states[i].producer_id]
    BY <1>24 DEF ExpiryErase
  <2>2. i \in TxnId /\ txn_states[i].producer_id \in Pid
    BY <2>1, <1>k, EntryFields
  <2>3. txn_states' \in [TxnId -> TransactionalIdState \cup {NoEntry}]
    BY <2>1, <2>2 DEF TypeOK
  <2>4. TypeOK'
    BY <1>24, <2>1, <2>2, <2>3 DEF ExpiryErase, TypeOK, counters
  <2>5. Carried'
    BY <1>24, <2>1, <2>2 DEF ExpiryErase, Carried
  <2> QED BY <2>4, <2>5
<1>25. ASSUME ExpiryUnmap PROVE IInv'
  <2>1. TypeOK'
    <3>1. expirer.pid \in Pid
      BY <1>25 DEF ExpiryUnmap, Carried
    <3>2. pid_to_transactional_id' \in [Pid -> TxnId \cup {None}]
      BY <1>25, <3>1 DEF ExpiryUnmap, TypeOK
    <3>3. expirer' \in [pc : {"off", "awake", "scan", "expire", "unmap", "stuck"},
                        todo : SUBSET TxnId, pid : Pid \cup {kInvalidProducerId}]
      BY <1>25 DEF ExpiryUnmap, TypeOK
    <3> QED BY <1>25, <3>2, <3>3 DEF ExpiryUnmap, TypeOK, counters
  <2>2. Carried'
    BY <1>25 DEF ExpiryUnmap, Carried, TypeOK, Known, maps
  <2> QED BY <2>1, <2>2
<1>26. ASSUME ExpiryDone PROVE IInv'
  <2>1. TypeOK'
    BY <1>26 DEF ExpiryDone, TypeOK, maps, counters
  <2>2. Carried'
    BY <1>26 DEF ExpiryDone, Carried, TypeOK, Known, maps
  <2> QED BY <2>1, <2>2
<1>27. ASSUME Start PROVE IInv'
  <2>1. TypeOK'
    <3>1. /\ timeouter' \in [pc : {"off", "awake", "scan", "abort", "found", "marked", "count",
                                   "stuck"},
                             todo : SUBSET TxnId, at : TxnId \cup {None}, object : Nat]
          /\ expirer' \in [pc : {"off", "awake", "scan", "expire", "unmap", "stuck"},
                           todo : SUBSET TxnId, pid : Pid \cup {kInvalidProducerId}]
          /\ control' \in [running : BOOLEAN, timeout_running : BOOLEAN, expiry_running : BOOLEAN,
                           stopping : {"no", "timeout", "expiry", "stuck"}]
      BY <1>27 DEF Start
    <3>2. next_pid' \in 0 .. MaxPid + 1 /\ used' \in [calls : Nat, starts : Nat, made : Nat]
      BY <1>27, BoundAssumption DEF Start, TypeOK
    <3> QED BY <1>27, <3>1, <3>2 DEF Start, TypeOK, maps
  <2>2. Carried'
    <3>1. /\ timeouter'.at = None /\ timeouter'.todo = {}
          /\ timeouter'.pc = "awake" /\ expirer'.pc = "awake"
      BY <1>27 DEF Start
    <3> QED BY <1>27, <3>1, SetsAssumption DEF Start, Carried, Known, maps
  <2> QED BY <2>1, <2>2
<1>28. ASSUME Shutdown PROVE IInv'
  <2>1. TypeOK'
    <3>1. control' \in [running : BOOLEAN, timeout_running : BOOLEAN, expiry_running : BOOLEAN,
                        stopping : {"no", "timeout", "expiry", "stuck"}]
      BY <1>28 DEF Shutdown, TypeOK
    <3> QED BY <1>28, <3>1 DEF Shutdown, TypeOK, maps, counters
  <2>2. Carried'
    BY <1>28 DEF Shutdown, Carried, TypeOK, Known, maps
  <2> QED BY <2>1, <2>2
<1>29. ASSUME ShutdownJoined PROVE IInv'
  <2>1. TypeOK'
    BY <1>29 DEF ShutdownJoined, TypeOK, maps, counters
  <2>2. Carried'
    BY <1>29 DEF ShutdownJoined, Carried, TypeOK, Known, maps
  <2> QED BY <2>1, <2>2
<1>30. ASSUME ShutdownAbort PROVE IInv'
  <2>1. PICK aborted \in SUBSET (Busy \ Locked) :
          txn_states' = [i \in TxnId |-> IF i \in aborted THEN reset_transaction(txn_states[i])
                                        ELSE txn_states[i]]
    BY <1>30 DEF ShutdownAbort
  <2>2. \A i \in aborted : i \in Known /\ reset_transaction(txn_states[i]) \in TransactionalIdState
    BY <1>k, ResetFields DEF Busy
  <2>3. txn_states' \in [TxnId -> TransactionalIdState \cup {NoEntry}]
    BY <2>1, <2>2 DEF TypeOK
  <2>4. Known' = Known
    BY <2>1, <2>2, EntryAssumption DEF Known
  <2>5. TypeOK'
    BY <1>30, <2>3 DEF ShutdownAbort, TypeOK, counters
  <2>6. Carried'
    BY <1>30, <2>4 DEF ShutdownAbort, Carried
  <2> QED BY <2>5, <2>6
<1>31. ASSUME NEW i \in Known, TxnTimesOut(i) PROVE IInv'
  <2> DEFINE new == [txn_states[i] EXCEPT !.timed_out = TRUE]
  <2>1. new \in TransactionalIdState /\ txn_states' = [txn_states EXCEPT ![i] = new]
    BY <1>k, <1>31 DEF TransactionalIdState, TxnTimesOut
  <2>2. txn_states' \in [TxnId -> TransactionalIdState \cup {NoEntry}] /\ Known' = Known
    <3> HIDE DEF new
    <3> QED BY <1>t, <1>k, <2>1, Exchange
  <2>3. TypeOK'
    BY <1>31, <2>2 DEF TxnTimesOut, TypeOK, loops, counters
  <2>4. Carried'
    BY <1>31, <2>2 DEF TxnTimesOut, Carried, loops
  <2> QED BY <2>3, <2>4
<1>32. ASSUME NEW i \in Known, IdExpires(i) PROVE IInv'
  <2> DEFINE new == [txn_states[i] EXCEPT !.expired = TRUE]
  <2>1. new \in TransactionalIdState /\ txn_states' = [txn_states EXCEPT ![i] = new]
    BY <1>k, <1>32 DEF TransactionalIdState, IdExpires
  <2>2. txn_states' \in [TxnId -> TransactionalIdState \cup {NoEntry}] /\ Known' = Known
    <3> HIDE DEF new
    <3> QED BY <1>t, <1>k, <2>1, Exchange
  <2>3. TypeOK'
    BY <1>32, <2>2 DEF IdExpires, TypeOK, loops, counters
  <2>4. Carried'
    BY <1>32, <2>2 DEF IdExpires, Carried, loops
  <2> QED BY <2>3, <2>4
<1>33. CASE UNCHANGED vars
  BY <1>33 DEF vars, TypeOK, Carried, Known
<1> QED
  BY <1>1, <1>2, <1>3, <1>4, <1>5, <1>6, <1>7, <1>8, <1>9, <1>10, <1>11, <1>12, <1>13, <1>14,
     <1>15, <1>16, <1>17, <1>18, <1>19, <1>20, <1>21, <1>22, <1>23, <1>24, <1>25, <1>26, <1>27,
     <1>28, <1>29, <1>30, <1>31, <1>32, <1>33
  DEF Next, Proceed, TimeoutLoop, ExpiryLoop

\* Every field keeps its type through every interleaving of the calls, the two loops and
\* shutdown(); the epoch stays within producer_epoch_t.
THEOREM TypeCorrect == Spec => []TypeOK
<1>1. Spec => []IInv
  BY InitIInv, NextIInv, PTL DEF Spec
<1> QED BY <1>1, PTL DEF IInv

-----------------------------------------------------------------------------
(* One epoch per transaction. *)

\* The part of OneEpochPerTransaction about one entry.
Clean(e) == e.by = IF e.txn_state = "empty" THEN {} ELSE {e.producer_epoch}

LEMMA CleanEntries ==
    ASSUME TypeOK
    PROVE  OneEpochPerTransaction <=> \A i \in Known : Clean(txn_states[i])
BY DEF OneEpochPerTransaction, Clean, Busy

\* Every step leaves an entry as it is, or exchanges it for a clean one.
LEMMA EntryStep ==
    ASSUME IInv, OneEpochPerTransaction, [Next]_vars
    PROVE  \A j \in TxnId : \/ txn_states'[j] \in {NoEntry, txn_states[j]}
                            \/ Clean(txn_states'[j])
<1> USE DEF IInv
<1>t. TypeOK /\ Carried
  OBVIOUS
<1>k. \A i \in Known : /\ i \in TxnId
                       /\ txn_states[i] \in TransactionalIdState
                       /\ Clean(txn_states[i])
  BY KnownTyped, CleanEntries
<1> DEFINE P == \A j \in TxnId : \/ txn_states'[j] \in {NoEntry, txn_states[j]}
                                 \/ Clean(txn_states'[j])
<1>e. ASSUME NEW i \in TxnId, NEW new \in TransactionalIdState, Clean(new),
             txn_states' = [txn_states EXCEPT ![i] = new]
      PROVE  P
  BY <1>e, <1>t, Exchange
<1> SUFFICES P
  OBVIOUS
<1> HIDE DEF P
<1>1. ASSUME NEW t \in Thread, InitExisting(t) PROVE P
  <2>1. PICK i \in Known \ Locked : txn_states' = [txn_states EXCEPT ![i] = reinitialized(txn_states[i])]
    BY <1>1 DEF InitExisting
  <2>2. /\ reinitialized(txn_states[i]) \in TransactionalIdState
        /\ Clean(reinitialized(txn_states[i]))
    <3>1. txn_states[i].txn_state = "empty" => txn_states[i].by = {}
      BY <1>k DEF Clean
    <3>2. /\ reinitialized(txn_states[i]) \in TransactionalIdState
          /\ reinitialized(txn_states[i]).txn_state = "empty"
          /\ reinitialized(txn_states[i]).by = {}
      BY <3>1, <1>k, ReinitializedFields
    <3> QED BY <3>2 DEF Clean
  <2> QED BY <2>1, <2>2, <1>k, <1>e
<1>2. ASSUME NEW t \in Thread, InitCreate(t) PROVE P
  <2> DEFINE new == NewEntry(thread[t].pid, used.made + 1)
  <2>1. thread[t].id \in TxnId /\ thread[t].pid \in Pid /\ used.made + 1 \in Nat
    BY <1>2 DEF InitCreate, TypeOK, Call, Idle, Carried
  <2>2. new \in TransactionalIdState /\ Clean(new)
    BY <2>1, NewEntryFields DEF Clean
  <2>3. txn_states' = [txn_states EXCEPT ![thread[t].id] = new]
    BY <1>2 DEF InitCreate
  <2> HIDE DEF new
  <2> QED BY <2>1, <2>2, <2>3, <1>e
<1>3. ASSUME NEW t \in Thread, AddPartitionsToTxn(t) PROVE P
  <2> DEFINE e == txn_states[thread[t].id]
  <2>1. thread[t].id \in Known /\ thread[t].epoch \in Epoch
    BY <1>3, EntryThere DEF AddPartitionsToTxn
  <2>2. PICK failed \in BOOLEAN :
          txn_states' = [txn_states EXCEPT ![thread[t].id] = added(e, thread[t].epoch, failed)]
    BY <1>3 DEF AddPartitionsToTxn
  <2>3. e \in TransactionalIdState /\ Clean(e)
    BY <2>1, <1>k
  <2>4. thread[t].epoch = e.producer_epoch
    BY <1>3 DEF AddPartitionsToTxn, Fenced
  <2>5. added(e, thread[t].epoch, failed) \in TransactionalIdState
    BY <2>1, <2>3, AddedFields
  <2>6. Clean(added(e, thread[t].epoch, failed))
    <3>1. /\ added(e, thread[t].epoch, failed).by = e.by \cup {thread[t].epoch}
          /\ added(e, thread[t].epoch, failed).txn_state = "ongoing"
          /\ added(e, thread[t].epoch, failed).producer_epoch = e.producer_epoch
      BY <2>1, <2>3, AddedFields
    <3> QED BY <3>1, <2>3, <2>4 DEF Clean
  <2> QED BY <2>1, <2>2, <2>5, <2>6, <1>k, <1>e
<1>4. ASSUME NEW t \in Thread, AddOffsetsToTxn(t) PROVE P
  <2> DEFINE e == txn_states[thread[t].id]
             new == [e EXCEPT !.expired = FALSE, !.by = @ \cup {thread[t].epoch}]
  <2>1. thread[t].id \in Known /\ thread[t].epoch \in Epoch
    BY <1>4, EntryThere DEF AddOffsetsToTxn
  <2>c. e \in TransactionalIdState /\ Clean(e) /\ e.txn_state = "ongoing"
        /\ thread[t].epoch = e.producer_epoch
    BY <2>1, <1>k, <1>4 DEF AddOffsetsToTxn, Fenced
  <2>2. new \in TransactionalIdState /\ Clean(new)
    <3>1. /\ new \in TransactionalIdState
          /\ new.by = e.by \cup {thread[t].epoch}
          /\ new.txn_state = "ongoing"
          /\ new.producer_epoch = e.producer_epoch
      BY <2>1, <2>c DEF TransactionalIdState
    <3> HIDE DEF new
    <3> QED BY <3>1, <2>c DEF Clean
  <2>3. txn_states' = [txn_states EXCEPT ![thread[t].id] = new]
    BY <1>4 DEF AddOffsetsToTxn
  <2> HIDE DEF new
  <2> QED BY <2>1, <2>2, <2>3, <1>k, <1>e
<1>5. ASSUME NEW t \in Thread, EndTxn(t) PROVE P
  <2> DEFINE e == txn_states[thread[t].id]
  <2>1. thread[t].id \in Known /\ thread[t].epoch \in Epoch
    BY <1>5, EntryThere DEF EndTxn
  <2>c. e \in TransactionalIdState /\ Clean(e) /\ e.txn_state = "ongoing"
        /\ thread[t].epoch = e.producer_epoch
    BY <2>1, <1>k, <1>5 DEF EndTxn, Fenced
  <2>2. PICK p \in Prepared :
          txn_states' = [txn_states EXCEPT ![thread[t].id].txn_state = p,
                                           ![thread[t].id].by = @ \cup {thread[t].epoch}]
    BY <1>5 DEF EndTxn
  <2> DEFINE new == [e EXCEPT !.txn_state = p, !.by = @ \cup {thread[t].epoch}]
  <2>3. new \in TransactionalIdState /\ Clean(new)
    <3>1. /\ new \in TransactionalIdState
          /\ new.by = e.by \cup {thread[t].epoch}
          /\ new.txn_state # "empty"
          /\ new.producer_epoch = e.producer_epoch
      BY <2>1, <2>c DEF TransactionalIdState, TxnState, Prepared
    <3> HIDE DEF new
    <3> QED BY <3>1, <2>c DEF Clean
  <2>4. txn_states' = [txn_states EXCEPT ![thread[t].id] = new]
    BY <2>2
  <2> HIDE DEF new
  <2> QED BY <2>1, <2>3, <2>4, <1>k, <1>e
<1>6. ASSUME TimeoutReset PROVE P
  <2>1. CASE UNCHANGED txn_states
    BY <2>1 DEF P
  <2>2. CASE /\ Points(timeouter.at, timeouter.object)
             /\ txn_states' = [txn_states EXCEPT ![timeouter.at] = reset_transaction(txn_states[timeouter.at])]
    <3>1. timeouter.at \in Known
      BY <2>2 DEF Points
    <3>2. /\ reset_transaction(txn_states[timeouter.at]) \in TransactionalIdState
          /\ Clean(reset_transaction(txn_states[timeouter.at]))
      BY <3>1, <1>k, ResetFields DEF Clean
    <3> QED BY <2>2, <3>1, <3>2, <1>k, <1>e
  <2> QED BY <1>6, <2>1, <2>2 DEF TimeoutReset
<1>7. ASSUME ExpiryErase PROVE P
  BY <1>7 DEF ExpiryErase, P, TypeOK
<1>8. ASSUME ShutdownAbort PROVE P
  <2>1. PICK aborted \in SUBSET (Busy \ Locked) :
          txn_states' = [i \in TxnId |-> IF i \in aborted THEN reset_transaction(txn_states[i])
                                        ELSE txn_states[i]]
    BY <1>8 DEF ShutdownAbort
  <2>2. \A i \in aborted : Clean(reset_transaction(txn_states[i]))
    BY <1>k, ResetFields DEF Busy, Clean
  <2> QED BY <2>1, <2>2 DEF P
<1>9. ASSUME NEW i \in Known, TxnTimesOut(i) PROVE P
  <2> DEFINE new == [txn_states[i] EXCEPT !.timed_out = TRUE]
  <2>1. new \in TransactionalIdState /\ Clean(new)
    BY <1>k DEF TransactionalIdState, Clean
  <2>2. txn_states' = [txn_states EXCEPT ![i] = new]
    BY <1>9 DEF TxnTimesOut
  <2> HIDE DEF new
  <2> QED BY <2>1, <2>2, <1>k, <1>e
<1>10. ASSUME NEW i \in Known, IdExpires(i) PROVE P
  <2> DEFINE new == [txn_states[i] EXCEPT !.expired = TRUE]
  <2>1. new \in TransactionalIdState /\ Clean(new)
    BY <1>k DEF TransactionalIdState, Clean
  <2>2. txn_states' = [txn_states EXCEPT ![i] = new]
    BY <1>10 DEF IdExpires
  <2> HIDE DEF new
  <2> QED BY <2>1, <2>2, <1>k, <1>e
<1>11. CASE UNCHANGED txn_states
  BY <1>11 DEF P
<1>12. CASE \E t \in Thread : \/ InitOneShot(t) \/ InitWaits(t) \/ InitAllocate(t) \/ Resolve(t)
                              \/ Find(t) \/ \E op \in {"add", "offsets", "end"} : Refused(t, op)
                              \/ EndTxnMarkers(t) \/ EndTxnFreed(t) \/ Dangling(t)
  BY <1>12, <1>11 DEF InitOneShot, InitWaits, InitAllocate, Resolve, Find, Refused, EndTxnMarkers,
                      EndTxnFreed, Dangling, maps
<1>13. CASE \/ TimeoutAwake \/ TimeoutScan \/ TimeoutDone \/ TimeoutFind \/ TimeoutMarkers
            \/ TimeoutCount \/ ExpiryAwake \/ ExpiryScan \/ ExpiryUnmap \/ ExpiryDone
            \/ Start \/ Shutdown \/ ShutdownJoined
  BY <1>13, <1>11 DEF TimeoutAwake, TimeoutScan, TimeoutDone, TimeoutFind, TimeoutMarkers,
                      TimeoutCount, ExpiryAwake, ExpiryScan, ExpiryUnmap, ExpiryDone, Start,
                      Shutdown, ShutdownJoined, maps
<1>14. CASE UNCHANGED vars
  BY <1>14, <1>11 DEF vars
<1>15. ASSUME NEW t \in Thread,
              \/ InitOneShot(t) \/ InitExisting(t) \/ InitWaits(t) \/ InitAllocate(t)
              \/ Resolve(t) \/ Proceed(t)
       PROVE  P
  BY <1>15, <1>1, <1>2, <1>3, <1>4, <1>5, <1>12 DEF Proceed
<1>16. CASE TimeoutLoop \/ ExpiryLoop \/ Start \/ Shutdown \/ ShutdownJoined \/ ShutdownAbort
  BY <1>16, <1>6, <1>7, <1>8, <1>13 DEF TimeoutLoop, ExpiryLoop
<1> QED BY <1>9, <1>10, <1>14, <1>15, <1>16 DEF Next

\* A transaction is the work of one epoch: no call that presents another takes part in it, and
\* what a producer has done before init_producer_id() fences it never ends in the transaction of
\* its successor.
THEOREM TransactionsAreFenced == Spec => []OneEpochPerTransaction
<1>1. Init => OneEpochPerTransaction
  BY DEF Init, OneEpochPerTransaction, Known
<1>2. IInv /\ OneEpochPerTransaction /\ [Next]_vars => OneEpochPerTransaction'
  <2> SUFFICES ASSUME IInv, OneEpochPerTransaction, [Next]_vars PROVE OneEpochPerTransaction'
    OBVIOUS
  <2>1. TypeOK /\ TypeOK'
    BY NextIInv DEF IInv
  <2>2. \A i \in Known : Clean(txn_states[i])
    BY <2>1, CleanEntries
  <2>3. ASSUME NEW i \in Known' PROVE Clean(txn_states'[i])
    <3>1. i \in TxnId /\ txn_states'[i] # NoEntry
      BY DEF Known
    <3>2. CASE txn_states'[i] = txn_states[i]
      BY <2>2, <3>1, <3>2 DEF Known
    <3> QED BY <3>1, <3>2, EntryStep
  <2>4. OneEpochPerTransaction'
    BY <2>3 DEF OneEpochPerTransaction, Clean, Busy
  <2> QED BY <2>4
<1>3. Spec => []IInv
  BY InitIInv, NextIInv, PTL DEF Spec
<1> QED BY <1>1, <1>2, <1>3, PTL DEF Spec
-----------------------------------------------------------------------------
(* The counter of transactions. *)

\* The ids timeout_loop() is still going to count off, and whether it is about to count one off
\* whose entry it has reset.
Owed == timeouter.todo \cup (IF timeouter.pc \in {"found", "marked"} THEN {timeouter.at} ELSE {})
Pending == IF timeouter.pc = "count" THEN 1 ELSE 0

\* NoneUncounted made inductive: an id on the list of timeout_loop() is still counted, even when
\* its transaction is gone, and so is the one that has just been aborted.
Counted == ~freed_use => active_transactions >= Cardinality(Owed \cup Busy) + Pending

LEMMA OwedFinite ==
    ASSUME IInv
    PROVE  Owed \cup Busy \subseteq TxnId /\ IsFiniteSet(Owed \cup Busy)
<1>1. Owed \cup Busy \subseteq TxnId
  BY DEF IInv, TypeOK, Carried, Owed, Busy, Known
<1> QED BY <1>1, SetsAssumption, FS_Subset

\* A step that only strikes ids off, or has used freed memory.
LEMMA CountedKept ==
    ASSUME IInv, IInv', Counted,
           Owed' \cup Busy' \subseteq Owed \cup Busy, Pending' <= Pending,
           active_transactions' >= active_transactions, freed_use => freed_use'
    PROVE  Counted'
<1>1. IsFiniteSet(Owed \cup Busy)
  BY OwedFinite
<1>2. /\ Cardinality(Owed' \cup Busy') \in Nat
      /\ Cardinality(Owed \cup Busy) \in Nat
      /\ Cardinality(Owed' \cup Busy') <= Cardinality(Owed \cup Busy)
  BY <1>1, FS_Subset, FS_CardinalityType
<1>3. active_transactions \in Nat /\ active_transactions' \in Nat
  BY DEF IInv, TypeOK
<1>4. Pending \in Nat /\ Pending' \in Nat
  BY DEF Pending
<1> QED BY <1>2, <1>3, <1>4 DEF Counted

\* An entry is exchanged and no transaction begins.
LEMMA CountedExchange ==
    ASSUME IInv, IInv', Counted, NEW i \in TxnId, NEW new \in TransactionalIdState,
           txn_states' = [txn_states EXCEPT ![i] = new],
           new.txn_state = "empty" \/ i \in Busy,
           timeouter'.pc = timeouter.pc, timeouter'.todo = timeouter.todo,
           timeouter'.at = timeouter.at,
           UNCHANGED <<active_transactions, freed_use>>
    PROVE  Counted'
<1>1. Busy' \subseteq Busy
  <2>1. TypeOK
    BY DEF IInv
  <2>2. Busy' = IF new.txn_state = "empty" THEN Busy \ {i} ELSE Busy \cup {i}
    BY <2>1, Exchange
  <2> QED BY <2>2
<1>2. Owed' = Owed /\ Pending' = Pending
  BY DEF Owed, Pending
<1>3. Pending \in Nat /\ active_transactions \in Nat
  BY DEF Pending, IInv, TypeOK
<1> QED BY <1>1, <1>2, <1>3, CountedKept

\* No entry changes, and timeout_loop() does not move.
LEMMA CountedSame ==
    ASSUME IInv, IInv', Counted, UNCHANGED <<txn_states, timeouter, active_transactions, freed_use>>
    PROVE  Counted'
<1>1. Busy' = Busy /\ Owed' = Owed /\ Pending' = Pending
  BY DEF Busy, Known, Owed, Pending
<1>2. Pending \in Nat /\ active_transactions \in Nat
  BY DEF Pending, IInv, TypeOK
<1> QED BY <1>1, <1>2, CountedKept

LEMMA NextCounted == IInv /\ IInv' /\ Counted /\ [Next]_vars => Counted'
<1> SUFFICES ASSUME IInv, IInv', Counted, [Next]_vars PROVE Counted'
  OBVIOUS
<1>t. TypeOK /\ Carried
  BY DEF IInv
<1>k. \A i \in Known : i \in TxnId /\ txn_states[i] \in TransactionalIdState
  BY <1>t, KnownTyped
<1>n. active_transactions \in Nat /\ Pending \in Nat
  BY <1>t DEF TypeOK, Pending
<1>1. ASSUME NEW t \in Thread, InitExisting(t) PROVE Counted'
  <2>1. PICK i \in Known \ Locked : txn_states' = [txn_states EXCEPT ![i] = reinitialized(txn_states[i])]
    BY <1>1 DEF InitExisting
  <2>2. /\ reinitialized(txn_states[i]) \in TransactionalIdState
        /\ reinitialized(txn_states[i]).txn_state = "empty"
    BY <1>k, ReinitializedFields
  <2>3. UNCHANGED <<timeouter, active_transactions, freed_use>>
    BY <1>1 DEF InitExisting, loops
  <2> QED BY <2>1, <2>2, <2>3, <1>k, CountedExchange
<1>2. ASSUME NEW t \in Thread, InitCreate(t) PROVE Counted'
  <2> DEFINE new == NewEntry(thread[t].pid, used.made + 1)
  <2>1. thread[t].id \in TxnId /\ thread[t].pid \in Pid /\ used.made + 1 \in Nat
    BY <1>2, <1>t DEF InitCreate, TypeOK, Call, Idle, Carried
  <2>2. new \in TransactionalIdState /\ new.txn_state = "empty"
    BY <2>1, NewEntryFields
  <2>3. /\ txn_states' = [txn_states EXCEPT ![thread[t].id] = new]
        /\ UNCHANGED <<timeouter, active_transactions, freed_use>>
    BY <1>2 DEF InitCreate, loops
  <2> HIDE DEF new
  <2> QED BY <2>1, <2>2, <2>3, CountedExchange
<1>3. ASSUME NEW t \in Thread, AddPartitionsToTxn(t) PROVE Counted'
  <2> DEFINE i == thread[t].id
  <2>1. i \in Known /\ thread[t].epoch \in Epoch
    BY <1>3, <1>t, EntryThere DEF AddPartitionsToTxn
  <2>2. PICK failed \in BOOLEAN :
          txn_states' = [txn_states EXCEPT ![i] = added(txn_states[i], thread[t].epoch, failed)]
    BY <1>3 DEF AddPartitionsToTxn
  <2>3. added(txn_states[i], thread[t].epoch, failed) \in TransactionalIdState
    BY <2>1, <1>k, AddedFields
  <2>4. UNCHANGED <<timeouter, freed_use>>
    BY <1>3 DEF AddPartitionsToTxn, loops
  <2>5. CASE txn_states[i].txn_state = "ongoing" /\ UNCHANGED active_transactions
    <3>1. i \in Busy
      BY <2>1, <2>5 DEF Busy
    <3> QED BY <2>1, <2>2, <2>3, <2>4, <2>5, <3>1, <1>k, CountedExchange
  <2>6. CASE active_transactions' = active_transactions + 1
    <3>1. Busy' \subseteq Busy \cup {i}
      <4> DEFINE new == added(txn_states[i], thread[t].epoch, failed)
      <4>1. i \in TxnId
        BY <2>1, <1>k
      <4>2. Busy' = IF new.txn_state = "empty" THEN Busy \ {i} ELSE Busy \cup {i}
        BY <1>t, <2>2, <2>3, <4>1, Exchange
      <4> QED BY <4>2
    <3>2. Owed' = Owed /\ Pending' = Pending
      BY <2>4 DEF Owed, Pending
    <3>3. IsFiniteSet(Owed \cup Busy)
      BY OwedFinite
    <3>4. /\ IsFiniteSet((Owed \cup Busy) \cup {i})
          /\ Cardinality((Owed \cup Busy) \cup {i}) <= Cardinality(Owed \cup Busy) + 1
          /\ Cardinality(Owed \cup Busy) \in Nat
      <4> DEFINE S == Owed \cup Busy
      <4>1. Cardinality(S) \in Nat
        BY <3>3, FS_CardinalityType
      <4>2. /\ IsFiniteSet(S \cup {i})
            /\ Cardinality(S \cup {i}) = IF i \in S THEN Cardinality(S) ELSE Cardinality(S) + 1
        BY <3>3, FS_AddElement
      <4> HIDE DEF S
      <4>3. Cardinality(S \cup {i}) <= Cardinality(S) + 1
        BY <4>1, <4>2
      <4> QED BY <4>1, <4>2, <4>3 DEF S
    <3>5. /\ Cardinality(Owed' \cup Busy') <= Cardinality((Owed \cup Busy) \cup {i})
          /\ Cardinality(Owed' \cup Busy') \in Nat
          /\ Cardinality((Owed \cup Busy) \cup {i}) \in Nat
      <4>1. Owed' \cup Busy' \subseteq (Owed \cup Busy) \cup {i}
        BY <3>1, <3>2
      <4> QED BY <4>1, <3>4, FS_Subset, FS_CardinalityType
    <3> QED BY <2>4, <2>6, <3>2, <3>4, <3>5, <1>n DEF Counted
  <2> QED BY <1>3, <2>5, <2>6 DEF AddPartitionsToTxn
<1>4. ASSUME NEW t \in Thread, AddOffsetsToTxn(t) PROVE Counted'
  <2>1. /\ thread[t].id \in Known /\ thread[t].epoch \in Epoch
        /\ txn_states[thread[t].id].txn_state = "ongoing"
    BY <1>4, <1>t, EntryThere DEF AddOffsetsToTxn
  <2> DEFINE new == [txn_states[thread[t].id] EXCEPT !.expired = FALSE, !.by = @ \cup {thread[t].epoch}]
  <2>2. new \in TransactionalIdState /\ thread[t].id \in Busy
    BY <2>1, <1>k DEF TransactionalIdState, Busy
  <2>3. /\ txn_states' = [txn_states EXCEPT ![thread[t].id] = new]
        /\ UNCHANGED <<timeouter, active_transactions, freed_use>>
    BY <1>4 DEF AddOffsetsToTxn, loops, counters
  <2> HIDE DEF new
  <2> QED BY <2>1, <2>2, <2>3, <1>k, CountedExchange
<1>5. ASSUME NEW t \in Thread, EndTxn(t) PROVE Counted'
  <2>1. /\ thread[t].id \in Known /\ thread[t].epoch \in Epoch
        /\ txn_states[thread[t].id].txn_state = "ongoing"
    BY <1>5, <1>t, EntryThere DEF EndTxn
  <2>2. PICK p \in Prepared :
          txn_states' = [txn_states EXCEPT ![thread[t].id].txn_state = p,
                                           ![thread[t].id].by = @ \cup {thread[t].epoch}]
    BY <1>5 DEF EndTxn
  <2> DEFINE new == [txn_states[thread[t].id] EXCEPT !.txn_state = p, !.by = @ \cup {thread[t].epoch}]
  <2>3. new \in TransactionalIdState /\ thread[t].id \in Busy
    BY <2>1, <1>k DEF TransactionalIdState, TxnState, Busy
  <2>4. /\ txn_states' = [txn_states EXCEPT ![thread[t].id] = new]
        /\ UNCHANGED <<timeouter, active_transactions, freed_use>>
    BY <1>5, <2>2 DEF EndTxn, loops, counters
  <2> HIDE DEF new
  <2> QED BY <2>1, <2>3, <2>4, <1>k, CountedExchange
<1>6. ASSUME NEW t \in Thread, EndTxnFreed(t) \/ Dangling(t) PROVE Counted'
  BY <1>6 DEF EndTxnFreed, Dangling, Counted
<1>7. ASSUME TimeoutAwake PROVE Counted'
  <2>1. Busy' = Busy /\ Owed' \subseteq Owed \cup Busy /\ Pending' = Pending
    BY <1>7, <1>t DEF TimeoutAwake, Busy, Known, Owed, Pending, TypeOK, maps
  <2>2. UNCHANGED <<active_transactions, freed_use>>
    BY <1>7 DEF TimeoutAwake, counters
  <2> QED BY <2>1, <2>2, <1>n, CountedKept
<1>8. ASSUME TimeoutScan PROVE Counted'
  <2>1. Busy' = Busy /\ timed_out_ids \subseteq Busy
    BY <1>8 DEF TimeoutScan, Busy, Known, maps, timed_out_ids
  <2>2. timeouter'.todo \in {timeouter.todo, timed_out_ids} /\ timeouter'.pc \in {"abort", "stuck"}
    BY <1>8, <1>t DEF TimeoutScan, TypeOK
  <2>3. Owed' \subseteq Owed \cup Busy /\ Pending' = 0
    BY <2>1, <2>2 DEF Owed, Pending
  <2>4. UNCHANGED <<active_transactions, freed_use>>
    BY <1>8 DEF TimeoutScan, counters
  <2> QED BY <2>1, <2>3, <2>4, <1>n, CountedKept
<1>9. ASSUME TimeoutDone PROVE Counted'
  <2>1. Busy' = Busy /\ Owed' \subseteq Owed \cup Busy /\ Pending' = Pending
    BY <1>9, <1>t DEF TimeoutDone, Busy, Known, Owed, Pending, TypeOK, maps
  <2>2. UNCHANGED <<active_transactions, freed_use>>
    BY <1>9 DEF TimeoutDone, counters
  <2> QED BY <2>1, <2>2, <1>n, CountedKept
<1>10. ASSUME TimeoutFind PROVE Counted'
  <2>1. Busy' = Busy /\ Owed' \subseteq Owed \cup Busy /\ Pending' = Pending
    BY <1>10, <1>t DEF TimeoutFind, Busy, Known, Owed, Pending, TypeOK, maps
  <2>2. UNCHANGED <<active_transactions, freed_use>>
    BY <1>10 DEF TimeoutFind, counters
  <2> QED BY <2>1, <2>2, <1>n, CountedKept
<1>11. ASSUME TimeoutMarkers PROVE Counted'
  <2>1. Busy' = Busy /\ Owed' \subseteq Owed \cup Busy /\ Pending' = Pending
    BY <1>11, <1>t DEF TimeoutMarkers, Busy, Known, Owed, Pending, TypeOK, maps
  <2>2. UNCHANGED <<active_transactions, freed_use>>
    BY <1>11 DEF TimeoutMarkers, counters
  <2> QED BY <2>1, <2>2, <1>n, CountedKept
<1>12. ASSUME TimeoutReset PROVE Counted'
  <2>1. CASE freed_use' = TRUE
    BY <2>1 DEF Counted
  <2>2. CASE /\ Points(timeouter.at, timeouter.object)
             /\ txn_states' = [txn_states EXCEPT ![timeouter.at] = reset_transaction(txn_states[timeouter.at])]
             /\ UNCHANGED freed_use
    <3> DEFINE i == timeouter.at
               S == Owed \cup Busy
    <3>1. i \in Known /\ i \in TxnId
      BY <2>2, <1>k DEF Points
    <3>2. /\ reset_transaction(txn_states[i]) \in TransactionalIdState
          /\ reset_transaction(txn_states[i]).txn_state = "empty"
      BY <3>1, <1>k, ResetFields
    <3>3. Busy' = Busy \ {i}
      BY <2>2, <3>1, <3>2, <1>t, Exchange
    <3>4. timeouter'.pc = "count" /\ timeouter'.todo = timeouter.todo /\ timeouter.pc = "marked"
      BY <1>12, <1>t DEF TimeoutReset, TypeOK
    <3>5. i \in Owed /\ Owed' = Owed \ {i} /\ Pending = 0 /\ Pending' = 1
      BY <3>4, <1>t DEF Owed, Pending, Carried
    <3>6. i \in S /\ Owed' \cup Busy' = S \ {i}
      BY <3>3, <3>5
    <3>7. IsFiniteSet(S)
      BY OwedFinite
    <3>8. Cardinality(S) \in Nat
      BY <3>7, FS_CardinalityType
    <3>9. Cardinality(S \ {i}) = Cardinality(S) - 1
      BY <3>6, <3>7, FS_RemoveElement
    <3>10. active_transactions' = active_transactions
      BY <1>12 DEF TimeoutReset, counters
    <3>11. ~freed_use' => active_transactions >= Cardinality(S) + Pending
      BY <2>2 DEF Counted
    <3>12. Cardinality(Owed' \cup Busy') = Cardinality(S) - 1
      BY <3>6, <3>9
    <3> HIDE DEF S, i
    <3>13. ~freed_use' => active_transactions' >= Cardinality(Owed' \cup Busy') + Pending'
      BY <3>5, <3>8, <3>10, <3>11, <3>12, <1>n
    <3> QED BY <3>13 DEF Counted
  <2> QED BY <1>12, <2>1, <2>2 DEF TimeoutReset
<1>13. ASSUME TimeoutCount PROVE Counted'
  <2>1. Busy' = Busy
    BY <1>13 DEF TimeoutCount, Busy, Known, maps
  <2>2. timeouter.pc = "count" /\ timeouter'.pc = "abort" /\ timeouter'.todo = timeouter.todo
    BY <1>13, <1>t DEF TimeoutCount, TypeOK
  <2>3. Owed' = Owed /\ Pending = 1 /\ Pending' = 0
    BY <2>2 DEF Owed, Pending
  <2>4. Cardinality(Owed \cup Busy) \in Nat
    BY OwedFinite, FS_CardinalityType
  <2>5. active_transactions' = (IF active_transactions > 0 THEN active_transactions - 1
                                ELSE active_transactions) /\ freed_use' = freed_use
    BY <1>13 DEF TimeoutCount, Less1
  <2> QED BY <2>1, <2>3, <2>4, <2>5, <1>n DEF Counted
<1>14. ASSUME ExpiryErase PROVE Counted'
  <2>1. PICK i \in expirer.todo \cap Known : txn_states' = [txn_states EXCEPT ![i] = NoEntry]
    BY <1>14 DEF ExpiryErase
  <2>2. i \in TxnId
    BY <1>k
  <2>3. Busy' \subseteq Busy
    BY <2>1, <2>2, <1>t DEF Busy, Known, TypeOK
  <2>4. UNCHANGED <<timeouter, active_transactions, freed_use>>
    BY <1>14 DEF ExpiryErase, counters
  <2>5. Owed' = Owed /\ Pending' = Pending
    BY <2>4 DEF Owed, Pending
  <2> QED BY <2>3, <2>4, <2>5, <1>n, CountedKept
<1>15. ASSUME Start PROVE Counted'
  <2>1. Busy' = Busy /\ Owed' = {} /\ Pending' = 0
    BY <1>15 DEF Start, Busy, Known, Owed, Pending, maps
  <2>2. UNCHANGED <<active_transactions, freed_use>>
    BY <1>15 DEF Start
  <2> QED BY <2>1, <2>2, <1>n, CountedKept
<1>16. ASSUME ShutdownAbort PROVE Counted'
  <2>1. PICK aborted \in SUBSET (Busy \ Locked) :
          txn_states' = [i \in TxnId |-> IF i \in aborted THEN reset_transaction(txn_states[i])
                                        ELSE txn_states[i]]
    BY <1>16 DEF ShutdownAbort
  <2>2. \A i \in aborted : reset_transaction(txn_states[i]).txn_state = "empty"
    BY <1>k, ResetFields DEF Busy
  <2>3. Busy' \subseteq Busy
    BY <2>1, <2>2 DEF Busy, Known
  <2>4. UNCHANGED <<timeouter, active_transactions, freed_use>>
    BY <1>16 DEF ShutdownAbort, counters
  <2>5. Owed' = Owed /\ Pending' = Pending
    BY <2>4 DEF Owed, Pending
  <2> QED BY <2>3, <2>4, <2>5, <1>n, CountedKept
<1>17. ASSUME NEW i \in Known, TxnTimesOut(i) PROVE Counted'
  <2> DEFINE new == [txn_states[i] EXCEPT !.timed_out = TRUE]
  <2>1. new \in TransactionalIdState /\ i \in Busy
    BY <1>k, <1>17 DEF TransactionalIdState, TxnTimesOut, Busy
  <2>2. /\ txn_states' = [txn_states EXCEPT ![i] = new]
        /\ UNCHANGED <<timeouter, active_transactions, freed_use>>
    BY <1>17 DEF TxnTimesOut, loops, counters
  <2> HIDE DEF new
  <2> QED BY <2>1, <2>2, <1>k, CountedExchange
<1>18. ASSUME NEW i \in Known, IdExpires(i) PROVE Counted'
  <2> DEFINE new == [txn_states[i] EXCEPT !.expired = TRUE]
  <2>1. new \in TransactionalIdState /\ (new.txn_state = "empty" \/ i \in Busy)
    BY <1>k DEF TransactionalIdState, Busy
  <2>2. /\ txn_states' = [txn_states EXCEPT ![i] = new]
        /\ UNCHANGED <<timeouter, active_transactions, freed_use>>
    BY <1>18 DEF IdExpires, loops, counters
  <2> HIDE DEF new
  <2> QED BY <2>1, <2>2, <1>k, CountedExchange
<1>19. ASSUME NEW t \in Thread,
              \/ InitOneShot(t) \/ InitWaits(t) \/ InitAllocate(t) \/ Resolve(t) \/ Find(t)
              \/ \E op \in {"add", "offsets", "end"} : Refused(t, op)
              \/ EndTxnMarkers(t)
       PROVE  Counted'
  <2>1. UNCHANGED <<txn_states, timeouter, active_transactions, freed_use>>
    BY <1>19 DEF InitOneShot, InitWaits, InitAllocate, Resolve, Find, Refused, EndTxnMarkers, maps,
                 loops, counters
  <2> QED BY <2>1, CountedSame
<1>20. CASE ExpiryAwake \/ ExpiryScan \/ ExpiryUnmap \/ ExpiryDone \/ Shutdown \/ ShutdownJoined
  <2>1. UNCHANGED <<txn_states, timeouter, active_transactions, freed_use>>
    BY <1>20 DEF ExpiryAwake, ExpiryScan, ExpiryUnmap, ExpiryDone, Shutdown, ShutdownJoined, maps,
                 counters
  <2> QED BY <2>1, CountedSame
<1>21. CASE UNCHANGED vars
  <2>1. UNCHANGED <<txn_states, timeouter, active_transactions, freed_use>>
    BY <1>21 DEF vars
  <2> QED BY <2>1, CountedSame
<1>22. ASSUME NEW t \in Thread,
              \/ InitOneShot(t) \/ InitExisting(t) \/ InitWaits(t) \/ InitAllocate(t)
              \/ Resolve(t) \/ Proceed(t)
       PROVE  Counted'
  BY <1>22, <1>1, <1>2, <1>3, <1>4, <1>5, <1>6, <1>19 DEF Proceed
<1>23. CASE TimeoutLoop \/ ExpiryLoop \/ Start \/ Shutdown \/ ShutdownJoined \/ ShutdownAbort
  BY <1>23, <1>7, <1>8, <1>9, <1>10, <1>11, <1>12, <1>13, <1>14, <1>15, <1>16, <1>20
  DEF TimeoutLoop, ExpiryLoop
<1> QED BY <1>17, <1>18, <1>21, <1>22, <1>23 DEF Next

\* active_transactions never falls below the number of transactions there are, whatever
\* timeout_loop() aborts, until freed memory is used.
THEOREM TransactionsAreCounted == Spec => []NoneUncounted
<1>1. Init => Counted
  <2> SUFFICES ASSUME Init PROVE Counted
    OBVIOUS
  <2>1. Owed \cup Busy = {} /\ Pending = 0
    BY DEF Init, Owed, Busy, Known, Pending
  <2>2. Cardinality(Owed \cup Busy) = 0 /\ active_transactions = 0
    BY <2>1, FS_EmptySet DEF Init
  <2> QED BY <2>1, <2>2 DEF Counted
<1>2. IInv /\ Counted => NoneUncounted
  <2> SUFFICES ASSUME IInv, Counted, ~freed_use PROVE active_transactions >= Cardinality(Busy)
    BY DEF NoneUncounted
  <2>1. IsFiniteSet(Owed \cup Busy) /\ Busy \in SUBSET (Owed \cup Busy)
    BY OwedFinite
  <2>2. /\ IsFiniteSet(Busy)
        /\ Cardinality(Busy) <= Cardinality(Owed \cup Busy)
    BY <2>1, FS_Subset
  <2>3. Cardinality(Busy) \in Nat /\ Cardinality(Owed \cup Busy) \in Nat
    BY <2>1, <2>2, FS_CardinalityType
  <2>4. active_transactions \in Nat /\ Pending \in Nat
    BY DEF IInv, TypeOK, Pending
  <2> QED BY <2>2, <2>3, <2>4 DEF Counted
<1>3. Spec => []IInv
  BY InitIInv, NextIInv, PTL DEF Spec
<1> QED BY <1>1, <1>2, <1>3, NextCounted, PTL DEF Spec
-----------------------------------------------------------------------------
(* Producer ids. *)

Creating == {t \in Thread : thread[t].at = "creating"}

\* The producer ids that an entry, a call about to create one, or expiry_loop() between its two
\* steps stands for were all allocated, and no two of them are the same.
PidsApart ==
    /\ \A i \in Known : txn_states[i].producer_id < next_pid
    /\ \A t \in Creating : /\ thread[t].pid < next_pid
                           /\ \A i \in Known : txn_states[i].producer_id # thread[t].pid
                           /\ \A s \in Creating \ {t} : thread[s].pid # thread[t].pid
    /\ expirer.pc = "unmap" =>
          /\ expirer.pid < next_pid
          /\ \A i \in Known : txn_states[i].producer_id # expirer.pid
          /\ \A t \in Creating : thread[t].pid # expirer.pid

\* Nothing has been allocated before start() sets the allocator.
NotBeforeStart ==
    used.starts = 0 => Known = {} /\ expirer.pc # "unmap" /\ \A t \in Thread : thread[t] = Idle

PidInv == PidsResolve /\ PidsApart /\ NotBeforeStart

\* No entry, call or erasure is new, and those that are left keep their producer ids.
LEMMA PidKept ==
    ASSUME IInv, IInv', PidInv,
           \A i \in Known' : i \in Known /\ txn_states'[i].producer_id = txn_states[i].producer_id,
           \A t \in Creating' : t \in Creating /\ thread'[t].pid = thread[t].pid,
           expirer'.pc = "unmap" => expirer.pc = "unmap" /\ expirer'.pid = expirer.pid,
           pid_to_transactional_id' = pid_to_transactional_id, next_pid' >= next_pid,
           used'.starts = used.starts, used.starts # 0 \/ thread' = thread
    PROVE  PidInv'
<1>1. next_pid \in Nat /\ next_pid' \in Nat
  BY BoundAssumption DEF IInv, TypeOK
<1>2. \A i \in Known : txn_states[i].producer_id \in Nat
  BY KnownTyped, EntryFields, BoundAssumption DEF IInv, Pid
<1>3. \A t \in Creating : thread[t].pid \in Nat
  BY BoundAssumption DEF IInv, Carried, Pid, Creating
<1>4. expirer.pc = "unmap" => expirer.pid \in Nat
  BY BoundAssumption DEF IInv, Carried, Pid
<1>5. PidsResolve'
  BY DEF PidInv, PidsResolve
<1>6. PidsApart'
  <2>1. \A i \in Known' : txn_states'[i].producer_id < next_pid'
    BY <1>1, <1>2 DEF PidInv, PidsApart
  <2>2. ASSUME NEW t \in Creating'
        PROVE  /\ thread'[t].pid < next_pid'
               /\ \A i \in Known' : txn_states'[i].producer_id # thread'[t].pid
               /\ \A s \in Creating' \ {t} : thread'[s].pid # thread'[t].pid
    BY <1>1, <1>3 DEF PidInv, PidsApart
  <2>3. ASSUME expirer'.pc = "unmap"
        PROVE  /\ expirer'.pid < next_pid'
               /\ \A i \in Known' : txn_states'[i].producer_id # expirer'.pid
               /\ \A t \in Creating' : thread'[t].pid # expirer'.pid
    BY <2>3, <1>1, <1>4 DEF PidInv, PidsApart
  <2> QED BY <2>1, <2>2, <2>3 DEF PidsApart
<1>7. NotBeforeStart'
  BY DEF PidInv, NotBeforeStart
<1> QED BY <1>5, <1>6, <1>7 DEF PidInv

\* An entry is exchanged for one of the same producer.
LEMMA PidExchange ==
    ASSUME IInv, IInv', PidInv, NEW i \in Known, NEW new \in TransactionalIdState,
           txn_states' = [txn_states EXCEPT ![i] = new], new.producer_id = txn_states[i].producer_id,
           \A t \in Creating' : t \in Creating /\ thread'[t].pid = thread[t].pid,
           expirer' = expirer, pid_to_transactional_id' = pid_to_transactional_id,
           next_pid' = next_pid, used'.starts = used.starts
    PROVE  PidInv'
<1>1. TypeOK /\ i \in TxnId
  BY DEF IInv, Known
<1>2. \A j \in Known' : j \in Known /\ txn_states'[j].producer_id = txn_states[j].producer_id
  BY <1>1, Exchange DEF Known
<1>3. used.starts # 0
  BY DEF PidInv, NotBeforeStart
<1>4. next_pid' >= next_pid
  BY BoundAssumption DEF IInv, TypeOK
<1> QED BY <1>2, <1>3, <1>4, PidKept

\* A call returns or goes on, in a way that creates no entry.
LEMMA NotCreating ==
    ASSUME IInv, NEW t \in Thread, NEW c, c.at # "creating", thread' = [thread EXCEPT ![t] = c]
    PROVE  \A s \in Creating' : s \in Creating /\ thread'[s].pid = thread[s].pid
BY DEF IInv, TypeOK, Creating

LEMMA NextPidInv ==
    ASSUME StartFirst, MaxStarts = 1
    PROVE  IInv /\ IInv' /\ PidInv /\ [Next]_vars => PidInv'
<1> SUFFICES ASSUME IInv, IInv', PidInv, [Next]_vars PROVE PidInv'
  OBVIOUS
<1>t. TypeOK /\ Carried
  BY DEF IInv
<1>k. \A i \in Known : i \in TxnId /\ txn_states[i] \in TransactionalIdState
  BY <1>t, KnownTyped
<1>n. next_pid \in Nat /\ next_pid' \in Nat
  BY BoundAssumption DEF IInv, TypeOK
<1>b. ASSUME NEW t \in Thread, Begin(t) PROVE used.starts # 0 /\ used'.starts = used.starts
  BY <1>b, <1>t DEF Begin, TypeOK
<1>p. ASSUME NEW t \in Thread, thread[t] # Idle PROVE used.starts # 0
  BY <1>p DEF PidInv, NotBeforeStart
<1>i. Idle.at = "idle"
  BY DEF Idle
<1>1. ASSUME NEW t \in Thread, InitOneShot(t) PROVE PidInv'
  <2>1. /\ UNCHANGED <<txn_states, thread, expirer, pid_to_transactional_id>>
        /\ next_pid' >= next_pid
        /\ used'.starts = used.starts
    BY <1>1, <1>b, <1>n DEF InitOneShot, allocate, maps, loops
  <2>2. Known' = Known /\ Creating' = Creating
    BY <2>1 DEF Known, Creating
  <2> QED BY <2>1, <2>2, PidKept
<1>2. ASSUME NEW t \in Thread, InitExisting(t) PROVE PidInv'
  <2>1. PICK i \in Known \ Locked : txn_states' = [txn_states EXCEPT ![i] = reinitialized(txn_states[i])]
    BY <1>2 DEF InitExisting
  <2>2. /\ reinitialized(txn_states[i]) \in TransactionalIdState
        /\ reinitialized(txn_states[i]).producer_id = txn_states[i].producer_id
    BY <1>k, ReinitializedFields
  <2>3. /\ UNCHANGED <<thread, expirer, pid_to_transactional_id, next_pid>>
        /\ used'.starts = used.starts
    BY <1>2, <1>b DEF InitExisting, loops
  <2>4. Creating' = Creating
    BY <2>3 DEF Creating
  <2> QED BY <2>1, <2>2, <2>3, <2>4, PidExchange
<1>3. ASSUME NEW t \in Thread, InitWaits(t) PROVE PidInv'
  <2>1. PICK i \in Locked :
          thread' = [thread EXCEPT ![t] = [[Idle EXCEPT !.op = "init", !.id = i] EXCEPT !.at = "stuck"]]
    BY <1>3 DEF InitWaits, Stuck
  <2> DEFINE c == [[Idle EXCEPT !.op = "init", !.id = i] EXCEPT !.at = "stuck"]
  <2>c. c.at = "stuck"
    BY DEF Idle
  <2> HIDE DEF c
  <2>d. thread' = [thread EXCEPT ![t] = c]
    BY <2>1 DEF c
  <2>2. \A s \in Creating' : s \in Creating /\ thread'[s].pid = thread[s].pid
    BY <2>c, <2>d, NotCreating
  <2>3. /\ UNCHANGED <<txn_states, expirer, pid_to_transactional_id, next_pid>>
        /\ used.starts # 0 /\ used'.starts = used.starts
    BY <1>3, <1>b DEF InitWaits, maps, loops
  <2>4. Known' = Known
    BY <2>3 DEF Known
  <2> QED BY <2>2, <2>3, <2>4, <1>n, PidKept
<1>4. ASSUME NEW t \in Thread, InitAllocate(t) PROVE PidInv'
  <2>1. PICK i \in TxnId \ Known :
          thread' = [thread EXCEPT ![t] = [Idle EXCEPT !.at = "creating", !.op = "init", !.id = i,
                                                       !.pid = next_pid]]
    BY <1>4 DEF InitAllocate
  <2>2. /\ UNCHANGED <<txn_states, expirer, pid_to_transactional_id>>
        /\ next_pid' = next_pid + 1
        /\ used.starts # 0 /\ used'.starts = used.starts
    BY <1>4, <1>b DEF InitAllocate, allocate, maps, loops
  <2>3. Known' = Known
    BY <2>2 DEF Known
  <2>4. /\ thread'[t].pid = next_pid
        /\ \A s \in Creating' \ {t} : s \in Creating /\ thread'[s] = thread[s]
    BY <2>1, <1>t DEF Creating, TypeOK, Idle
  <2>5. PidsResolve'
    BY <2>2, <2>3 DEF PidInv, PidsResolve
  <2>6. /\ \A j \in Known : txn_states[j].producer_id \in Nat /\ txn_states[j].producer_id < next_pid
        /\ \A s \in Creating : thread[s].pid \in Nat /\ thread[s].pid < next_pid
        /\ expirer.pc = "unmap" => expirer.pid \in Nat /\ expirer.pid < next_pid
    <3>1. \A j \in Known : txn_states[j].producer_id \in Pid
      BY <1>k, EntryFields
    <3> QED BY <3>1, <1>t, BoundAssumption DEF PidInv, PidsApart, Carried, Pid, Creating
  <2>7. PidsApart'
    <3>1. \A j \in Known' : txn_states'[j].producer_id < next_pid'
      BY <2>2, <2>3, <2>6, <1>n
    <3>2. ASSUME NEW s \in Creating'
          PROVE  /\ thread'[s].pid < next_pid'
                 /\ \A j \in Known' : txn_states'[j].producer_id # thread'[s].pid
                 /\ \A u \in Creating' \ {s} : thread'[u].pid # thread'[s].pid
      <4>1. CASE s = t
        BY <4>1, <2>2, <2>3, <2>4, <2>6, <1>n
      <4>2. CASE s # t
        BY <4>2, <2>2, <2>3, <2>4, <2>6, <1>n DEF PidInv, PidsApart
      <4> QED BY <4>1, <4>2
    <3>3. ASSUME expirer'.pc = "unmap"
          PROVE  /\ expirer'.pid < next_pid'
                 /\ \A j \in Known' : txn_states'[j].producer_id # expirer'.pid
                 /\ \A s \in Creating' : thread'[s].pid # expirer'.pid
      BY <3>3, <2>2, <2>3, <2>4, <2>6, <1>n DEF PidInv, PidsApart
    <3> QED BY <3>1, <3>2, <3>3 DEF PidsApart
  <2>8. NotBeforeStart'
    BY <2>2 DEF NotBeforeStart
  <2> QED BY <2>5, <2>7, <2>8 DEF PidInv
<1>u. ASSUME UNCHANGED <<txn_states, thread, expirer, pid_to_transactional_id, next_pid>>,
             used'.starts = used.starts
      PROVE  PidInv'
  <2>1. Known' = Known /\ Creating' = Creating
    BY <1>u DEF Known, Creating
  <2> QED BY <1>u, <2>1, <1>n, PidKept
<1>q. ASSUME NEW t \in Thread, NEW c, c.at # "creating", used.starts # 0,
             thread' = [thread EXCEPT ![t] = c], used'.starts = used.starts,
             UNCHANGED <<txn_states, expirer, pid_to_transactional_id, next_pid>>
      PROVE  PidInv'
  <2>1. \A s \in Creating' : s \in Creating /\ thread'[s].pid = thread[s].pid
    BY <1>q, NotCreating
  <2>2. Known' = Known
    BY <1>q DEF Known
  <2> QED BY <1>q, <2>1, <2>2, <1>n, PidKept
<1>x. ASSUME NEW t \in Thread, NEW c, c.at # "creating", NEW i \in Known,
             NEW new \in TransactionalIdState, new.producer_id = txn_states[i].producer_id,
             txn_states' = [txn_states EXCEPT ![i] = new], thread' = [thread EXCEPT ![t] = c],
             UNCHANGED <<expirer, pid_to_transactional_id, next_pid, used>>
      PROVE  PidInv'
  <2>1. \A s \in Creating' : s \in Creating /\ thread'[s].pid = thread[s].pid
    BY <1>x, NotCreating
  <2> QED BY <1>x, <2>1, PidExchange
<1>5. ASSUME NEW t \in Thread, InitCreate(t) PROVE PidInv'
  <2> DEFINE i == thread[t].id
             pid == thread[t].pid
  <2>1. /\ t \in Creating /\ thread[t] # Idle
        /\ thread[t] \in Call /\ i \in TxnId /\ pid \in Pid
    BY <1>5, <1>t, <1>i DEF InitCreate, Creating, TypeOK, Call, Carried
  <2> DEFINE new == NewEntry(pid, used.made + 1)
  <2>2. /\ txn_states' = [txn_states EXCEPT ![i] = new]
        /\ pid_to_transactional_id' = [pid_to_transactional_id EXCEPT ![pid] = i]
        /\ thread' = [thread EXCEPT ![t] = Idle]
        /\ UNCHANGED <<next_pid, expirer>>
        /\ used'.starts = used.starts
    BY <1>5, <1>t DEF InitCreate, Return, loops, TypeOK
  <2>3. new \in TransactionalIdState /\ new.producer_id = pid
    <3>1. used.made + 1 \in Nat
      BY <1>t DEF TypeOK
    <3> QED BY <2>1, <3>1, NewEntryFields
  <2> HIDE DEF i, pid, new
  <2>4. /\ \A j \in Known' : j = i \/ (j \in Known /\ j # i /\ txn_states'[j] = txn_states[j])
        /\ txn_states'[i].producer_id = pid
    BY <2>1, <2>2, <2>3, <1>t DEF Known, TypeOK
  <2>5. \A s \in Creating' : s \in Creating /\ s # t /\ thread'[s].pid = thread[s].pid
    BY <2>2, <1>t, <1>i DEF Creating, TypeOK
  <2>6. /\ \A j \in Known : txn_states[j].producer_id \in Pid /\ txn_states[j].producer_id # pid
        /\ pid < next_pid
        /\ \A s \in Creating \ {t} : thread[s].pid # pid
        /\ expirer.pc = "unmap" => expirer.pid # pid
    BY <2>1, <1>k, EntryFields DEF PidInv, PidsApart, pid
  <2>7. PidsResolve'
    BY <2>1, <2>2, <2>4, <2>6, <1>t DEF PidInv, PidsResolve, TypeOK
  <2>8. PidsApart'
    BY <2>2, <2>4, <2>5, <2>6 DEF PidInv, PidsApart
  <2>9. NotBeforeStart'
    BY <2>1, <2>2, <1>p DEF NotBeforeStart
  <2> QED BY <2>7, <2>8, <2>9 DEF PidInv
<1>6. ASSUME NEW t \in Thread, Resolve(t) PROVE PidInv'
  <2>1. PICK p \in Pid, e \in Epoch, op \in {"add", "offsets", "end"} :
            thread' = [thread EXCEPT ![t] = [Idle EXCEPT !.at = "resolved", !.op = op,
                                             !.id = pid_to_transactional_id[p],
                                             !.epoch = e]]
    BY <1>6 DEF Resolve
  <2> DEFINE c == [Idle EXCEPT !.at = "resolved", !.op = op, !.id = pid_to_transactional_id[p],
                               !.epoch = e]
  <2>c. c.at = "resolved"
    BY DEF Idle
  <2> HIDE DEF c
  <2>d. thread' = [thread EXCEPT ![t] = c]
    BY <2>1 DEF c
  <2>2. /\ UNCHANGED <<txn_states, expirer, pid_to_transactional_id, next_pid>>
        /\ used.starts # 0 /\ used'.starts = used.starts
    BY <1>6, <1>b DEF Resolve, maps, loops
  <2> QED BY <2>2, <2>c, <2>d, <1>q
<1>7. ASSUME NEW t \in Thread,
             Find(t) \/ (\E op \in {"add", "offsets", "end"} : Refused(t, op)) \/ EndTxnMarkers(t)
             \/ EndTxnFreed(t) \/ Dangling(t)
      PROVE  PidInv'
  <2>1. UNCHANGED <<txn_states, expirer, pid_to_transactional_id, next_pid, used>>
    BY <1>7 DEF Find, Refused, EndTxnMarkers, EndTxnFreed, Dangling, maps, loops, counters
  <2>2. thread[t] # Idle
    BY <1>7, <1>i DEF Find, Refused, AtEntry, EndTxnMarkers, EndTxnFreed, Dangling
  <2>3. \E c : c.at # "creating" /\ thread' = [thread EXCEPT ![t] = c]
    <3>0. thread[t] \in Call
      BY <2>2, <1>t DEF TypeOK
    <3>1. CASE thread' = [thread EXCEPT ![t].at = "found",
                                        ![t].object = txn_states[thread[t].id].object]
      <4> DEFINE o == txn_states[thread[t].id].object
      <4>1. thread' = [thread EXCEPT ![t] = [thread[t] EXCEPT !.at = "found", !.object = o]]
        BY <3>1
      <4>2. [thread[t] EXCEPT !.at = "found", !.object = o].at = "found"
        BY <3>0 DEF Call
      <4> QED BY <4>1, <4>2
    <3>2. CASE thread' = [thread EXCEPT ![t].at = "stuck"]
      <4>1. thread' = [thread EXCEPT ![t] = [thread[t] EXCEPT !.at = "stuck"]]
        BY <3>2
      <4>2. [thread[t] EXCEPT !.at = "stuck"].at = "stuck"
        BY <3>0 DEF Call
      <4> QED BY <4>1, <4>2
    <3>3. CASE thread' = [thread EXCEPT ![t] = Idle]
      BY <3>3, <1>i
    <3> QED BY <1>7, <3>1, <3>2, <3>3
            DEF Find, Refused, EndTxnMarkers, EndTxnFreed, Dangling, Return
  <2> QED BY <2>1, <2>2, <2>3, <1>p, <1>q
<1>8. ASSUME NEW t \in Thread, AddPartitionsToTxn(t) PROVE PidInv'
  <2> DEFINE old == txn_states[thread[t].id]
  <2>1. thread[t].id \in Known /\ thread[t].epoch \in Epoch
    BY <1>8, <1>t, EntryThere DEF AddPartitionsToTxn
  <2>2. PICK failed \in BOOLEAN :
            txn_states' = [txn_states EXCEPT ![thread[t].id] = added(old, thread[t].epoch, failed)]
    BY <1>8 DEF AddPartitionsToTxn
  <2>3. /\ added(old, thread[t].epoch, failed) \in TransactionalIdState
        /\ added(old, thread[t].epoch, failed).producer_id = old.producer_id
    BY <2>1, <1>k, AddedFields
  <2>4. /\ thread' = [thread EXCEPT ![t] = Idle]
        /\ UNCHANGED <<expirer, pid_to_transactional_id, next_pid, used>>
    BY <1>8 DEF AddPartitionsToTxn, Return, loops
  <2> QED BY <2>1, <2>2, <2>3, <2>4, <1>i, <1>x
<1>9. ASSUME NEW t \in Thread, AddOffsetsToTxn(t) PROVE PidInv'
  <2> DEFINE old == txn_states[thread[t].id]
             new == [old EXCEPT !.expired = FALSE, !.by = @ \cup {thread[t].epoch}]
  <2>1. thread[t].id \in Known /\ thread[t].epoch \in Epoch
    BY <1>9, <1>t, EntryThere DEF AddOffsetsToTxn
  <2>2. txn_states' = [txn_states EXCEPT ![thread[t].id] = new]
    BY <1>9 DEF AddOffsetsToTxn
  <2>3. new \in TransactionalIdState /\ new.producer_id = old.producer_id
    BY <2>1, <1>k DEF TransactionalIdState
  <2>4. /\ thread' = [thread EXCEPT ![t] = Idle]
        /\ UNCHANGED <<expirer, pid_to_transactional_id, next_pid, used>>
    BY <1>9 DEF AddOffsetsToTxn, Return, loops, counters
  <2> HIDE DEF new
  <2> QED BY <2>1, <2>2, <2>3, <2>4, <1>i, <1>x
<1>10. ASSUME NEW t \in Thread, EndTxn(t) PROVE PidInv'
  <2>1. thread[t].id \in Known /\ thread[t] \in Call /\ thread[t].epoch \in Epoch
    BY <1>10, <1>t, EntryThere DEF EndTxn
  <2>2. PICK s \in Prepared :
          txn_states' = [txn_states EXCEPT ![thread[t].id].txn_state = s,
                                           ![thread[t].id].by = @ \cup {thread[t].epoch}]
    BY <1>10 DEF EndTxn
  <2> DEFINE old == txn_states[thread[t].id]
             new == [old EXCEPT !.txn_state = s, !.by = @ \cup {thread[t].epoch}]
             c == [thread[t] EXCEPT !.at = "marking"]
  <2>3. new \in TransactionalIdState /\ new.producer_id = old.producer_id
    BY <2>1, <1>k DEF TransactionalIdState, TxnState
  <2>4. /\ thread' = [thread EXCEPT ![t] = c]
        /\ UNCHANGED <<expirer, pid_to_transactional_id, next_pid, used>>
    BY <1>10 DEF EndTxn, loops, counters
  <2>5. c.at # "creating"
    BY <2>1 DEF Call
  <2>6. txn_states' = [txn_states EXCEPT ![thread[t].id] = new]
    BY <2>2
  <2> HIDE DEF new, c
  <2> QED BY <2>1, <2>3, <2>4, <2>5, <2>6, <1>x
<1>11. ASSUME TimeoutAwake \/ TimeoutScan \/ TimeoutDone \/ TimeoutFind \/ TimeoutMarkers
              \/ TimeoutCount \/ Shutdown \/ ShutdownJoined \/ UNCHANGED vars
       PROVE  PidInv'
  <2>1. UNCHANGED <<txn_states, thread, expirer, pid_to_transactional_id, next_pid, used>>
    BY <1>11 DEF TimeoutAwake, TimeoutScan, TimeoutDone, TimeoutFind, TimeoutMarkers,
                 TimeoutCount, Shutdown, ShutdownJoined, vars, maps, counters
  <2> QED BY <2>1, <1>u
<1>y. ASSUME NEW i \in Known, NEW new \in TransactionalIdState,
             new.producer_id = txn_states[i].producer_id,
             txn_states' = [txn_states EXCEPT ![i] = new],
             UNCHANGED <<thread, expirer, pid_to_transactional_id, next_pid, used>>
      PROVE  PidInv'
  <2>1. Creating' = Creating
    BY <1>y DEF Creating
  <2> QED BY <1>y, <2>1, PidExchange
<1>12. ASSUME TimeoutReset PROVE PidInv'
  <2>1. UNCHANGED <<thread, expirer, pid_to_transactional_id, next_pid, used>>
    BY <1>12 DEF TimeoutReset, counters
  <2>2. CASE ~Points(timeouter.at, timeouter.object)
    BY <2>1, <2>2, <1>12, <1>u DEF TimeoutReset
  <2>3. CASE Points(timeouter.at, timeouter.object)
    <3>1. timeouter.at \in Known
      BY <2>3 DEF Points
    <3>2. txn_states' = [txn_states EXCEPT ![timeouter.at] = reset_transaction(txn_states[timeouter.at])]
      BY <2>3, <1>12 DEF TimeoutReset
    <3>3. /\ reset_transaction(txn_states[timeouter.at]) \in TransactionalIdState
          /\ reset_transaction(txn_states[timeouter.at]).producer_id = txn_states[timeouter.at].producer_id
      BY <3>1, <1>k, ResetFields
    <3> QED BY <2>1, <3>1, <3>2, <3>3, <1>y
  <2> QED BY <2>2, <2>3
<1>13. ASSUME NEW i \in Known, TxnTimesOut(i) PROVE PidInv'
  <2> DEFINE new == [txn_states[i] EXCEPT !.timed_out = TRUE]
  <2>1. new \in TransactionalIdState /\ new.producer_id = txn_states[i].producer_id
    BY <1>k DEF TransactionalIdState
  <2>2. /\ txn_states' = [txn_states EXCEPT ![i] = new]
        /\ UNCHANGED <<thread, expirer, pid_to_transactional_id, next_pid, used>>
    BY <1>13 DEF TxnTimesOut, loops, counters
  <2> HIDE DEF new
  <2> QED BY <2>1, <2>2, <1>y
<1>14. ASSUME NEW i \in Known, IdExpires(i) PROVE PidInv'
  <2> DEFINE new == [txn_states[i] EXCEPT !.expired = TRUE]
  <2>1. new \in TransactionalIdState /\ new.producer_id = txn_states[i].producer_id
    BY <1>k DEF TransactionalIdState
  <2>2. /\ txn_states' = [txn_states EXCEPT ![i] = new]
        /\ UNCHANGED <<thread, expirer, pid_to_transactional_id, next_pid, used>>
    BY <1>14 DEF IdExpires, loops, counters
  <2> HIDE DEF new
  <2> QED BY <2>1, <2>2, <1>y
<1>15. ASSUME ExpiryAwake \/ ExpiryScan \/ ExpiryDone PROVE PidInv'
  <2>1. UNCHANGED <<txn_states, thread, pid_to_transactional_id, next_pid, used>>
    BY <1>15 DEF ExpiryAwake, ExpiryScan, ExpiryDone, maps, counters
  <2>2. expirer'.pc # "unmap"
    BY <1>15, <1>t DEF ExpiryAwake, ExpiryScan, ExpiryDone, TypeOK
  <2>3. Known' = Known /\ Creating' = Creating
    BY <2>1 DEF Known, Creating
  <2> QED BY <2>1, <2>2, <2>3, <1>n, PidKept
<1>16. ASSUME ExpiryErase PROVE PidInv'
  <2>1. PICK i \in expirer.todo \cap Known :
            /\ txn_states' = [txn_states EXCEPT ![i] = NoEntry]
            /\ expirer' = [pc |-> "unmap", todo |-> expirer.todo \ {i},
                           pid |-> txn_states[i].producer_id]
    BY <1>16 DEF ExpiryErase
  <2>2. UNCHANGED <<thread, pid_to_transactional_id, next_pid, used>>
    BY <1>16 DEF ExpiryErase, counters
  <2>3. \A j \in Known' : j \in Known \ {i} /\ txn_states'[j] = txn_states[j]
    BY <2>1, <1>t, <1>k DEF Known, TypeOK
  <2>4. \A s \in Creating' : s \in Creating /\ thread'[s].pid = thread[s].pid
    BY <2>2 DEF Creating
  <2>5. expirer'.pid = txn_states[i].producer_id
    BY <2>1
  <2>6. PidsResolve'
    BY <2>2, <2>3 DEF PidInv, PidsResolve
  <2>7. \A j \in Known \ {i} : txn_states[j].producer_id # txn_states[i].producer_id
    BY <2>1 DEF PidInv, PidsResolve
  <2>8. PidsApart'
    BY <2>1, <2>2, <2>3, <2>4, <2>5, <2>7 DEF PidInv, PidsApart
  <2>9. NotBeforeStart'
    BY <2>1, <2>2 DEF PidInv, NotBeforeStart
  <2> QED BY <2>6, <2>8, <2>9 DEF PidInv
<1>17. ASSUME ExpiryUnmap PROVE PidInv'
  <2>1. /\ expirer.pc = "unmap"
        /\ pid_to_transactional_id' = [pid_to_transactional_id EXCEPT ![expirer.pid] = None]
        /\ UNCHANGED <<txn_states, thread, next_pid, used>>
    BY <1>17 DEF ExpiryUnmap, counters
  <2>2. expirer'.pc = "expire"
    BY <1>17, <1>t DEF ExpiryUnmap, TypeOK
  <2>3. Known' = Known /\ Creating' = Creating
    BY <2>1 DEF Known, Creating
  <2>4. \A j \in Known : txn_states[j].producer_id \in Pid
    BY <1>k, EntryFields
  <2>5. PidsResolve'
    BY <2>1, <2>3, <2>4, <1>t DEF PidInv, PidsApart, PidsResolve, TypeOK
  <2>6. PidsApart'
    BY <2>1, <2>2, <2>3 DEF PidInv, PidsApart
  <2>7. NotBeforeStart'
    BY <2>1, <2>2, <2>3 DEF PidInv, NotBeforeStart
  <2> QED BY <2>5, <2>6, <2>7 DEF PidInv
<1>18. ASSUME Start PROVE PidInv'
  <2>1. used.starts = 0 /\ used'.starts = 1
    BY <1>18, <1>t DEF Start, TypeOK
  <2>2. Known = {} /\ \A t \in Thread : thread[t] = Idle
    BY <2>1 DEF PidInv, NotBeforeStart
  <2>3. UNCHANGED <<txn_states, thread>> /\ expirer'.pc = "awake"
    BY <1>18 DEF Start, maps
  <2>4. Known' = {} /\ Creating' = {}
    BY <2>2, <2>3, <1>i DEF Known, Creating
  <2> QED BY <2>1, <2>3, <2>4 DEF PidInv, PidsResolve, PidsApart, NotBeforeStart
<1>19. ASSUME ShutdownAbort PROVE PidInv'
  <2>1. PICK aborted \in SUBSET (Busy \ Locked) :
            txn_states' = [i \in TxnId |-> IF i \in aborted THEN reset_transaction(txn_states[i])
                                           ELSE txn_states[i]]
    BY <1>19 DEF ShutdownAbort
  <2>2. UNCHANGED <<thread, expirer, pid_to_transactional_id, next_pid, used>>
    BY <1>19 DEF ShutdownAbort, counters
  <2>3. Creating' = Creating
    BY <2>2 DEF Creating
  <2>4. \A i \in Known' : i \in Known /\ txn_states'[i].producer_id = txn_states[i].producer_id
    <3> SUFFICES ASSUME NEW i \in Known'
                 PROVE  i \in Known /\ txn_states'[i].producer_id = txn_states[i].producer_id
      OBVIOUS
    <3>1. i \in TxnId /\ txn_states'[i] # NoEntry
      BY DEF Known
    <3>2. CASE i \in aborted
      <4>1. i \in Known
        BY <3>2 DEF Busy
      <4> QED BY <4>1, <3>1, <3>2, <2>1, <1>k, ResetFields
    <3>3. CASE i \notin aborted
      BY <3>1, <3>3, <2>1 DEF Known
    <3> QED BY <3>2, <3>3
  <2> QED BY <2>2, <2>3, <2>4, <1>n, PidKept
<1>20. CASE \E t \in Thread : InitOneShot(t) \/ InitExisting(t) \/ InitWaits(t) \/ InitAllocate(t)
                              \/ Resolve(t) \/ Proceed(t)
  BY <1>20, <1>1, <1>2, <1>3, <1>4, <1>5, <1>6, <1>7, <1>8, <1>9, <1>10 DEF Proceed
<1>21. CASE TimeoutLoop \/ ExpiryLoop
  BY <1>21, <1>11, <1>12, <1>15, <1>16, <1>17 DEF TimeoutLoop, ExpiryLoop
<1>22. CASE \E i \in Known : TxnTimesOut(i) \/ IdExpires(i)
  BY <1>22, <1>13, <1>14
<1> QED BY <1>11, <1>18, <1>19, <1>20, <1>21, <1>22 DEF Next

\* PidsResolve of expiry_loop(), which erases an entry and its producer id in two steps, against
\* init_producer_id(), which allocates a producer id and files it in two steps.  It rests on
\* ProducerIdAllocator never giving a number twice: for a coordinator that is started once,
\* before the first request.
THEOREM PidsAreResolved ==
    ASSUME StartFirst, MaxStarts = 1
    PROVE  Spec => []PidsResolve
<1>1. Init => PidInv
  BY DEF Init, PidInv, PidsResolve, PidsApart, NotBeforeStart, Known, Creating, Idle
<1>2. IInv /\ IInv' /\ PidInv /\ [Next]_vars => PidInv'
  BY NextPidInv
<1>3. PidInv => PidsResolve
  BY DEF PidInv
<1> QED BY <1>1, <1>2, <1>3, InitIInv, NextIInv, PTL DEF Spec
=============================================================================
