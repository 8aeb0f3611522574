----------------------- MODULE TransactionCoordinator -----------------------
(***************************************************************************)
(* The transaction coordinator of one broker,                              *)
(* src/torrent/broker/transaction_coordinator.cpp.                         *)
(*                                                                         *)
(* An operation resolves its producer id under pid_map_mutex, finds the    *)
(* entry of the transactional id under states_mutex, and goes on under the *)
(* state_mutex of the entry with a raw pointer to it.  init_producer_id()  *)
(* and the expiry thread may free the entry in between.                    *)
(*                                                                         *)
(* end_txn() holds state_mutex while write_txn_markers() locks it again.   *)
(* state_mutex is a std::mutex, so the thread waits for itself for ever.   *)
(* Who locks that entry under states_mutex then never gives states_mutex   *)
(* back either (states_held).                                              *)
(*                                                                         *)
(* The markers themselves are a stub in the code: only the locks of        *)
(* write_txn_markers() are modelled, and no partitions.                    *)
(***************************************************************************)
EXTENDS Integers, FiniteSets

CONSTANTS
    Thread,         \* threads of the broker that call the coordinator
    TxnId,          \* transactional ids
    NoEntry, None,  \* no entry in the map; no transactional id
    kMaxEpoch,      \* the largest producer_epoch_t, 32767 for the int16_t of the code
    StartFirst      \* is start() called before the first request?

CONSTANTS           \* bounds of the explored state space
    MaxPid,         \* producer ids
    MaxCalls,       \* calls of the operations
    MaxStarts       \* calls of start()

VARIABLES
    txn_states,                 \* txn_states[i]: the entry of i, or NoEntry
    pid_to_transactional_id,    \* None: the producer id is not in the map
    next_pid,
    thread,                     \* thread[t]: the call t is inside
    timeouter, expirer,         \* where timeout_loop() and expiry_loop() are
    control,                    \* start() and shutdown(), and the flags they set
    states_held,                \* does a thread that waits for ever hold states_mutex?
    active_transactions,
    used,                       \* how much of the bounds has been used, and entries made
    freed_use                   \* history: has a call gone on with a pointer to a freed entry?

vars == <<txn_states, pid_to_transactional_id, next_pid, thread, timeouter, expirer,
          control, states_held, active_transactions, used, freed_use>>

ASSUME SetsAssumption == IsFiniteSet(TxnId) /\ None \notin TxnId
ASSUME EpochAssumption == kMaxEpoch \in Nat
ASSUME BoundAssumption == MaxPid \in Nat /\ MaxCalls \in Nat /\ MaxStarts \in Nat
ASSUME StartAssumption == StartFirst \in BOOLEAN
-----------------------------------------------------------------------------
Pid == 0 .. MaxPid
kInvalidProducerId == -1
Epoch == 0 .. kMaxEpoch
Prepared == {"prepare_commit", "prepare_abort"}
TxnState == {"empty", "ongoing"} \cup Prepared

\* A time is kept as whether it is too long ago: `timed_out' for txn_start_time, `expired' for
\* last_activity.  `object' tells the entry from others of its id, before and after it.
\* History: `by', the epochs that the calls that have taken part in the transaction presented.
TransactionalIdState ==
    [producer_id : Pid, producer_epoch : Epoch, txn_state : TxnState,
     timed_out : BOOLEAN, expired : BOOLEAN, object : Nat, by : SUBSET Epoch]

ASSUME EntryAssumption == NoEntry \notin TransactionalIdState

NewEntry(pid, object) ==
    [producer_id |-> pid, producer_epoch |-> 0, txn_state |-> "empty",
     timed_out |-> FALSE, expired |-> FALSE, object |-> object, by |-> {}]

Known == {i \in TxnId : txn_states[i] # NoEntry}
Busy == {i \in Known : txn_states[i].txn_state # "empty"}

\* A call is about to create its entry, has resolved its producer id, has found its entry, is
\* in write_txn_markers() with state_mutex, or waits for ever.
Call == [at : {"creating", "resolved", "found", "marking", "stuck"},
         op : {"init", "add", "offsets", "end"}, id : TxnId,
         pid : Pid \cup {kInvalidProducerId},    \* the producer id allocated
         epoch : Epoch,                          \* the epoch presented
         object : Nat]                           \* the entry found, 0 for none
Idle == [at |-> "idle", op |-> "none", id |-> None, pid |-> kInvalidProducerId, epoch |-> 0,
         object |-> 0]

\* Is the entry of i that was found as `object' still there, or has it been freed?
Points(i, object) == i \in Known /\ txn_states[i].object = object
Live(t) == Points(thread[t].id, thread[t].object)

\* The entries whose state_mutex is held between two steps.
Locked == {thread[t].id : t \in {s \in Thread : /\ thread[s].at \in {"marking", "stuck"}
                                                /\ thread[s].op = "end" /\ Live(s)}}

\* May a thread lock states_mutex?
Shared == states_held # "unique"
Unique == states_held = "free"
-----------------------------------------------------------------------------
reset_transaction(e) == [e EXCEPT !.txn_state = "empty", !.timed_out = FALSE,
                                  !.expired = FALSE, !.by = {}]

\* Mutant: no guard against the overflow of the epoch.
bumped_unguarded(epoch) == epoch + 1

bumped(epoch) == IF epoch + 1 > kMaxEpoch THEN 0 ELSE epoch + 1

\* init_producer_id(), phase 2.
reinitialized(e) ==
    [(IF e.txn_state = "empty" THEN e ELSE reset_transaction(e))
     EXCEPT !.producer_epoch = bumped(@), !.expired = FALSE]

\* add_partitions_to_txn().  When the broker does not lead a partition the call fails half-way,
\* after the transaction has begun and before its activity is noted.
added(e, epoch, failed) ==
    [e EXCEPT !.txn_state = "ongoing", !.by = @ \cup {epoch},
              !.timed_out = IF e.txn_state = "empty" THEN FALSE ELSE @,
              !.expired = IF failed THEN @ ELSE FALSE]

\* The code loads the counter and subtracts in two steps.  They are one here: only a call that goes
\* on in freed memory could subtract in between, and after such a call nothing is said of the counter.
Less1(n) == IF n > 0 THEN n - 1 ELSE n

Init ==
    /\ txn_states = [i \in TxnId |-> NoEntry]
    /\ pid_to_transactional_id = [p \in Pid |-> None]
    /\ next_pid = 0
    /\ thread = [t \in Thread |-> Idle]
    /\ timeouter = [pc |-> "off", todo |-> {}, at |-> None, object |-> 0]
    /\ expirer = [pc |-> "off", todo |-> {}, pid |-> kInvalidProducerId]
    /\ control = [running |-> FALSE, timeout_running |-> FALSE, expiry_running |-> FALSE,
                  stopping |-> "no"]
    /\ states_held = "free"
    /\ active_transactions = 0
    /\ used = [calls |-> 0, starts |-> 0, made |-> 0]
    /\ freed_use = FALSE

maps == <<txn_states, pid_to_transactional_id>>
loops == <<timeouter, expirer, control>>
counters == <<active_transactions, used>>

\* The thread gets its answer.
Return(t) == thread' = [thread EXCEPT ![t] = Idle]

\* The thread waits for a state_mutex that is never given back, with states_mutex in its hands.
Stuck(t, call) ==
    /\ thread' = [thread EXCEPT ![t] = [call EXCEPT !.at = "stuck"]]
    /\ states_held' = "shared"

(* init_producer_id() *)

\* The thread begins a call.
Begin(t) ==
    /\ thread[t] = Idle /\ (StartFirst => used.starts > 0)
    /\ used.calls < MaxCalls /\ used' = [used EXCEPT !.calls = @ + 1]

\* Mutant: the counter is read and not advanced.
allocate_again == next_pid <= MaxPid /\ next_pid' = next_pid

\* ProducerIdAllocator::allocate(), under its own mutex; the blocks have no effect.
allocate == next_pid <= MaxPid /\ next_pid' = next_pid + 1

\* For a producer without a transactional id.
InitOneShot(t) ==
    /\ Begin(t)
    /\ allocate
    /\ UNCHANGED <<maps, thread, loops, active_transactions, states_held, freed_use>>

\* Mutant: the fenced transaction is no longer counted, though timeout_loop() may have it still
\* on its list.
InitExisting_uncounted(t) ==
    /\ Begin(t) /\ Shared
    /\ \E i \in Known \ Locked :
        /\ txn_states' = [txn_states EXCEPT ![i] = reinitialized(@)]
        /\ active_transactions' = IF i \in Busy THEN Less1(active_transactions)
                                  ELSE active_transactions
    /\ UNCHANGED <<pid_to_transactional_id, next_pid, thread, loops, states_held,
                   freed_use>>

InitExisting(t) ==
    /\ Begin(t) /\ Shared
    /\ \E i \in Known \ Locked :
        txn_states' = [txn_states EXCEPT ![i] = reinitialized(@)]
    /\ UNCHANGED <<pid_to_transactional_id, next_pid, thread, loops, active_transactions, states_held,
                   freed_use>>

InitWaits(t) ==
    /\ Begin(t) /\ Shared
    /\ \E i \in Locked :
        Stuck(t, [Idle EXCEPT !.op = "init", !.id = i])
    /\ UNCHANGED <<maps, next_pid, loops, active_transactions, freed_use>>

\* There is no entry, states_mutex is given up and a producer id allocated, ...
InitAllocate(t) ==
    /\ Begin(t) /\ Shared
    /\ allocate
    /\ \E i \in TxnId \ Known :
        thread' = [thread EXCEPT ![t] = [Idle EXCEPT !.at = "creating", !.op = "init",
                                                     !.id = i, !.pid = next_pid]]
    /\ UNCHANGED <<maps, loops, active_transactions, states_held, freed_use>>

\* ... and the new entry takes the place of any that is there by now, which is freed.
InitCreate(t) ==
    LET i == thread[t].id
        pid == thread[t].pid
    IN  /\ thread[t].at = "creating" /\ Unique
        /\ txn_states' = [txn_states EXCEPT ![i] = NewEntry(pid, used.made + 1)]
        /\ pid_to_transactional_id' = [pid_to_transactional_id EXCEPT ![pid] = i]
        /\ used' = [used EXCEPT !.made = @ + 1]
        /\ Return(t)
        /\ UNCHANGED <<next_pid, loops, states_held, active_transactions, freed_use>>

(* add_partitions_to_txn(), add_offsets_to_txn() and end_txn() *)

Resolve(t) ==
    /\ Begin(t)
    /\ \E p \in Pid, e \in Epoch, op \in {"add", "offsets", "end"} :
        /\ pid_to_transactional_id[p] # None
        /\ thread' = [thread EXCEPT ![t] = [Idle EXCEPT !.at = "resolved", !.op = op,
                                            !.id = pid_to_transactional_id[p], !.epoch = e]]
    /\ UNCHANGED <<maps, next_pid, loops, states_held, active_transactions, freed_use>>

Find(t) ==
    /\ thread[t].at = "resolved" /\ Shared
    /\ \/ /\ thread[t].id \in Known
          /\ thread' = [thread EXCEPT ![t].at = "found",
                                      ![t].object = txn_states[thread[t].id].object]
       \/ thread[t].id \notin Known /\ Return(t)
    /\ UNCHANGED <<maps, next_pid, loops, states_held, counters, freed_use>>

\* t has found its entry, it is still there and its mutex is free.
AtEntry(t, op) ==
    /\ thread[t].at = "found" /\ thread[t].op = op /\ Live(t)
    /\ thread[t].id \notin Locked

\* Mutant: the epoch is not compared.
Fenced_never(t) == FALSE

\* check_producer_epoch(); the producer id is not compared with the one of the entry.
Fenced(t) == thread[t].epoch # txn_states[thread[t].id].producer_epoch

\* The states in which an operation is not refused.
Allowing(op) == IF op = "add" THEN {"empty", "ongoing"} ELSE {"ongoing"}

Refused(t, op) ==
    /\ AtEntry(t, op)
    /\ Fenced(t) \/ txn_states[thread[t].id].txn_state \notin Allowing(op)
    /\ Return(t)
    /\ UNCHANGED <<maps, next_pid, loops, states_held, counters, freed_use>>

AddPartitionsToTxn(t) ==
    LET i == thread[t].id
        e == txn_states[i]
    IN  /\ AtEntry(t, "add") /\ ~Fenced(t)
        /\ \/ e.txn_state = "empty" /\ active_transactions' = active_transactions + 1
           \/ e.txn_state = "ongoing" /\ UNCHANGED active_transactions
        /\ \E failed \in BOOLEAN : txn_states' = [txn_states EXCEPT ![i] = added(@, thread[t].epoch, failed)]
        /\ Return(t)
        /\ UNCHANGED <<pid_to_transactional_id, next_pid, loops, states_held, used, freed_use>>

AddOffsetsToTxn(t) ==
    LET i == thread[t].id
    IN  /\ AtEntry(t, "offsets") /\ ~Fenced(t)
        /\ txn_states[i].txn_state = "ongoing"
        /\ txn_states' = [txn_states EXCEPT ![i].expired = FALSE, ![i].by = @ \cup {thread[t].epoch}]
        /\ Return(t)
        /\ UNCHANGED <<pid_to_transactional_id, next_pid, loops, states_held, counters,
                       freed_use>>

\* end_txn() up to the call of write_txn_markers().
EndTxn(t) ==
    LET i == thread[t].id
    IN  /\ AtEntry(t, "end") /\ ~Fenced(t)
        /\ txn_states[i].txn_state = "ongoing"
        /\ \E s \in Prepared :
              txn_states' = [txn_states EXCEPT ![i].txn_state = s, ![i].by = @ \cup {thread[t].epoch}]
        /\ thread' = [thread EXCEPT ![t].at = "marking"]
        /\ UNCHANGED <<pid_to_transactional_id, next_pid, loops, states_held, counters,
                       freed_use>>

\* write_txn_markers() locks the mutex that its thread holds, ...
EndTxnMarkers(t) ==
    /\ thread[t].at = "marking" /\ Live(t) /\ Shared
    /\ thread' = [thread EXCEPT ![t].at = "stuck"]
    /\ UNCHANGED <<maps, next_pid, loops, states_held, counters, freed_use>>

\* ... or finds another entry, or none, and end_txn() completes in freed memory.
EndTxnFreed(t) ==
    /\ thread[t].at = "marking" /\ ~Live(t) /\ Shared
    /\ thread[t].id \notin Locked
    /\ active_transactions' = Less1(active_transactions)
    /\ freed_use' = TRUE
    /\ Return(t)
    /\ UNCHANGED <<maps, next_pid, loops, states_held, used>>

\* The entry has been freed before the call has locked it: what the call finds there may be
\* anything, and only the counter outlives it.
Dangling(t) ==
    /\ thread[t].at = "found" /\ ~Live(t)
    /\ \/ UNCHANGED active_transactions
       \/ thread[t].op = "add" /\ active_transactions' = active_transactions + 1
       \/ thread[t].op = "end" /\ active_transactions' = Less1(active_transactions)
    /\ freed_use' = TRUE
    /\ Return(t)
    /\ UNCHANGED <<maps, next_pid, loops, states_held, used>>

(* timeout_loop() *)

TimeoutAwake ==
    /\ timeouter.pc = "awake"
    /\ timeouter' = [timeouter EXCEPT !.pc = IF control.timeout_running THEN "scan" ELSE "off"]
    /\ UNCHANGED <<maps, next_pid, thread, expirer, control, states_held, counters, freed_use>>

\* Mutant: last_activity is compared in place of txn_start_time.
timed_out_ids_idle == {i \in Busy : txn_states[i].txn_state = "ongoing" /\ txn_states[i].expired}

timed_out_ids == {i \in Busy : txn_states[i].txn_state = "ongoing" /\ txn_states[i].timed_out}

TimeoutScan ==
    /\ timeouter.pc = "scan" /\ Shared
    /\ \/ /\ Locked = {}
          /\ timeouter' = [timeouter EXCEPT !.pc = "abort", !.todo = timed_out_ids]
          /\ UNCHANGED states_held
       \/ /\ Locked # {}
          /\ timeouter' = [timeouter EXCEPT !.pc = "stuck"]
          /\ states_held' = "shared"
    /\ UNCHANGED <<maps, next_pid, thread, expirer, control, counters, freed_use>>

TimeoutFind ==
    /\ timeouter.pc = "abort" /\ Shared
    /\ \E i \in timeouter.todo :
        timeouter' = IF i \in Known
                     THEN [pc |-> "found", todo |-> timeouter.todo \ {i}, at |-> i,
                           object |-> txn_states[i].object]
                     ELSE [timeouter EXCEPT !.todo = @ \ {i}]
    /\ UNCHANGED <<maps, next_pid, thread, expirer, control, states_held, counters, freed_use>>

TimeoutDone ==
    /\ timeouter.pc = "abort" /\ timeouter.todo = {}
    /\ timeouter' = [timeouter EXCEPT !.pc = "awake"]
    /\ UNCHANGED <<maps, next_pid, thread, expirer, control, states_held, counters, freed_use>>

\* write_txn_markers() looks the entry up again and locks it for a moment.
TimeoutMarkers ==
    /\ timeouter.pc = "found" /\ Shared
    /\ timeouter.at \notin Locked
    /\ timeouter' = [timeouter EXCEPT !.pc = "marked"]
    /\ UNCHANGED <<maps, next_pid, thread, expirer, control, states_held, counters, freed_use>>

\* Whatever transaction the entry has by now is aborted, if it has not been freed.
TimeoutReset ==
    /\ timeouter.pc = "marked"
    /\ \/ /\ Points(timeouter.at, timeouter.object) /\ timeouter.at \notin Locked
          /\ txn_states' = [txn_states EXCEPT ![timeouter.at] = reset_transaction(@)]
          /\ UNCHANGED freed_use
       \/ /\ ~Points(timeouter.at, timeouter.object)
          /\ freed_use' = TRUE
          /\ UNCHANGED txn_states
    /\ timeouter' = [timeouter EXCEPT !.pc = "count", !.at = None, !.object = 0]
    /\ UNCHANGED <<pid_to_transactional_id, next_pid, thread, expirer, control, states_held,
                   counters>>

TimeoutCount ==
    /\ timeouter.pc = "count"
    /\ active_transactions' = Less1(active_transactions)
    /\ timeouter' = [timeouter EXCEPT !.pc = "abort"]
    /\ UNCHANGED <<maps, next_pid, thread, expirer, control, states_held, used, freed_use>>

(* expiry_loop() *)

ExpiryAwake ==
    /\ expirer.pc = "awake"
    /\ expirer' = [expirer EXCEPT !.pc = IF control.expiry_running THEN "scan" ELSE "off"]
    /\ UNCHANGED <<maps, next_pid, thread, timeouter, control, states_held, counters, freed_use>>

ExpiryScan ==
    /\ expirer.pc = "scan" /\ Shared
    /\ \/ /\ Locked = {}
          /\ expirer' = [expirer EXCEPT !.pc = "expire",
                                        !.todo = {i \in Known \ Busy : txn_states[i].expired}]
          /\ UNCHANGED states_held
       \/ /\ Locked # {}
          /\ expirer' = [expirer EXCEPT !.pc = "stuck"]
          /\ states_held' = "shared"
    /\ UNCHANGED <<maps, next_pid, thread, timeouter, control, counters, freed_use>>

\* Nothing is checked again: the entry may have been used or replaced since the scan.  It is
\* still there, for only this thread erases entries.
ExpiryErase ==
    /\ expirer.pc = "expire" /\ Unique
    /\ \E i \in expirer.todo \cap Known :
        /\ txn_states' = [txn_states EXCEPT ![i] = NoEntry]
        /\ expirer' = [pc |-> "unmap", todo |-> expirer.todo \ {i},
                       pid |-> txn_states[i].producer_id]
    /\ UNCHANGED <<pid_to_transactional_id, next_pid, thread, timeouter, control, states_held,
                   counters, freed_use>>

ExpiryDone ==
    /\ expirer.pc = "expire" /\ expirer.todo = {}
    /\ expirer' = [expirer EXCEPT !.pc = "awake"]
    /\ UNCHANGED <<maps, next_pid, thread, timeouter, control, states_held, counters, freed_use>>

ExpiryUnmap ==
    /\ expirer.pc = "unmap"
    /\ pid_to_transactional_id' = [pid_to_transactional_id EXCEPT ![expirer.pid] = None]
    /\ expirer' = [expirer EXCEPT !.pc = "expire", !.pid = kInvalidProducerId]
    /\ UNCHANGED <<txn_states, next_pid, thread, timeouter, control, states_held, counters,
                   freed_use>>

(* start() and shutdown() *)

\* No producer id has been saved, so initialize_from(0).
Start ==
    /\ ~control.running /\ control.stopping = "no" /\ used.starts < MaxStarts
    /\ next_pid' = 1
    /\ timeouter' = [pc |-> "awake", todo |-> {}, at |-> None, object |-> 0]
    /\ expirer' = [pc |-> "awake", todo |-> {}, pid |-> kInvalidProducerId]
    /\ control' = [running |-> TRUE, timeout_running |-> TRUE, expiry_running |-> TRUE,
                   stopping |-> "no"]
    /\ used' = [used EXCEPT !.starts = @ + 1]
    /\ UNCHANGED <<maps, thread, states_held, active_transactions, freed_use>>

Shutdown ==
    /\ control.running /\ control.stopping = "no"
    /\ control' = [control EXCEPT !.timeout_running = FALSE, !.stopping = "timeout"]
    /\ UNCHANGED <<maps, next_pid, thread, timeouter, expirer, states_held, counters, freed_use>>

ShutdownJoined ==
    /\ control.stopping = "timeout" /\ timeouter.pc = "off"
    /\ control' = [control EXCEPT !.expiry_running = FALSE, !.stopping = "expiry"]
    /\ UNCHANGED <<maps, next_pid, thread, timeouter, expirer, states_held, counters, freed_use>>

ShutdownAbort ==
    /\ control.stopping = "expiry" /\ expirer.pc = "off" /\ Unique
    /\ \E aborted \in SUBSET (Busy \ Locked) :
        /\ txn_states' = [i \in TxnId |-> IF i \in aborted THEN reset_transaction(txn_states[i])
                                          ELSE txn_states[i]]
        /\ \/ /\ Locked = {} /\ aborted = Busy
              /\ control' = [control EXCEPT !.running = FALSE, !.stopping = "no"]
              /\ UNCHANGED states_held
           \/ /\ Locked # {}
              /\ control' = [control EXCEPT !.stopping = "stuck"]
              /\ states_held' = "unique"
    /\ UNCHANGED <<pid_to_transactional_id, next_pid, thread, timeouter, expirer, counters,
                   freed_use>>

(* Time passes *)

TxnTimesOut(i) ==
    /\ txn_states[i].txn_state = "ongoing" /\ ~txn_states[i].timed_out
    /\ txn_states' = [txn_states EXCEPT ![i].timed_out = TRUE]
    /\ UNCHANGED <<pid_to_transactional_id, next_pid, thread, loops, states_held, counters,
                   freed_use>>

IdExpires(i) ==
    /\ ~txn_states[i].expired
    /\ txn_states' = [txn_states EXCEPT ![i].expired = TRUE]
    /\ UNCHANGED <<pid_to_transactional_id, next_pid, thread, loops, states_held, counters,
                   freed_use>>

\* A call that has begun, and the loop of a background thread.
Proceed(t) ==
    \/ InitCreate(t) \/ Find(t)
    \/ \E op \in {"add", "offsets", "end"} : Refused(t, op)
    \/ AddPartitionsToTxn(t) \/ AddOffsetsToTxn(t)
    \/ EndTxn(t) \/ EndTxnMarkers(t) \/ EndTxnFreed(t) \/ Dangling(t)
TimeoutLoop ==
    \/ TimeoutAwake \/ TimeoutScan \/ TimeoutDone
    \/ TimeoutFind \/ TimeoutMarkers \/ TimeoutReset \/ TimeoutCount
ExpiryLoop == ExpiryAwake \/ ExpiryScan \/ ExpiryErase \/ ExpiryUnmap \/ ExpiryDone

Next ==
    \/ \E t \in Thread : InitOneShot(t) \/ InitExisting(t) \/ InitWaits(t) \/ InitAllocate(t)
                         \/ Resolve(t) \/ Proceed(t)
    \/ TimeoutLoop \/ ExpiryLoop
    \/ Start \/ Shutdown \/ ShutdownJoined \/ ShutdownAbort
    \/ \E i \in Known : TxnTimesOut(i) \/ IdExpires(i)

Spec == Init /\ [][Next]_vars

\* Calls return and the loops go on as far as locks and bounds allow.
FairSpec ==
    /\ Spec
    /\ \A t \in Thread : WF_vars(Proceed(t))
    /\ WF_vars(TimeoutLoop) /\ WF_vars(ExpiryLoop)
-----------------------------------------------------------------------------
(* Properties. *)

\* Every field has its type; in particular no epoch leaves the range of producer_epoch_t when
\* init_producer_id() is called again and again.
TypeOK ==
    /\ txn_states \in [TxnId -> TransactionalIdState \cup {NoEntry}]
    /\ pid_to_transactional_id \in [Pid -> TxnId \cup {None}]
    /\ next_pid \in 0 .. MaxPid + 1
    /\ thread \in [Thread -> Call \cup {Idle}]
    /\ timeouter \in [pc : {"off", "awake", "scan", "abort", "found", "marked", "count", "stuck"},
                      todo : SUBSET TxnId, at : TxnId \cup {None}, object : Nat]
    /\ expirer \in [pc : {"off", "awake", "scan", "expire", "unmap", "stuck"},
                    todo : SUBSET TxnId, pid : Pid \cup {kInvalidProducerId}]
    /\ control \in [running : BOOLEAN, timeout_running : BOOLEAN, expiry_running : BOOLEAN,
                    stopping : {"no", "timeout", "expiry", "stuck"}]
    /\ states_held \in {"free", "shared", "unique"}
    /\ active_transactions \in Nat
    /\ used \in [calls : Nat, starts : Nat, made : Nat]
    /\ freed_use \in BOOLEAN

\* The producer id of every entry leads back to its transactional id, so a producer that has
\* not expired is never told unknown_producer_id, and no two ids share a producer.  The two maps
\* are written under two locks, by init_producer_id() and in two steps by expiry_loop().
PidsResolve ==
    \A i \in Known : pid_to_transactional_id[txn_states[i].producer_id] = i

\* A transaction is the work of one epoch: every call that has added to it or prepared its end
\* presented the epoch the entry has now, so that nothing a producer did before
\* init_producer_id() fenced it, and nothing it tries afterwards, is committed or aborted with
\* the transaction of its successor (check_producer_epoch() and the reset in init_producer_id()).
OneEpochPerTransaction ==
    \A i \in Known :
        txn_states[i].by = IF i \in Busy THEN {txn_states[i].producer_epoch} ELSE {}

\* active_transactions is never less than the number of transactions there are, although
\* timeout_loop() counts one off for every id on its list without a look at what it aborts, as
\* long as no freed memory has been used.
NoneUncounted == ~freed_use => active_transactions >= Cardinality(Busy)

\* A transaction that has timed out is aborted, unless timeout_loop() is stopped or an
\* end_txn() has taken a state_mutex for good.
TimedOutAborted ==
    \A i \in TxnId :
        control.timeout_running /\ i \in Busy /\ txn_states[i].timed_out
        ~> \/ i \notin Busy \/ ~txn_states[i].timed_out \/ ~control.timeout_running
           \/ \E t \in Thread : thread[t].at \in {"marking", "stuck"}

\* transaction_coordinator.cpp:35, "PrepareCommit -> (WriteMarkers complete) -> CompleteCommit ->
\* Empty": a transaction that is being ended comes to its end.
PreparedEnds ==
    \A i \in TxnId : i \in Known /\ txn_states[i].txn_state \in Prepared
                     ~> i \notin Known \/ txn_states[i].txn_state = "empty"
=============================================================================
