# Formal models of torrent-mq

torrent-mq is a distributed message queue in C++: a broker that speaks a
Kafka-like protocol, keeps its records in segment files, and replicates its
metadata with Raft. This directory holds TLA+ modules that model parts of it,
TLC configurations that check them on small instances, and TLAPS proofs that
hold for every instance. Paths below are relative to the repository's root.

## 1. The system

### Inventory

| Component | State | Operations | Hard behaviour | Properties that make it correct |
|---|---|---|---|---|
| **RaftNode** `src/torrent/consensus/raft_node.cpp` | role, term, vote, log, commit and apply positions, membership (plain or joint), per-follower progress, a running transfer | election and heartbeat threads; the two RPC handlers and their two reply handlers; propose; apply; transfer_leadership; step_down; start, shutdown | competing elections, late, lost and repeated messages, a step-down in the middle of everything, failing senders and disks, restarts, a membership that changes while it is used | one vote per term; one leader per term; logs that agree on an index agree below it; state machines agree; a leader keeps its log; configuration determined by the applied prefix |
| **DistributedLockManager** `src/torrent/broker/dlm.cpp` | lock table with owner, fencing token, last activity | try_lock, unlock, force_release, validate_fencing, cleanup thread, start, shutdown | a call takes and gives up `table_mutex` once per phase | one owner at a time; a fenced-off holder stays out; the table is bounded; a dead owner loses its lock |
| DiskRaftLog `consensus/raft_log.cpp` | segments, index, CRCs | append, truncate_prefix, truncate_suffix, get_entries, recovery | a crash inside an append; two mutexes taken in different orders | implements the RaftLog contract RaftNode relies on, across crashes |
| RaftSnapshot `consensus/raft_snapshot.cpp` | snapshot files, a chunked transfer | create, install chunk, finish, discard | lost and repeated chunks, a newer snapshot overtaking an older one | an installed snapshot is one that was taken |
| ElectionEngine, HeartbeatEngine, MembershipManager `consensus/raft_election.cpp`, `raft_heartbeat.cpp`, `raft_membership.cpp` | vote tracker, follower health, pending change | rounds, ticks, proposals | timers against replies | as RaftNode; they are free-standing and RaftNode uses none of them |
| RaftRpc `consensus/raft_rpc.cpp` | connections, pending calls | send with retry | a retry of what was already done | at-least-once delivery: this is the network of the RaftNode module |
| MetadataManager `consensus/metadata_manager.cpp` | topics, partitions, replicas | apply a command, query | commands applied in log order on every broker | the same commands give the same metadata |
| **ConsumerGroupManager** `broker/consumer_group_manager.cpp` | groups: state, generation, leader, members, subscriptions; committed offsets in a store and in the group | join, sync, heartbeat, leave, offset commit and fetch, session expiry, deletion, cleanup thread | joins and expiries during a rebalance; raw pointers kept over a lock; two critical sections per commit and per deletion | one leader; a generation stands for one membership and is never used twice; assignments cover and are even; a silent member goes; a deleted offset stays deleted |
| **TransactionCoordinator** `broker/transaction_coordinator.cpp` | producer id, epoch and transaction state per transactional id, the map back from producer ids, a counter of transactions | init_producer_id, add_partitions_to_txn, add_offsets_to_txn, end_txn, write_txn_markers, timeout thread, expiry thread, start, shutdown | three locks taken one after the other, raw pointers kept over them, a timeout racing everything, an epoch that wraps | a transaction is the work of one epoch; ids and producer ids lead to each other; none goes uncounted; what times out is aborted; what is prepared ends |
| Controller `broker/controller.cpp`; PartitionManager, TopicManager `broker/partition_manager.cpp`, `topic_manager.cpp` | broker liveness, partition leaders, in-sync replicas, topics | failover, reassignment, topic creation and deletion | brokers that come back while they are replaced | a leader is in sync; no partition has two leaders |
| LogManager, Segment and indexes `storage/` | segments, offsets, indexes | append, roll, read, truncate, recover | a crash between log and index; readers during a roll | offsets dense and increasing; an index never points past the log |
| ThreadPool, RateLimiter, FlowControl, ConnectionLimiter, ConnectionPool, BatchCache `common/`, `network/`, `storage/` | queues, counters, tokens | acquire, release, submit, evict | limits under concurrency, shutdown with waiters | limits hold; nothing acquired is lost; waiters are woken |
| Server, RequestDispatcher, InterBroker, client handlers, transports, codecs | connections | decode, route, encode | I/O | state lives in the components above |
| Quota, retention, compaction managers, LeaderBalancer | usage counters, schedules | periodic passes | wall-clock policies | limits respected |
| Streams, connectors, schema registry, proxies, security, metrics, admin, CLI | per-feature tables | processing, translation | mostly sequential | outside the core |

Clients talk to the Server, which hands requests to the coordinators and to the
partition logs; metadata changes are proposed to RaftNode, and a committed
entry is handed to the state machine through the apply callback; RaftNode calls
its senders and its RaftLog with `mutex_` held; the lock manager would propose
its commands to RaftNode, but in this version calls a stub
(`simulate_raft_propose`) that always succeeds.

Two facts about the repository matter to a reader. The broker directory is not in
CMake's source list, and `dlm.cpp` defines members its header does not declare,
so the lock manager and the two coordinators are modelled as written rather than
as built. And the files
named `*_v2`, `*_expansion`, `*_full`, `*_internals`, and `gen_batch*`,
`verbose_gen*`, `final_*` under `common/` (more than half of the repository's
lines) are free-standing: they are outside the build and no component calls them.

## 2. Modules

| Module | What it is |
|---|---|
| `RaftNode` | the consensus engine: a cluster of RaftNode objects and the network between them |
| `RaftNodeProofs` | types, votes and terms, proved for every cluster |
| `RaftStepLemmas` | what each function changes and sends; every step as one of a dozen effects |
| `RaftLogProofs` | a leader only appends; logs match |
| `RaftElectionProofs` | what two leaders of one term need |
| `RaftConfigProofs` | configurations agree; the follower map follows the role |
| `MCRaft` | three nodes and a member replacement, for TLC |
| `LockService` | what a caller of the lock manager may rely on (abstract specification) |
| `DistributedLockManager` | the lock table and the phases of its calls; refines `LockService` |
| `DistributedLockManagerProofs` | types, refinement, fencing and the table bound, proved |
| `MCLocks` | two threads, two owners and up to three locks, for TLC |
| `PartitionAssignor` | the range, round-robin and sticky strategies as operators on sets |
| `ConsumerGroupManager` | the group coordinator: groups, calls in progress, the cleanup thread, offsets |
| `ConsumerGroupManagerProofs` | types, leaders, generations and deleted offsets, proved |
| `MCGroups` | one group and up to three members, for TLC |
| `GroupRejoin` | who has rejoined since a rebalance began: history beside `ConsumerGroupManager`, for finding 4 |
| `TransactionCoordinator` | the transaction coordinator: entries, calls in progress, the two background threads, locks held for ever |
| `TransactionCoordinatorProofs` | types, fencing, the counter and producer ids, proved |
| `MCTransactions` | two threads and one transactional id, for TLC |

### RaftNode

`node[n]` is a record with the fields of the C++ object, without the trailing
underscore. Each C++ function is an operator from that record to the next one
(`become_follower`, `handle_append_entries`, ...), and chains of calls are
compositions of operators, so an action is the whole handler. RPCs that a
handler gives to `ae_sender_` or `rv_sender_`, or returns as its response,
collect in the field `out`; `Step` puts them on the network when the handler
ends. Every handler holds `mutex_` from its first to its last line, so it is one
step, with three exceptions:

* `apply_committed()` runs inside the handler that advanced `commit_index_`, and
  is one step per entry here. `applying(n)` says that `mutex_` is held and
  disables every other step of `n`, so the split only lets other nodes move
  meanwhile. The reply of the handler is on the network a little earlier than in
  the code, where it leaves when the loop ends; another node can not tell.
* `transfer_leadership()` gives `mutex_` up while it sleeps: `TransferBegin`,
  `TransferResume` and `TransferFinish`. It keeps an iterator into
  `follower_states_` over the sleep. When a step-down has cleared the map, the
  read through it is undefined, and the model takes either outcome.
* `Shutdown` leaves the object in place with its threads ended; handlers still
  answer, as in the code.

`msgs` is a set: messages arrive in any order, and a message may be delivered
again (`MaxDuplicates`) or never. Rather than a separate loss action, a timer
step chooses which messages will not arrive and drops them; a message that stays
in flight for ever and a lost one can not be told apart by the safety
properties, and dropping at timers alone keeps the state space small.

Time is not represented. An election deadline may pass at any moment on a node
that is not Leader, the heartbeat thread may wake at any moment on a Leader, and
a Leader may at any moment find too few recent acknowledgements (`StepDown`).
The code's timing is one of the schedules this allows.

`Env` is what may fail during a step: senders that throw (`down`) and
`RaftLog::append` that fails (`disk`). A failing step costs one of `MaxFaults`. The
sends of transfer_leadership may fail too.

Member lists are sets. The comparison in apply_joint_consensus_finalization
(`raft_node.cpp:1495`) is one of vectors: a list with the same members in another
order would be set again there, to the same set, so that nothing the model has
depends on it.

`Init`: a new RaftNode knows no members until it applies a configuration entry,
and a node without members never campaigns. A cluster is therefore started by an
AppendEntries of term 1 that carries the first configuration; the initial state
is the one after that.

### DistributedLockManager

`thread[t]` is the call thread `t` is inside and the phase it is at. try_lock is
`TryLock` (the check, phase 1), `CheckCapacity` (2), `Grant` (4); unlock is
`Unlock` (the check) and `Clear` (the release). Phase 3 of try_lock and phase 2
of unlock are the proposal stub, which changes nothing. The cleanup thread is
`CleanupWake` and `CleanupScan`, since the flag it reads and the scan are two
critical sections. `now` is the clock: unlike Raft's, expiry compares times, so
time is explicit, and `Tick` may fall between any two steps. `life[n]` counts
how often lock `n` was entered in the table and `grants` records every grant:
both are history. Counters of the statistics and the bytes of the command, which
the stub discards, are left out.

### ConsumerGroupManager

`groups[g]` is the GroupMetadata of group `g` with the flags of its members as
sets. join_group, leave_group, sync_group and heartbeat find their group under
`groups_mutex`, give that lock up and lock the group through a raw pointer:
`JoinBegin` or `FindGroup` is the first half and `JoinGroup`, `LeaveGroup`,
`SyncGroup` or `Heartbeat` the second. If delete_group or the cleanup thread has
freed the group in between, the second half is `Dangling`: what the call does is
undefined and is lost with the memory, and its answer may be any. (A group that
is freed while a call is inside its mutex counts as freed before or after the
call.) commit_offset writes the store and the cache under different locks
(`CommitOffset`, `CommitCached`), and delete_group erases the group and the store
under different locks (`DeleteGroup`, `DeleteOffsets`). The cleanup thread visits
one group per step and may be overtaken between any two.

What happens to a group is a chain of operators (`joined`, `departed`, `synced`)
on its record. `members.begin()` of an unordered map is any member. A time is
kept as whether it is too long ago: a session may expire at any step
(`SessionExpires`), so the length of the timeout, which set_session_timeout()
sets, plays no part; an empty group may grow too old (`EmptyGroupAges`). `stable`
and `buried` are history: the last generation a group settled with, and the
offsets a finished delete_group must have removed. One partition per group stands
for its offsets, and every commit has a number of its own.

`PartitionAssignor` holds the strategies. Member ids and topic names are
integers, ordered as the code orders its strings.

### TransactionCoordinator

`txn_states[i]` is the entry of a transactional id, and `thread[t]` the call that
thread `t` is inside. add_partitions_to_txn, add_offsets_to_txn and end_txn share
their first two locks: `Resolve` reads the producer id under `pid_map_mutex`,
`Find` the entry under `states_mutex`. The third is the `state_mutex` of the
entry, taken through a raw pointer: `AddPartitionsToTxn`, `AddOffsetsToTxn`,
`EndTxn`, or `Refused`; `Dangling` if the entry was freed meanwhile.
init_producer_id is `InitOneShot`, `InitExisting`, or `InitAllocate` and
`InitCreate`, between which another call may have created the entry.
timeout_loop and expiry_loop are one step per lock they take.

Locks that are released within a step need no variable. The exception is
end_txn, which calls write_txn_markers with `state_mutex` in its hands.
write_txn_markers locks the same `std::mutex`; a thread that does so waits for
itself. `Locked` are the entries whose mutex is held by such a thread, and
`states_held` says how a thread that waits for one of them holds `states_mutex`
for ever. A model without these would show commits that the code never reaches.

Times are flags as above. `object` numbers the entries an id has had: a raw pointer is
`Live` while the entry of its id is still that object (`Points`), so that an entry
replaced by another init_producer_id counts as freed although the id is known.
`by` is history: the epochs presented by the calls that took part in the transaction of
an entry, by adding partitions or offsets or by preparing its end. They are what the
calls came with, not what the entry holds. `freed_use` is history: whether some call has gone on
with a freed entry. Partitions are not represented: write_txn_markers is a stub
that writes nothing.

## 3. What TLC checks

Deadlock is not checked: with every bound used up a model has nothing left to
do, and an idle cluster or lock table waits for input.

| Run | Checks | Shows |
|---|---|---|
| `raft_votes` | TypeOK, OneVotePerTerm, VoteRemembered, TermMonotone, LeaderAppendOnly | pre-vote on, competing elections over three terms, late and lost replies; a leader keeps its log even when a second node claims its term, as finding 3 lets it |
| `raft_lifecycle` | TrackingMatchesRole | step-down by higher term, shutdown, finished and abandoned transfer, with a failing sender or disk in any of them |
| `raft_replication` | LogMatching | commands, losses, a message delivered twice, backtracking and leader changes over three terms |
| `raft_membership` | ConfigAgreement | a member replaced through joint consensus while leaders change, a node that joins late, a restart that replays the log |
| `dlm_locks` | TypeOK, TableBounded, ImplementsLockService, FencedForGood, SilentOwnerLoses | two threads, two locks, cleanup and shutdown interleaved; liveness of the cleanup thread |
| `raft_applied_agree` | StateMachineSafety violated | finding 1 |
| `raft_two_leaders` | ElectionSafety violated | finding 3: pre-vote on, as by default |
| `group_rebalance` | TypeOK, OneLeader, StableIsSynced, GenerationIsMembership, GenerationIsNew, AssignmentIsFair, SilentMemberRemoved | three members that join, leave, sync and time out in every state of a rebalance, over three generations; the assignment of every settled group over every set of topics (one of them without partitions) and strategy; liveness of the cleanup thread |
| `group_rejoin` | RejoinedFirst violated | finding 4 |
| `group_delete` | DeletedOffsetsGone | two threads inside commit_offset and delete_group, the cleanup thread, groups created anew |
| `txn_race` | TypeOK, PidsResolve, OneEpochPerTransaction, NoneUncounted, TimedOutAborted | two threads that present any producer id and epoch, timeout and expiry thread and shutdown, every lock a step of its own; liveness of the timeout thread |
| `txn_end` | PreparedEnds violated | finding 2 |

TypeOK carries two facts that are not type annotations in the C++ sense:
`in_flight`, an unsigned counter that heartbeat replies decrement too, never
goes below 0, and `next_index` never reaches 0 while backtracking. Likewise the
generation of a group and the producer epoch at its wrap-around.

`ElectionSafety` does not hold of the code (finding 3), and LogMatching needs it:
`raft_replication` has pre-vote off and no message that outlives a timer, which leaves no
room for a second leader of a term. The general statement is the theorem LogsMatch.
In the same way ConfigAgreement needs StateMachineSafety, which finding 1 breaks: with one message
delivered twice (`MaxDuplicates = 1`) the instance of `raft_membership` reaches that
finding and TLC finds ConfigAgreement violated too; the theorem ConfigurationsAgree says that
there is no other way.
`NoneUncounted` speaks of behaviours in which no freed memory was used: after
that nothing can be said of the counter.

### 3.1 Findings

1. `match_index` is taken from the follower's last index, which covers entries
   the leader has never compared (`raft_node.cpp:2160`, read at `:1834`): a
   leader counts a conflicting suffix as its own, commits alone, and a later
   leader hands its state machine another entry.
2. end_txn holds `state_mutex` and write_txn_markers locks it again
   (`transaction_coordinator.cpp:953`, called at `:908`): the thread waits for
   itself, the transaction stays in PrepareCommit or PrepareAbort, and
   init_producer_id, both background threads and shutdown come to a stop at that
   entry, with `states_mutex` in their hands.
3. handle_request_vote_response adds one vote for every granted reply that reaches a
   Candidate (`raft_node.cpp:2288`). A reply names neither its round nor whether it
   answers a pre-vote, so the grant of a pre-vote that arrives after become_candidate
   counts as a vote that nobody has cast. Two nodes that probe at one time both lead
   the next term.
4. join_group leaves PreparingRebalance when all_members_joined()
   (`consumer_group_manager.cpp:743`), "all members rejoined" (`:15`). It compares the
   generation of each member with that of the group, which nothing sets apart when a
   rebalance begins: it is always true, and the next join of anybody moves the group
   on, whoever has not rejoined.

### 3.2 Other differences between comments and code

Seen while modelling, and found by TLC in these models where a trace is given.

RaftNode:

* Finding 3 does not need pre-vote: without it, the late grants of an earlier term do the
  same. With `enable_pre_vote = FALSE`, three terms and two messages that outlive a timer
  (`MaxMsgs = 2`), TLC finds ElectionSafety violated.
* transfer_leadership sends the target a RequestVote that names the target as the
  candidate but comes from the old leader (`raft_node.cpp:1777` ff.), so the target's
  vote for itself is answered to the old leader. If that node stands in the same
  term, it counts the vote, and the target counts its own too. A granted reply that is
  delivered twice is counted twice as well, which matters from five nodes on: with
  three, a second vote is already a majority. These are further ways to a tally larger than
  the votes cast, which OneLeaderPerTerm (section 4) shows to be what it takes.
* A joint entry is applied with the `old_members` it names, whatever the members
  are by then (`:1485`), and propose does not compare them. A leader that applies one
  naming a node it has dropped before does not track that node until its next
  heartbeat. With `MaxLog = 5`, nine ticks and one election of the membership
  instance, TLC finds TrackingMatchesRole violated this way: the change is made
  directly first, and then proposed again as a joint one.
* `current_term_` and `voted_for_` are headed "Persistent state (survives
  restarts)" (`raft.h:468`) and are never written. With one restart
  (`MaxRestarts = 1`), TLC finds OneVotePerTerm violated.
* A pre-vote round that fails never ends: a timeout in state PreCandidate calls
  become_pre_candidate, which returns at once (`raft_node.cpp:525`), although
  `:556` says "we revert to Follower".
* The suffix after `prev_log_index` is removed whether or not it conflicts
  (`:2413`, against `raft.h:245`); `commit_index_` may be set back by a heartbeat
  with a smaller `prev_log_index` (`:1892`, against `raft.h:478`), without
  anything being applied twice; in joint consensus the larger quorum size is
  counted over the union of both configurations (`:988`, against `raft.h:28`).

DistributedLockManager:

* unlock checks the owner in one critical section and clears it in another
  (`dlm.cpp:422`). If the lock is forced or expires and is granted to somebody
  else in between, that owner loses it, against "unlock: propose lock release by
  owner" (`dlm.cpp:7`). LockService allows a lock to be taken away at any time,
  so ImplementsLockService holds.
* The number of entries is compared with `max_locks` in one critical section and the
  entry is made in another, so that the table may outgrow "max concurrently held locks"
  (`dlm.cpp:40`) by one for each other thread. TableBounded is that weaker bound, and
  counts the threads that may still add an entry with the table.
* A lock's fencing token starts again when its idle entry is erased or the table
  is cleared by a shutdown (`dlm.cpp:548`, against `dlm.cpp:15`), which is why
  `FencedForGood` speaks of one life of an entry. A try_lock that is past its
  check may enter its lock after shutdown has cleared the table.

ConsumerGroupManager:

* PreparingRebalance waits for nobody (finding 4).
* A group is used through a raw pointer after `groups_mutex` was given up, and may be
  freed by then (`Dangling`). What such a call does is undefined; the properties speak of the
  groups that are there.
* A member that leaves, or times out, in CompletingRebalance may be the last that
  had not synced. The group stays in CompletingRebalance with nobody left to wait
  for, although `:17` says it goes back to PreparingRebalance.
* cleanup_dead_groups collects empty groups under one lock and erases them under
  another (`:1280`): a group that somebody has joined meanwhile goes too, against
  "Groups in the Empty state" (`:1256`). Its offsets stay in the store.
* A group that becomes empty starts again from generation 0 (`:812`), so the
  numbers are used again; GenerationIsNew speaks of one life between two empty
  states.
* delete_group erases the offsets by name in its second section, those of a new
  group of the same name included.
* The assignment that sync_group computes is stored nowhere, the sticky strategy
  is given no previous assignment, and heartbeat never tells a member of a
  rebalance.

TransactionCoordinator:

* init_producer_id looks for the entry of an id and stores a new one under two holds of
  `states_mutex`, without a second look (`:645`). Of two first calls the later replaces
  the entry of the earlier, with epoch 0 again. Both producer ids lead to the entry that
  is left and check_producer_epoch compares epochs only, so both producers take part in
  one transaction, against "bump epoch, fence old" (`:5`).
* Fencing compares 16-bit epochs, and the epoch starts again from 0 after 32767
  (`:616`): a producer fenced that many initialisations ago is let in again.
  OneEpochPerTransaction speaks of epochs, and holds across the wrap.
* timeout_loop aborts whatever transaction an entry has when it gets there, and
  expiry_loop erases whatever entry an id has: neither looks again at why the id
  was on its list. A partition added between the markers of timeout_loop and its
  reset gets no marker.
* init_producer_id, shutdown and expiry_loop end transactions without counting
  them off: active_transactions is too large, never too small (NoneUncounted).
* start() sets the allocator to 1 whatever has been given out before
  (`:503`): producer ids are used again after a restart, or when requests precede
  start(). PidsResolve is stated for `StartFirst` and one start; in `server.cpp`
  nobody calls start().
* When this broker does not lead a partition, add_partitions_to_txn fails with
  the transaction begun.

### Bounds

Every bound is a CONSTANT used in a guard; the proofs hold for all values.

* Three nodes: the smallest cluster in which a majority excludes someone and two
  majorities overlap in one node. For the membership run, two members and one
  that joins: one is kept, one removed, one added.
* `MaxTimeouts` 2 to 4 with `MaxTerm` up to 4: two or more campaigns, enough
  for two candidates in one term and for a new leader after an old one.
* `MaxLog` 2 to 4: the seed, the NoOp of a leader, and a command or the two
  configuration entries after it. A conflict needs two leaders' NoOps at one
  index, which fits.
* `MaxTicks` up to 3 turns of heartbeat threads: the first turn after a proposal
  sends it, the next carries the commit index. The `raft_votes` and `raft_lifecycle` runs
  need no replication and use 0; become_leader's own heartbeats still flow. In
  `raft_replication` one turn is enough for a conflicting suffix to be sent and replaced, in
  `raft_membership` two are enough for a late joiner to be in the final configuration.
* `MaxMsgs` 0 to 2: how many old messages survive a timer. Between timers
  nothing is bounded. 1 lets a reply cross into the next round.
* `rpc_queue_capacity`, `max_entries`, `kMaxHeartbeatFailures`,
  `kTransferMaxRounds` 1: each limit is met at once. The membership run sends up
  to 4 entries at a time, so that the late joiner can catch up in its ticks.
* `raft_two_leaders`: two terms, two time-outs and one message that outlives one are all
  that finding 3 takes.
* One restart, fault, shutdown, duplicate, transfer: shutdown, fault and transfer together
  in `raft_lifecycle`, the duplicate in `raft_replication`, the restart in
  `raft_membership`. Together in one run they are out of TLC's reach; the theorems hold for
  any number of each, and say where they need none.
* Locks: `max_locks` 1 with two names and two threads, so that the limit is reached with
  both threads inside try_lock; `lock_ttl` 1 with the clock up to 3, so that a lock can be
  granted, expire, be granted again and its entry erased (more than two times the time to
  live later); 4 calls.
* Groups: three members in one group with generations up to 3 (joins stop there), so
  that rebalances overlap: one is interrupted by the third member, by departures and by
  timeouts, one at a time or together, and the next begins before it has ended; topics of
  two, three and no partitions for one to three members, so that counts divide and do not.
  Two members are enough for finding 4. For the offsets, two threads and two commits: one
  before the deletion and one across it.
* Transactions: two threads and one id, which is the object of every race; four
  calls and five producer ids, so that an id can be created, expire and be created
  again while a transaction is begun and fenced; `kMaxEpoch` 1, so that the epoch
  wraps; one start. Two ids never touch the same entry, and the proofs hold for
  any number.

Symmetry is used over the nodes (over threads, names and owners for the locks)
in the runs where the configuration treats them alike, and never with liveness.

### Fairness

`FairSpec` of DistributedLockManager is weak fairness of the cleanup thread's
two steps: a loop around `sleep_for` and a mutex that others hold only briefly.
No caller is assumed to come back.

`FairSpec` of ConsumerGroupManager is weak fairness of the cleanup thread's steps,
for the same reason. SilentMemberRemoved gives way when the thread is stopped or
the group is gone.

`FairSpec` of TransactionCoordinator is weak fairness of each call in progress and
of the two loops: a thread that is inside a call runs on, as far as its locks
allow. No call is assumed to be begun. TimedOutAborted gives way when the loop is
stopped, and while an end_txn has taken a `state_mutex` for good.

## 4. What is proved

All proofs are for every set of nodes, threads, names and owners (finite where
counted), every configuration and every bound, under the ASSUMEs of the modules,
which TLC evaluates in the runs. Where a theorem needs more, its statement says so,
and the text below says why the code needs it.

**RaftNode** (`RaftNodeProofs`)

* `TypeCorrect`: Spec => []TypeOK.
* `VotesAreUnique`: MaxRestarts = 0 => (Spec => [](OneVotePerTerm /\ VoteRemembered)).
* `VotesAreRemembered`: MaxRestarts = 0 => (Spec => []VoteRemembered).
* `TermsNeverFall`: MaxRestarts = 0 => (Spec => TermMonotone).

OneVotePerTerm is not inductive: it says nothing of what a node remembers. The
inductive invariant is TypeOK /\ OneVotePerTerm /\ VoteRemembered. The argument
is one lemma per operator: `Sound(s, s2)` says that s2 is a well-typed record
and that it `Keeps` term and vote (the term does not fall, and while it is the
same a given vote stays). Sound is reflexive and transitive, so each handler's
lemma follows from those of the functions it calls, as the code is read; the one
place where a vote is given, `handle_request_vote`, and the one where a node
votes for itself, `become_candidate`, carry the content. `NextSound` then says
that a step is a restart or a sound step of one node. MaxRestarts = 0 is
necessary: a restart forgets the vote (section 3.2).

`RaftStepLemmas` prepares the rest. `Only(F, s, s2)` is the frame of a function (s2
differs from s in the fields F alone), stated and chained as Sound is; `NextEffect`
concludes that every step is a restart or has one of a dozen effects on one node
(it works on in its role, steps down, probes, campaigns, grants a vote, counts one,
is elected, proposes, accepts entries, applies one, signals or ends a transfer).
Each effect says which fields may change and which messages may leave.

*Logs* (`RaftLogProofs`)

* `LeadersOnlyAppend`: Spec => LeaderAppendOnly, with nothing assumed: only
  `Accepts` shortens a log, and a Leader of the term never accepts.
* `LogsMatch`: MaxRestarts = 0 => (Spec /\ []ElectionSafety => []LogMatching).

LogMatching says nothing of messages. The inductive invariant (`LogInv`) adds what
roles say about terms (`RolesInv`: a leader is on record for its term, a candidate is
not yet) and asserts that there is a ledger: a set of logs that holds the log of every
node and, for every AppendEntries in flight, a log that its entries are a slice of. Any
two logs of the ledger match; an entry is of term 1 (the seed) or of a term that had a
leader; and no log of the ledger has an entry of a current leader's term beyond the end
of that leader's own log. So the next entry a leader appends is the only one of its
index and term, and a node that accepts a slice after the check of its predecessor
gets a log that matches the rest. Each step adds the new log of the node to the ledger.
The hypothesis of one leader per term is needed, since two leaders
of a term would write two entries at one index of one term, and finding 3
shows that the code does not ensure it.

*Elections* (`RaftElectionProofs`)

* `OneLeaderPerTerm`: StaticCluster => (Spec /\ []OneVotePerTerm /\ []TalliesHonest =>
  []ElectionSafety).
* `OneLeaderPerTermWithoutCrashes`: StaticCluster /\ MaxRestarts = 0 => (Spec /\
  []TalliesHonest => []ElectionSafety).

Finding 3 shows that the code does not ensure one leader per term. These theorems say
what stands between the code and that promise, and that there is nothing else. TalliesHonest: no
leader has counted more votes than were cast for it in its term, which is what
`raft_node.cpp:2288` takes for granted. OneVotePerTerm follows from VotesAreUnique where
nothing restarts. StaticCluster is the only assumption on the constants: every node is a member
and no membership change is proposed. Pre-vote is on or off; messages are lost, late or
repeated, leadership is transferred, senders and disks fail, nodes are shut down.
The strengthening is that every leader on record was elected by a majority of the
nodes (`ElectedByMajority`, over the votes in `votesCast`), for which the quorum that a node
counts to must be that of the cluster (`Seated`): a crashed node knows no members until it has applied
the first configuration again, and does not campaign or count before. Two majorities share a
voter (`FS_MajoritiesIntersect`), and OneVotePerTerm does the rest. Whether the theorem
holds while the membership changes is open.

*Configurations and follower maps* (`RaftConfigProofs`)

* `ConfigurationsAgree`: Spec /\ []StateMachineSafety => []ConfigAgreement, with
  crashes. The inductive invariant (`ConfigInv`) is that there is one function from indices
  to configurations that every node and every applied entry follows, with no gaps
  in what has been applied. StateMachineSafety is finding 1: nodes that apply different entries
  can not be in one configuration.
* `OnlyLeadersTrack`: Spec => [] the map of every node that does not lead is empty,
  with nothing assumed. The strengthening (`Idles`) adds that a node whose threads
  have ended is a Follower: without it, Start could turn a leader into a follower
  with its map.
* `TrackingFollowsRole`: Spec /\ []OldMembersCurrent => []TrackingMatchesRole. The
  strengthening (`Covers`) is that a leader tracks the joint members too, which
  become its members when the joint configuration is left. OldMembersCurrent says
  that a leader about to apply a joint entry knows the old members it names; section 3.2
  has the run that shows it is needed.
* `TrackingFollowsRoleWhenGrowing`: JointChangesOnlyAdd => (Spec =>
  []TrackingMatchesRole). For clusters whose joint changes only add members, or that
  have none, OldMembersCurrent follows from what the logs can contain.

**DistributedLockManager** (`DistributedLockManagerProofs`)

* `LockTypeCorrect`: Spec => []TypeOK.
* `LocksImplementService`: Spec => ImplementsLockService. Every step but a grant
  only takes locks away (`OnlyGrantsGive`); a grant is an Acquire of a free lock,
  or changes no owner, thanks to the second check in phase 4 (`GrantGives`).
* `FencingHolds`: Spec => FencedForGood. The strengthening: a grant of the
  current life of an entry has a token no greater than the entry's, a grant of
  an earlier life a smaller life (`GrantsBehind`), and a lock without an entry
  has no owner (`UntrackedIsFree`).
* `TableIsBounded`: Spec => []TableBounded, which is inductive with the types because it
  counts the threads past the capacity check (`Past`) together with the entries.

**ConsumerGroupManager** (`ConsumerGroupManagerProofs`)

* `TypeCorrect`, `PointersAreValid`, `LeadersAreUnique` (OneLeader),
  `StableGroupsAreSynced` (StableIsSynced), `MembershipIsFixed` (GenerationIsMembership),
  `GenerationsAreNew` (GenerationIsNew), `DeletedStaysDeleted` (DeletedOffsetsGone),
  each for Spec.

The first six rest on one inductive invariant, IInv. None of the properties is
inductive alone: a group is `Coherent` with its history when it has one leader,
its members are on its generation, it has settled under no number above its own,
and under a smaller one while it is in CompletingRebalance; a pointer is live only
to a group that is there. There is one lemma per operator on a group (`joined`,
`departed`, `synced`), and an action's proof cites the lemma of its operator.
DeletedOffsetsGone has a strengthening of its own (`OffsetInv`): a commit in flight
is neither buried nor doomed by a deletion under way, and no cache of a group holds
an offset that a deletion of that group has doomed.

**TransactionCoordinator** (`TransactionCoordinatorProofs`)

* `TypeCorrect`: Spec => []TypeOK. The inductive invariant IInv adds what a call and the
  loops carry from one lock to the next (`Carried`).
* `TransactionsAreFenced`: Spec => []OneEpochPerTransaction. A call joins the history of a
  transaction with the epoch it presented, and only check_producer_epoch, made under the
  state_mutex of an entry that is still the one it found, says that this is the epoch of the
  entry; init_producer_id, which changes the epoch, ends the transaction. `EntryStep` says what a
  step can do to one entry; the rest is a case distinction over that.
* `TransactionsAreCounted`: Spec => []NoneUncounted. The strengthening (`Counted`)
  is that active_transactions is at least the number of ids that have a transaction
  or are on the list of timeout_loop, plus the decrement that is owed for the one it
  has just aborted. An id whose transaction was fenced after the scan is still
  counted, because fencing does not count off.
* `PidsAreResolved`: StartFirst /\ MaxStarts = 1 => (Spec => []PidsResolve). The
  strengthening (`PidInv`) is that the producer ids of entries, of calls about to
  create an entry, and of the erasure under way are different from each other and
  below next_pid. The two assumptions are necessary.

Only model-checked: liveness (SilentOwnerLoses, SilentMemberRemoved,
TimedOutAborted), which is out of this prover's reach with fairness, and
AssignmentIsFair, which speaks of sums over recursive functions. Proved under
hypotheses on the run rather than on the constants: ElectionSafety, LogMatching and
ConfigAgreement, and TrackingMatchesRole when joint changes drop members.

## 5. Not modelled

* Of RaftNode: snapshots and the switch to them after long backtracking (they
  need thousands of entries), the read lease (it depends on real clock rates), callbacks
  and statistics, more than one transfer at a time.
* Of the group coordinator: the persistence stubs and the queries, which change
  nothing. Of the transaction coordinator: partitions and control batches (a stub),
  and the mode in which transactions are switched off.
* The composition of the coordinators with RaftNode: in this version neither
  proposes anything to it.
* Of the other components: nothing; `PROJECT.json` lists each with its reason. Most
  of the repository's lines are the free-standing and generated files of section 1,
  which have no behaviour to model.

## 6. Plan

1. DiskRaftLog with crashes, shown to implement the RaftLog contract that
   RaftNode uses; the snapshot half of RaftNode.
2. The resource components (ThreadPool, FlowControl, ConnectionLimiter,
   ConnectionPool, RateLimiter, BatchCache), LogManager and Segment, then
   ElectionEngine, MembershipManager, MetadataManager and Controller.
3. Proofs: OneLeaderPerTerm for a cluster whose members change, where the quorums of
   successive configurations must be shown to overlap, and which transfers, repetitions
   and late replies keep TalliesHonest.

## 7. Running

    tlc -config raft_votes.cfg MCRaft
    tlc -config dlm_locks.cfg MCLocks
    tlc -config group_rebalance.cfg MCGroups
    tlc -config group_rejoin.cfg GroupRejoin
    tlc -config txn_race.cfg MCTransactions
    tlapm RaftNodeProofs.tla
    tlapm RaftStepLemmas.tla
    tlapm RaftLogProofs.tla
    tlapm RaftElectionProofs.tla
    tlapm RaftConfigProofs.tla
    tlapm DistributedLockManagerProofs.tla
    tlapm ConsumerGroupManagerProofs.tla
    tlapm TransactionCoordinatorProofs.tla
