------------------------------- MODULE RaftNode -------------------------------
(***************************************************************************)
(* The consensus engine of src/torrent/consensus/raft_node.cpp: one record *)
(* per RaftNode object and one operator per C++ function.  Every handler   *)
(* runs under RaftNode::mutex_, so a handler is one step: it maps the      *)
(* record of the node to its next value, and the RPCs it hands to          *)
(* ae_sender_ and rv_sender_ collect in the field "out", which the step    *)
(* then puts on the network.  The log is any RaftLog (raft_types.h), kept  *)
(* by its contract: a sequence indexed from 1.                             *)
(*                                                                         *)
(* The clock is abstracted: an election deadline may pass at any time on   *)
(* a node that is not Leader, and the heartbeat thread may wake at any     *)
(* time on one that is.  Snapshots (a log of 10 000 entries, ten rounds of *)
(* backtracking) are beyond the bounds of this module.                     *)
(***************************************************************************)
EXTENDS Integers, Sequences, FiniteSets, FiniteSetsExt

CONSTANTS
    Node,                 \* the RaftNodeIds of the cluster
    kNoLeader,            \* the sentinel RaftNodeId
    InitialMembers,       \* the members of the configuration the cluster starts with
    UserCommand,          \* payloads clients propose
    ConfigChange,         \* membership changes clients propose
    enable_pre_vote,      \* RaftConfig::enable_pre_vote
    rpc_queue_capacity,   \* RaftConfig::rpc_queue_capacity
    max_entries,          \* RaftConfig::max_entries_per_append
    kMaxHeartbeatFailures,
    kTransferMaxRounds

CONSTANTS                 \* bounds of the explored state space
    MaxTerm,              \* no election timeout fires at this term
    MaxLog,               \* no proposal is appended to a log of this length
    MaxTimeouts,          \* election timeouts that change a node
    MaxTicks,             \* turns of a heartbeat thread
    MaxMsgs,              \* messages still in flight when a timer fires
    MaxRestarts,          \* crashes that build the RaftNode object anew
    MaxShutdowns, MaxFaults, MaxDuplicates, MaxTransfers

VARIABLES
    node,       \* node[n]: the fields of the RaftNode object n
    msgs,       \* RPCs and replies in flight, in no order
    used,       \* how much of each bound has been used
    votesCast,  \* history: every binding vote a node has held
    leaders,    \* history: every (node, term) that has been Leader
    chosen      \* history: every entry handed to a state machine

vars == <<node, msgs, used, votesCast, leaders, chosen>>
history == <<votesCast, leaders, chosen>>

ASSUME NodeAssumption ==
    kNoLeader \notin Node /\ IsFiniteSet(Node) /\ InitialMembers \subseteq Node
ASSUME ConfigAssumption ==
    /\ enable_pre_vote \in BOOLEAN
    /\ rpc_queue_capacity \in Nat \ {0} /\ max_entries \in Nat \ {0}
    /\ kMaxHeartbeatFailures \in Nat \ {0} /\ kTransferMaxRounds \in Nat \ {0}
ASSUME BoundAssumption ==
    /\ MaxTerm \in Nat /\ MaxLog \in Nat /\ MaxMsgs \in Nat
    /\ MaxTimeouts \in Nat /\ MaxTicks \in Nat
    /\ MaxRestarts \in Nat /\ MaxShutdowns \in Nat /\ MaxFaults \in Nat
    /\ MaxDuplicates \in Nat /\ MaxTransfers \in Nat
-----------------------------------------------------------------------------
(* The data of raft_types.h. *)

NoOpCommand == [type |-> "NoOp"]
ConfigChangeCommand ==
    [type : {"ConfigChange"}, new_members : SUBSET Node,
     joint_consensus : BOOLEAN, old_members : SUBSET Node]
RaftCommand ==
    {NoOpCommand} \cup [type : {"User"}, payload : UserCommand] \cup ConfigChangeCommand
LogEntry == [term : Nat, command : RaftCommand]

ASSUME CommandAssumption == ConfigChange \subseteq ConfigChangeCommand

RaftNodeState == {"Follower", "PreCandidate", "Candidate", "Leader"}
RaftNodeId == Node \cup {kNoLeader}

FollowerState ==
    [tracked : BOOLEAN,   \* is there an entry in follower_states_?
     next_index : Nat \ {0}, match_index : Nat, is_active : BOOLEAN, in_flight : Nat,
     failures : Nat]      \* heartbeat_failures_, which has the same lifetime
Untracked == [tracked |-> FALSE, next_index |-> 1, match_index |-> 0,
              is_active |-> TRUE, in_flight |-> 0, failures |-> 0]

\* The thread inside transfer_leadership(), between two holds of mutex_.
NoTransfer == [pc |-> "idle", target |-> kNoLeader, last_idx |-> 0, round |-> 0, term |-> 0]
Transferring == [pc : {"replicating", "signalled"}, target : Node,
                 last_idx : Nat, round : Nat, term : Nat]
Transfer == {NoTransfer} \cup Transferring

RequestVoteRequest ==
    [type : {"RequestVoteRequest"}, from : Node, to : Node, term : Nat,
     candidate_id : Node, last_log_index : Nat, last_log_term : Nat, pre_vote : BOOLEAN]
\* The reply names neither the round it answers nor its kind.
RequestVoteResponse ==
    [type : {"RequestVoteResponse"}, from : Node, to : Node, term : Nat,
     vote_granted : BOOLEAN]
AppendEntriesRequest ==
    [type : {"AppendEntriesRequest"}, from : Node, to : Node, term : Nat,
     prev_log_index : Nat, prev_log_term : Nat, entries : Seq(LogEntry), leader_commit : Nat]
AppendEntriesResponse ==
    [type : {"AppendEntriesResponse"}, from : Node, to : Node, term : Nat,
     success : BOOLEAN, last_log_index : Nat, conflict_index : Int]
Message == RequestVoteRequest \cup RequestVoteResponse
           \cup AppendEntriesRequest \cup AppendEntriesResponse

RaftNodeRecord ==
    [state : RaftNodeState, current_term : Nat, voted_for : RaftNodeId,
     leader_id : RaftNodeId, votes_received : Nat, pre_votes_received : Nat,
     log : Seq(LogEntry), commit_index : Nat, last_applied : Nat,
     members : SUBSET Node, joint_members : SUBSET Node, pending_config_index : Nat,
     follower_states : [Node -> FollowerState], transferring : BOOLEAN,
     running : BOOLEAN, transfer : Transfer, out : SUBSET Message]

\* What may go wrong outside the node during one step: senders that throw, and
\* whether RaftLog::append() succeeds.
Env == [down : SUBSET Node, disk : BOOLEAN]
NoFault == [down |-> {}, disk |-> TRUE]
-----------------------------------------------------------------------------
(* RaftLog and RaftMembership as the node uses them. *)

last_index(s) == Len(s.log)
term_at(s, i) == IF i \in 1..Len(s.log) THEN s.log[i].term ELSE 0

in_joint_consensus(s) == s.joint_members # {}
quorum_set(s) == s.members \cup s.joint_members
majority(S) == (Cardinality(S) \div 2) + 1
quorum_size(s) ==
    LET q_old == majority(s.members)
        q_new == majority(s.joint_members)
    IN  IF in_joint_consensus(s) /\ q_new > q_old THEN q_new ELSE q_old

log_is_up_to_date(s, remote_index, remote_term) ==
    LET local_term == term_at(s, last_index(s))
    IN  \/ remote_term > local_term
        \/ remote_term = local_term /\ remote_index >= last_index(s)

new_follower(last) == [tracked |-> TRUE, next_index |-> last + 1, match_index |-> 0,
                       is_active |-> TRUE, in_flight |-> 0, failures |-> 0]
-----------------------------------------------------------------------------
(* State transitions. *)

\* Mutant: every step-down forgets the vote, not only one to a new term.
become_follower_forgets_vote(s, new_term) ==
    IF new_term = s.current_term /\ s.state = "Follower" THEN s
    ELSE [s EXCEPT
            !.current_term = IF new_term > @ THEN new_term ELSE @,
            !.voted_for = kNoLeader,
            !.follower_states = [p \in Node |-> Untracked], !.transferring = FALSE,
            !.state = "Follower", !.leader_id = kNoLeader,
            !.votes_received = 0, !.pre_votes_received = 0]

become_follower(s, new_term) ==
    IF new_term = s.current_term /\ s.state = "Follower"
    THEN s        \* only the election deadline moves
    ELSE [s EXCEPT
            !.current_term = IF new_term > @ THEN new_term ELSE @,
            !.voted_for = IF new_term > s.current_term THEN kNoLeader ELSE @,
            !.follower_states = IF s.state = "Leader" THEN [p \in Node |-> Untracked] ELSE @,
            !.transferring = IF s.state = "Leader" THEN FALSE ELSE @,
            !.state = "Follower", !.leader_id = kNoLeader,
            !.votes_received = 0, !.pre_votes_received = 0]

start_vote_round(s, n, e, pre_vote) ==
    [s EXCEPT !.out = @ \cup
        {[type |-> "RequestVoteRequest", from |-> n, to |-> p,
          term |-> IF pre_vote THEN s.current_term + 1 ELSE s.current_term,
          candidate_id |-> n, last_log_index |-> last_index(s),
          last_log_term |-> term_at(s, last_index(s)), pre_vote |-> pre_vote]
         : p \in quorum_set(s) \ ({n} \cup e.down)}]

become_candidate(s, n, e) ==
    IF s.members = {} THEN become_follower(s, s.current_term)
    ELSE IF s.state = "Leader" THEN s
    ELSE start_vote_round(
            [s EXCEPT !.current_term = @ + 1, !.voted_for = n, !.votes_received = 1,
                      !.pre_votes_received = 0, !.state = "Candidate",
                      !.leader_id = kNoLeader], n, e, FALSE)

become_pre_candidate(s, n, e) ==
    IF s.state \in {"PreCandidate", "Leader"} \/ s.members = {} THEN s
    ELSE start_vote_round(
            [s EXCEPT !.state = "PreCandidate", !.pre_votes_received = 1,
                      !.votes_received = 0], n, e, TRUE)

on_election_timeout(s, n, e) ==
    IF enable_pre_vote /\ s.state # "Candidate"
    THEN become_pre_candidate(s, n, e)
    ELSE become_candidate(s, n, e)

append_entries(s, n, p, f, entries) ==
    [type |-> "AppendEntriesRequest", from |-> n, to |-> p, term |-> s.current_term,
     prev_log_index |-> f.next_index - 1, prev_log_term |-> term_at(s, f.next_index - 1),
     entries |-> entries, leader_commit |-> s.commit_index]

send_failed(f) == [f EXCEPT !.failures = IF @ < kMaxHeartbeatFailures THEN @ + 1 ELSE @]

send_heartbeats(s, n, e) ==
    LET peers == quorum_set(s) \ {n}
        fs == [p \in Node |-> IF p \in peers /\ ~s.follower_states[p].tracked
                              THEN new_follower(last_index(s))
                              ELSE s.follower_states[p]]
        ready == {p \in peers : fs[p].in_flight < rpc_queue_capacity}
        failed(f) == [send_failed(f) EXCEPT
                        !.is_active = @ /\ send_failed(f).failures < kMaxHeartbeatFailures]
    IN  IF s.state # "Leader" \/ s.members = {} THEN s
        ELSE [s EXCEPT
                !.follower_states =
                    [p \in Node |-> IF p \in ready \cap e.down THEN failed(fs[p]) ELSE fs[p]],
                !.out = @ \cup {append_entries(s, n, p, fs[p], <<>>) : p \in ready \ e.down}]

send_append_entries_to(s, n, p, e) ==
    LET f == s.follower_states[p]
        available == last_index(s) - f.next_index + 1
        to_send == IF available < max_entries THEN available ELSE max_entries
    IN  IF \/ ~f.tracked
           \/ f.in_flight >= rpc_queue_capacity
           \/ f.next_index > last_index(s)
        THEN s
        ELSE IF p \in e.down
        THEN [s EXCEPT !.follower_states[p] = send_failed(f)]
        ELSE [s EXCEPT
                !.follower_states[p] = [f EXCEPT !.in_flight = @ + 1, !.failures = 0],
                !.out = @ \cup {append_entries(s, n, p, f,
                    SubSeq(s.log, f.next_index, f.next_index + to_send - 1))}]

\* A follower at next_index 1 = first_index() is left to send_install_snapshot_to(),
\* which returns at once while nothing has been compacted.
replicate_to_followers(s, n, e) ==
    LET behind == {p \in Node : /\ s.follower_states[p].tracked
                                /\ s.follower_states[p].is_active
                                /\ s.follower_states[p].next_index > 1}
    IN  [s EXCEPT
            !.follower_states = [p \in Node |->
                IF p \in behind THEN send_append_entries_to(s, n, p, e).follower_states[p]
                                ELSE s.follower_states[p]],
            !.out = UNION ({s.out} \cup {send_append_entries_to(s, n, p, e).out : p \in behind})]

\* Mutant: the NoOp that cannot be written only resets the role.
become_leader_half_undone(s, n, e) ==
    LET led == [s EXCEPT !.state = "Leader", !.leader_id = n,
                         !.follower_states = [p \in Node |->
                             IF p \in quorum_set(s) \ {n} THEN new_follower(last_index(s))
                                                         ELSE Untracked]]
        noop == [term |-> s.current_term, command |-> NoOpCommand]
    IN  IF ~e.disk THEN [led EXCEPT !.state = "Follower"]
        ELSE send_heartbeats([led EXCEPT !.log = Append(@, noop)], n, e)

become_leader(s, n, e) ==
    LET led == [s EXCEPT
                  !.state = "Leader", !.leader_id = n, !.transferring = FALSE,
                  !.follower_states = [p \in Node |->
                      IF p \in quorum_set(s) \ {n} THEN new_follower(last_index(s))
                                                  ELSE Untracked]]
        noop == [term |-> s.current_term, command |-> NoOpCommand]
    IN  IF s.members = {} \/ ~e.disk
        THEN become_follower(IF s.members = {} THEN s ELSE led, s.current_term)
        ELSE send_heartbeats([led EXCEPT !.log = Append(@, noop)], n, e)

tally_votes(s, n, e, pre_vote) ==
    IF pre_vote
    THEN IF s.pre_votes_received >= quorum_size(s) /\ s.state = "PreCandidate"
         THEN become_candidate(s, n, e) ELSE s
    ELSE IF s.votes_received >= quorum_size(s) /\ s.state = "Candidate"
         THEN become_leader(s, n, e) ELSE s
-----------------------------------------------------------------------------
(* Committing and applying. *)

\* The walk down from last_index() that stops at the first index a quorum of the
\* active followers has acknowledged, of the current term only.
committable(s, n) ==
    LET fs == s.follower_states
        acked(i) == {p \in Node : fs[p].tracked /\ fs[p].is_active /\ fs[p].match_index >= i}
        new_acked(i) == {p \in s.joint_members :
                            p = n \/ (fs[p].tracked /\ fs[p].match_index >= i)}
    IN  {i \in (s.commit_index + 1)..last_index(s) :
            /\ Cardinality(acked(i)) + 1 >= quorum_size(s)
            /\ term_at(s, i) = s.current_term
            /\ in_joint_consensus(s) =>
                  Cardinality(new_acked(i)) >= majority(s.joint_members)}

advance_commit_index(s, n) ==
    LET active == {p \in Node : s.follower_states[p].tracked /\ s.follower_states[p].is_active}
        indices == IF active # {} THEN committable(s, n)
                   ELSE IF Cardinality(s.members) = 1
                   THEN (s.commit_index + 1)..last_index(s) ELSE {}
    IN  IF s.state # "Leader" \/ indices = {} THEN s
        ELSE [s EXCEPT !.commit_index = Max(indices)]

apply_direct_membership_change(s, n, new_members) ==
    LET fs == s.follower_states
        reconciled == [p \in Node |->
            CASE p \notin new_members -> Untracked
              [] p \in new_members /\ p # n /\ ~fs[p].tracked -> new_follower(last_index(s))
              [] OTHER -> fs[p]]
    IN  IF new_members = {} THEN s
        ELSE [s EXCEPT !.members = new_members, !.joint_members = {},
                       !.follower_states = IF s.state = "Leader" THEN reconciled ELSE @]

apply_joint_consensus_entry(s, n, cmd) ==
    LET fs == s.follower_states
        added == [p \in Node |-> IF p \in cmd.new_members \ {n} /\ ~fs[p].tracked
                                 THEN new_follower(last_index(s)) ELSE fs[p]]
    IN  IF cmd.old_members = {} THEN apply_direct_membership_change(s, n, cmd.new_members)
        ELSE [s EXCEPT !.members = cmd.old_members, !.joint_members = cmd.new_members,
                       !.follower_states = IF s.state = "Leader" THEN added ELSE @]

\* The code compares the two lists of members in order; here clients name the members of a
\* configuration in one order.
apply_joint_consensus_finalization(s, n, cmd) ==
    LET removed == s.members \ s.joint_members
        final == [s EXCEPT
                    !.members = s.joint_members, !.joint_members = {},
                    !.follower_states = IF s.state # "Leader" THEN @
                        ELSE [p \in Node |-> IF p \in removed THEN Untracked ELSE @[p]]]
    IN  IF cmd.joint_consensus \/ cmd.new_members # s.joint_members THEN s
        ELSE IF n \in final.members THEN final
        ELSE become_follower(final, s.current_term)

\* Mutant: only the leader acts on a configuration entry.
process_config_change_leader_only(s, n, cmd) ==
    LET changed == IF s.state # "Leader" THEN s
                   ELSE IF in_joint_consensus(s) THEN apply_joint_consensus_finalization(s, n, cmd)
                   ELSE IF cmd.joint_consensus THEN apply_joint_consensus_entry(s, n, cmd)
                   ELSE apply_direct_membership_change(s, n, cmd.new_members)
    IN  [changed EXCEPT !.pending_config_index = 0]

process_config_change(s, n, cmd) ==
    LET changed == IF in_joint_consensus(s) THEN apply_joint_consensus_finalization(s, n, cmd)
                   ELSE IF cmd.joint_consensus THEN apply_joint_consensus_entry(s, n, cmd)
                   ELSE apply_direct_membership_change(s, n, cmd.new_members)
    IN  [changed EXCEPT !.pending_config_index = 0]

\* One iteration of the loop of apply_committed().
apply_one(s, n) ==
    LET cmd == s.log[s.last_applied + 1].command
        applied == IF cmd.type = "ConfigChange" THEN process_config_change(s, n, cmd) ELSE s
    IN  [applied EXCEPT !.last_applied = @ + 1]

\* Is the node inside that loop, with mutex_ held?
applying(s) == s.last_applied < s.commit_index /\ s.last_applied < last_index(s)
-----------------------------------------------------------------------------
(* Inbound RPCs.  Each handler returns its response, which the caller sends. *)

reply(s, m) == [s EXCEPT !.out = @ \cup {m}]

vote_response(s, n, m, granted) ==
    reply(s, [type |-> "RequestVoteResponse", from |-> n, to |-> m.from,
              term |-> s.current_term, vote_granted |-> granted])

\* Mutant: a vote is given whatever voted_for_ holds.
handle_request_vote_any(s, n, m) ==
    LET up_to_date == log_is_up_to_date(s, m.last_log_index, m.last_log_term)
        s1 == IF m.term > s.current_term THEN become_follower(s, m.term) ELSE s
    IN  IF m.pre_vote THEN vote_response(s, n, m, m.term >= s.current_term /\ up_to_date)
        ELSE IF m.term < s.current_term \/ ~up_to_date THEN vote_response(s1, n, m, FALSE)
        ELSE vote_response([s1 EXCEPT !.voted_for = m.candidate_id], n, m, TRUE)

\* Mutant: the term of the request is adopted before it is compared.
handle_request_vote_adopts(s, n, m) ==
    LET s1 == [become_follower(s, m.term) EXCEPT !.current_term = m.term]
    IN  IF m.pre_vote THEN vote_response(s, n, m, m.term >= s.current_term)
        ELSE vote_response(s1, n, m, FALSE)

handle_request_vote(s, n, m) ==
    LET up_to_date == log_is_up_to_date(s, m.last_log_index, m.last_log_term)
        s1 == IF m.term > s.current_term THEN become_follower(s, m.term) ELSE s
    IN  IF m.pre_vote
        THEN vote_response(s, n, m, m.term >= s.current_term /\ up_to_date)
        ELSE IF \/ m.term < s.current_term
                \/ s1.voted_for \notin {kNoLeader, m.candidate_id}
                \/ ~up_to_date
        THEN vote_response(s1, n, m, FALSE)
        ELSE vote_response([s1 EXCEPT !.voted_for = m.candidate_id], n, m, TRUE)

\* last_log_index is what the handler read before it touched the log.
append_response(s, n, m, success, last, conflict) ==
    reply(s, [type |-> "AppendEntriesResponse", from |-> n, to |-> m.from,
              term |-> s.current_term, success |-> success,
              last_log_index |-> last, conflict_index |-> conflict])

\* The first index of the run of entries that share the term at prev_log_index.
conflict_start(s, prev) ==
    prev - Cardinality({i \in 1..(prev - 1) :
                            \A j \in i..(prev - 1) : term_at(s, j) = term_at(s, prev)})

\* Mutant: the term at prev_log_index is not compared.
log_matches_index_only(s, m) == m.prev_log_index <= last_index(s)

log_matches(s, m) ==
    \/ m.prev_log_index = 0
    \/ /\ m.prev_log_index <= last_index(s)
       /\ term_at(s, m.prev_log_index) = m.prev_log_term

\* The suffix after prev_log_index goes whether or not it conflicts.
append_entries_to_log(s, m, e) ==
    IF m.entries = <<>> THEN s
    ELSE [s EXCEPT !.log = IF e.disk THEN SubSeq(@, 1, m.prev_log_index) \o m.entries
                           ELSE SubSeq(@, 1, m.prev_log_index)]

\* Mutant: the suffix goes before the role is looked at, and for a heartbeat too.
handle_append_entries_cut_first(s, n, m, e) ==
    LET s1 == IF m.term > s.current_term THEN become_follower(s, m.term) ELSE s
        s2 == [s1 EXCEPT !.leader_id = m.from, !.log = SubSeq(@, 1, m.prev_log_index)]
        last == last_index(s)
    IN  IF m.term < s.current_term \/ ~log_matches(s, m)
        THEN append_response(s1, n, m, FALSE, last, last + 1)
        ELSE append_response(s2, n, m, s1.state # "Leader", last, 0)

handle_append_entries(s, n, m, e) ==
    LET last == last_index(s)
        s1 == IF m.term > s.current_term THEN become_follower(s, m.term) ELSE s
        s2 == [s1 EXCEPT !.leader_id = m.from]
        s3 == append_entries_to_log(s2, m, e)
        last_new == m.prev_log_index + Len(m.entries)
        s4 == IF m.leader_commit <= s3.commit_index THEN s3
              ELSE [s3 EXCEPT !.commit_index =
                        IF m.leader_commit < last_new THEN m.leader_commit ELSE last_new]
    IN  IF m.term < s.current_term THEN append_response(s, n, m, FALSE, last, last + 1)
        ELSE IF s2.state = "Leader" THEN append_response(s2, n, m, FALSE, last, 0)
        ELSE IF m.prev_log_index > last THEN append_response(s2, n, m, FALSE, last, last + 1)
        ELSE IF ~log_matches(s, m)
        THEN append_response(s2, n, m, FALSE, last, conflict_start(s, m.prev_log_index))
        ELSE IF m.entries # <<>> /\ ~e.disk
        THEN append_response(s3, n, m, FALSE, last, m.prev_log_index + 1)
        ELSE append_response(s4, n, m, TRUE, last, 0)
-----------------------------------------------------------------------------
(* Responses. *)

handle_request_vote_response(s, n, m, e) ==
    LET pre_vote == s.state = "PreCandidate"
        request_term == IF pre_vote THEN s.current_term + 1 ELSE s.current_term
        counted == IF ~m.vote_granted THEN s
                   ELSE IF pre_vote THEN [s EXCEPT !.pre_votes_received = @ + 1]
                   ELSE [s EXCEPT !.votes_received = @ + 1]
    IN  IF s.state \notin {"Candidate", "PreCandidate"} THEN s
        ELSE IF m.term > request_term THEN become_follower(s, m.term)
        ELSE tally_votes(counted, n, e, pre_vote)

\* Mutant: the pipeline depth without its floor; heartbeats, not counted in, are answered too.
acknowledged_no_floor(f) == [f EXCEPT !.in_flight = @ - 1, !.is_active = TRUE, !.failures = 0]

acknowledged(f) == [f EXCEPT !.in_flight = IF @ > 0 THEN @ - 1 ELSE 0,
                             !.is_active = TRUE, !.failures = 0]

replicated(f, last) ==
    IF last > f.match_index
    THEN [f EXCEPT !.match_index = last, !.next_index = last + 1] ELSE f

backtracked(f, conflict) ==
    [f EXCEPT !.next_index = IF conflict > 0 /\ conflict < @ THEN conflict
                             ELSE IF @ > 1 THEN @ - 1 ELSE @]

handle_append_entries_response(s, n, m, e) ==
    LET f == acknowledged(s.follower_states[m.from])
        with(g) == [s EXCEPT !.follower_states[m.from] = g]
    IN  IF s.state # "Leader" THEN s
        ELSE IF m.term > s.current_term THEN become_follower(s, m.term)
        ELSE IF ~s.follower_states[m.from].tracked THEN s
        ELSE IF m.success
        THEN advance_commit_index(with(replicated(f, m.last_log_index)), n)
        ELSE send_append_entries_to(with(backtracked(f, m.conflict_index)), n, m.from, e)
-----------------------------------------------------------------------------
(* Steps. *)

\* A RaftNode object just built and started over a log.
fresh(log) ==
    [state |-> "Follower", current_term |-> 0, voted_for |-> kNoLeader,
     leader_id |-> kNoLeader, votes_received |-> 0, pre_votes_received |-> 0,
     log |-> log, commit_index |-> 0, last_applied |-> 0,
     members |-> {}, joint_members |-> {}, pending_config_index |-> 0,
     follower_states |-> [p \in Node |-> Untracked], transferring |-> FALSE,
     running |-> TRUE, transfer |-> NoTransfer, out |-> {}]

seed == [term |-> 1,
         command |-> [type |-> "ConfigChange", new_members |-> InitialMembers,
                      joint_consensus |-> FALSE, old_members |-> {}]]

\* A node knows no members until it has applied a ConfigChange, so a cluster starts
\* from an AppendEntries of term 1 that carries one and commits it; a node outside
\* InitialMembers has only been started.
Init ==
    /\ node = [n \in Node |->
                 IF n \notin InitialMembers THEN fresh(<<>>)
                 ELSE [fresh(<<seed>>) EXCEPT
                         !.current_term = 1, !.commit_index = 1, !.last_applied = 1,
                         !.members = InitialMembers]]
    /\ msgs = {}
    /\ used = [timeouts |-> 0, ticks |-> 0, restarts |-> 0, shutdowns |-> 0,
               faults |-> 0, duplicates |-> 0, transfers |-> 0]
    /\ votesCast = {}
    /\ leaders = {}
    /\ chosen = {[index |-> 1, entry |-> seed]}

\* Node n moves to s, takes the messages "taken" off the network and sends s.out.
Step(n, s, taken) ==
    /\ node' = [node EXCEPT ![n] = [s EXCEPT !.out = {}]]
    /\ msgs' = (msgs \ taken) \cup s.out
    /\ votesCast' = votesCast \cup
          {v \in [voter : {n}, term : {s.current_term}, candidate : {s.voted_for}] :
              v.candidate # kNoLeader}
    /\ leaders' = leaders \cup
          {l \in [term : {s.current_term}, leader : {n}] : s.state = "Leader"}

\* A message may stay in flight for ever.  One that will is dropped when the next timer
\* fires, which leaves at most MaxMsgs for the steps after it.
Losses == {lost \in SUBSET msgs : Cardinality(msgs \ lost) <= MaxMsgs}

Faults == IF used.faults < MaxFaults THEN Env ELSE {NoFault}
Use(e) == [used EXCEPT !.faults = IF e = NoFault THEN @ ELSE @ + 1]

\* Nobody holds mutex_ of n, and its background threads run.
Idle(n) == ~applying(node[n])
Threads(n) == Idle(n) /\ node[n].running

ElectionTimeout(n) ==
    /\ Threads(n)
    /\ node[n].state # "Leader"
    /\ node[n].current_term < MaxTerm
    /\ used.timeouts < MaxTimeouts
    /\ \E e \in Faults :
        LET s == on_election_timeout(node[n], n, e)
        IN  /\ \E lost \in Losses : Step(n, s, lost)
            /\ used' = IF s = node[n] THEN used ELSE [Use(e) EXCEPT !.timeouts = @ + 1]
    /\ UNCHANGED chosen

\* One turn of the heartbeat thread; "back" are the inactive followers whose last
\* acknowledgement is older than kFollowerReactivationInterval.
HeartbeatTick(n) ==
    /\ Threads(n)
    /\ node[n].state = "Leader"
    /\ used.ticks < MaxTicks
    /\ \E e \in Faults :
        LET s == replicate_to_followers(send_heartbeats(node[n], n, e), n, e)
        IN  /\ \E back \in SUBSET {p \in Node : ~s.follower_states[p].is_active} :
               \E lost \in Losses :
                  Step(n, [s EXCEPT !.follower_states = [p \in Node |->
                               IF p \in back
                               THEN [@[p] EXCEPT !.is_active = TRUE, !.failures = 0]
                               ELSE @[p]]], lost)
            /\ used' = [Use(e) EXCEPT !.ticks = @ + 1]
    /\ UNCHANGED chosen

\* The heartbeat thread finds too few recent acknowledgements, or step_down() is called.
StepDown(n) ==
    /\ Idle(n)
    /\ node[n].state = "Leader"
    /\ Step(n, become_follower(node[n], node[n].current_term), {})
    /\ UNCHANGED <<used, chosen>>

propose(n, command) ==
    LET s == node[n]
        config == command.type = "ConfigChange"
    IN  /\ Threads(n)
        /\ s.state = "Leader"
        /\ n \in s.members
        /\ ~s.transferring
        /\ ~(config /\ s.pending_config_index # 0)
        /\ last_index(s) < MaxLog
        /\ Step(n, [s EXCEPT
                      !.log = Append(@, [term |-> s.current_term, command |-> command]),
                      !.pending_config_index = IF config THEN last_index(s) + 1 ELSE @], {})
        /\ UNCHANGED <<used, chosen>>

\* n takes m off the network, or leaves it there to arrive again.
Receive(n, m, s, e) ==
    /\ \/ Step(n, s, {m}) /\ used' = Use(e)
       \/ /\ used.duplicates < MaxDuplicates
          /\ Step(n, s, {})
          /\ e = NoFault
          /\ used' = [used EXCEPT !.duplicates = @ + 1]
    /\ UNCHANGED chosen

Inbox(n, type) == {m \in msgs : m.to = n /\ m.type = type}

HandleRequestVote(n) ==
    /\ Idle(n)
    /\ \E m \in Inbox(n, "RequestVoteRequest") :
          Receive(n, m, handle_request_vote(node[n], n, m), NoFault)

HandleAppendEntries(n) ==
    /\ Idle(n)
    /\ \E m \in Inbox(n, "AppendEntriesRequest"), e \in Faults :
          Receive(n, m, handle_append_entries(node[n], n, m, e), e)

HandleRequestVoteResponse(n) ==
    /\ Idle(n)
    /\ \E m \in Inbox(n, "RequestVoteResponse"), e \in Faults :
          Receive(n, m, handle_request_vote_response(node[n], n, m, e), e)

HandleAppendEntriesResponse(n) ==
    /\ Idle(n)
    /\ \E m \in Inbox(n, "AppendEntriesResponse"), e \in Faults :
          Receive(n, m, handle_append_entries_response(node[n], n, m, e), e)

ApplyCommitted(n) ==
    /\ applying(node[n])
    /\ Step(n, apply_one(node[n], n), {})
    /\ chosen' = chosen \cup {[index |-> node[n].last_applied + 1,
                               entry |-> node[n].log[node[n].last_applied + 1]]}
    /\ UNCHANGED used
-----------------------------------------------------------------------------
(* transfer_leadership(), which gives mutex_ up while it sleeps. *)

\* The top of the loop: another round of entries, or the signal to the target.
transfer_round(s, n, e, caught_up) ==
    LET t == s.transfer
    IN  IF t.round < kTransferMaxRounds /\ ~caught_up
        THEN [send_append_entries_to(s, n, t.target, e) EXCEPT
                !.transfer = [t EXCEPT !.pc = "replicating", !.round = @ + 1]]
        ELSE [s EXCEPT
                !.transfer = [t EXCEPT !.pc = "signalled"],
                !.out = @ \cup {m \in
                    {[type |-> "RequestVoteRequest", from |-> n, to |-> t.target,
                      term |-> s.current_term + 1, candidate_id |-> t.target,
                      last_log_index |-> last_index(s),
                      last_log_term |-> term_at(s, last_index(s)), pre_vote |-> FALSE]} :
                    m.to \notin e.down}]

caught_up(s, t) == s.follower_states[t.target].match_index >= t.last_idx

TransferBegin(n) ==
    /\ Idle(n)
    /\ node[n].state = "Leader"
    /\ node[n].transfer = NoTransfer
    /\ used.transfers < MaxTransfers
    /\ \E target \in quorum_set(node[n]) \ {n} :
        LET t == [pc |-> "replicating", target |-> target, last_idx |-> last_index(node[n]),
                  round |-> 0, term |-> node[n].current_term]
            s == [node[n] EXCEPT !.transferring = TRUE, !.transfer = t]
        IN  /\ s.follower_states[target].tracked
            /\ \E e \in Faults :
                  /\ Step(n, transfer_round(s, n, e, caught_up(s, t)), {})
                  /\ used' = [Use(e) EXCEPT !.transfers = @ + 1]
    /\ UNCHANGED chosen

\* The iterator into follower_states_ outlives the unlock: if the map was cleared or
\* the target erased meanwhile, the read of match_index through it yields anything.
TransferResume(n) ==
    LET s == node[n]
        t == s.transfer
        dangling == t.term # s.current_term \/ ~s.follower_states[t.target].tracked
    IN  /\ Idle(n)
        /\ t.pc = "replicating"
        /\ \/ /\ s.state # "Leader"
              /\ Step(n, [s EXCEPT !.transferring = FALSE, !.transfer = NoTransfer], {})
              /\ UNCHANGED used
           \/ /\ s.state = "Leader"
              /\ \E c \in (IF dangling THEN BOOLEAN ELSE {caught_up(s, t)}), e \in Faults :
                    Step(n, transfer_round(s, n, e, c), {}) /\ used' = Use(e)
        /\ UNCHANGED chosen

TransferFinish(n) ==
    LET s == node[n]
        done == IF s.state = "Leader" THEN become_follower(s, s.current_term) ELSE s
    IN  /\ Idle(n)
        /\ s.transfer.pc = "signalled"
        /\ Step(n, [done EXCEPT !.transferring = FALSE, !.transfer = NoTransfer], {})
        /\ UNCHANGED <<used, chosen>>
-----------------------------------------------------------------------------
(* Lifecycle. *)

\* Mutant: the follower map outlives the leadership.
Shutdown_keeps_followers(n) ==
    /\ Threads(n)
    /\ used.shutdowns < MaxShutdowns
    /\ Step(n, [node[n] EXCEPT !.running = FALSE, !.state = "Follower",
                               !.leader_id = kNoLeader, !.transferring = FALSE], {})
    /\ used' = [used EXCEPT !.shutdowns = @ + 1]
    /\ UNCHANGED chosen

\* The object stays, its threads end; RPC handlers still answer.
Shutdown(n) ==
    LET s == node[n]
    IN  /\ Threads(n)
        /\ used.shutdowns < MaxShutdowns
        /\ Step(n, [s EXCEPT
                      !.running = FALSE, !.state = "Follower", !.leader_id = kNoLeader,
                      !.transferring = FALSE,
                      !.follower_states = IF s.state = "Leader"
                                          THEN [p \in Node |-> Untracked] ELSE @], {})
        /\ used' = [used EXCEPT !.shutdowns = @ + 1]
        /\ UNCHANGED chosen

Start(n) ==
    /\ Idle(n)
    /\ ~node[n].running
    /\ Step(n, [node[n] EXCEPT !.running = TRUE, !.state = "Follower",
                               !.leader_id = kNoLeader], {})
    /\ UNCHANGED <<used, chosen>>

\* The process dies and a new object opens the log: nothing else was written.
Restart(n) ==
    /\ used.restarts < MaxRestarts
    /\ node' = [node EXCEPT ![n] = fresh(node[n].log)]
    /\ used' = [used EXCEPT !.restarts = @ + 1]
    /\ UNCHANGED <<msgs, history>>

Next ==
    \E n \in Node :
        \/ ElectionTimeout(n)
        \/ HeartbeatTick(n)
        \/ StepDown(n)
        \/ \E v \in UserCommand : propose(n, [type |-> "User", payload |-> v])
        \/ \E c \in ConfigChange : propose(n, c)
        \/ HandleRequestVote(n)
        \/ HandleAppendEntries(n)
        \/ HandleRequestVoteResponse(n)
        \/ HandleAppendEntriesResponse(n)
        \/ ApplyCommitted(n)
        \/ TransferBegin(n)
        \/ TransferResume(n)
        \/ TransferFinish(n)
        \/ Shutdown(n)
        \/ Start(n)
        \/ Restart(n)

Spec == Init /\ [][Next]_vars
-----------------------------------------------------------------------------
(* Properties. *)

Vote == [voter : Node, term : Nat, candidate : Node]
Used == [timeouts : Nat, ticks : Nat, restarts : Nat, shutdowns : Nat,
         faults : Nat, duplicates : Nat, transfers : Nat]

\* Every field of a node, message and history record has its type.
TypeOK ==
    /\ node \in [Node -> RaftNodeRecord]
    /\ msgs \subseteq Message
    /\ used \in Used
    /\ votesCast \subseteq Vote
    /\ leaders \subseteq [term : Nat, leader : Node]
    /\ chosen \subseteq [index : Nat \ {0}, entry : LogEntry]

\* voted_for_, "One vote per term" (raft.h:471): over its whole history a node never
\* holds a binding vote for two candidates in the same term.
OneVotePerTerm ==
    \A v, w \in votesCast : v.voter = w.voter /\ v.term = w.term => v.candidate = w.candidate

\* A node that has given a vote for its current term still holds it: the term of a vote is
\* never ahead of the voter, and no step-down within the term erases voted_for_.
VoteRemembered ==
    \A v \in votesCast :
        /\ v.term <= node[v.voter].current_term
        /\ v.term = node[v.voter].current_term => node[v.voter].voted_for = v.candidate

\* follower_states_ is "Valid only when Leader" (raft.h:482), and a leader tracks every
\* other member of its configuration from the moment it is elected: a step-down by any
\* path (higher term, removal, transfer, shutdown) leaves no progress to be counted later.
TrackingMatchesRole ==
    \A n \in Node :
        /\ node[n].state # "Leader" => \A p \in Node : ~node[n].follower_states[p].tracked
        /\ node[n].state = "Leader" =>
              \A p \in node[n].members \ {n} : node[n].follower_states[p].tracked

\* A leader never drops or rewrites an entry of its own log in its term, even when
\* another node claims the same term (the guard of handle_append_entries).
LeaderAppendOnly ==
    [][\A n \in Node :
          node[n].state = "Leader" /\ node'[n].state = "Leader"
             /\ node'[n].current_term = node[n].current_term
          => /\ Len(node'[n].log) >= Len(node[n].log)
             /\ SubSeq(node'[n].log, 1, Len(node[n].log)) = node[n].log]_vars

\* current_term_ is "Monotonically non-decreasing" (raft.h:470), across every handler.
TermMonotone ==
    [][\A n \in Node : node'[n].current_term >= node[n].current_term]_vars

\* Election Safety: no two nodes are ever Leader of the same term.
ElectionSafety ==
    \A l, k \in leaders : l.term = k.term => l.leader = k.leader

\* Log Matching: two logs that agree on the term of an index agree up to that index.
LogMatching ==
    \A n, p \in Node :
        \A i \in 1..Min({Len(node[n].log), Len(node[p].log)}) :
            node[n].log[i].term = node[p].log[i].term
            => SubSeq(node[n].log, 1, i) = SubSeq(node[p].log, 1, i)

\* The configuration is a function of the applied prefix: two nodes that have applied the
\* same number of entries, as leader or as follower, live or replaying after they joined,
\* are in the same configuration, joint or not.
ConfigAgreement ==
    \A n, p \in Node :
        node[n].last_applied = node[p].last_applied =>
            /\ node[n].members = node[p].members
            /\ node[n].joint_members = node[p].joint_members

(* A claim of the repository that the code does not keep. *)

\* raft_node.cpp:1083, "committed entries cannot be rolled back": no two state machines are
\* handed different entries for one index.
StateMachineSafety == \A c, d \in chosen : c.index = d.index => c.entry = d.entry
=============================================================================
