---------------------------- MODULE RaftNodeProofs ----------------------------
(***************************************************************************)
(* What RaftNode guarantees for every cluster, queue capacity, batch size  *)
(* and bound: its type invariant and, as long as no process is restarted,  *)
(* that terms never fall and that no node votes twice in a term.           *)
(*                                                                         *)
(* Every handler is a composition of small operators on the record of one  *)
(* node.  Each operator gets one lemma: it keeps the record well typed and *)
(* Keeps the vote (defined below).  Keeps is transitive, so the lemmas     *)
(* compose the way the operators do, and a step of the system reduces to   *)
(* one application of LEMMA NextSound.                                     *)
(***************************************************************************)
EXTENDS RaftNode, FiniteSetTheorems, NaturalsInduction, WellFoundedInduction, TLAPS

\* s2 may follow s on one node: the term does not fall, and within a term a vote
\* once given stays.
Keeps(s, s2) ==
    /\ s2.current_term >= s.current_term
    /\ s2.current_term = s.current_term =>
          s.voted_for = kNoLeader \/ s2.voted_for = s.voted_for

\* The two things each operator's lemma says.
Sound(s, s2) == s2 \in RaftNodeRecord /\ Keeps(s, s2)
-----------------------------------------------------------------------------
(* Records of one node. *)

\* The type of every field of a node record.
LEMMA Fields ==
    ASSUME NEW s \in RaftNodeRecord
    PROVE /\ s.state \in RaftNodeState
          /\ s.current_term \in Nat
          /\ s.voted_for \in RaftNodeId
          /\ s.leader_id \in RaftNodeId
          /\ s.votes_received \in Nat
          /\ s.pre_votes_received \in Nat
          /\ s.log \in Seq(LogEntry)
          /\ s.commit_index \in Nat
          /\ s.last_applied \in Nat
          /\ s.members \in SUBSET Node
          /\ s.joint_members \in SUBSET Node
          /\ s.pending_config_index \in Nat
          /\ s.follower_states \in [Node -> FollowerState]
          /\ s.transferring \in BOOLEAN
          /\ s.running \in BOOLEAN
          /\ s.transfer \in Transfer
          /\ s.out \in SUBSET Message
BY DEF RaftNodeRecord

\* Assigning a value of its type to one field keeps the record well typed.
LEMMA Update ==
    ASSUME NEW s \in RaftNodeRecord
    PROVE /\ \A v \in RaftNodeState : [s EXCEPT !.state = v] \in RaftNodeRecord
          /\ \A v \in Nat : [s EXCEPT !.current_term = v] \in RaftNodeRecord
          /\ \A v \in RaftNodeId : [s EXCEPT !.voted_for = v] \in RaftNodeRecord
          /\ \A v \in RaftNodeId : [s EXCEPT !.leader_id = v] \in RaftNodeRecord
          /\ \A v \in Nat : [s EXCEPT !.votes_received = v] \in RaftNodeRecord
          /\ \A v \in Nat : [s EXCEPT !.pre_votes_received = v] \in RaftNodeRecord
          /\ \A v \in Seq(LogEntry) : [s EXCEPT !.log = v] \in RaftNodeRecord
          /\ \A v \in Nat : [s EXCEPT !.commit_index = v] \in RaftNodeRecord
          /\ \A v \in Nat : [s EXCEPT !.last_applied = v] \in RaftNodeRecord
          /\ \A v \in SUBSET Node : [s EXCEPT !.members = v] \in RaftNodeRecord
          /\ \A v \in SUBSET Node : [s EXCEPT !.joint_members = v] \in RaftNodeRecord
          /\ \A v \in Nat : [s EXCEPT !.pending_config_index = v] \in RaftNodeRecord
          /\ \A v \in [Node -> FollowerState] : [s EXCEPT !.follower_states = v] \in RaftNodeRecord
          /\ \A v \in BOOLEAN : [s EXCEPT !.transferring = v] \in RaftNodeRecord
          /\ \A v \in BOOLEAN : [s EXCEPT !.running = v] \in RaftNodeRecord
          /\ \A v \in Transfer : [s EXCEPT !.transfer = v] \in RaftNodeRecord
          /\ \A v \in SUBSET Message : [s EXCEPT !.out = v] \in RaftNodeRecord
<1>1. \A v \in RaftNodeState : [s EXCEPT !.state = v] \in RaftNodeRecord
  BY DEF RaftNodeRecord
<1>2. \A v \in Nat : [s EXCEPT !.current_term = v] \in RaftNodeRecord
  BY DEF RaftNodeRecord
<1>3. \A v \in RaftNodeId : [s EXCEPT !.voted_for = v] \in RaftNodeRecord
  BY DEF RaftNodeRecord
<1>4. \A v \in RaftNodeId : [s EXCEPT !.leader_id = v] \in RaftNodeRecord
  BY DEF RaftNodeRecord
<1>5. \A v \in Nat : [s EXCEPT !.votes_received = v] \in RaftNodeRecord
  BY DEF RaftNodeRecord
<1>6. \A v \in Nat : [s EXCEPT !.pre_votes_received = v] \in RaftNodeRecord
  BY DEF RaftNodeRecord
<1>7. \A v \in Seq(LogEntry) : [s EXCEPT !.log = v] \in RaftNodeRecord
  BY DEF RaftNodeRecord
<1>8. \A v \in Nat : [s EXCEPT !.commit_index = v] \in RaftNodeRecord
  BY DEF RaftNodeRecord
<1>9. \A v \in Nat : [s EXCEPT !.last_applied = v] \in RaftNodeRecord
  BY DEF RaftNodeRecord
<1>10. \A v \in SUBSET Node : [s EXCEPT !.members = v] \in RaftNodeRecord
  BY DEF RaftNodeRecord
<1>11. \A v \in SUBSET Node : [s EXCEPT !.joint_members = v] \in RaftNodeRecord
  BY DEF RaftNodeRecord
<1>12. \A v \in Nat : [s EXCEPT !.pending_config_index = v] \in RaftNodeRecord
  BY DEF RaftNodeRecord
<1>13. \A v \in [Node -> FollowerState] : [s EXCEPT !.follower_states = v] \in RaftNodeRecord
  BY DEF RaftNodeRecord
<1>14. \A v \in BOOLEAN : [s EXCEPT !.transferring = v] \in RaftNodeRecord
  BY DEF RaftNodeRecord
<1>15. \A v \in BOOLEAN : [s EXCEPT !.running = v] \in RaftNodeRecord
  BY DEF RaftNodeRecord
<1>16. \A v \in Transfer : [s EXCEPT !.transfer = v] \in RaftNodeRecord
  BY DEF RaftNodeRecord
<1>17. \A v \in SUBSET Message : [s EXCEPT !.out = v] \in RaftNodeRecord
  BY DEF RaftNodeRecord
<1> QED
  BY <1>1, <1>2, <1>3, <1>4, <1>5, <1>6, <1>7, <1>8, <1>9, <1>10, <1>11, <1>12, <1>13, <1>14, <1>15, <1>16, <1>17

\* Keeps is reflexive: an early return keeps the vote.
LEMMA KeepsRefl ==
    ASSUME NEW s \in RaftNodeRecord
    PROVE  Sound(s, s)
BY DEF Sound, Keeps, RaftNodeRecord

\* Keeps is transitive: a handler that chains calls keeps the vote if each call does.
LEMMA KeepsTrans ==
    ASSUME NEW s \in RaftNodeRecord, NEW s1, NEW s2, Sound(s, s1), Sound(s1, s2)
    PROVE  Sound(s, s2)
BY Fields DEF Sound, Keeps

\* The progress a new leader records for a follower is well typed.
LEMMA NewFollower ==
    /\ Untracked \in FollowerState
    /\ \A last \in Nat : new_follower(last) \in FollowerState
<1>1. Untracked \in FollowerState
  BY DEF Untracked, FollowerState
<1>2. \A last \in Nat : new_follower(last) \in FollowerState
  BY DEF new_follower, FollowerState
<1> QED
  BY <1>1, <1>2

\* The last index of a well-typed log is a natural number, and its last term a term.
LEMMA LastIndex ==
    ASSUME NEW s \in RaftNodeRecord
    PROVE  /\ last_index(s) \in Nat
           /\ \A i : term_at(s, i) \in Nat
<1>1. s.log \in Seq(LogEntry)
  BY Fields
<1>2. ASSUME NEW i \in 1..Len(s.log) PROVE s.log[i].term \in Nat
  <2>1. s.log[i] \in LogEntry
    BY <1>1
  <2> QED
    BY <2>1 DEF LogEntry
<1> QED
  BY <1>1, <1>2 DEF last_index, term_at
-----------------------------------------------------------------------------
(* Role changes. *)

\* become_follower leaves a well-typed follower and never lowers the term.
LEMMA BecomeFollower ==
    ASSUME NEW s \in RaftNodeRecord, NEW t \in Nat
    PROVE  Sound(s, become_follower(s, t))
<1> DEFINE ct == IF t > s.current_term THEN t ELSE s.current_term
           vf == IF t > s.current_term THEN kNoLeader ELSE s.voted_for
           fs == IF s.state = "Leader" THEN [p \in Node |-> Untracked]
                                       ELSE s.follower_states
           tf == IF s.state = "Leader" THEN FALSE ELSE s.transferring
           r  == [s EXCEPT !.current_term = ct, !.voted_for = vf,
                           !.follower_states = fs, !.transferring = tf,
                           !.state = "Follower", !.leader_id = kNoLeader,
                           !.votes_received = 0, !.pre_votes_received = 0]
<1>1. /\ ct \in Nat
      /\ ct >= s.current_term
      /\ ct = s.current_term => vf = s.voted_for
      /\ vf \in RaftNodeId
  BY Fields DEF RaftNodeId
<1>2. fs \in [Node -> FollowerState] /\ tf \in BOOLEAN
  BY Fields, NewFollower
<1>3. kNoLeader \in RaftNodeId /\ "Follower" \in RaftNodeState
  BY DEF RaftNodeId, RaftNodeState
<1>4. become_follower(s, t) =
        IF t = s.current_term /\ s.state = "Follower" THEN s ELSE r
  BY DEF become_follower
<1> HIDE DEF ct, vf, fs, tf
<1>5. r \in RaftNodeRecord
  BY <1>1, <1>2, <1>3, Update
<1>a. r.current_term = ct /\ r.voted_for = vf
  BY DEF RaftNodeRecord
<1>6. Sound(s, r)
  BY <1>1, <1>5, <1>a DEF Sound, Keeps
<1> QED
  BY <1>4, <1>6, KeepsRefl

\* An RPC or a reply is well typed once its parts are.
LEMMA MessageTypes ==
    ASSUME NEW n \in Node, NEW p \in Node, NEW t \in Nat
    PROVE  /\ \A c \in Node, i \in Nat, lt \in Nat, pre \in BOOLEAN :
                [type |-> "RequestVoteRequest", from |-> n, to |-> p, term |-> t,
                 candidate_id |-> c, last_log_index |-> i, last_log_term |-> lt,
                 pre_vote |-> pre] \in Message
           /\ \A g \in BOOLEAN :
                [type |-> "RequestVoteResponse", from |-> n, to |-> p, term |-> t,
                 vote_granted |-> g] \in Message
           /\ \A i \in Nat, lt \in Nat, es \in Seq(LogEntry), c \in Nat :
                [type |-> "AppendEntriesRequest", from |-> n, to |-> p, term |-> t,
                 prev_log_index |-> i, prev_log_term |-> lt, entries |-> es,
                 leader_commit |-> c] \in Message
           /\ \A ok \in BOOLEAN, i \in Nat, c \in Int :
                [type |-> "AppendEntriesResponse", from |-> n, to |-> p, term |-> t,
                 success |-> ok, last_log_index |-> i, conflict_index |-> c] \in Message
BY DEF Message, RequestVoteRequest, RequestVoteResponse, AppendEntriesRequest,
       AppendEntriesResponse

\* Opening a vote round sends well-typed requests and leaves term and vote alone.
LEMMA StartVoteRound ==
    ASSUME NEW s \in RaftNodeRecord, NEW n \in Node, NEW e \in Env, NEW pre \in BOOLEAN
    PROVE  Sound(s, start_vote_round(s, n, e, pre))
<1> DEFINE rv(p) == [type |-> "RequestVoteRequest", from |-> n, to |-> p,
                     term |-> IF pre THEN s.current_term + 1 ELSE s.current_term,
                     candidate_id |-> n, last_log_index |-> last_index(s),
                     last_log_term |-> term_at(s, last_index(s)), pre_vote |-> pre]
           sent == s.out \cup {rv(p) : p \in quorum_set(s) \ ({n} \cup e.down)}
           r == [s EXCEPT !.out = sent]
<1>1. quorum_set(s) \subseteq Node
  BY Fields DEF quorum_set
<1>2. ASSUME NEW p \in Node PROVE rv(p) \in Message
  <2>1. (IF pre THEN s.current_term + 1 ELSE s.current_term) \in Nat
    BY Fields
  <2> QED
    BY <2>1, LastIndex, MessageTypes
<1>3. sent \in SUBSET Message
  BY <1>1, <1>2, Fields
<1>4. start_vote_round(s, n, e, pre) = r
  BY DEF start_vote_round
<1> HIDE DEF sent
<1>5. r \in RaftNodeRecord
  BY <1>3, Update
<1>6. r.current_term = s.current_term /\ r.voted_for = s.voted_for
  BY DEF RaftNodeRecord
<1> QED
  BY <1>4, <1>5, <1>6, Fields DEF Sound, Keeps

\* become_candidate raises the term and votes for itself in the new one.
LEMMA BecomeCandidate ==
    ASSUME NEW s \in RaftNodeRecord, NEW n \in Node, NEW e \in Env
    PROVE  Sound(s, become_candidate(s, n, e))
<1> DEFINE r == [s EXCEPT !.current_term = @ + 1, !.voted_for = n, !.votes_received = 1,
                          !.pre_votes_received = 0, !.state = "Candidate",
                          !.leader_id = kNoLeader]
<1>1. /\ n \in RaftNodeId /\ kNoLeader \in RaftNodeId /\ "Candidate" \in RaftNodeState
      /\ s.current_term + 1 \in Nat
  BY Fields DEF RaftNodeId, RaftNodeState
<1>2. r \in RaftNodeRecord
  BY <1>1, Update
<1>3. r.current_term = s.current_term + 1
  BY DEF RaftNodeRecord
<1>4. Sound(s, r)
  BY <1>2, <1>3, Fields DEF Sound, Keeps
<1>5. Sound(s, start_vote_round(r, n, e, FALSE))
  BY <1>2, <1>4, StartVoteRound, KeepsTrans
<1>6. Sound(s, become_follower(s, s.current_term))
  BY BecomeFollower, Fields
<1> QED
  BY <1>5, <1>6, KeepsRefl DEF become_candidate

\* become_pre_candidate leaves term and vote alone.
LEMMA BecomePreCandidate ==
    ASSUME NEW s \in RaftNodeRecord, NEW n \in Node, NEW e \in Env
    PROVE  Sound(s, become_pre_candidate(s, n, e))
<1> DEFINE r == [s EXCEPT !.state = "PreCandidate", !.pre_votes_received = 1,
                          !.votes_received = 0]
<1>1. "PreCandidate" \in RaftNodeState
  BY DEF RaftNodeState
<1>2. r \in RaftNodeRecord
  BY <1>1, Update
<1>3. r.current_term = s.current_term /\ r.voted_for = s.voted_for
  BY DEF RaftNodeRecord
<1>4. Sound(s, r)
  BY <1>2, <1>3, Fields DEF Sound, Keeps
<1>5. Sound(s, start_vote_round(r, n, e, TRUE))
  BY <1>2, <1>4, StartVoteRound, KeepsTrans
<1> QED
  BY <1>5, KeepsRefl DEF become_pre_candidate

\* Whichever round on_election_timeout starts, the record stays well typed.
LEMMA OnElectionTimeout ==
    ASSUME NEW s \in RaftNodeRecord, NEW n \in Node, NEW e \in Env
    PROVE  Sound(s, on_election_timeout(s, n, e))
BY BecomeCandidate, BecomePreCandidate DEF on_election_timeout
-----------------------------------------------------------------------------
(* Replication. *)

\* Replacing the follower map and adding well-typed messages to the outbox.
LEMMA SendStep ==
    ASSUME NEW s \in RaftNodeRecord, NEW fs \in [Node -> FollowerState],
           NEW out \in SUBSET Message
    PROVE  /\ Sound(s, [s EXCEPT !.follower_states = fs])
           /\ Sound(s, [s EXCEPT !.out = out])
           /\ Sound(s, [s EXCEPT !.follower_states = fs, !.out = out])
<1>1. /\ [s EXCEPT !.follower_states = fs] \in RaftNodeRecord
      /\ [s EXCEPT !.out = out] \in RaftNodeRecord
      /\ [s EXCEPT !.follower_states = fs, !.out = out] \in RaftNodeRecord
  BY Update
<1>2. /\ [s EXCEPT !.follower_states = fs].current_term = s.current_term
      /\ [s EXCEPT !.follower_states = fs].voted_for = s.voted_for
      /\ [s EXCEPT !.out = out].current_term = s.current_term
      /\ [s EXCEPT !.out = out].voted_for = s.voted_for
  BY DEF RaftNodeRecord
<1>3. /\ [s EXCEPT !.follower_states = fs, !.out = out].current_term = s.current_term
      /\ [s EXCEPT !.follower_states = fs, !.out = out].voted_for = s.voted_for
  BY DEF RaftNodeRecord
<1> QED
  BY <1>1, <1>2, <1>3, Fields DEF Sound, Keeps

\* The type of every field of a follower's progress.
LEMMA FollowerFields ==
    ASSUME NEW f \in FollowerState
    PROVE  /\ f.tracked \in BOOLEAN /\ f.next_index \in Nat \ {0} /\ f.match_index \in Nat
           /\ f.is_active \in BOOLEAN /\ f.in_flight \in Nat /\ f.failures \in Nat
BY DEF FollowerState

\* Assigning to one field of a follower's progress keeps it well typed.
LEMMA UpdateFollower ==
    ASSUME NEW f \in FollowerState
    PROVE  /\ \A v \in Nat \ {0} : [f EXCEPT !.next_index = v] \in FollowerState
           /\ \A v \in Nat : [f EXCEPT !.match_index = v] \in FollowerState
           /\ \A v \in BOOLEAN : [f EXCEPT !.is_active = v] \in FollowerState
           /\ \A v \in Nat : [f EXCEPT !.in_flight = v] \in FollowerState
           /\ \A v \in Nat : [f EXCEPT !.failures = v] \in FollowerState
<1>1. \A v \in Nat \ {0} : [f EXCEPT !.next_index = v] \in FollowerState
  BY DEF FollowerState
<1>2. \A v \in Nat : [f EXCEPT !.match_index = v] \in FollowerState
  BY DEF FollowerState
<1>3. \A v \in BOOLEAN : [f EXCEPT !.is_active = v] \in FollowerState
  BY DEF FollowerState
<1>4. \A v \in Nat : [f EXCEPT !.in_flight = v] \in FollowerState
  BY DEF FollowerState
<1>5. \A v \in Nat : [f EXCEPT !.failures = v] \in FollowerState
  BY DEF FollowerState
<1> QED
  BY <1>1, <1>2, <1>3, <1>4, <1>5

\* A sender that throws leaves a well-typed follower progress.
LEMMA SendFailed ==
    ASSUME NEW f \in FollowerState
    PROVE  send_failed(f) \in FollowerState
<1> DEFINE x == IF f.failures < kMaxHeartbeatFailures THEN f.failures + 1 ELSE f.failures
<1>1. x \in Nat
  BY FollowerFields
<1>2. send_failed(f) = [f EXCEPT !.failures = x]
  BY DEF send_failed
<1> HIDE DEF x
<1> QED
  BY <1>1, <1>2, UpdateFollower

\* An AppendEntries request built from a well-typed log is well typed.
LEMMA AppendEntriesMessage ==
    ASSUME NEW s \in RaftNodeRecord, NEW n \in Node, NEW p \in Node,
           NEW f \in FollowerState, NEW es \in Seq(LogEntry)
    PROVE  append_entries(s, n, p, f, es) \in Message
<1>1. f.next_index - 1 \in Nat
  BY FollowerFields
<1> QED
  BY <1>1, LastIndex, Fields, MessageTypes DEF append_entries

\* A heartbeat round keeps the record well typed and touches no vote.
LEMMA SendHeartbeats ==
    ASSUME NEW s \in RaftNodeRecord, NEW n \in Node, NEW e \in Env
    PROVE  Sound(s, send_heartbeats(s, n, e))
<1> DEFINE peers == quorum_set(s) \ {n}
           fs == [p \in Node |-> IF p \in peers /\ ~s.follower_states[p].tracked
                                 THEN new_follower(last_index(s))
                                 ELSE s.follower_states[p]]
           ready == {p \in peers : fs[p].in_flight < rpc_queue_capacity}
           failed(f) == [send_failed(f) EXCEPT
                           !.is_active = @ /\ send_failed(f).failures < kMaxHeartbeatFailures]
           fs2 == [p \in Node |-> IF p \in ready \cap e.down THEN failed(fs[p]) ELSE fs[p]]
           out == s.out \cup {append_entries(s, n, p, fs[p], <<>>) : p \in ready \ e.down}
           r == [s EXCEPT !.follower_states = fs2, !.out = out]
<1>1. peers \subseteq Node
  BY Fields DEF quorum_set
<1>2. fs \in [Node -> FollowerState]
  BY Fields, LastIndex, NewFollower
<1>3. ASSUME NEW f \in FollowerState PROVE failed(f) \in FollowerState
  <2>1. send_failed(f) \in FollowerState
    BY SendFailed
  <2>2. (send_failed(f).is_active /\ send_failed(f).failures < kMaxHeartbeatFailures) \in BOOLEAN
    OBVIOUS
  <2> QED
    BY <2>1, <2>2, UpdateFollower
<1> HIDE DEF peers, fs, failed
<1>4. fs2 \in [Node -> FollowerState]
  BY <1>2, <1>3
<1>5. out \in SUBSET Message
  <2>1. <<>> \in Seq(LogEntry)
    OBVIOUS
  <2>2. ASSUME NEW p \in ready PROVE append_entries(s, n, p, fs[p], <<>>) \in Message
    <3>1. p \in Node /\ fs[p] \in FollowerState
      BY <1>1, <1>2
    <3> QED
      BY <3>1, <2>1, AppendEntriesMessage
  <2> QED
    BY <2>2, Fields
<1>6. send_heartbeats(s, n, e) =
        IF s.state # "Leader" \/ s.members = {} THEN s
        ELSE r
  BY DEF send_heartbeats, peers, fs, failed
<1> HIDE DEF fs2, out
<1>7. Sound(s, r)
  BY <1>4, <1>5, SendStep
<1> HIDE DEF r
<1> QED
  BY <1>6, <1>7, KeepsRefl

\* A slice of a log is a sequence of entries.
LEMMA SubSeqType ==
    ASSUME NEW S, NEW q \in Seq(S), NEW i \in Nat \ {0}, NEW j \in Int, j <= Len(q)
    PROVE  SubSeq(q, i, j) \in Seq(S)
OBVIOUS

\* A pipelined send keeps next_index positive and in_flight natural.
LEMMA SendAppendEntriesTo ==
    ASSUME NEW s \in RaftNodeRecord, NEW n \in Node, NEW p \in Node, NEW e \in Env
    PROVE  Sound(s, send_append_entries_to(s, n, p, e))
<1> DEFINE f == s.follower_states[p]
           available == last_index(s) - f.next_index + 1
           to_send == IF available < max_entries THEN available ELSE max_entries
           es == SubSeq(s.log, f.next_index, f.next_index + to_send - 1)
           f1 == send_failed(f)
           f2 == [f EXCEPT !.in_flight = @ + 1, !.failures = 0]
           fs1 == [s.follower_states EXCEPT ![p] = f1]
           fs2 == [s.follower_states EXCEPT ![p] = f2]
           out == s.out \cup {append_entries(s, n, p, f, es)}
           r1 == [s EXCEPT !.follower_states = fs1]
           r2 == [s EXCEPT !.follower_states = fs2, !.out = out]
           skip == ~f.tracked \/ f.in_flight >= rpc_queue_capacity \/ f.next_index > last_index(s)
<1>1. f \in FollowerState
  BY Fields
<1>2. f1 \in FollowerState /\ f2 \in FollowerState
  <2>1. f2 \in FollowerState
    <3> HIDE DEF f
    <3>1. f.in_flight + 1 \in Nat
      BY <1>1, FollowerFields
    <3> QED
      BY <1>1, <3>1, UpdateFollower
  <2> QED
    BY <1>1, <2>1, SendFailed
<1>3. fs1 \in [Node -> FollowerState] /\ fs2 \in [Node -> FollowerState]
  <2> HIDE DEF f1, f2
  <2> QED
    BY <1>2, Fields
<1>4. es \in Seq(LogEntry)
  <2>1. f.next_index \in Nat \ {0} /\ s.log \in Seq(LogEntry) /\ last_index(s) = Len(s.log)
    BY <1>1, FollowerFields, Fields DEF last_index
  <2>2. to_send \in Int /\ f.next_index + to_send - 1 <= Len(s.log)
    BY <2>1, ConfigAssumption
  <2> QED
    <3> HIDE DEF f, to_send
    <3> QED
      BY <2>1, <2>2, SubSeqType
<1>5. out \in SUBSET Message
  <2> HIDE DEF f, es
  <2>1. append_entries(s, n, p, f, es) \in Message
    BY <1>1, <1>4, AppendEntriesMessage
  <2> QED
    BY <2>1, Fields
<1>6. send_append_entries_to(s, n, p, e) =
        IF skip THEN s
        ELSE IF p \in e.down THEN r1 ELSE r2
  BY DEF send_append_entries_to
<1> HIDE DEF fs1, fs2, out, skip
<1>7. Sound(s, r1) /\ Sound(s, r2)
  BY <1>3, <1>5, SendStep
<1> HIDE DEF r1, r2
<1> QED
  BY <1>6, <1>7, KeepsRefl

\* Replicating to every follower keeps the record well typed and touches no vote.
LEMMA ReplicateToFollowers ==
    ASSUME NEW s \in RaftNodeRecord, NEW n \in Node, NEW e \in Env
    PROVE  Sound(s, replicate_to_followers(s, n, e))
<1> DEFINE behind == {p \in Node : /\ s.follower_states[p].tracked
                                   /\ s.follower_states[p].is_active
                                   /\ s.follower_states[p].next_index > 1}
           t(p) == send_append_entries_to(s, n, p, e)
           fs == [p \in Node |-> IF p \in behind THEN t(p).follower_states[p]
                                 ELSE s.follower_states[p]]
           out == UNION ({s.out} \cup {t(p).out : p \in behind})
           r == [s EXCEPT !.follower_states = fs, !.out = out]
<1>1. ASSUME NEW p \in Node
      PROVE  t(p).follower_states[p] \in FollowerState /\ t(p).out \in SUBSET Message
  <2>1. t(p) \in RaftNodeRecord
    BY SendAppendEntriesTo DEF Sound
  <2> HIDE DEF t
  <2> QED
    BY <2>1, Fields
<1> HIDE DEF t
<1>2. fs \in [Node -> FollowerState]
  BY <1>1, Fields
<1>3. out \in SUBSET Message
  BY <1>1, Fields
<1>4. replicate_to_followers(s, n, e) = r
  BY DEF replicate_to_followers, t
<1> HIDE DEF fs, out
<1>5. Sound(s, r)
  BY <1>2, <1>3, SendStep
<1> HIDE DEF r
<1> QED
  BY <1>4, <1>5

\* become_leader, finished or undone by a throwing sender, keeps term and vote.
LEMMA BecomeLeader ==
    ASSUME NEW s \in RaftNodeRecord, NEW n \in Node, NEW e \in Env
    PROVE  Sound(s, become_leader(s, n, e))
<1> DEFINE fs == [p \in Node |-> IF p \in quorum_set(s) \ {n} THEN new_follower(last_index(s))
                                                             ELSE Untracked]
           led == [s EXCEPT !.state = "Leader", !.leader_id = n, !.transferring = FALSE,
                            !.follower_states = fs]
           noop == [term |-> s.current_term, command |-> NoOpCommand]
           led2 == [led EXCEPT !.log = Append(@, noop)]
<1>1. fs \in [Node -> FollowerState]
  BY LastIndex, NewFollower
<1>2. "Leader" \in RaftNodeState /\ n \in RaftNodeId
  BY DEF RaftNodeState, RaftNodeId
<1>3. noop \in LogEntry
  BY Fields DEF LogEntry, RaftCommand
<1> HIDE DEF fs
<1>4. led \in RaftNodeRecord
  BY <1>1, <1>2, Update
<1>5. led.current_term = s.current_term /\ led.voted_for = s.voted_for
  BY DEF RaftNodeRecord
<1>6. Sound(s, led)
  BY <1>4, <1>5, Fields DEF Sound, Keeps
<1> HIDE DEF led, noop
<1>7. Append(led.log, noop) \in Seq(LogEntry)
  BY <1>3, <1>4, Fields
<1>8. led2 \in RaftNodeRecord
  BY <1>4, <1>7, Update
<1>9. led2.current_term = led.current_term /\ led2.voted_for = led.voted_for
  BY <1>4 DEF RaftNodeRecord
<1>10. Sound(led, led2)
  BY <1>4, <1>8, <1>9, Fields DEF Sound, Keeps
<1>11. Sound(s, send_heartbeats(led2, n, e))
  BY <1>6, <1>8, <1>10, SendHeartbeats, KeepsTrans
<1>12. Sound(s, become_follower(s, s.current_term))
  BY Fields, BecomeFollower
<1>13. Sound(s, become_follower(led, s.current_term))
  BY <1>4, <1>6, Fields, BecomeFollower, KeepsTrans
<1>14. become_leader(s, n, e) =
         IF s.members = {} \/ ~e.disk
         THEN become_follower(IF s.members = {} THEN s ELSE led, s.current_term)
         ELSE send_heartbeats(led2, n, e)
  BY DEF become_leader, led, noop, fs
<1> HIDE DEF led2
<1> QED
  BY <1>11, <1>12, <1>13, <1>14

\* Counting a grant keeps the record well typed, whether or not it wins the round.
LEMMA TallyVotes ==
    ASSUME NEW s \in RaftNodeRecord, NEW n \in Node, NEW e \in Env, NEW pre \in BOOLEAN
    PROVE  Sound(s, tally_votes(s, n, e, pre))
BY BecomeCandidate, BecomeLeader, KeepsRefl DEF tally_votes
-----------------------------------------------------------------------------
(* Committing and applying. *)

\* A non-empty set of indices up to "last" has a maximum.
LEMMA MaxExists ==
    ASSUME NEW last \in Nat, NEW S, S # {}, S \subseteq 1..last
    PROVE  Max(S) \in S
<1> DEFINE R == {ss \in Nat \X Nat : ss[1] < ss[2]}
           T == {last - i : i \in S}
<1>1. IsWellFoundedOn(R, Nat)
  BY NatLessThanWellFounded DEF OpToRel
<1>2. T \subseteq Nat /\ T # {}
  <2>1. \A i \in S : last - i \in Nat
    OBVIOUS
  <2> QED
    BY <2>1
<1>3. PICK x \in T : \A y \in T : ~(<<y, x>> \in R)
  <2> HIDE DEF R, T
  <2> QED
    BY <1>1, <1>2, WFMin
<1>4. PICK i \in S : x = last - i
  OBVIOUS
<1>5. ASSUME NEW j \in S PROVE i >= j
  <2>1. last - j \in T /\ last - j \in Nat /\ x \in Nat
    BY <1>2
  <2>2. ~(last - j < x)
    BY <1>3, <2>1
  <2> QED
    BY <1>4, <2>2
<1> QED
  BY <1>5 DEF Max

\* commit_index is moved to an index the log has, if it is moved.
LEMMA AdvanceCommitIndex ==
    ASSUME NEW s \in RaftNodeRecord, NEW n \in Node
    PROVE  Sound(s, advance_commit_index(s, n))
<1> DEFINE active == {p \in Node : s.follower_states[p].tracked /\ s.follower_states[p].is_active}
           indices == IF active # {} THEN committable(s, n)
                      ELSE IF Cardinality(s.members) = 1
                      THEN (s.commit_index + 1)..last_index(s) ELSE {}
           r == [s EXCEPT !.commit_index = Max(indices)]
<1>1. advance_commit_index(s, n) =
        IF s.state # "Leader" \/ indices = {} THEN s ELSE r
  BY DEF advance_commit_index
<1>2. indices \subseteq 1..last_index(s)
  <2>1. committable(s, n) \subseteq (s.commit_index + 1)..last_index(s)
    BY DEF committable
  <2>2. (s.commit_index + 1)..last_index(s) \subseteq 1..last_index(s)
    BY Fields, LastIndex
  <2> QED
    BY <2>1, <2>2
<1> HIDE DEF indices
<1>3. ASSUME indices # {} PROVE Sound(s, r)
  <2>1. Max(indices) \in Nat
    <3>1. last_index(s) \in Nat
      BY LastIndex
    <3>2. Max(indices) \in indices
      BY <1>2, <1>3, <3>1, MaxExists
    <3>3. \A i \in indices : i \in Nat
      BY <1>2, <3>1
    <3> QED
      BY <3>2, <3>3, Zenon
  <2>2. r \in RaftNodeRecord
    BY <2>1, Update
  <2>3. r.current_term = s.current_term /\ r.voted_for = s.voted_for
    BY DEF RaftNodeRecord
  <2> QED
    BY <2>2, <2>3, Fields DEF Sound, Keeps
<1> HIDE DEF r
<1> QED
  BY <1>1, <1>3, KeepsRefl

\* Assigning the membership fields and the follower map.
LEMMA MembershipStep ==
    ASSUME NEW s \in RaftNodeRecord, NEW fs \in [Node -> FollowerState],
           NEW M \in SUBSET Node, NEW J \in SUBSET Node
    PROVE  Sound(s, [s EXCEPT !.members = M, !.joint_members = J, !.follower_states = fs])
<1> DEFINE r == [s EXCEPT !.members = M, !.joint_members = J, !.follower_states = fs]
<1>1. r \in RaftNodeRecord
  BY Update
<1>2. r.current_term = s.current_term /\ r.voted_for = s.voted_for
  BY DEF RaftNodeRecord
<1> QED
  BY <1>1, <1>2, Fields DEF Sound, Keeps

\* A change applied outside joint consensus leaves a well-typed membership.
LEMMA ApplyDirect ==
    ASSUME NEW s \in RaftNodeRecord, NEW n \in Node, NEW M \in SUBSET Node
    PROVE  Sound(s, apply_direct_membership_change(s, n, M))
<1> DEFINE old == s.follower_states
           reconciled == [p \in Node |->
               CASE p \notin M -> Untracked
                 [] p \in M /\ p # n /\ ~old[p].tracked -> new_follower(last_index(s))
                 [] OTHER -> old[p]]
           fs == IF s.state = "Leader" THEN reconciled ELSE s.follower_states
           r == [s EXCEPT !.members = M, !.joint_members = {}, !.follower_states = fs]
<1>1. fs \in [Node -> FollowerState]
  BY Fields, LastIndex, NewFollower
<1>2. apply_direct_membership_change(s, n, M) = IF M = {} THEN s ELSE r
  BY DEF apply_direct_membership_change
<1> HIDE DEF fs
<1>3. Sound(s, r)
  BY <1>1, MembershipStep
<1> HIDE DEF r
<1> QED
  BY <1>2, <1>3, KeepsRefl

\* Entering joint consensus leaves a well-typed membership.
LEMMA ApplyJoint ==
    ASSUME NEW s \in RaftNodeRecord, NEW n \in Node, NEW cmd \in ConfigChangeCommand
    PROVE  Sound(s, apply_joint_consensus_entry(s, n, cmd))
<1> DEFINE old == s.follower_states
           added == [p \in Node |-> IF p \in cmd.new_members \ {n} /\ ~old[p].tracked
                                    THEN new_follower(last_index(s)) ELSE old[p]]
           fs == IF s.state = "Leader" THEN added ELSE s.follower_states
           r == [s EXCEPT !.members = cmd.old_members, !.joint_members = cmd.new_members,
                          !.follower_states = fs]
<1>1. fs \in [Node -> FollowerState]
  BY Fields, LastIndex, NewFollower
<1>2. cmd.new_members \in SUBSET Node /\ cmd.old_members \in SUBSET Node
  BY DEF ConfigChangeCommand
<1>3. apply_joint_consensus_entry(s, n, cmd) =
        IF cmd.old_members = {} THEN apply_direct_membership_change(s, n, cmd.new_members) ELSE r
  BY DEF apply_joint_consensus_entry
<1> HIDE DEF fs
<1>4. Sound(s, r)
  BY <1>1, <1>2, MembershipStep
<1> HIDE DEF r
<1> QED
  BY <1>2, <1>3, <1>4, ApplyDirect

\* Leaving joint consensus leaves a well-typed membership.
LEMMA ApplyFinalization ==
    ASSUME NEW s \in RaftNodeRecord, NEW n \in Node, NEW cmd \in ConfigChangeCommand
    PROVE  Sound(s, apply_joint_consensus_finalization(s, n, cmd))
<1> DEFINE removed == s.members \ s.joint_members
           fs == IF s.state # "Leader" THEN s.follower_states
                 ELSE [p \in Node |-> IF p \in removed THEN Untracked ELSE s.follower_states[p]]
           r == [s EXCEPT !.members = s.joint_members, !.joint_members = {},
                          !.follower_states = fs]
<1>1. fs \in [Node -> FollowerState]
  BY Fields, NewFollower
<1>2. apply_joint_consensus_finalization(s, n, cmd) =
        IF cmd.joint_consensus \/ cmd.new_members # s.joint_members THEN s
        ELSE IF n \in r.members THEN r ELSE become_follower(r, s.current_term)
  BY DEF apply_joint_consensus_finalization
<1> HIDE DEF fs
<1>3. Sound(s, r)
  BY <1>1, Fields, MembershipStep
<1> HIDE DEF r
<1>4. Sound(s, become_follower(r, s.current_term))
  <2>1. r \in RaftNodeRecord
    BY <1>3 DEF Sound
  <2> QED
    BY <1>3, <2>1, Fields, BecomeFollower, KeepsTrans
<1> QED
  BY <1>2, <1>3, <1>4, KeepsRefl

\* Applying any configuration entry leaves a well-typed membership.
LEMMA ProcessConfigChange ==
    ASSUME NEW s \in RaftNodeRecord, NEW n \in Node, NEW cmd \in ConfigChangeCommand
    PROVE  Sound(s, process_config_change(s, n, cmd))
<1> DEFINE c == IF in_joint_consensus(s) THEN apply_joint_consensus_finalization(s, n, cmd)
                ELSE IF cmd.joint_consensus THEN apply_joint_consensus_entry(s, n, cmd)
                ELSE apply_direct_membership_change(s, n, cmd.new_members)
           r == [c EXCEPT !.pending_config_index = 0]
<1>1. cmd.new_members \in SUBSET Node
  BY DEF ConfigChangeCommand
<1>2. Sound(s, c)
  BY <1>1, ApplyDirect, ApplyJoint, ApplyFinalization
<1>3. process_config_change(s, n, cmd) = r
  BY DEF process_config_change
<1> HIDE DEF c
<1>4. c \in RaftNodeRecord
  BY <1>2 DEF Sound
<1>5. r \in RaftNodeRecord
  BY <1>4, Update
<1>6. r.current_term = c.current_term /\ r.voted_for = c.voted_for
  BY <1>4 DEF RaftNodeRecord
<1>7. Sound(c, r)
  BY <1>4, <1>5, <1>6, Fields DEF Sound, Keeps
<1> HIDE DEF r
<1> QED
  BY <1>2, <1>3, <1>7, KeepsTrans

\* One turn of the apply loop keeps the record well typed and touches no vote.
LEMMA ApplyOne ==
    ASSUME NEW s \in RaftNodeRecord, NEW n \in Node, applying(s)
    PROVE  /\ Sound(s, apply_one(s, n))
           /\ s.log[s.last_applied + 1] \in LogEntry
<1> DEFINE entry == s.log[s.last_applied + 1]
           c == IF entry.command.type = "ConfigChange"
                THEN process_config_change(s, n, entry.command) ELSE s
           r == [c EXCEPT !.last_applied = @ + 1]
<1>1. entry \in LogEntry
  <2>1. s.last_applied + 1 \in 1..Len(s.log) /\ s.log \in Seq(LogEntry)
    BY Fields DEF applying, last_index
  <2> QED
    BY <2>1
<1>2. ASSUME entry.command.type = "ConfigChange" PROVE entry.command \in ConfigChangeCommand
  <2> HIDE DEF entry
  <2>1. entry.command \in RaftCommand
    BY <1>1 DEF LogEntry
  <2> QED
    BY <1>2, <2>1 DEF RaftCommand, NoOpCommand
<1>3. Sound(s, c)
  <2> HIDE DEF entry
  <2> QED
    BY <1>2, ProcessConfigChange, KeepsRefl
<1>4. apply_one(s, n) = r
  BY DEF apply_one
<1> HIDE DEF c
<1>5. c \in RaftNodeRecord
  BY <1>3 DEF Sound
<1>6. r \in RaftNodeRecord
  <2>1. c.last_applied + 1 \in Nat
    BY <1>5, Fields
  <2> QED
    BY <1>5, <2>1, Update
<1>7. r.current_term = c.current_term /\ r.voted_for = c.voted_for
  BY <1>5 DEF RaftNodeRecord
<1>8. Sound(c, r)
  BY <1>5, <1>6, <1>7, Fields DEF Sound, Keeps
<1> HIDE DEF r, entry
<1>9. Sound(s, apply_one(s, n))
  BY <1>3, <1>4, <1>8, KeepsTrans
<1> QED
  BY <1>1, <1>9 DEF entry
-----------------------------------------------------------------------------
(* Inbound RPCs. *)

\* Answering a request with a well-typed reply keeps the outbox well typed.
LEMMA Reply ==
    ASSUME NEW s \in RaftNodeRecord, NEW m \in Message
    PROVE  Sound(s, reply(s, m))
<1> DEFINE out == s.out \cup {m}
<1>1. out \in SUBSET Message
  BY Fields
<1>2. reply(s, m) = [s EXCEPT !.out = out]
  BY DEF reply
<1> HIDE DEF out
<1>3. [s EXCEPT !.out = out] \in RaftNodeRecord
  BY <1>1, Update
<1>4. /\ [s EXCEPT !.out = out].current_term = s.current_term
      /\ [s EXCEPT !.out = out].voted_for = s.voted_for
  BY DEF RaftNodeRecord
<1> QED
  BY <1>2, <1>3, <1>4, Fields DEF Sound, Keeps

\* The reply to a vote request is well typed.
LEMMA VoteResponse ==
    ASSUME NEW s \in RaftNodeRecord, NEW n \in Node, NEW m \in RequestVoteRequest,
           NEW granted \in BOOLEAN
    PROVE  Sound(s, vote_response(s, n, m, granted))
<1> DEFINE resp == [type |-> "RequestVoteResponse", from |-> n, to |-> m.from,
                    term |-> s.current_term, vote_granted |-> granted]
<1>1. m.from \in Node /\ m.term \in Nat
  BY DEF RequestVoteRequest
<1>2. resp \in Message
  BY <1>1, Fields, MessageTypes
<1>3. vote_response(s, n, m, granted) = reply(s, resp)
  BY DEF vote_response
<1> HIDE DEF resp
<1> QED
  BY <1>2, <1>3, Reply

\* The only place that gives a vote: voted_for_ is free or already names the candidate.
LEMMA HandleVote ==
    ASSUME NEW s \in RaftNodeRecord, NEW n \in Node, NEW m \in RequestVoteRequest
    PROVE  Sound(s, handle_request_vote(s, n, m))
<1> DEFINE up == log_is_up_to_date(s, m.last_log_index, m.last_log_term)
           s1 == IF m.term > s.current_term THEN become_follower(s, m.term) ELSE s
           s2 == [s1 EXCEPT !.voted_for = m.candidate_id]
           refused == \/ m.term < s.current_term
                      \/ s1.voted_for \notin {kNoLeader, m.candidate_id}
                      \/ ~up
           pre == m.term >= s.current_term /\ up
<1>1. m.term \in Nat /\ m.candidate_id \in Node
  BY DEF RequestVoteRequest
<1>2. Sound(s, s1)
  BY <1>1, BecomeFollower, KeepsRefl
<1>3. handle_request_vote(s, n, m) =
        IF m.pre_vote THEN vote_response(s, n, m, pre)
        ELSE IF refused THEN vote_response(s1, n, m, FALSE)
        ELSE vote_response(s2, n, m, TRUE)
  BY DEF handle_request_vote
<1>4. pre \in BOOLEAN
  BY DEF log_is_up_to_date
<1> HIDE DEF s1, up, pre
<1>5. s1 \in RaftNodeRecord
  BY <1>2 DEF Sound
<1>6. s2 \in RaftNodeRecord
  <2>1. m.candidate_id \in RaftNodeId
    BY <1>1 DEF RaftNodeId
  <2> QED
    BY <1>5, <2>1, Update
<1>7. ASSUME ~refused PROVE Sound(s1, s2)
  <2>1. s2.current_term = s1.current_term /\ s2.voted_for = m.candidate_id
    BY <1>5 DEF RaftNodeRecord
  <2>2. s1.current_term \in Nat
    BY <1>5, Fields
  <2> QED
    BY <1>6, <1>7, <2>1, <2>2 DEF Sound, Keeps
<1> HIDE DEF s2, refused
<1>8. Sound(s, vote_response(s, n, m, pre))
  BY <1>4, VoteResponse
<1>9. Sound(s, vote_response(s1, n, m, FALSE))
  BY <1>2, <1>5, VoteResponse, KeepsTrans
<1>10. ASSUME ~refused PROVE Sound(s, vote_response(s2, n, m, TRUE))
  <2>1. Sound(s, s2)
    BY <1>2, <1>7, <1>10, KeepsTrans
  <2> QED
    BY <2>1, <1>6, VoteResponse, KeepsTrans
<1> QED
  BY <1>3, <1>8, <1>9, <1>10

\* The reply to AppendEntries is well typed.
LEMMA AppendResponse ==
    ASSUME NEW s \in RaftNodeRecord, NEW n \in Node, NEW m \in AppendEntriesRequest,
           NEW ok \in BOOLEAN, NEW last \in Nat, NEW conflict \in Int
    PROVE  Sound(s, append_response(s, n, m, ok, last, conflict))
<1> DEFINE resp == [type |-> "AppendEntriesResponse", from |-> n, to |-> m.from,
                    term |-> s.current_term, success |-> ok,
                    last_log_index |-> last, conflict_index |-> conflict]
<1>1. m.from \in Node
  BY DEF AppendEntriesRequest
<1>2. resp \in Message
  BY <1>1, Fields, MessageTypes
<1>3. append_response(s, n, m, ok, last, conflict) = reply(s, resp)
  BY DEF append_response
<1> HIDE DEF resp
<1> QED
  BY <1>2, <1>3, Reply

\* The conflict hint of a rejected AppendEntries is a natural number.
LEMMA ConflictStart ==
    ASSUME NEW s \in RaftNodeRecord, NEW prev \in Nat
    PROVE  conflict_start(s, prev) \in Int
<1> DEFINE run == {i \in 1..(prev - 1) :
                     \A j \in i..(prev - 1) : term_at(s, j) = term_at(s, prev)}
<1>1. IsFiniteSet(1..(prev - 1))
  BY FS_Interval
<1>2. IsFiniteSet(run)
  BY <1>1, FS_Subset
<1>3. Cardinality(run) \in Nat
  BY <1>2, FS_CardinalityType
<1>4. conflict_start(s, prev) = prev - Cardinality(run)
  BY DEF conflict_start
<1> HIDE DEF run
<1> QED
  BY <1>3, <1>4

\* Truncating and appending leaves a well-typed log.
LEMMA AppendToLog ==
    ASSUME NEW s \in RaftNodeRecord, NEW m \in AppendEntriesRequest, NEW e \in Env,
           m.prev_log_index <= last_index(s)
    PROVE  Sound(s, append_entries_to_log(s, m, e))
<1> DEFINE kept == SubSeq(s.log, 1, m.prev_log_index)
           log == IF e.disk THEN kept \o m.entries ELSE kept
           r == [s EXCEPT !.log = log]
<1>1. m.prev_log_index \in Nat /\ m.entries \in Seq(LogEntry)
  BY DEF AppendEntriesRequest
<1>2. kept \in Seq(LogEntry)
  BY <1>1, Fields, SubSeqType DEF last_index
<1>3. log \in Seq(LogEntry)
  <2> HIDE DEF kept
  <2> QED
    BY <1>1, <1>2
<1>4. append_entries_to_log(s, m, e) = IF m.entries = <<>> THEN s ELSE r
  BY DEF append_entries_to_log
<1> HIDE DEF log
<1>5. r \in RaftNodeRecord
  BY <1>3, Update
<1>6. r.current_term = s.current_term /\ r.voted_for = s.voted_for
  BY DEF RaftNodeRecord
<1>7. Sound(s, r)
  BY <1>5, <1>6, Fields DEF Sound, Keeps
<1> HIDE DEF r
<1> QED
  BY <1>4, <1>7, KeepsRefl

\* handle_append_entries, on every path, never lowers the term nor changes a vote in it.
LEMMA HandleAppend ==
    ASSUME NEW s \in RaftNodeRecord, NEW n \in Node, NEW m \in AppendEntriesRequest,
           NEW e \in Env
    PROVE  Sound(s, handle_append_entries(s, n, m, e))
<1> DEFINE last == last_index(s)
           s1 == IF m.term > s.current_term THEN become_follower(s, m.term) ELSE s
           s2 == [s1 EXCEPT !.leader_id = m.from]
           s3 == append_entries_to_log(s2, m, e)
           last_new == m.prev_log_index + Len(m.entries)
           commit == IF m.leader_commit < last_new THEN m.leader_commit ELSE last_new
           s4 == IF m.leader_commit <= s3.commit_index THEN s3
                 ELSE [s3 EXCEPT !.commit_index = commit]
<1>1. /\ m.term \in Nat /\ m.from \in RaftNodeId /\ m.prev_log_index \in Nat
      /\ m.entries \in Seq(LogEntry) /\ m.leader_commit \in Nat
  BY DEF AppendEntriesRequest, RaftNodeId
<1>2. last \in Nat /\ last + 1 \in Int /\ 0 \in Int /\ commit \in Nat
  BY <1>1, LastIndex
<1>3. Sound(s, s1) /\ s1.log = s.log
  <2>1. Sound(s, s1)
    BY <1>1, BecomeFollower, KeepsRefl
  <2>2. s1.log = s.log
    BY DEF become_follower, RaftNodeRecord
  <2> QED
    BY <2>1, <2>2
<1>4. handle_append_entries(s, n, m, e) =
        IF m.term < s.current_term THEN append_response(s, n, m, FALSE, last, last + 1)
        ELSE IF s2.state = "Leader" THEN append_response(s2, n, m, FALSE, last, 0)
        ELSE IF m.prev_log_index > last THEN append_response(s2, n, m, FALSE, last, last + 1)
        ELSE IF ~log_matches(s, m)
        THEN append_response(s2, n, m, FALSE, last, conflict_start(s, m.prev_log_index))
        ELSE IF m.entries # <<>> /\ ~e.disk
        THEN append_response(s3, n, m, FALSE, last, m.prev_log_index + 1)
        ELSE append_response(s4, n, m, TRUE, last, 0)
  BY DEF handle_append_entries
<1> HIDE DEF s1
<1>5. s1 \in RaftNodeRecord
  BY <1>3 DEF Sound
<1>6. Sound(s, s2) /\ s2 \in RaftNodeRecord /\ last_index(s2) = last
  <2>1. s2 \in RaftNodeRecord
    BY <1>1, <1>5, Update
  <2>2. /\ s2.current_term = s1.current_term /\ s2.voted_for = s1.voted_for
        /\ s2.log = s1.log
    BY <1>5 DEF RaftNodeRecord
  <2>3. Sound(s1, s2)
    BY <1>5, <2>1, <2>2, Fields DEF Sound, Keeps
  <2> HIDE DEF s2
  <2> QED
    BY <1>3, <2>1, <2>2, <2>3, KeepsTrans DEF last_index
<1> HIDE DEF s2, last, commit
<1>7. ASSUME m.prev_log_index <= last PROVE Sound(s, s3) /\ Sound(s, s4)
  <2>1. Sound(s2, s3)
    BY <1>6, <1>7, AppendToLog
  <2>2. s3 \in RaftNodeRecord
    BY <2>1 DEF Sound
  <2> HIDE DEF s3
  <2> DEFINE r == [s3 EXCEPT !.commit_index = commit]
  <2>3. r \in RaftNodeRecord
    BY <1>2, <2>2, Update
  <2>4. r.current_term = s3.current_term /\ r.voted_for = s3.voted_for
    BY <2>2 DEF RaftNodeRecord
  <2>5. Sound(s3, r)
    BY <2>2, <2>3, <2>4, Fields DEF Sound, Keeps
  <2>6. Sound(s3, s4)
    BY <2>2, <2>5, KeepsRefl
  <2> HIDE DEF r, s4
  <2> QED
    BY <1>6, <2>1, <2>2, <2>6, KeepsTrans
<1> HIDE DEF s3, s4
<1>8. ASSUME NEW t, Sound(s, t), NEW ok \in BOOLEAN, NEW c \in Int
      PROVE  Sound(s, append_response(t, n, m, ok, last, c))
  <2>1. t \in RaftNodeRecord
    BY <1>8 DEF Sound
  <2>2. Sound(t, append_response(t, n, m, ok, last, c))
    BY <1>2, <2>1, AppendResponse
  <2> QED
    BY <1>8, <2>2, KeepsTrans
<1>9. conflict_start(s, m.prev_log_index) \in Int /\ m.prev_log_index + 1 \in Int
  BY <1>1, ConflictStart
<1>10. ~(m.prev_log_index > last) => m.prev_log_index <= last
  BY <1>1, <1>2
<1> QED
  <2>1. Sound(s, append_response(s, n, m, FALSE, last, last + 1))
    BY <1>2, <1>8, KeepsRefl
  <2>2. /\ Sound(s, append_response(s2, n, m, FALSE, last, 0))
        /\ Sound(s, append_response(s2, n, m, FALSE, last, last + 1))
        /\ Sound(s, append_response(s2, n, m, FALSE, last,
                                    conflict_start(s, m.prev_log_index)))
    BY <1>2, <1>6, <1>8, <1>9
  <2>3. ASSUME m.prev_log_index <= last
        PROVE  /\ Sound(s, append_response(s3, n, m, FALSE, last, m.prev_log_index + 1))
               /\ Sound(s, append_response(s4, n, m, TRUE, last, 0))
    BY <1>2, <1>7, <1>8, <1>9, <2>3
  <2> QED
    BY <1>4, <1>10, <2>1, <2>2, <2>3
-----------------------------------------------------------------------------
(* Responses. *)

\* handle_request_vote_response keeps the record well typed and gives no vote.
LEMMA HandleVoteResponse ==
    ASSUME NEW s \in RaftNodeRecord, NEW n \in Node, NEW m \in RequestVoteResponse,
           NEW e \in Env
    PROVE  Sound(s, handle_request_vote_response(s, n, m, e))
<1> DEFINE pre == s.state = "PreCandidate"
           request_term == IF pre THEN s.current_term + 1 ELSE s.current_term
           c1 == [s EXCEPT !.pre_votes_received = @ + 1]
           c2 == [s EXCEPT !.votes_received = @ + 1]
           counted == IF ~m.vote_granted THEN s ELSE IF pre THEN c1 ELSE c2
<1>1. m.term \in Nat
  BY DEF RequestVoteResponse
<1>2. s.pre_votes_received + 1 \in Nat /\ s.votes_received + 1 \in Nat
  BY Fields
<1>3. c1 \in RaftNodeRecord /\ c2 \in RaftNodeRecord
  BY <1>2, Update
<1>4. /\ c1.current_term = s.current_term /\ c1.voted_for = s.voted_for
      /\ c2.current_term = s.current_term /\ c2.voted_for = s.voted_for
  BY DEF RaftNodeRecord
<1>5. Sound(s, c1) /\ Sound(s, c2)
  BY <1>3, <1>4, Fields DEF Sound, Keeps
<1>6. handle_request_vote_response(s, n, m, e) =
        IF s.state \notin {"Candidate", "PreCandidate"} THEN s
        ELSE IF m.term > request_term THEN become_follower(s, m.term)
        ELSE tally_votes(counted, n, e, pre)
  BY DEF handle_request_vote_response
<1> HIDE DEF c1, c2
<1>7. Sound(s, counted)
  BY <1>5, KeepsRefl
<1>8. counted \in RaftNodeRecord /\ pre \in BOOLEAN
  BY <1>7 DEF Sound
<1> HIDE DEF counted, pre, request_term
<1>9. Sound(s, tally_votes(counted, n, e, pre))
  BY <1>7, <1>8, TallyVotes, KeepsTrans
<1> QED
  BY <1>1, <1>6, <1>9, BecomeFollower, KeepsRefl

\* Recording a follower's acknowledgement keeps its progress well typed.
LEMMA Progress ==
    ASSUME NEW f \in FollowerState
    PROVE  /\ acknowledged(f) \in FollowerState
           /\ \A last \in Nat : replicated(f, last) \in FollowerState
           /\ \A c \in Int : backtracked(f, c) \in FollowerState
<1>1. acknowledged(f) \in FollowerState
  <2> DEFINE x == IF f.in_flight > 0 THEN f.in_flight - 1 ELSE 0
  <2>1. x \in Nat
    BY FollowerFields
  <2>2. acknowledged(f) = [f EXCEPT !.in_flight = x, !.is_active = TRUE, !.failures = 0]
    BY DEF acknowledged
  <2> HIDE DEF x
  <2>3. [f EXCEPT !.in_flight = x, !.is_active = TRUE, !.failures = 0] \in FollowerState
    BY <2>1, UpdateFollower
  <2> QED
    BY <2>2, <2>3
<1>2. ASSUME NEW last \in Nat PROVE replicated(f, last) \in FollowerState
  <2>1. last + 1 \in Nat \ {0}
    OBVIOUS
  <2>2. [f EXCEPT !.match_index = last, !.next_index = last + 1] \in FollowerState
    BY <2>1, UpdateFollower
  <2> QED
    BY <2>2 DEF replicated
<1>3. ASSUME NEW c \in Int PROVE backtracked(f, c) \in FollowerState
  <2> DEFINE x == IF c > 0 /\ c < f.next_index THEN c
                  ELSE IF f.next_index > 1 THEN f.next_index - 1 ELSE f.next_index
  <2>1. x \in Nat \ {0}
    BY FollowerFields
  <2>2. backtracked(f, c) = [f EXCEPT !.next_index = x]
    BY DEF backtracked
  <2> HIDE DEF x
  <2> QED
    BY <2>1, <2>2, UpdateFollower
<1> QED
  BY <1>1, <1>2, <1>3

\* handle_append_entries_response keeps the record well typed and gives no vote.
LEMMA HandleAppendResponse ==
    ASSUME NEW s \in RaftNodeRecord, NEW n \in Node, NEW m \in AppendEntriesResponse,
           NEW e \in Env
    PROVE  Sound(s, handle_append_entries_response(s, n, m, e))
<1> DEFINE f == acknowledged(s.follower_states[m.from])
           with(g) == [s EXCEPT !.follower_states[m.from] = g]
           ok == with(replicated(f, m.last_log_index))
           no == with(backtracked(f, m.conflict_index))
<1>1. /\ m.from \in Node /\ m.term \in Nat /\ m.last_log_index \in Nat
      /\ m.conflict_index \in Int
  BY DEF AppendEntriesResponse
<1>2. f \in FollowerState
  <2>1. s.follower_states[m.from] \in FollowerState
    BY <1>1, Fields
  <2> QED
    BY <2>1, Progress
<1>3. ASSUME NEW g \in FollowerState PROVE Sound(s, with(g))
  <2> DEFINE fs == [s.follower_states EXCEPT ![m.from] = g]
  <2>1. fs \in [Node -> FollowerState]
    BY <1>1, Fields
  <2> HIDE DEF fs
  <2>2. Sound(s, [s EXCEPT !.follower_states = fs])
    BY <2>1, Fields, SendStep
  <2> QED
    BY <2>2 DEF fs
<1>4. handle_append_entries_response(s, n, m, e) =
        IF s.state # "Leader" THEN s
        ELSE IF m.term > s.current_term THEN become_follower(s, m.term)
        ELSE IF ~s.follower_states[m.from].tracked THEN s
        ELSE IF m.success THEN advance_commit_index(ok, n)
        ELSE send_append_entries_to(no, n, m.from, e)
  BY DEF handle_append_entries_response
<1> HIDE DEF f, with
<1>5. Sound(s, ok) /\ Sound(s, no)
  BY <1>1, <1>2, <1>3, Progress
<1> HIDE DEF ok, no
<1>6. ok \in RaftNodeRecord /\ no \in RaftNodeRecord
  BY <1>5 DEF Sound
<1>7. Sound(s, advance_commit_index(ok, n))
  BY <1>5, <1>6, AdvanceCommitIndex, KeepsTrans
<1>8. Sound(s, send_append_entries_to(no, n, m.from, e))
  BY <1>1, <1>5, <1>6, SendAppendEntriesTo, KeepsTrans
<1> QED
  BY <1>1, <1>4, <1>7, <1>8, BecomeFollower, KeepsRefl
-----------------------------------------------------------------------------
(* transfer_leadership() and the lifecycle. *)

\* One polling round of a leadership transfer keeps the record well typed.
LEMMA TransferRound ==
    ASSUME NEW s \in RaftNodeRecord, NEW n \in Node, NEW e \in Env, NEW c \in BOOLEAN,
           s.transfer \in Transferring
    PROVE  Sound(s, transfer_round(s, n, e, c))
<1> DEFINE t == s.transfer
           sent == send_append_entries_to(s, n, t.target, e)
           t1 == [t EXCEPT !.pc = "replicating", !.round = @ + 1]
           t2 == [t EXCEPT !.pc = "signalled"]
           r1 == [sent EXCEPT !.transfer = t1]
           rv == [type |-> "RequestVoteRequest", from |-> n, to |-> t.target,
                  term |-> s.current_term + 1, candidate_id |-> t.target,
                  last_log_index |-> last_index(s),
                  last_log_term |-> term_at(s, last_index(s)), pre_vote |-> FALSE]
           out == s.out \cup {m \in {rv} : m.to \notin e.down}
           r2 == [s EXCEPT !.transfer = t2, !.out = out]
<1>1. t1 \in Transfer /\ t2 \in Transfer /\ t.target \in Node
  <2>1. t \in Transferring
    OBVIOUS
  <2> HIDE DEF t
  <2>2. t.round + 1 \in Nat /\ t.target \in Node
    BY <2>1 DEF Transferring
  <2>3. [t EXCEPT !.pc = "replicating", !.round = t.round + 1] \in Transferring
    BY <2>1, <2>2 DEF Transferring
  <2>4. [t EXCEPT !.pc = "signalled"] \in Transferring
    BY <2>1 DEF Transferring
  <2> QED
    BY <2>2, <2>3, <2>4 DEF Transfer
<1>2. transfer_round(s, n, e, c) = IF t.round < kTransferMaxRounds /\ ~c THEN r1 ELSE r2
  BY DEF transfer_round
<1>3. rv \in Message
  <2>1. s.current_term + 1 \in Nat
    BY Fields
  <2> QED
    BY <1>1, <2>1, LastIndex, MessageTypes
<1>4. out \in SUBSET Message
  <2> HIDE DEF rv
  <2> QED
    BY <1>3, Fields
<1>5. Sound(s, sent) /\ sent \in RaftNodeRecord
  BY <1>1, SendAppendEntriesTo DEF Sound
<1> HIDE DEF sent, t1, t2, out
<1>6. r1 \in RaftNodeRecord /\ r2 \in RaftNodeRecord
  BY <1>1, <1>4, <1>5, Update
<1>7. /\ r1.current_term = sent.current_term /\ r1.voted_for = sent.voted_for
      /\ r2.current_term = s.current_term /\ r2.voted_for = s.voted_for
  BY <1>5 DEF RaftNodeRecord
<1>8. Sound(sent, r1) /\ Sound(s, r2)
  BY <1>5, <1>6, <1>7, Fields DEF Sound, Keeps
<1> HIDE DEF r1, r2
<1> QED
  BY <1>2, <1>5, <1>8, KeepsTrans

\* An idle transfer thread is a well-typed one.
LEMMA NoTransferType == NoTransfer \in Transfer
BY DEF Transfer

\* transferring_ and the state of the transfer thread may be assigned freely.
LEMMA TransferStep ==
    ASSUME NEW s \in RaftNodeRecord, NEW b \in BOOLEAN, NEW t \in Transfer
    PROVE  Sound(s, [s EXCEPT !.transferring = b, !.transfer = t])
<1> DEFINE r == [s EXCEPT !.transferring = b, !.transfer = t]
<1>1. r \in RaftNodeRecord
  BY Update
<1>2. r.current_term = s.current_term /\ r.voted_for = s.voted_for
  BY DEF RaftNodeRecord
<1> QED
  BY <1>1, <1>2, Fields DEF Sound, Keeps

\* A freshly constructed node is well typed.
LEMMA FreshType ==
    ASSUME NEW log \in Seq(LogEntry)
    PROVE  fresh(log) \in RaftNodeRecord
<1>1. /\ [p \in Node |-> Untracked] \in [Node -> FollowerState]
      /\ kNoLeader \in RaftNodeId /\ "Follower" \in RaftNodeState
  BY NewFollower DEF RaftNodeId, RaftNodeState
<1> QED
  BY <1>1, NoTransferType DEF fresh, RaftNodeRecord
-----------------------------------------------------------------------------
(* Steps of the system. *)

\* A step that leaves node n Sound keeps every variable but used and chosen well typed.
LEMMA StepType ==
    ASSUME TypeOK, NEW n \in Node, NEW s, Sound(node[n], s), NEW taken, Step(n, s, taken)
    PROVE  /\ node' \in [Node -> RaftNodeRecord]
           /\ msgs' \subseteq Message
           /\ votesCast' \subseteq Vote
           /\ leaders' \subseteq [term : Nat, leader : Node]
<1>1. s \in RaftNodeRecord
  BY DEF Sound
<1>2. node' \in [Node -> RaftNodeRecord]
  <2>1. [s EXCEPT !.out = {}] \in RaftNodeRecord
    BY <1>1, Update
  <2> QED
    BY <2>1 DEF Step, TypeOK
<1>3. msgs' \subseteq Message
  BY <1>1, Fields DEF Step, TypeOK
<1>4. votesCast' \subseteq Vote
  <2>1. ASSUME NEW v \in [voter : {n}, term : {s.current_term}, candidate : {s.voted_for}],
               v.candidate # kNoLeader
        PROVE  v \in Vote
    <3>1. s.current_term \in Nat /\ s.voted_for \in RaftNodeId
      BY <1>1, Fields
    <3> QED
      BY <2>1, <3>1 DEF Vote, RaftNodeId
  <2> QED
    BY <2>1 DEF Step, TypeOK
<1>5. leaders' \subseteq [term : Nat, leader : Node]
  <2>1. s.current_term \in Nat
    BY <1>1, Fields
  <2> QED
    BY <2>1 DEF Step, TypeOK
<1> QED
  BY <1>2, <1>3, <1>4, <1>5

\* What a step does to terms and votes.
LEMMA StepVotes ==
    ASSUME TypeOK, NEW n \in Node, NEW s, Sound(node[n], s), NEW taken, Step(n, s, taken)
    PROVE  /\ \A p \in Node : node'[p].current_term >= node[p].current_term
           /\ VoteRemembered => VoteRemembered'
           /\ VoteRemembered /\ OneVotePerTerm => OneVotePerTerm'
<1>1. /\ s \in RaftNodeRecord /\ Keeps(node[n], s)
      /\ node \in [Node -> RaftNodeRecord] /\ votesCast \subseteq Vote
  BY DEF Sound, TypeOK
<1>2. /\ node'[n].current_term = s.current_term
      /\ node'[n].voted_for = s.voted_for
      /\ \A p \in Node : p # n => node'[p] = node[p]
  <2> DEFINE r == [s EXCEPT !.out = {}]
  <2>1. r.current_term = s.current_term /\ r.voted_for = s.voted_for
    BY <1>1 DEF RaftNodeRecord
  <2>2. node' = [node EXCEPT ![n] = r]
    BY DEF Step
  <2> HIDE DEF r
  <2> QED
    BY <1>1, <2>1, <2>2
<1>3. \A p \in Node : node[p].current_term \in Nat /\ node[p].voted_for \in RaftNodeId
  BY <1>1, Fields
<1>4. s.current_term \in Nat /\ s.voted_for \in RaftNodeId
  BY <1>1, Fields
<1>5. \A v \in votesCast' :
        \/ v \in votesCast /\ v.voter \in Node /\ v.term \in Nat /\ v.candidate \in Node
        \/ /\ v.voter = n /\ v.term = s.current_term /\ v.candidate = s.voted_for
           /\ s.voted_for # kNoLeader
  <2>1. ASSUME NEW v \in votesCast'
        PROVE  \/ v \in votesCast
               \/ v \in [voter : {n}, term : {s.current_term}, candidate : {s.voted_for}]
                  /\ v.candidate # kNoLeader
    BY DEF Step
  <2>2. \A v \in votesCast : v.voter \in Node /\ v.term \in Nat /\ v.candidate \in Node
    BY <1>1 DEF Vote
  <2> QED
    BY <2>1, <2>2
<1>6. \A p \in Node : node'[p].current_term >= node[p].current_term
  BY <1>1, <1>2, <1>3, <1>4 DEF Keeps
<1>7. ASSUME VoteRemembered, NEW v \in votesCast'
      PROVE  /\ v.term <= node'[v.voter].current_term
             /\ v.term = node'[v.voter].current_term => node'[v.voter].voted_for = v.candidate
  <2>1. CASE v \in votesCast /\ v.voter \in Node /\ v.term \in Nat /\ v.candidate \in Node
    <3>1. /\ v.term <= node[v.voter].current_term
          /\ v.term = node[v.voter].current_term => node[v.voter].voted_for = v.candidate
      BY <1>7, <2>1 DEF VoteRemembered
    <3>2. CASE v.voter # n
      BY <1>2, <2>1, <3>1, <3>2
    <3>3. CASE v.voter = n
      <4>1. kNoLeader # v.candidate
        BY <2>1, NodeAssumption
      <4> QED
        BY <1>1, <1>2, <1>3, <1>4, <2>1, <3>1, <3>3, <4>1 DEF Keeps
    <3> QED
      BY <3>2, <3>3
  <2>2. CASE v.voter = n /\ v.term = s.current_term /\ v.candidate = s.voted_for
    BY <1>2, <1>4, <2>2
  <2> QED
    BY <1>5, <2>1, <2>2
<1>8. VoteRemembered => VoteRemembered'
  BY <1>7 DEF VoteRemembered
<1>9. ASSUME VoteRemembered, OneVotePerTerm, NEW v \in votesCast', NEW w \in votesCast',
             v.voter = w.voter, v.term = w.term
      PROVE  v.candidate = w.candidate
  <2>1. CASE v \in votesCast /\ w \in votesCast
    BY <1>9, <2>1 DEF OneVotePerTerm
  <2>2. CASE v \notin votesCast \/ w \notin votesCast
    <3>1. v.voter = n /\ w.voter = n /\ v.term = s.current_term /\ w.term = s.current_term
      BY <1>5, <1>9, <2>2
    <3>2. v.candidate = s.voted_for /\ w.candidate = s.voted_for
      BY <1>2, <1>7, <1>9, <3>1
    <3> QED
      BY <3>2
  <2> QED
    BY <2>1, <2>2
<1>10. VoteRemembered /\ OneVotePerTerm => OneVotePerTerm'
  BY <1>9 DEF OneVotePerTerm
<1> QED
  BY <1>6, <1>8, <1>10
-----------------------------------------------------------------------------
(* Every action but Restart is a sound step of one node. *)

SoundStep == \E n \in Node : \E s, taken : Sound(node[n], s) /\ Step(n, s, taken)

\* The bounds and the history of applied entries stay well typed.
Books == /\ used' \in Used
         /\ chosen' \subseteq [index : Nat \ {0}, entry : LogEntry]

\* A step that may raise a fault counts it within its bound.
LEMMA FaultType ==
    ASSUME TypeOK, NEW e \in Faults
    PROVE  e \in Env /\ NoFault \in Env /\ Use(e) \in Used
<1>1. NoFault \in Env
  BY DEF NoFault, Env
<1>2. e \in Env
  BY <1>1 DEF Faults
<1>3. Use(e) \in Used
  <2> DEFINE x == IF e = NoFault THEN used.faults ELSE used.faults + 1
  <2>1. x \in Nat
    BY DEF TypeOK, Used
  <2>2. Use(e) = [used EXCEPT !.faults = x]
    BY DEF Use
  <2> HIDE DEF x
  <2> QED
    BY <2>1, <2>2 DEF TypeOK, Used
<1> QED
  BY <1>1, <1>2, <1>3

\* Counting one more use of a bounded resource stays within the type.
LEMMA CounterType ==
    ASSUME NEW u \in Used
    PROVE  /\ [u EXCEPT !.timeouts = @ + 1] \in Used
           /\ [u EXCEPT !.ticks = @ + 1] \in Used
           /\ [u EXCEPT !.restarts = @ + 1] \in Used
           /\ [u EXCEPT !.shutdowns = @ + 1] \in Used
           /\ [u EXCEPT !.duplicates = @ + 1] \in Used
           /\ [u EXCEPT !.transfers = @ + 1] \in Used
BY DEF Used

\* The election thread: sound.
LEMMA ElectionTimeoutSound ==
    ASSUME TypeOK, NEW n \in Node, ElectionTimeout(n)
    PROVE  SoundStep /\ Books
<1>1. PICK e \in Faults :
        LET s == on_election_timeout(node[n], n, e)
        IN  /\ \E lost \in Losses : Step(n, s, lost)
            /\ used' = IF s = node[n] THEN used ELSE [Use(e) EXCEPT !.timeouts = @ + 1]
  BY DEF ElectionTimeout
<1>2. node[n] \in RaftNodeRecord /\ used \in Used
  BY DEF TypeOK
<1>3. e \in Env /\ Use(e) \in Used
  BY FaultType
<1>4. Sound(node[n], on_election_timeout(node[n], n, e))
  BY <1>2, <1>3, OnElectionTimeout
<1>5. SoundStep
  BY <1>1, <1>4 DEF SoundStep
<1>6. used' \in Used
  BY <1>1, <1>2, <1>3, CounterType
<1> QED
  BY <1>5, <1>6 DEF Books, ElectionTimeout, TypeOK

\* The heartbeat thread: sound.
LEMMA HeartbeatTickSound ==
    ASSUME TypeOK, NEW n \in Node, HeartbeatTick(n)
    PROVE  SoundStep /\ Books
<1>1. PICK e \in Faults :
        LET s == replicate_to_followers(send_heartbeats(node[n], n, e), n, e)
        IN  /\ \E back \in SUBSET {p \in Node : ~s.follower_states[p].is_active} :
               \E lost \in Losses :
                  Step(n, [s EXCEPT !.follower_states = [p \in Node |->
                               IF p \in back
                               THEN [@[p] EXCEPT !.is_active = TRUE, !.failures = 0]
                               ELSE @[p]]], lost)
            /\ used' = [Use(e) EXCEPT !.ticks = @ + 1]
  BY DEF HeartbeatTick
<1> DEFINE s == replicate_to_followers(send_heartbeats(node[n], n, e), n, e)
<1>2. node[n] \in RaftNodeRecord
  BY DEF TypeOK
<1>3. e \in Env /\ Use(e) \in Used
  BY FaultType
<1>4. Sound(node[n], s) /\ s \in RaftNodeRecord
  <2> DEFINE h == send_heartbeats(node[n], n, e)
  <2>1. Sound(node[n], h)
    BY <1>2, <1>3, SendHeartbeats
  <2>2. h \in RaftNodeRecord
    BY <2>1 DEF Sound
  <2> HIDE DEF h
  <2>3. Sound(h, replicate_to_followers(h, n, e))
    BY <1>3, <2>2, ReplicateToFollowers
  <2>4. Sound(node[n], replicate_to_followers(h, n, e))
    BY <1>2, <2>1, <2>3, KeepsTrans
  <2> QED
    BY <2>4 DEF Sound, h
<1>5. PICK back \in SUBSET {p \in Node : ~s.follower_states[p].is_active}, lost \in Losses :
        Step(n, [s EXCEPT !.follower_states = [p \in Node |->
                     IF p \in back
                     THEN [s.follower_states[p] EXCEPT !.is_active = TRUE, !.failures = 0]
                     ELSE s.follower_states[p]]], lost)
  BY <1>1
<1> HIDE DEF s
<1> DEFINE fs == [p \in Node |-> IF p \in back
                     THEN [s.follower_states[p] EXCEPT !.is_active = TRUE, !.failures = 0]
                     ELSE s.follower_states[p]]
           r == [s EXCEPT !.follower_states = fs]
<1>6. fs \in [Node -> FollowerState]
  <2>1. \A p \in Node : s.follower_states[p] \in FollowerState
    BY <1>4, Fields
  <2>2. \A p \in Node :
          [s.follower_states[p] EXCEPT !.is_active = TRUE, !.failures = 0] \in FollowerState
    BY <2>1, UpdateFollower
  <2> QED
    BY <2>1, <2>2
<1>7. Step(n, r, lost)
  BY <1>5
<1> HIDE DEF fs
<1>8. Sound(s, r)
  BY <1>4, <1>6, Fields, SendStep
<1>9. Sound(node[n], r)
  <2> HIDE DEF r
  <2> QED
    BY <1>2, <1>4, <1>8, KeepsTrans
<1> HIDE DEF r
<1>10. used' \in Used
  BY <1>1, <1>3, CounterType
<1> QED
  BY <1>7, <1>9, <1>10 DEF SoundStep, Books, HeartbeatTick, TypeOK

\* Stepping down after too many failed heartbeats: sound.
LEMMA StepDownSound ==
    ASSUME TypeOK, NEW n \in Node, StepDown(n)
    PROVE  SoundStep /\ Books
<1>1. node[n] \in RaftNodeRecord
  BY DEF TypeOK
<1>2. Sound(node[n], become_follower(node[n], node[n].current_term))
  BY <1>1, Fields, BecomeFollower
<1>3. Step(n, become_follower(node[n], node[n].current_term), {})
  BY DEF StepDown
<1>4. SoundStep
  BY <1>2, <1>3 DEF SoundStep
<1> QED
  BY <1>4 DEF StepDown, Books, TypeOK

\* A client proposal, appended or refused: sound.
LEMMA ProposeSound ==
    ASSUME TypeOK, NEW n \in Node, NEW command \in RaftCommand, propose(n, command)
    PROVE  SoundStep /\ Books
<1> DEFINE s == node[n]
           entry == [term |-> s.current_term, command |-> command]
           log == Append(s.log, entry)
           pending == IF command.type = "ConfigChange" THEN last_index(s) + 1
                                                       ELSE s.pending_config_index
           r == [s EXCEPT !.log = log, !.pending_config_index = pending]
<1>1. s \in RaftNodeRecord
  BY DEF TypeOK
<1>2. Step(n, r, {})
  BY DEF propose
<1> HIDE DEF s
<1>3. log \in Seq(LogEntry)
  <2>1. entry \in LogEntry
    BY <1>1, Fields DEF LogEntry
  <2> HIDE DEF entry
  <2> QED
    BY <1>1, <2>1, Fields
<1>4. pending \in Nat
  BY <1>1, Fields, LastIndex
<1> HIDE DEF log, pending
<1>5. r \in RaftNodeRecord
  BY <1>1, <1>3, <1>4, Update
<1>6. r.current_term = s.current_term /\ r.voted_for = s.voted_for
  BY <1>1 DEF RaftNodeRecord
<1>7. Sound(s, r)
  BY <1>1, <1>5, <1>6, Fields DEF Sound, Keeps
<1> HIDE DEF r
<1>8. SoundStep
  BY <1>2, <1>7 DEF SoundStep, s
<1> QED
  BY <1>8 DEF propose, Books, TypeOK

\* Queueing an incoming message: sound.
LEMMA ReceiveSound ==
    ASSUME TypeOK, NEW n \in Node, NEW m, NEW s, NEW e, Use(e) \in Used,
           Sound(node[n], s), Receive(n, m, s, e)
    PROVE  SoundStep /\ Books
<1>1. SoundStep
  BY DEF Receive, SoundStep
<1>2. used' \in Used
  BY CounterType DEF Receive, TypeOK
<1> QED
  BY <1>1, <1>2 DEF Receive, Books, TypeOK

\* A message taken from a well-typed queue is well typed.
LEMMA InboxType ==
    ASSUME TypeOK, NEW n
    PROVE  /\ Inbox(n, "RequestVoteRequest") \subseteq RequestVoteRequest
           /\ Inbox(n, "RequestVoteResponse") \subseteq RequestVoteResponse
           /\ Inbox(n, "AppendEntriesRequest") \subseteq AppendEntriesRequest
           /\ Inbox(n, "AppendEntriesResponse") \subseteq AppendEntriesResponse
BY DEF TypeOK, Inbox, Message, RequestVoteRequest, RequestVoteResponse,
       AppendEntriesRequest, AppendEntriesResponse

\* The four message handlers: sound.
LEMMA HandlersSound ==
    ASSUME TypeOK, NEW n \in Node,
           \/ HandleRequestVote(n) \/ HandleAppendEntries(n)
           \/ HandleRequestVoteResponse(n) \/ HandleAppendEntriesResponse(n)
    PROVE  SoundStep /\ Books
<1>1. node[n] \in RaftNodeRecord
  BY DEF TypeOK
<1>2. CASE HandleRequestVote(n)
  <2>1. PICK m \in RequestVoteRequest :
          Receive(n, m, handle_request_vote(node[n], n, m), NoFault)
    BY <1>2, InboxType DEF HandleRequestVote
  <2>2. Use(NoFault) \in Used
    <3>1. NoFault \in Faults
      BY DEF Faults, NoFault, Env
    <3> QED
      BY <3>1, FaultType
  <2>3. Sound(node[n], handle_request_vote(node[n], n, m))
    BY <1>1, HandleVote
  <2> QED
    BY <2>1, <2>2, <2>3, ReceiveSound
<1>3. CASE HandleAppendEntries(n)
  <2>1. PICK m \in AppendEntriesRequest, e \in Faults :
          Receive(n, m, handle_append_entries(node[n], n, m, e), e)
    BY <1>3, InboxType DEF HandleAppendEntries
  <2>2. e \in Env /\ Use(e) \in Used
    BY FaultType
  <2>3. Sound(node[n], handle_append_entries(node[n], n, m, e))
    BY <1>1, <2>2, HandleAppend
  <2> QED
    BY <2>1, <2>2, <2>3, ReceiveSound
<1>4. CASE HandleRequestVoteResponse(n)
  <2>1. PICK m \in RequestVoteResponse, e \in Faults :
          Receive(n, m, handle_request_vote_response(node[n], n, m, e), e)
    BY <1>4, InboxType DEF HandleRequestVoteResponse
  <2>2. e \in Env /\ Use(e) \in Used
    BY FaultType
  <2>3. Sound(node[n], handle_request_vote_response(node[n], n, m, e))
    BY <1>1, <2>2, HandleVoteResponse
  <2> QED
    BY <2>1, <2>2, <2>3, ReceiveSound
<1>5. CASE HandleAppendEntriesResponse(n)
  <2>1. PICK m \in AppendEntriesResponse, e \in Faults :
          Receive(n, m, handle_append_entries_response(node[n], n, m, e), e)
    BY <1>5, InboxType DEF HandleAppendEntriesResponse
  <2>2. e \in Env /\ Use(e) \in Used
    BY FaultType
  <2>3. Sound(node[n], handle_append_entries_response(node[n], n, m, e))
    BY <1>1, <2>2, HandleAppendResponse
  <2> QED
    BY <2>1, <2>2, <2>3, ReceiveSound
<1> QED
  BY <1>2, <1>3, <1>4, <1>5

\* The apply loop: sound.
LEMMA ApplyCommittedSound ==
    ASSUME TypeOK, NEW n \in Node, ApplyCommitted(n)
    PROVE  SoundStep /\ Books
<1> DEFINE s == node[n]
           i == s.last_applied + 1
<1>1. s \in RaftNodeRecord /\ applying(s)
  BY DEF TypeOK, ApplyCommitted
<1>2. /\ Step(n, apply_one(s, n), {}) /\ UNCHANGED used
      /\ chosen' = chosen \cup {[index |-> i, entry |-> s.log[i]]}
  BY DEF ApplyCommitted
<1>3. Sound(s, apply_one(s, n)) /\ s.log[i] \in LogEntry
  BY <1>1, ApplyOne
<1>4. i \in Nat \ {0}
  BY <1>1, Fields
<1> HIDE DEF i
<1>5. chosen' \subseteq [index : Nat \ {0}, entry : LogEntry]
  BY <1>2, <1>3, <1>4 DEF TypeOK
<1> QED
  BY <1>2, <1>3, <1>5 DEF SoundStep, Books, TypeOK

\* Starting a leadership transfer: sound.
LEMMA TransferBeginSound ==
    ASSUME TypeOK, NEW n \in Node, TransferBegin(n)
    PROVE  SoundStep /\ Books
<1> DEFINE t(target) == [pc |-> "replicating", target |-> target,
                         last_idx |-> last_index(node[n]), round |-> 0,
                         term |-> node[n].current_term]
           b(target) == [node[n] EXCEPT !.transferring = TRUE, !.transfer = t(target)]
<1>1. PICK target \in quorum_set(node[n]) \ {n}, e \in Faults :
        /\ Step(n, transfer_round(b(target), n, e, caught_up(b(target), t(target))), {})
        /\ used' = [Use(e) EXCEPT !.transfers = @ + 1]
  BY DEF TransferBegin
<1>2. node[n] \in RaftNodeRecord /\ e \in Env /\ Use(e) \in Used
  BY FaultType DEF TypeOK
<1>3. t(target) \in Transferring /\ target \in Node
  <2>1. target \in Node
    BY <1>2, Fields DEF quorum_set
  <2> QED
    BY <1>2, <2>1, Fields, LastIndex DEF Transferring
<1> DEFINE s == b(target)
           c == caught_up(s, t(target))
<1>4. c \in BOOLEAN
  BY DEF caught_up
<1>5. Sound(node[n], s) /\ s.transfer = t(target)
  <2> HIDE DEF t
  <2>1. t(target) \in Transfer
    BY <1>3 DEF Transfer
  <2>2. Sound(node[n], s)
    BY <1>2, <2>1, TransferStep
  <2>3. s.transfer = t(target)
    BY <1>2 DEF RaftNodeRecord
  <2> QED
    BY <2>2, <2>3
<1>6. Step(n, transfer_round(s, n, e, c), {})
  BY <1>1
<1> HIDE DEF s, c, t
<1>7. Sound(node[n], transfer_round(s, n, e, c))
  <2>1. s \in RaftNodeRecord
    BY <1>5 DEF Sound
  <2>2. Sound(s, transfer_round(s, n, e, c))
    BY <1>2, <1>3, <1>4, <1>5, <2>1, TransferRound
  <2> QED
    BY <1>2, <1>5, <2>2, KeepsTrans
<1>8. SoundStep
  BY <1>6, <1>7 DEF SoundStep
<1>9. used' \in Used
  <2> DEFINE u == Use(e)
  <2>1. used' = [u EXCEPT !.transfers = @ + 1] /\ u \in Used
    BY <1>1, <1>2
  <2> HIDE DEF u
  <2> QED
    BY <2>1 DEF Used
<1> QED
  BY <1>8, <1>9 DEF TransferBegin, Books, TypeOK

\* A waking transfer thread: sound.
LEMMA TransferResumeSound ==
    ASSUME TypeOK, NEW n \in Node, TransferResume(n)
    PROVE  SoundStep /\ Books
<1> DEFINE s == node[n]
           r == [s EXCEPT !.transferring = FALSE, !.transfer = NoTransfer]
<1>1. s \in RaftNodeRecord /\ \A e \in Faults : e \in Env /\ Use(e) \in Used
  BY FaultType DEF TypeOK
<1>2. s.transfer \in Transferring
  <2>1. s.transfer \in Transfer /\ s.transfer.pc = "replicating"
    BY <1>1, Fields DEF TransferResume
  <2> QED
    BY <2>1 DEF Transfer, NoTransfer
<1>3. \/ Step(n, r, {}) /\ used' = used
      \/ \E c \in BOOLEAN, e \in Faults :
            Step(n, transfer_round(s, n, e, c), {}) /\ used' = Use(e)
  <2>1. caught_up(s, s.transfer) \in BOOLEAN
    BY DEF caught_up
  <2> QED
    BY <2>1 DEF TransferResume
<1> HIDE DEF s
<1>4. Sound(s, r)
  BY <1>1, NoTransferType, TransferStep
<1>5. \A c \in BOOLEAN, e \in Faults : Sound(s, transfer_round(s, n, e, c))
  BY <1>1, <1>2, TransferRound
<1> HIDE DEF r
<1>6. SoundStep
  BY <1>3, <1>4, <1>5 DEF SoundStep, s
<1>7. used' \in Used
  BY <1>1, <1>3 DEF TypeOK
<1> QED
  BY <1>6, <1>7 DEF TransferResume, Books, TypeOK

\* Ending or abandoning a transfer: sound.
LEMMA TransferFinishSound ==
    ASSUME TypeOK, NEW n \in Node, TransferFinish(n)
    PROVE  SoundStep /\ Books
<1> DEFINE s == node[n]
           done == IF s.state = "Leader" THEN become_follower(s, s.current_term) ELSE s
           r == [done EXCEPT !.transferring = FALSE, !.transfer = NoTransfer]
<1>1. s \in RaftNodeRecord
  BY DEF TypeOK
<1>2. Step(n, r, {})
  BY DEF TransferFinish
<1> HIDE DEF s
<1>3. Sound(s, done)
  BY <1>1, Fields, BecomeFollower, KeepsRefl
<1> HIDE DEF done
<1>4. Sound(done, r)
  <2>1. done \in RaftNodeRecord
    BY <1>3 DEF Sound
  <2> QED
    BY <2>1, NoTransferType, TransferStep
<1> HIDE DEF r
<1>5. Sound(s, r)
  BY <1>1, <1>3, <1>4, KeepsTrans
<1>6. SoundStep
  BY <1>2, <1>5 DEF SoundStep, s
<1> QED
  BY <1>6 DEF TransferFinish, Books, TypeOK

\* Both halves of shutdown: sound.
LEMMA ShutdownSound ==
    ASSUME TypeOK, NEW n \in Node, Shutdown(n)
    PROVE  SoundStep /\ Books
<1> DEFINE s == node[n]
           fs == IF s.state = "Leader" THEN [p \in Node |-> Untracked] ELSE s.follower_states
           r == [s EXCEPT !.running = FALSE, !.state = "Follower", !.leader_id = kNoLeader,
                          !.transferring = FALSE, !.follower_states = fs]
<1>1. s \in RaftNodeRecord
  BY DEF TypeOK
<1>2. Step(n, r, {})
  BY DEF Shutdown
<1> HIDE DEF s
<1>3. /\ fs \in [Node -> FollowerState]
      /\ kNoLeader \in RaftNodeId /\ "Follower" \in RaftNodeState
  BY <1>1, Fields, NewFollower DEF RaftNodeId, RaftNodeState
<1> HIDE DEF fs
<1>4. r \in RaftNodeRecord
  BY <1>1, <1>3, Update
<1>5. r.current_term = s.current_term /\ r.voted_for = s.voted_for
  BY <1>1 DEF RaftNodeRecord
<1>6. Sound(s, r)
  BY <1>1, <1>4, <1>5, Fields DEF Sound, Keeps
<1> HIDE DEF r
<1>7. SoundStep
  BY <1>2, <1>6 DEF SoundStep, s
<1>8. used' \in Used
  BY CounterType DEF Shutdown, TypeOK
<1> QED
  BY <1>7, <1>8 DEF Shutdown, Books, TypeOK

\* Start: sound.
LEMMA StartSound ==
    ASSUME TypeOK, NEW n \in Node, Start(n)
    PROVE  SoundStep /\ Books
<1> DEFINE s == node[n]
           r == [s EXCEPT !.running = TRUE, !.state = "Follower", !.leader_id = kNoLeader]
<1>1. s \in RaftNodeRecord
  BY DEF TypeOK
<1>2. Step(n, r, {})
  BY DEF Start
<1> HIDE DEF s
<1>3. r \in RaftNodeRecord
  <2>1. kNoLeader \in RaftNodeId /\ "Follower" \in RaftNodeState
    BY DEF RaftNodeId, RaftNodeState
  <2> QED
    BY <1>1, <2>1, Update
<1>4. r.current_term = s.current_term /\ r.voted_for = s.voted_for
  BY <1>1 DEF RaftNodeRecord
<1>5. Sound(s, r)
  BY <1>1, <1>3, <1>4, Fields DEF Sound, Keeps
<1> HIDE DEF r
<1>6. SoundStep
  BY <1>2, <1>5 DEF SoundStep, s
<1> QED
  BY <1>6 DEF Start, Books, TypeOK

\* A step of the system is a restart or a sound step of one node.
LEMMA NextSound ==
    ASSUME TypeOK, Next
    PROVE  (SoundStep /\ Books) \/ \E n \in Node : Restart(n)
<1>1. PICK n \in Node :
        \/ ElectionTimeout(n) \/ HeartbeatTick(n) \/ StepDown(n)
        \/ \E v \in UserCommand : propose(n, [type |-> "User", payload |-> v])
        \/ \E c \in ConfigChange : propose(n, c)
        \/ HandleRequestVote(n) \/ HandleAppendEntries(n)
        \/ HandleRequestVoteResponse(n) \/ HandleAppendEntriesResponse(n)
        \/ ApplyCommitted(n) \/ TransferBegin(n) \/ TransferResume(n) \/ TransferFinish(n)
        \/ Shutdown(n) \/ Start(n) \/ Restart(n)
  BY DEF Next
<1>2. \A v \in UserCommand : [type |-> "User", payload |-> v] \in RaftCommand
  BY DEF RaftCommand
<1>3. \A c \in ConfigChange : c \in RaftCommand
  BY CommandAssumption DEF RaftCommand
<1> QED
  BY <1>1, <1>2, <1>3, ElectionTimeoutSound, HeartbeatTickSound, StepDownSound, ProposeSound,
     HandlersSound, ApplyCommittedSound, TransferBeginSound, TransferResumeSound,
     TransferFinishSound, ShutdownSound, StartSound
-----------------------------------------------------------------------------
(* The theorems. *)

\* The initial state is well typed.
LEMMA InitType == Init => TypeOK
<1> SUFFICES ASSUME Init PROVE TypeOK
  OBVIOUS
<1>1. seed \in LogEntry
  BY NodeAssumption DEF seed, LogEntry, RaftCommand, ConfigChangeCommand
<1>2. ASSUME NEW n \in Node PROVE node[n] \in RaftNodeRecord
  <2>1. <<seed>> \in Seq(LogEntry) /\ <<>> \in Seq(LogEntry)
    BY <1>1
  <2>2. fresh(<<seed>>) \in RaftNodeRecord /\ fresh(<<>>) \in RaftNodeRecord
    BY <2>1, FreshType
  <2> DEFINE r == [fresh(<<seed>>) EXCEPT
                     !.current_term = 1, !.commit_index = 1, !.last_applied = 1,
                     !.members = InitialMembers]
  <2>3. r \in RaftNodeRecord
    BY <2>2, NodeAssumption, Update
  <2>4. node[n] = IF n \notin InitialMembers THEN fresh(<<>>) ELSE r
    BY DEF Init
  <2> HIDE DEF r
  <2> QED
    BY <2>2, <2>3, <2>4
<1>3. node \in [Node -> RaftNodeRecord]
  BY <1>2 DEF Init
<1>4. used \in Used
  BY DEF Init, Used
<1>5. chosen \subseteq [index : Nat \ {0}, entry : LogEntry]
  BY <1>1 DEF Init
<1> QED
  BY <1>3, <1>4, <1>5 DEF Init, TypeOK

\* Every step keeps the types: the induction step of TypeCorrect.
LEMMA NextType == TypeOK /\ [Next]_vars => TypeOK'
<1> SUFFICES ASSUME TypeOK, [Next]_vars PROVE TypeOK'
  OBVIOUS
<1>1. CASE SoundStep /\ Books
  BY <1>1, StepType DEF SoundStep, Books, TypeOK
<1>2. ASSUME NEW n \in Node, Restart(n) PROVE TypeOK'
  <2>1. node[n].log \in Seq(LogEntry)
    BY Fields DEF TypeOK
  <2>2. fresh(node[n].log) \in RaftNodeRecord
    BY <2>1, FreshType
  <2>3. node' \in [Node -> RaftNodeRecord]
    BY <1>2, <2>2 DEF Restart, TypeOK
  <2>4. used' \in Used
    BY <1>2, CounterType DEF Restart, TypeOK
  <2> QED
    BY <1>2, <2>3, <2>4 DEF Restart, history, TypeOK
<1>3. CASE UNCHANGED vars
  BY <1>3 DEF vars, TypeOK
<1> QED
  BY <1>1, <1>2, <1>3, NextSound

\* Type correctness: whatever the cluster, the client commands, the capacities and the
\* bounds, every node, message and history record of raft_node.cpp's model is well typed.
\* In particular next_index_ never reaches 0 and in_flight never wraps below 0.
THEOREM TypeCorrect == Spec => []TypeOK
<1>1. Init => TypeOK
  BY InitType
<1>2. TypeOK /\ [Next]_vars => TypeOK'
  BY NextType
<1> QED
  BY <1>1, <1>2, PTL DEF Spec

\* A vote survives every handler, timer and step-down of its term.  Without restarts the
\* votes a node has given are exactly what voted_for_ and current_term_ remember.
LEMMA NextVotes ==
    ASSUME MaxRestarts = 0
    PROVE  TypeOK /\ VoteRemembered /\ OneVotePerTerm /\ [Next]_vars
           => /\ VoteRemembered' /\ OneVotePerTerm'
              /\ \A p \in Node : node'[p].current_term >= node[p].current_term
<1> SUFFICES ASSUME TypeOK, VoteRemembered, OneVotePerTerm, [Next]_vars
             PROVE  /\ VoteRemembered' /\ OneVotePerTerm'
                    /\ \A p \in Node : node'[p].current_term >= node[p].current_term
  OBVIOUS
<1>1. CASE SoundStep
  BY <1>1, StepVotes DEF SoundStep
<1>2. ASSUME NEW n \in Node, Restart(n) PROVE FALSE
  BY <1>2 DEF Restart, TypeOK, Used
<1>3. CASE UNCHANGED vars
  <2>1. VoteRemembered' /\ OneVotePerTerm'
    BY <1>3 DEF vars, VoteRemembered, OneVotePerTerm
  <2>2. \A p \in Node : node[p].current_term \in Nat
    BY Fields DEF TypeOK
  <2> QED
    BY <1>3, <2>1, <2>2 DEF vars
<1> QED
  BY <1>1, <1>2, <1>3, NextSound

\* One vote per term, for clusters of every size and every schedule of timeouts, lost,
\* late and duplicated messages, shutdowns and transfers, as long as no process restarts.
THEOREM VotesAreUnique ==
    ASSUME MaxRestarts = 0
    PROVE  Spec => [](OneVotePerTerm /\ VoteRemembered)
<1>1. Init => VoteRemembered /\ OneVotePerTerm
  BY DEF Init, VoteRemembered, OneVotePerTerm
<1>2. TypeOK /\ VoteRemembered /\ OneVotePerTerm /\ [Next]_vars
      => VoteRemembered' /\ OneVotePerTerm'
  BY NextVotes
<1> QED
  BY <1>1, <1>2, TypeCorrect, PTL DEF Spec

\* No step-down within a term erases voted_for_, and no vote is for a term ahead of its voter.
THEOREM VotesAreRemembered ==
    ASSUME MaxRestarts = 0
    PROVE  Spec => []VoteRemembered
BY VotesAreUnique, PTL

\* current_term_ never falls while the process lives.
THEOREM TermsNeverFall ==
    ASSUME MaxRestarts = 0
    PROVE  Spec => TermMonotone
<1>1. TypeOK /\ VoteRemembered /\ OneVotePerTerm /\ [Next]_vars
      => [\A n \in Node : node'[n].current_term >= node[n].current_term]_vars
  BY NextVotes
<1>2. Spec => [](OneVotePerTerm /\ VoteRemembered)
  BY VotesAreUnique
<1> QED
  BY <1>1, <1>2, TypeCorrect, PTL DEF Spec, TermMonotone
===============================================================================
