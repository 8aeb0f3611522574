---------------------------- MODULE RaftStepLemmas ----------------------------
(***************************************************************************)
(* What each function of raft_node.cpp may change in the record of a node, *)
(* and what it may send.  Only(F, s, s2) says that s2 differs from s in    *)
(* the fields F alone.  One lemma per operator states its frame; together  *)
(* they show, in LEMMA NextEffect, that every step of the system is one of *)
(* the few effects defined below.  The proofs about elections, logs and    *)
(* configurations start from that lemma and never look at an action again. *)
(***************************************************************************)
EXTENDS RaftNodeProofs

FieldNames ==
    {"state", "current_term", "voted_for", "leader_id", "votes_received",
     "pre_votes_received", "log", "commit_index", "last_applied", "members",
     "joint_members", "pending_config_index", "follower_states", "transferring",
     "running", "transfer", "out"}

Only(F, s, s2) == \A f \in FieldNames \ F : s2[f] = s[f]

\* The fields that matter to no election, log or configuration.
Book == {"leader_id", "pre_votes_received", "commit_index", "pending_config_index",
         "follower_states", "transferring", "running", "out"}
\* The fields a change of role touches besides.
Role == {"state", "current_term", "voted_for", "votes_received"}

\* Chained calls change what either of them changes.
LEMMA OnlyTrans ==
    ASSUME NEW F, NEW G, NEW s, NEW s1, NEW s2, Only(F, s, s1), Only(G, s1, s2)
    PROVE  Only(F \cup G, s, s2)
BY DEF Only

\* A frame may be widened, and an early return changes nothing.
LEMMA OnlyWiden ==
    ASSUME NEW F, NEW s
    PROVE  /\ Only(F, s, s)
           /\ \A G, s2 : Only(G, s, s2) /\ G \subseteq F => Only(F, s, s2)
BY DEF Only
-----------------------------------------------------------------------------
(* The operators. *)

\* become_follower changes the role; the vote goes only with the term.
LEMMA FollowerFrame ==
    ASSUME NEW s \in RaftNodeRecord, NEW t \in Nat
    PROVE  LET r == become_follower(s, t)
           IN  /\ Only({"state", "current_term", "voted_for", "leader_id", "votes_received",
                        "pre_votes_received", "follower_states", "transferring"}, s, r)
               /\ r.state = "Follower"
               /\ r.current_term = IF t > s.current_term THEN t ELSE s.current_term
               /\ r.voted_for = IF t > s.current_term THEN kNoLeader ELSE s.voted_for
               /\ r.follower_states = IF s.state = "Leader" THEN [p \in Node |-> Untracked]
                                                          ELSE s.follower_states
<1> DEFINE ct == IF t > s.current_term THEN t ELSE s.current_term
           vf == IF t > s.current_term THEN kNoLeader ELSE s.voted_for
           fs == IF s.state = "Leader" THEN [p \in Node |-> Untracked]
                                       ELSE s.follower_states
           tf == IF s.state = "Leader" THEN FALSE ELSE s.transferring
           r  == [s EXCEPT !.current_term = ct, !.voted_for = vf,
                           !.follower_states = fs, !.transferring = tf,
                           !.state = "Follower", !.leader_id = kNoLeader,
                           !.votes_received = 0, !.pre_votes_received = 0]
           skip == t = s.current_term /\ s.state = "Follower"
           F == {"state", "current_term", "voted_for", "leader_id", "votes_received",
                 "pre_votes_received", "follower_states", "transferring"}
<1>1. become_follower(s, t) = IF skip THEN s ELSE r
  BY DEF become_follower
<1>2. skip => ct = s.current_term /\ vf = s.voted_for /\ fs = s.follower_states
  BY Fields
<1> HIDE DEF ct, vf, fs, tf
<1>3. /\ Only(F, s, r) /\ r.state = "Follower" /\ r.current_term = ct
      /\ r.voted_for = vf /\ r.follower_states = fs
  BY DEF RaftNodeRecord, Only, FieldNames
<1>4. Only(F, s, s)
  BY OnlyWiden
<1>5. CASE skip
  BY <1>1, <1>2, <1>4, <1>5 DEF ct, vf, fs
<1>6. CASE ~skip
  <2> HIDE DEF r, skip
  <2> QED
    BY <1>1, <1>3, <1>6 DEF ct, vf, fs
<1> QED
  BY <1>5, <1>6

\* m asks for a vote in the round that node n opens in state s.
VoteAsked(m, n, s, pre_vote) ==
    /\ m.type = "RequestVoteRequest" /\ m.from = n /\ m.candidate_id = n
    /\ m.to \in quorum_set(s) \ {n} /\ m.pre_vote = pre_vote
    /\ m.term = IF pre_vote THEN s.current_term + 1 ELSE s.current_term
    /\ m.last_log_index = last_index(s) /\ m.last_log_term = term_at(s, last_index(s))

\* start_vote_round only sends, and only requests of its round.
LEMMA VoteRoundFrame ==
    ASSUME NEW s \in RaftNodeRecord, NEW n \in Node, NEW e \in Env, NEW pre \in BOOLEAN
    PROVE  LET r == start_vote_round(s, n, e, pre)
           IN  /\ Only({"out"}, s, r)
               /\ \A m \in r.out : m \in s.out \/ VoteAsked(m, n, s, pre)
<1> DEFINE rv(p) == [type |-> "RequestVoteRequest", from |-> n, to |-> p,
                     term |-> IF pre THEN s.current_term + 1 ELSE s.current_term,
                     candidate_id |-> n, last_log_index |-> last_index(s),
                     last_log_term |-> term_at(s, last_index(s)), pre_vote |-> pre]
           asked == {rv(p) : p \in quorum_set(s) \ ({n} \cup e.down)}
           r == [s EXCEPT !.out = s.out \cup asked]
<1>1. start_vote_round(s, n, e, pre) = r
  BY DEF start_vote_round
<1>2. \A m \in asked : VoteAsked(m, n, s, pre)
  BY DEF VoteAsked
<1> HIDE DEF asked
<1>3. Only({"out"}, s, r) /\ r.out = s.out \cup asked
  BY DEF RaftNodeRecord, Only, FieldNames
<1> HIDE DEF r
<1> QED
  BY <1>1, <1>2, <1>3

Campaigned(n, s, r) ==
    /\ Only({"state", "current_term", "voted_for", "leader_id", "votes_received",
             "pre_votes_received", "out"}, s, r)
    /\ r.state = "Candidate" /\ r.current_term = s.current_term + 1
    /\ r.voted_for = n /\ r.votes_received = 1
    /\ \A m \in r.out : m \in s.out \/ VoteAsked(m, n, r, FALSE)

\* become_candidate opens a round of a new term, unless there is nobody to ask.
LEMMA CandidateFrame ==
    ASSUME NEW s \in RaftNodeRecord, NEW n \in Node, NEW e \in Env
    PROVE  LET r == become_candidate(s, n, e)
           IN  \/ s.members = {} /\ r = become_follower(s, s.current_term)
               \/ s.members # {} /\ s.state = "Leader" /\ r = s
               \/ s.members # {} /\ s.state # "Leader" /\ Campaigned(n, s, r)
<1> DEFINE c == [s EXCEPT !.current_term = @ + 1, !.voted_for = n, !.votes_received = 1,
                          !.pre_votes_received = 0, !.state = "Candidate",
                          !.leader_id = kNoLeader]
           r == start_vote_round(c, n, e, FALSE)
<1>1. c \in RaftNodeRecord
  <2>1. n \in RaftNodeId /\ kNoLeader \in RaftNodeId /\ "Candidate" \in RaftNodeState
        /\ s.current_term + 1 \in Nat
    BY Fields DEF RaftNodeId, RaftNodeState
  <2> QED
    BY <2>1, Update
<1>2. /\ Only({"state", "current_term", "voted_for", "leader_id", "votes_received",
               "pre_votes_received"}, s, c)
      /\ c.state = "Candidate" /\ c.current_term = s.current_term + 1
      /\ c.voted_for = n /\ c.votes_received = 1
  BY DEF RaftNodeRecord, Only, FieldNames
<1>a. become_candidate(s, n, e) =
        IF s.members = {} THEN become_follower(s, s.current_term)
        ELSE IF s.state = "Leader" THEN s ELSE r
  BY DEF become_candidate
<1> HIDE DEF c
<1>3. Only({"out"}, c, r) /\ \A m \in r.out : m \in c.out \/ VoteAsked(m, n, c, FALSE)
  BY <1>1, VoteRoundFrame
<1> HIDE DEF r
<1>4. \A m : VoteAsked(m, n, c, FALSE) => VoteAsked(m, n, r, FALSE)
  BY <1>3 DEF VoteAsked, quorum_set, last_index, term_at, Only, FieldNames
<1>5. Campaigned(n, s, r)
  <2>1. c.out = s.out
    BY <1>2 DEF Only, FieldNames
  <2>2. /\ r.state = "Candidate" /\ r.current_term = s.current_term + 1
        /\ r.voted_for = n /\ r.votes_received = 1
    BY <1>2, <1>3 DEF Only, FieldNames
  <2>3. Only({"state", "current_term", "voted_for", "leader_id", "votes_received",
              "pre_votes_received", "out"}, s, r)
    BY <1>2, <1>3 DEF Only
  <2> QED
    BY <1>3, <1>4, <2>1, <2>2, <2>3 DEF Campaigned
<1> QED
  BY <1>a, <1>5

\* become_pre_candidate opens a round that binds nobody.
LEMMA PreCandidateFrame ==
    ASSUME NEW s \in RaftNodeRecord, NEW n \in Node, NEW e \in Env
    PROVE  LET r == become_pre_candidate(s, n, e)
           IN  \/ r = s
               \/ /\ s.state # "Leader" /\ r.state = "PreCandidate"
                  /\ Only({"state", "votes_received", "pre_votes_received", "out"}, s, r)
                  /\ \A m \in r.out : m \in s.out \/ VoteAsked(m, n, r, TRUE)
<1> DEFINE c == [s EXCEPT !.state = "PreCandidate", !.pre_votes_received = 1,
                          !.votes_received = 0]
           r == start_vote_round(c, n, e, TRUE)
<1>1. c \in RaftNodeRecord
  <2>1. "PreCandidate" \in RaftNodeState
    BY DEF RaftNodeState
  <2> QED
    BY <2>1, Update
<1>2. /\ Only({"state", "votes_received", "pre_votes_received"}, s, c)
      /\ c.state = "PreCandidate"
  BY DEF RaftNodeRecord, Only, FieldNames
<1>3. \/ become_pre_candidate(s, n, e) = s
      \/ become_pre_candidate(s, n, e) = r /\ s.state # "Leader"
  BY DEF become_pre_candidate
<1> HIDE DEF c
<1>4. Only({"out"}, c, r) /\ \A m \in r.out : m \in c.out \/ VoteAsked(m, n, c, TRUE)
  BY <1>1, VoteRoundFrame
<1> HIDE DEF r
<1>5. \A m : VoteAsked(m, n, c, TRUE) => VoteAsked(m, n, r, TRUE)
  BY <1>4 DEF VoteAsked, quorum_set, last_index, term_at, Only, FieldNames
<1>6. c.out = s.out /\ r.state = "PreCandidate"
  BY <1>2, <1>4 DEF Only, FieldNames
<1>7. Only({"state", "votes_received", "pre_votes_received", "out"}, s, r)
  BY <1>2, <1>4 DEF Only
<1> QED
  BY <1>3, <1>4, <1>5, <1>6, <1>7
-----------------------------------------------------------------------------
(* Replication. *)

\* The entries of an AppendEntries are a piece of the log it was built from, and
\* prev_log_term is the term of that log just before the piece.
SliceOf(m, log) ==
    m.entries # <<>> =>
        /\ m.prev_log_index + Len(m.entries) <= Len(log)
        /\ m.prev_log_index > 0 => m.prev_log_term = log[m.prev_log_index].term
        /\ \A i \in 1..Len(m.entries) : m.entries[i] = log[m.prev_log_index + i]

\* m is an AppendEntries of node n in state s.
Replicates(m, n, s) ==
    /\ m.type = "AppendEntriesRequest" /\ m.from = n /\ m.term = s.current_term
    /\ SliceOf(m, s.log)

\* send_heartbeats sends AppendEntries without entries.
LEMMA HeartbeatsFrame ==
    ASSUME NEW s \in RaftNodeRecord, NEW n \in Node, NEW e \in Env
    PROVE  LET r == send_heartbeats(s, n, e)
           IN  /\ Only({"follower_states", "out"}, s, r)
               /\ \A m \in r.out : m \in s.out \/ (m.entries = <<>> /\ Replicates(m, n, s))
<1> DEFINE peers == quorum_set(s) \ {n}
           fs == [p \in Node |-> IF p \in peers /\ ~s.follower_states[p].tracked
                                 THEN new_follower(last_index(s))
                                 ELSE s.follower_states[p]]
           ready == {p \in peers : fs[p].in_flight < rpc_queue_capacity}
           failed(f) == [send_failed(f) EXCEPT
                           !.is_active = @ /\ send_failed(f).failures < kMaxHeartbeatFailures]
           fs2 == [p \in Node |-> IF p \in ready \cap e.down THEN failed(fs[p]) ELSE fs[p]]
           sent == {append_entries(s, n, p, fs[p], <<>>) : p \in ready \ e.down}
           r == [s EXCEPT !.follower_states = fs2, !.out = s.out \cup sent]
<1>1. send_heartbeats(s, n, e) = IF s.state # "Leader" \/ s.members = {} THEN s ELSE r
  BY DEF send_heartbeats
<1>2. \A m \in sent : m.entries = <<>> /\ Replicates(m, n, s)
  <2> HIDE DEF fs, ready
  <2> QED
    BY DEF append_entries, Replicates, SliceOf
<1> HIDE DEF fs2, sent
<1>3. Only({"follower_states", "out"}, s, r) /\ r.out = s.out \cup sent
  BY DEF RaftNodeRecord, Only, FieldNames
<1> HIDE DEF r
<1> QED
  BY <1>1, <1>2, <1>3, OnlyWiden

\* A slice of a log, element by element.
LEMMA SliceElements ==
    ASSUME NEW S, NEW q \in Seq(S), NEW a \in Nat \ {0}, NEW b \in Int, b <= Len(q)
    PROVE  LET es == SubSeq(q, a, b)
           IN  /\ Len(es) = IF a <= b + 1 THEN b - a + 1 ELSE 0
               /\ \A i \in 1..Len(es) : es[i] = q[a - 1 + i]
OBVIOUS

\* send_append_entries_to sends a slice of the log.
LEMMA AppendToFrame ==
    ASSUME NEW s \in RaftNodeRecord, NEW n \in Node, NEW p \in Node, NEW e \in Env
    PROVE  LET r == send_append_entries_to(s, n, p, e)
           IN  /\ Only({"follower_states", "out"}, s, r)
               /\ \A m \in r.out : m \in s.out \/ Replicates(m, n, s)
<1> DEFINE f == s.follower_states[p]
           available == last_index(s) - f.next_index + 1
           to_send == IF available < max_entries THEN available ELSE max_entries
           es == SubSeq(s.log, f.next_index, f.next_index + to_send - 1)
           fs1 == [s.follower_states EXCEPT ![p] = send_failed(f)]
           fs2 == [s.follower_states EXCEPT ![p] = [f EXCEPT !.in_flight = @ + 1, !.failures = 0]]
           ae == append_entries(s, n, p, f, es)
           r1 == [s EXCEPT !.follower_states = fs1]
           r2 == [s EXCEPT !.follower_states = fs2, !.out = s.out \cup {ae}]
           skip == ~f.tracked \/ f.in_flight >= rpc_queue_capacity \/ f.next_index > last_index(s)
<1>1. send_append_entries_to(s, n, p, e) =
        IF skip THEN s ELSE IF p \in e.down THEN r1 ELSE r2
  BY DEF send_append_entries_to
<1>2. ASSUME ~skip PROVE Replicates(ae, n, s)
  <2>1. /\ f.next_index \in Nat \ {0} /\ s.log \in Seq(LogEntry)
        /\ last_index(s) = Len(s.log)
    <3>1. f \in FollowerState
      BY Fields
    <3> QED
      BY <3>1, FollowerFields, Fields DEF last_index
  <2>2. f.next_index <= Len(s.log)
    BY <1>2, <2>1
  <2>3. to_send \in Nat \ {0} /\ f.next_index + to_send - 1 <= Len(s.log)
    BY <2>1, <2>2, ConfigAssumption
  <2> HIDE DEF f, to_send
  <2>4. /\ Len(es) = to_send
        /\ \A i \in 1..Len(es) : es[i] = s.log[f.next_index - 1 + i]
    <3>1. f.next_index + to_send - 1 \in Int /\ f.next_index <= f.next_index + to_send - 1 + 1
          /\ (f.next_index + to_send - 1) - f.next_index + 1 = to_send
      BY <2>1, <2>3
    <3> QED
      BY <2>1, <2>3, <3>1, SliceElements
  <2> HIDE DEF es
  <2>5. term_at(s, f.next_index - 1) =
          IF f.next_index - 1 > 0 THEN s.log[f.next_index - 1].term ELSE 0
    BY <2>1, <2>2 DEF term_at
  <2>6. /\ ae.type = "AppendEntriesRequest" /\ ae.from = n /\ ae.term = s.current_term
        /\ ae.prev_log_index = f.next_index - 1 /\ ae.entries = es
        /\ ae.prev_log_term = term_at(s, f.next_index - 1)
    BY DEF append_entries
  <2> HIDE DEF ae
  <2>7. SliceOf(ae, s.log)
    BY <2>1, <2>3, <2>4, <2>5, <2>6 DEF SliceOf
  <2> QED
    BY <2>6, <2>7 DEF Replicates
<1> HIDE DEF fs1, fs2, ae, skip
<1>3. /\ Only({"follower_states", "out"}, s, r1) /\ r1.out = s.out
      /\ Only({"follower_states", "out"}, s, r2) /\ r2.out = s.out \cup {ae}
  BY DEF RaftNodeRecord, Only, FieldNames
<1> HIDE DEF r1, r2
<1> QED
  BY <1>1, <1>2, <1>3, OnlyWiden

\* replicate_to_followers sends slices of the log.
LEMMA ReplicateFrame ==
    ASSUME NEW s \in RaftNodeRecord, NEW n \in Node, NEW e \in Env
    PROVE  LET r == replicate_to_followers(s, n, e)
           IN  /\ Only({"follower_states", "out"}, s, r)
               /\ \A m \in r.out : m \in s.out \/ Replicates(m, n, s)
<1> DEFINE behind == {p \in Node : /\ s.follower_states[p].tracked
                                   /\ s.follower_states[p].is_active
                                   /\ s.follower_states[p].next_index > 1}
           t(p) == send_append_entries_to(s, n, p, e)
           fs == [p \in Node |-> IF p \in behind THEN t(p).follower_states[p]
                                 ELSE s.follower_states[p]]
           out == UNION ({s.out} \cup {t(p).out : p \in behind})
           r == [s EXCEPT !.follower_states = fs, !.out = out]
<1>1. replicate_to_followers(s, n, e) = r
  BY DEF replicate_to_followers
<1>2. \A p \in Node : \A m \in t(p).out : m \in s.out \/ Replicates(m, n, s)
  BY AppendToFrame
<1> HIDE DEF t
<1>3. \A m \in out : m \in s.out \/ Replicates(m, n, s)
  BY <1>2
<1> HIDE DEF fs, out
<1>4. Only({"follower_states", "out"}, s, r) /\ r.out = out
  BY DEF RaftNodeRecord, Only, FieldNames
<1> HIDE DEF r
<1> QED
  BY <1>1, <1>3, <1>4

WonRole(n, s, r) ==
    /\ Only({"state", "leader_id", "transferring", "follower_states", "log", "out"}, s, r)
    /\ r.state = "Leader"
    /\ r.log = Append(s.log, [term |-> s.current_term, command |-> NoOpCommand])
    /\ \A m \in r.out : m \in s.out \/ (m.entries = <<>> /\ Replicates(m, n, r))

\* become_leader appends its NoOp and sends heartbeats, or is undone whole.
LEMMA LeaderFrame ==
    ASSUME NEW s \in RaftNodeRecord, NEW n \in Node, NEW e \in Env
    PROVE  LET r == become_leader(s, n, e)
           IN  \/ WonRole(n, s, r)
               \/ /\ Only({"state", "current_term", "voted_for", "leader_id", "votes_received",
                           "pre_votes_received", "follower_states", "transferring"}, s, r)
                  /\ r.state = "Follower"
                  /\ r.current_term = s.current_term /\ r.voted_for = s.voted_for
<1> DEFINE fs == [p \in Node |-> IF p \in quorum_set(s) \ {n} THEN new_follower(last_index(s))
                                                             ELSE Untracked]
           led == [s EXCEPT !.state = "Leader", !.leader_id = n, !.transferring = FALSE,
                            !.follower_states = fs]
           noop == [term |-> s.current_term, command |-> NoOpCommand]
           led2 == [led EXCEPT !.log = Append(@, noop)]
           r == send_heartbeats(led2, n, e)
           F == {"state", "current_term", "voted_for", "leader_id", "votes_received",
                 "pre_votes_received", "follower_states", "transferring"}
<1>1. led \in RaftNodeRecord /\ led2 \in RaftNodeRecord
  <2>1. fs \in [Node -> FollowerState]
    BY LastIndex, NewFollower
  <2>2. "Leader" \in RaftNodeState /\ n \in RaftNodeId
    BY DEF RaftNodeState, RaftNodeId
  <2>3. noop \in LogEntry
    BY Fields DEF LogEntry, RaftCommand
  <2> HIDE DEF fs
  <2>4. led \in RaftNodeRecord
    BY <2>1, <2>2, Update
  <2> HIDE DEF led, noop
  <2>5. Append(led.log, noop) \in Seq(LogEntry)
    BY <2>3, <2>4, Fields
  <2> QED
    BY <2>4, <2>5, Update
<1>2. become_leader(s, n, e) =
         IF s.members = {} \/ ~e.disk
         THEN become_follower(IF s.members = {} THEN s ELSE led, s.current_term)
         ELSE r
  BY DEF become_leader
<1> HIDE DEF fs
<1>3. /\ Only({"state", "leader_id", "transferring", "follower_states"}, s, led)
      /\ led.state = "Leader"
  BY DEF RaftNodeRecord, Only, FieldNames
<1> HIDE DEF led, noop
<1>4. Only({"log"}, led, led2) /\ led2.log = Append(led.log, noop)
  BY <1>1 DEF RaftNodeRecord, Only, FieldNames
<1> HIDE DEF led2
<1>5. /\ Only({"follower_states", "out"}, led2, r)
      /\ \A m \in r.out : m \in led2.out \/ (m.entries = <<>> /\ Replicates(m, n, led2))
  BY <1>1, HeartbeatsFrame
<1> HIDE DEF r
<1>6. WonRole(n, s, r)
  <2>1. Only({"state", "leader_id", "transferring", "follower_states", "log", "out"}, s, r)
    BY <1>3, <1>4, <1>5 DEF Only
  <2>2. /\ r.state = "Leader" /\ r.log = led2.log /\ led.log = s.log /\ led2.out = s.out
        /\ r.current_term = led2.current_term
    BY <1>3, <1>4, <1>5 DEF Only, FieldNames
  <2>3. \A m : Replicates(m, n, led2) => Replicates(m, n, r)
    BY <2>2 DEF Replicates
  <2> QED
    BY <1>4, <1>5, <2>1, <2>2, <2>3 DEF WonRole, noop
<1>7. s.current_term \in Nat /\ led.current_term = s.current_term /\ led.voted_for = s.voted_for
  BY <1>3, Fields DEF Only, FieldNames
<1>8. ASSUME NEW x \in {s, led}
      PROVE  LET b == become_follower(x, s.current_term)
             IN  /\ Only(F, s, b) /\ b.state = "Follower"
                 /\ b.current_term = s.current_term /\ b.voted_for = s.voted_for
  <2>1. Only({"state", "leader_id", "transferring", "follower_states"}, s, x)
    BY <1>3, OnlyWiden
  <2>2. x \in RaftNodeRecord /\ x.current_term = s.current_term /\ x.voted_for = s.voted_for
    BY <1>1, <1>7
  <2> DEFINE b == become_follower(x, s.current_term)
  <2>3. /\ Only(F, x, b) /\ b.state = "Follower"
        /\ b.current_term = s.current_term /\ b.voted_for = s.voted_for
    BY <1>7, <2>2, FollowerFrame
  <2> HIDE DEF b
  <2>4. Only(F, s, b)
    BY <2>1, <2>3 DEF Only
  <2> QED
    BY <2>3, <2>4 DEF b
<1> QED
  BY <1>2, <1>6, <1>8

\* advance_commit_index moves commit_index alone.
LEMMA AdvanceFrame ==
    ASSUME NEW s \in RaftNodeRecord, NEW n \in Node
    PROVE  Only({"commit_index"}, s, advance_commit_index(s, n))
<1> DEFINE active == {p \in Node : s.follower_states[p].tracked /\ s.follower_states[p].is_active}
           indices == IF active # {} THEN committable(s, n)
                      ELSE IF Cardinality(s.members) = 1
                      THEN (s.commit_index + 1)..last_index(s) ELSE {}
           x == Max(indices)
           r == [s EXCEPT !.commit_index = x]
<1>1. advance_commit_index(s, n) = IF s.state # "Leader" \/ indices = {} THEN s ELSE r
  BY DEF advance_commit_index
<1> HIDE DEF x
<1>2. Only({"commit_index"}, s, r)
  BY DEF RaftNodeRecord, Only, FieldNames
<1> HIDE DEF r
<1> QED
  BY <1>1, <1>2, OnlyWiden
-----------------------------------------------------------------------------
(* Applying. *)

\* What an applied command makes of a configuration.
Reconfigured(c, cmd) ==
    IF cmd.type # "ConfigChange" THEN c
    ELSE IF c.joint_members # {}
    THEN IF cmd.joint_consensus \/ cmd.new_members # c.joint_members THEN c
         ELSE [members |-> c.joint_members, joint_members |-> {}]
    ELSE IF cmd.joint_consensus /\ cmd.old_members # {}
    THEN [members |-> cmd.old_members, joint_members |-> cmd.new_members]
    ELSE IF cmd.new_members = {} THEN c
    ELSE [members |-> cmd.new_members, joint_members |-> {}]

Configuration(s) == [members |-> s.members, joint_members |-> s.joint_members]

\* The node has kept its role and its count of votes, or has become a follower.
RoleKept(s, r) ==
    r.state = "Follower" \/ (r.state = s.state /\ r.votes_received = s.votes_received)

\* apply_direct_membership_change replaces the configuration, unless it would be empty.
LEMMA DirectFrame ==
    ASSUME NEW s \in RaftNodeRecord, NEW n \in Node, NEW M \in SUBSET Node
    PROVE  LET r == apply_direct_membership_change(s, n, M)
           IN  /\ Only({"members", "joint_members", "follower_states"}, s, r)
               /\ Configuration(r) = IF M = {} THEN Configuration(s)
                                     ELSE [members |-> M, joint_members |-> {}]
<1> DEFINE old == s.follower_states
           fs == IF s.state = "Leader"
                 THEN [p \in Node |->
                    CASE p \notin M -> Untracked
                      [] p \in M /\ p # n /\ ~old[p].tracked -> new_follower(last_index(s))
                      [] OTHER -> old[p]]
                 ELSE s.follower_states
           r == [s EXCEPT !.members = M, !.joint_members = {}, !.follower_states = fs]
<1>1. apply_direct_membership_change(s, n, M) = IF M = {} THEN s ELSE r
  BY DEF apply_direct_membership_change
<1> HIDE DEF fs
<1>2. /\ Only({"members", "joint_members", "follower_states"}, s, r)
      /\ r.members = M /\ r.joint_members = {}
  BY DEF RaftNodeRecord, Only, FieldNames
<1> HIDE DEF r
<1> QED
  BY <1>1, <1>2, OnlyWiden DEF Configuration

\* apply_joint_consensus_entry enters the joint configuration the entry names.
LEMMA JointFrame ==
    ASSUME NEW s \in RaftNodeRecord, NEW n \in Node, NEW cmd \in ConfigChangeCommand
    PROVE  LET r == apply_joint_consensus_entry(s, n, cmd)
           IN  /\ Only({"members", "joint_members", "follower_states"}, s, r)
               /\ Configuration(r) =
                    IF cmd.old_members # {}
                    THEN [members |-> cmd.old_members, joint_members |-> cmd.new_members]
                    ELSE IF cmd.new_members = {} THEN Configuration(s)
                    ELSE [members |-> cmd.new_members, joint_members |-> {}]
<1> DEFINE old == s.follower_states
           fs == IF s.state = "Leader"
                 THEN [p \in Node |-> IF p \in cmd.new_members \ {n} /\ ~old[p].tracked
                                      THEN new_follower(last_index(s)) ELSE old[p]]
                 ELSE s.follower_states
           r == [s EXCEPT !.members = cmd.old_members, !.joint_members = cmd.new_members,
                          !.follower_states = fs]
           d == apply_direct_membership_change(s, n, cmd.new_members)
<1>1. apply_joint_consensus_entry(s, n, cmd) = IF cmd.old_members = {} THEN d ELSE r
  BY DEF apply_joint_consensus_entry
<1>2. cmd.new_members \in SUBSET Node
  BY DEF ConfigChangeCommand
<1> HIDE DEF fs
<1>3. /\ Only({"members", "joint_members", "follower_states"}, s, r)
      /\ r.members = cmd.old_members /\ r.joint_members = cmd.new_members
  BY DEF RaftNodeRecord, Only, FieldNames
<1>4. /\ Only({"members", "joint_members", "follower_states"}, s, d)
      /\ Configuration(d) = IF cmd.new_members = {} THEN Configuration(s)
                            ELSE [members |-> cmd.new_members, joint_members |-> {}]
  BY <1>2, DirectFrame
<1> HIDE DEF r, d
<1> QED
  BY <1>1, <1>3, <1>4 DEF Configuration

\* apply_joint_consensus_finalization leaves the joint configuration, and the node steps
\* down if it is not in the new one.
LEMMA FinalizationFrame ==
    ASSUME NEW s \in RaftNodeRecord, NEW n \in Node, NEW cmd \in ConfigChangeCommand
    PROVE  LET r == apply_joint_consensus_finalization(s, n, cmd)
           IN  /\ Only({"members", "joint_members", "state", "leader_id", "votes_received",
                        "pre_votes_received", "follower_states", "transferring"}, s, r)
               /\ RoleKept(s, r)
               /\ Configuration(r) =
                    IF cmd.joint_consensus \/ cmd.new_members # s.joint_members
                    THEN Configuration(s)
                    ELSE [members |-> s.joint_members, joint_members |-> {}]
<1> DEFINE fs == IF s.state # "Leader" THEN s.follower_states
                 ELSE [p \in Node |-> IF p \in s.members \ s.joint_members
                                      THEN Untracked ELSE s.follower_states[p]]
           f == [s EXCEPT !.members = s.joint_members, !.joint_members = {},
                          !.follower_states = fs]
           b == become_follower(f, s.current_term)
           F == {"members", "joint_members", "state", "leader_id", "votes_received",
                 "pre_votes_received", "follower_states", "transferring"}
<1>1. apply_joint_consensus_finalization(s, n, cmd) =
        IF cmd.joint_consensus \/ cmd.new_members # s.joint_members THEN s
        ELSE IF n \in f.members THEN f ELSE b
  BY DEF apply_joint_consensus_finalization
<1>2. fs \in [Node -> FollowerState]
  BY Fields, NewFollower
<1> HIDE DEF fs
<1>3. f \in RaftNodeRecord
  BY <1>2, Fields, Update
<1>4. /\ Only({"members", "joint_members", "follower_states"}, s, f)
      /\ f.members = s.joint_members /\ f.joint_members = {}
  BY DEF RaftNodeRecord, Only, FieldNames
<1> HIDE DEF f
<1>5. s.current_term \in Nat /\ f.current_term = s.current_term /\ f.voted_for = s.voted_for
  BY <1>4, Fields DEF Only, FieldNames
<1>6. /\ Only({"state", "current_term", "voted_for", "leader_id", "votes_received",
               "pre_votes_received", "follower_states", "transferring"}, f, b)
      /\ b.state = "Follower" /\ b.current_term = f.current_term /\ b.voted_for = f.voted_for
  BY <1>3, <1>5, FollowerFrame
<1> HIDE DEF b
<1>7. Only(F, s, b) /\ Configuration(b) = [members |-> s.joint_members, joint_members |-> {}]
  <2>1. Only(F \cup {"current_term", "voted_for"}, s, b)
    BY <1>4, <1>6 DEF Only
  <2>2. Only(F, s, b)
    BY <1>5, <1>6, <2>1 DEF Only, FieldNames
  <2>3. b.members = f.members /\ b.joint_members = f.joint_members
    BY <1>6 DEF Only, FieldNames
  <2> QED
    BY <1>4, <2>2, <2>3 DEF Configuration
<1>8. /\ Only(F, s, f) /\ Configuration(f) = [members |-> s.joint_members, joint_members |-> {}]
      /\ f.state = s.state /\ f.votes_received = s.votes_received
  <2>1. Only(F, s, f)
    BY <1>4 DEF Only
  <2>2. f.state = s.state /\ f.votes_received = s.votes_received
    BY <1>4 DEF Only, FieldNames
  <2> QED
    BY <1>4, <2>1, <2>2 DEF Configuration
<1>9. Only(F, s, s)
  BY OnlyWiden
<1>10. RoleKept(s, s) /\ RoleKept(s, f) /\ RoleKept(s, b)
  BY <1>6, <1>8 DEF RoleKept
<1> QED
  BY <1>1, <1>7, <1>8, <1>9, <1>10

\* process_config_change: the new configuration depends on the old one and the command
\* alone, not on the node or its role.
LEMMA ConfigChangeFrame ==
    ASSUME NEW s \in RaftNodeRecord, NEW n \in Node, NEW cmd \in ConfigChangeCommand
    PROVE  LET r == process_config_change(s, n, cmd)
           IN  /\ Only({"members", "joint_members", "state", "leader_id", "votes_received",
                        "pre_votes_received", "follower_states", "transferring",
                        "pending_config_index"}, s, r)
               /\ RoleKept(s, r)
               /\ Configuration(r) = Reconfigured(Configuration(s), cmd)
<1> DEFINE a == apply_joint_consensus_finalization(s, n, cmd)
           b == apply_joint_consensus_entry(s, n, cmd)
           d == apply_direct_membership_change(s, n, cmd.new_members)
           c == IF in_joint_consensus(s) THEN a ELSE IF cmd.joint_consensus THEN b ELSE d
           r == [c EXCEPT !.pending_config_index = 0]
           F == {"members", "joint_members", "state", "leader_id", "votes_received",
                 "pre_votes_received", "follower_states", "transferring"}
<1>1. process_config_change(s, n, cmd) = r
  BY DEF process_config_change
<1>2. cmd.new_members \in SUBSET Node /\ cmd.type = "ConfigChange"
  BY DEF ConfigChangeCommand
<1>3. /\ Only(F, s, a) /\ RoleKept(s, a)
      /\ Configuration(a) = IF cmd.joint_consensus \/ cmd.new_members # s.joint_members
                            THEN Configuration(s)
                            ELSE [members |-> s.joint_members, joint_members |-> {}]
  BY FinalizationFrame
<1>4. /\ Only({"members", "joint_members", "follower_states"}, s, b)
      /\ Configuration(b) =
           IF cmd.old_members # {}
           THEN [members |-> cmd.old_members, joint_members |-> cmd.new_members]
           ELSE IF cmd.new_members = {} THEN Configuration(s)
           ELSE [members |-> cmd.new_members, joint_members |-> {}]
  BY JointFrame
<1>5. /\ Only({"members", "joint_members", "follower_states"}, s, d)
      /\ Configuration(d) = IF cmd.new_members = {} THEN Configuration(s)
                            ELSE [members |-> cmd.new_members, joint_members |-> {}]
  BY <1>2, DirectFrame
<1>6. c \in RaftNodeRecord
  BY <1>2, ApplyDirect, ApplyJoint, ApplyFinalization DEF Sound
<1> HIDE DEF a, b, d
<1>7. /\ b.state = s.state /\ b.votes_received = s.votes_received
      /\ d.state = s.state /\ d.votes_received = s.votes_received
  BY <1>4, <1>5 DEF Only, FieldNames
<1>8. Only(F, s, b) /\ Only(F, s, d)
  BY <1>4, <1>5 DEF Only
<1>9. /\ Only(F, s, c) /\ RoleKept(s, c)
  <2>1. RoleKept(s, b) /\ RoleKept(s, d)
    BY <1>7 DEF RoleKept
  <2> QED
    BY <1>3, <1>8, <2>1
<1>10. Configuration(c) = Reconfigured(Configuration(s), cmd)
  <2>1. Configuration(s).members = s.members /\ Configuration(s).joint_members = s.joint_members
    BY DEF Configuration
  <2>2. CASE in_joint_consensus(s)
    BY <1>2, <1>3, <2>1, <2>2 DEF Reconfigured, in_joint_consensus
  <2>3. CASE ~in_joint_consensus(s) /\ cmd.joint_consensus
    BY <1>2, <1>4, <2>1, <2>3 DEF Reconfigured, in_joint_consensus
  <2>4. CASE ~in_joint_consensus(s) /\ ~cmd.joint_consensus
    BY <1>2, <1>5, <2>1, <2>4 DEF Reconfigured, in_joint_consensus
  <2> QED
    BY <2>2, <2>3, <2>4
<1> HIDE DEF c
<1>11. /\ Only({"pending_config_index"}, c, r) /\ r.state = c.state
       /\ r.votes_received = c.votes_received
       /\ r.members = c.members /\ r.joint_members = c.joint_members
  BY <1>6 DEF RaftNodeRecord, Only, FieldNames
<1> HIDE DEF r
<1>12. Only(F \cup {"pending_config_index"}, s, r)
  BY <1>9, <1>11, OnlyTrans
<1>13. Only({"members", "joint_members", "state", "leader_id", "votes_received",
             "pre_votes_received", "follower_states", "transferring",
             "pending_config_index"}, s, r)
  BY <1>12 DEF Only
<1> QED
  BY <1>1, <1>9, <1>10, <1>11, <1>13 DEF Configuration, RoleKept

\* One turn of the apply loop.
LEMMA ApplyFrame ==
    ASSUME NEW s \in RaftNodeRecord, NEW n \in Node, applying(s)
    PROVE  LET r == apply_one(s, n)
           IN  /\ Only({"members", "joint_members", "state", "leader_id", "votes_received",
                        "pre_votes_received", "follower_states", "transferring",
                        "pending_config_index", "last_applied"}, s, r)
               /\ RoleKept(s, r)
               /\ r.last_applied = s.last_applied + 1
               /\ Configuration(r) =
                    Reconfigured(Configuration(s), s.log[s.last_applied + 1].command)
<1> DEFINE entry == s.log[s.last_applied + 1]
           p == process_config_change(s, n, entry.command)
           c == IF entry.command.type = "ConfigChange" THEN p ELSE s
           r == [c EXCEPT !.last_applied = @ + 1]
           F == {"members", "joint_members", "state", "leader_id", "votes_received",
                 "pre_votes_received", "follower_states", "transferring",
                 "pending_config_index"}
<1>1. apply_one(s, n) = r
  BY DEF apply_one
<1>2. entry \in LogEntry
  BY ApplyOne
<1>3. ASSUME entry.command.type = "ConfigChange" PROVE entry.command \in ConfigChangeCommand
  <2> HIDE DEF entry
  <2>1. entry.command \in RaftCommand
    BY <1>2 DEF LogEntry
  <2> QED
    BY <1>3, <2>1 DEF RaftCommand, NoOpCommand
<1> HIDE DEF entry
<1>4. ASSUME entry.command.type = "ConfigChange"
      PROVE  /\ p \in RaftNodeRecord /\ Only(F, s, p)
             /\ RoleKept(s, p)
             /\ Configuration(p) = Reconfigured(Configuration(s), entry.command)
  BY <1>3, <1>4, ConfigChangeFrame, ProcessConfigChange DEF Sound
<1> HIDE DEF p
<1>5. /\ c \in RaftNodeRecord /\ Only(F, s, c)
      /\ RoleKept(s, c)
      /\ Configuration(c) = Reconfigured(Configuration(s), entry.command)
  BY <1>4, OnlyWiden DEF Reconfigured, RoleKept
<1> HIDE DEF c
<1>6. /\ Only({"last_applied"}, c, r) /\ r.last_applied = c.last_applied + 1
      /\ r.state = c.state /\ r.votes_received = c.votes_received
      /\ r.members = c.members /\ r.joint_members = c.joint_members
  BY <1>5 DEF RaftNodeRecord, Only, FieldNames
<1>7. c.last_applied = s.last_applied
  BY <1>5 DEF Only, FieldNames
<1> HIDE DEF r
<1>8. Only(F \cup {"last_applied"}, s, r)
  BY <1>5, <1>6, OnlyTrans
<1>9. Only({"members", "joint_members", "state", "leader_id", "votes_received",
            "pre_votes_received", "follower_states", "transferring",
            "pending_config_index", "last_applied"}, s, r)
  BY <1>8 DEF Only
<1> QED
  BY <1>1, <1>5, <1>6, <1>7, <1>9 DEF Configuration, RoleKept, entry
-----------------------------------------------------------------------------
(* The effects. *)

\* A message that changes nothing but bookkeeping at its receiver.
Quiet(m) == \/ m.type = "AppendEntriesResponse"
            \/ m.type = "RequestVoteResponse" /\ ~m.vote_granted

\* m was delivered to n, and is gone unless it is delivered twice.
Received(n, m, taken) ==
    m \in msgs /\ m.to = n /\ (m \in taken \/ used.duplicates < MaxDuplicates)

\* The node goes on in its role.
Works(n, s, r) ==
    /\ Only(Book, s, r)
    /\ \A m \in r.out : m \in s.out \/ Quiet(m) \/ (s.state = "Leader" /\ Replicates(m, n, s))

\* The node becomes a follower, perhaps of a new term.
StepsDown(n, s, r) ==
    /\ Only(Book \cup Role, s, r) /\ r.state = "Follower"
    /\ \A m \in r.out : m \in s.out \/ Quiet(m)

\* The node asks whether it could win a vote, or answers such a question.
Probes(n, s, r) ==
    /\ enable_pre_vote /\ s.state # "Leader" /\ r.state = "PreCandidate"
    /\ Only(Book \cup {"state", "votes_received"}, s, r)
    /\ \A m \in r.out : m \in s.out \/ VoteAsked(m, n, r, TRUE)
AnswersProbe(n, s, r, m) ==
    /\ m.pre_vote /\ Only(Book, s, r)
    /\ \A x \in r.out : x \in s.out \/ (x.type = "RequestVoteResponse" /\ x.to = m.from)

\* The node stands for election in a new term.
Campaigns(n, s, r) ==
    /\ s.members # {} /\ s.state # "Leader" /\ Only(Book \cup Role, s, r)
    /\ r.state = "Candidate" /\ r.current_term = s.current_term + 1
    /\ r.voted_for = n /\ r.votes_received = 1
    /\ \A m \in r.out : m \in s.out \/ VoteAsked(m, n, r, FALSE)

\* The node moves to term t if that is newer, and keeps its role if not.
Adopts(s, r, t) ==
    /\ Only(Book \cup Role \cup {"log"}, s, r)
    /\ IF t > s.current_term
       THEN r.state = "Follower" /\ r.current_term = t
       ELSE /\ r.state = s.state /\ r.current_term = s.current_term
            /\ r.votes_received = s.votes_received

\* The reply that gives n's vote to the sender of m.
Granted(n, m) ==
    [type |-> "RequestVoteResponse", from |-> n, to |-> m.from, term |-> m.term,
     vote_granted |-> TRUE]

Grants(n, s, r, m) ==
    /\ ~m.pre_vote /\ m.term >= s.current_term /\ Adopts(s, r, m.term) /\ r.log = s.log
    /\ r.voted_for = m.candidate_id
    /\ \A x \in r.out : x \in s.out \/ x = Granted(n, m)

\* A candidate counts a vote.
Counts(n, s, r, m) ==
    /\ s.state = "Candidate" /\ m.vote_granted
    /\ Only(Book \cup {"votes_received"}, s, r)
    /\ r.votes_received = s.votes_received + 1
    /\ r.out = s.out

\* A candidate that has a quorum of votes becomes leader.
Elected(n, s, r, m) ==
    /\ s.state = "Candidate" /\ r.state = "Leader"
    /\ Only(Book \cup {"state", "votes_received", "log"}, s, r)
    /\ r.votes_received = IF m.vote_granted THEN s.votes_received + 1 ELSE s.votes_received
    /\ r.votes_received >= quorum_size(s)
    /\ r.log = Append(s.log, [term |-> s.current_term, command |-> NoOpCommand])
    /\ \A x \in r.out : x \in s.out \/ (x.entries = <<>> /\ Replicates(x, n, r))

\* Every command a log may hold.
ClientCommand == [type : {"User"}, payload : UserCommand] \cup ConfigChange
Command == {NoOpCommand, seed.command} \cup ClientCommand

\* A leader takes a command from a client.
Proposes(n, s, r) ==
    /\ s.state = "Leader" /\ Only(Book \cup {"log"}, s, r) /\ r.out = s.out
    /\ \E c \in ClientCommand :
          r.log = Append(s.log, [term |-> s.current_term, command |-> c])

\* A follower or a candidate puts the entries of m after prev_log_index, or loses its
\* suffix to a failing disk.
Accepts(n, s, r, m) ==
    /\ m.term >= s.current_term /\ Adopts(s, r, m.term) /\ r.state # "Leader"
    /\ m.entries # <<>> /\ m.prev_log_index <= Len(s.log) /\ log_matches(s, m)
    /\ \/ r.log = SubSeq(s.log, 1, m.prev_log_index) \o m.entries
       \/ r.log = SubSeq(s.log, 1, m.prev_log_index)
    /\ \A x \in r.out : x \in s.out \/ Quiet(x)

\* A leader works on handing its role to another node.
Signals(n, s, r) ==
    /\ s.state = "Leader" /\ Only(Book \cup {"transfer"}, s, r)
    /\ s.transfer # NoTransfer \/ used.transfers < MaxTransfers
    /\ \A m \in r.out : \/ m \in s.out \/ Replicates(m, n, s)
                        \/ m.type = "RequestVoteRequest"

\* The transfer is over; a leader that has signalled its successor steps down.
EndsTransfer(n, s, r) ==
    /\ s.transfer # NoTransfer /\ r.out = s.out
    /\ \/ Only(Book \cup {"transfer"}, s, r)
       \/ Only(Book \cup Role \cup {"transfer"}, s, r) /\ r.state = "Follower"

\* The node hands the next committed entry to its state machine.
Applies(n, s, r) ==
    /\ applying(s)
    /\ Only(Book \cup {"state", "votes_received", "members", "joint_members", "last_applied"},
            s, r)
    /\ RoleKept(s, r) /\ r.out = s.out
    /\ r.last_applied = s.last_applied + 1
    /\ Configuration(r) = Reconfigured(Configuration(s), s.log[s.last_applied + 1].command)

Effect(n, s, r, taken) ==
    \/ Works(n, s, r) \/ StepsDown(n, s, r) \/ Probes(n, s, r) \/ Campaigns(n, s, r)
    \/ Proposes(n, s, r) \/ Signals(n, s, r) \/ EndsTransfer(n, s, r)
    \/ \E m \in RequestVoteRequest :
          Received(n, m, taken) /\ (AnswersProbe(n, s, r, m) \/ Grants(n, s, r, m))
    \/ \E m \in RequestVoteResponse :
          Received(n, m, taken) /\ (Counts(n, s, r, m) \/ Elected(n, s, r, m))
    \/ \E m \in AppendEntriesRequest : Received(n, m, taken) /\ Accepts(n, s, r, m)

\* A step of node n with one of these effects.
EffectStep ==
    \E n \in Node : \E r, taken :
        /\ Sound(node[n], r) /\ Step(n, r, taken)
        /\ \/ Effect(n, node[n], r, taken) /\ UNCHANGED chosen
           \/ /\ Applies(n, node[n], r)
              /\ chosen' = chosen \cup {[index |-> node[n].last_applied + 1,
                                         entry |-> node[n].log[node[n].last_applied + 1]]}
-----------------------------------------------------------------------------
(* The effect of every handler. *)

\* become_follower is a step-down.
LEMMA FollowerEffect ==
    ASSUME NEW s \in RaftNodeRecord, NEW t \in Nat, NEW n
    PROVE  StepsDown(n, s, become_follower(s, t))
<1> DEFINE r == become_follower(s, t)
<1>1. /\ Only({"state", "current_term", "voted_for", "leader_id", "votes_received",
               "pre_votes_received", "follower_states", "transferring"}, s, r)
      /\ r.state = "Follower"
  BY FollowerFrame
<1> HIDE DEF r
<1>2. Only(Book \cup Role, s, r)
  BY <1>1 DEF Only, Book, Role
<1>3. r.out = s.out
  BY <1>1 DEF Only, FieldNames
<1> QED
  BY <1>1, <1>2, <1>3 DEF StepsDown, r

\* become_candidate stands for election, steps down or does nothing.
LEMMA CandidateEffect ==
    ASSUME NEW s \in RaftNodeRecord, NEW n \in Node, NEW e \in Env
    PROVE  LET r == become_candidate(s, n, e)
           IN  StepsDown(n, s, r) \/ Campaigns(n, s, r) \/ r = s
<1> DEFINE r == become_candidate(s, n, e)
<1>1. \/ r = become_follower(s, s.current_term)
      \/ r = s
      \/ s.members # {} /\ s.state # "Leader" /\ Campaigned(n, s, r)
  BY CandidateFrame
<1>2. StepsDown(n, s, become_follower(s, s.current_term))
  BY Fields, FollowerEffect
<1> HIDE DEF r
<1>3. ASSUME s.members # {}, s.state # "Leader", Campaigned(n, s, r) PROVE Campaigns(n, s, r)
  <2>1. Only(Book \cup Role, s, r)
    BY <1>3 DEF Campaigned, Only, Book, Role
  <2> QED
    BY <1>3, <2>1 DEF Campaigned, Campaigns
<1>4. StepsDown(n, s, r) \/ Campaigns(n, s, r) \/ r = s
  BY <1>1, <1>2, <1>3
<1> QED
  BY <1>4 DEF r

\* Doing nothing is going on in one's role.
LEMMA IdleEffect ==
    ASSUME NEW s, NEW n
    PROVE  Works(n, s, s)
BY OnlyWiden DEF Works

\* on_election_timeout.
LEMMA TimeoutEffect ==
    ASSUME NEW s \in RaftNodeRecord, NEW n \in Node, NEW e \in Env
    PROVE  LET r == on_election_timeout(s, n, e)
           IN  Works(n, s, r) \/ StepsDown(n, s, r) \/ Probes(n, s, r) \/ Campaigns(n, s, r)
<1> DEFINE c == become_candidate(s, n, e)
           p == become_pre_candidate(s, n, e)
<1>1. StepsDown(n, s, c) \/ Campaigns(n, s, c) \/ c = s
  BY CandidateEffect
<1>2. \/ p = s
      \/ /\ s.state # "Leader" /\ p.state = "PreCandidate"
         /\ Only({"state", "votes_received", "pre_votes_received", "out"}, s, p)
         /\ \A m \in p.out : m \in s.out \/ VoteAsked(m, n, p, TRUE)
  BY PreCandidateFrame
<1>3. on_election_timeout(s, n, e) = IF enable_pre_vote /\ s.state # "Candidate" THEN p ELSE c
  BY DEF on_election_timeout
<1> HIDE DEF c, p
<1>4. enable_pre_vote => p = s \/ Probes(n, s, p)
  <2>1. Only({"state", "votes_received", "pre_votes_received", "out"}, s, p)
        => Only(Book \cup {"state", "votes_received"}, s, p)
    BY DEF Only, Book
  <2> QED
    BY <1>2, <2>1 DEF Probes
<1> QED
  BY <1>1, <1>3, <1>4, IdleEffect

\* Answering adds one message to the outbox.
LEMMA ReplyFrame ==
    ASSUME NEW s \in RaftNodeRecord, NEW m
    PROVE  Only({"out"}, s, reply(s, m)) /\ reply(s, m).out = s.out \cup {m}
<1> DEFINE x == s.out \cup {m}
           r == [s EXCEPT !.out = x]
<1>1. reply(s, m) = r
  BY DEF reply
<1> HIDE DEF x
<1>2. Only({"out"}, s, r) /\ r.out = x
  BY DEF RaftNodeRecord, Only, FieldNames
<1> QED
  BY <1>1, <1>2 DEF x

\* handle_request_vote.
LEMMA VoteEffect ==
    ASSUME NEW s \in RaftNodeRecord, NEW n \in Node, NEW m \in RequestVoteRequest
    PROVE  LET r == handle_request_vote(s, n, m)
           IN  \/ Works(n, s, r) \/ StepsDown(n, s, r)
               \/ AnswersProbe(n, s, r, m) \/ Grants(n, s, r, m)
<1> DEFINE up == log_is_up_to_date(s, m.last_log_index, m.last_log_term)
           s1 == IF m.term > s.current_term THEN become_follower(s, m.term) ELSE s
           s2 == [s1 EXCEPT !.voted_for = m.candidate_id]
           refused == \/ m.term < s.current_term
                      \/ s1.voted_for \notin {kNoLeader, m.candidate_id}
                      \/ ~up
           pre == m.term >= s.current_term /\ up
           resp(x, g) == [type |-> "RequestVoteResponse", from |-> n, to |-> m.from,
                          term |-> x.current_term, vote_granted |-> g]
           r1 == reply(s, resp(s, pre))
           r2 == reply(s1, resp(s1, FALSE))
           r3 == reply(s2, resp(s2, TRUE))
<1>1. m.term \in Nat /\ m.candidate_id \in RaftNodeId /\ s.current_term \in Nat
  BY Fields DEF RequestVoteRequest, RaftNodeId
<1>2. handle_request_vote(s, n, m) =
        IF m.pre_vote THEN r1 ELSE IF refused THEN r2 ELSE r3
  BY DEF handle_request_vote, vote_response
<1>3. /\ s1 \in RaftNodeRecord
      /\ \/ m.term > s.current_term /\ StepsDown(n, s, s1) /\ s1.current_term = m.term
            /\ s1.log = s.log
         \/ m.term <= s.current_term /\ s1 = s
  <2>1. CASE m.term > s.current_term
    <3>1. s1 = become_follower(s, m.term)
      BY <2>1
    <3>2. s1 \in RaftNodeRecord /\ StepsDown(n, s, s1)
      BY <1>1, <3>1, BecomeFollower, FollowerEffect DEF Sound
    <3>3. s1.current_term = m.term
      BY <1>1, <2>1, <3>1, FollowerFrame
    <3> HIDE DEF s1
    <3>4. s1.log = s.log
      BY <3>2 DEF StepsDown, Only, FieldNames, Book, Role
    <3> QED
      BY <2>1, <3>2, <3>3, <3>4
  <2>2. CASE ~(m.term > s.current_term)
    BY <1>1, <2>2
  <2> QED
    BY <2>1, <2>2
<1> HIDE DEF s1
<1>4. /\ s2 \in RaftNodeRecord
      /\ Only({"voted_for"}, s1, s2) /\ s2.voted_for = m.candidate_id
      /\ s2.current_term = s1.current_term
  <2>1. s2 \in RaftNodeRecord
    BY <1>1, <1>3, Update
  <2> QED
    BY <1>3, <2>1 DEF RaftNodeRecord, Only, FieldNames
<1> HIDE DEF s2, pre
<1>5. /\ Only({"out"}, s, r1) /\ r1.out = s.out \cup {resp(s, pre)}
      /\ Only({"out"}, s1, r2) /\ r2.out = s1.out \cup {resp(s1, FALSE)}
      /\ Only({"out"}, s2, r3) /\ r3.out = s2.out \cup {resp(s2, TRUE)}
  BY <1>3, <1>4, ReplyFrame
<1> HIDE DEF r1, r2, r3
<1>6. m.pre_vote => AnswersProbe(n, s, r1, m)
  <2>1. Only(Book, s, r1)
    BY <1>5 DEF Only, Book
  <2> QED
    BY <1>5, <2>1 DEF AnswersProbe
<1>7. Works(n, s, r2) \/ StepsDown(n, s, r2)
  <2>0. Quiet(resp(s1, FALSE))
    BY DEF Quiet
  <2> HIDE DEF resp
  <2>1. CASE s1 = s
    <3>1. Only(Book, s, r2)
      BY <1>5, <2>1 DEF Only, Book
    <3> QED
      BY <1>5, <2>0, <2>1, <3>1 DEF Works
  <2>2. CASE StepsDown(n, s, s1)
    <3>1. Only(Book \cup Role, s, r2)
      BY <1>5, <2>2 DEF StepsDown, Only, Book, Role
    <3>2. r2.state = "Follower"
      BY <1>5, <2>2 DEF StepsDown, Only, FieldNames
    <3> QED
      BY <1>5, <2>0, <2>2, <3>1, <3>2 DEF StepsDown
  <2> QED
    BY <1>3, <2>1, <2>2
<1>8. ASSUME ~m.pre_vote, ~refused PROVE Grants(n, s, r3, m)
  <2>1. m.term >= s.current_term
    BY <1>1, <1>8
  <2>2. s1.current_term = m.term /\ s1.log = s.log
    BY <1>1, <1>3, <2>1
  <2>3. /\ r3.state = s1.state /\ r3.current_term = s1.current_term
        /\ r3.votes_received = s1.votes_received /\ r3.log = s1.log
        /\ r3.voted_for = m.candidate_id
        /\ s2.out = s1.out
    BY <1>4, <1>5 DEF Only, FieldNames
  <2>4. Only(Book \cup Role, s, s1) /\ (m.term > s.current_term => s1.state = "Follower")
    BY <1>1, <1>3, OnlyWiden DEF StepsDown
  <2>5. Only(Book \cup Role \cup {"log"}, s, r3)
    BY <1>4, <1>5, <2>4 DEF Only, Book, Role
  <2>6. Adopts(s, r3, m.term)
    BY <1>1, <1>3, <2>1, <2>2, <2>3, <2>4, <2>5 DEF Adopts
  <2>7. resp(s2, TRUE) = Granted(n, m)
    BY <1>4, <2>2 DEF Granted
  <2>8. \A x \in s1.out : x \in s.out
    <3>1. CASE s1 = s
      BY <3>1
    <3>2. CASE m.term > s.current_term
      <4>1. s1.out = s.out
        BY <1>1, <3>2, FollowerFrame DEF s1, Only, FieldNames
      <4> QED
        BY <4>1
    <3> QED
      BY <1>3, <3>1, <3>2
  <2> HIDE DEF resp
  <2> QED
    BY <1>5, <1>8, <2>1, <2>2, <2>3, <2>6, <2>7, <2>8 DEF Grants
<1> QED
  BY <1>2, <1>6, <1>7, <1>8

\* handle_append_entries.
LEMMA AppendEffect ==
    ASSUME NEW s \in RaftNodeRecord, NEW n \in Node, NEW m \in AppendEntriesRequest,
           NEW e \in Env
    PROVE  LET r == handle_append_entries(s, n, m, e)
           IN  Works(n, s, r) \/ StepsDown(n, s, r) \/ Accepts(n, s, r, m)
<1> DEFINE last == last_index(s)
           s1 == IF m.term > s.current_term THEN become_follower(s, m.term) ELSE s
           s2 == [s1 EXCEPT !.leader_id = m.from]
           s3 == append_entries_to_log(s2, m, e)
           last_new == m.prev_log_index + Len(m.entries)
           commit == IF m.leader_commit < last_new THEN m.leader_commit ELSE last_new
           s5 == [s3 EXCEPT !.commit_index = commit]
           s4 == IF m.leader_commit <= s3.commit_index THEN s3 ELSE s5
           a(t, ok, c) == append_response(t, n, m, ok, last, c)
<1>1. /\ m.term \in Nat /\ m.from \in RaftNodeId /\ s.current_term \in Nat
      /\ m.prev_log_index \in Nat /\ m.entries \in Seq(LogEntry) /\ last \in Nat
  BY Fields, LastIndex DEF AppendEntriesRequest, RaftNodeId
<1>2. handle_append_entries(s, n, m, e) =
        IF m.term < s.current_term THEN a(s, FALSE, last + 1)
        ELSE IF s2.state = "Leader" THEN a(s2, FALSE, 0)
        ELSE IF m.prev_log_index > last THEN a(s2, FALSE, last + 1)
        ELSE IF ~log_matches(s, m) THEN a(s2, FALSE, conflict_start(s, m.prev_log_index))
        ELSE IF m.entries # <<>> /\ ~e.disk THEN a(s3, FALSE, m.prev_log_index + 1)
        ELSE a(s4, TRUE, 0)
  BY DEF handle_append_entries
<1>3. ASSUME NEW t \in RaftNodeRecord, NEW ok, NEW c
      PROVE  /\ Only({"out"}, t, a(t, ok, c))
             /\ \A x \in a(t, ok, c).out : x \in t.out \/ Quiet(x)
  <2> DEFINE resp == [type |-> "AppendEntriesResponse", from |-> n, to |-> m.from,
                      term |-> t.current_term, success |-> ok,
                      last_log_index |-> last, conflict_index |-> c]
  <2>1. a(t, ok, c) = reply(t, resp)
    BY DEF append_response
  <2>2. Quiet(resp)
    BY DEF Quiet
  <2> HIDE DEF resp, a
  <2> QED
    BY <2>1, <2>2, ReplyFrame
<1> HIDE DEF a
<1>4. /\ s1 \in RaftNodeRecord /\ Only(Book \cup Role, s, s1) /\ s1.log = s.log /\ s1.out = s.out
      /\ \/ m.term > s.current_term /\ s1.state = "Follower" /\ s1.current_term = m.term
         \/ m.term <= s.current_term /\ s1 = s
  <2>1. CASE m.term > s.current_term
    <3>1. s1 = become_follower(s, m.term)
      BY <2>1
    <3>2. s1 \in RaftNodeRecord /\ StepsDown(n, s, s1)
      BY <1>1, <3>1, BecomeFollower, FollowerEffect DEF Sound
    <3>3. s1.current_term = m.term /\ s1.out = s.out
      BY <1>1, <2>1, <3>1, FollowerFrame DEF Only, FieldNames
    <3> HIDE DEF s1
    <3>4. s1.log = s.log
      BY <3>2 DEF StepsDown, Only, FieldNames, Book, Role
    <3> QED
      BY <2>1, <3>2, <3>3, <3>4 DEF StepsDown
  <2>2. CASE ~(m.term > s.current_term)
    BY <1>1, <2>2, OnlyWiden
  <2> QED
    BY <2>1, <2>2
<1> HIDE DEF s1
<1>5. /\ s2 \in RaftNodeRecord /\ Only({"leader_id"}, s1, s2)
      /\ s2.state = s1.state /\ s2.current_term = s1.current_term
      /\ s2.votes_received = s1.votes_received /\ s2.log = s1.log /\ s2.out = s1.out
  <2>1. s2 \in RaftNodeRecord
    BY <1>1, <1>4, Update
  <2> QED
    BY <1>4, <2>1 DEF RaftNodeRecord, Only, FieldNames
<1> HIDE DEF s2
\* Whatever is answered from s2 with the log untouched goes on or steps down.
<1>6. ASSUME NEW t \in RaftNodeRecord, Only({"commit_index"}, s2, t), NEW ok, NEW c
      PROVE  Works(n, s, a(t, ok, c)) \/ StepsDown(n, s, a(t, ok, c))
  <2> DEFINE r == a(t, ok, c)
  <2>1. Only({"out"}, t, r) /\ (\A x \in r.out : x \in t.out \/ Quiet(x)) /\ t.out = s.out
    <3>1. t.out = s2.out
      BY <1>6 DEF Only, FieldNames
    <3> QED
      BY <1>3, <1>4, <1>5, <3>1
  <2> HIDE DEF r
  <2>2. CASE s1 = s
    <3>1. Only(Book, s, r)
      BY <1>5, <1>6, <2>1, <2>2 DEF Only, Book
    <3> QED
      BY <2>1, <3>1 DEF Works, r
  <2>3. CASE s1.state = "Follower"
    <3>1. Only(Book \cup Role, s, r)
      BY <1>4, <1>5, <1>6, <2>1 DEF Only, Book, Role
    <3>2. r.state = "Follower"
      BY <1>5, <1>6, <2>1, <2>3 DEF Only, FieldNames
    <3> QED
      BY <2>1, <3>1, <3>2 DEF StepsDown, r
  <2> QED
    BY <1>4, <2>2, <2>3
<1>7. Works(n, s, a(s, FALSE, last + 1))
  <2> DEFINE r == a(s, FALSE, last + 1)
  <2>1. Only({"out"}, s, r) /\ \A x \in r.out : x \in s.out \/ Quiet(x)
    BY <1>3
  <2> HIDE DEF r
  <2>2. Only(Book, s, r)
    BY <2>1 DEF Only, Book
  <2> QED
    BY <2>1, <2>2 DEF Works, r
<1>8. \A c : Works(n, s, a(s2, FALSE, c)) \/ StepsDown(n, s, a(s2, FALSE, c))
  BY <1>5, <1>6, OnlyWiden
\* Entries are only taken by a node that is not Leader, after the check at prev_log_index.
<1>9. ASSUME ~(m.term < s.current_term), s2.state # "Leader", ~(m.prev_log_index > last),
             log_matches(s, m), m.entries # <<>>
      PROVE  /\ Accepts(n, s, a(s4, TRUE, 0), m)
             /\ Accepts(n, s, a(s3, FALSE, m.prev_log_index + 1), m)
  <2> DEFINE kept == SubSeq(s2.log, 1, m.prev_log_index)
             log == IF e.disk THEN kept \o m.entries ELSE kept
             q == [s2 EXCEPT !.log = log]
  <2>1. m.prev_log_index <= last_index(s2) /\ m.prev_log_index <= Len(s.log)
    BY <1>1, <1>4, <1>5, <1>9 DEF last_index
  <2>2. s3 \in RaftNodeRecord /\ s3 = q
    BY <1>5, <1>9, <2>1, AppendToLog DEF Sound, append_entries_to_log
  <2>3. log = SubSeq(s.log, 1, m.prev_log_index) \o m.entries
        \/ log = SubSeq(s.log, 1, m.prev_log_index)
    BY <1>4, <1>5
  <2> HIDE DEF log, s3
  <2>4. Only({"log"}, s2, s3) /\ s3.log = log
    BY <1>5, <2>2 DEF RaftNodeRecord, Only, FieldNames
  <2> HIDE DEF q
  <2>5. s4 \in RaftNodeRecord /\ Only({"commit_index"}, s3, s4)
    <3>1. commit \in Nat
      BY <1>1 DEF AppendEntriesRequest
    <3> HIDE DEF commit
    <3>2. s5 \in RaftNodeRecord /\ Only({"commit_index"}, s3, s5)
      <4>1. s5 \in RaftNodeRecord
        BY <2>2, <3>1, Update
      <4> QED
        BY <2>2, <4>1 DEF RaftNodeRecord, Only, FieldNames
    <3> HIDE DEF s5
    <3> QED
      BY <2>2, <3>2, OnlyWiden
  <2> HIDE DEF s4
  <2>6. ASSUME NEW t \in RaftNodeRecord, Only({"commit_index"}, s3, t), NEW ok, NEW c
        PROVE  Accepts(n, s, a(t, ok, c), m)
    <3> DEFINE r == a(t, ok, c)
    <3>1. Only({"out"}, t, r) /\ \A x \in r.out : x \in t.out \/ Quiet(x)
      BY <1>3
    <3> HIDE DEF r
    <3>2. /\ r.state = s2.state /\ r.current_term = s2.current_term
          /\ r.votes_received = s2.votes_received /\ r.log = log /\ t.out = s2.out
      BY <2>4, <2>6, <3>1 DEF Only, FieldNames
    <3>3. Only(Book \cup Role \cup {"log"}, s, r)
      BY <1>4, <1>5, <2>4, <2>6, <3>1 DEF Only, Book, Role
    <3>4. Adopts(s, r, m.term)
      BY <1>1, <1>4, <1>5, <1>9, <3>2, <3>3 DEF Adopts
    <3>5. m.term >= s.current_term /\ r.state # "Leader"
      BY <1>1, <1>9, <3>2
    <3>6. \A x \in r.out : x \in s.out \/ Quiet(x)
      BY <1>4, <1>5, <3>1, <3>2
    <3>7. \/ r.log = SubSeq(s.log, 1, m.prev_log_index) \o m.entries
          \/ r.log = SubSeq(s.log, 1, m.prev_log_index)
      BY <2>3, <3>2
    <3>8. Accepts(n, s, r, m)
      BY <1>9, <2>1, <3>4, <3>5, <3>6, <3>7 DEF Accepts
    <3> QED
      BY <3>8 DEF r
  <2> QED
    BY <2>2, <2>5, <2>6, OnlyWiden
<1>10. ASSUME m.entries = <<>> PROVE Works(n, s, a(s4, TRUE, 0)) \/ StepsDown(n, s, a(s4, TRUE, 0))
  <2>1. s3 = s2
    BY <1>10 DEF append_entries_to_log
  <2> HIDE DEF s3
  <2>2. commit \in Nat
    BY <1>1 DEF AppendEntriesRequest
  <2> HIDE DEF commit
  <2>3. s5 \in RaftNodeRecord /\ Only({"commit_index"}, s2, s5)
    <3>1. s5 \in RaftNodeRecord
      BY <1>5, <2>1, <2>2, Update
    <3> QED
      BY <1>5, <2>1, <3>1 DEF RaftNodeRecord, Only, FieldNames
  <2> HIDE DEF s5
  <2>4. s4 \in RaftNodeRecord /\ Only({"commit_index"}, s2, s4)
    BY <1>5, <2>1, <2>3, OnlyWiden
  <2> HIDE DEF s4
  <2> QED
    BY <1>6, <2>4
<1> HIDE DEF s3, s4, last
<1> QED
  BY <1>2, <1>7, <1>8, <1>9, <1>10

\* handle_request_vote_response.
LEMMA VoteResponseEffect ==
    ASSUME NEW s \in RaftNodeRecord, NEW n \in Node, NEW m \in RequestVoteResponse,
           NEW e \in Env
    PROVE  LET r == handle_request_vote_response(s, n, m, e)
           IN  \/ Works(n, s, r) \/ StepsDown(n, s, r) \/ Campaigns(n, s, r)
               \/ Counts(n, s, r, m) \/ Elected(n, s, r, m)
<1> DEFINE r == handle_request_vote_response(s, n, m, e)
           pre == s.state = "PreCandidate"
           request_term == IF pre THEN s.current_term + 1 ELSE s.current_term
           c1 == [s EXCEPT !.pre_votes_received = @ + 1]
           c2 == [s EXCEPT !.votes_received = @ + 1]
           q1 == IF m.vote_granted THEN c1 ELSE s
           q2 == IF m.vote_granted THEN c2 ELSE s
           Goal == \/ Works(n, s, r) \/ StepsDown(n, s, r) \/ Campaigns(n, s, r)
                   \/ Counts(n, s, r, m) \/ Elected(n, s, r, m)
<1> SUFFICES Goal
  OBVIOUS
<1>1. m.term \in Nat
  BY DEF RequestVoteResponse
<1>2. r = IF s.state \notin {"Candidate", "PreCandidate"} THEN s
          ELSE IF m.term > request_term THEN become_follower(s, m.term)
          ELSE IF pre THEN tally_votes(q1, n, e, TRUE) ELSE tally_votes(q2, n, e, FALSE)
  BY DEF handle_request_vote_response
<1>3. /\ q1 \in RaftNodeRecord /\ Only({"pre_votes_received"}, s, q1)
      /\ q2 \in RaftNodeRecord /\ Only({"votes_received"}, s, q2)
      /\ q2.votes_received = IF m.vote_granted THEN s.votes_received + 1 ELSE s.votes_received
  <2>1. s.pre_votes_received + 1 \in Nat /\ s.votes_received + 1 \in Nat
    BY Fields
  <2>2. c1 \in RaftNodeRecord /\ c2 \in RaftNodeRecord
    BY <2>1, Update
  <2>3. /\ Only({"pre_votes_received"}, s, c1) /\ Only({"votes_received"}, s, c2)
        /\ c2.votes_received = s.votes_received + 1
    BY DEF RaftNodeRecord, Only, FieldNames
  <2> HIDE DEF c1, c2
  <2> QED
    BY <2>2, <2>3, OnlyWiden
<1>4. m.vote_granted \/ q2 = s
  OBVIOUS
<1> HIDE DEF r, q1, q2
<1>5. CASE s.state \notin {"Candidate", "PreCandidate"}
  BY <1>2, <1>5, IdleEffect
<1>6. CASE s.state \in {"Candidate", "PreCandidate"} /\ m.term > request_term
  BY <1>1, <1>2, <1>6, FollowerEffect
<1>7. CASE pre /\ ~(m.term > request_term)
  <2>1. r = q1 \/ r = become_candidate(q1, n, e)
    BY <1>2, <1>7 DEF tally_votes
  <2>2. /\ q1.members = s.members /\ q1.state = s.state /\ q1.out = s.out
        /\ q1.current_term = s.current_term
    BY <1>3 DEF Only, FieldNames
  <2>3. ASSUME r = q1 PROVE Works(n, s, r)
    <3>1. Only(Book, s, r)
      BY <1>3, <2>3 DEF Only, Book
    <3> QED
      BY <2>2, <2>3, <3>1 DEF Works
  <2>4. ASSUME StepsDown(n, q1, r) PROVE StepsDown(n, s, r)
    <3>1. Only(Book \cup Role, s, r)
      BY <1>3, <2>4 DEF StepsDown, Only, Book, Role
    <3> QED
      BY <2>2, <2>4, <3>1 DEF StepsDown
  <2>5. ASSUME Campaigns(n, q1, r) PROVE Campaigns(n, s, r)
    <3>1. Only(Book \cup Role, s, r)
      BY <1>3, <2>5 DEF Campaigns, Only, Book, Role
    <3> QED
      BY <2>2, <2>5, <3>1 DEF Campaigns
  <2>6. r = q1 \/ StepsDown(n, q1, r) \/ Campaigns(n, q1, r)
    BY <1>3, <2>1, CandidateEffect
  <2> QED
    BY <2>3, <2>4, <2>5, <2>6
<1>8. CASE s.state = "Candidate" /\ ~(m.term > request_term)
  <2>0. \/ r = q2
        \/ q2.votes_received >= quorum_size(q2) /\ r = become_leader(q2, n, e)
    BY <1>2, <1>8 DEF tally_votes
  <2>1. /\ q2.members = s.members /\ q2.joint_members = s.joint_members
        /\ q2.out = s.out /\ q2.log = s.log /\ q2.current_term = s.current_term
    BY <1>3 DEF Only, FieldNames
  <2>2. quorum_size(q2) = quorum_size(s)
    BY <2>1 DEF quorum_size, in_joint_consensus
  <2>3. CASE r = q2 /\ m.vote_granted
    <3>1. Only(Book \cup {"votes_received"}, s, r)
      BY <1>3, <2>3 DEF Only, Book
    <3> QED
      BY <1>3, <1>8, <2>1, <2>3, <3>1 DEF Counts
  <2>4. CASE r = q2 /\ ~m.vote_granted
    BY <1>4, <2>4, IdleEffect
  <2>5. CASE q2.votes_received >= quorum_size(q2) /\ r = become_leader(q2, n, e)
    <3>1. \/ WonRole(n, q2, r)
          \/ /\ Only({"state", "current_term", "voted_for", "leader_id", "votes_received",
                      "pre_votes_received", "follower_states", "transferring"}, q2, r)
             /\ r.state = "Follower"
      BY <1>3, <2>5, LeaderFrame
    <3>2. CASE WonRole(n, q2, r)
      <4>1. Only(Book \cup {"state", "votes_received", "log"}, s, r)
        BY <1>3, <3>2 DEF WonRole, Only, Book
      <4>2. r.votes_received = q2.votes_received
        BY <3>2 DEF WonRole, Only, FieldNames
      <4> QED
        BY <1>3, <1>8, <2>1, <2>2, <2>5, <3>2, <4>1, <4>2 DEF WonRole, Elected
    <3>3. CASE /\ Only({"state", "current_term", "voted_for", "leader_id", "votes_received",
                        "pre_votes_received", "follower_states", "transferring"}, q2, r)
               /\ r.state = "Follower"
      <4>1. Only(Book \cup Role, s, r)
        BY <1>3, <3>3 DEF Only, Book, Role
      <4>2. r.out = q2.out
        BY <3>3 DEF Only, FieldNames
      <4> QED
        BY <2>1, <3>3, <4>1, <4>2 DEF StepsDown
    <3> QED
      BY <3>1, <3>2, <3>3
  <2> QED
    BY <2>0, <2>3, <2>4, <2>5
<1> QED
  BY <1>5, <1>6, <1>7, <1>8

\* handle_append_entries_response.
LEMMA AppendResponseEffect ==
    ASSUME NEW s \in RaftNodeRecord, NEW n \in Node, NEW m \in AppendEntriesResponse,
           NEW e \in Env
    PROVE  LET r == handle_append_entries_response(s, n, m, e)
           IN  Works(n, s, r) \/ StepsDown(n, s, r)
<1> DEFINE f == acknowledged(s.follower_states[m.from])
           with(g) == [s EXCEPT !.follower_states = [s.follower_states EXCEPT ![m.from] = g]]
           ok == with(replicated(f, m.last_log_index))
           no == with(backtracked(f, m.conflict_index))
           r1 == advance_commit_index(ok, n)
           r2 == send_append_entries_to(no, n, m.from, e)
<1>1. /\ m.from \in Node /\ m.term \in Nat /\ m.last_log_index \in Nat
      /\ m.conflict_index \in Int
  BY DEF AppendEntriesResponse
<1>2. f \in FollowerState
  BY <1>1, Fields, Progress
<1>3. ASSUME NEW g \in FollowerState
      PROVE  with(g) \in RaftNodeRecord /\ Only({"follower_states"}, s, with(g))
  <2> DEFINE fs == [s.follower_states EXCEPT ![m.from] = g]
  <2>1. fs \in [Node -> FollowerState]
    BY <1>1, Fields
  <2> HIDE DEF fs
  <2>2. [s EXCEPT !.follower_states = fs] \in RaftNodeRecord
    BY <2>1, Update
  <2>3. Only({"follower_states"}, s, [s EXCEPT !.follower_states = fs])
    BY DEF RaftNodeRecord, Only, FieldNames
  <2> QED
    BY <2>2, <2>3 DEF fs
<1>4. handle_append_entries_response(s, n, m, e) =
        IF s.state # "Leader" THEN s
        ELSE IF m.term > s.current_term THEN become_follower(s, m.term)
        ELSE IF ~s.follower_states[m.from].tracked THEN s
        ELSE IF m.success THEN r1 ELSE r2
  BY DEF handle_append_entries_response
<1> HIDE DEF f, with
<1>5. /\ ok \in RaftNodeRecord /\ Only({"follower_states"}, s, ok)
      /\ no \in RaftNodeRecord /\ Only({"follower_states"}, s, no)
  BY <1>1, <1>2, <1>3, Progress
<1> HIDE DEF ok, no
<1>6. Works(n, s, r1)
  <2>1. Only({"commit_index"}, ok, r1)
    BY <1>5, AdvanceFrame
  <2> HIDE DEF r1
  <2>2. Only(Book, s, r1)
    BY <1>5, <2>1 DEF Only, Book
  <2>3. r1.out = s.out
    BY <1>5, <2>1 DEF Only, FieldNames
  <2> QED
    BY <2>2, <2>3 DEF Works
<1>7. s.state = "Leader" => Works(n, s, r2)
  <2>1. /\ Only({"follower_states", "out"}, no, r2)
        /\ \A x \in r2.out : x \in no.out \/ Replicates(x, n, no)
    BY <1>1, <1>5, AppendToFrame
  <2> HIDE DEF r2
  <2>2. Only(Book, s, r2)
    BY <1>5, <2>1 DEF Only, Book
  <2>3. no.out = s.out /\ no.current_term = s.current_term /\ no.log = s.log
    BY <1>5 DEF Only, FieldNames
  <2> QED
    BY <2>1, <2>2, <2>3 DEF Works, Replicates
<1> HIDE DEF r1, r2
<1> QED
  BY <1>1, <1>4, <1>6, <1>7, FollowerEffect, IdleEffect

\* One round of a transfer sends entries, or the request that starts the election.
LEMMA TransferFrame ==
    ASSUME NEW s \in RaftNodeRecord, NEW n \in Node, NEW e \in Env, NEW c \in BOOLEAN,
           s.transfer \in Transferring
    PROVE  LET r == transfer_round(s, n, e, c)
           IN  /\ Only({"transfer", "follower_states", "out"}, s, r)
               /\ \A m \in r.out : \/ m \in s.out \/ Replicates(m, n, s)
                                   \/ m.type = "RequestVoteRequest"
<1> DEFINE t == s.transfer
           sent == send_append_entries_to(s, n, t.target, e)
           t1 == [t EXCEPT !.pc = "replicating", !.round = @ + 1]
           t2 == [t EXCEPT !.pc = "signalled"]
           r1 == [sent EXCEPT !.transfer = t1]
           rv == [type |-> "RequestVoteRequest", from |-> n, to |-> t.target,
                  term |-> s.current_term + 1, candidate_id |-> t.target,
                  last_log_index |-> last_index(s),
                  last_log_term |-> term_at(s, last_index(s)), pre_vote |-> FALSE]
           out == s.out \cup {m \in {rv} : m.to \notin e.down}
           r2 == [s EXCEPT !.transfer = t2, !.out = out]
<1>1. t.target \in Node
  BY DEF Transferring
<1>2. transfer_round(s, n, e, c) = IF t.round < kTransferMaxRounds /\ ~c THEN r1 ELSE r2
  BY DEF transfer_round
<1>3. \A m \in out : m \in s.out \/ m.type = "RequestVoteRequest"
  OBVIOUS
<1>4. /\ sent \in RaftNodeRecord /\ Only({"follower_states", "out"}, s, sent)
      /\ \A m \in sent.out : m \in s.out \/ Replicates(m, n, s)
  BY <1>1, SendAppendEntriesTo, AppendToFrame DEF Sound
<1> HIDE DEF sent, t1, t2, out
<1>5. /\ Only({"transfer"}, sent, r1) /\ r1.out = sent.out
      /\ Only({"transfer", "follower_states", "out"}, s, r2) /\ r2.out = out
  BY <1>4 DEF RaftNodeRecord, Only, FieldNames
<1> HIDE DEF r1, r2
<1>6. Only({"transfer", "follower_states", "out"}, s, r1)
  BY <1>4, <1>5 DEF Only
<1> QED
  BY <1>2, <1>3, <1>4, <1>5, <1>6
-----------------------------------------------------------------------------
(* The effect of every action. *)

\* How an action is shown to be one of the effects.
LEMMA ByEffect ==
    ASSUME NEW n \in Node, NEW r, NEW taken, Sound(node[n], r), Step(n, r, taken),
           Effect(n, node[n], r, taken), UNCHANGED chosen
    PROVE  EffectStep
BY DEF EffectStep

\* The effects that need no message.
LEMMA LocalEffect ==
    ASSUME NEW n, NEW s, NEW r, NEW taken,
           \/ Works(n, s, r) \/ StepsDown(n, s, r) \/ Probes(n, s, r) \/ Campaigns(n, s, r)
           \/ Proposes(n, s, r) \/ Signals(n, s, r) \/ EndsTransfer(n, s, r)
    PROVE  Effect(n, s, r, taken)
BY DEF Effect

\* The election thread.
LEMMA ElectionTimeoutEffect ==
    ASSUME TypeOK, NEW n \in Node, ElectionTimeout(n)
    PROVE  EffectStep
<1>1. PICK e \in Faults :
        LET s == on_election_timeout(node[n], n, e)
        IN  \E lost \in Losses : Step(n, s, lost)
  BY DEF ElectionTimeout
<1> DEFINE r == on_election_timeout(node[n], n, e)
<1>2. node[n] \in RaftNodeRecord /\ e \in Env
  BY FaultType DEF TypeOK
<1>3. Sound(node[n], r)
  BY <1>2, OnElectionTimeout
<1>4. \A lost : Effect(n, node[n], r, lost)
  BY <1>2, TimeoutEffect, LocalEffect
<1>5. PICK lost \in Losses : Step(n, r, lost)
  BY <1>1
<1> HIDE DEF r
<1> QED
  BY <1>3, <1>4, <1>5, ByEffect DEF ElectionTimeout

\* The heartbeat thread.
LEMMA HeartbeatTickEffect ==
    ASSUME TypeOK, NEW n \in Node, HeartbeatTick(n)
    PROVE  EffectStep
<1>1. PICK e \in Faults :
        LET s == replicate_to_followers(send_heartbeats(node[n], n, e), n, e)
        IN  \E back \in SUBSET {p \in Node : ~s.follower_states[p].is_active} :
               \E lost \in Losses :
                  Step(n, [s EXCEPT !.follower_states = [p \in Node |->
                               IF p \in back
                               THEN [@[p] EXCEPT !.is_active = TRUE, !.failures = 0]
                               ELSE @[p]]], lost)
  BY DEF HeartbeatTick
<1> DEFINE h == send_heartbeats(node[n], n, e)
           s == replicate_to_followers(h, n, e)
<1>2. node[n] \in RaftNodeRecord /\ node[n].state = "Leader" /\ e \in Env
  BY FaultType DEF TypeOK, HeartbeatTick
<1>3. /\ h \in RaftNodeRecord /\ Sound(node[n], h) /\ Only({"follower_states", "out"}, node[n], h)
      /\ \A m \in h.out : m \in node[n].out \/ Replicates(m, n, node[n])
  BY <1>2, SendHeartbeats, HeartbeatsFrame DEF Sound
<1>4. PICK back \in SUBSET {p \in Node : ~s.follower_states[p].is_active}, lost \in Losses :
        Step(n, [s EXCEPT !.follower_states = [p \in Node |->
                     IF p \in back
                     THEN [s.follower_states[p] EXCEPT !.is_active = TRUE, !.failures = 0]
                     ELSE s.follower_states[p]]], lost)
  BY <1>1
<1> HIDE DEF h
<1>5. /\ s \in RaftNodeRecord /\ Sound(h, s) /\ Only({"follower_states", "out"}, h, s)
      /\ \A m \in s.out : m \in h.out \/ Replicates(m, n, h)
  BY <1>2, <1>3, ReplicateToFollowers, ReplicateFrame DEF Sound
<1> HIDE DEF s
<1> DEFINE fs == [p \in Node |-> IF p \in back
                     THEN [s.follower_states[p] EXCEPT !.is_active = TRUE, !.failures = 0]
                     ELSE s.follower_states[p]]
           r == [s EXCEPT !.follower_states = fs]
<1>6. fs \in [Node -> FollowerState]
  <2>1. \A p \in Node : s.follower_states[p] \in FollowerState
    BY <1>5, Fields
  <2>2. \A p \in Node :
          [s.follower_states[p] EXCEPT !.is_active = TRUE, !.failures = 0] \in FollowerState
    BY <2>1, UpdateFollower
  <2> QED
    BY <2>1, <2>2
<1>7. Step(n, r, lost)
  BY <1>4
<1> HIDE DEF fs
<1>8. Sound(s, r)
  BY <1>5, <1>6, Fields, SendStep
<1>9. Only({"follower_states"}, s, r)
  BY <1>5 DEF RaftNodeRecord, Only, FieldNames
<1> HIDE DEF r
<1>10. Sound(node[n], r)
  BY <1>2, <1>3, <1>5, <1>8, KeepsTrans
<1>11. Works(n, node[n], r)
  <2>1. Only(Book, node[n], r)
    BY <1>3, <1>5, <1>9 DEF Only, Book
  <2>2. h.current_term = node[n].current_term /\ h.log = node[n].log /\ r.out = s.out
    BY <1>3, <1>9 DEF Only, FieldNames
  <2>3. \A m : Replicates(m, n, h) => Replicates(m, n, node[n])
    BY <2>2 DEF Replicates
  <2> QED
    BY <1>2, <1>3, <1>5, <2>1, <2>2, <2>3 DEF Works
<1> QED
  BY <1>7, <1>10, <1>11, LocalEffect, ByEffect DEF HeartbeatTick

\* Stepping down within the term.
LEMMA StepDownEffect ==
    ASSUME TypeOK, NEW n \in Node, StepDown(n)
    PROVE  EffectStep
<1>1. node[n] \in RaftNodeRecord /\ node[n].current_term \in Nat
  BY Fields DEF TypeOK
<1> DEFINE r == become_follower(node[n], node[n].current_term)
<1>2. Sound(node[n], r) /\ StepsDown(n, node[n], r)
  BY <1>1, BecomeFollower, FollowerEffect
<1>3. Step(n, r, {})
  BY DEF StepDown
<1> HIDE DEF r
<1> QED
  BY <1>2, <1>3, LocalEffect, ByEffect DEF StepDown

\* A client proposal.
LEMMA ProposeEffect ==
    ASSUME TypeOK, NEW n \in Node, NEW command \in ClientCommand, propose(n, command)
    PROVE  EffectStep
<1> DEFINE s == node[n]
           entry == [term |-> s.current_term, command |-> command]
           log == Append(s.log, entry)
           pending == IF command.type = "ConfigChange" THEN last_index(s) + 1
                                                       ELSE s.pending_config_index
           r == [s EXCEPT !.log = log, !.pending_config_index = pending]
<1>1. s \in RaftNodeRecord /\ s.state = "Leader"
  BY DEF TypeOK, propose
<1>2. Step(n, r, {})
  BY DEF propose
<1>a. command \in RaftCommand
  BY CommandAssumption DEF ClientCommand, RaftCommand
<1> HIDE DEF s
<1>3. log \in Seq(LogEntry)
  <2>1. entry \in LogEntry
    BY <1>1, <1>a, Fields DEF LogEntry
  <2> HIDE DEF entry
  <2> QED
    BY <1>1, <2>1, Fields
<1>4. pending \in Nat
  BY <1>1, Fields, LastIndex
<1> HIDE DEF log, pending
<1>5. r \in RaftNodeRecord
  BY <1>1, <1>3, <1>4, Update
<1>6. /\ r.current_term = s.current_term /\ r.voted_for = s.voted_for
      /\ r.log = log /\ r.out = s.out
      /\ Only({"log", "pending_config_index"}, s, r)
  BY <1>1 DEF RaftNodeRecord, Only, FieldNames
<1> HIDE DEF r
<1>7. Sound(s, r)
  BY <1>1, <1>5, <1>6, Fields DEF Sound, Keeps
<1>8. Only(Book \cup {"log"}, s, r)
  BY <1>6 DEF Only, Book
<1>9. Proposes(n, s, r)
  BY <1>1, <1>6, <1>8 DEF Proposes, log
<1> QED
  BY <1>2, <1>7, <1>9, LocalEffect, ByEffect DEF s, propose

\* The four message handlers.
LEMMA ReceiveEffect ==
    ASSUME NEW n \in Node, NEW m \in msgs, m.to = n, NEW r, NEW e, Sound(node[n], r),
           Receive(n, m, r, e),
           \A taken : Received(n, m, taken) => Effect(n, node[n], r, taken)
    PROVE  EffectStep
<1>1. PICK taken \in {{m}, {}} :
        Step(n, r, taken) /\ (m \in taken \/ used.duplicates < MaxDuplicates)
  BY DEF Receive
<1>2. Effect(n, node[n], r, taken)
  BY <1>1 DEF Received
<1> QED
  BY <1>1, <1>2, ByEffect DEF Receive

\* RequestVote and its reply.
LEMMA VoteMessagesEffect ==
    ASSUME TypeOK, NEW n \in Node,
           HandleRequestVote(n) \/ HandleRequestVoteResponse(n)
    PROVE  EffectStep
<1> DEFINE s == node[n]
<1>1. s \in RaftNodeRecord
  BY DEF TypeOK
<1>2. CASE HandleRequestVote(n)
  <2>1. PICK m \in Inbox(n, "RequestVoteRequest") :
          Receive(n, m, handle_request_vote(s, n, m), NoFault)
    BY <1>2 DEF HandleRequestVote
  <2>2. m \in RequestVoteRequest /\ m \in msgs /\ m.to = n
    BY InboxType DEF Inbox
  <2> DEFINE r == handle_request_vote(s, n, m)
  <2>3. Sound(s, r)
    BY <1>1, <2>2, HandleVote
  <2>4. \/ Works(n, s, r) \/ StepsDown(n, s, r)
        \/ AnswersProbe(n, s, r, m) \/ Grants(n, s, r, m)
    BY <1>1, <2>2, VoteEffect
  <2>a. Receive(n, m, r, NoFault)
    BY <2>1
  <2> HIDE DEF r, s
  <2>5. \A taken : Received(n, m, taken) => Effect(n, s, r, taken)
    BY <2>2, <2>4 DEF Effect
  <2> QED
    BY <2>2, <2>3, <2>5, <2>a, ReceiveEffect DEF s
<1>3. CASE HandleRequestVoteResponse(n)
  <2>1. PICK m \in Inbox(n, "RequestVoteResponse"), e \in Faults :
          Receive(n, m, handle_request_vote_response(s, n, m, e), e)
    BY <1>3 DEF HandleRequestVoteResponse
  <2>2. m \in RequestVoteResponse /\ m \in msgs /\ m.to = n /\ e \in Env
    BY InboxType, FaultType DEF Inbox
  <2> DEFINE r == handle_request_vote_response(s, n, m, e)
  <2>3. Sound(s, r)
    BY <1>1, <2>2, HandleVoteResponse
  <2>4. \/ Works(n, s, r) \/ StepsDown(n, s, r) \/ Campaigns(n, s, r)
        \/ Counts(n, s, r, m) \/ Elected(n, s, r, m)
    BY <1>1, <2>2, VoteResponseEffect
  <2>a. Receive(n, m, r, e)
    BY <2>1
  <2> HIDE DEF r, s
  <2>5. \A taken : Received(n, m, taken) => Effect(n, s, r, taken)
    BY <2>1, <2>2, <2>4 DEF Effect
  <2> QED
    BY <2>2, <2>3, <2>5, <2>a, ReceiveEffect DEF s
<1> QED
  BY <1>2, <1>3

\* AppendEntries and its reply.
LEMMA AppendMessagesEffect ==
    ASSUME TypeOK, NEW n \in Node,
           HandleAppendEntries(n) \/ HandleAppendEntriesResponse(n)
    PROVE  EffectStep
<1> DEFINE s == node[n]
<1>1. s \in RaftNodeRecord
  BY DEF TypeOK
<1>2. CASE HandleAppendEntries(n)
  <2>1. PICK m \in Inbox(n, "AppendEntriesRequest"), e \in Faults :
          Receive(n, m, handle_append_entries(s, n, m, e), e)
    BY <1>2 DEF HandleAppendEntries
  <2>2. m \in AppendEntriesRequest /\ m \in msgs /\ m.to = n /\ e \in Env
    BY InboxType, FaultType DEF Inbox
  <2> DEFINE r == handle_append_entries(s, n, m, e)
  <2>3. Sound(s, r)
    BY <1>1, <2>2, HandleAppend
  <2>4. Works(n, s, r) \/ StepsDown(n, s, r) \/ Accepts(n, s, r, m)
    BY <1>1, <2>2, AppendEffect
  <2>a. Receive(n, m, r, e)
    BY <2>1
  <2> HIDE DEF r, s
  <2>5. \A taken : Received(n, m, taken) => Effect(n, s, r, taken)
    BY <2>2, <2>4 DEF Effect
  <2> QED
    BY <2>2, <2>3, <2>5, <2>a, ReceiveEffect DEF s
<1>3. CASE HandleAppendEntriesResponse(n)
  <2>1. PICK m \in Inbox(n, "AppendEntriesResponse"), e \in Faults :
          Receive(n, m, handle_append_entries_response(s, n, m, e), e)
    BY <1>3 DEF HandleAppendEntriesResponse
  <2>2. m \in AppendEntriesResponse /\ m \in msgs /\ m.to = n /\ e \in Env
    BY InboxType, FaultType DEF Inbox
  <2> DEFINE r == handle_append_entries_response(s, n, m, e)
  <2>3. Sound(s, r)
    BY <1>1, <2>2, HandleAppendResponse
  <2>4. Works(n, s, r) \/ StepsDown(n, s, r)
    BY <1>1, <2>2, AppendResponseEffect
  <2>a. Receive(n, m, r, e)
    BY <2>1
  <2> HIDE DEF r, s
  <2>5. \A taken : Received(n, m, taken) => Effect(n, s, r, taken)
    BY <2>4 DEF Effect
  <2> QED
    BY <2>2, <2>3, <2>5, <2>a, ReceiveEffect DEF s
<1> QED
  BY <1>2, <1>3

\* The apply loop.
LEMMA ApplyCommittedEffect ==
    ASSUME TypeOK, NEW n \in Node, ApplyCommitted(n)
    PROVE  EffectStep
<1> DEFINE s == node[n]
           r == apply_one(s, n)
<1>1. s \in RaftNodeRecord /\ applying(s)
  BY DEF TypeOK, ApplyCommitted
<1>2. /\ Step(n, r, {})
      /\ chosen' = chosen \cup {[index |-> s.last_applied + 1,
                                 entry |-> s.log[s.last_applied + 1]]}
  BY DEF ApplyCommitted
<1>3. Sound(s, r)
  BY <1>1, ApplyOne
<1>4. /\ Only({"members", "joint_members", "state", "leader_id", "votes_received",
               "pre_votes_received", "follower_states", "transferring",
               "pending_config_index", "last_applied"}, s, r)
      /\ RoleKept(s, r)
      /\ r.last_applied = s.last_applied + 1
      /\ Configuration(r) = Reconfigured(Configuration(s), s.log[s.last_applied + 1].command)
  BY <1>1, ApplyFrame
<1> HIDE DEF r, s
<1>5. /\ r.out = s.out
      /\ Only(Book \cup {"state", "votes_received", "members", "joint_members",
                         "last_applied"}, s, r)
  <2>1. r.out = s.out
    BY <1>4 DEF Only, FieldNames
  <2> QED
    BY <1>4, <2>1 DEF Only, Book
<1>6. Applies(n, s, r)
  BY <1>1, <1>4, <1>5 DEF Applies
<1> QED
  BY <1>2, <1>3, <1>6 DEF EffectStep, s

\* Starting and continuing a leadership transfer.
LEMMA TransferEffect ==
    ASSUME TypeOK, NEW n \in Node, TransferBegin(n) \/ TransferResume(n)
    PROVE  EffectStep
<1> DEFINE s == node[n]
<1>1. s \in RaftNodeRecord /\ \A e \in Faults : e \in Env
  BY FaultType DEF TypeOK
\* A round that starts from s, or from s with its transfer fields set.
<1>2. ASSUME NEW b \in RaftNodeRecord, Sound(s, b), Only({"transferring", "transfer"}, s, b),
             b.transfer \in Transferring, NEW c \in BOOLEAN, NEW e \in Env, s.state = "Leader",
             s.transfer # NoTransfer \/ used.transfers < MaxTransfers
      PROVE  LET r == transfer_round(b, n, e, c)
             IN  Sound(s, r) /\ Signals(n, s, r)
  <2> DEFINE r == transfer_round(b, n, e, c)
  <2>1. Sound(b, r)
    BY <1>1, <1>2, TransferRound
  <2>2. /\ Only({"transfer", "follower_states", "out"}, b, r)
        /\ \A m \in r.out : \/ m \in b.out \/ Replicates(m, n, b)
                            \/ m.type = "RequestVoteRequest"
    BY <1>1, <1>2, TransferFrame
  <2> HIDE DEF r, s
  <2>3. Sound(s, r)
    BY <1>1, <1>2, <2>1, KeepsTrans
  <2>4. b.out = s.out /\ b.current_term = s.current_term /\ b.log = s.log
    BY <1>2 DEF Only, FieldNames
  <2>5. Only(Book \cup {"transfer"}, s, r)
    BY <1>2, <2>2 DEF Only, Book
  <2>6. Signals(n, s, r)
    BY <1>2, <2>2, <2>4, <2>5 DEF Signals, Replicates
  <2> QED
    BY <2>3, <2>6 DEF r
<1>3. CASE TransferBegin(n)
  <2> DEFINE t(target) == [pc |-> "replicating", target |-> target,
                           last_idx |-> last_index(s), round |-> 0, term |-> s.current_term]
             b(target) == [s EXCEPT !.transferring = TRUE, !.transfer = t(target)]
  <2>1. PICK target \in quorum_set(s) \ {n}, e \in Faults :
          Step(n, transfer_round(b(target), n, e, caught_up(b(target), t(target))), {})
    BY <1>3 DEF TransferBegin
  <2>2. t(target) \in Transferring
    <3>1. target \in Node
      BY <1>1, Fields DEF quorum_set
    <3> QED
      BY <1>1, <3>1, Fields, LastIndex DEF Transferring
  <2> DEFINE q == b(target)
             c == caught_up(q, t(target))
             r == transfer_round(q, n, e, c)
  <2>3. c \in BOOLEAN
    BY DEF caught_up
  <2>4. Sound(s, q) /\ q.transfer \in Transferring /\ Only({"transferring", "transfer"}, s, q)
    <3> HIDE DEF t
    <3>1. t(target) \in Transfer
      BY <2>2 DEF Transfer
    <3>2. Sound(s, q)
      BY <1>1, <3>1, TransferStep
    <3>3. q.transfer = t(target) /\ Only({"transferring", "transfer"}, s, q)
      BY <1>1 DEF RaftNodeRecord, Only, FieldNames
    <3> QED
      BY <2>2, <3>2, <3>3
  <2>5. Step(n, r, {})
    BY <2>1
  <2>6. s.state = "Leader" /\ used.transfers < MaxTransfers
    BY <1>3 DEF TransferBegin
  <2> HIDE DEF q, c
  <2>7. Sound(s, r) /\ Signals(n, s, r)
    <3>1. q \in RaftNodeRecord
      BY <2>4 DEF Sound
    <3> QED
      BY <1>1, <1>2, <2>3, <2>4, <2>6, <3>1
  <2> HIDE DEF r, s
  <2> QED
    BY <1>3, <2>5, <2>7, LocalEffect, ByEffect DEF TransferBegin, s
<1>4. CASE TransferResume(n)
  <2> DEFINE q == [s EXCEPT !.transferring = FALSE, !.transfer = NoTransfer]
  <2>1. s.transfer \in Transferring /\ s.transfer # NoTransfer
    <3>1. s.transfer \in Transfer /\ s.transfer.pc = "replicating"
      BY <1>1, <1>4, Fields DEF TransferResume
    <3> QED
      BY <3>1 DEF Transfer, NoTransfer
  <2>2. \/ Step(n, q, {})
        \/ s.state = "Leader"
           /\ \E c \in BOOLEAN, e \in Faults : Step(n, transfer_round(s, n, e, c), {})
    <3>1. caught_up(s, s.transfer) \in BOOLEAN
      BY DEF caught_up
    <3> QED
      BY <1>4, <3>1 DEF TransferResume
  <2>a. UNCHANGED chosen
    BY <1>4 DEF TransferResume
  <2> HIDE DEF s
  <2>3. Sound(s, q) /\ EndsTransfer(n, s, q)
    <3>1. Sound(s, q)
      BY <1>1, NoTransferType, TransferStep
    <3>2. Only({"transferring", "transfer"}, s, q) /\ q.out = s.out
      BY <1>1 DEF RaftNodeRecord, Only, FieldNames
    <3> HIDE DEF q
    <3>3. Only(Book \cup {"transfer"}, s, q)
      BY <3>2 DEF Only, Book
    <3> QED
      BY <2>1, <3>1, <3>2, <3>3 DEF EndsTransfer
  <2>4. ASSUME s.state = "Leader", NEW c \in BOOLEAN, NEW e \in Faults
        PROVE  LET r == transfer_round(s, n, e, c)
               IN  Sound(s, r) /\ Signals(n, s, r)
    BY <1>1, <1>2, <2>1, <2>4, KeepsRefl, OnlyWiden
  <2>5. PICK r : Sound(s, r) /\ Step(n, r, {}) /\ (EndsTransfer(n, s, r) \/ Signals(n, s, r))
    BY <2>2, <2>3, <2>4
  <2> QED
    BY <2>5, <2>a, LocalEffect, ByEffect DEF s
<1> QED
  BY <1>3, <1>4

\* Ending a transfer, stopping and starting the node.
LEMMA LifecycleEffect ==
    ASSUME TypeOK, NEW n \in Node, TransferFinish(n) \/ Shutdown(n) \/ Start(n)
    PROVE  EffectStep
<1> DEFINE s == node[n]
<1>1. s \in RaftNodeRecord
  BY DEF TypeOK
<1>a. UNCHANGED chosen
  BY DEF TransferFinish, Shutdown, Start
<1>2. CASE TransferFinish(n)
  <2> DEFINE d == become_follower(s, s.current_term)
             done == IF s.state = "Leader" THEN d ELSE s
             r == [done EXCEPT !.transferring = FALSE, !.transfer = NoTransfer]
  <2>2. Step(n, r, {})
    BY <1>2 DEF TransferFinish
  <2>3. Sound(s, done) /\ (done = s \/ StepsDown(n, s, done))
    BY <1>1, Fields, BecomeFollower, FollowerEffect, KeepsRefl
  <2>a. done.out = s.out
    <3>1. d.out = s.out
      BY <1>1, Fields, FollowerFrame DEF Only, FieldNames
    <3> QED
      BY <3>1
  <2> HIDE DEF done, s
  <2>4. /\ Sound(done, r) /\ Only({"transferring", "transfer"}, done, r) /\ r.out = done.out
        /\ r.state = done.state
    <3>1. done \in RaftNodeRecord
      BY <2>3 DEF Sound
    <3> QED
      BY <3>1, NoTransferType, TransferStep DEF RaftNodeRecord, Only, FieldNames
  <2> HIDE DEF r
  <2>5. Sound(s, r)
    BY <1>1, <2>3, <2>4, KeepsTrans
  <2>6. s.transfer # NoTransfer
    BY <1>2 DEF TransferFinish, NoTransfer, s
  <2>7. EndsTransfer(n, s, r)
    <3>1. CASE done = s
      <4>1. Only(Book \cup {"transfer"}, s, r)
        BY <2>4, <3>1 DEF Only, Book
      <4> QED
        BY <2>4, <2>6, <3>1, <4>1 DEF EndsTransfer
    <3>2. CASE done # s
      <4>1. /\ Only(Book \cup Role \cup {"transfer"}, s, r) /\ r.state = "Follower"
        BY <2>3, <2>4, <3>2 DEF StepsDown, Only, Book
      <4> QED
        BY <2>4, <2>6, <4>1, <2>a DEF EndsTransfer
    <3> QED
      BY <3>1, <3>2
  <2> QED
    BY <1>a, <2>2, <2>5, <2>7, LocalEffect, ByEffect DEF s
<1>3. CASE Shutdown(n)
  <2> DEFINE fs == IF s.state = "Leader" THEN [p \in Node |-> Untracked] ELSE s.follower_states
             r == [s EXCEPT !.running = FALSE, !.state = "Follower", !.leader_id = kNoLeader,
                            !.transferring = FALSE, !.follower_states = fs]
  <2>2. Step(n, r, {})
    BY <1>3 DEF Shutdown
  <2> HIDE DEF s
  <2>3. /\ fs \in [Node -> FollowerState]
        /\ kNoLeader \in RaftNodeId /\ "Follower" \in RaftNodeState
    BY <1>1, Fields, NewFollower DEF RaftNodeId, RaftNodeState
  <2> HIDE DEF fs
  <2>4. r \in RaftNodeRecord
    BY <1>1, <2>3, Update
  <2>5. /\ r.current_term = s.current_term /\ r.voted_for = s.voted_for
        /\ r.state = "Follower" /\ r.out = s.out
        /\ Only({"running", "state", "leader_id", "transferring", "follower_states"}, s, r)
    BY <1>1 DEF RaftNodeRecord, Only, FieldNames
  <2> HIDE DEF r
  <2>6. Sound(s, r)
    BY <1>1, <2>4, <2>5, Fields DEF Sound, Keeps
  <2>7. Only(Book \cup Role, s, r)
    BY <2>5 DEF Only, Book, Role
  <2>8. StepsDown(n, s, r)
    BY <2>5, <2>7 DEF StepsDown
  <2> QED
    BY <1>a, <2>2, <2>6, <2>8, LocalEffect, ByEffect DEF s
<1>4. CASE Start(n)
  <2> DEFINE r == [s EXCEPT !.running = TRUE, !.state = "Follower", !.leader_id = kNoLeader]
  <2>2. Step(n, r, {})
    BY <1>4 DEF Start
  <2> HIDE DEF s
  <2>3. kNoLeader \in RaftNodeId /\ "Follower" \in RaftNodeState
    BY DEF RaftNodeId, RaftNodeState
  <2>4. r \in RaftNodeRecord
    BY <1>1, <2>3, Update
  <2>5. /\ r.current_term = s.current_term /\ r.voted_for = s.voted_for
        /\ r.state = "Follower" /\ r.out = s.out
        /\ Only({"running", "state", "leader_id"}, s, r)
    BY <1>1 DEF RaftNodeRecord, Only, FieldNames
  <2> HIDE DEF r
  <2>6. Sound(s, r)
    BY <1>1, <2>4, <2>5, Fields DEF Sound, Keeps
  <2>7. Only(Book \cup Role, s, r)
    BY <2>5 DEF Only, Book, Role
  <2>8. StepsDown(n, s, r)
    BY <2>5, <2>7 DEF StepsDown
  <2> QED
    BY <1>a, <2>2, <2>6, <2>8, LocalEffect, ByEffect DEF s
<1> QED
  BY <1>2, <1>3, <1>4

\* Every step of the system is a restart or has one of the effects.
LEMMA NextEffect ==
    ASSUME TypeOK, Next
    PROVE  EffectStep \/ \E n \in Node : Restart(n)
<1>1. PICK n \in Node :
        \/ ElectionTimeout(n) \/ HeartbeatTick(n) \/ StepDown(n)
        \/ \E v \in UserCommand : propose(n, [type |-> "User", payload |-> v])
        \/ \E c \in ConfigChange : propose(n, c)
        \/ HandleRequestVote(n) \/ HandleAppendEntries(n)
        \/ HandleRequestVoteResponse(n) \/ HandleAppendEntriesResponse(n)
        \/ ApplyCommitted(n) \/ TransferBegin(n) \/ TransferResume(n) \/ TransferFinish(n)
        \/ Shutdown(n) \/ Start(n) \/ Restart(n)
  BY DEF Next
<1>2. \A v \in UserCommand : [type |-> "User", payload |-> v] \in ClientCommand
  BY DEF ClientCommand
<1>3. \A c \in ConfigChange : c \in ClientCommand
  BY DEF ClientCommand
<1> QED
  BY <1>1, <1>2, <1>3, ElectionTimeoutEffect, HeartbeatTickEffect, StepDownEffect,
     ProposeEffect, VoteMessagesEffect, AppendMessagesEffect, ApplyCommittedEffect,
     TransferEffect, LifecycleEffect

\* What a step of node n to the record r does to the variables.
LEMMA StepFrame ==
    ASSUME TypeOK, NEW n \in Node, NEW r \in RaftNodeRecord, NEW taken, Step(n, r, taken)
    PROVE  /\ node'[n] \in RaftNodeRecord /\ Only({"out"}, r, node'[n]) /\ node'[n].out = {}
           /\ \A p \in Node : p # n => node'[p] = node[p]
           /\ msgs' = (msgs \ taken) \cup r.out
           /\ votesCast \subseteq votesCast'
           /\ \A l : l \in leaders' <=>
                 l \in leaders \/ (r.state = "Leader" /\ l = [term |-> r.current_term, leader |-> n])
<1>1. node \in [Node -> RaftNodeRecord]
  BY DEF TypeOK
<1> DEFINE q == [r EXCEPT !.out = {}]
<1>2. q \in RaftNodeRecord /\ Only({"out"}, r, q) /\ q.out = {}
  <2>1. q \in RaftNodeRecord
    BY Update
  <2> QED
    BY <2>1 DEF RaftNodeRecord, Only, FieldNames
<1>3. node' = [node EXCEPT ![n] = q]
  BY DEF Step
<1> HIDE DEF q
<1>4. node'[n] = q /\ \A p \in Node : p # n => node'[p] = node[p]
  BY <1>1, <1>3
<1>5. \A l : l \in leaders' <=>
        l \in leaders \/ (r.state = "Leader" /\ l = [term |-> r.current_term, leader |-> n])
  BY DEF Step
<1> QED
  BY <1>2, <1>4, <1>5 DEF Step
===============================================================================
