-------------------------- MODULE RaftElectionProofs --------------------------
(***************************************************************************)
(* Election Safety of RaftNode, and what it hangs on.                      *)
(*                                                                         *)
(* handle_request_vote_response() adds one to votes_received_ for a reply  *)
(* that says yes, without asking who sent it, which round it answers or    *)
(* whether a pre-vote was asked for.  So Election Safety is no theorem of  *)
(* this code: run raft_two_leaders shows two leaders of one term.  What is *)
(* proved here is that such tallies, and votes that are lost in a crash,   *)
(* are the only way to two leaders: as long as no voter votes twice in a   *)
(* term and no leader has counted more votes than were cast for it, there  *)
(* is one leader per term, with pre-vote on or off and whatever is lost,   *)
(* late, duplicated, transferred, shut down, restarted or failing.         *)
(***************************************************************************)
EXTENDS RaftLogProofs

\* A cluster that is never reconfigured.
StaticCluster == InitialMembers = Node /\ ConfigChange = {}

\* The voters that have cast a vote for c in term t.
Voters(t, c) == {v \in Node : [voter |-> v, term |-> t, candidate |-> c] \in votesCast}

\* No leader has counted more votes than were cast for it in its term: what line 2288 of
\* raft_node.cpp takes for granted of every reply that it counts.
TalliesHonest ==
    \A n \in Node :
        node[n].state = "Leader" =>
            node[n].votes_received <= Cardinality(Voters(node[n].current_term, n))
-----------------------------------------------------------------------------
(* Every entry was proposed. *)

\* Every command in a log or on its way to one is the seed, a leader's NoOp or a
\* command of a client.
CommandsInv ==
    /\ \A n \in Node : \A i \in 1..Len(node[n].log) : node[n].log[i].command \in Command
    /\ \A m \in msgs : Carries(m) =>
          \A i \in 1..Len(m.entries) : m.entries[i].command \in Command

\* The logs and messages of a step hold no other commands than those before it.
LEMMA StepCommands ==
    ASSUME TypeOK, CommandsInv, NEW n \in Node, NEW r \in RaftNodeRecord, NEW taken,
           Step(n, r, taken), LogStep(n, node[n], r), node[n].out = {}
    PROVE  CommandsInv'
<1> DEFINE s == node[n]
<1>1. /\ node'[n].log = r.log /\ \A p \in Node : p # n => node'[p] = node[p]
      /\ msgs' = (msgs \ taken) \cup r.out
  BY StepFrame DEF Only, FieldNames
<1>2. /\ s \in RaftNodeRecord /\ s.log \in Seq(LogEntry) /\ s.current_term \in Nat
      /\ r.log \in Seq(LogEntry)
  BY Fields DEF TypeOK
<1>3. \A i \in 1..Len(s.log) : s.log[i].command \in Command
  BY DEF CommandsInv
<1>a. s.out = {}
  OBVIOUS
<1>b. LogStep(n, s, r)
  OBVIOUS
<1> HIDE DEF s
<1>4. \A i \in 1..Len(r.log) : r.log[i].command \in Command
  <2>1. CASE r.log = s.log
    BY <1>3, <2>1
  <2>2. CASE Extended(s, r)
    <3>1. PICK c \in Command :
            r.log = Append(s.log, [term |-> s.current_term, command |-> c])
      BY <2>2 DEF Extended
    <3> DEFINE x == [term |-> s.current_term, command |-> c]
               S == LogEntry \cup {x}
    <3>2. s.log \in Seq(S) /\ x.command = c /\ x \in S
      BY <1>2
    <3>a. r.log = Append(s.log, x)
      BY <3>1
    <3> HIDE DEF x, S
    <3>3. /\ Len(r.log) = Len(s.log) + 1 /\ r.log[Len(s.log) + 1] = x
          /\ \A i \in 1..Len(s.log) : r.log[i] = s.log[i]
      BY <3>a, <3>2, AppendKeeps
    <3> QED
      BY <1>2, <1>3, <3>1, <3>2, <3>3
  <2>3. ASSUME NEW m, Replaced(s, r, m)
        PROVE  \A i \in 1..Len(r.log) : r.log[i].command \in Command
    <3>1. /\ m \in AppendEntriesRequest /\ m.entries \in Seq(LogEntry)
          /\ m.prev_log_index \in Nat /\ m.prev_log_index <= Len(s.log)
      BY <2>3 DEF Replaced, AppendEntriesRequest
    <3>2. \A i \in 1..Len(m.entries) : m.entries[i].command \in Command
      BY <2>3, <3>1 DEF Replaced, CommandsInv, Carries, AppendEntriesRequest
    <3> DEFINE k == SubSeq(s.log, 1, m.prev_log_index)
    <3>3. k \in Seq(LogEntry) /\ Len(k) = m.prev_log_index
          /\ \A i \in 1..Len(k) : k[i] = s.log[i]
      BY <1>2, <3>1
    <3>b. r.log = k \/ r.log = k \o m.entries
      BY <2>3 DEF Replaced
    <3>4. \A i \in 1..Len(k) : k[i].command \in Command
      BY <1>2, <1>3, <3>1, <3>3
    <3>a. k \in Seq(LogEntry) /\ m.entries \in Seq(LogEntry)
      BY <3>1, <3>3
    <3> HIDE DEF k
    <3>5. CASE r.log = k
      BY <3>4, <3>5
    <3>6. CASE r.log = k \o m.entries
      <4>1. /\ Len(r.log) = Len(k) + Len(m.entries)
            /\ \A i \in 1..Len(r.log) :
                  r.log[i] = IF i <= Len(k) THEN k[i] ELSE m.entries[i - Len(k)]
        BY <3>a, <3>6, ConcatElements
      <4>2. Len(k) \in Nat /\ Len(m.entries) \in Nat
        BY <3>1, <3>3
      <4>3. \A i \in 1..(Len(k) + Len(m.entries)) :
               i \in 1..Len(k) \/ (~(i <= Len(k)) /\ i - Len(k) \in 1..Len(m.entries))
        BY <4>2
      <4>4. \A i \in 1..Len(k) : i <= Len(k)
        BY <4>2
      <4> QED
        BY <3>2, <3>4, <4>1, <4>3, <4>4
    <3> QED
      BY <3>b, <3>5, <3>6
  <2> QED
    BY <1>b, <2>1, <2>2, <2>3 DEF LogStep
<1>5. ASSUME NEW m \in msgs', Carries(m), NEW i \in 1..Len(m.entries)
      PROVE  m.entries[i].command \in Command
  <2>1. CASE m \in msgs
    BY <1>5, <2>1 DEF CommandsInv
  <2>2. CASE m \in r.out
    <3>1. SliceOf(m, s.log)
      BY <1>5, <1>a, <1>b, <2>2 DEF LogStep, Replicates
    <3>2. m \in AppendEntriesRequest
      BY <1>5, <2>2, Fields DEF Carries, Message, AppendEntriesRequest, AppendEntriesResponse,
         RequestVoteRequest, RequestVoteResponse
    <3>3. /\ m.entries[i] = s.log[m.prev_log_index + i]
          /\ m.prev_log_index + i \in 1..Len(s.log)
      BY <1>2, <1>5, <3>1, <3>2 DEF SliceOf, Carries, AppendEntriesRequest
    <3> QED
      BY <1>3, <3>3
  <2> QED
    BY <1>1, <2>1, <2>2
<1>6. \A p \in Node : \A i \in 1..Len(node'[p].log) : node'[p].log[i].command \in Command
  BY <1>1, <1>4 DEF CommandsInv
<1> QED
  BY <1>5, <1>6 DEF CommandsInv
-----------------------------------------------------------------------------
\* The logs hold proposed commands alone, and what a step sends has left the outbox.
SentCommands == CommandsInv /\ \A n \in Node : node[n].out = {}

\* SentCommands is inductive, crashes included: a crash leaves the log and the network alone.
LEMMA InitCommands == Init => SentCommands
<1> SUFFICES ASSUME Init PROVE SentCommands
  OBVIOUS
<1>1. msgs = {}
  BY DEF Init
<1>2. ASSUME NEW n \in Node
      PROVE  node[n].out = {} /\ (node[n].log = <<>> \/ node[n].log = <<seed>>)
  BY DEF Init, fresh
<1>3. seed.command \in Command
  BY DEF Command
<1> HIDE DEF seed
<1>4. \A n \in Node : \A i \in 1..Len(node[n].log) : node[n].log[i].command \in Command
  BY <1>2, <1>3
<1> QED
  BY <1>1, <1>2, <1>4 DEF SentCommands, CommandsInv

\* Every step keeps it.
LEMMA NextCommands == TypeOK /\ SentCommands /\ [Next]_vars => SentCommands'
<1> SUFFICES ASSUME TypeOK, SentCommands, [Next]_vars PROVE SentCommands'
  OBVIOUS
<1>1. CASE UNCHANGED vars
  BY <1>1 DEF vars, SentCommands, CommandsInv
<1>2. ASSUME NEW n \in Node, NEW r, NEW taken, Sound(node[n], r), Step(n, r, taken),
             LogStep(n, node[n], r)
      PROVE  SentCommands'
  <2>1. r \in RaftNodeRecord
    BY <1>2 DEF Sound
  <2>2. CommandsInv'
    BY <1>2, <2>1, StepCommands DEF SentCommands
  <2>3. node'[n].out = {} /\ \A p \in Node : p # n => node'[p] = node[p]
    BY <1>2, <2>1, StepFrame
  <2>4. \A p \in Node : node'[p].out = {}
    BY <2>3 DEF SentCommands
  <2> QED
    BY <2>2, <2>4 DEF SentCommands
<1>3. ASSUME NEW n \in Node, Restart(n) PROVE SentCommands'
  <2>1. /\ node' = [node EXCEPT ![n] = fresh(node[n].log)] /\ node \in [Node -> RaftNodeRecord]
        /\ msgs' = msgs
    BY <1>3 DEF Restart, TypeOK
  <2>2. node'[n] = fresh(node[n].log) /\ \A p \in Node : p # n => node'[p] = node[p]
    BY <2>1
  <2>3. node'[n].log = node[n].log /\ node'[n].out = {}
    BY <2>2 DEF fresh
  <2>4. \A p \in Node : node'[p].log = node[p].log /\ node'[p].out = {}
    BY <2>2, <2>3 DEF SentCommands
  <2> QED
    BY <2>1, <2>4 DEF SentCommands, CommandsInv
<1>4. Next => \/ \E n \in Node : Restart(n)
              \/ \E n \in Node : \E r, taken :
                    Sound(node[n], r) /\ Step(n, r, taken) /\ LogStep(n, node[n], r)
  BY NextOnLog
<1> QED
  BY <1>1, <1>2, <1>3, <1>4



\* Sets of nodes are finite, and a larger one has no fewer members.
LEMMA NodeSets ==
    ASSUME NEW S \in SUBSET Node
    PROVE  /\ IsFiniteSet(S) /\ Cardinality(S) \in Nat
           /\ \A T \in SUBSET S : Cardinality(T) <= Cardinality(S)
           /\ \A x \in S : Cardinality(S) >= 1
           /\ \A T \in SUBSET S : \A x \in S \ T : Cardinality(T) + 1 <= Cardinality(S)
<1>1. IsFiniteSet(S)
  BY NodeAssumption, FS_Subset
<1>2. Cardinality(S) \in Nat
  BY <1>1, FS_CardinalityType
<1>3. \A T \in SUBSET S : IsFiniteSet(T) /\ Cardinality(T) <= Cardinality(S)
  BY <1>1, FS_Subset
<1>4. ASSUME NEW T \in SUBSET S, NEW x \in S \ T
      PROVE  Cardinality(T) + 1 <= Cardinality(S)
  <2>1. T \cup {x} \in SUBSET S /\ IsFiniteSet(T)
    BY <1>3
  <2>2. Cardinality(T \cup {x}) = Cardinality(T) + 1
    BY <2>1, FS_AddElement
  <2>3. Cardinality(T \cup {x}) <= Cardinality(S)
    BY <1>3, <2>1
  <2> QED
    BY <2>2, <2>3
<1>5. ASSUME NEW x \in S PROVE Cardinality(S) >= 1
  <2>1. Cardinality({}) + 1 <= Cardinality(S)
    BY <1>4
  <2> QED
    BY <1>2, <2>1, FS_EmptySet
<1> QED
  BY <1>1, <1>2, <1>3, <1>4, <1>5

-----------------------------------------------------------------------------
(* The inductive invariant: a node's members are all nodes, or nobody     *)
(* before it has applied the seed; only a member campaigns; and a leader   *)
(* has counted a majority of all nodes.                                    *)

Seated(s) ==
    /\ s.joint_members = {} /\ s.members \in {{}, Node}
    /\ s.state \in {"Candidate", "Leader"} => s.members = Node
    /\ s.state = "Leader" => s.votes_received >= majority(Node)

\* A leader of any term so far was voted for by a majority.
ElectedByMajority ==
    \A l \in leaders : Cardinality(Voters(l.term, l.leader)) >= majority(Node)

\* The commands of a log without membership changes keep such a configuration.
LEMMA StaticConfiguration ==
    ASSUME StaticCluster, NEW c \in Command, NEW M \in {{}, Node}
    PROVE  Reconfigured([members |-> M, joint_members |-> {}], c) \in
              {[members |-> M, joint_members |-> {}], [members |-> Node, joint_members |-> {}]}
<1>1. CASE c = NoOpCommand
  BY <1>1 DEF NoOpCommand, Reconfigured
<1>2. CASE c = seed.command
  BY <1>2 DEF seed, Reconfigured, StaticCluster
<1>3. CASE c \in [type : {"User"}, payload : UserCommand]
  BY <1>3 DEF Reconfigured
<1> QED
  BY <1>1, <1>2, <1>3 DEF Command, ClientCommand, StaticCluster

\* Every effect keeps a node seated.
LEMMA EffectOnSeat ==
    ASSUME StaticCluster, TypeOK, SentCommands, NEW n \in Node, NEW r, NEW taken,
           Sound(node[n], r), Effect(n, node[n], r, taken) \/ Applies(n, node[n], r),
           Seated(node[n])
    PROVE  Seated(r)
<1> DEFINE s == node[n]
<1>0. s \in RaftNodeRecord /\ r \in RaftNodeRecord /\ Seated(s)
  BY DEF TypeOK, Sound
<1>b. \A i \in 1..Len(s.log) : s.log[i].command \in Command
  BY DEF SentCommands, CommandsInv
<1>e. Effect(n, s, r, taken) \/ Applies(n, s, r)
  OBVIOUS
<1> SUFFICES Seated(r)
  OBVIOUS
<1> HIDE DEF s
\* A node that keeps its configuration, role and tally, or becomes a follower.
<1>f. ASSUME r.members = s.members, r.joint_members = s.joint_members,
             \/ r.state = s.state /\ r.votes_received = s.votes_received
             \/ r.state \notin {"Candidate", "Leader"}
      PROVE  Seated(r)
  BY <1>0, <1>f DEF Seated
<1>1. CASE Works(n, s, r) \/ Proposes(n, s, r) \/ Signals(n, s, r)
  BY <1>1, <1>f DEF Works, Proposes, Signals, Only, FieldNames, Book
<1>2. CASE StepsDown(n, s, r)
  BY <1>2, <1>f DEF StepsDown, Only, FieldNames, Book, Role
<1>3. CASE Probes(n, s, r)
  BY <1>3, <1>f DEF Probes, Only, FieldNames, Book
<1>4. CASE Campaigns(n, s, r)
  BY <1>0, <1>4 DEF Campaigns, Only, FieldNames, Book, Role, Seated
<1>5. CASE EndsTransfer(n, s, r)
  BY <1>5, <1>f DEF EndsTransfer, Only, FieldNames, Book, Role
<1>6. ASSUME NEW m, AnswersProbe(n, s, r, m) PROVE Seated(r)
  BY <1>6, <1>f DEF AnswersProbe, Only, FieldNames, Book
<1>7. ASSUME NEW m, Grants(n, s, r, m) \/ Accepts(n, s, r, m) PROVE Seated(r)
  <2>1. PICK t : Adopts(s, r, t)
    BY <1>7 DEF Grants, Accepts
  <2>2. r.members = s.members /\ r.joint_members = s.joint_members
    BY <2>1 DEF Adopts, Only, FieldNames, Book, Role
  <2> QED
    BY <1>f, <2>1, <2>2 DEF Adopts
<1>8. ASSUME NEW m, Counts(n, s, r, m) PROVE Seated(r)
  BY <1>0, <1>8 DEF Counts, Only, FieldNames, Book, Seated
<1>9. ASSUME NEW m, Elected(n, s, r, m) PROVE Seated(r)
  <2>1. /\ r.members = s.members /\ r.joint_members = s.joint_members
        /\ r.state = "Leader" /\ s.state = "Candidate" /\ r.votes_received >= quorum_size(s)
    BY <1>9 DEF Elected, Only, FieldNames, Book
  <2>2. quorum_size(s) = majority(Node)
    BY <1>0, <2>1 DEF Seated, quorum_size, in_joint_consensus
  <2> QED
    BY <1>0, <2>1, <2>2 DEF Seated
<1>10. CASE Applies(n, s, r)
  <2>1. s.log[s.last_applied + 1].command \in Command
    <3>1. s.last_applied \in Nat /\ Len(s.log) \in Nat /\ s.last_applied < Len(s.log)
      BY <1>0, <1>10, Fields DEF Applies, applying, last_index
    <3>2. s.last_applied + 1 \in 1..Len(s.log)
      BY <3>1
    <3> QED
      BY <1>b, <3>2
  <2>2. Configuration(s) = [members |-> s.members, joint_members |-> {}]
    BY <1>0 DEF Seated, Configuration
  <2>3. Configuration(r) \in {[members |-> s.members, joint_members |-> {}],
                              [members |-> Node, joint_members |-> {}]}
    BY <1>0, <1>10, <2>1, <2>2, StaticConfiguration DEF Applies, Seated
  <2>4. r.joint_members = {} /\ (r.members = s.members \/ r.members = Node)
    BY <2>3 DEF Configuration
  <2> QED
    BY <1>0, <1>10, <2>4 DEF Seated, Applies, RoleKept
<1> QED
  BY <1>1, <1>2, <1>3, <1>4, <1>5, <1>6, <1>7, <1>8, <1>9, <1>10, <1>e DEF Effect

\* Init: the nodes are followers with the seeded members.
LEMMA InitSeated == StaticCluster /\ Init => \A n \in Node : Seated(node[n])
<1> SUFFICES ASSUME StaticCluster, Init, NEW n \in Node PROVE Seated(node[n])
  OBVIOUS
<1>1. node[n] = [fresh(<<seed>>) EXCEPT
                   !.current_term = 1, !.commit_index = 1, !.last_applied = 1,
                   !.members = InitialMembers]
  BY DEF Init, StaticCluster
<1> QED
  BY <1>1 DEF fresh, StaticCluster, Seated

\* Every step keeps the nodes seated, a crash included: it leaves a follower of no members.
LEMMA NextSeated ==
    ASSUME StaticCluster
    PROVE  TypeOK /\ SentCommands /\ (\A n \in Node : Seated(node[n])) /\ [Next]_vars =>
              \A n \in Node : Seated(node'[n])
<1> SUFFICES ASSUME TypeOK, SentCommands, \A n \in Node : Seated(node[n]), [Next]_vars
             PROVE  \A n \in Node : Seated(node'[n])
  OBVIOUS
<1>1. CASE UNCHANGED vars
  BY <1>1 DEF vars
<1>2. ASSUME NEW n \in Node, Restart(n) PROVE \A p \in Node : Seated(node'[p])
  <2>1. node' = [node EXCEPT ![n] = fresh(node[n].log)] /\ node \in [Node -> RaftNodeRecord]
    BY <1>2 DEF Restart, TypeOK
  <2>2. node'[n] = fresh(node[n].log) /\ \A p \in Node : p # n => node'[p] = node[p]
    BY <2>1
  <2>3. Seated(node'[n])
    BY <2>2 DEF fresh, Seated
  <2> QED
    BY <2>2, <2>3
<1>3. ASSUME NEW n \in Node, NEW r, NEW taken, Sound(node[n], r), Step(n, r, taken),
             Effect(n, node[n], r, taken) \/ Applies(n, node[n], r)
      PROVE  \A p \in Node : Seated(node'[p])
  <2>1. r \in RaftNodeRecord /\ Seated(r)
    BY <1>3, EffectOnSeat DEF Sound
  <2>2. Only({"out"}, r, node'[n]) /\ \A p \in Node : p # n => node'[p] = node[p]
    BY <1>3, <2>1, StepFrame
  <2>3. Seated(node'[n])
    BY <2>1, <2>2 DEF Seated, Only, FieldNames
  <2> QED
    BY <2>2, <2>3
<1>4. CASE EffectStep
  BY <1>3, <1>4 DEF EffectStep
<1> QED
  BY <1>1, <1>2, <1>4, NextEffect

\* Leaders are added one by one, and each by a majority if its tally is honest.
LEMMA NextElected ==
    TypeOK /\ ElectedByMajority /\ [Next]_vars /\ TalliesHonest' /\
    (\A n \in Node : Seated(node'[n])) => ElectedByMajority'
<1> SUFFICES ASSUME TypeOK, ElectedByMajority, [Next]_vars, TalliesHonest',
                    \A n \in Node : Seated(node'[n]), NEW l \in leaders'
             PROVE  Cardinality(Voters(l.term, l.leader)') >= majority(Node)
  BY DEF ElectedByMajority
<1>1. /\ votesCast \subseteq votesCast'
      /\ l \in leaders \/ \E n \in Node :
            node'[n].state = "Leader" /\ l = [term |-> node'[n].current_term, leader |-> n]
  <2>1. CASE UNCHANGED vars
    BY <2>1 DEF vars, history
  <2>2. ASSUME NEW n \in Node, Restart(n)
        PROVE  votesCast' = votesCast /\ leaders' = leaders
    BY <2>2 DEF Restart, history
  <2>3. ASSUME NEW n \in Node, NEW r, NEW taken, Sound(node[n], r), Step(n, r, taken)
        PROVE  /\ votesCast \subseteq votesCast'
               /\ l \in leaders \/ (node'[n].state = "Leader"
                                    /\ l = [term |-> node'[n].current_term, leader |-> n])
    <3>1. r \in RaftNodeRecord
      BY <2>3 DEF Sound
    <3>2. /\ Only({"out"}, r, node'[n]) /\ votesCast \subseteq votesCast'
          /\ l \in leaders \/ (r.state = "Leader" /\ l = [term |-> r.current_term, leader |-> n])
      BY <2>3, <3>1, StepFrame
    <3>3. node'[n].state = r.state /\ node'[n].current_term = r.current_term
      BY <3>2 DEF Only, FieldNames
    <3> QED
      BY <3>2, <3>3
  <2>4. CASE EffectStep
    BY <2>3, <2>4 DEF EffectStep
  <2> QED
    BY <2>1, <2>2, <2>4, NextEffect
<1> DEFINE V == Voters(l.term, l.leader)
           W == Voters(l.term, l.leader)'
<1>2. V \subseteq W /\ W \subseteq Node
  BY <1>1 DEF Voters
<1>3. /\ Cardinality(V) \in Nat /\ Cardinality(W) \in Nat /\ Cardinality(V) <= Cardinality(W)
      /\ Cardinality(Node) \in Nat
  <2> HIDE DEF V, W
  <2> QED
    BY <1>2, NodeSets
<1>4. CASE l \in leaders
  <2>1. Cardinality(V) >= majority(Node)
    BY <1>4 DEF ElectedByMajority
  <2> HIDE DEF V, W
  <2> QED
    BY <1>3, <2>1 DEF majority, W
<1>5. ASSUME NEW n \in Node, node'[n].state = "Leader",
             l = [term |-> node'[n].current_term, leader |-> n]
      PROVE  Cardinality(W) >= majority(Node)
  <2>1. node'[n].votes_received >= majority(Node)
    BY <1>5 DEF Seated
  <2>2. node'[n].votes_received <= Cardinality(W)
    BY <1>5 DEF TalliesHonest
  <2>3. node'[n].votes_received \in Nat
    <3>1. node' \in [Node -> RaftNodeRecord]
      BY NextType DEF TypeOK
    <3> QED
      BY <3>1, Fields
  <2> HIDE DEF V, W
  <2> QED
    BY <1>3, <2>1, <2>2, <2>3 DEF majority
<1> QED
  BY <1>1, <1>4, <1>5

\* Two majorities of one term share a voter, who has voted once.
LEMMA MajoritiesElectOne == TypeOK /\ ElectedByMajority /\ OneVotePerTerm => ElectionSafety
<1> SUFFICES ASSUME TypeOK, ElectedByMajority, OneVotePerTerm,
                    NEW l \in leaders, NEW k \in leaders, l.term = k.term
             PROVE  l.leader = k.leader
  BY DEF ElectionSafety
<1> DEFINE S == Voters(l.term, l.leader)
           T == Voters(k.term, k.leader)
<1>1. S \subseteq Node /\ T \subseteq Node /\ IsFiniteSet(Node)
  BY NodeAssumption DEF Voters
<1>2. Cardinality(S) >= majority(Node) /\ Cardinality(T) >= majority(Node)
  BY DEF ElectedByMajority
<1>3. Cardinality(S) \in Nat /\ Cardinality(T) \in Nat /\ Cardinality(Node) \in Nat
  BY <1>1, NodeSets
<1> HIDE DEF S, T
<1>4. Cardinality(S) + Cardinality(T) > Cardinality(Node)
  BY <1>2, <1>3 DEF majority
<1>5. S \cap T # {}
  BY <1>1, <1>4, FS_MajoritiesIntersect
<1>6. PICK v \in Node : /\ [voter |-> v, term |-> l.term, candidate |-> l.leader] \in votesCast
                        /\ [voter |-> v, term |-> k.term, candidate |-> k.leader] \in votesCast
  BY <1>5 DEF S, T, Voters
<1> QED
  BY <1>6 DEF OneVotePerTerm

\* In a cluster of fixed members no two nodes lead in the same term as long as no vote is
\* given twice and no leader has counted more votes than it was given: the quorum that
\* become_leader() asks for, the membership and the step-downs never let two through by
\* themselves, with pre-vote on or off, for any number of nodes, terms, late, duplicated
\* or lost messages, transfers, crashes, failing sends and disks.
THEOREM OneLeaderPerTerm ==
    ASSUME StaticCluster
    PROVE  Spec /\ []OneVotePerTerm /\ []TalliesHonest => []ElectionSafety
<1> DEFINE AllSeated == \A n \in Node : Seated(node[n])
<1>1. Spec => []SentCommands
  BY InitCommands, NextCommands, TypeCorrect, PTL DEF Spec
<1>2. Init => AllSeated
  BY InitSeated
<1>3. TypeOK /\ SentCommands /\ AllSeated /\ [Next]_vars => AllSeated'
  BY NextSeated
<1>4. Init => ElectedByMajority
  BY DEF Init, ElectedByMajority
<1>5. TypeOK /\ ElectedByMajority /\ [Next]_vars /\ TalliesHonest' /\ AllSeated'
      => ElectedByMajority'
  BY NextElected
<1>6. TypeOK /\ ElectedByMajority /\ OneVotePerTerm => ElectionSafety
  BY MajoritiesElectOne
<1> HIDE DEF AllSeated
<1> QED
  BY <1>1, <1>2, <1>3, <1>4, <1>5, <1>6, TypeCorrect, PTL DEF Spec

\* Without crashes no vote is given twice, and a leader's tally is all that is left to ask for.
THEOREM OneLeaderPerTermWithoutCrashes ==
    ASSUME StaticCluster, MaxRestarts = 0
    PROVE  Spec /\ []TalliesHonest => []ElectionSafety
<1>1. Spec => []OneVotePerTerm
  BY VotesAreUnique, PTL
<1> QED
  BY <1>1, OneLeaderPerTerm, PTL
===============================================================================
