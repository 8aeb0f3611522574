---------------------------- MODULE RaftLogProofs ----------------------------
(***************************************************************************)
(* Theorems about the logs of RaftNode: a leader only appends to its log,  *)
(* and, as long as no two nodes lead in one term, logs match.              *)
(***************************************************************************)
EXTENDS RaftStepLemmas

\* A step in which the role stays, is given up, is stood for or is won.
RoleStep(s, r) ==
    \/ r.state = s.state /\ r.current_term = s.current_term
    \/ r.state \in {"Follower", "PreCandidate"}
    \/ /\ s.members # {} /\ r.state = "Candidate"
       /\ r.current_term = s.current_term + 1
    \/ s.state = "Candidate" /\ r.state = "Leader" /\ r.current_term = s.current_term

\* A leader, or a candidate that becomes one, appends an entry of its term.
Extended(s, r) ==
    /\ s.state \in {"Candidate", "Leader"} /\ r.state = "Leader"
    /\ r.current_term = s.current_term
    /\ \E c \in Command : r.log = Append(s.log, [term |-> s.current_term, command |-> c])

\* A node that is not Leader puts the entries of m after prev_log_index, or drops what is
\* there.
Replaced(s, r, m) ==
    /\ m \in msgs /\ m \in AppendEntriesRequest /\ m.entries # <<>>
    /\ r.state # "Leader" /\ r.current_term >= m.term
    /\ m.prev_log_index <= Len(s.log) /\ log_matches(s, m)
    /\ \/ r.log = SubSeq(s.log, 1, m.prev_log_index) \o m.entries
       \/ r.log = SubSeq(s.log, 1, m.prev_log_index)

\* m carries entries.
Carries(m) == m.type = "AppendEntriesRequest" /\ m.entries # <<>>

LogStep(n, s, r) ==
    /\ RoleStep(s, r)
    /\ r.log = s.log \/ Extended(s, r) \/ \E m : Replaced(s, r, m)
    /\ \A m \in r.out : m \in s.out \/ ~Carries(m)
                        \/ (s.state = "Leader" /\ r.state = "Leader" /\ Replicates(m, n, s))
    /\ r.members = s.members \/ Len(s.log) > 0

\* Every effect is such a step.
LEMMA EffectOnLog ==
    ASSUME NEW n \in Node, NEW s \in RaftNodeRecord, NEW r, Sound(s, r), NEW taken,
           Effect(n, s, r, taken) \/ Applies(n, s, r)
    PROVE  LogStep(n, s, r)
<1>0. /\ r \in RaftNodeRecord /\ r.current_term >= s.current_term
      /\ s.current_term \in Nat /\ r.current_term \in Nat
  BY Fields DEF Sound, Keeps
<1>1. CASE Works(n, s, r)
  <2>1. /\ r.state = s.state /\ r.current_term = s.current_term /\ r.log = s.log
        /\ r.members = s.members
    BY <1>1 DEF Works, Only, FieldNames, Book
  <2> QED
    BY <1>1, <2>1 DEF LogStep, RoleStep, Works, Quiet, Carries
<1>2. CASE StepsDown(n, s, r)
  <2>1. r.log = s.log /\ r.members = s.members /\ r.state = "Follower"
    BY <1>2 DEF StepsDown, Only, FieldNames, Book, Role
  <2> QED
    BY <1>2, <2>1 DEF LogStep, RoleStep, StepsDown, Quiet, Carries
<1>3. CASE Probes(n, s, r)
  <2>1. r.log = s.log /\ r.members = s.members /\ r.state = "PreCandidate"
    BY <1>3 DEF Probes, Only, FieldNames, Book
  <2> QED
    BY <1>3, <2>1 DEF LogStep, RoleStep, Probes, VoteAsked, Carries
<1>4. CASE Campaigns(n, s, r)
  <2>1. r.log = s.log /\ r.members = s.members
    BY <1>4 DEF Campaigns, Only, FieldNames, Book, Role
  <2> QED
    BY <1>4, <2>1 DEF LogStep, RoleStep, Campaigns, VoteAsked, Carries
<1>5. CASE Proposes(n, s, r)
  <2>1. /\ r.state = s.state /\ r.current_term = s.current_term
        /\ r.members = s.members
    BY <1>5 DEF Proposes, Only, FieldNames, Book
  <2>2. Extended(s, r)
    BY <1>5, <2>1 DEF Proposes, Extended, Command
  <2> QED
    BY <1>5, <2>1, <2>2 DEF LogStep, RoleStep, Proposes
<1>6. CASE Signals(n, s, r)
  <2>1. /\ r.state = s.state /\ r.current_term = s.current_term /\ r.log = s.log
        /\ r.members = s.members
    BY <1>6 DEF Signals, Only, FieldNames, Book
  <2> QED
    BY <1>6, <2>1 DEF LogStep, RoleStep, Signals, Carries
<1>7. ASSUME NEW m \in RequestVoteRequest, AnswersProbe(n, s, r, m) PROVE LogStep(n, s, r)
  <2>1. /\ r.state = s.state /\ r.current_term = s.current_term /\ r.log = s.log
        /\ r.members = s.members
    BY <1>7 DEF AnswersProbe, Only, FieldNames, Book
  <2> QED
    BY <1>7, <2>1 DEF LogStep, RoleStep, AnswersProbe, Carries
<1>8. ASSUME NEW m \in RequestVoteRequest, Grants(n, s, r, m) PROVE LogStep(n, s, r)
  <2>1. r.log = s.log /\ r.members = s.members
    BY <1>8 DEF Grants, Adopts, Only, FieldNames, Book, Role
  <2>2. RoleStep(s, r)
    BY <1>8 DEF Grants, Adopts, RoleStep
  <2> QED
    BY <1>8, <2>1, <2>2 DEF LogStep, Grants, Granted, Carries
<1>9. ASSUME NEW m \in RequestVoteResponse, Counts(n, s, r, m) PROVE LogStep(n, s, r)
  <2>1. /\ r.state = s.state /\ r.current_term = s.current_term /\ r.log = s.log
        /\ r.members = s.members
    BY <1>9 DEF Counts, Only, FieldNames, Book
  <2> QED
    BY <1>9, <2>1 DEF LogStep, RoleStep, Counts
<1>10. ASSUME NEW m \in RequestVoteResponse, Elected(n, s, r, m) PROVE LogStep(n, s, r)
  <2>1. r.current_term = s.current_term /\ r.members = s.members
    BY <1>10 DEF Elected, Only, FieldNames, Book
  <2>2. Extended(s, r)
    BY <1>10, <2>1 DEF Elected, Extended, Command
  <2> QED
    BY <1>10, <2>1, <2>2 DEF LogStep, RoleStep, Elected, Carries
<1>11. ASSUME NEW m \in AppendEntriesRequest, Received(n, m, taken), Accepts(n, s, r, m)
       PROVE  LogStep(n, s, r)
  <2>1. r.members = s.members
    BY <1>11 DEF Accepts, Adopts, Only, FieldNames, Book, Role
  <2>2. RoleStep(s, r) /\ r.current_term >= m.term
    <3>1. m.term \in Nat
      BY DEF AppendEntriesRequest
    <3> QED
      BY <1>0, <1>11, <3>1 DEF Accepts, Adopts, RoleStep
  <2>3. Replaced(s, r, m)
    BY <1>11, <2>2 DEF Accepts, Replaced, Received
  <2> QED
    BY <1>11, <2>1, <2>2, <2>3 DEF LogStep, Accepts, Quiet, Carries
<1>12. CASE Applies(n, s, r)
  <2>1. r.current_term = s.current_term /\ r.log = s.log
    BY <1>12 DEF Applies, Only, FieldNames, Book
  <2>2. Len(s.log) > 0
    <3>1. s.last_applied \in Nat /\ s.last_applied < Len(s.log) /\ Len(s.log) \in Nat
      BY <1>12, Fields DEF Applies, applying, last_index
    <3> QED
      BY <3>1
  <2>3. RoleStep(s, r)
    BY <1>12, <2>1 DEF RoleStep, Applies, RoleKept
  <2> QED
    BY <1>12, <2>1, <2>2, <2>3 DEF LogStep, Applies
<1>13. CASE EndsTransfer(n, s, r)
  <2>1. /\ r.log = s.log /\ r.members = s.members
        /\ \/ r.state = s.state /\ r.current_term = s.current_term
           \/ r.state = "Follower"
    BY <1>13 DEF EndsTransfer, Only, FieldNames, Book, Role
  <2> QED
    BY <1>13, <2>1 DEF LogStep, RoleStep, EndsTransfer
<1> QED
  BY <1>1, <1>2, <1>3, <1>4, <1>5, <1>6, <1>7, <1>8, <1>9, <1>10, <1>11, <1>12, <1>13
     DEF Effect

\* A step of the system moves one node by a LogStep, or restarts it.
LEMMA NextOnLog ==
    ASSUME TypeOK, Next
    PROVE  \/ \E n \in Node : Restart(n)
           \/ \E n \in Node : \E r \in RaftNodeRecord : \E taken :
                 Sound(node[n], r) /\ Step(n, r, taken) /\ LogStep(n, node[n], r)
<1>1. ASSUME NEW n \in Node, NEW r, NEW taken, Sound(node[n], r),
             Effect(n, node[n], r, taken) \/ Applies(n, node[n], r)
      PROVE  r \in RaftNodeRecord /\ LogStep(n, node[n], r)
  BY <1>1, EffectOnLog DEF TypeOK, Sound
<1>2. ASSUME EffectStep
      PROVE  \E n \in Node : \E r \in RaftNodeRecord : \E taken :
                 Sound(node[n], r) /\ Step(n, r, taken) /\ LogStep(n, node[n], r)
  BY <1>1, <1>2 DEF EffectStep
<1> QED
  BY <1>2, NextEffect
-----------------------------------------------------------------------------
(* A leader only appends. *)

\* What Append leaves of a log.
LEMMA AppendKeeps ==
    ASSUME NEW S, NEW q \in Seq(S), NEW x \in S
    PROVE  /\ Append(q, x) \in Seq(S) /\ Len(Append(q, x)) = Len(q) + 1
           /\ Append(q, x)[Len(q) + 1] = x
           /\ \A i \in 1..Len(q) : Append(q, x)[i] = q[i]
           /\ SubSeq(Append(q, x), 1, Len(q)) = q
           /\ SubSeq(q, 1, Len(q)) = q
OBVIOUS

\* Restart: the new object is a follower with the old log.
LEMMA RestartFrame ==
    ASSUME TypeOK, NEW n \in Node, Restart(n)
    PROVE  /\ node'[n] = fresh(node[n].log)
           /\ \A p \in Node : p # n => node'[p] = node[p]
BY DEF TypeOK, Restart

\* LeaderAppendOnly, with crashes, disks that fail and any number of claimants to a term.
LEMMA LeaderAppends ==
    ASSUME TypeOK, [Next]_vars
    PROVE  \A n \in Node :
              node[n].state = "Leader" /\ node'[n].state = "Leader"
                 /\ node'[n].current_term = node[n].current_term
              => /\ Len(node'[n].log) >= Len(node[n].log)
                 /\ SubSeq(node'[n].log, 1, Len(node[n].log)) = node[n].log
<1> SUFFICES ASSUME NEW n \in Node, node[n].state = "Leader", node'[n].state = "Leader"
             PROVE  /\ Len(node'[n].log) >= Len(node[n].log)
                    /\ SubSeq(node'[n].log, 1, Len(node[n].log)) = node[n].log
  OBVIOUS
<1>1. node[n] \in RaftNodeRecord /\ node[n].log \in Seq(LogEntry) /\ Len(node[n].log) \in Nat
  BY Fields DEF TypeOK
<1>2. CASE node'[n].log = node[n].log
  BY <1>1, <1>2
<1>3. CASE UNCHANGED vars
  BY <1>2, <1>3 DEF vars
<1>4. ASSUME NEW p \in Node, Restart(p) PROVE node'[n].log = node[n].log
  <2>1. p # n
    <3>1. fresh(node[p].log).state = "Follower"
      BY DEF fresh
    <3>2. node'[p] = fresh(node[p].log)
      BY <1>4, RestartFrame
    <3> QED
      BY <3>1, <3>2
  <2> QED
    BY <1>4, <2>1, RestartFrame
<1>5. ASSUME NEW p \in Node, NEW r \in RaftNodeRecord, NEW taken,
             Step(p, r, taken), LogStep(p, node[p], r)
      PROVE  /\ Len(node'[n].log) >= Len(node[n].log)
             /\ SubSeq(node'[n].log, 1, Len(node[n].log)) = node[n].log
  <2>1. CASE p # n
    BY <1>2, <1>5, <2>1, StepFrame
  <2>2. CASE p = n
    <3>1. node'[n].log = r.log /\ node'[n].state = r.state
      BY <1>5, <2>2, StepFrame DEF Only, FieldNames
    <3>2. r.log = node[n].log \/ Extended(node[n], r)
      BY <1>5, <2>2, <3>1 DEF LogStep, Replaced
    <3>3. CASE Extended(node[n], r)
      <4>1. PICK c : r.log = Append(node[n].log, [term |-> node[n].current_term, command |-> c])
        BY <3>3 DEF Extended
      <4> DEFINE x == [term |-> node[n].current_term, command |-> c]
                 S == LogEntry \cup {x}
      <4>2. node[n].log \in Seq(S)
        BY <1>1
      <4> HIDE DEF x
      <4>3. Len(r.log) = Len(node[n].log) + 1 /\ SubSeq(r.log, 1, Len(node[n].log)) = node[n].log
        BY <4>1, <4>2, AppendKeeps DEF x
      <4> QED
        BY <1>1, <3>1, <4>3
    <3> QED
      BY <1>2, <3>1, <3>2, <3>3
  <2> QED
    BY <2>1, <2>2
<1>6. ASSUME Next
      PROVE  /\ Len(node'[n].log) >= Len(node[n].log)
             /\ SubSeq(node'[n].log, 1, Len(node[n].log)) = node[n].log
  <2>1. \/ \E p \in Node : Restart(p)
        \/ \E p \in Node : \E r \in RaftNodeRecord : \E taken :
             Sound(node[p], r) /\ Step(p, r, taken) /\ LogStep(p, node[p], r)
    BY <1>6, NextOnLog
  <2> QED
    BY <1>2, <1>4, <1>5, <2>1
<1> QED
  BY <1>3, <1>6

\* LeaderAppendOnly: for every cluster, crashes and failing disks included, no step of
\* any handler, timer or client makes a leader drop or rewrite an entry of its log.
THEOREM LeadersOnlyAppend == Spec => LeaderAppendOnly
<1>1. TypeOK /\ [Next]_vars =>
        [\A n \in Node :
            node[n].state = "Leader" /\ node'[n].state = "Leader"
               /\ node'[n].current_term = node[n].current_term
            => /\ Len(node'[n].log) >= Len(node[n].log)
               /\ SubSeq(node'[n].log, 1, Len(node[n].log)) = node[n].log]_vars
  BY LeaderAppends
<1> QED
  BY <1>1, TypeCorrect, PTL DEF Spec, LeaderAppendOnly
-----------------------------------------------------------------------------
(* Logs match.                                                             *)
(*                                                                         *)
(* Log Matching speaks of the logs of two nodes, but a node also takes     *)
(* entries from messages that were sent long ago by leaders whose logs     *)
(* have changed since.  The inductive invariant is therefore about a       *)
(* ledger L of logs: it holds the log of every node and, for every         *)
(* AppendEntries in flight, a log of which its entries are a piece; any    *)
(* two logs of the ledger match; and no log of it has an entry of a        *)
(* current leader's term beyond the end of the leader's log, so that the   *)
(* next entry of the leader is the only one of its term and index.         *)

\* The terms and roles of the nodes and the history of leaderships.
RolesInv ==
    /\ \A n \in Node :
          /\ node[n].out = {}
          /\ node[n].members # {} \/ Len(node[n].log) > 0 => node[n].current_term >= 1
          /\ node[n].state \in {"Candidate", "Leader"} => node[n].current_term >= 2
          /\ node[n].state = "Leader" =>
                [term |-> node[n].current_term, leader |-> n] \in leaders
          /\ node[n].state = "Candidate" =>
                [term |-> node[n].current_term, leader |-> n] \notin leaders
    /\ \A l \in leaders : l.term <= node[l.leader].current_term
    /\ \A m \in msgs : Carries(m) => m.term >= 1

\* Two logs that agree on the term of an index agree on every entry up to it.
Match(a, b) ==
    \A i \in 1..Len(a) :
        i <= Len(b) /\ a[i].term = b[i].term => \A j \in 1..i : a[j] = b[j]

Ledger(L) ==
    /\ \A n \in Node : node[n].log \in L
    /\ \A m \in msgs : Carries(m) => \E h \in L : SliceOf(m, h)
    /\ \A a, b \in L : Match(a, b)
    /\ \A h \in L : \A i \in 1..Len(h) :
          h[i].term = 1 \/ \E l \in leaders : l.term = h[i].term
    /\ \A n \in Node, h \in L : \A i \in 1..Len(h) :
          node[n].state = "Leader" /\ h[i].term = node[n].current_term => i <= Len(node[n].log)

LogInv == RolesInv /\ \E L \in SUBSET Seq(LogEntry) : Ledger(L)

\* Init: one seed entry, or nothing, in every log.
LEMMA InitLogInv == Init => LogInv
<1> SUFFICES ASSUME Init PROVE LogInv
  OBVIOUS
<1> DEFINE s0 == fresh(<<>>)
           s1 == [fresh(<<seed>>) EXCEPT
                    !.current_term = 1, !.commit_index = 1, !.last_applied = 1,
                    !.members = InitialMembers]
<1>1. \A n \in Node : node[n] = s0 \/ node[n] = s1
  BY DEF Init
<1>2. /\ s0.out = {} /\ s0.members = {} /\ s0.log = <<>> /\ s0.state = "Follower"
      /\ s1.out = {} /\ s1.current_term = 1 /\ s1.log = <<seed>> /\ s1.state = "Follower"
  BY DEF fresh
<1> HIDE DEF s0, s1
<1>3. msgs = {} /\ leaders = {}
  BY DEF Init
<1>4. RolesInv
  <2>1. Len(<<>>) = 0
    OBVIOUS
  <2> QED
    BY <1>1, <1>2, <1>3, <2>1 DEF RolesInv
<1>5. TypeOK
  BY InitType
<1> DEFINE L == {<<>>, <<seed>>}
<1>6. seed \in LogEntry /\ seed.term = 1
  BY NodeAssumption DEF seed, LogEntry, RaftCommand, ConfigChangeCommand
<1>7. L \in SUBSET Seq(LogEntry)
  BY <1>6
<1>8. \A a, b \in L : Match(a, b)
  BY DEF Match
<1>9. \A h \in L : \A i \in 1..Len(h) : h[i].term = 1
  BY <1>6
<1>10. Ledger(L)
  <2> HIDE DEF L
  <2>1. \A n \in Node : node[n].log \in L /\ node[n].state # "Leader"
    BY <1>1, <1>2 DEF L
  <2> QED
    BY <1>3, <1>8, <1>9, <2>1 DEF Ledger
<1> HIDE DEF L
<1> QED
  BY <1>4, <1>7, <1>10 DEF LogInv

\* Roles and terms, step by step.
LEMMA StepRoles ==
    ASSUME TypeOK, RolesInv, NEW n \in Node, NEW r \in RaftNodeRecord, NEW taken,
           Sound(node[n], r), Step(n, r, taken), LogStep(n, node[n], r)
    PROVE  RolesInv'
<1> DEFINE s == node[n]
           won == [term |-> r.current_term, leader |-> n]
<1>1. /\ Only({"out"}, r, node'[n]) /\ node'[n].out = {}
      /\ \A p \in Node : p # n => node'[p] = node[p]
      /\ msgs' = (msgs \ taken) \cup r.out
      /\ \A l : l \in leaders' <=> l \in leaders \/ (r.state = "Leader" /\ l = won)
  BY StepFrame
<1>2. /\ node'[n].state = r.state /\ node'[n].current_term = r.current_term
      /\ node'[n].log = r.log /\ node'[n].members = r.members
  BY <1>1 DEF Only, FieldNames
<1>3. /\ s \in RaftNodeRecord /\ s.current_term \in Nat /\ r.current_term \in Nat
      /\ r.current_term >= s.current_term
      /\ s.log \in Seq(LogEntry) /\ r.log \in Seq(LogEntry)
  BY Fields DEF TypeOK, Sound, Keeps
<1>4. RoleStep(s, r)
  BY DEF LogStep
<1>a. /\ s.out = {}
      /\ s.members # {} \/ Len(s.log) > 0 => s.current_term >= 1
      /\ s.state \in {"Candidate", "Leader"} => s.current_term >= 2
      /\ s.state = "Leader" => [term |-> s.current_term, leader |-> n] \in leaders
      /\ s.state = "Candidate" => [term |-> s.current_term, leader |-> n] \notin leaders
      /\ \A l \in leaders : l.leader = n => l.term <= s.current_term
  BY DEF RolesInv
<1> HIDE DEF s, won
<1>5. r.state \in {"Candidate", "Leader"} => r.current_term >= 2
  BY <1>3, <1>4, <1>a DEF RoleStep
<1>6. r.members # {} \/ Len(r.log) > 0 => r.current_term >= 1
  <2>1. CASE r.log = s.log
    BY <1>3, <1>a, <2>1 DEF LogStep, s
  <2>2. CASE Extended(s, r)
    BY <1>3, <1>5, <2>2 DEF Extended
  <2>3. ASSUME NEW m, Replaced(s, r, m) PROVE r.current_term >= 1
    <3>1. m.term >= 1 /\ m.term \in Nat
      BY <2>3 DEF Replaced, RolesInv, Carries, AppendEntriesRequest
    <3> QED
      BY <1>3, <2>3, <3>1 DEF Replaced
  <2> QED
    BY <2>1, <2>2, <2>3 DEF LogStep, s
<1>7. r.state = "Leader" => won \in leaders'
  BY <1>1
<1>8. r.state = "Candidate" => won \notin leaders'
  <2> SUFFICES ASSUME r.state = "Candidate", won \in leaders PROVE FALSE
    BY <1>1
  <2>1. won.leader = n /\ won.term = r.current_term
    BY DEF won
  <2>2. r.current_term <= s.current_term
    BY <1>a, <2>1
  <2> QED
    BY <1>3, <1>4, <1>a, <2>2 DEF RoleStep, won
<1>9. \A l \in leaders' : l.term <= node'[l.leader].current_term
  <2> SUFFICES ASSUME NEW l \in leaders' PROVE l.term <= node'[l.leader].current_term
    OBVIOUS
  <2>1. CASE l = won
    BY <1>2, <1>3, <2>1 DEF won
  <2>2. CASE l \in leaders
    <3>1. l.leader \in Node /\ l.term \in Nat /\ l.term <= node[l.leader].current_term
      BY <2>2 DEF TypeOK, RolesInv
    <3>2. CASE l.leader = n
      BY <1>2, <1>3, <3>1, <3>2 DEF s
    <3>3. CASE l.leader # n
      BY <1>1, <3>1, <3>3
    <3> QED
      BY <3>2, <3>3
  <2> QED
    BY <1>1, <2>1, <2>2
<1>10. \A m \in msgs' : Carries(m) => m.term >= 1
  <2> SUFFICES ASSUME NEW m \in msgs', Carries(m) PROVE m.term >= 1
    OBVIOUS
  <2>1. CASE m \in msgs
    BY <2>1 DEF RolesInv
  <2>2. CASE m \in r.out
    <3>1. s.state = "Leader" /\ Replicates(m, n, s)
      BY <1>a, <2>2 DEF LogStep, s
    <3> QED
      BY <1>3, <1>a, <3>1 DEF Replicates
  <2> QED
    BY <1>1, <2>1, <2>2
<1>11. ASSUME NEW p \in Node
       PROVE  /\ node'[p].out = {}
              /\ node'[p].members # {} \/ Len(node'[p].log) > 0 => node'[p].current_term >= 1
              /\ node'[p].state \in {"Candidate", "Leader"} => node'[p].current_term >= 2
              /\ node'[p].state = "Leader" =>
                    [term |-> node'[p].current_term, leader |-> p] \in leaders'
              /\ node'[p].state = "Candidate" =>
                    [term |-> node'[p].current_term, leader |-> p] \notin leaders'
  <2>1. CASE p = n
    BY <1>1, <1>2, <1>5, <1>6, <1>7, <1>8, <2>1 DEF won
  <2>2. CASE p # n
    <3>1. node'[p] = node[p]
      BY <1>1, <2>2
    <3>2. [term |-> node[p].current_term, leader |-> p] # won
      BY <2>2 DEF won
    <3> QED
      BY <1>1, <3>1, <3>2 DEF RolesInv
  <2> QED
    BY <2>1, <2>2
<1> QED
  BY <1>9, <1>10, <1>11 DEF RolesInv

\* A prefix matches whatever the whole log matches.
LEMMA PrefixMatches ==
    ASSUME NEW a \in Seq(LogEntry), NEW b \in Seq(LogEntry), NEW q \in Seq(LogEntry),
           Match(a, b), Match(b, a), Len(q) <= Len(a), \A j \in 1..Len(q) : q[j] = a[j]
    PROVE  Match(q, b) /\ Match(b, q)
<1>1. Match(q, b)
  <2> SUFFICES ASSUME NEW i \in 1..Len(q), i <= Len(b), q[i].term = b[i].term, NEW j \in 1..i
               PROVE  q[j] = b[j]
    BY DEF Match
  <2>1. i \in 1..Len(a) /\ q[i] = a[i] /\ j \in 1..Len(q)
    OBVIOUS
  <2>2. a[j] = b[j]
    BY <2>1 DEF Match
  <2> QED
    BY <2>1, <2>2
<1>2. Match(b, q)
  <2> SUFFICES ASSUME NEW i \in 1..Len(b), i <= Len(q), b[i].term = q[i].term, NEW j \in 1..i
               PROVE  b[j] = q[j]
    BY DEF Match
  <2>1. i \in 1..Len(q) /\ i <= Len(a) /\ q[i] = a[i] /\ j \in 1..Len(q)
    OBVIOUS
  <2>2. b[j] = a[j]
    BY <2>1 DEF Match
  <2> QED
    BY <2>1, <2>2
<1> QED
  BY <1>1, <1>2

\* An entry that is the only one of its term and index does not break a match.
LEMMA AppendMatches ==
    ASSUME NEW a \in Seq(LogEntry), NEW b \in Seq(LogEntry), NEW x \in LogEntry,
           Match(a, b), Match(b, a),
           \A i \in 1..Len(b) : b[i].term = x.term => i <= Len(a)
    PROVE  Match(Append(a, x), b) /\ Match(b, Append(a, x))
<1> DEFINE q == Append(a, x)
<1>1. /\ q \in Seq(LogEntry) /\ Len(q) = Len(a) + 1 /\ q[Len(a) + 1] = x
      /\ \A i \in 1..Len(a) : q[i] = a[i]
  BY AppendKeeps
<1> HIDE DEF q
<1>2. Match(q, b)
  <2> SUFFICES ASSUME NEW i \in 1..Len(q), i <= Len(b), q[i].term = b[i].term, NEW j \in 1..i
               PROVE  q[j] = b[j]
    BY DEF Match
  <2>1. i <= Len(a)
    BY <1>1
  <2> QED
    BY <1>1, <2>1 DEF Match
<1>3. Match(b, q)
  <2> SUFFICES ASSUME NEW i \in 1..Len(b), i <= Len(q), q[i].term = b[i].term, NEW j \in 1..i
               PROVE  q[j] = b[j]
    BY DEF Match
  <2>1. i <= Len(a)
    BY <1>1
  <2> QED
    BY <1>1, <2>1 DEF Match
<1> QED
  BY <1>2, <1>3 DEF q

\* The elements of a concatenation.
LEMMA ConcatElements ==
    ASSUME NEW S, NEW a \in Seq(S), NEW b \in Seq(S)
    PROVE  /\ Len(a \o b) = Len(a) + Len(b)
           /\ \A j \in 1..(Len(a) + Len(b)) :
                 (a \o b)[j] = IF j <= Len(a) THEN a[j] ELSE b[j - Len(a)]
OBVIOUS

\* What a node has after it took the entries of m is a prefix of the log that m is a
\* piece of, or of its own: the check at prev_log_index is what makes it so.
LEMMA ReplacedIsPrefix ==
    ASSUME NEW s \in RaftNodeRecord, NEW r \in RaftNodeRecord, NEW m, Replaced(s, r, m),
           NEW h \in Seq(LogEntry), SliceOf(m, h), Match(s.log, h)
    PROVE  \E a \in {h, s.log} :
              Len(r.log) <= Len(a) /\ \A j \in 1..Len(r.log) : r.log[j] = a[j]
<1> DEFINE prev == m.prev_log_index
           kept == SubSeq(s.log, 1, prev)
<1>1. /\ s.log \in Seq(LogEntry) /\ prev \in Nat /\ m.entries \in Seq(LogEntry)
      /\ prev <= Len(s.log) /\ m.entries # <<>>
  BY Fields DEF Replaced, AppendEntriesRequest
<1>2. /\ kept \in Seq(LogEntry) /\ Len(kept) = prev
      /\ \A j \in 1..prev : kept[j] = s.log[j]
  BY <1>1
<1> HIDE DEF kept
<1>3. CASE r.log = kept
  BY <1>1, <1>2, <1>3
<1>4. CASE r.log = kept \o m.entries
  <2>1. /\ prev + Len(m.entries) <= Len(h)
        /\ prev > 0 => m.prev_log_term = h[prev].term
        /\ \A i \in 1..Len(m.entries) : m.entries[i] = h[prev + i]
    BY <1>1 DEF SliceOf
  <2>2. prev > 0 => s.log[prev].term = m.prev_log_term
    BY <1>1 DEF Replaced, log_matches, term_at, last_index
  <2>3. \A j \in 1..prev : s.log[j] = h[j]
    <3>1. CASE prev = 0
      BY <1>1, <3>1
    <3>2. CASE prev > 0
      <4>1. prev \in 1..Len(s.log) /\ prev <= Len(h) /\ s.log[prev].term = h[prev].term
        BY <1>1, <2>1, <2>2, <3>2
      <4> QED
        BY <4>1 DEF Match
    <3> QED
      BY <1>1, <3>1, <3>2
  <2>4. /\ Len(r.log) = prev + Len(m.entries)
        /\ \A j \in 1..Len(r.log) :
              r.log[j] = IF j <= prev THEN kept[j] ELSE m.entries[j - prev]
    <3>1. /\ Len(kept \o m.entries) = prev + Len(m.entries)
          /\ \A j \in 1..(prev + Len(m.entries)) :
                (kept \o m.entries)[j] = IF j <= prev THEN kept[j] ELSE m.entries[j - prev]
      <4> HIDE DEF prev
      <4> QED
        BY <1>1, <1>2, ConcatElements
    <3> QED
      BY <1>4, <3>1
  <2>5. ASSUME NEW j \in 1..Len(r.log) PROVE r.log[j] = h[j]
    <3>1. CASE j <= prev
      BY <1>1, <1>2, <2>3, <2>4, <3>1
    <3>2. CASE j > prev
      <4>1. j - prev \in 1..Len(m.entries) /\ prev + (j - prev) = j /\ ~(j <= prev)
        BY <1>1, <2>4, <3>2
      <4> QED
        BY <1>1, <2>1, <2>4, <2>5, <3>2, <4>1
    <3> QED
      BY <1>1, <3>1, <3>2
  <2> QED
    BY <2>1, <2>4, <2>5
<1> QED
  BY <1>3, <1>4 DEF Replaced, kept

\* The ledger after a step: the new log of the node is added to it.
LEMMA StepLedger ==
    ASSUME TypeOK, RolesInv, RolesInv', ElectionSafety',
           NEW L \in SUBSET Seq(LogEntry), Ledger(L),
           NEW n \in Node, NEW r \in RaftNodeRecord, NEW taken,
           Sound(node[n], r), Step(n, r, taken), LogStep(n, node[n], r)
    PROVE  Ledger(L \cup {r.log})'
<1> DEFINE s == node[n]
           won == [term |-> r.current_term, leader |-> n]
           M == L \cup {r.log}
<1>1. /\ Only({"out"}, r, node'[n])
      /\ \A p \in Node : p # n => node'[p] = node[p]
      /\ msgs' = (msgs \ taken) \cup r.out
      /\ \A l : l \in leaders' <=> l \in leaders \/ (r.state = "Leader" /\ l = won)
  BY StepFrame
<1>2. /\ node'[n].state = r.state /\ node'[n].current_term = r.current_term
      /\ node'[n].log = r.log
  BY <1>1 DEF Only, FieldNames
<1>3. /\ s \in RaftNodeRecord /\ s.current_term \in Nat /\ r.current_term \in Nat
      /\ s.log \in Seq(LogEntry) /\ r.log \in Seq(LogEntry) /\ s.out = {} /\ s.log \in L
  BY Fields DEF TypeOK, RolesInv, Ledger
<1>4. RoleStep(s, r)
  BY DEF LogStep
<1> HIDE DEF won
\* No log of the ledger has an entry of the leader's term beyond its end.
<1>5. ASSUME r.state = "Leader", NEW h \in L, NEW i \in 1..Len(h), h[i].term = r.current_term
      PROVE  i <= Len(s.log)
  <2>1. CASE s.state = "Leader"
    <3>1. s.current_term = r.current_term
      BY <1>4, <1>5, <2>1 DEF RoleStep
    <3> QED
      BY <1>5, <2>1, <3>1 DEF Ledger
  <2>2. CASE s.state # "Leader"
    <3>1. s.state = "Candidate" /\ s.current_term = r.current_term
      BY <1>4, <1>5, <2>2 DEF RoleStep
    <3>2. won \notin leaders /\ r.current_term >= 2
      BY <3>1 DEF RolesInv, won
    <3>3. PICK l \in leaders : l.term = r.current_term
      BY <1>3, <1>5, <3>2 DEF Ledger
    <3>4. won \in leaders' /\ l \in leaders' /\ won.term = r.current_term /\ won.leader = n
      BY <1>1, <1>5 DEF won
    <3>5. l.leader = n
      BY <3>3, <3>4 DEF ElectionSafety
    <3>6. l = won
      BY <3>3, <3>5 DEF TypeOK, won
    <3> QED
      BY <3>2, <3>6
  <2> QED
    BY <2>1, <2>2
<1>6. ASSUME NEW a \in L, Len(r.log) <= Len(a), \A j \in 1..Len(r.log) : r.log[j] = a[j]
      PROVE  /\ \A b \in M : Match(r.log, b) /\ Match(b, r.log)
             /\ \A i \in 1..Len(r.log) :
                   r.log[i].term = 1 \/ \E l \in leaders' : l.term = r.log[i].term
             /\ \A p \in Node : p # n => \A i \in 1..Len(r.log) :
                   node[p].state = "Leader" /\ r.log[i].term = node[p].current_term
                   => i <= Len(node[p].log)
  <2>1. a \in Seq(LogEntry)
    OBVIOUS
  <2>2. \A i \in 1..Len(r.log) : i \in 1..Len(a)
    BY <1>3, <1>6, <2>1
  <2>3. Match(r.log, r.log)
    BY DEF Match
  <2>4. \A b \in L : Match(r.log, b) /\ Match(b, r.log)
    BY <1>3, <1>6, <2>1, PrefixMatches DEF Ledger
  <2>5. \A i \in 1..Len(r.log) :
           r.log[i].term = 1 \/ \E l \in leaders' : l.term = r.log[i].term
    BY <1>1, <1>6, <2>2 DEF Ledger
  <2>6. \A p \in Node : \A i \in 1..Len(r.log) :
           node[p].state = "Leader" /\ r.log[i].term = node[p].current_term
           => i <= Len(node[p].log)
    BY <1>6, <2>2 DEF Ledger
  <2> QED
    BY <2>3, <2>4, <2>5, <2>6
<1>7. ASSUME Extended(s, r)
      PROVE  /\ \A b \in M : Match(r.log, b) /\ Match(b, r.log)
             /\ \A i \in 1..Len(r.log) :
                   r.log[i].term = 1 \/ \E l \in leaders' : l.term = r.log[i].term
             /\ \A p \in Node : p # n => \A i \in 1..Len(r.log) :
                   node[p].state = "Leader" /\ r.log[i].term = node[p].current_term
                   => i <= Len(node[p].log)
             /\ Len(r.log) >= Len(s.log)
  <2>1. PICK c : r.log = Append(s.log, [term |-> s.current_term, command |-> c])
    BY <1>7 DEF Extended
  <2> DEFINE x == [term |-> s.current_term, command |-> c]
  <2>2. x.term = r.current_term /\ r.state = "Leader"
    BY <1>7 DEF Extended
  <2>3. /\ Len(r.log) = Len(s.log) + 1 /\ r.log[Len(s.log) + 1] = x /\ x \in LogEntry
        /\ \A i \in 1..Len(s.log) : r.log[i] = s.log[i]
    <3> HIDE DEF x
    <3>1. r.log = Append(s.log, x) /\ s.log \in Seq(LogEntry \cup {x})
      BY <1>3, <2>1 DEF x
    <3>2. /\ Len(r.log) = Len(s.log) + 1 /\ r.log[Len(s.log) + 1] = x
          /\ \A i \in 1..Len(s.log) : r.log[i] = s.log[i]
      BY <3>1, AppendKeeps
    <3>3. x \in LogEntry
      BY <1>3, <3>2
    <3> QED
      BY <3>2, <3>3
  <2>a. r.log = Append(s.log, x)
    BY <2>1
  <2> HIDE DEF x
  <2>4. Match(r.log, r.log)
    BY DEF Match
  <2>5. \A b \in L : Match(r.log, b) /\ Match(b, r.log)
    <3> SUFFICES ASSUME NEW b \in L PROVE Match(r.log, b) /\ Match(b, r.log)
      OBVIOUS
    <3>1. \A i \in 1..Len(b) : b[i].term = x.term => i <= Len(s.log)
      BY <1>5, <2>2
    <3>2. Match(s.log, b) /\ Match(b, s.log)
      BY <1>3 DEF Ledger
    <3> QED
      BY <1>3, <2>3, <2>a, <3>1, <3>2, AppendMatches
  <2>6. ASSUME NEW i \in 1..Len(r.log)
        PROVE  r.log[i].term = 1 \/ \E l \in leaders' : l.term = r.log[i].term
    <3>1. CASE i \in 1..Len(s.log)
      BY <1>1, <1>3, <2>3, <3>1 DEF Ledger
    <3>2. CASE i = Len(s.log) + 1
      <4>1. won \in leaders' /\ won.term = r.current_term
        BY <1>1, <2>2 DEF won
      <4> QED
        BY <2>2, <2>3, <3>2, <4>1
    <3> QED
      BY <1>3, <2>3, <3>1, <3>2
  <2>7. ASSUME NEW p \in Node, p # n, NEW i \in 1..Len(r.log),
               node[p].state = "Leader", r.log[i].term = node[p].current_term
        PROVE  i <= Len(node[p].log)
    <3>1. CASE i \in 1..Len(s.log)
      BY <1>3, <2>3, <2>7, <3>1 DEF Ledger
    <3>2. CASE i = Len(s.log) + 1
      <4> DEFINE o == [term |-> node[p].current_term, leader |-> p]
      <4>1. o \in leaders /\ o.term = r.current_term /\ o.leader = p
        BY <2>2, <2>3, <2>7, <3>2 DEF RolesInv
      <4> HIDE DEF o
      <4>2. won \in leaders' /\ o \in leaders' /\ won.term = r.current_term /\ won.leader = n
        BY <1>1, <2>2, <4>1 DEF won
      <4> QED
        BY <2>7, <4>1, <4>2 DEF ElectionSafety
    <3> QED
      BY <1>3, <2>3, <3>1, <3>2
  <2> QED
    BY <1>3, <2>3, <2>4, <2>5, <2>6, <2>7
<1>8. /\ \A b \in M : Match(r.log, b) /\ Match(b, r.log)
      /\ \A i \in 1..Len(r.log) :
            r.log[i].term = 1 \/ \E l \in leaders' : l.term = r.log[i].term
      /\ \A p \in Node : p # n => \A i \in 1..Len(r.log) :
            node[p].state = "Leader" /\ r.log[i].term = node[p].current_term
            => i <= Len(node[p].log)
      /\ r.state = "Leader" => Len(r.log) >= Len(s.log)
  <2>1. CASE r.log = s.log
    BY <1>3, <1>6, <2>1
  <2>2. CASE Extended(s, r)
    BY <1>7, <2>2
  <2>3. ASSUME NEW m, Replaced(s, r, m)
        PROVE  \E a \in L : Len(r.log) <= Len(a) /\ \A j \in 1..Len(r.log) : r.log[j] = a[j]
    <3>1. m \in msgs /\ Carries(m)
      BY <2>3 DEF Replaced, Carries, AppendEntriesRequest
    <3>2. PICK h \in L : SliceOf(m, h)
      BY <3>1 DEF Ledger
    <3>3. Match(s.log, h)
      BY <1>3 DEF Ledger
    <3>4. \E a \in {h, s.log} :
             Len(r.log) <= Len(a) /\ \A j \in 1..Len(r.log) : r.log[j] = a[j]
      BY <1>3, <2>3, <3>2, <3>3, ReplacedIsPrefix
    <3> QED
      BY <1>3, <3>4
  <2>4. ASSUME NEW m, Replaced(s, r, m) PROVE r.state # "Leader"
    BY <2>4 DEF Replaced
  <2>5. r.log = s.log \/ Extended(s, r) \/ \E m : Replaced(s, r, m)
    BY DEF LogStep
  <2> HIDE DEF M, s
  <2> QED
    BY <1>6, <2>1, <2>2, <2>3, <2>4, <2>5
<1>9. \A p \in Node : node'[p].log \in M
  BY <1>1, <1>2 DEF Ledger
<1>10. ASSUME NEW m \in msgs', Carries(m) PROVE \E h \in M : SliceOf(m, h)
  <2>1. CASE m \in msgs
    BY <1>10, <2>1 DEF Ledger
  <2>2. CASE m \in r.out
    <3>1. Replicates(m, n, s)
      BY <1>3, <1>10, <2>2 DEF LogStep
    <3> QED
      BY <1>3, <3>1 DEF Replicates
  <2> QED
    BY <1>1, <2>1, <2>2
<1>11. \A a, b \in M : Match(a, b)
  BY <1>8 DEF Ledger
<1>12. \A h \in M : \A i \in 1..Len(h) :
          h[i].term = 1 \/ \E l \in leaders' : l.term = h[i].term
  BY <1>1, <1>8 DEF Ledger
<1>13. ASSUME NEW p \in Node, NEW h \in M, NEW i \in 1..Len(h), node'[p].state = "Leader",
              h[i].term = node'[p].current_term
       PROVE  i <= Len(node'[p].log)
  <2>1. CASE p # n
    <3>1. node'[p] = node[p]
      BY <1>1, <2>1
    <3> QED
      BY <1>8, <1>13, <2>1, <3>1 DEF Ledger
  <2>2. CASE p = n
    <3>1. r.state = "Leader" /\ h[i].term = r.current_term /\ Len(r.log) >= Len(s.log)
      BY <1>2, <1>8, <1>13, <2>2
    <3>2. CASE h = r.log
      BY <1>2, <1>3, <2>2, <3>2
    <3>3. CASE h \in L
      <4>1. i <= Len(s.log)
        BY <1>5, <3>1, <3>3
      <4>2. Len(s.log) \in Nat /\ Len(r.log) \in Nat /\ i \in Int
        BY <1>3
      <4> QED
        BY <1>2, <2>2, <3>1, <4>1, <4>2
    <3> QED
      BY <3>2, <3>3
  <2> QED
    BY <2>1, <2>2
<1> HIDE DEF M
<1>14. Ledger(M)'
  BY <1>9, <1>10, <1>11, <1>12, <1>13 DEF Ledger
<1> QED
  BY <1>14 DEF M

\* LogInv is inductive in a system that keeps to one leader per term.
LEMMA NextLogInv ==
    ASSUME MaxRestarts = 0
    PROVE  TypeOK /\ LogInv /\ ElectionSafety' /\ [Next]_vars => LogInv'
<1> SUFFICES ASSUME TypeOK, LogInv, ElectionSafety', [Next]_vars PROVE LogInv'
  OBVIOUS
<1>1. CASE UNCHANGED vars
  <2>1. RolesInv'
    BY <1>1 DEF vars, LogInv, RolesInv
  <2>2. \A L : Ledger(L) => Ledger(L)'
    BY <1>1 DEF vars, Ledger
  <2> QED
    BY <2>1, <2>2 DEF LogInv
<1>2. ASSUME NEW n \in Node, Restart(n) PROVE FALSE
  BY <1>2 DEF Restart, TypeOK, Used
<1>3. ASSUME NEW n \in Node, NEW r \in RaftNodeRecord, NEW taken,
             Sound(node[n], r), Step(n, r, taken), LogStep(n, node[n], r)
      PROVE  LogInv'
  <2>1. RolesInv'
    BY <1>3, StepRoles DEF LogInv
  <2>2. PICK L \in SUBSET Seq(LogEntry) : Ledger(L)
    BY DEF LogInv
  <2>3. Ledger(L \cup {r.log})'
    BY <1>3, <2>1, <2>2, StepLedger DEF LogInv
  <2>4. L \cup {r.log} \in SUBSET Seq(LogEntry)
    BY Fields
  <2> QED
    BY <2>1, <2>3, <2>4 DEF LogInv
<1> QED
  BY <1>1, <1>2, <1>3, NextOnLog

\* The smaller of two lengths.
LEMMA MinOfTwo ==
    ASSUME NEW a \in Nat, NEW b \in Nat
    PROVE  Min({a, b}) \in Nat /\ Min({a, b}) <= a /\ Min({a, b}) <= b
<1>1. \E x \in {a, b} : \A y \in {a, b} : x <= y
  OBVIOUS
<1> QED
  BY <1>1 DEF Min

\* Logs that agree entry by entry have equal prefixes.
LEMMA EqualPrefixes ==
    ASSUME NEW S, NEW a \in Seq(S), NEW b \in Seq(S), NEW i \in Nat, i <= Len(a), i <= Len(b),
           \A j \in 1..i : a[j] = b[j]
    PROVE  SubSeq(a, 1, i) = SubSeq(b, 1, i)
OBVIOUS

\* What LogInv says of the nodes is LogMatching.
LEMMA LogInvMatches == TypeOK /\ LogInv => LogMatching
<1> SUFFICES ASSUME TypeOK, LogInv, NEW n \in Node, NEW p \in Node,
                    NEW i \in 1..Min({Len(node[n].log), Len(node[p].log)}),
                    node[n].log[i].term = node[p].log[i].term
             PROVE  SubSeq(node[n].log, 1, i) = SubSeq(node[p].log, 1, i)
  BY DEF LogMatching
<1> DEFINE a == node[n].log
           b == node[p].log
<1>1. a \in Seq(LogEntry) /\ b \in Seq(LogEntry)
  BY Fields DEF TypeOK
<1>2. Match(a, b)
  BY DEF LogInv, Ledger
<1> HIDE DEF a, b
<1>3. i \in 1..Len(a) /\ i <= Len(b) /\ i \in Nat
  <2>1. Len(a) \in Nat /\ Len(b) \in Nat
    BY <1>1
  <2>2. i \in 1..Min({Len(a), Len(b)})
    BY DEF a, b
  <2> QED
    BY <2>1, <2>2, MinOfTwo
<1>4. \A j \in 1..i : a[j] = b[j]
  BY <1>2, <1>3 DEF Match, a, b
<1>5. SubSeq(a, 1, i) = SubSeq(b, 1, i)
  BY <1>1, <1>3, <1>4, EqualPrefixes
<1> QED
  BY <1>5 DEF a, b

\* LogMatching: in every cluster, whatever its membership changes, transfers, duplicated and
\* lost messages, failing disks and late votes, logs that agree on the term of an index
\* agree up to it, as long as no node forgets its term in a crash and no two nodes lead in
\* one term.
THEOREM LogsMatch ==
    ASSUME MaxRestarts = 0
    PROVE  Spec /\ []ElectionSafety => []LogMatching
<1>1. Init => LogInv
  BY InitLogInv
<1>2. TypeOK /\ LogInv /\ ElectionSafety' /\ [Next]_vars => LogInv'
  BY NextLogInv
<1>3. TypeOK /\ LogInv => LogMatching
  BY LogInvMatches
<1> QED
  BY <1>1, <1>2, <1>3, TypeCorrect, PTL DEF Spec
===============================================================================
