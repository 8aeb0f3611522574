--------------------------- MODULE RaftConfigProofs ---------------------------
(***************************************************************************)
(* The configurations of RaftNode: nodes that have applied the same number *)
(* of entries are in the same configuration as long as they have applied   *)
(* the same entries, and follower_states_ follows the role and the         *)
(* configuration of its node.                                              *)
(***************************************************************************)
EXTENDS RaftElectionProofs
-----------------------------------------------------------------------------
(* The configuration is a function of the applied prefix.                  *)
(*                                                                         *)
(* The invariant names that function: cfg[i] is the configuration after    *)
(* entry i.  It is fixed for an index once some node has applied it, and   *)
(* nobody applies index i + 1 before somebody has applied index i, so that *)
(* it can always be continued by one index.                                *)

Config == [members : SUBSET Node, joint_members : SUBSET Node]
NoConfig == [members |-> {}, joint_members |-> {}]

\* Some node has applied index i.
Applied(i) == \E c \in chosen : c.index = i

History(cfg) ==
    /\ cfg[0] = NoConfig
    /\ \A n \in Node : Configuration(node[n]) = cfg[node[n].last_applied]
    /\ \A c \in chosen : cfg[c.index] = Reconfigured(cfg[c.index - 1], c.entry.command)
    /\ \A n \in Node : \A i \in 1..node[n].last_applied : Applied(i)
    /\ \A c \in chosen : \A i \in 1..c.index : Applied(i)

ConfigInv == \E cfg \in [Nat -> Config] : History(cfg)

\* Init: the seed is applied on the initial members, nothing elsewhere.
LEMMA InitConfig == Init => ConfigInv
<1> SUFFICES ASSUME Init PROVE ConfigInv
  OBVIOUS
<1> DEFINE s0 == fresh(<<>>)
           s1 == [fresh(<<seed>>) EXCEPT
                    !.current_term = 1, !.commit_index = 1, !.last_applied = 1,
                    !.members = InitialMembers]
           one == [members |-> InitialMembers, joint_members |-> {}]
           cfg == [i \in Nat |-> IF i = 0 THEN NoConfig ELSE one]
<1>1. \A n \in Node : node[n] = s0 \/ node[n] = s1
  BY DEF Init
<1>2. /\ Configuration(s0) = NoConfig /\ s0.last_applied = 0
      /\ Configuration(s1) = one /\ s1.last_applied = 1
  BY DEF fresh, Configuration, NoConfig
<1> HIDE DEF s0, s1
<1>3. \A c \in chosen : c.index = 1 /\ c.entry = seed
  BY DEF Init
<1>4. Applied(1)
  BY DEF Init, Applied
<1>5. Reconfigured(NoConfig, seed.command) = one
  BY DEF Reconfigured, NoConfig, seed
<1>6. NoConfig \in Config /\ one \in Config
  BY NodeAssumption DEF NoConfig, Config
<1> HIDE DEF one
<1>7. cfg \in [Nat -> Config] /\ cfg[0] = NoConfig /\ cfg[1] = one
  BY <1>6
<1> HIDE DEF cfg
<1>8. History(cfg)
  <2>1. \A n \in Node : Configuration(node[n]) = cfg[node[n].last_applied]
    BY <1>1, <1>2, <1>7
  <2>2. \A c \in chosen : cfg[c.index] = Reconfigured(cfg[c.index - 1], c.entry.command)
    BY <1>3, <1>5, <1>7
  <2>3. \A n \in Node : \A i \in 1..node[n].last_applied : Applied(i)
    BY <1>1, <1>2, <1>4
  <2>4. \A c \in chosen : \A i \in 1..c.index : Applied(i)
    BY <1>3, <1>4
  <2> QED
    BY <1>7, <2>1, <2>2, <2>3, <2>4 DEF History
<1> QED
  BY <1>7, <1>8 DEF ConfigInv

\* Only the apply loop moves the configuration and last_applied_.
LEMMA EffectKeepsConfig ==
    ASSUME NEW n \in Node, NEW s, NEW r, NEW taken, Effect(n, s, r, taken)
    PROVE  r.members = s.members /\ r.joint_members = s.joint_members
           /\ r.last_applied = s.last_applied
<1> DEFINE F == Book \cup Role \cup {"log", "transfer"}
<1>1. Only(F, s, r)
  BY DEF Effect, Works, StepsDown, Probes, Campaigns, Proposes, Signals, EndsTransfer,
     AnswersProbe, Grants, Counts, Elected, Accepts, Adopts, Only, Role
<1> QED
  BY <1>1 DEF Only, FieldNames, Book, Role

\* A command makes a configuration of a configuration.
LEMMA ReconfiguredType ==
    ASSUME NEW c \in Config, NEW cmd \in RaftCommand
    PROVE  Reconfigured(c, cmd) \in Config
<1>1. cmd.type = "ConfigChange" => cmd \in ConfigChangeCommand
  BY DEF RaftCommand, NoOpCommand
<1> QED
  BY <1>1 DEF Reconfigured, Config, ConfigChangeCommand

\* A step of the apply loop continues the function, or finds itself in it.
LEMMA ApplyConfig ==
    ASSUME TypeOK, NEW cfg \in [Nat -> Config], History(cfg), StateMachineSafety',
           NEW n \in Node, NEW r, NEW taken, Sound(node[n], r), Step(n, r, taken),
           Applies(n, node[n], r), NEW i, i = node[n].last_applied + 1,
           chosen' = chosen \cup {[index |-> i, entry |-> node[n].log[i]]}
    PROVE  ConfigInv'
<1> DEFINE s == node[n]
           e == s.log[i]
           d == [index |-> i, entry |-> e]
           g == Reconfigured(cfg[i - 1], e.command)
<1>1. /\ s \in RaftNodeRecord /\ r \in RaftNodeRecord
      /\ s.last_applied \in Nat /\ applying(s) /\ s.log \in Seq(LogEntry)
  BY Fields DEF TypeOK, Sound, Applies
<1>2. e \in LogEntry /\ i \in Nat \ {0} /\ i - 1 = s.last_applied
  BY <1>1 DEF applying, last_index
<1>3. /\ node'[n].last_applied = i /\ Configuration(node'[n]) = Configuration(r)
      /\ \A p \in Node : p # n => node'[p] = node[p]
  <2>1. Only({"out"}, r, node'[n]) /\ \A p \in Node : p # n => node'[p] = node[p]
    BY <1>1, StepFrame
  <2>2. /\ node'[n].last_applied = r.last_applied /\ node'[n].members = r.members
        /\ node'[n].joint_members = r.joint_members
    BY <2>1 DEF Only, FieldNames
  <2> QED
    BY <2>1, <2>2 DEF Applies, Configuration
<1>4. Configuration(r) = g
  <2>1. Configuration(s) = cfg[s.last_applied]
    BY DEF History
  <2>2. Configuration(r) = Reconfigured(Configuration(s), e.command)
    BY DEF Applies
  <2> QED
    BY <1>2, <2>1, <2>2
<1>5. g \in Config
  <2>1. e.command \in RaftCommand
    BY <1>2 DEF LogEntry
  <2>2. cfg[i - 1] \in Config
    BY <1>2
  <2> HIDE DEF e
  <2> QED
    BY <2>1, <2>2, ReconfiguredType
<1>6. chosen' = chosen \cup {d} /\ d.index = i /\ d.entry = e
  OBVIOUS
<1>7. \A c \in chosen : c.index \in Nat \ {0}
  BY DEF TypeOK
<1>8. \A p \in Node : node[p].last_applied \in Nat
  BY Fields DEF TypeOK
<1>9. \A j \in 1..s.last_applied : Applied(j)
  BY DEF History
<1>a. /\ cfg[0] = NoConfig
      /\ \A p \in Node : Configuration(node[p]) = cfg[node[p].last_applied]
      /\ \A c \in chosen : cfg[c.index] = Reconfigured(cfg[c.index - 1], c.entry.command)
      /\ \A p \in Node : \A j \in 1..node[p].last_applied : Applied(j)
      /\ \A c \in chosen : \A j \in 1..c.index : Applied(j)
  BY DEF History
<1> HIDE DEF s, e, g, d
<1>10. \A j : (Applied(j) => Applied(j)') /\ Applied(i)'
  BY <1>6 DEF Applied
<1>11. \A p \in Node : \A j \in 1..node'[p].last_applied : Applied(j)'
  <2> SUFFICES ASSUME NEW p \in Node, NEW j \in 1..node'[p].last_applied PROVE Applied(j)'
    OBVIOUS
  <2>1. CASE p = n
    <3>1. j \in 1..i
      BY <1>3, <2>1
    <3>2. j = i \/ j \in 1..s.last_applied
      BY <1>1, <1>2, <3>1
    <3> QED
      BY <1>9, <1>10, <3>2
  <2>2. CASE p # n
    <3>1. node'[p] = node[p]
      BY <1>3, <2>2
    <3> QED
      BY <1>10, <1>a, <3>1
  <2> QED
    BY <2>1, <2>2
<1>12. \A c \in chosen' : \A j \in 1..c.index : Applied(j)'
  <2> SUFFICES ASSUME NEW c \in chosen', NEW j \in 1..c.index PROVE Applied(j)'
    OBVIOUS
  <2>1. CASE c = d
    <3>1. j = i \/ j \in 1..s.last_applied
      BY <1>1, <1>2, <1>6, <2>1
    <3> QED
      BY <1>9, <1>10, <3>1
  <2>2. CASE c \in chosen
    BY <1>10, <1>a, <2>2
  <2> QED
    BY <1>6, <2>1, <2>2
\* Somebody has applied i before: it was the same entry.
<1>13. CASE Applied(i)
  <2>1. PICK c \in chosen : c.index = i
    BY <1>13 DEF Applied
  <2>2. c.entry = e
    BY <1>6, <2>1 DEF StateMachineSafety
  <2>3. cfg[i] = g
    BY <1>a, <2>1, <2>2 DEF g
  <2>4. \A p \in Node : Configuration(node'[p]) = cfg[node'[p].last_applied]
    BY <1>3, <1>4, <1>a, <2>3
  <2>5. \A k \in chosen' : cfg[k.index] = Reconfigured(cfg[k.index - 1], k.entry.command)
    BY <1>6, <1>a, <2>3 DEF g
  <2>6. History(cfg)'
    BY <1>11, <1>12, <1>a, <2>4, <2>5 DEF History, Configuration
  <2> QED
    BY <2>6 DEF ConfigInv
\* Nobody has: the function is continued.
<1>14. CASE ~Applied(i)
  <2>1. PICK h \in [Nat -> Config] : h[i] = g /\ \A j \in Nat : j # i => h[j] = cfg[j]
    <3> DEFINE h == [cfg EXCEPT ![i] = g]
    <3>1. h \in [Nat -> Config] /\ h[i] = g /\ \A j \in Nat : j # i => h[j] = cfg[j]
      BY <1>2, <1>5
    <3> QED
      BY <3>1
  <2>2. \A p \in Node : node[p].last_applied # i
    <3> SUFFICES ASSUME NEW p \in Node, node[p].last_applied = i PROVE FALSE
      OBVIOUS
    <3>1. i \in 1..node[p].last_applied
      BY <1>2
    <3> QED
      BY <1>14, <1>a, <3>1
  <2>3. \A c \in chosen : c.index # i /\ c.index - 1 # i
    <3> SUFFICES ASSUME NEW c \in chosen, c.index = i \/ c.index - 1 = i PROVE FALSE
      OBVIOUS
    <3>1. i \in 1..c.index
      BY <1>2, <1>7
    <3> QED
      BY <1>14, <1>a, <3>1
  <2>4. \A p \in Node : Configuration(node'[p]) = h[node'[p].last_applied]
    <3> SUFFICES ASSUME NEW p \in Node
                 PROVE  Configuration(node'[p]) = h[node'[p].last_applied]
      OBVIOUS
    <3>1. CASE p = n
      BY <1>3, <1>4, <2>1, <3>1
    <3>2. CASE p # n
      BY <1>3, <1>8, <1>a, <2>1, <2>2, <3>2
    <3> QED
      BY <3>1, <3>2
  <2>5. \A k \in chosen' : h[k.index] = Reconfigured(h[k.index - 1], k.entry.command)
    <3> SUFFICES ASSUME NEW k \in chosen'
                 PROVE  h[k.index] = Reconfigured(h[k.index - 1], k.entry.command)
      OBVIOUS
    <3>1. CASE k \in chosen
      <4>1. h[k.index] = cfg[k.index] /\ h[k.index - 1] = cfg[k.index - 1]
        BY <1>7, <2>1, <2>3, <3>1
      <4> QED
        BY <1>a, <3>1, <4>1
    <3>2. CASE k = d
      <4>1. h[i - 1] = cfg[i - 1]
        BY <1>2, <2>1
      <4> QED
        BY <1>6, <2>1, <3>2, <4>1 DEF g
    <3> QED
      BY <1>6, <3>1, <3>2
  <2>6. h[0] = NoConfig
    BY <1>2, <1>a, <2>1
  <2>7. History(h)'
    BY <1>11, <1>12, <2>4, <2>5, <2>6 DEF History, Configuration
  <2> QED
    BY <2>1, <2>7 DEF ConfigInv
<1> QED
  BY <1>13, <1>14

\* ConfigInv is inductive in a system whose state machines agree.
LEMMA NextConfig == TypeOK /\ ConfigInv /\ StateMachineSafety' /\ [Next]_vars => ConfigInv'
<1> SUFFICES ASSUME TypeOK, ConfigInv, StateMachineSafety', [Next]_vars PROVE ConfigInv'
  OBVIOUS
<1>1. PICK cfg \in [Nat -> Config] : History(cfg)
  BY DEF ConfigInv
\* A step that applies nothing.
<1>2. ASSUME UNCHANGED chosen,
             \A p \in Node :
                \/ /\ node'[p].members = node[p].members
                   /\ node'[p].joint_members = node[p].joint_members
                   /\ node'[p].last_applied = node[p].last_applied
                \/ /\ node'[p].members = {} /\ node'[p].joint_members = {}
                   /\ node'[p].last_applied = 0
      PROVE  ConfigInv'
  <2>1. \A i : Applied(i)' <=> Applied(i)
    BY <1>2 DEF Applied
  <2>2. \A p \in Node : Configuration(node'[p]) = cfg[node'[p].last_applied]
    BY <1>1, <1>2 DEF History, Configuration, NoConfig
  <2>3. \A p \in Node : \A i \in 1..node'[p].last_applied : Applied(i)'
    BY <1>1, <1>2, <2>1 DEF History
  <2>4. History(cfg)'
    BY <1>1, <1>2, <2>1, <2>2, <2>3 DEF History, Configuration
  <2> QED
    BY <2>4 DEF ConfigInv
<1>3. CASE UNCHANGED vars
  BY <1>2, <1>3 DEF vars
<1>4. ASSUME NEW n \in Node, Restart(n) PROVE ConfigInv'
  <2>1. node' = [node EXCEPT ![n] = fresh(node[n].log)] /\ UNCHANGED chosen
    BY <1>4 DEF Restart, history
  <2>2. /\ node'[n] = fresh(node[n].log) /\ \A p \in Node : p # n => node'[p] = node[p]
    BY <2>1 DEF TypeOK
  <2>3. /\ node'[n].members = {} /\ node'[n].joint_members = {}
        /\ node'[n].last_applied = 0
    BY <2>2 DEF fresh
  <2> QED
    BY <1>2, <2>1, <2>2, <2>3
<1>5. ASSUME NEW n \in Node, NEW r, NEW taken, Sound(node[n], r), Step(n, r, taken),
             Effect(n, node[n], r, taken), UNCHANGED chosen
      PROVE  ConfigInv'
  <2>1. r \in RaftNodeRecord
    BY <1>5 DEF Sound
  <2>2. /\ r.members = node[n].members /\ r.joint_members = node[n].joint_members
        /\ r.last_applied = node[n].last_applied
    BY <1>5, EffectKeepsConfig
  <2>3. Only({"out"}, r, node'[n]) /\ \A p \in Node : p # n => node'[p] = node[p]
    BY <1>5, <2>1, StepFrame
  <2>4. /\ node'[n].members = r.members /\ node'[n].joint_members = r.joint_members
        /\ node'[n].last_applied = r.last_applied
    BY <2>3 DEF Only, FieldNames
  <2> QED
    BY <1>2, <1>5, <2>2, <2>3, <2>4
<1>6. ASSUME NEW n \in Node, NEW r, NEW taken, Sound(node[n], r), Step(n, r, taken),
             Applies(n, node[n], r), NEW i, i = node[n].last_applied + 1,
             chosen' = chosen \cup {[index |-> i, entry |-> node[n].log[i]]}
      PROVE  ConfigInv'
  BY <1>1, <1>6, ApplyConfig
<1>7. CASE EffectStep
  BY <1>5, <1>6, <1>7 DEF EffectStep
<1> QED
  BY <1>3, <1>4, <1>7, NextEffect

\* ConfigAgreement: nodes that have applied the same number of entries are in the same
\* configuration, whatever their roles and however they got there (live, as a new member,
\* or replaying after a crash), as long as no two of them were handed different entries.
THEOREM ConfigurationsAgree == Spec /\ []StateMachineSafety => []ConfigAgreement
<1>1. Init => ConfigInv
  BY InitConfig
<1>2. TypeOK /\ ConfigInv /\ StateMachineSafety' /\ [Next]_vars => ConfigInv'
  BY NextConfig
<1>3. ConfigInv => ConfigAgreement
  <2> SUFFICES ASSUME NEW cfg, History(cfg), NEW n \in Node, NEW p \in Node,
                      node[n].last_applied = node[p].last_applied
               PROVE  /\ node[n].members = node[p].members
                      /\ node[n].joint_members = node[p].joint_members
    BY DEF ConfigInv, ConfigAgreement
  <2>1. Configuration(node[n]) = Configuration(node[p])
    BY DEF History
  <2> QED
    BY <2>1 DEF Configuration
<1> QED
  BY <1>1, <1>2, <1>3, TypeCorrect, PTL DEF Spec
-----------------------------------------------------------------------------
(* follower_states_ follows the role and the configuration. *)

\* A node that does not lead tracks nobody, and a node whose threads have ended follows.
Idles(s) ==
    /\ s.state # "Leader" => \A p \in Node : ~s.follower_states[p].tracked
    /\ ~s.running => s.state = "Follower"

\* A leader tracks every other member of its configuration, joint or not.
Covers(n, s) ==
    s.state = "Leader" => \A p \in quorum_set(s) \ {n} : s.follower_states[p].tracked

\* A function of the node keeps the one, or both.
Rests(s, r) == Idles(s) => Idles(r)
Tracks(n, s, r) == Rests(s, r) /\ (Idles(s) /\ Covers(n, s) => Covers(n, r))

\* The fields Idles and Covers speak of.
Watched == {"state", "running", "members", "joint_members", "follower_states"}

\* Chained calls.
LEMMA TracksTrans ==
    ASSUME NEW n, NEW s, NEW s1, NEW s2, Tracks(n, s, s1), Tracks(n, s1, s2)
    PROVE  Tracks(n, s, s2)
BY DEF Tracks, Rests

\* An early return keeps everything.
LEMMA TracksRefl == ASSUME NEW n, NEW s PROVE Tracks(n, s, s)
BY DEF Tracks, Rests

\* Calls that change none of the watched fields.
LEMMA Unwatched ==
    ASSUME NEW n, NEW s, NEW r, NEW F, Only(F, s, r), F \cap Watched = {}
    PROVE  Tracks(n, s, r)
<1>1. /\ r.state = s.state /\ r.running = s.running /\ r.members = s.members
      /\ r.joint_members = s.joint_members /\ r.follower_states = s.follower_states
  BY DEF Only, FieldNames, Watched
<1> QED
  BY <1>1 DEF Tracks, Rests, Idles, Covers, quorum_set

\* Calls that change what is known of a follower, and not whether it is tracked.
LEMMA SameFollowers ==
    ASSUME NEW n, NEW s \in RaftNodeRecord, NEW r, NEW F, Only(F \cup {"follower_states"}, s, r),
           F \cap Watched = {},
           \A p \in Node : r.follower_states[p].tracked = s.follower_states[p].tracked
    PROVE  Tracks(n, s, r)
<1>1. /\ r.state = s.state /\ r.running = s.running /\ r.members = s.members
      /\ r.joint_members = s.joint_members
  BY DEF Only, FieldNames, Watched
<1>2. quorum_set(s) \subseteq Node
  BY Fields DEF quorum_set
<1> QED
  BY <1>1, <1>2 DEF Tracks, Rests, Idles, Covers, quorum_set

\* become_follower clears the map of a leader.
LEMMA FollowerTracks ==
    ASSUME NEW n, NEW s \in RaftNodeRecord, NEW t \in Nat
    PROVE  Tracks(n, s, become_follower(s, t))
<1> DEFINE r == become_follower(s, t)
<1>1. /\ r.state = "Follower"
      /\ r.follower_states = IF s.state = "Leader" THEN [p \in Node |-> Untracked]
                                                   ELSE s.follower_states
  BY FollowerFrame
<1>2. ~Untracked.tracked
  BY DEF Untracked
<1> HIDE DEF r
<1> QED
  BY <1>1, <1>2 DEF Tracks, Rests, Idles, Covers, r

\* An election is opened by a node whose threads run and that does not lead.
LEMMA CandidateTracks ==
    ASSUME NEW s \in RaftNodeRecord, NEW n \in Node, NEW e \in Env, s.running
    PROVE  /\ Tracks(n, s, become_candidate(s, n, e))
           /\ Tracks(n, s, become_pre_candidate(s, n, e))
<1>1. Tracks(n, s, become_candidate(s, n, e))
  <2> DEFINE r == become_candidate(s, n, e)
  <2>1. \/ r = become_follower(s, s.current_term) \/ r = s
        \/ s.state # "Leader" /\ Campaigned(n, s, r)
    BY CandidateFrame
  <2>2. Tracks(n, s, become_follower(s, s.current_term))
    BY Fields, FollowerTracks
  <2> HIDE DEF r
  <2>3. ASSUME s.state # "Leader", Campaigned(n, s, r) PROVE Tracks(n, s, r)
    <3>1. /\ r.running = s.running /\ r.follower_states = s.follower_states
          /\ r.state = "Candidate"
      BY <2>3 DEF Campaigned, Only, FieldNames
    <3> QED
      BY <2>3, <3>1 DEF Tracks, Rests, Idles, Covers
  <2> QED
    BY <2>1, <2>2, <2>3, TracksRefl DEF r
<1>2. Tracks(n, s, become_pre_candidate(s, n, e))
  <2> DEFINE r == become_pre_candidate(s, n, e)
  <2>1. \/ r = s
        \/ /\ s.state # "Leader" /\ r.state = "PreCandidate"
           /\ Only({"state", "votes_received", "pre_votes_received", "out"}, s, r)
    BY PreCandidateFrame
  <2> HIDE DEF r
  <2>2. ASSUME s.state # "Leader", r.state = "PreCandidate",
               Only({"state", "votes_received", "pre_votes_received", "out"}, s, r)
        PROVE  Tracks(n, s, r)
    <3>1. r.running = s.running /\ r.follower_states = s.follower_states
      BY <2>2 DEF Only, FieldNames
    <3> QED
      BY <2>2, <3>1 DEF Tracks, Rests, Idles, Covers
  <2> QED
    BY <2>1, <2>2, TracksRefl DEF r
<1> QED
  BY <1>1, <1>2

\* What is recorded of a send or an acknowledgement leaves the follower tracked or not.
LEMMA SameTracked ==
    ASSUME NEW f \in FollowerState
    PROVE  /\ send_failed(f).tracked = f.tracked
           /\ acknowledged(f).tracked = f.tracked
           /\ \A i : replicated(f, i).tracked = f.tracked
           /\ \A i : backtracked(f, i).tracked = f.tracked
           /\ [f EXCEPT !.is_active = TRUE, !.failures = 0].tracked = f.tracked
           /\ [f EXCEPT !.in_flight = @ + 1, !.failures = 0].tracked = f.tracked
<1>1. send_failed(f).tracked = f.tracked
  BY DEF FollowerState, send_failed
<1>2. acknowledged(f).tracked = f.tracked
  BY DEF FollowerState, acknowledged
<1>3. \A i : replicated(f, i).tracked = f.tracked
  BY DEF FollowerState, replicated
<1>4. \A i : backtracked(f, i).tracked = f.tracked
  BY DEF FollowerState, backtracked
<1>5. /\ [f EXCEPT !.is_active = TRUE, !.failures = 0].tracked = f.tracked
      /\ [f EXCEPT !.in_flight = @ + 1, !.failures = 0].tracked = f.tracked
  BY DEF FollowerState
<1> QED
  BY <1>1, <1>2, <1>3, <1>4, <1>5

\* send_heartbeats tracks the members it does not know yet.
LEMMA HeartbeatsTrack ==
    ASSUME NEW s \in RaftNodeRecord, NEW n \in Node, NEW e \in Env
    PROVE  /\ Tracks(n, s, send_heartbeats(s, n, e))
           /\ \A p \in Node : s.follower_states[p].tracked =>
                                 send_heartbeats(s, n, e).follower_states[p].tracked
<1> DEFINE peers == quorum_set(s) \ {n}
           fs == [p \in Node |-> IF p \in peers /\ ~s.follower_states[p].tracked
                                 THEN new_follower(last_index(s))
                                 ELSE s.follower_states[p]]
           ready == {p \in peers : fs[p].in_flight < rpc_queue_capacity}
           failed(f) == [send_failed(f) EXCEPT
                           !.is_active = @ /\ send_failed(f).failures < kMaxHeartbeatFailures]
           fs2 == [p \in Node |-> IF p \in ready \cap e.down THEN failed(fs[p]) ELSE fs[p]]
           out == s.out \cup {append_entries(s, n, p, fs[p], <<>>) : p \in ready \ e.down}
           r == [s EXCEPT !.follower_states = fs2, !.out = out]
<1>1. send_heartbeats(s, n, e) = IF s.state # "Leader" \/ s.members = {} THEN s ELSE r
  BY DEF send_heartbeats
<1>2. \A p \in Node : fs[p] \in FollowerState
  BY Fields, LastIndex, NewFollower
<1>3. \A p \in Node : s.follower_states[p].tracked => fs[p].tracked
  OBVIOUS
<1> HIDE DEF fs
<1>4. \A f \in FollowerState : failed(f).tracked = f.tracked
  BY SendFailed, SameTracked DEF FollowerState
<1> HIDE DEF failed, ready
<1>5. \A p \in Node : s.follower_states[p].tracked => fs2[p].tracked
  BY <1>2, <1>3, <1>4
<1> HIDE DEF fs2, out
<1>6. Only({"follower_states", "out"}, s, r) /\ r.follower_states = fs2
  BY DEF RaftNodeRecord, Only, FieldNames
<1> HIDE DEF r
<1>7. /\ r.state = s.state /\ r.running = s.running
      /\ r.members = s.members /\ r.joint_members = s.joint_members
  BY <1>6 DEF Only, FieldNames
<1>8. quorum_set(s) \subseteq Node
  BY Fields DEF quorum_set
<1>9. s.state = "Leader" => Tracks(n, s, r)
  BY <1>5, <1>6, <1>7, <1>8 DEF Tracks, Rests, Idles, Covers, quorum_set
<1> QED
  BY <1>1, <1>5, <1>6, <1>9, TracksRefl

\* send_append_entries_to only touches the progress of a follower.
LEMMA AppendToTracks ==
    ASSUME NEW s \in RaftNodeRecord, NEW n \in Node, NEW p \in Node, NEW e \in Env
    PROVE  /\ Tracks(n, s, send_append_entries_to(s, n, p, e))
           /\ \A q \in Node : send_append_entries_to(s, n, p, e).follower_states[q].tracked =
                                 s.follower_states[q].tracked
<1> DEFINE f == s.follower_states[p]
           available == last_index(s) - f.next_index + 1
           to_send == IF available < max_entries THEN available ELSE max_entries
           es == SubSeq(s.log, f.next_index, f.next_index + to_send - 1)
           f2 == [f EXCEPT !.in_flight = @ + 1, !.failures = 0]
           fs1 == [s.follower_states EXCEPT ![p] = send_failed(f)]
           fs2 == [s.follower_states EXCEPT ![p] = f2]
           out == s.out \cup {append_entries(s, n, p, f, es)}
           r1 == [s EXCEPT !.follower_states = fs1]
           r2 == [s EXCEPT !.follower_states = fs2, !.out = out]
           skip == ~f.tracked \/ f.in_flight >= rpc_queue_capacity \/ f.next_index > last_index(s)
           r == send_append_entries_to(s, n, p, e)
<1>1. r = IF skip THEN s ELSE IF p \in e.down THEN r1 ELSE r2
  BY DEF send_append_entries_to
<1>2. /\ f \in FollowerState /\ send_failed(f).tracked = f.tracked /\ f2.tracked = f.tracked
      /\ s.follower_states \in [Node -> FollowerState]
  BY Fields, SameTracked
<1> HIDE DEF f2
<1>3. \A q \in Node : /\ fs1[q].tracked = s.follower_states[q].tracked
                      /\ fs2[q].tracked = s.follower_states[q].tracked
  BY <1>2
<1> HIDE DEF fs1, fs2, out
<1>4. r1.follower_states = fs1 /\ r2.follower_states = fs2
  BY DEF RaftNodeRecord
<1> HIDE DEF r1, r2, skip
<1>5. \A q \in Node : r.follower_states[q].tracked = s.follower_states[q].tracked
  BY <1>1, <1>3, <1>4
<1>6. Only({"out"} \cup {"follower_states"}, s, r)
  BY AppendToFrame DEF Only
<1>7. {"out"} \cap Watched = {}
  BY DEF Watched
<1> QED
  BY <1>5, <1>6, <1>7, SameFollowers

\* replicate_to_followers sends to followers it tracks.
LEMMA ReplicateTracks ==
    ASSUME NEW s \in RaftNodeRecord, NEW n \in Node, NEW e \in Env
    PROVE  Tracks(n, s, replicate_to_followers(s, n, e))
<1> DEFINE behind == {p \in Node : /\ s.follower_states[p].tracked
                                   /\ s.follower_states[p].is_active
                                   /\ s.follower_states[p].next_index > 1}
           t(p) == send_append_entries_to(s, n, p, e)
           fs == [p \in Node |-> IF p \in behind THEN t(p).follower_states[p]
                                 ELSE s.follower_states[p]]
           out == UNION ({s.out} \cup {t(p).out : p \in behind})
           r == [s EXCEPT !.follower_states = fs, !.out = out]
<1>1. replicate_to_followers(s, n, e) = r
  BY DEF replicate_to_followers
<1>2. \A p \in Node : t(p).follower_states[p].tracked = s.follower_states[p].tracked
  BY AppendToTracks
<1> HIDE DEF t
<1>3. \A p \in Node : fs[p].tracked = s.follower_states[p].tracked
  BY <1>2
<1> HIDE DEF fs, out
<1>4. Only({"out"} \cup {"follower_states"}, s, r) /\ r.follower_states = fs
  BY DEF RaftNodeRecord, Only, FieldNames
<1>5. {"out"} \cap Watched = {}
  BY DEF Watched
<1> HIDE DEF r
<1> QED
  BY <1>1, <1>3, <1>4, <1>5, SameFollowers

\* become_leader tracks the configuration, or is undone whole.
LEMMA LeaderTracks ==
    ASSUME NEW s \in RaftNodeRecord, NEW n \in Node, NEW e \in Env, s.state = "Candidate"
    PROVE  Tracks(n, s, become_leader(s, n, e))
<1> DEFINE fs == [p \in Node |-> IF p \in quorum_set(s) \ {n} THEN new_follower(last_index(s))
                                                             ELSE Untracked]
           led == [s EXCEPT !.state = "Leader", !.leader_id = n, !.transferring = FALSE,
                            !.follower_states = fs]
           noop == [term |-> s.current_term, command |-> NoOpCommand]
           led2 == [led EXCEPT !.log = Append(@, noop)]
           r == send_heartbeats(led2, n, e)
<1>1. fs \in [Node -> FollowerState] /\ \A p \in quorum_set(s) \ {n} : fs[p].tracked
  <2>1. fs \in [Node -> FollowerState]
    BY LastIndex, NewFollower
  <2>2. quorum_set(s) \subseteq Node
    BY Fields DEF quorum_set
  <2> QED
    BY <2>1, <2>2 DEF new_follower
<1>2. become_leader(s, n, e) =
         IF s.members = {} \/ ~e.disk
         THEN become_follower(IF s.members = {} THEN s ELSE led, s.current_term)
         ELSE r
  BY DEF become_leader
<1> HIDE DEF fs
<1>3. led \in RaftNodeRecord
  <2>1. "Leader" \in RaftNodeState /\ n \in RaftNodeId
    BY DEF RaftNodeState, RaftNodeId
  <2> QED
    BY <1>1, <2>1, Update
<1>4. /\ led.state = "Leader" /\ led.follower_states = fs /\ led.running = s.running
      /\ led.members = s.members /\ led.joint_members = s.joint_members
  BY DEF RaftNodeRecord
<1> HIDE DEF led
<1>5. led2 \in RaftNodeRecord
  <2>1. noop \in LogEntry
    BY Fields DEF LogEntry, RaftCommand
  <2> HIDE DEF noop
  <2>2. Append(led.log, noop) \in Seq(LogEntry)
    BY <1>3, <2>1, Fields
  <2> QED
    BY <1>3, <2>2, Update
<1> HIDE DEF noop
<1>6. Only({"log"}, led, led2)
  BY <1>3 DEF RaftNodeRecord, Only, FieldNames
<1> HIDE DEF led2
<1>7. Tracks(n, s, led)
  BY <1>1, <1>4 DEF Tracks, Rests, Idles, Covers, quorum_set
<1>8. Tracks(n, led, led2)
  <2>1. {"log"} \cap Watched = {}
    BY DEF Watched
  <2> QED
    BY <1>6, <2>1, Unwatched
<1>9. Tracks(n, led2, r)
  BY <1>5, HeartbeatsTrack
<1>10. s.current_term \in Nat
  BY Fields
<1>11. /\ Tracks(n, s, become_follower(s, s.current_term))
       /\ Tracks(n, led, become_follower(led, s.current_term))
  BY <1>3, <1>10, FollowerTracks
<1> HIDE DEF r
<1> QED
  BY <1>2, <1>7, <1>8, <1>9, <1>11, TracksTrans

\* apply_direct_membership_change reconciles the map with the new members.
LEMMA DirectTracks ==
    ASSUME NEW s \in RaftNodeRecord, NEW n \in Node, NEW M \in SUBSET Node
    PROVE  Tracks(n, s, apply_direct_membership_change(s, n, M))
<1> DEFINE old == s.follower_states
           rec == [p \in Node |->
                    CASE p \notin M -> Untracked
                      [] p \in M /\ p # n /\ ~old[p].tracked -> new_follower(last_index(s))
                      [] OTHER -> old[p]]
           fs == IF s.state = "Leader" THEN rec ELSE s.follower_states
           r == [s EXCEPT !.members = M, !.joint_members = {}, !.follower_states = fs]
<1>1. apply_direct_membership_change(s, n, M) = IF M = {} THEN s ELSE r
  BY DEF apply_direct_membership_change
<1>2. \A p \in M \ {n} : rec[p].tracked
  BY DEF new_follower
<1> HIDE DEF rec
<1>3. s.state = "Leader" => \A p \in M \ {n} : fs[p].tracked
  BY <1>2
<1>4. s.state # "Leader" => fs = s.follower_states
  OBVIOUS
<1> HIDE DEF fs
<1>5. /\ r.members = M /\ r.joint_members = {} /\ r.follower_states = fs
      /\ r.state = s.state /\ r.running = s.running
  BY DEF RaftNodeRecord
<1> HIDE DEF r
<1>6. Tracks(n, s, r)
  BY <1>3, <1>4, <1>5 DEF Tracks, Rests, Idles, Covers, quorum_set
<1> QED
  BY <1>1, <1>6, TracksRefl

\* apply_joint_consensus_entry tracks the new members; the old ones it takes for granted.
LEMMA JointTracks ==
    ASSUME NEW s \in RaftNodeRecord, NEW n \in Node, NEW cmd \in ConfigChangeCommand
    PROVE  LET r == apply_joint_consensus_entry(s, n, cmd)
           IN  /\ Rests(s, r)
               /\ (s.state = "Leader" =>
                     cmd.old_members \subseteq s.members \cup cmd.new_members)
                  => Tracks(n, s, r)
<1> DEFINE old == s.follower_states
           added == [p \in Node |-> IF p \in cmd.new_members \ {n} /\ ~old[p].tracked
                                    THEN new_follower(last_index(s)) ELSE old[p]]
           fs == IF s.state = "Leader" THEN added ELSE s.follower_states
           r == [s EXCEPT !.members = cmd.old_members, !.joint_members = cmd.new_members,
                          !.follower_states = fs]
           d == apply_direct_membership_change(s, n, cmd.new_members)
           known == s.state = "Leader" => cmd.old_members \subseteq s.members \cup cmd.new_members
<1>1. apply_joint_consensus_entry(s, n, cmd) = IF cmd.old_members = {} THEN d ELSE r
  BY DEF apply_joint_consensus_entry
<1>2. cmd.new_members \in SUBSET Node /\ cmd.old_members \in SUBSET Node
  BY DEF ConfigChangeCommand
<1>3. /\ \A p \in cmd.new_members \ {n} : added[p].tracked
      /\ \A p \in Node : old[p].tracked => added[p].tracked
  BY <1>2 DEF new_follower
<1> HIDE DEF added
<1>4. /\ s.state = "Leader" => /\ \A p \in cmd.new_members \ {n} : fs[p].tracked
                               /\ \A p \in Node : old[p].tracked => fs[p].tracked
      /\ s.state # "Leader" => fs = s.follower_states
  BY <1>3
<1> HIDE DEF fs
<1>5. /\ r.members = cmd.old_members /\ r.joint_members = cmd.new_members
      /\ r.follower_states = fs /\ r.state = s.state /\ r.running = s.running
  BY DEF RaftNodeRecord
<1>6. Tracks(n, s, d)
  BY <1>2, DirectTracks
<1> HIDE DEF r, d
<1>7. Rests(s, r)
  BY <1>4, <1>5 DEF Rests, Idles
<1>8. ASSUME known, Covers(n, s) PROVE Covers(n, r)
  <2> SUFFICES ASSUME s.state = "Leader", NEW p \in quorum_set(r) \ {n} PROVE fs[p].tracked
    BY <1>5 DEF Covers
  <2>1. CASE p \in cmd.new_members
    BY <1>4, <2>1
  <2>2. CASE p \in s.members
    BY <1>2, <1>4, <1>8, <2>2, Fields DEF Covers, quorum_set
  <2> QED
    BY <1>5, <1>8, <2>1, <2>2 DEF quorum_set
<1>9. known => Tracks(n, s, r)
  BY <1>7, <1>8 DEF Tracks
<1> QED
  BY <1>1, <1>6, <1>7, <1>9 DEF Tracks

\* apply_joint_consensus_finalization forgets the members that are gone.
LEMMA FinalizationTracks ==
    ASSUME NEW s \in RaftNodeRecord, NEW n \in Node, NEW cmd \in ConfigChangeCommand
    PROVE  Tracks(n, s, apply_joint_consensus_finalization(s, n, cmd))
<1> DEFINE fs == IF s.state # "Leader" THEN s.follower_states
                 ELSE [p \in Node |-> IF p \in s.members \ s.joint_members
                                      THEN Untracked ELSE s.follower_states[p]]
           f == [s EXCEPT !.members = s.joint_members, !.joint_members = {},
                          !.follower_states = fs]
           b == become_follower(f, s.current_term)
<1>1. apply_joint_consensus_finalization(s, n, cmd) =
        IF cmd.joint_consensus \/ cmd.new_members # s.joint_members THEN s
        ELSE IF n \in f.members THEN f ELSE b
  BY DEF apply_joint_consensus_finalization
<1>2. /\ fs \in [Node -> FollowerState]
      /\ s.state # "Leader" => fs = s.follower_states
      /\ s.joint_members \subseteq Node
      /\ \A p \in s.joint_members : fs[p] = s.follower_states[p]
  BY Fields, NewFollower
<1> HIDE DEF fs
<1>3. f \in RaftNodeRecord
  BY <1>2, Fields, Update
<1>4. /\ f.members = s.joint_members /\ f.joint_members = {} /\ f.follower_states = fs
      /\ f.state = s.state /\ f.running = s.running
  BY DEF RaftNodeRecord
<1> HIDE DEF f
<1>5. Tracks(n, s, f)
  BY <1>2, <1>4 DEF Tracks, Rests, Idles, Covers, quorum_set
<1>6. Tracks(n, f, b)
  BY <1>3, Fields, FollowerTracks
<1> HIDE DEF b
<1> QED
  BY <1>1, <1>5, <1>6, TracksTrans, TracksRefl

\* The entry n would apply next names as old members only nodes that n knows.
NamesOldMembers(s) ==
    LET cmd == s.log[s.last_applied + 1].command
    IN  /\ s.state = "Leader" /\ applying(s) /\ ~in_joint_consensus(s)
        /\ cmd.type = "ConfigChange" /\ cmd.joint_consensus
        => cmd.old_members \subseteq s.members \cup cmd.new_members

\* One turn of the apply loop.
LEMMA ApplyTracks ==
    ASSUME NEW s \in RaftNodeRecord, NEW n \in Node, applying(s)
    PROVE  LET r == apply_one(s, n)
           IN  Rests(s, r) /\ (NamesOldMembers(s) => Tracks(n, s, r))
<1> DEFINE cmd == s.log[s.last_applied + 1].command
           a == apply_joint_consensus_finalization(s, n, cmd)
           b == apply_joint_consensus_entry(s, n, cmd)
           d == apply_direct_membership_change(s, n, cmd.new_members)
           c == IF in_joint_consensus(s) THEN a ELSE IF cmd.joint_consensus THEN b ELSE d
           p == [c EXCEPT !.pending_config_index = 0]
           q == IF cmd.type = "ConfigChange" THEN p ELSE s
           r == [q EXCEPT !.last_applied = @ + 1]
<1>1. apply_one(s, n) = r
  BY DEF apply_one, process_config_change
<1>2. cmd \in RaftCommand
  BY ApplyOne DEF LogEntry
<1>a. NamesOldMembers(s) =>
        (/\ s.state = "Leader" /\ ~in_joint_consensus(s)
         /\ cmd.type = "ConfigChange" /\ cmd.joint_consensus
         => cmd.old_members \subseteq s.members \cup cmd.new_members)
  BY DEF NamesOldMembers
<1> HIDE DEF cmd
<1>3. ASSUME cmd.type = "ConfigChange"
      PROVE  /\ p \in RaftNodeRecord
             /\ Rests(s, p) /\ (NamesOldMembers(s) => Tracks(n, s, p))
  <2>1. cmd \in ConfigChangeCommand /\ cmd.new_members \in SUBSET Node
    BY <1>2, <1>3 DEF RaftCommand, NoOpCommand, ConfigChangeCommand
  <2>2. c \in RaftNodeRecord
    BY <2>1, ApplyDirect, ApplyJoint, ApplyFinalization DEF Sound
  <2>3. Tracks(n, s, a) /\ Tracks(n, s, d)
    BY <2>1, FinalizationTracks, DirectTracks
  <2>4. /\ Rests(s, b)
        /\ (s.state = "Leader" => cmd.old_members \subseteq s.members \cup cmd.new_members)
           => Tracks(n, s, b)
    BY <2>1, JointTracks
  <2> HIDE DEF a, b, d
  <2>5. Rests(s, c) /\ (NamesOldMembers(s) => Tracks(n, s, c))
    <3>1. CASE in_joint_consensus(s)
      BY <2>3, <3>1 DEF Tracks
    <3>2. CASE ~in_joint_consensus(s) /\ cmd.joint_consensus
      BY <1>3, <1>a, <2>4, <3>2
    <3>3. CASE ~in_joint_consensus(s) /\ ~cmd.joint_consensus
      BY <2>3, <3>3 DEF Tracks
    <3> QED
      BY <3>1, <3>2, <3>3
  <2> HIDE DEF c
  <2>6. p \in RaftNodeRecord /\ Only({"pending_config_index"}, c, p)
    <3>1. p \in RaftNodeRecord
      BY <2>2, Update
    <3> QED
      BY <2>2, <3>1 DEF RaftNodeRecord, Only, FieldNames
  <2>7. Tracks(n, c, p)
    <3>1. {"pending_config_index"} \cap Watched = {}
      BY DEF Watched
    <3> QED
      BY <2>6, <3>1, Unwatched
  <2> QED
    BY <2>5, <2>6, <2>7 DEF Tracks, Rests
<1> HIDE DEF p
<1>4. /\ q \in RaftNodeRecord /\ Rests(s, q) /\ (NamesOldMembers(s) => Tracks(n, s, q))
  BY <1>3, TracksRefl DEF Tracks
<1> HIDE DEF q
<1>5. Only({"last_applied"}, q, r)
  BY <1>4 DEF RaftNodeRecord, Only, FieldNames
<1>6. Tracks(n, q, r)
  <2>1. {"last_applied"} \cap Watched = {}
    BY DEF Watched
  <2> QED
    BY <1>5, <2>1, Unwatched
<1> HIDE DEF r
<1> QED
  BY <1>1, <1>4, <1>6 DEF Tracks, Rests

\* A reply, and what a handler notes besides, is not watched.
LEMMA ReplyTracks ==
    ASSUME NEW n, NEW s \in RaftNodeRecord, NEW m
    PROVE  Tracks(n, s, reply(s, m))
<1>1. {"out"} \cap Watched = {}
  BY DEF Watched
<1> QED
  BY <1>1, ReplyFrame, Unwatched

\* handle_request_vote.
LEMMA VoteTracks ==
    ASSUME NEW s \in RaftNodeRecord, NEW n \in Node, NEW m \in RequestVoteRequest
    PROVE  Tracks(n, s, handle_request_vote(s, n, m))
<1> DEFINE s1 == IF m.term > s.current_term THEN become_follower(s, m.term) ELSE s
           s2 == [s1 EXCEPT !.voted_for = m.candidate_id]
           r == handle_request_vote(s, n, m)
<1>1. m.term \in Nat /\ m.candidate_id \in RaftNodeId
  BY DEF RequestVoteRequest, RaftNodeId
<1>2. \E b \in {s, s1, s2} : \E y : r = reply(b, y)
  BY DEF handle_request_vote, vote_response
<1>3. s1 \in RaftNodeRecord /\ Tracks(n, s, s1)
  BY <1>1, BecomeFollower, FollowerTracks, TracksRefl DEF Sound
<1> HIDE DEF s1
<1>4. s2 \in RaftNodeRecord /\ Tracks(n, s1, s2)
  <2>1. s2 \in RaftNodeRecord
    BY <1>1, <1>3, Update
  <2>2. Only({"voted_for"}, s1, s2)
    BY <1>3 DEF RaftNodeRecord, Only, FieldNames
  <2>3. {"voted_for"} \cap Watched = {}
    BY DEF Watched
  <2> QED
    BY <2>1, <2>2, <2>3, Unwatched
<1> HIDE DEF s2, r
<1>5. \A b \in {s, s1, s2} : b \in RaftNodeRecord /\ Tracks(n, s, b)
  BY <1>3, <1>4, TracksTrans, TracksRefl
<1>6. PICK b \in {s, s1, s2} : \E y : r = reply(b, y)
  BY <1>2
<1>7. Tracks(n, b, r)
  BY <1>5, <1>6, ReplyTracks
<1> QED
  BY <1>5, <1>7, TracksTrans DEF r

\* handle_append_entries.
LEMMA AppendTracks ==
    ASSUME NEW s \in RaftNodeRecord, NEW n \in Node, NEW m \in AppendEntriesRequest,
           NEW e \in Env
    PROVE  Tracks(n, s, handle_append_entries(s, n, m, e))
<1> DEFINE s1 == IF m.term > s.current_term THEN become_follower(s, m.term) ELSE s
           s2 == [s1 EXCEPT !.leader_id = m.from]
           s3 == append_entries_to_log(s2, m, e)
           last_new == m.prev_log_index + Len(m.entries)
           commit == IF m.leader_commit < last_new THEN m.leader_commit ELSE last_new
           s5 == [s3 EXCEPT !.commit_index = commit]
           s4 == IF m.leader_commit <= s3.commit_index THEN s3 ELSE s5
           r == handle_append_entries(s, n, m, e)
           short == m.prev_log_index > last_index(s)
<1>1. /\ m.term \in Nat /\ m.from \in RaftNodeId /\ m.entries \in Seq(LogEntry)
      /\ m.prev_log_index \in Nat /\ m.leader_commit \in Nat
  BY DEF AppendEntriesRequest, RaftNodeId
<1>2. \E y : \/ r = reply(s, y) \/ r = reply(s2, y)
             \/ ~short /\ (r = reply(s3, y) \/ r = reply(s4, y))
  <2> DEFINE a(t, ok, c) == append_response(t, n, m, ok, last_index(s), c)
  <2>1. r = IF m.term < s.current_term THEN a(s, FALSE, last_index(s) + 1)
            ELSE IF s2.state = "Leader" THEN a(s2, FALSE, 0)
            ELSE IF short THEN a(s2, FALSE, last_index(s) + 1)
            ELSE IF ~log_matches(s, m) THEN a(s2, FALSE, conflict_start(s, m.prev_log_index))
            ELSE IF m.entries # <<>> /\ ~e.disk THEN a(s3, FALSE, m.prev_log_index + 1)
            ELSE a(s4, TRUE, 0)
    BY DEF handle_append_entries
  <2>2. \A t, ok, c : \E y : a(t, ok, c) = reply(t, y)
    BY DEF append_response
  <2> HIDE DEF a, r, s2, s3, s4, short
  <2>3. \/ \E ok, c : r = a(s, ok, c) \/ r = a(s2, ok, c)
        \/ ~short /\ \E ok, c : r = a(s3, ok, c) \/ r = a(s4, ok, c)
    BY <2>1
  <2> QED
    BY <2>2, <2>3
<1>3. s1 \in RaftNodeRecord /\ Tracks(n, s, s1) /\ s1.log = s.log
  <2>1. become_follower(s, m.term).log = s.log
    BY <1>1, FollowerFrame DEF Only, FieldNames
  <2> QED
    BY <1>1, <2>1, BecomeFollower, FollowerTracks, TracksRefl DEF Sound
<1> HIDE DEF s1
<1>4. s2 \in RaftNodeRecord /\ Tracks(n, s1, s2) /\ s2.log = s.log
  <2>1. s2 \in RaftNodeRecord
    BY <1>1, <1>3, Update
  <2>2. Only({"leader_id"}, s1, s2)
    BY <1>3 DEF RaftNodeRecord, Only, FieldNames
  <2>3. {"leader_id"} \cap Watched = {}
    BY DEF Watched
  <2> QED
    BY <1>3, <2>1, <2>2, <2>3, Unwatched DEF Only, FieldNames
<1> HIDE DEF s2
<1>5. ASSUME ~short PROVE s3 \in RaftNodeRecord /\ Tracks(n, s2, s3)
  <2>1. s3 \in RaftNodeRecord
    <3>1. m.prev_log_index <= last_index(s2)
      BY <1>1, <1>4, <1>5, LastIndex DEF last_index
    <3> QED
      BY <1>4, <3>1, AppendToLog DEF Sound
  <2>2. Only({"log"}, s2, s3)
    <3> DEFINE x == IF e.disk THEN SubSeq(s2.log, 1, m.prev_log_index) \o m.entries
                    ELSE SubSeq(s2.log, 1, m.prev_log_index)
               q == [s2 EXCEPT !.log = x]
    <3>1. s3 = IF m.entries = <<>> THEN s2 ELSE q
      BY DEF append_entries_to_log
    <3> HIDE DEF x
    <3>2. Only({"log"}, s2, q)
      BY <1>4 DEF RaftNodeRecord, Only, FieldNames
    <3> HIDE DEF q
    <3> QED
      BY <3>1, <3>2, OnlyWiden
  <2>3. {"log"} \cap Watched = {}
    BY DEF Watched
  <2> QED
    BY <2>1, <2>2, <2>3, Unwatched
<1> HIDE DEF s3
<1>6. ASSUME ~short PROVE s4 \in RaftNodeRecord /\ Tracks(n, s3, s4)
  <2>1. commit \in Nat
    BY <1>1
  <2> HIDE DEF commit
  <2>2. s5 \in RaftNodeRecord
    BY <1>5, <1>6, <2>1, Update
  <2>3. Only({"commit_index"}, s3, s5)
    BY <1>5, <1>6 DEF RaftNodeRecord, Only, FieldNames
  <2>4. {"commit_index"} \cap Watched = {}
    BY DEF Watched
  <2> HIDE DEF s5
  <2> QED
    BY <1>5, <1>6, <2>2, <2>3, <2>4, Unwatched, TracksRefl
<1> HIDE DEF s4, r, short
<1>7. PICK b : /\ b \in RaftNodeRecord /\ Tracks(n, s, b)
               /\ \E y : r = reply(b, y)
  <2>1. Tracks(n, s, s2)
    BY <1>3, <1>4, TracksTrans
  <2>2. ~short => Tracks(n, s, s3) /\ Tracks(n, s, s4)
    BY <1>5, <1>6, <2>1, TracksTrans
  <2> QED
    BY <1>2, <1>4, <1>5, <1>6, <2>1, <2>2, TracksRefl
<1>8. Tracks(n, b, r)
  BY <1>7, ReplyTracks
<1> QED
  BY <1>7, <1>8, TracksTrans DEF r

\* handle_request_vote_response: only a node whose threads run has votes to count.
LEMMA VoteResponseTracks ==
    ASSUME NEW s \in RaftNodeRecord, NEW n \in Node, NEW m \in RequestVoteResponse,
           NEW e \in Env
    PROVE  Tracks(n, s, handle_request_vote_response(s, n, m, e))
<1> DEFINE r == handle_request_vote_response(s, n, m, e)
           pre == s.state = "PreCandidate"
           request_term == IF pre THEN s.current_term + 1 ELSE s.current_term
           c1 == [s EXCEPT !.pre_votes_received = @ + 1]
           c2 == [s EXCEPT !.votes_received = @ + 1]
           q1 == IF m.vote_granted THEN c1 ELSE s
           q2 == IF m.vote_granted THEN c2 ELSE s
<1>1. m.term \in Nat
  BY DEF RequestVoteResponse
<1>2. r = IF s.state \notin {"Candidate", "PreCandidate"} THEN s
          ELSE IF m.term > request_term THEN become_follower(s, m.term)
          ELSE IF pre THEN tally_votes(q1, n, e, TRUE) ELSE tally_votes(q2, n, e, FALSE)
  BY DEF handle_request_vote_response
<1>3. /\ q1 \in RaftNodeRecord /\ Only({"pre_votes_received"}, s, q1)
      /\ q2 \in RaftNodeRecord /\ Only({"votes_received"}, s, q2)
  <2>1. s.pre_votes_received + 1 \in Nat /\ s.votes_received + 1 \in Nat
    BY Fields
  <2>2. c1 \in RaftNodeRecord /\ c2 \in RaftNodeRecord
    BY <2>1, Update
  <2>3. /\ Only({"pre_votes_received"}, s, c1) /\ Only({"votes_received"}, s, c2)
    BY DEF RaftNodeRecord, Only, FieldNames
  <2> HIDE DEF c1, c2
  <2> QED
    BY <2>2, <2>3, OnlyWiden
<1> HIDE DEF r, q1, q2
<1>4. /\ Tracks(n, s, q1) /\ Tracks(n, s, q2)
      /\ q1.running = s.running /\ q1.state = s.state /\ q2.state = s.state
  <2>1. {"pre_votes_received"} \cap Watched = {} /\ {"votes_received"} \cap Watched = {}
    BY DEF Watched
  <2>2. q1.running = s.running /\ q1.state = s.state /\ q2.state = s.state
    BY <1>3 DEF Only, FieldNames
  <2> QED
    BY <1>3, <2>1, <2>2, Unwatched
<1>5. pre => Tracks(n, s, become_candidate(q1, n, e))
  <2>1. CASE q1.running
    BY <1>3, <1>4, <2>1, CandidateTracks, TracksTrans
  <2>2. CASE ~q1.running /\ pre
    BY <1>4, <2>2 DEF Tracks, Rests, Idles
  <2> QED
    BY <2>1, <2>2
<1>6. s.state = "Candidate" => Tracks(n, s, become_leader(q2, n, e))
  BY <1>3, <1>4, LeaderTracks, TracksTrans
<1>7. Tracks(n, s, become_follower(s, m.term))
  BY <1>1, FollowerTracks
<1>8. pre => tally_votes(q1, n, e, TRUE) \in {q1, become_candidate(q1, n, e)}
  BY DEF tally_votes
<1>9. tally_votes(q2, n, e, FALSE) \in {q2, become_leader(q2, n, e)}
  BY DEF tally_votes
<1> HIDE DEF request_term
<1>10. Tracks(n, s, r)
  BY <1>2, <1>4, <1>5, <1>6, <1>7, <1>8, <1>9, TracksRefl
<1> QED
  BY <1>10 DEF r

\* handle_append_entries_response: an answer neither adds nor drops a follower.
LEMMA AppendResponseTracks ==
    ASSUME NEW s \in RaftNodeRecord, NEW n \in Node, NEW m \in AppendEntriesResponse,
           NEW e \in Env
    PROVE  Tracks(n, s, handle_append_entries_response(s, n, m, e))
<1> DEFINE f == acknowledged(s.follower_states[m.from])
           with(g) == [s EXCEPT !.follower_states = [s.follower_states EXCEPT ![m.from] = g]]
           ok == with(replicated(f, m.last_log_index))
           no == with(backtracked(f, m.conflict_index))
           r1 == advance_commit_index(ok, n)
           r2 == send_append_entries_to(no, n, m.from, e)
<1>1. /\ m.from \in Node /\ m.term \in Nat /\ m.last_log_index \in Nat
      /\ m.conflict_index \in Int
  BY DEF AppendEntriesResponse
<1>2. f \in FollowerState /\ f.tracked = s.follower_states[m.from].tracked
  BY <1>1, Fields, Progress, SameTracked
<1>3. ASSUME NEW g \in FollowerState, g.tracked = s.follower_states[m.from].tracked
      PROVE  with(g) \in RaftNodeRecord /\ Tracks(n, s, with(g))
  <2> DEFINE fs == [s.follower_states EXCEPT ![m.from] = g]
             r == [s EXCEPT !.follower_states = fs]
  <2>1. /\ fs \in [Node -> FollowerState]
        /\ \A p \in Node : fs[p].tracked = s.follower_states[p].tracked
    BY <1>1, <1>3, Fields
  <2> HIDE DEF fs
  <2>2. r \in RaftNodeRecord
    BY <2>1, Update
  <2>3. Only({"out"} \cup {"follower_states"}, s, r) /\ r.follower_states = fs
    BY DEF RaftNodeRecord, Only, FieldNames
  <2> HIDE DEF r
  <2>4. {"out"} \cap Watched = {}
    BY DEF Watched
  <2>5. Tracks(n, s, r)
    BY <2>1, <2>3, <2>4, SameFollowers
  <2> QED
    BY <2>2, <2>5 DEF fs, r
<1>4. handle_append_entries_response(s, n, m, e) =
        IF s.state # "Leader" THEN s
        ELSE IF m.term > s.current_term THEN become_follower(s, m.term)
        ELSE IF ~s.follower_states[m.from].tracked THEN s
        ELSE IF m.success THEN r1 ELSE r2
  BY DEF handle_append_entries_response
<1> HIDE DEF f, with
<1>5. /\ ok \in RaftNodeRecord /\ Tracks(n, s, ok)
      /\ no \in RaftNodeRecord /\ Tracks(n, s, no)
  <2>1. /\ replicated(f, m.last_log_index) \in FollowerState
        /\ replicated(f, m.last_log_index).tracked = f.tracked
        /\ backtracked(f, m.conflict_index) \in FollowerState
        /\ backtracked(f, m.conflict_index).tracked = f.tracked
    BY <1>1, <1>2, Progress, SameTracked
  <2> QED
    BY <1>2, <1>3, <2>1
<1> HIDE DEF ok, no
<1>6. Tracks(n, s, r1)
  <2>1. {"commit_index"} \cap Watched = {}
    BY DEF Watched
  <2> QED
    BY <1>5, <2>1, AdvanceFrame, Unwatched, TracksTrans
<1>7. Tracks(n, s, r2)
  BY <1>1, <1>5, AppendToTracks, TracksTrans
<1> HIDE DEF r1, r2
<1> QED
  BY <1>1, <1>4, <1>6, <1>7, FollowerTracks, TracksRefl

\* A round of a transfer sends entries to a follower the leader tracks already.
LEMMA TransferTracks ==
    ASSUME NEW s \in RaftNodeRecord, NEW n \in Node, NEW e \in Env, NEW c \in BOOLEAN,
           s.transfer \in Transferring
    PROVE  Tracks(n, s, transfer_round(s, n, e, c))
<1> DEFINE t == s.transfer
           sent == send_append_entries_to(s, n, t.target, e)
           t1 == [t EXCEPT !.pc = "replicating", !.round = @ + 1]
           t2 == [t EXCEPT !.pc = "signalled"]
           r1 == [sent EXCEPT !.transfer = t1]
           out == s.out \cup {m \in
                    {[type |-> "RequestVoteRequest", from |-> n, to |-> t.target,
                      term |-> s.current_term + 1, candidate_id |-> t.target,
                      last_log_index |-> last_index(s),
                      last_log_term |-> term_at(s, last_index(s)), pre_vote |-> FALSE]} :
                    m.to \notin e.down}
           r2 == [s EXCEPT !.transfer = t2, !.out = out]
<1>1. t.target \in Node
  BY DEF Transferring
<1>2. transfer_round(s, n, e, c) = IF t.round < kTransferMaxRounds /\ ~c THEN r1 ELSE r2
  BY DEF transfer_round
<1>3. sent \in RaftNodeRecord /\ Tracks(n, s, sent)
  BY <1>1, SendAppendEntriesTo, AppendToTracks DEF Sound
<1> HIDE DEF sent, t1, t2, out
<1>4. Only({"transfer"}, sent, r1) /\ Only({"transfer", "out"}, s, r2)
  BY <1>3 DEF RaftNodeRecord, Only, FieldNames
<1>5. {"transfer"} \cap Watched = {} /\ {"transfer", "out"} \cap Watched = {}
  BY DEF Watched
<1> HIDE DEF r1, r2
<1>6. Tracks(n, s, r1) /\ Tracks(n, s, r2)
  BY <1>3, <1>4, <1>5, Unwatched, TracksTrans
<1> QED
  BY <1>2, <1>6
-----------------------------------------------------------------------------
(* The steps of the system. *)

\* A step of node n that keeps its map in order; an applied entry may name old members
\* that the leader does not know.
TrackStep ==
    \E n \in Node : \E r \in RaftNodeRecord, taken \in SUBSET msgs :
        /\ Step(n, r, taken) /\ Rests(node[n], r)
        /\ NamesOldMembers(node[n]) => Tracks(n, node[n], r)

\* How a step other than that of the apply loop is shown to be one.
LEMMA ByTracks ==
    ASSUME NEW n \in Node, NEW r, NEW taken \in SUBSET msgs, Sound(node[n], r),
           Step(n, r, taken), Tracks(n, node[n], r)
    PROVE  TrackStep
BY DEF TrackStep, Tracks, Sound

\* The threads of the node and its clients.
LEMMA ThreadsTrack ==
    ASSUME TypeOK, NEW n \in Node,
           \/ ElectionTimeout(n) \/ HeartbeatTick(n) \/ StepDown(n)
           \/ \E c \in ClientCommand : propose(n, c)
    PROVE  TrackStep
<1> DEFINE s == node[n]
<1>1. s \in RaftNodeRecord
  BY DEF TypeOK
<1>2. CASE ElectionTimeout(n)
  <2>1. PICK e \in Faults :
          LET r == on_election_timeout(node[n], n, e)
          IN  \E lost \in Losses : Step(n, r, lost)
    BY <1>2 DEF ElectionTimeout
  <2> DEFINE r == on_election_timeout(s, n, e)
  <2>2. PICK lost \in Losses : Step(n, r, lost)
    BY <2>1
  <2>3. e \in Env /\ s.running /\ lost \in SUBSET msgs
    BY <1>2, FaultType DEF ElectionTimeout, Threads, Losses
  <2>4. Sound(s, r)
    BY <1>1, <2>3, OnElectionTimeout
  <2>5. Tracks(n, s, r)
    BY <1>1, <2>3, CandidateTracks DEF on_election_timeout
  <2> HIDE DEF r
  <2> QED
    BY <2>2, <2>3, <2>4, <2>5, ByTracks
<1>3. CASE HeartbeatTick(n)
  <2>1. PICK e \in Faults :
          LET x == replicate_to_followers(send_heartbeats(node[n], n, e), n, e)
          IN  \E back \in SUBSET {p \in Node : ~x.follower_states[p].is_active} :
                 \E lost \in Losses :
                    Step(n, [x EXCEPT !.follower_states = [p \in Node |->
                                 IF p \in back
                                 THEN [@[p] EXCEPT !.is_active = TRUE, !.failures = 0]
                                 ELSE @[p]]], lost)
    BY <1>3 DEF HeartbeatTick
  <2> DEFINE h == send_heartbeats(s, n, e)
             x == replicate_to_followers(h, n, e)
  <2>2. e \in Env
    BY FaultType
  <2>3. PICK back \in SUBSET {p \in Node : ~x.follower_states[p].is_active}, lost \in Losses :
          Step(n, [x EXCEPT !.follower_states = [p \in Node |->
                       IF p \in back
                       THEN [x.follower_states[p] EXCEPT !.is_active = TRUE, !.failures = 0]
                       ELSE x.follower_states[p]]], lost)
    BY <2>1
  <2>4. h \in RaftNodeRecord /\ Sound(s, h) /\ Tracks(n, s, h)
    BY <1>1, <2>2, SendHeartbeats, HeartbeatsTrack DEF Sound
  <2> HIDE DEF h
  <2>5. x \in RaftNodeRecord /\ Sound(h, x) /\ Tracks(n, h, x)
    BY <2>2, <2>4, ReplicateToFollowers, ReplicateTracks DEF Sound
  <2> HIDE DEF x
  <2> DEFINE fs == [p \in Node |-> IF p \in back
                       THEN [x.follower_states[p] EXCEPT !.is_active = TRUE, !.failures = 0]
                       ELSE x.follower_states[p]]
             r == [x EXCEPT !.follower_states = fs]
  <2>6. /\ fs \in [Node -> FollowerState]
        /\ \A p \in Node : fs[p].tracked = x.follower_states[p].tracked
    <3>1. \A p \in Node : x.follower_states[p] \in FollowerState
      BY <2>5, Fields
    <3>2. \A p \in Node :
            LET f == [x.follower_states[p] EXCEPT !.is_active = TRUE, !.failures = 0]
            IN  f \in FollowerState /\ f.tracked = x.follower_states[p].tracked
      BY <3>1, UpdateFollower, SameTracked
    <3> QED
      BY <3>1, <3>2
  <2>7. Step(n, r, lost)
    BY <2>3
  <2> HIDE DEF fs
  <2>8. Sound(x, r)
    BY <2>5, <2>6, Fields, SendStep
  <2>9. Only({"out"} \cup {"follower_states"}, x, r) /\ r.follower_states = fs
    BY <2>5 DEF RaftNodeRecord, Only, FieldNames
  <2> HIDE DEF r
  <2>10. Tracks(n, x, r)
    <3>1. {"out"} \cap Watched = {}
      BY DEF Watched
    <3> QED
      BY <2>5, <2>6, <2>9, <3>1, SameFollowers
  <2>11. Sound(s, r) /\ Tracks(n, s, r)
    BY <1>1, <2>4, <2>5, <2>8, <2>10, KeepsTrans, TracksTrans
  <2>12. lost \in SUBSET msgs
    BY DEF Losses
  <2> QED
    BY <2>7, <2>11, <2>12, ByTracks
<1>4. CASE StepDown(n)
  <2> DEFINE r == become_follower(s, s.current_term)
  <2>1. Sound(s, r) /\ Tracks(n, s, r)
    BY <1>1, Fields, BecomeFollower, FollowerTracks
  <2>2. Step(n, r, {})
    BY <1>4 DEF StepDown
  <2> HIDE DEF r
  <2> QED
    BY <2>1, <2>2, ByTracks
<1>5. ASSUME NEW c \in ClientCommand, propose(n, c) PROVE TrackStep
  <2> DEFINE entry == [term |-> s.current_term, command |-> c]
             log == Append(s.log, entry)
             pending == IF c.type = "ConfigChange" THEN last_index(s) + 1
                                                   ELSE s.pending_config_index
             r == [s EXCEPT !.log = log, !.pending_config_index = pending]
  <2>1. Step(n, r, {})
    BY <1>5 DEF propose
  <2>2. log \in Seq(LogEntry)
    <3>1. entry \in LogEntry
      BY <1>1, Fields, CommandAssumption DEF LogEntry, ClientCommand, RaftCommand
    <3> HIDE DEF entry
    <3> QED
      BY <1>1, <3>1, Fields
  <2>3. pending \in Nat
    BY <1>1, Fields, LastIndex
  <2> HIDE DEF log, pending, s
  <2>4. r \in RaftNodeRecord
    BY <1>1, <2>2, <2>3, Update
  <2>5. /\ r.current_term = s.current_term /\ r.voted_for = s.voted_for
        /\ Only({"log", "pending_config_index"}, s, r)
    BY <1>1 DEF RaftNodeRecord, Only, FieldNames
  <2> HIDE DEF r
  <2>6. Sound(s, r)
    BY <1>1, <2>4, <2>5, Fields DEF Sound, Keeps
  <2>7. {"log", "pending_config_index"} \cap Watched = {}
    BY DEF Watched
  <2> QED
    BY <2>1, <2>5, <2>6, <2>7, Unwatched, ByTracks DEF s
<1> QED
  BY <1>2, <1>3, <1>4, <1>5

\* A message handler, whether or not the message arrives again.
LEMMA ReceiveTracks ==
    ASSUME NEW n \in Node, NEW m \in msgs, NEW r, NEW e, Sound(node[n], r),
           Receive(n, m, r, e), Tracks(n, node[n], r)
    PROVE  TrackStep
<1>1. PICK taken \in SUBSET msgs : Step(n, r, taken)
  BY DEF Receive
<1> QED
  BY <1>1, ByTracks

\* The four message handlers.
LEMMA HandlersTrack ==
    ASSUME TypeOK, NEW n \in Node,
           \/ HandleRequestVote(n) \/ HandleRequestVoteResponse(n)
           \/ HandleAppendEntries(n) \/ HandleAppendEntriesResponse(n)
    PROVE  TrackStep
<1> DEFINE s == node[n]
<1>1. s \in RaftNodeRecord
  BY DEF TypeOK
<1>2. CASE HandleRequestVote(n)
  <2>1. PICK m \in Inbox(n, "RequestVoteRequest") :
          Receive(n, m, handle_request_vote(s, n, m), NoFault)
    BY <1>2 DEF HandleRequestVote
  <2> DEFINE r == handle_request_vote(s, n, m)
  <2>2. m \in RequestVoteRequest /\ m \in msgs
    BY InboxType DEF Inbox
  <2>3. Sound(s, r) /\ Tracks(n, s, r)
    BY <1>1, <2>2, HandleVote, VoteTracks
  <2> HIDE DEF r
  <2> QED
    BY <2>1, <2>2, <2>3, ReceiveTracks DEF r
<1>3. CASE HandleRequestVoteResponse(n)
  <2>1. PICK m \in Inbox(n, "RequestVoteResponse"), e \in Faults :
          Receive(n, m, handle_request_vote_response(s, n, m, e), e)
    BY <1>3 DEF HandleRequestVoteResponse
  <2> DEFINE r == handle_request_vote_response(s, n, m, e)
  <2>2. m \in RequestVoteResponse /\ m \in msgs /\ e \in Env
    BY InboxType, FaultType DEF Inbox
  <2>3. Sound(s, r) /\ Tracks(n, s, r)
    BY <1>1, <2>2, HandleVoteResponse, VoteResponseTracks
  <2> HIDE DEF r
  <2> QED
    BY <2>1, <2>2, <2>3, ReceiveTracks DEF r
<1>4. CASE HandleAppendEntries(n)
  <2>1. PICK m \in Inbox(n, "AppendEntriesRequest"), e \in Faults :
          Receive(n, m, handle_append_entries(s, n, m, e), e)
    BY <1>4 DEF HandleAppendEntries
  <2> DEFINE r == handle_append_entries(s, n, m, e)
  <2>2. m \in AppendEntriesRequest /\ m \in msgs /\ e \in Env
    BY InboxType, FaultType DEF Inbox
  <2>3. Sound(s, r) /\ Tracks(n, s, r)
    BY <1>1, <2>2, HandleAppend, AppendTracks
  <2> HIDE DEF r
  <2> QED
    BY <2>1, <2>2, <2>3, ReceiveTracks DEF r
<1>5. CASE HandleAppendEntriesResponse(n)
  <2>1. PICK m \in Inbox(n, "AppendEntriesResponse"), e \in Faults :
          Receive(n, m, handle_append_entries_response(s, n, m, e), e)
    BY <1>5 DEF HandleAppendEntriesResponse
  <2> DEFINE r == handle_append_entries_response(s, n, m, e)
  <2>2. m \in AppendEntriesResponse /\ m \in msgs /\ e \in Env
    BY InboxType, FaultType DEF Inbox
  <2>3. Sound(s, r) /\ Tracks(n, s, r)
    BY <1>1, <2>2, HandleAppendResponse, AppendResponseTracks
  <2> HIDE DEF r
  <2> QED
    BY <2>1, <2>2, <2>3, ReceiveTracks DEF r
<1> QED
  BY <1>2, <1>3, <1>4, <1>5

\* The apply loop.
LEMMA ApplyCommittedTracks ==
    ASSUME TypeOK, NEW n \in Node, ApplyCommitted(n)
    PROVE  TrackStep
<1> DEFINE s == node[n]
           r == apply_one(s, n)
<1>1. s \in RaftNodeRecord /\ applying(s)
  BY DEF TypeOK, ApplyCommitted
<1>2. Step(n, r, {})
  BY DEF ApplyCommitted
<1>3. r \in RaftNodeRecord
  BY <1>1, ApplyOne DEF Sound
<1>4. Rests(s, r) /\ (NamesOldMembers(s) => Tracks(n, s, r))
  BY <1>1, ApplyTracks
<1>5. {} \in SUBSET msgs
  OBVIOUS
<1> HIDE DEF r
<1> QED
  BY <1>2, <1>3, <1>4, <1>5 DEF TrackStep

\* The transfer thread.
LEMMA TransferStepsTrack ==
    ASSUME TypeOK, NEW n \in Node, TransferBegin(n) \/ TransferResume(n) \/ TransferFinish(n)
    PROVE  TrackStep
<1> DEFINE s == node[n]
<1>1. s \in RaftNodeRecord /\ \A e \in Faults : e \in Env
  BY FaultType DEF TypeOK
\* The thread may set its own fields.
<1>2. ASSUME NEW b \in RaftNodeRecord, NEW x \in BOOLEAN, NEW t \in Transfer
      PROVE  LET q == [b EXCEPT !.transferring = x, !.transfer = t]
             IN  q \in RaftNodeRecord /\ Sound(b, q) /\ Tracks(n, b, q) /\ q.transfer = t
  <2> DEFINE q == [b EXCEPT !.transferring = x, !.transfer = t]
  <2>1. Sound(b, q) /\ q \in RaftNodeRecord
    BY <1>2, TransferStep DEF Sound
  <2>2. Only({"transferring", "transfer"}, b, q) /\ q.transfer = t
    BY <1>2 DEF RaftNodeRecord, Only, FieldNames
  <2>3. {"transferring", "transfer"} \cap Watched = {}
    BY DEF Watched
  <2> HIDE DEF q
  <2>4. Tracks(n, b, q)
    BY <2>2, <2>3, Unwatched
  <2> QED
    BY <2>1, <2>2, <2>4 DEF q
<1>3. CASE TransferBegin(n)
  <2> DEFINE t(target) == [pc |-> "replicating", target |-> target,
                           last_idx |-> last_index(s), round |-> 0, term |-> s.current_term]
             b(target) == [s EXCEPT !.transferring = TRUE, !.transfer = t(target)]
  <2>1. PICK target \in quorum_set(s) \ {n}, e \in Faults :
          Step(n, transfer_round(b(target), n, e, caught_up(b(target), t(target))), {})
    BY <1>3 DEF TransferBegin
  <2>2. t(target) \in Transferring
    <3>1. target \in Node
      BY <1>1, Fields DEF quorum_set
    <3> QED
      BY <1>1, <3>1, Fields, LastIndex DEF Transferring
  <2> DEFINE u == t(target)
             q == [s EXCEPT !.transferring = TRUE, !.transfer = u]
             c == caught_up(q, u)
             r == transfer_round(q, n, e, c)
  <2>3. c \in BOOLEAN
    BY DEF caught_up
  <2>4. Step(n, r, {})
    BY <2>1
  <2>5. u \in Transferring /\ u \in Transfer
    BY <2>2 DEF Transfer
  <2> HIDE DEF u, s
  <2>6. q \in RaftNodeRecord /\ Sound(s, q) /\ Tracks(n, s, q) /\ q.transfer = u
    BY <1>1, <1>2, <2>5
  <2> HIDE DEF q, c
  <2>7. Sound(q, r) /\ Tracks(n, q, r)
    BY <1>1, <2>3, <2>5, <2>6, TransferRound, TransferTracks
  <2> HIDE DEF r
  <2>8. Sound(s, r) /\ Tracks(n, s, r)
    BY <1>1, <2>6, <2>7, KeepsTrans, TracksTrans
  <2> QED
    BY <2>4, <2>8, ByTracks DEF s
<1>4. CASE TransferResume(n)
  <2> DEFINE q == [s EXCEPT !.transferring = FALSE, !.transfer = NoTransfer]
  <2>1. s.transfer \in Transferring
    <3>1. s.transfer \in Transfer /\ s.transfer.pc = "replicating"
      BY <1>1, <1>4, Fields DEF TransferResume
    <3> QED
      BY <3>1 DEF Transfer, NoTransfer
  <2>2. \/ Step(n, q, {})
        \/ \E c \in BOOLEAN, e \in Faults : Step(n, transfer_round(s, n, e, c), {})
    <3>1. caught_up(s, s.transfer) \in BOOLEAN
      BY DEF caught_up
    <3> QED
      BY <1>4, <3>1 DEF TransferResume
  <2> HIDE DEF s
  <2>3. Sound(s, q) /\ Tracks(n, s, q)
    BY <1>1, <1>2, NoTransferType
  <2> HIDE DEF q
  <2>4. \A c \in BOOLEAN, e \in Faults : LET r == transfer_round(s, n, e, c)
                                        IN  Sound(s, r) /\ Tracks(n, s, r)
    BY <1>1, <2>1, TransferRound, TransferTracks
  <2>5. PICK r : Step(n, r, {}) /\ Sound(s, r) /\ Tracks(n, s, r)
    BY <2>2, <2>3, <2>4
  <2> QED
    BY <2>5, ByTracks DEF s
<1>5. CASE TransferFinish(n)
  <2> DEFINE done == IF s.state = "Leader" THEN become_follower(s, s.current_term) ELSE s
             r == [done EXCEPT !.transferring = FALSE, !.transfer = NoTransfer]
  <2>1. Step(n, r, {})
    BY <1>5 DEF TransferFinish
  <2>2. Sound(s, done) /\ Tracks(n, s, done) /\ done \in RaftNodeRecord
    BY <1>1, Fields, BecomeFollower, FollowerTracks, KeepsRefl, TracksRefl DEF Sound
  <2> HIDE DEF done, s
  <2>3. Sound(done, r) /\ Tracks(n, done, r)
    BY <1>2, <2>2, NoTransferType
  <2> HIDE DEF r
  <2>4. Sound(s, r) /\ Tracks(n, s, r)
    BY <1>1, <2>2, <2>3, KeepsTrans, TracksTrans
  <2> QED
    BY <2>1, <2>4, ByTracks DEF s
<1> QED
  BY <1>3, <1>4, <1>5

\* Stopping and starting the node.
LEMMA LifecycleTracks ==
    ASSUME TypeOK, NEW n \in Node, Shutdown(n) \/ Start(n)
    PROVE  TrackStep
<1> DEFINE s == node[n]
<1>1. s \in RaftNodeRecord
  BY DEF TypeOK
<1>a. kNoLeader \in RaftNodeId /\ "Follower" \in RaftNodeState
  BY DEF RaftNodeId, RaftNodeState
<1>2. CASE Shutdown(n)
  <2> DEFINE fs == IF s.state = "Leader" THEN [p \in Node |-> Untracked] ELSE s.follower_states
             r == [s EXCEPT !.running = FALSE, !.state = "Follower", !.leader_id = kNoLeader,
                            !.transferring = FALSE, !.follower_states = fs]
  <2>1. Step(n, r, {})
    BY <1>2 DEF Shutdown
  <2> HIDE DEF s
  <2>2. /\ fs \in [Node -> FollowerState]
        /\ s.state = "Leader" => \A p \in Node : ~fs[p].tracked
        /\ s.state # "Leader" => fs = s.follower_states
    BY <1>1, Fields, NewFollower DEF Untracked
  <2> HIDE DEF fs
  <2>3. r \in RaftNodeRecord
    BY <1>1, <1>a, <2>2, Update
  <2>4. /\ r.current_term = s.current_term /\ r.voted_for = s.voted_for
        /\ r.state = "Follower" /\ r.follower_states = fs
    BY <1>1 DEF RaftNodeRecord
  <2> HIDE DEF r
  <2>5. Sound(s, r)
    BY <1>1, <2>3, <2>4, Fields DEF Sound, Keeps
  <2>6. Tracks(n, s, r)
    BY <2>2, <2>4 DEF Tracks, Rests, Idles, Covers
  <2> QED
    BY <2>1, <2>5, <2>6, ByTracks DEF s
<1>3. CASE Start(n)
  <2> DEFINE r == [s EXCEPT !.running = TRUE, !.state = "Follower", !.leader_id = kNoLeader]
  <2>1. Step(n, r, {}) /\ ~s.running
    BY <1>3 DEF Start
  <2> HIDE DEF s
  <2>2. r \in RaftNodeRecord
    BY <1>1, <1>a, Update
  <2>3. /\ r.current_term = s.current_term /\ r.voted_for = s.voted_for
        /\ r.state = "Follower" /\ r.follower_states = s.follower_states /\ r.running
    BY <1>1 DEF RaftNodeRecord
  <2> HIDE DEF r
  <2>4. Sound(s, r)
    BY <1>1, <2>2, <2>3, Fields DEF Sound, Keeps
  <2>5. Tracks(n, s, r)
    BY <2>1, <2>3 DEF Tracks, Rests, Idles, Covers
  <2> QED
    BY <2>1, <2>4, <2>5, ByTracks DEF s
<1> QED
  BY <1>2, <1>3

\* Every step of the system is a restart or keeps the map in order.
LEMMA NextTracks ==
    ASSUME TypeOK, Next
    PROVE  TrackStep \/ \E n \in Node : Restart(n)
<1>1. PICK n \in Node :
        \/ ElectionTimeout(n) \/ HeartbeatTick(n) \/ StepDown(n)
        \/ \E v \in UserCommand : propose(n, [type |-> "User", payload |-> v])
        \/ \E c \in ConfigChange : propose(n, c)
        \/ HandleRequestVote(n) \/ HandleAppendEntries(n)
        \/ HandleRequestVoteResponse(n) \/ HandleAppendEntriesResponse(n)
        \/ ApplyCommitted(n) \/ TransferBegin(n) \/ TransferResume(n) \/ TransferFinish(n)
        \/ Shutdown(n) \/ Start(n) \/ Restart(n)
  BY DEF Next
<1>2. \A v \in UserCommand : [type |-> "User", payload |-> v] \in ClientCommand
  BY DEF ClientCommand
<1>3. \A c \in ConfigChange : c \in ClientCommand
  BY DEF ClientCommand
<1> QED
  BY <1>1, <1>2, <1>3, ThreadsTrack, HandlersTrack, ApplyCommittedTracks, TransferStepsTrack,
     LifecycleTracks

AllIdle == \A n \in Node : Idles(node[n])
AllCover == \A n \in Node : Covers(n, node[n])

\* No leader applies a joint configuration whose old members it does not know: the entry
\* was proposed for the configuration it is applied to.
OldMembersCurrent == \A n \in Node : NamesOldMembers(node[n])

\* A node just built tracks nobody.
LEMMA FreshTracks ==
    ASSUME NEW n, NEW log
    PROVE  Idles(fresh(log)) /\ Covers(n, fresh(log))
BY DEF fresh, Idles, Covers, Untracked

\* Nobody leads at first.
LEMMA InitTracks == Init => AllIdle /\ AllCover
<1> SUFFICES ASSUME Init, NEW n \in Node PROVE Idles(node[n]) /\ Covers(n, node[n])
  BY DEF AllIdle, AllCover
<1>1. /\ node[n].state = "Follower" /\ node[n].running
      /\ \A p \in Node : ~node[n].follower_states[p].tracked
  BY DEF Init, fresh, Untracked
<1> QED
  BY <1>1 DEF Idles, Covers

\* Both halves are kept by every step, the second while old members are known.
LEMMA NextTracking ==
    ASSUME TypeOK, [Next]_vars, AllIdle
    PROVE  /\ AllIdle'
           /\ AllCover /\ OldMembersCurrent => AllCover'
<1>1. CASE UNCHANGED vars
  <2>1. node' = node
    BY <1>1 DEF vars
  <2> QED
    BY <2>1 DEF AllIdle, AllCover
<1>2. ASSUME TrackStep PROVE AllIdle' /\ (AllCover /\ OldMembersCurrent => AllCover')
  <2>1. PICK n \in Node, r \in RaftNodeRecord, taken \in SUBSET msgs :
          /\ Step(n, r, taken) /\ Rests(node[n], r)
          /\ NamesOldMembers(node[n]) => Tracks(n, node[n], r)
    BY <1>2 DEF TrackStep
  <2>2. /\ Only({"out"}, r, node'[n]) /\ \A p \in Node : p # n => node'[p] = node[p]
    BY <2>1, StepFrame
  <2>3. {"out"} \cap Watched = {}
    BY DEF Watched
  <2>4. Tracks(n, r, node'[n])
    BY <2>2, <2>3, Unwatched
  <2>5. \A p \in Node : Idles(node'[p])
    BY <2>1, <2>2, <2>4 DEF AllIdle, Tracks, Rests
  <2>6. AllCover /\ OldMembersCurrent => \A p \in Node : Covers(p, node'[p])
    BY <2>1, <2>2, <2>4 DEF AllIdle, AllCover, OldMembersCurrent, Tracks, Rests
  <2> QED
    BY <2>5, <2>6 DEF AllIdle, AllCover
<1>3. ASSUME NEW n \in Node, Restart(n) PROVE AllIdle' /\ (AllCover => AllCover')
  <2>1. node' = [node EXCEPT ![n] = fresh(node[n].log)] /\ node \in [Node -> RaftNodeRecord]
    BY <1>3 DEF Restart, TypeOK
  <2>2. /\ node'[n] = fresh(node[n].log)
        /\ \A p \in Node : p # n => node'[p] = node[p]
    BY <2>1
  <2>3. /\ \A p \in Node : Idles(node'[p])
        /\ AllCover => \A p \in Node : Covers(p, node'[p])
    BY <2>2, FreshTracks DEF AllIdle, AllCover
  <2> QED
    BY <2>3 DEF AllIdle, AllCover
<1> QED
  BY <1>1, <1>2, <1>3, NextTracks

\* follower_states_ is empty on every node that does not lead: no path out of leadership
\* (a higher term, removal, a transfer, a full disk, a shutdown, a crash) leaves progress
\* behind.
THEOREM OnlyLeadersTrack ==
    Spec => [](\A n \in Node : node[n].state # "Leader" =>
                 \A p \in Node : ~node[n].follower_states[p].tracked)
<1>1. Init => AllIdle
  BY InitTracks
<1>2. TypeOK /\ AllIdle /\ [Next]_vars => AllIdle'
  BY NextTracking
<1>3. AllIdle => \A n \in Node : node[n].state # "Leader" =>
                   \A p \in Node : ~node[n].follower_states[p].tracked
  BY DEF AllIdle, Idles
<1> QED
  BY <1>1, <1>2, <1>3, TypeCorrect, PTL DEF Spec

\* As long as joint entries are applied to the configuration they were proposed for, a
\* leader tracks every other member of its configuration from its election on, and a node
\* that does not lead tracks nobody.
THEOREM TrackingFollowsRole ==
    Spec /\ []OldMembersCurrent => []TrackingMatchesRole
<1>1. Init => AllIdle /\ AllCover
  BY InitTracks
<1>2. TypeOK /\ OldMembersCurrent /\ AllIdle /\ AllCover /\ [Next]_vars => AllIdle' /\ AllCover'
  BY NextTracking
<1>3. AllIdle /\ AllCover => TrackingMatchesRole
  BY DEF AllIdle, AllCover, Idles, Covers, quorum_set, TrackingMatchesRole
<1> QED
  BY <1>1, <1>2, <1>3, TypeCorrect, PTL DEF Spec

\* Joint changes that only add members name no old member that is not a new one too.
JointChangesOnlyAdd ==
    \A c \in ConfigChange : c.joint_consensus => c.old_members \subseteq c.new_members

\* TrackingMatchesRole with nothing left to assume about a run, in every cluster whose
\* joint changes only add members, or that is never reconfigured: across late and
\* duplicated messages, transfers, shutdowns, crashes and failing disks.
THEOREM TrackingFollowsRoleWhenGrowing ==
    ASSUME JointChangesOnlyAdd
    PROVE  Spec => []TrackingMatchesRole
<1>1. TypeOK /\ SentCommands => OldMembersCurrent
  <2> SUFFICES ASSUME TypeOK, SentCommands, NEW n \in Node, applying(node[n]),
                      LET cmd == node[n].log[node[n].last_applied + 1].command
                      IN  cmd.type = "ConfigChange" /\ cmd.joint_consensus
               PROVE  LET cmd == node[n].log[node[n].last_applied + 1].command
                      IN  cmd.old_members \subseteq cmd.new_members
    BY DEF OldMembersCurrent, NamesOldMembers
  <2> DEFINE i == node[n].last_applied + 1
             cmd == node[n].log[i].command
  <2>1. node[n] \in RaftNodeRecord
    BY DEF TypeOK
  <2>2. i \in 1..Len(node[n].log)
    BY <2>1, Fields DEF applying, last_index
  <2>3. cmd \in Command
    BY <2>2 DEF SentCommands, CommandsInv
  <2>4. cmd.type = "ConfigChange" /\ cmd.joint_consensus
    OBVIOUS
  <2> SUFFICES cmd.old_members \subseteq cmd.new_members
    OBVIOUS
  <2> HIDE DEF cmd
  <2>5. cmd \in ConfigChange
    BY <2>3, <2>4 DEF Command, ClientCommand, NoOpCommand, seed
  <2> QED
    BY <2>4, <2>5 DEF JointChangesOnlyAdd
<1>2. Spec => []SentCommands
  BY InitCommands, NextCommands, TypeCorrect, PTL DEF Spec
<1>3. Spec => []OldMembersCurrent
  BY <1>1, <1>2, TypeCorrect, PTL
<1>4. Spec /\ []OldMembersCurrent => []TrackingMatchesRole
  BY TrackingFollowsRole
<1> QED
  BY <1>3, <1>4, PTL
===============================================================================
