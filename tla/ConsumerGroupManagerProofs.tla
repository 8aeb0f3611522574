---------------------- MODULE ConsumerGroupManagerProofs ----------------------
(***************************************************************************)
(* What the group coordinator guarantees for every number of threads,      *)
(* groups and members, every limit and every bound: its type invariant,    *)
(* one leader per group, and that a generation stands for one membership.  *)
(*                                                                         *)
(* Every operation is an operator on one GroupMetadata.  Coherent says     *)
(* what is true of a group between operations, together with the history   *)
(* of its last Stable generation; each operator gets a lemma that it keeps *)
(* the group well typed and coherent.  A step of the system then reduces   *)
(* to one of those lemmas, or erases groups, or leaves them alone.         *)
(***************************************************************************)
EXTENDS ConsumerGroupManager, TLAPS

Led(g) ==
    IF g.members = {} THEN g.state = "Empty"
    ELSE g.state # "Empty" /\ g.leader_id \in g.members /\ g.is_leader = {g.leader_id}

\* The generation of a group against the last one that was Stable.
Ahead(g, last) ==
    /\ g.state = "Empty" => last = NeverStable
    /\ g.state = "Stable" => last = [generation |-> g.generation, members |-> g.members]
    /\ g.state = "PreparingRebalance" => g.generation >= last.generation
    /\ g.state = "CompletingRebalance" => g.generation > last.generation

Coherent(g, last) ==
    /\ Led(g)
    /\ g.is_leader \subseteq g.members
    /\ g.awaiting_sync \subseteq g.members
    /\ all_members_joined(g)
    /\ g.state = "Stable" => all_members_synced(g)
    /\ Ahead(g, last)

Last == [generation : Nat, members : SUBSET Member]

\* A legal step of one group with its history.
Fresh(last, last2) == last2 \notin {last, NeverStable} => last2.generation > last.generation
Legal(g, last, h) ==
    /\ h \in GroupMetadata
    /\ settled(g, h, last) \in Last
    /\ Coherent(h, settled(g, h, last))
    /\ Fresh(last, settled(g, h, last))
-----------------------------------------------------------------------------
\* The type of every field of a group.
LEMMA GroupFields ==
    ASSUME NEW g \in GroupMetadata
    PROVE /\ g.state \in GroupState /\ g.generation \in Nat
          /\ g.leader_id \in Member \cup {None} /\ g.members \in SUBSET Member
          /\ g.member_generation \in [Member -> Nat \cup {-1}]
          /\ g.is_leader \in SUBSET Member /\ g.awaiting_sync \in SUBSET Member
          /\ g.expired \in SUBSET Member /\ g.aged \in BOOLEAN
BY DEF GroupMetadata

\* Electing a member (elected).
LEMMA ElectedSound ==
    ASSUME NEW g \in GroupMetadata, NEW m \in Member
    PROVE /\ elected(g, m) \in GroupMetadata
          /\ elected(g, m).state = g.state /\ elected(g, m).generation = g.generation
          /\ elected(g, m).leader_id = m /\ elected(g, m).is_leader = g.is_leader \cup {m}
          /\ elected(g, m).members = g.members
          /\ elected(g, m).member_generation = g.member_generation
          /\ elected(g, m).awaiting_sync = g.awaiting_sync
BY DEF elected, GroupMetadata

\* Calling all members to sync (the loops at the end of join_group).
LEMMA CalledSound ==
    ASSUME NEW g \in GroupMetadata
    PROVE /\ called_to_sync(g) \in GroupMetadata
          /\ called_to_sync(g).state = g.state /\ called_to_sync(g).generation = g.generation
          /\ called_to_sync(g).leader_id = g.leader_id
          /\ called_to_sync(g).is_leader = g.is_leader
          /\ called_to_sync(g).members = g.members
          /\ called_to_sync(g).awaiting_sync = g.members
          /\ \A m \in g.members : called_to_sync(g).member_generation[m] = g.generation
<1>1. g.members \in SUBSET Member /\ g.generation \in Nat
      /\ g.member_generation \in [Member -> Nat \cup {-1}]
  BY GroupFields
<1> DEFINE mg == [m \in Member |-> IF m \in g.members THEN g.generation
                                   ELSE g.member_generation[m]]
<1>2. mg \in [Member -> Nat \cup {-1}] /\ \A m \in g.members : mg[m] = g.generation
  BY <1>1
<1>3. called_to_sync(g) = [g EXCEPT !.awaiting_sync = g.members, !.member_generation = mg]
  BY DEF called_to_sync, GroupMetadata
<1> HIDE DEF mg
<1>4. called_to_sync(g) \in GroupMetadata
  BY <1>1, <1>2, <1>3 DEF GroupMetadata
<1>5. called_to_sync(g).member_generation = mg /\ called_to_sync(g).awaiting_sync = g.members
  BY <1>3 DEF GroupMetadata
<1>6. /\ called_to_sync(g).state = g.state /\ called_to_sync(g).generation = g.generation
      /\ called_to_sync(g).leader_id = g.leader_id
      /\ called_to_sync(g).is_leader = g.is_leader
      /\ called_to_sync(g).members = g.members
  BY <1>3 DEF GroupMetadata
<1> QED
  BY <1>2, <1>4, <1>5, <1>6

\* Phase 2 of join_group (registered).
LEMMA RegisteredSound ==
    ASSUME NEW g \in GroupMetadata, NEW m \in Member,
           g.awaiting_sync \subseteq g.members, all_members_joined(g)
    PROVE /\ registered(g, m) \in GroupMetadata
          /\ registered(g, m).state = g.state /\ registered(g, m).generation = g.generation
          /\ registered(g, m).leader_id = g.leader_id
          /\ registered(g, m).is_leader = g.is_leader
          /\ registered(g, m).members = g.members \cup {m}
          /\ registered(g, m).awaiting_sync \subseteq g.members \cup {m}
          /\ all_members_joined(registered(g, m))
<1>1. g.members \in SUBSET Member /\ g.generation \in Nat /\ g.awaiting_sync \in SUBSET Member
      /\ g.member_generation \in [Member -> Nat \cup {-1}] /\ g.expired \in SUBSET Member
  BY GroupFields
<1> DEFINE mg == [g.member_generation EXCEPT ![m] = g.generation]
<1>2. mg \in [Member -> Nat \cup {-1}] /\ \A x \in g.members \cup {m} : mg[x] = g.generation
  BY <1>1 DEF all_members_joined
<1>3. CASE m \in g.members
  <2> DEFINE aw == IF Rebalancing(g) THEN g.awaiting_sync \cup {m} ELSE g.awaiting_sync
  <2>1. aw \in SUBSET Member /\ aw \subseteq g.members \cup {m}
    BY <1>1
  <2>2. registered(g, m) = [g EXCEPT !.expired = g.expired \ {m}, !.member_generation = mg,
                                     !.awaiting_sync = aw]
    BY <1>3 DEF registered, GroupMetadata
  <2>3. g.members = g.members \cup {m}
    BY <1>3
  <2> HIDE DEF mg, aw
  <2> QED
    BY <1>1, <1>2, <2>1, <2>2, <2>3 DEF GroupMetadata, all_members_joined
<1>4. CASE m \notin g.members
  <2> DEFINE ms == g.members \cup {m}
             aw == g.awaiting_sync \cup {m}
  <2>1. registered(g, m) = [g EXCEPT !.members = ms, !.member_generation = mg,
                                     !.awaiting_sync = aw]
    BY <1>4 DEF registered, GroupMetadata
  <2>a. ms \in SUBSET Member /\ aw \in SUBSET Member
    BY <1>1
  <2>b. ms = g.members \cup {m} /\ aw = g.awaiting_sync \cup {m}
    OBVIOUS
  <2> HIDE DEF mg, ms, aw
  <2>2. registered(g, m) \in GroupMetadata
    BY <1>2, <2>1, <2>a DEF GroupMetadata
  <2>3. /\ registered(g, m).state = g.state /\ registered(g, m).generation = g.generation
        /\ registered(g, m).leader_id = g.leader_id
        /\ registered(g, m).is_leader = g.is_leader
        /\ registered(g, m).members = ms
        /\ registered(g, m).awaiting_sync = aw
        /\ registered(g, m).member_generation = mg
    BY <2>1 DEF GroupMetadata
  <2> QED
    BY <1>2, <2>2, <2>3, <2>b DEF all_members_joined
<1> QED
  BY <1>3, <1>4

\* An Empty group that is joined (first case of join_group's switch).
LEMMA FirstJoined ==
    ASSUME NEW g \in GroupMetadata, NEW m \in Member,
           g.members = {m}, g.is_leader = {}, g.awaiting_sync \subseteq {m}
    PROVE /\ first_joined(g, m) \in GroupMetadata
          /\ first_joined(g, m).state = "Stable"
          /\ first_joined(g, m).generation = g.generation + 1
          /\ Led(first_joined(g, m)) /\ first_joined(g, m).members = {m}
          /\ first_joined(g, m).is_leader \subseteq {m}
          /\ first_joined(g, m).awaiting_sync = {}
          /\ all_members_joined(first_joined(g, m))
<1> DEFINE e == elected(g, m)
           mg == [g.member_generation EXCEPT ![m] = g.generation + 1]
           aw == g.awaiting_sync \ {m}
           f == [e EXCEPT !.state = "Stable", !.generation = g.generation + 1, !.aged = FALSE,
                          !.awaiting_sync = aw, !.member_generation = mg]
<1>1. /\ e \in GroupMetadata /\ e.generation = g.generation /\ e.leader_id = m
      /\ e.is_leader = {m} /\ e.members = {m} /\ e.member_generation = g.member_generation
      /\ e.awaiting_sync = g.awaiting_sync
  BY ElectedSound
<1>2. first_joined(g, m) = f
  BY <1>1 DEF first_joined, GroupMetadata
<1>3. /\ mg \in [Member -> Nat \cup {-1}] /\ mg[m] = g.generation + 1
      /\ g.generation + 1 \in Nat /\ aw = {}
  BY GroupFields
<1> HIDE DEF e, mg, aw
<1>4. f \in GroupMetadata
  BY <1>1, <1>3 DEF GroupMetadata, GroupState
<1>5. /\ f.state = "Stable" /\ f.generation = g.generation + 1 /\ f.leader_id = m
      /\ f.is_leader = {m} /\ f.members = {m} /\ f.member_generation = mg /\ f.awaiting_sync = {}
  BY <1>1, <1>3 DEF GroupMetadata
<1> HIDE DEF f
<1> QED
  BY <1>2, <1>3, <1>4, <1>5 DEF Led, all_members_joined

\* A Stable group that is joined (second case).
LEMMA StableJoined ==
    ASSUME NEW g \in GroupMetadata, NEW m \in Member, m \in g.members,
           g.leader_id \in g.members, g.is_leader = {g.leader_id}
    PROVE /\ stable_joined(g, m) \in GroupMetadata
          /\ stable_joined(g, m).state = "PreparingRebalance"
          /\ stable_joined(g, m).generation = g.generation
          /\ stable_joined(g, m).members = g.members
          /\ stable_joined(g, m).is_leader \subseteq g.members
          /\ stable_joined(g, m).awaiting_sync = g.members
          /\ all_members_joined(stable_joined(g, m)) /\ Led(stable_joined(g, m))
<1> DEFINE e == elected(g, g.leader_id)
           p == [e EXCEPT !.state = "PreparingRebalance"]
           c == called_to_sync(p)
<1>1. g.leader_id \in Member
  BY GroupFields
<1>2. stable_joined(g, m) = c
  BY DEF stable_joined
<1>3. /\ e \in GroupMetadata /\ e.generation = g.generation /\ e.leader_id = g.leader_id
      /\ e.is_leader = {g.leader_id} /\ e.members = g.members
  BY <1>1, ElectedSound
<1> HIDE DEF e
<1>4. p \in GroupMetadata
  BY <1>3 DEF GroupMetadata, GroupState
<1>5. /\ p.state = "PreparingRebalance" /\ p.generation = g.generation
      /\ p.leader_id = g.leader_id /\ p.is_leader = {g.leader_id} /\ p.members = g.members
  BY <1>3 DEF GroupMetadata
<1> HIDE DEF p
<1>6. /\ c \in GroupMetadata /\ c.state = p.state /\ c.generation = p.generation
      /\ c.leader_id = p.leader_id /\ c.is_leader = p.is_leader /\ c.members = p.members
      /\ c.awaiting_sync = p.members
      /\ \A x \in p.members : c.member_generation[x] = p.generation
  BY <1>4, CalledSound
<1> HIDE DEF c
<1> QED
  BY <1>2, <1>5, <1>6 DEF Led, all_members_joined

\* A rebalancing group that is joined (third case): everybody is on its generation, so it
\* moves on at once.
LEMMA RebalanceJoined ==
    ASSUME NEW g \in GroupMetadata, NEW m \in Member, m \in g.members, all_members_joined(g),
           g.leader_id \in g.members, g.is_leader = {g.leader_id}
    PROVE /\ rebalance_joined(g, m) \in GroupMetadata
          /\ rebalance_joined(g, m).state = "CompletingRebalance"
          /\ rebalance_joined(g, m).generation = g.generation + 1
          /\ rebalance_joined(g, m).members = g.members
          /\ rebalance_joined(g, m).is_leader \subseteq g.members
          /\ rebalance_joined(g, m).awaiting_sync = g.members
          /\ all_members_joined(rebalance_joined(g, m)) /\ Led(rebalance_joined(g, m))
<1> DEFINE p == [g EXCEPT !.state = "CompletingRebalance", !.generation = g.generation + 1]
           c == called_to_sync(p)
<1>1. rebalance_joined(g, m) = c
  BY DEF rebalance_joined, GroupMetadata
<1>2. g.generation + 1 \in Nat
  BY GroupFields
<1>3. p \in GroupMetadata
  BY <1>2 DEF GroupMetadata, GroupState
<1>4. /\ p.state = "CompletingRebalance" /\ p.generation = g.generation + 1
      /\ p.leader_id = g.leader_id /\ p.is_leader = g.is_leader /\ p.members = g.members
  BY DEF GroupMetadata
<1> HIDE DEF p
<1>5. /\ c \in GroupMetadata /\ c.state = p.state /\ c.generation = p.generation
      /\ c.leader_id = p.leader_id /\ c.is_leader = p.is_leader /\ c.members = p.members
      /\ c.awaiting_sync = p.members
      /\ \A x \in p.members : c.member_generation[x] = p.generation
  BY <1>3, CalledSound
<1> HIDE DEF c
<1> QED
  BY <1>1, <1>4, <1>5 DEF Led, all_members_joined

\* join_group is a legal step of its group.
LEMMA JoinedLegal ==
    ASSUME NEW g \in GroupMetadata, NEW last \in Last, NEW m \in Member, Coherent(g, last)
    PROVE  Legal(g, last, joined(g, m))
<1> DEFINE r == registered(g, m)
           j == joined(g, m)
           s == settled(g, j, last)
<1>0. j = joined(g, m)
  OBVIOUS
<1>1. /\ r \in GroupMetadata /\ r.state = g.state /\ r.generation = g.generation
      /\ r.leader_id = g.leader_id /\ r.is_leader = g.is_leader /\ r.members = g.members \cup {m}
      /\ r.awaiting_sync \subseteq g.members \cup {m} /\ all_members_joined(r)
  BY RegisteredSound DEF Coherent
<1>2. g.state \in GroupState /\ g.generation \in Nat /\ g.members \in SUBSET Member
      /\ last.generation \in Nat
  BY GroupFields DEF Last
<1>3. Led(g) /\ Ahead(g, last) /\ g.is_leader \subseteq g.members
  BY DEF Coherent
<1> HIDE DEF r
<1>4. CASE g.state = "Empty"
  <2>1. j = first_joined(r, m)
    BY <1>4 DEF joined, r
  <2>2. r.members = {m} /\ r.is_leader = {} /\ r.awaiting_sync \subseteq {m} /\ last = NeverStable
    BY <1>1, <1>3, <1>4 DEF Led, Ahead
  <2> HIDE DEF j
  <2>3. /\ j \in GroupMetadata /\ j.state = "Stable" /\ j.generation = g.generation + 1
        /\ Led(j) /\ j.members = {m} /\ j.is_leader \subseteq {m} /\ j.awaiting_sync = {}
        /\ all_members_joined(j)
    BY <1>1, <2>1, <2>2, FirstJoined
  <2>4. s = [generation |-> j.generation, members |-> j.members]
    BY <1>4, <2>3 DEF settled
  <2>5. s \in Last
    BY <1>2, <2>3, <2>4 DEF Last
  <2>6. Fresh(last, s)
    BY <1>2, <2>2, <2>3, <2>4 DEF Fresh, NeverStable
  <2>7. Coherent(j, s)
    BY <2>3, <2>4 DEF Coherent, Ahead, all_members_synced
  <2> QED
    BY <1>0, <2>3, <2>5, <2>6, <2>7 DEF Legal
<1>5. CASE g.state = "Stable"
  <2>1. j = stable_joined(r, m)
    BY <1>5 DEF joined, r
  <2>2. m \in r.members /\ r.leader_id \in r.members /\ r.is_leader = {r.leader_id}
    BY <1>1, <1>3, <1>5 DEF Led
  <2> HIDE DEF j
  <2>3. /\ j \in GroupMetadata /\ j.state = "PreparingRebalance" /\ j.generation = r.generation
        /\ j.members = r.members /\ j.is_leader \subseteq r.members /\ j.awaiting_sync = r.members
        /\ all_members_joined(j) /\ Led(j)
    BY <1>1, <2>1, <2>2, StableJoined
  <2>4. s = last
    BY <2>3 DEF settled
  <2>5. last.generation = g.generation
    BY <1>3, <1>5 DEF Ahead
  <2>6. Coherent(j, s)
    BY <1>1, <1>2, <2>3, <2>4, <2>5 DEF Coherent, Ahead
  <2> QED
    BY <1>0, <2>3, <2>4, <2>6 DEF Legal, Fresh
<1>6. CASE g.state \in {"PreparingRebalance", "CompletingRebalance"}
  <2>1. j = rebalance_joined(r, m)
    BY <1>6 DEF joined, r
  <2>2. m \in r.members /\ r.leader_id \in r.members /\ r.is_leader = {r.leader_id}
    BY <1>1, <1>3, <1>6 DEF Led
  <2> HIDE DEF j
  <2>3. /\ j \in GroupMetadata /\ j.state = "CompletingRebalance"
        /\ j.generation = r.generation + 1
        /\ j.members = r.members /\ j.is_leader \subseteq r.members /\ j.awaiting_sync = r.members
        /\ all_members_joined(j) /\ Led(j)
    BY <1>1, <2>1, <2>2, RebalanceJoined
  <2>4. s = last
    BY <2>3 DEF settled
  <2>5. last.generation <= g.generation
    BY <1>2, <1>3, <1>6 DEF Ahead
  <2>6. Coherent(j, s)
    BY <1>1, <1>2, <2>3, <2>4, <2>5 DEF Coherent, Ahead
  <2> QED
    BY <1>0, <2>3, <2>4, <2>6 DEF Legal, Fresh
<1> QED
  BY <1>2, <1>4, <1>5, <1>6 DEF GroupState

\* Erasing members (the erase calls of leave_group and check_session_timeouts).
LEMMA ErasedSound ==
    ASSUME NEW g \in GroupMetadata, NEW gone \in SUBSET Member
    PROVE /\ erased(g, gone) \in GroupMetadata
          /\ erased(g, gone).state = g.state /\ erased(g, gone).generation = g.generation
          /\ erased(g, gone).leader_id = g.leader_id
          /\ erased(g, gone).members = g.members \ gone
          /\ erased(g, gone).is_leader = g.is_leader \ gone
          /\ erased(g, gone).awaiting_sync = g.awaiting_sync \ gone
          /\ \A m \in g.members \ gone :
                erased(g, gone).member_generation[m] = g.member_generation[m]
<1> DEFINE mg == [m \in Member |-> IF m \in gone THEN -1 ELSE g.member_generation[m]]
           ms == g.members \ gone
           ld == g.is_leader \ gone
           aw == g.awaiting_sync \ gone
           ex == g.expired \ gone
           e == [g EXCEPT !.members = ms, !.is_leader = ld, !.awaiting_sync = aw,
                          !.expired = ex, !.member_generation = mg]
<1>1. /\ mg \in [Member -> Nat \cup {-1}]
      /\ \A m \in ms : mg[m] = g.member_generation[m]
      /\ ms \in SUBSET Member /\ ld \in SUBSET Member /\ aw \in SUBSET Member
      /\ ex \in SUBSET Member
  BY GroupFields
<1>2. erased(g, gone) = e
  BY DEF erased, GroupMetadata
<1>3. ms = g.members \ gone /\ ld = g.is_leader \ gone /\ aw = g.awaiting_sync \ gone
  OBVIOUS
<1> HIDE DEF mg, ms, ld, aw, ex
<1>4. e \in GroupMetadata
  BY <1>1 DEF GroupMetadata
<1>5. /\ e.state = g.state /\ e.generation = g.generation /\ e.leader_id = g.leader_id
      /\ e.members = ms /\ e.is_leader = ld /\ e.awaiting_sync = aw /\ e.member_generation = mg
  BY DEF GroupMetadata
<1> HIDE DEF e
<1> QED
  BY <1>1, <1>2, <1>3, <1>4, <1>5

\* Whoever takes over from a leader that goes (heirs).
LEMMA HeirsSound ==
    ASSUME NEW g \in GroupMetadata, NEW gone \in SUBSET Member, NEW h \in heirs(g, gone),
           ~(g.members \subseteq gone), g.leader_id \in g.members, g.is_leader = {g.leader_id},
           all_members_joined(g), g.awaiting_sync \subseteq g.members
    PROVE /\ h \in GroupMetadata
          /\ h.state = g.state /\ h.generation = g.generation
          /\ h.members = g.members \ gone /\ h.awaiting_sync = g.awaiting_sync \ gone
          /\ h.leader_id \in h.members /\ h.is_leader = {h.leader_id}
          /\ all_members_joined(h)
<1> DEFINE e == erased(g, gone)
<1>1. /\ e \in GroupMetadata /\ e.state = g.state /\ e.generation = g.generation
      /\ e.leader_id = g.leader_id /\ e.members = g.members \ gone
      /\ e.is_leader = g.is_leader \ gone /\ e.awaiting_sync = g.awaiting_sync \ gone
      /\ \A m \in g.members \ gone : e.member_generation[m] = g.member_generation[m]
  BY ErasedSound
<1>2. \A m \in g.members \ gone : e.member_generation[m] = g.generation
  BY <1>1 DEF all_members_joined
<1>3. CASE gone \cap g.is_leader # {}
  <2>1. PICK m \in e.members : h = elected(e, m)
    BY <1>3 DEF heirs
  <2>2. m \in Member /\ e.is_leader = {}
    BY <1>1, <1>3, GroupFields
  <2> HIDE DEF e
  <2>3. /\ h \in GroupMetadata /\ h.state = e.state /\ h.generation = e.generation
        /\ h.leader_id = m /\ h.is_leader = {m} /\ h.members = e.members
        /\ h.member_generation = e.member_generation /\ h.awaiting_sync = e.awaiting_sync
    BY <1>1, <2>1, <2>2, ElectedSound
  <2> QED
    BY <1>1, <1>2, <2>1, <2>3 DEF all_members_joined
<1>4. CASE gone \cap g.is_leader = {}
  <2>1. h = e
    BY <1>4 DEF heirs
  <2>2. g.leader_id \notin gone
    BY <1>4
  <2> HIDE DEF e
  <2> QED
    BY <1>1, <1>2, <2>1, <2>2 DEF all_members_joined
<1> QED
  BY <1>3, <1>4

\* leave_group and check_session_timeouts make legal steps of the group.
LEMMA DepartedLegal ==
    ASSUME NEW g \in GroupMetadata, NEW last \in Last, Coherent(g, last), g.members # {},
           NEW gone \in SUBSET Member, NEW d \in departed(g, gone)
    PROVE  Legal(g, last, d)
<1> DEFINE s == settled(g, d, last)
<1>1. /\ g.state \in GroupState /\ g.generation \in Nat /\ g.members \in SUBSET Member
      /\ last.generation \in Nat /\ NeverStable \in Last
  BY GroupFields DEF Last, NeverStable
<1>2. /\ g.state # "Empty" /\ g.leader_id \in g.members /\ g.is_leader = {g.leader_id}
      /\ Ahead(g, last) /\ all_members_joined(g) /\ g.awaiting_sync \subseteq g.members
  BY DEF Coherent, Led
<1>3. CASE g.members \subseteq gone
  <2> DEFINE e == erased(g, gone)
  <2>1. d = [e EXCEPT !.state = "Empty", !.leader_id = None, !.generation = 0, !.aged = FALSE]
    BY <1>3 DEF departed
  <2>2. /\ e \in GroupMetadata /\ e.members = {} /\ e.is_leader = {} /\ e.awaiting_sync = {}
    BY <1>2, <1>3, ErasedSound
  <2> HIDE DEF e
  <2>3. d \in GroupMetadata
    BY <2>1, <2>2 DEF GroupMetadata, GroupState
  <2>4. /\ d.state = "Empty" /\ d.members = {} /\ d.is_leader = {} /\ d.awaiting_sync = {}
    BY <2>1, <2>2 DEF GroupMetadata
  <2>5. s = NeverStable
    BY <2>4 DEF settled
  <2>6. Coherent(d, s)
    BY <2>4, <2>5 DEF Coherent, Led, Ahead, all_members_joined
  <2> QED
    BY <1>1, <2>3, <2>5, <2>6 DEF Legal, Fresh
<1>4. CASE ~(g.members \subseteq gone) /\ g.state = "Stable"
  <2>1. PICK h \in heirs(g, gone) :
            d = [h EXCEPT !.state = "PreparingRebalance", !.awaiting_sync = h.members]
    BY <1>4 DEF departed
  <2>2. /\ h \in GroupMetadata /\ h.generation = g.generation
        /\ h.members = g.members \ gone
        /\ h.leader_id \in h.members /\ h.is_leader = {h.leader_id} /\ all_members_joined(h)
    BY <1>2, <1>4, HeirsSound
  <2>3. h.members \in SUBSET Member
    BY <2>2, GroupFields
  <2>4. d \in GroupMetadata
    BY <2>1, <2>2, <2>3 DEF GroupMetadata, GroupState
  <2>5. /\ d.state = "PreparingRebalance" /\ d.generation = g.generation
        /\ d.members = h.members /\ d.leader_id = h.leader_id /\ d.is_leader = h.is_leader
        /\ d.awaiting_sync = h.members /\ d.member_generation = h.member_generation
    BY <2>1, <2>2 DEF GroupMetadata
  <2>6. s = last /\ last.generation = g.generation
    BY <1>2, <1>4, <2>5 DEF settled, Ahead
  <2>7. all_members_joined(d) /\ Led(d)
    BY <2>2, <2>5 DEF all_members_joined, Led
  <2>8. Coherent(d, s)
    BY <1>1, <2>2, <2>5, <2>6, <2>7 DEF Coherent, Ahead
  <2> QED
    BY <2>4, <2>6, <2>8 DEF Legal, Fresh
<1>5. CASE ~(g.members \subseteq gone) /\ g.state # "Stable"
  <2>1. d \in heirs(g, gone)
    BY <1>5 DEF departed
  <2>2. /\ d \in GroupMetadata /\ d.state = g.state /\ d.generation = g.generation
        /\ d.members = g.members \ gone /\ d.awaiting_sync = g.awaiting_sync \ gone
        /\ d.leader_id \in d.members /\ d.is_leader = {d.leader_id} /\ all_members_joined(d)
    BY <1>2, <1>5, <2>1, HeirsSound
  <2>3. s = last
    BY <1>2, <1>5, <2>2 DEF settled
  <2>4. Coherent(d, s)
    BY <1>2, <1>5, <2>2, <2>3 DEF Coherent, Ahead, Led
  <2> QED
    BY <2>2, <2>3, <2>4 DEF Legal, Fresh
<1> QED
  BY <1>3, <1>4, <1>5

\* sync_group is a legal step of its group: it is Stable when the last member has synced.
LEMMA SyncedLegal ==
    ASSUME NEW g \in GroupMetadata, NEW last \in Last, Coherent(g, last),
           g.state = "CompletingRebalance", NEW m \in g.members
    PROVE  Legal(g, last, synced(g, m))
<1> DEFINE aw == g.awaiting_sync \ {m}
           h == [g EXCEPT !.awaiting_sync = aw]
           d == synced(g, m)
           s == settled(g, d, last)
<1>0. d = synced(g, m) /\ aw \in SUBSET Member /\ aw \subseteq g.members
  BY GroupFields DEF Coherent
<1>1. /\ g.generation \in Nat /\ g.members \in SUBSET Member
      /\ last.generation \in Nat /\ g.generation > last.generation
  BY GroupFields DEF Last, Coherent, Ahead
<1>2. d = IF all_members_synced(h) THEN [h EXCEPT !.state = "Stable"] ELSE h
  BY DEF synced, GroupMetadata
<1> HIDE DEF d, aw
<1>3. h \in GroupMetadata
  BY <1>0 DEF GroupMetadata
<1>4. /\ h.state = "CompletingRebalance" /\ h.generation = g.generation /\ h.members = g.members
      /\ h.leader_id = g.leader_id /\ h.is_leader = g.is_leader /\ h.awaiting_sync = aw
      /\ h.member_generation = g.member_generation
  BY DEF GroupMetadata
<1> HIDE DEF h
<1>5. Led(h) /\ all_members_joined(h)
  BY <1>4 DEF Coherent, Led, all_members_joined
<1>6. CASE all_members_synced(h)
  <2>1. d = [h EXCEPT !.state = "Stable"]
    BY <1>2, <1>6
  <2>2. d \in GroupMetadata
    BY <1>3, <2>1 DEF GroupMetadata, GroupState
  <2>3. /\ d.state = "Stable" /\ d.generation = h.generation /\ d.members = h.members
        /\ d.leader_id = h.leader_id /\ d.is_leader = h.is_leader
        /\ d.awaiting_sync = h.awaiting_sync /\ d.member_generation = h.member_generation
    BY <1>3, <2>1 DEF GroupMetadata
  <2>4. s = [generation |-> d.generation, members |-> d.members]
    BY <2>3 DEF settled
  <2>5. s \in Last
    BY <1>1, <1>4, <2>3, <2>4 DEF Last
  <2>6. Fresh(last, s)
    BY <1>1, <1>4, <2>3, <2>4 DEF Fresh
  <2>7. Led(d) /\ all_members_joined(d) /\ all_members_synced(d)
    BY <1>4, <1>5, <1>6, <2>3 DEF Led, all_members_joined, all_members_synced
  <2>8. Coherent(d, s)
    BY <1>0, <1>4, <2>3, <2>4, <2>7 DEF Coherent, Ahead
  <2> QED
    BY <1>0, <2>2, <2>5, <2>6, <2>8 DEF Legal
<1>7. CASE ~all_members_synced(h)
  <2>1. d = h
    BY <1>2, <1>7
  <2>2. s = last
    BY <1>4, <2>1 DEF settled
  <2>3. Coherent(d, s)
    BY <1>0, <1>1, <1>4, <1>5, <2>1, <2>2 DEF Coherent, Ahead
  <2> QED
    BY <1>0, <1>3, <2>1, <2>2, <2>3 DEF Legal, Fresh
<1> QED
  BY <1>6, <1>7

\* A change that none of the coherent fields takes part in: offsets, topics, clocks.
LEMMA BystanderCoherent ==
    ASSUME NEW g \in GroupMetadata, NEW h \in GroupMetadata, NEW last, Coherent(g, last),
           h.state = g.state, h.generation = g.generation, h.leader_id = g.leader_id,
           h.members = g.members, h.is_leader = g.is_leader,
           h.awaiting_sync = g.awaiting_sync, h.member_generation = g.member_generation
    PROVE  Coherent(h, last)
BY DEF Coherent, Led, Ahead, all_members_joined, all_members_synced

\* A group that join_group has just created is coherent.
LEMMA NewGroupCoherent == NewGroup \in GroupMetadata /\ Coherent(NewGroup, NeverStable)
<1>1. NewGroup \in GroupMetadata
  BY DEF NewGroup, GroupMetadata, GroupState, Strategy
<1>2. Coherent(NewGroup, NeverStable)
  BY DEF NewGroup, Coherent, Led, Ahead, all_members_joined
<1> QED
  BY <1>1, <1>2
-----------------------------------------------------------------------------
(* The table of groups. *)

GroupsInv ==
    /\ groups \in [Group -> GroupMetadata \cup {NoGroup}]
    /\ stable \in [Group -> Last]
    /\ \A g \in Group : IF groups[g] = NoGroup THEN stable[g] = NeverStable
                         ELSE Coherent(groups[g], stable[g])

AllFresh == \A g \in Group : Fresh(stable[g], stable'[g])

\* The steps of the table: a legal step of one group, ...
LEMMA UpdateStep ==
    ASSUME GroupsInv, NEW g \in Active, NEW new, Legal(groups[g], stable[g], new), Update(g, new)
    PROVE  GroupsInv' /\ AllFresh /\ Active' = Active
<1>1. /\ g \in Group /\ groups[g] # NoGroup /\ new \in GroupMetadata /\ new # NoGroup
      /\ settled(groups[g], new, stable[g]) \in Last
      /\ Coherent(new, settled(groups[g], new, stable[g]))
      /\ Fresh(stable[g], settled(groups[g], new, stable[g]))
  BY NoGroupAssumption DEF Active, Legal
<1> DEFINE s == settled(groups[g], new, stable[g])
<1>2. groups' = [groups EXCEPT ![g] = new] /\ stable' = [stable EXCEPT ![g] = s]
  BY DEF Update, GroupsInv
<1> HIDE DEF s
<1>3. s \in Last /\ Coherent(new, s) /\ Fresh(stable[g], s)
  BY <1>1 DEF s
<1>4. groups' \in [Group -> GroupMetadata \cup {NoGroup}] /\ stable' \in [Group -> Last]
  BY <1>1, <1>2, <1>3 DEF GroupsInv
<1>5. ASSUME NEW x \in Group
      PROVE  /\ IF groups'[x] = NoGroup THEN stable'[x] = NeverStable
                ELSE Coherent(groups'[x], stable'[x])
             /\ Fresh(stable[x], stable'[x])
             /\ groups'[x] = NoGroup <=> groups[x] = NoGroup
  <2>1. CASE x = g
    <3>1. groups'[x] = new /\ stable'[x] = s
      BY <1>1, <1>2, <2>1 DEF GroupsInv
    <3> QED
      BY <1>1, <1>3, <2>1, <3>1
  <2>2. CASE x # g
    <3>1. groups'[x] = groups[x] /\ stable'[x] = stable[x]
      BY <1>2, <2>2 DEF GroupsInv
    <3> QED
      BY <3>1 DEF GroupsInv, Fresh
  <2> QED
    BY <2>1, <2>2
<1> QED
  BY <1>4, <1>5 DEF GroupsInv, AllFresh, Active

\* ... a change of fields that do not matter to coherence, ...
LEMMA BystanderStep ==
    ASSUME GroupsInv, NEW g \in Active, NEW h \in GroupMetadata, Coherent(h, stable[g]),
           groups' = [groups EXCEPT ![g] = h], stable' = stable
    PROVE  GroupsInv' /\ AllFresh /\ Active' = Active
<1>1. g \in Group /\ groups[g] # NoGroup /\ h # NoGroup
  BY NoGroupAssumption DEF Active
<1>2. groups' \in [Group -> GroupMetadata \cup {NoGroup}] /\ stable' \in [Group -> Last]
  BY <1>1 DEF GroupsInv
<1>3. ASSUME NEW x \in Group
      PROVE  /\ IF groups'[x] = NoGroup THEN stable'[x] = NeverStable
                ELSE Coherent(groups'[x], stable'[x])
             /\ groups'[x] = NoGroup <=> groups[x] = NoGroup
  <2>1. CASE x = g
    <3>1. groups'[x] = h
      BY <2>1 DEF GroupsInv
    <3> QED
      BY <1>1, <2>1, <3>1
  <2>2. CASE x # g
    <3>1. groups'[x] = groups[x]
      BY <2>2 DEF GroupsInv
    <3> QED
      BY <3>1 DEF GroupsInv
  <2> QED
    BY <2>1, <2>2
<1>4. AllFresh
  BY DEF AllFresh, Fresh
<1> QED
  BY <1>2, <1>3, <1>4 DEF GroupsInv, Active

\* ... the creation of a group, ...
LEMMA CreateStep ==
    ASSUME GroupsInv, NEW g \in Group, groups[g] = NoGroup,
           groups' = [groups EXCEPT ![g] = NewGroup], stable' = stable
    PROVE  GroupsInv' /\ AllFresh /\ Active' = Active \cup {g}
<1>1. NewGroup \in GroupMetadata /\ Coherent(NewGroup, stable[g]) /\ NewGroup # NoGroup
  BY NewGroupCoherent, NoGroupAssumption DEF GroupsInv
<1>2. groups' \in [Group -> GroupMetadata \cup {NoGroup}] /\ stable' \in [Group -> Last]
  BY <1>1 DEF GroupsInv
<1>3. ASSUME NEW x \in Group
      PROVE  /\ IF groups'[x] = NoGroup THEN stable'[x] = NeverStable
                ELSE Coherent(groups'[x], stable'[x])
             /\ groups'[x] = NoGroup <=> (groups[x] = NoGroup /\ x # g)
  <2>1. CASE x = g
    <3>1. groups'[x] = NewGroup
      BY <2>1 DEF GroupsInv
    <3> QED
      BY <1>1, <2>1, <3>1
  <2>2. CASE x # g
    <3>1. groups'[x] = groups[x]
      BY <2>2 DEF GroupsInv
    <3> QED
      BY <2>2, <3>1 DEF GroupsInv
  <2> QED
    BY <2>1, <2>2
<1>4. AllFresh
  BY DEF AllFresh, Fresh
<1> QED
  BY <1>2, <1>3, <1>4 DEF GroupsInv, Active

\* ... or the removal of some.
LEMMA EraseStep ==
    ASSUME GroupsInv, NEW gone, Erase(gone)
    PROVE  GroupsInv' /\ AllFresh /\ Active' = Active \ gone
<1>1. NeverStable \in Last
  BY DEF NeverStable, Last
<1>2. groups' \in [Group -> GroupMetadata \cup {NoGroup}] /\ stable' \in [Group -> Last]
  BY <1>1 DEF GroupsInv, Erase
<1>3. ASSUME NEW x \in Group
      PROVE  /\ IF groups'[x] = NoGroup THEN stable'[x] = NeverStable
                ELSE Coherent(groups'[x], stable'[x])
             /\ groups'[x] = NoGroup <=> (groups[x] = NoGroup \/ x \in gone)
             /\ Fresh(stable[x], stable'[x])
  <2>1. CASE x \in gone
    <3>1. groups'[x] = NoGroup /\ stable'[x] = NeverStable
      BY <2>1 DEF Erase
    <3> QED
      BY <2>1, <3>1 DEF Fresh
  <2>2. CASE x \notin gone
    <3>1. groups'[x] = groups[x] /\ stable'[x] = stable[x]
      BY <2>2 DEF Erase
    <3> QED
      BY <2>2, <3>1 DEF GroupsInv, Fresh
  <2> QED
    BY <2>1, <2>2
<1> QED
  BY <1>2, <1>3 DEF GroupsInv, AllFresh, Active

\* A step that leaves the table alone.
LEMMA IdleStep ==
    ASSUME GroupsInv, groups' = groups, stable' = stable
    PROVE  GroupsInv' /\ AllFresh /\ Active' = Active
BY DEF GroupsInv, AllFresh, Fresh, Active
-----------------------------------------------------------------------------
(* The threads. *)

ThreadInv ==
    /\ thread \in [Thread -> Call \cup {Idle}]
    /\ \A t \in Thread : thread[t].op \in PointerOp => thread[t].member \in Member
    /\ \A t \in Thread : thread[t].op \in PointerOp /\ thread[t].live => thread[t].group \in Active

CleanerInv ==
    /\ cleaner \in [pc : {"off", "awake", "scan", "visit", "erase"}, todo : SUBSET Group,
                    at : Group \cup {None}, live : BOOLEAN, remove : SUBSET Group]
    /\ cleaner.live => cleaner.at \in Active /\ cleaner.pc = "visit"

RestInv ==
    /\ cleanup_running \in BOOLEAN
    /\ offset_store \in [Group -> Nat]
    /\ used \in [commits : Nat, configs : Nat]
    /\ buried \in [Group -> SUBSET Nat]

IInv == GroupsInv /\ ThreadInv /\ CleanerInv /\ RestInv

\* What a thread is inside, if it is not idle.
LEMMA CallFields ==
    ASSUME ThreadInv, NEW t \in Thread, thread[t] # Idle
    PROVE  /\ thread[t].group \in Group /\ thread[t].member \in Member \cup {None}
           /\ thread[t].number \in Nat /\ thread[t].doomed \in SUBSET Nat
           /\ thread[t].live \in BOOLEAN /\ thread[t] \in Call
BY DEF ThreadInv, Call

\* Called makes calls.
LEMMA CalledIsCall ==
    ASSUME NEW op \in PointerOp \cup {"commit", "delete"}, NEW g \in Group,
           NEW m \in Member \cup {None}, NEW n \in Nat
    PROVE  /\ Called(op, g, m, n) \in Call /\ Called(op, g, m, n).group = g
           /\ Called(op, g, m, n).op = op /\ Called(op, g, m, n).member = m
BY DEF Called, Call

\* A thread returns or begins a call while no group goes away.
LEMMA ThreadStep ==
    ASSUME ThreadInv, Active \subseteq Active', NEW t \in Thread, NEW c,
           c = Idle \/ (c \in Call /\ (c.op \in PointerOp => c.group \in Active' /\ c.member \in Member)),
           thread' = [thread EXCEPT ![t] = c]
    PROVE  ThreadInv'
<1>1. thread' \in [Thread -> Call \cup {Idle}]
  BY DEF ThreadInv
<1>2. ASSUME NEW x \in Thread, thread'[x].op \in PointerOp
      PROVE  thread'[x].member \in Member /\ (thread'[x].live => thread'[x].group \in Active')
  <2>1. CASE x = t /\ c = Idle
    BY <1>2, <2>1 DEF ThreadInv, Idle, PointerOp
  <2>2. CASE x = t /\ c # Idle
    <3>1. thread'[x] = c
      BY <2>2 DEF ThreadInv
    <3> QED
      BY <1>2, <2>2, <3>1
  <2>3. CASE x # t
    <3>1. thread'[x] = thread[x]
      BY <2>3 DEF ThreadInv
    <3> QED
      BY <1>2, <3>1 DEF ThreadInv
  <2> QED
    BY <2>1, <2>2, <2>3
<1> QED
  BY <1>1, <1>2 DEF ThreadInv

\* A live pointer leads to a coherent group.
LEMMA LivePointer ==
    ASSUME GroupsInv, NEW g \in Active
    PROVE  /\ g \in Group /\ groups[g] \in GroupMetadata /\ stable[g] \in Last
           /\ Coherent(groups[g], stable[g])
BY DEF GroupsInv, Active

\* The pointers are marked when groups go away.
LEMMA UnpointedStep ==
    ASSUME ThreadInv, NEW gone \in SUBSET Group, Active' = Active \ gone
    PROVE  /\ Unpointed(thread, gone) \in [Thread -> Call \cup {Idle}]
           /\ \A t \in Thread :
                 Unpointed(thread, gone)[t].op \in PointerOp
                 => /\ Unpointed(thread, gone)[t].member \in Member
                    /\ Unpointed(thread, gone)[t].live => Unpointed(thread, gone)[t].group \in Active'
<1> DEFINE u == Unpointed(thread, gone)
<1>1. ASSUME NEW t \in Thread
      PROVE  /\ u[t] \in Call \cup {Idle}
             /\ u[t].op \in PointerOp => /\ u[t].member \in Member
                                         /\ u[t].live => u[t].group \in Active'
  <2>1. thread[t] \in Call \cup {Idle}
    BY DEF ThreadInv
  <2>2. CASE thread[t].group \in gone
    <3>1. u[t] = [thread[t] EXCEPT !.live = FALSE]
      BY <2>2 DEF Unpointed
    <3>2. CASE thread[t] \in Call
      <4>1. u[t].live = FALSE /\ u[t].op = thread[t].op /\ u[t].member = thread[t].member
        BY <3>1, <3>2 DEF Call
      <4> HIDE DEF u
      <4>2. u[t] \in Call
        BY <3>1, <3>2 DEF Call
      <4> QED
        BY <4>1, <4>2 DEF ThreadInv
    <3>3. CASE thread[t] = Idle
      BY <2>2, <3>3, NoneAssumption DEF Idle
    <3> QED
      BY <2>1, <3>2, <3>3
  <2>3. CASE thread[t].group \notin gone
    <3>1. u[t] = thread[t]
      BY <2>3 DEF Unpointed
    <3> QED
      BY <2>1, <2>3, <3>1 DEF ThreadInv
  <2> QED
    BY <2>2, <2>3
<1>2. u = [t \in Thread |-> u[t]]
  BY DEF Unpointed
<1> HIDE DEF u
<1>3. u \in [Thread -> Call \cup {Idle}]
  BY <1>1, <1>2
<1> QED
  BY <1>1, <1>3 DEF u
-----------------------------------------------------------------------------
(* One lemma per action: it keeps IInv and no Stable generation is used twice. *)

\* join_group, phase 1.
LEMMA JoinBeginStep ==
    ASSUME IInv, NEW t \in Thread, JoinBegin(t)
    PROVE  IInv' /\ AllFresh
<1>1. PICK g \in Group, m \in Member :
        /\ thread' = [thread EXCEPT ![t] = Called("join", g, m, 0)]
        /\ \/ /\ g \in Active
              /\ UNCHANGED <<groups, stable>>
           \/ /\ g \notin Active
              /\ groups' = [groups EXCEPT ![g] = NewGroup]
              /\ UNCHANGED stable
  BY DEF JoinBegin
<1>2. GroupsInv' /\ AllFresh /\ Active' = Active \cup {g}
  <2>1. CASE g \in Active
    BY <1>1, <2>1, IdleStep DEF IInv
  <2>2. CASE g \notin Active
    BY <1>1, <2>2, CreateStep DEF IInv, Active
  <2> QED
    BY <2>1, <2>2
<1>3. ThreadInv'
  <2>1. Called("join", g, m, 0) \in Call /\ Called("join", g, m, 0).group = g
        /\ Called("join", g, m, 0).member = m
    BY CalledIsCall DEF PointerOp
  <2> QED
    BY <1>1, <1>2, <2>1, ThreadStep DEF IInv
<1>4. CleanerInv' /\ RestInv'
  BY <1>2 DEF IInv, CleanerInv, RestInv, JoinBegin, cleanup, offsets
<1> QED
  BY <1>2, <1>3, <1>4 DEF IInv

\* The look-up of leave_group, sync_group and heartbeat.
LEMMA FindGroupStep ==
    ASSUME IInv, NEW t \in Thread, FindGroup(t)
    PROVE  IInv' /\ AllFresh
<1>1. PICK g \in Active, m \in Member, op \in PointerOp \ {"join"}, n \in 0 .. MaxGeneration :
        thread' = [thread EXCEPT ![t] = Called(op, g, m, n)]
  BY DEF FindGroup
<1>2. GroupsInv' /\ AllFresh /\ Active' = Active
  BY IdleStep DEF IInv, FindGroup
<1>3. Called(op, g, m, n) \in Call /\ Called(op, g, m, n).group = g
      /\ Called(op, g, m, n).member = m
  <2>1. n \in Nat /\ g \in Group
    BY BoundAssumption DEF Active
  <2> QED
    BY <2>1, CalledIsCall
<1>4. ThreadInv'
  BY <1>1, <1>2, <1>3, ThreadStep DEF IInv
<1>5. CleanerInv' /\ RestInv'
  BY <1>2 DEF IInv, CleanerInv, RestInv, FindGroup, cleanup, offsets
<1> QED
  BY <1>2, <1>4, <1>5 DEF IInv

\* A call that returns and leaves the set of groups and all but the table alone.
LEMMA ReturnStep ==
    ASSUME IInv, NEW t \in Thread, thread' = [thread EXCEPT ![t] = Idle],
           GroupsInv', Active' = Active, UNCHANGED <<cleanup, offsets, used>>
    PROVE  IInv'
<1>1. ThreadInv'
  BY ThreadStep DEF IInv
<1>2. CleanerInv' /\ RestInv'
  BY DEF IInv, CleanerInv, RestInv, cleanup, offsets
<1> QED
  BY <1>1, <1>2 DEF IInv

\* A call whose group is gone.
LEMMA DanglingStep ==
    ASSUME IInv, NEW t \in Thread, Dangling(t)
    PROVE  IInv' /\ AllFresh
<1>1. GroupsInv' /\ AllFresh /\ Active' = Active
  BY IdleStep DEF IInv, Dangling
<1> QED
  BY <1>1, ReturnStep DEF Dangling

\* A call that has a live pointer.
LEMMA AtLive ==
    ASSUME IInv, NEW t \in Thread, NEW op \in PointerOp, AtGroup(t, op)
    PROVE  /\ thread[t].group \in Active /\ thread[t].group \in Group
           /\ groups[thread[t].group] \in GroupMetadata /\ stable[thread[t].group] \in Last
           /\ Coherent(groups[thread[t].group], stable[thread[t].group])
<1>1. thread[t].group \in Active
  BY DEF IInv, ThreadInv, AtGroup
<1> QED
  BY <1>1, LivePointer DEF IInv

\* join_group, phases 2 and 3.
LEMMA JoinGroupStep ==
    ASSUME IInv, NEW t \in Thread, JoinGroup(t)
    PROVE  IInv' /\ AllFresh
<1> DEFINE g == thread[t].group
           m == thread[t].member
<1>1. /\ g \in Active /\ groups[g] \in GroupMetadata /\ stable[g] \in Last
      /\ Coherent(groups[g], stable[g]) /\ m \in Member
  BY AtLive DEF JoinGroup, PointerOp, AtGroup, IInv, ThreadInv
<1>2. Update(g, joined(groups[g], m)) \/ UNCHANGED <<groups, stable>>
  BY DEF JoinGroup
<1> HIDE DEF g, m
<1>3. GroupsInv' /\ AllFresh /\ Active' = Active
  <2>1. CASE Update(g, joined(groups[g], m))
    BY <1>1, <2>1, JoinedLegal, UpdateStep DEF IInv
  <2>2. CASE UNCHANGED <<groups, stable>>
    BY <2>2, IdleStep DEF IInv
  <2> QED
    BY <1>2, <2>1, <2>2
<1> QED
  BY <1>3, ReturnStep DEF JoinGroup

\* leave_group.
LEMMA LeaveGroupStep ==
    ASSUME IInv, NEW t \in Thread, LeaveGroup(t)
    PROVE  IInv' /\ AllFresh
<1> DEFINE g == thread[t].group
           m == thread[t].member
<1>1. /\ g \in Active /\ groups[g] \in GroupMetadata /\ stable[g] \in Last
      /\ Coherent(groups[g], stable[g]) /\ m \in Member
  BY AtLive DEF LeaveGroup, PointerOp, AtGroup, IInv, ThreadInv
<1>2. \/ m \in groups[g].members /\ \E d \in departed(groups[g], {m}) : Update(g, d)
      \/ UNCHANGED <<groups, stable>>
  BY DEF LeaveGroup
<1> HIDE DEF g, m
<1>3. GroupsInv' /\ AllFresh /\ Active' = Active
  <2>1. CASE m \in groups[g].members /\ \E d \in departed(groups[g], {m}) : Update(g, d)
    <3>1. PICK d \in departed(groups[g], {m}) : Update(g, d)
      BY <2>1
    <3>2. Legal(groups[g], stable[g], d)
      BY <1>1, <2>1, DepartedLegal
    <3> QED
      BY <1>1, <3>1, <3>2, UpdateStep DEF IInv
  <2>2. CASE UNCHANGED <<groups, stable>>
    BY <2>2, IdleStep DEF IInv
  <2> QED
    BY <1>2, <2>1, <2>2
<1> QED
  BY <1>3, ReturnStep DEF LeaveGroup

\* sync_group.
LEMMA SyncGroupStep ==
    ASSUME IInv, NEW t \in Thread, SyncGroup(t)
    PROVE  IInv' /\ AllFresh
<1> DEFINE g == thread[t].group
           m == thread[t].member
<1>1. /\ g \in Active /\ groups[g] \in GroupMetadata /\ stable[g] \in Last
      /\ Coherent(groups[g], stable[g])
  BY AtLive DEF SyncGroup, PointerOp
<1>2. \/ /\ groups[g].state = "CompletingRebalance" /\ m \in groups[g].members
         /\ Update(g, synced(groups[g], m))
      \/ UNCHANGED <<groups, stable>>
  BY DEF SyncGroup
<1> HIDE DEF g, m
<1>3. GroupsInv' /\ AllFresh /\ Active' = Active
  <2>1. CASE /\ groups[g].state = "CompletingRebalance" /\ m \in groups[g].members
             /\ Update(g, synced(groups[g], m))
    <3>1. Legal(groups[g], stable[g], synced(groups[g], m))
      BY <1>1, <2>1, SyncedLegal
    <3> QED
      BY <1>1, <2>1, <3>1, UpdateStep DEF IInv
  <2>2. CASE UNCHANGED <<groups, stable>>
    BY <2>2, IdleStep DEF IInv
  <2> QED
    BY <1>2, <2>1, <2>2
<1> QED
  BY <1>3, ReturnStep DEF SyncGroup

\* A change of last_heartbeat (heartbeat, or the clock).
LEMMA ExpiredStep ==
    ASSUME IInv, NEW g \in Active, NEW ex \in SUBSET Member,
           groups' = [groups EXCEPT ![g].expired = ex], stable' = stable
    PROVE  GroupsInv' /\ AllFresh /\ Active' = Active
<1> DEFINE h == [groups[g] EXCEPT !.expired = ex]
<1>1. groups[g] \in GroupMetadata /\ Coherent(groups[g], stable[g]) /\ g \in Group
  BY LivePointer DEF IInv
<1>2. groups' = [groups EXCEPT ![g] = h]
  BY <1>1 DEF IInv, GroupsInv
<1>3. h \in GroupMetadata
  BY <1>1 DEF GroupMetadata
<1>4. /\ h.state = groups[g].state /\ h.generation = groups[g].generation
      /\ h.leader_id = groups[g].leader_id /\ h.members = groups[g].members
      /\ h.is_leader = groups[g].is_leader /\ h.awaiting_sync = groups[g].awaiting_sync
      /\ h.member_generation = groups[g].member_generation
  BY <1>1 DEF GroupMetadata
<1> HIDE DEF h
<1>5. Coherent(h, stable[g])
  BY <1>1, <1>3, <1>4, BystanderCoherent
<1> QED
  BY <1>2, <1>3, <1>5, BystanderStep DEF IInv

\* heartbeat.
LEMMA HeartbeatStep ==
    ASSUME IInv, NEW t \in Thread, Heartbeat(t)
    PROVE  IInv' /\ AllFresh
<1> DEFINE g == thread[t].group
           ex == groups[g].expired \ {thread[t].member}
<1>1. g \in Active /\ g \in Group /\ groups[g] \in GroupMetadata
  BY AtLive DEF Heartbeat, PointerOp
<1>2. ex \in SUBSET Member
  BY <1>1, GroupFields
<1>3. groups' = [groups EXCEPT ![g].expired = ex] \/ UNCHANGED groups
  BY <1>1 DEF Heartbeat, IInv, GroupsInv
<1>4. stable' = stable
  BY DEF Heartbeat
<1> HIDE DEF g, ex
<1>5. GroupsInv' /\ AllFresh /\ Active' = Active
  <2>1. CASE groups' = [groups EXCEPT ![g].expired = ex]
    BY <1>1, <1>2, <1>4, <2>1, ExpiredStep
  <2>2. CASE UNCHANGED groups
    BY <1>4, <2>2, IdleStep DEF IInv
  <2> QED
    BY <1>3, <2>1, <2>2
<1> QED
  BY <1>5, ReturnStep DEF Heartbeat

\* A change of the fields that only data is kept in.
LEMMA DataStep ==
    ASSUME IInv, NEW g \in Active, NEW h \in GroupMetadata,
           \/ h = [groups[g] EXCEPT !.offset = h.offset]
           \/ h = [groups[g] EXCEPT !.aged = h.aged]
           \/ h = [groups[g] EXCEPT !.subscribed_topics = h.subscribed_topics]
           \/ h = [groups[g] EXCEPT !.strategy = h.strategy],
           groups' = [groups EXCEPT ![g] = h], stable' = stable
    PROVE  GroupsInv' /\ AllFresh /\ Active' = Active
<1>1. groups[g] \in GroupMetadata /\ Coherent(groups[g], stable[g])
  BY LivePointer DEF IInv
<1>2. /\ h.state = groups[g].state /\ h.generation = groups[g].generation
      /\ h.leader_id = groups[g].leader_id /\ h.members = groups[g].members
      /\ h.is_leader = groups[g].is_leader /\ h.awaiting_sync = groups[g].awaiting_sync
      /\ h.member_generation = groups[g].member_generation
  <2>1. CASE h = [groups[g] EXCEPT !.offset = h.offset]
    BY <1>1, <2>1 DEF GroupMetadata
  <2>2. CASE h = [groups[g] EXCEPT !.aged = h.aged]
    BY <1>1, <2>2 DEF GroupMetadata
  <2>3. CASE h = [groups[g] EXCEPT !.subscribed_topics = h.subscribed_topics]
    BY <1>1, <2>3 DEF GroupMetadata
  <2>4. CASE h = [groups[g] EXCEPT !.strategy = h.strategy]
    BY <1>1, <2>4 DEF GroupMetadata
  <2> QED
    BY <2>1, <2>2, <2>3, <2>4
<1>3. Coherent(h, stable[g])
  BY <1>1, <1>2, BystanderCoherent
<1> QED
  BY <1>3, BystanderStep DEF IInv

\* commit_offset, the store.
LEMMA CommitOffsetStep ==
    ASSUME IInv, NEW t \in Thread, CommitOffset(t)
    PROVE  IInv' /\ AllFresh
<1>1. PICK g \in Group :
        /\ offset_store' = [offset_store EXCEPT ![g] = used.commits + 1]
        /\ thread' = [thread EXCEPT ![t] = Called("commit", g, None, used.commits + 1)]
  BY DEF CommitOffset
<1>2. used.commits + 1 \in Nat /\ used \in [commits : Nat, configs : Nat]
  BY DEF IInv, RestInv
<1>3. GroupsInv' /\ AllFresh /\ Active' = Active
  BY IdleStep DEF IInv, CommitOffset
<1>4. Called("commit", g, None, used.commits + 1) \in Call
      /\ Called("commit", g, None, used.commits + 1).op = "commit"
  BY <1>2, CalledIsCall
<1>5. ThreadInv'
  BY <1>1, <1>3, <1>4, ThreadStep DEF IInv, PointerOp
<1>6. used' = [used EXCEPT !.commits = used.commits + 1]
  BY <1>2 DEF CommitOffset
<1>7. used' \in [commits : Nat, configs : Nat]
  BY <1>2, <1>6
<1>8. RestInv'
  BY <1>1, <1>2, <1>7 DEF IInv, RestInv, CommitOffset, cleanup
<1>9. CleanerInv'
  BY <1>3 DEF IInv, CleanerInv, CommitOffset, cleanup
<1> QED
  BY <1>3, <1>5, <1>8, <1>9 DEF IInv

\* commit_offset, the cache.
LEMMA CommitCachedStep ==
    ASSUME IInv, NEW t \in Thread, CommitCached(t)
    PROVE  IInv' /\ AllFresh /\ Active' = Active
<1> DEFINE g == thread[t].group
           h == [groups[g] EXCEPT !.offset = thread[t].number]
<1>1. thread[t].number \in Nat
  BY CallFields DEF IInv, CommitCached, Idle
<1>2. stable' = stable
  BY DEF CommitCached
<1>3. GroupsInv' /\ AllFresh /\ Active' = Active
  <2>1. CASE g \in Active /\ groups' = [groups EXCEPT ![g].offset = thread[t].number]
    <3>1. groups[g] \in GroupMetadata /\ g \in Group
      BY <2>1, LivePointer DEF IInv
    <3>2. h \in GroupMetadata /\ h.offset = thread[t].number
      BY <1>1, <3>1 DEF GroupMetadata
    <3>3. groups' = [groups EXCEPT ![g] = h]
      BY <2>1, <3>1 DEF IInv, GroupsInv
    <3>4. h = [groups[g] EXCEPT !.offset = h.offset]
      BY <3>2
    <3> HIDE DEF h
    <3> QED
      BY <1>2, <2>1, <3>2, <3>3, <3>4, DataStep
  <2>2. CASE UNCHANGED groups
    BY <1>2, <2>2, IdleStep DEF IInv
  <2> QED
    BY <2>1, <2>2 DEF CommitCached
<1> QED
  BY <1>3, ReturnStep DEF CommitCached

\* delete_group, the group.
LEMMA DeleteGroupStep ==
    ASSUME IInv, NEW t \in Thread, DeleteGroup(t)
    PROVE  IInv' /\ AllFresh
<1> DEFINE dm == (1 .. used.commits) \ InFlight
<1>1. PICK g \in Active :
        /\ Erase({g})
        /\ thread' = [Unpointed(thread, {g}) EXCEPT
                        ![t] = [Called("delete", g, None, 0) EXCEPT !.doomed = dm]]
        /\ cleaner' = [cleaner EXCEPT !.live = cleaner.live /\ cleaner.at # g]
  BY DEF DeleteGroup, IInv, CleanerInv
<1>2. g \in Group /\ dm \in SUBSET Nat
  BY DEF Active, IInv, RestInv
<1>3. GroupsInv' /\ AllFresh /\ Active' = Active \ {g}
  BY <1>1, EraseStep DEF IInv
<1> HIDE DEF dm
<1> DEFINE c == [Called("delete", g, None, 0) EXCEPT !.doomed = dm]
           u == Unpointed(thread, {g})
<1>4. c \in Call /\ c.op = "delete"
  BY <1>2 DEF Called, Call
<1>5. /\ u \in [Thread -> Call \cup {Idle}]
      /\ \A x \in Thread : u[x].op \in PointerOp
            => u[x].member \in Member /\ (u[x].live => u[x].group \in Active')
  BY <1>2, <1>3, UnpointedStep DEF IInv
<1> HIDE DEF c, u
<1>6. thread' = [u EXCEPT ![t] = c]
  BY <1>1 DEF c, u
<1>7. thread' \in [Thread -> Call \cup {Idle}]
  BY <1>4, <1>5, <1>6
<1>8. ASSUME NEW x \in Thread, thread'[x].op \in PointerOp
      PROVE  thread'[x].member \in Member /\ (thread'[x].live => thread'[x].group \in Active')
  <2>1. CASE x = t
    BY <1>4, <1>5, <1>6, <1>8, <2>1 DEF PointerOp
  <2>2. CASE x # t
    <3>1. thread'[x] = u[x]
      BY <1>5, <1>6, <2>2
    <3> QED
      BY <1>5, <1>8, <3>1
  <2> QED
    BY <2>1, <2>2
<1>9. ThreadInv'
  BY <1>7, <1>8 DEF ThreadInv
<1>10. CleanerInv'
  <2>1. cleaner \in [pc : {"off", "awake", "scan", "visit", "erase"}, todo : SUBSET Group,
                     at : Group \cup {None}, live : BOOLEAN, remove : SUBSET Group]
    BY DEF IInv, CleanerInv
  <2> DEFINE b == cleaner.live /\ cleaner.at # g
  <2>2. b \in BOOLEAN
    OBVIOUS
  <2>3. b => cleaner.at \in Active' /\ cleaner.pc = "visit"
    BY <1>3 DEF IInv, CleanerInv
  <2> HIDE DEF b
  <2>4. cleaner' = [cleaner EXCEPT !.live = b]
    BY <1>1 DEF b
  <2>5. cleaner'.live = b /\ cleaner'.at = cleaner.at /\ cleaner'.pc = cleaner.pc
    BY <2>1, <2>4
  <2>6. cleaner' \in [pc : {"off", "awake", "scan", "visit", "erase"}, todo : SUBSET Group,
                      at : Group \cup {None}, live : BOOLEAN, remove : SUBSET Group]
    BY <2>1, <2>2, <2>4
  <2> QED
    BY <2>3, <2>5, <2>6 DEF CleanerInv
<1>11. RestInv'
  BY DEF IInv, RestInv, DeleteGroup, offsets
<1> QED
  BY <1>3, <1>9, <1>10, <1>11 DEF IInv

\* delete_group, the offsets.
LEMMA DeleteOffsetsStep ==
    ASSUME IInv, NEW t \in Thread, DeleteOffsets(t)
    PROVE  IInv' /\ AllFresh
<1>1. thread[t].group \in Group /\ thread[t].doomed \in SUBSET Nat
  BY CallFields DEF IInv, DeleteOffsets, Idle
<1>2. GroupsInv' /\ AllFresh /\ Active' = Active
  BY IdleStep DEF IInv, DeleteOffsets
<1>3. ThreadInv'
  BY <1>2, ThreadStep DEF IInv, DeleteOffsets
<1>4. CleanerInv'
  BY <1>2 DEF IInv, CleanerInv, DeleteOffsets, cleanup
<1>5. RestInv'
  BY <1>1 DEF IInv, RestInv, DeleteOffsets, cleanup
<1> QED
  BY <1>2, <1>3, <1>4, <1>5 DEF IInv

\* subscribe_topic, unsubscribe_topic and set_group_protocol.
LEMMA ConfigureStep ==
    ASSUME IInv, NEW g \in Active, SubscribeTopic(g) \/ UnsubscribeTopic(g) \/ SetGroupProtocol(g)
    PROVE  IInv' /\ AllFresh
<1>1. groups[g] \in GroupMetadata
  BY LivePointer DEF IInv
<1>2. \E h \in GroupMetadata :
        /\ Configure(g, h)
        /\ \/ h = [groups[g] EXCEPT !.subscribed_topics = h.subscribed_topics]
           \/ h = [groups[g] EXCEPT !.strategy = h.strategy]
  <2>1. ASSUME NEW ts \in SUBSET Topic,
               Configure(g, [groups[g] EXCEPT !.subscribed_topics = ts])
        PROVE  <1>2
    <3> DEFINE h == [groups[g] EXCEPT !.subscribed_topics = ts]
    <3>1. h \in GroupMetadata /\ h.subscribed_topics = ts
      BY <1>1 DEF GroupMetadata
    <3> QED
      BY <2>1, <3>1
  <2>2. CASE SubscribeTopic(g)
    <3>1. PICK topic \in Topic :
            Configure(g, [groups[g] EXCEPT !.subscribed_topics = groups[g].subscribed_topics \cup {topic}])
      BY <1>1, <2>2 DEF SubscribeTopic, GroupMetadata
    <3>2. groups[g].subscribed_topics \cup {topic} \in SUBSET Topic
      BY <1>1 DEF GroupMetadata
    <3> QED
      BY <2>1, <3>1, <3>2
  <2>3. CASE UnsubscribeTopic(g)
    <3>1. PICK topic \in Topic :
            Configure(g, [groups[g] EXCEPT !.subscribed_topics = groups[g].subscribed_topics \ {topic}])
      BY <1>1, <2>3 DEF UnsubscribeTopic, GroupMetadata
    <3>2. groups[g].subscribed_topics \ {topic} \in SUBSET Topic
      BY <1>1 DEF GroupMetadata
    <3> QED
      BY <2>1, <3>1, <3>2
  <2>4. CASE SetGroupProtocol(g)
    <3>1. PICK st \in Strategy : Configure(g, [groups[g] EXCEPT !.strategy = st])
      BY <2>4 DEF SetGroupProtocol
    <3> DEFINE h == [groups[g] EXCEPT !.strategy = st]
    <3>2. h \in GroupMetadata /\ h.strategy = st
      BY <1>1 DEF GroupMetadata
    <3> QED
      BY <3>1, <3>2
  <2> QED
    BY <2>2, <2>3, <2>4
<1>3. PICK h \in GroupMetadata :
        /\ Configure(g, h)
        /\ \/ h = [groups[g] EXCEPT !.subscribed_topics = h.subscribed_topics]
           \/ h = [groups[g] EXCEPT !.strategy = h.strategy]
  BY <1>2
<1>4. GroupsInv' /\ AllFresh /\ Active' = Active
  BY <1>3, DataStep DEF Configure
<1>5. ThreadInv' /\ CleanerInv'
  BY <1>3, <1>4 DEF IInv, ThreadInv, CleanerInv, Configure, cleanup
<1>6. used \in [commits : Nat, configs : Nat]
  BY DEF IInv, RestInv
<1>7. used' = [used EXCEPT !.configs = used.configs + 1]
  BY <1>3, <1>6 DEF Configure
<1>8. used' \in [commits : Nat, configs : Nat]
  BY <1>6, <1>7
<1>9. RestInv'
  BY <1>3, <1>8 DEF IInv, RestInv, Configure, cleanup, offsets
<1> QED
  BY <1>4, <1>5, <1>9 DEF IInv

\* A step of the clock or of the cleanup thread in which no call begins or ends.
LEMMA OtherStep ==
    ASSUME IInv, GroupsInv', Active' = Active, CleanerInv', cleanup_running' \in BOOLEAN,
           UNCHANGED <<thread, offsets, used>>
    PROVE  IInv'
BY DEF IInv, ThreadInv, RestInv, offsets

\* A session, or an Empty group, runs out of time.
LEMMA ClockStep ==
    ASSUME IInv, NEW g \in Active, SessionExpires(g) \/ EmptyGroupAges(g)
    PROVE  IInv' /\ AllFresh
<1>1. groups[g] \in GroupMetadata /\ g \in Group
  BY LivePointer DEF IInv
<1>2. stable' = stable /\ UNCHANGED <<thread, cleanup, offsets, used>>
  BY DEF SessionExpires, EmptyGroupAges
<1>3. GroupsInv' /\ AllFresh /\ Active' = Active
  <2>1. CASE SessionExpires(g)
    <3>1. PICK m \in groups[g].members :
            groups' = [groups EXCEPT ![g].expired = groups[g].expired \cup {m}]
      BY <1>1, <2>1 DEF SessionExpires, IInv, GroupsInv
    <3>2. groups[g].expired \cup {m} \in SUBSET Member
      BY <1>1, GroupFields
    <3> QED
      BY <1>2, <3>1, <3>2, ExpiredStep
  <2>2. CASE EmptyGroupAges(g)
    <3> DEFINE h == [groups[g] EXCEPT !.aged = TRUE]
    <3>1. h \in GroupMetadata /\ h.aged = TRUE
      BY <1>1 DEF GroupMetadata
    <3>2. groups' = [groups EXCEPT ![g] = h]
      BY <1>1, <2>2 DEF EmptyGroupAges, IInv, GroupsInv
    <3>3. h = [groups[g] EXCEPT !.aged = h.aged]
      BY <3>1
    <3> HIDE DEF h
    <3> QED
      BY <1>2, <3>1, <3>2, <3>3, DataStep
  <2> QED
    BY <2>1, <2>2
<1>4. CleanerInv' /\ cleanup_running' \in BOOLEAN
  BY <1>2, <1>3 DEF IInv, CleanerInv, RestInv, cleanup
<1> QED
  BY <1>2, <1>3, <1>4, OtherStep

\* The steps of the cleanup thread that touch no group.
LEMMA CleanupLookStep ==
    ASSUME IInv, StartCleanup \/ StopCleanup \/ CleanupAwake \/ CleanupFind \/ CleanupCollect
    PROVE  IInv' /\ AllFresh
<1>1. UNCHANGED <<groups, stable, thread, offsets, used>>
  BY DEF StartCleanup, StopCleanup, CleanupAwake, CleanupFind, CleanupCollect
<1>2. GroupsInv' /\ AllFresh /\ Active' = Active
  BY <1>1, IdleStep DEF IInv
<1>3. cleanup_running' \in BOOLEAN
  BY DEF IInv, RestInv, StartCleanup, StopCleanup, CleanupAwake, CleanupFind, CleanupCollect
<1>4. Active \in SUBSET Group
  BY DEF Active
<1>5. CleanerInv'
  <2>1. CASE StartCleanup
    BY <1>2, <2>1 DEF IInv, CleanerInv, StartCleanup
  <2>2. CASE StopCleanup
    BY <1>2, <2>2 DEF IInv, CleanerInv, StopCleanup
  <2>3. CASE CleanupAwake
    BY <1>2, <1>4, <2>3 DEF IInv, CleanerInv, CleanupAwake
  <2>4. CASE CleanupFind
    <3>1. PICK g \in cleaner.todo :
            cleaner' = IF g \in Active
                       THEN [cleaner EXCEPT !.todo = cleaner.todo \ {g}, !.at = g, !.live = TRUE, !.pc = "visit"]
                       ELSE [cleaner EXCEPT !.todo = cleaner.todo \ {g}]
      BY <2>4 DEF CleanupFind, IInv, CleanerInv
    <3>2. g \in Group /\ cleaner.todo \ {g} \in SUBSET Group
      BY DEF IInv, CleanerInv
    <3>3. CASE g \in Active
      <4>1. cleaner' = [cleaner EXCEPT !.todo = cleaner.todo \ {g}, !.at = g, !.live = TRUE,
                                       !.pc = "visit"]
        BY <3>1, <3>3
      <4> QED
        BY <1>2, <3>2, <3>3, <4>1 DEF IInv, CleanerInv
    <3>4. CASE g \notin Active
      <4>1. cleaner' = [cleaner EXCEPT !.todo = cleaner.todo \ {g}]
        BY <3>1, <3>4
      <4>2. cleaner.pc = "scan"
        BY <2>4 DEF CleanupFind
      <4> QED
        BY <1>2, <3>2, <4>1, <4>2 DEF IInv, CleanerInv
    <3> QED
      BY <3>3, <3>4
  <2>5. CASE CleanupCollect
    <3> DEFINE old == {g \in Active : groups[g].state = "Empty" /\ groups[g].aged}
               pc == IF old = {} THEN "awake" ELSE "erase"
    <3>1. cleaner' = [cleaner EXCEPT !.pc = pc, !.remove = old]
      BY <2>5 DEF CleanupCollect
    <3>2. old \in SUBSET Group /\ pc \in {"awake", "erase"}
      BY <1>4
    <3>3. ~cleaner.live
      BY <2>5 DEF CleanupCollect, IInv, CleanerInv
    <3> HIDE DEF old, pc
    <3> QED
      BY <1>2, <3>1, <3>2, <3>3 DEF IInv, CleanerInv
  <2> QED
    BY <2>1, <2>2, <2>3, <2>4, <2>5
<1> QED
  BY <1>1, <1>2, <1>3, <1>5, OtherStep

\* check_session_timeouts, one group.
LEMMA CleanupVisitStep ==
    ASSUME IInv, CleanupVisit
    PROVE  IInv' /\ AllFresh
<1> DEFINE g == cleaner.at
           gone == timed_out(groups[g])
<1>1. CASE cleaner.live /\ gone # {} /\ \E d \in departed(groups[g], gone) : Update(g, d)
  <2>1. g \in Active
    BY <1>1 DEF IInv, CleanerInv
  <2>2. /\ groups[g] \in GroupMetadata /\ stable[g] \in Last /\ Coherent(groups[g], stable[g])
    BY <2>1, LivePointer DEF IInv
  <2>3. gone \in SUBSET Member /\ groups[g].state # "Empty"
    BY <1>1, <2>2, GroupFields DEF timed_out
  <2>4. groups[g].members # {}
    BY <2>2, <2>3 DEF Coherent, Led
  <2>5. PICK d \in departed(groups[g], gone) : Update(g, d)
    BY <1>1
  <2> HIDE DEF g, gone
  <2>6. Legal(groups[g], stable[g], d)
    BY <2>2, <2>3, <2>4, DepartedLegal
  <2>7. GroupsInv' /\ AllFresh /\ Active' = Active
    BY <2>1, <2>5, <2>6, UpdateStep DEF IInv
  <2>8. CleanerInv' /\ cleanup_running' \in BOOLEAN
    BY DEF CleanupVisit, IInv, CleanerInv, RestInv
  <2> QED
    BY <2>7, <2>8, OtherStep DEF CleanupVisit
<1>2. CASE UNCHANGED <<groups, stable>>
  <2>1. GroupsInv' /\ AllFresh /\ Active' = Active
    BY <1>2, IdleStep DEF IInv
  <2>2. CleanerInv' /\ cleanup_running' \in BOOLEAN
    BY DEF CleanupVisit, IInv, CleanerInv, RestInv
  <2> QED
    BY <2>1, <2>2, OtherStep DEF CleanupVisit
<1> QED
  BY <1>1, <1>2 DEF CleanupVisit

\* cleanup_dead_groups, the removal.
LEMMA CleanupEraseStep ==
    ASSUME IInv, CleanupErase
    PROVE  IInv' /\ AllFresh
<1> DEFINE gone == cleaner.remove
           u == Unpointed(thread, gone)
<1>1. Erase(gone) /\ thread' = u /\ gone \in SUBSET Group
      /\ cleaner' = [cleaner EXCEPT !.pc = "awake", !.remove = {}]
  BY DEF CleanupErase, IInv, CleanerInv
<1>2. GroupsInv' /\ AllFresh /\ Active' = Active \ gone
  BY <1>1, EraseStep DEF IInv
<1>3. ThreadInv'
  <2>1. /\ u \in [Thread -> Call \cup {Idle}]
        /\ \A x \in Thread : u[x].op \in PointerOp
              => u[x].member \in Member /\ (u[x].live => u[x].group \in Active')
    BY <1>1, <1>2, UnpointedStep DEF IInv
  <2> HIDE DEF u
  <2> QED
    BY <1>1, <2>1 DEF ThreadInv
<1>4. RestInv'
  BY DEF IInv, RestInv, CleanupErase, offsets
<1>5. CleanerInv'
  BY <1>1, <1>2 DEF IInv, CleanerInv, CleanupErase
<1> QED
  BY <1>2, <1>3, <1>4, <1>5 DEF IInv
-----------------------------------------------------------------------------
(* Offsets.  A commit in flight is not among the offsets a delete has to remove, and the *)
(* cache of a group only ever receives offsets in flight.                                *)

OffsetInv ==
    /\ \A g \in Group : buried[g] \subseteq 1 .. used.commits /\ offset_store[g] \notin buried[g]
    /\ \A t \in Thread : thread[t].doomed \subseteq 1 .. used.commits
    /\ \A t \in Thread : thread[t].op = "commit" =>
          /\ thread[t].number \in 1 .. used.commits
          /\ \A g \in Group : thread[t].number \notin buried[g]
          /\ \A u \in Thread : thread[t].number \notin thread[u].doomed
    /\ \A g \in Active :
          /\ groups[g].offset \notin buried[g]
          /\ \A u \in Thread : thread[u].op = "delete" /\ thread[u].group = g
                                => groups[g].offset \notin thread[u].doomed

\* No operation of the group protocol touches the cached offset.
LEMMA OffsetKept ==
    ASSUME NEW g \in GroupMetadata, NEW m \in Member, NEW gone \in SUBSET Member,
           g.awaiting_sync \subseteq g.members, all_members_joined(g)
    PROVE  /\ joined(g, m).offset = g.offset
           /\ synced(g, m).offset = g.offset
           /\ \A d \in departed(g, gone) : d.offset = g.offset
<1>1. ASSUME NEW x \in GroupMetadata, NEW v \in Member
      PROVE  elected(x, v) \in GroupMetadata /\ elected(x, v).offset = x.offset
  BY ElectedSound DEF elected, GroupMetadata
<1>2. ASSUME NEW x \in GroupMetadata
      PROVE  called_to_sync(x).offset = x.offset
  BY DEF called_to_sync, GroupMetadata
<1>3. registered(g, m).offset = g.offset
  BY DEF registered, GroupMetadata
<1>4. ASSUME NEW x \in GroupMetadata
      PROVE  /\ first_joined(x, m).offset = x.offset
             /\ stable_joined(x, m).offset = x.offset
             /\ rebalance_joined(x, m).offset = x.offset
  <2>1. x.members \in SUBSET Member /\ x.generation + 1 \in Nat
    BY GroupFields
  <2>2. first_joined(x, m).offset = x.offset
    <3> DEFINE e == elected(x, m)
    <3>1. e \in GroupMetadata /\ e.offset = x.offset
      BY <1>1
    <3> HIDE DEF e
    <3>2. first_joined(x, m) = [e EXCEPT !.state = "Stable", !.generation = @ + 1, !.aged = FALSE,
                                         !.awaiting_sync = @ \ {m},
                                         !.member_generation[m] = x.generation + 1]
      BY DEF first_joined, e
    <3> QED
      BY <3>1, <3>2 DEF GroupMetadata
  <2>3. stable_joined(x, m).offset = x.offset
    <3> DEFINE l == IF x.leader_id \in x.members THEN x.leader_id ELSE m
               e == elected(x, l)
               p == [e EXCEPT !.state = "PreparingRebalance"]
    <3>1. l \in Member
      BY <2>1
    <3>2. e \in GroupMetadata /\ e.offset = x.offset
      BY <1>1, <3>1
    <3> HIDE DEF e
    <3>3. p \in GroupMetadata /\ p.offset = x.offset
      BY <3>2 DEF GroupMetadata, GroupState
    <3>4. stable_joined(x, m) = called_to_sync(p)
      BY DEF stable_joined, e
    <3> QED
      BY <1>2, <3>3, <3>4
  <2>4. rebalance_joined(x, m).offset = x.offset
    <3> DEFINE h == IF x.leader_id \in x.members THEN x ELSE elected(x, m)
               p == [h EXCEPT !.state = "CompletingRebalance", !.generation = @ + 1]
    <3>1. h \in GroupMetadata /\ h.offset = x.offset
      BY <1>1
    <3>2. rebalance_joined(x, m) \in {called_to_sync(p), h}
      BY DEF rebalance_joined
    <3> HIDE DEF h
    <3>3. h.generation + 1 \in Nat
      BY <3>1, GroupFields
    <3>4. p = [h EXCEPT !.state = "CompletingRebalance", !.generation = h.generation + 1]
      BY <3>1 DEF GroupMetadata
    <3>5. p \in GroupMetadata
      BY <3>1, <3>3, <3>4 DEF GroupMetadata, GroupState
    <3>6. p.offset = x.offset
      BY <3>1, <3>4 DEF GroupMetadata
    <3> QED
      BY <1>2, <3>1, <3>2, <3>5, <3>6
  <2> QED
    BY <2>2, <2>3, <2>4
<1>5. joined(g, m).offset = g.offset
  BY <1>3, <1>4, RegisteredSound DEF joined
<1>6. synced(g, m).offset = g.offset
  BY DEF synced, GroupMetadata
<1>7. erased(g, gone) \in GroupMetadata /\ erased(g, gone).offset = g.offset
  BY ErasedSound DEF erased, GroupMetadata
<1>8. \A d \in heirs(g, gone) : d \in GroupMetadata /\ d.offset = g.offset
  <2>1. erased(g, gone).members \subseteq Member
    BY <1>7, GroupFields
  <2> QED
    BY <1>1, <1>7, <2>1 DEF heirs
<1>9. ASSUME NEW d \in departed(g, gone)
      PROVE  d.offset = g.offset
  <2>1. CASE g.members \subseteq gone
    BY <1>7, <1>9, <2>1 DEF departed, GroupMetadata
  <2>2. CASE ~(g.members \subseteq gone) /\ g.state = "Stable"
    <3>1. PICK h \in heirs(g, gone) :
            d = [h EXCEPT !.state = "PreparingRebalance", !.awaiting_sync = h.members]
      BY <1>9, <2>2 DEF departed
    <3> QED
      BY <1>8, <3>1 DEF GroupMetadata
  <2>3. CASE ~(g.members \subseteq gone) /\ g.state # "Stable"
    BY <1>8, <1>9, <2>3 DEF departed
  <2> QED
    BY <2>1, <2>2, <2>3
<1> QED
  BY <1>5, <1>6, <1>9

\* A step that commits and deletes nothing: the calls that take part in either stay as they
\* are, and a cache keeps its offset or starts without one.
CachesQuiet ==
    \A g \in Active' : \/ groups'[g].offset = 0
                       \/ g \in Active /\ groups'[g].offset = groups[g].offset
ThreadsQuiet ==
    \A t \in Thread :
        \/ thread'[t].op \in PointerOp \cup {"idle"} /\ thread'[t].doomed = {}
        \/ /\ thread'[t].op = thread[t].op /\ thread'[t].group = thread[t].group
           /\ thread'[t].number = thread[t].number /\ thread'[t].doomed = thread[t].doomed

LEMMA OffsetFrame ==
    ASSUME OffsetInv, offset_store' = offset_store, buried' = buried,
           used'.commits = used.commits, used.commits \in Nat, CachesQuiet, ThreadsQuiet
    PROVE  OffsetInv'
<1> USE DEF CachesQuiet, ThreadsQuiet
<1>1. "commit" \notin PointerOp \cup {"idle"} /\ "delete" \notin PointerOp \cup {"idle"}
  BY DEF PointerOp
<1>2. ASSUME NEW t \in Thread PROVE thread'[t].doomed \subseteq thread[t].doomed
  OBVIOUS
<1>3. ASSUME NEW t \in Thread, thread'[t].op \in {"commit", "delete"}
      PROVE  /\ thread[t].op = thread'[t].op /\ thread'[t].group = thread[t].group
             /\ thread'[t].number = thread[t].number
  BY <1>1, <1>3
<1>4. Active' \subseteq Group
  BY DEF Active
<1>5. \A t \in Thread : thread'[t].doomed \subseteq 1 .. used'.commits
  BY <1>2 DEF OffsetInv
<1>6. ASSUME NEW t \in Thread, thread'[t].op = "commit"
      PROVE  /\ thread'[t].number \in 1 .. used'.commits
             /\ \A g \in Group : thread'[t].number \notin buried'[g]
             /\ \A u \in Thread : thread'[t].number \notin thread'[u].doomed
  BY <1>2, <1>3, <1>6 DEF OffsetInv
<1>7. ASSUME NEW g \in Active'
      PROVE  /\ groups'[g].offset \notin buried'[g]
             /\ \A u \in Thread : thread'[u].op = "delete" /\ thread'[u].group = g
                                   => groups'[g].offset \notin thread'[u].doomed
  <2>1. CASE groups'[g].offset = 0
    <3>1. 0 \notin 1 .. used.commits
      OBVIOUS
    <3> QED
      BY <1>2, <1>4, <2>1, <3>1 DEF OffsetInv
  <2>2. CASE g \in Active /\ groups'[g].offset = groups[g].offset
    BY <1>2, <1>3, <2>2 DEF OffsetInv
  <2> QED
    BY <2>1, <2>2
<1> QED
  BY <1>5, <1>6, <1>7 DEF OffsetInv

\* commit_offset commits an offset that no delete knows of.
LEMMA CommitOffsetKeeps ==
    ASSUME IInv, OffsetInv, NEW t \in Thread, CommitOffset(t)
    PROVE  OffsetInv'
<1> DEFINE n == used.commits + 1
<1>1. PICK x \in Group :
        /\ offset_store' = [offset_store EXCEPT ![x] = n]
        /\ thread' = [thread EXCEPT ![t] = Called("commit", x, None, n)]
  BY DEF CommitOffset
<1>2. used.commits \in Nat /\ used'.commits = n
  BY DEF IInv, RestInv, CommitOffset
<1>3. groups' = groups /\ buried' = buried /\ Active' = Active
  BY DEF CommitOffset, Active
<1>4. 1 .. used.commits \subseteq 1 .. used'.commits /\ n \notin 1 .. used.commits /\ n \in 1 .. used'.commits
  BY <1>2
<1>5. /\ thread'[t].op = "commit" /\ thread'[t].number = n /\ thread'[t].doomed = {}
      /\ \A u \in Thread \ {t} : thread'[u] = thread[u]
  BY <1>1 DEF IInv, ThreadInv, Called
<1> HIDE DEF n
<1>6. \A u \in Thread : thread'[u].doomed \subseteq 1 .. used.commits
  BY <1>5 DEF OffsetInv
<1>7. \A g \in Group : buried'[g] \subseteq 1 .. used'.commits /\ offset_store'[g] \notin buried'[g]
  BY <1>1, <1>3, <1>4 DEF OffsetInv, IInv, RestInv
<1>8. ASSUME NEW u \in Thread, thread'[u].op = "commit"
      PROVE  /\ thread'[u].number \in 1 .. used'.commits
             /\ \A g \in Group : thread'[u].number \notin buried'[g]
             /\ \A v \in Thread : thread'[u].number \notin thread'[v].doomed
  <2>1. CASE u = t
    BY <1>3, <1>4, <1>5, <1>6, <2>1 DEF OffsetInv
  <2>2. CASE u # t
    BY <1>3, <1>4, <1>5, <1>8, <2>2 DEF OffsetInv
  <2> QED
    BY <2>1, <2>2
<1>9. ASSUME NEW g \in Active'
      PROVE  /\ groups'[g].offset \notin buried'[g]
             /\ \A u \in Thread : thread'[u].op = "delete" /\ thread'[u].group = g
                                   => groups'[g].offset \notin thread'[u].doomed
  BY <1>3, <1>5 DEF OffsetInv
<1> QED
  BY <1>4, <1>6, <1>7, <1>8, <1>9 DEF OffsetInv

\* ... and caches an offset that is in flight until then.
LEMMA CommitCachedKeeps ==
    ASSUME IInv, OffsetInv, NEW t \in Thread, CommitCached(t)
    PROVE  OffsetInv'
<1> DEFINE x == thread[t].group
           n == thread[t].number
<1>1. /\ n \in 1 .. used.commits /\ \A g \in Group : n \notin buried[g]
      /\ \A u \in Thread : n \notin thread[u].doomed
  BY DEF OffsetInv, CommitCached
<1>2. offset_store' = offset_store /\ buried' = buried /\ used' = used
  BY DEF CommitCached, offsets
<1>3. thread'[t] = Idle /\ \A u \in Thread \ {t} : thread'[u] = thread[u]
  BY DEF IInv, ThreadInv, CommitCached
<1>4. Idle.op = "idle" /\ Idle.doomed = {}
  BY DEF Idle
<1>5. Active' = Active
  BY CommitCachedStep
<1>6. ASSUME NEW g \in Active
      PROVE  groups'[g].offset = groups[g].offset \/ groups'[g].offset = n
  <2>1. groups[g] \in GroupMetadata /\ g \in Group
    BY LivePointer DEF IInv
  <2> QED
    BY <2>1 DEF CommitCached, IInv, GroupsInv, GroupMetadata
<1> HIDE DEF x, n
<1>7. \A u \in Thread : thread'[u].doomed \subseteq thread[u].doomed
  BY <1>3, <1>4
<1>8. \A u \in Thread : thread'[u].op \in {"commit", "delete"} => thread'[u] = thread[u]
  BY <1>3, <1>4
<1>9. ASSUME NEW g \in Active'
      PROVE  /\ groups'[g].offset \notin buried'[g]
             /\ \A u \in Thread : thread'[u].op = "delete" /\ thread'[u].group = g
                                   => groups'[g].offset \notin thread'[u].doomed
  <2>1. g \in Group /\ g \in Active
    BY <1>5 DEF Active
  <2> QED
    BY <1>1, <1>2, <1>6, <1>8, <2>1 DEF OffsetInv
<1> QED
  BY <1>2, <1>7, <1>8, <1>9 DEF OffsetInv

\* delete_group dooms what has been committed, except what is in flight, ...
LEMMA DeleteGroupKeeps ==
    ASSUME IInv, OffsetInv, NEW t \in Thread, DeleteGroup(t)
    PROVE  OffsetInv'
<1> DEFINE dm == (1 .. used.commits) \ InFlight
<1>1. PICK x \in Active :
        /\ Erase({x})
        /\ thread' = [Unpointed(thread, {x}) EXCEPT
                        ![t] = [Called("delete", x, None, 0) EXCEPT !.doomed = dm]]
  BY DEF DeleteGroup
<1>2. offset_store' = offset_store /\ buried' = buried /\ used' = used
  BY DEF DeleteGroup, offsets
<1>3. Active' = Active \ {x} /\ \A g \in Active' : groups'[g] = groups[g]
  BY <1>1, EraseStep DEF IInv, Erase, Active
<1>4. dm \subseteq 1 .. used.commits /\ \A u \in Thread : thread[u].op = "commit" => thread[u].number \notin dm
  BY DEF InFlight
<1> HIDE DEF dm
<1>5. thread'[t] = [Called("delete", x, None, 0) EXCEPT !.doomed = dm]
      /\ \A u \in Thread \ {t} : thread'[u] = Unpointed(thread, {x})[u]
  BY <1>1 DEF Unpointed
<1>6. thread'[t].op = "delete" /\ thread'[t].group = x /\ thread'[t].doomed = dm
  BY <1>5 DEF Called
<1>7. ASSUME NEW u \in Thread \ {t}
      PROVE  /\ thread'[u].op = thread[u].op /\ thread'[u].group = thread[u].group
             /\ thread'[u].number = thread[u].number /\ thread'[u].doomed = thread[u].doomed
  <2>1. thread[u] \in Call \cup {Idle}
    BY DEF IInv, ThreadInv
  <2>2. thread'[u] = thread[u] \/ thread'[u] = [thread[u] EXCEPT !.live = FALSE]
    BY <1>5 DEF Unpointed
  <2>3. CASE thread[u] \in Call
    BY <2>2, <2>3 DEF Call
  <2>4. CASE thread[u] = Idle
    BY <2>2, <2>4 DEF Idle
  <2> QED
    BY <2>1, <2>3, <2>4
<1>8. \A u \in Thread : thread'[u].doomed \subseteq 1 .. used'.commits
  BY <1>2, <1>4, <1>6, <1>7 DEF OffsetInv
<1>9. ASSUME NEW u \in Thread, thread'[u].op = "commit"
      PROVE  /\ thread'[u].number \in 1 .. used'.commits
             /\ \A g \in Group : thread'[u].number \notin buried'[g]
             /\ \A v \in Thread : thread'[u].number \notin thread'[v].doomed
  <2>1. u # t
    BY <1>6, <1>9
  <2> QED
    BY <1>2, <1>4, <1>6, <1>7, <1>9, <2>1 DEF OffsetInv
<1>10. ASSUME NEW g \in Active'
      PROVE  /\ groups'[g].offset \notin buried'[g]
             /\ \A u \in Thread : thread'[u].op = "delete" /\ thread'[u].group = g
                                   => groups'[g].offset \notin thread'[u].doomed
  BY <1>2, <1>3, <1>6, <1>7 DEF OffsetInv
<1> QED
  BY <1>2, <1>8, <1>9, <1>10 DEF OffsetInv

\* ... and in the end has removed it.
LEMMA DeleteOffsetsKeeps ==
    ASSUME IInv, OffsetInv, NEW t \in Thread, DeleteOffsets(t)
    PROVE  OffsetInv'
<1> DEFINE x == thread[t].group
           dm == thread[t].doomed
<1>1. /\ thread[t].op = "delete"
      /\ offset_store' = [offset_store EXCEPT ![x] = 0]
      /\ buried' = [buried EXCEPT ![x] = buried[x] \cup dm]
      /\ groups' = groups /\ used' = used /\ Active' = Active
  BY DEF DeleteOffsets, Active, IInv, RestInv
<1>2. used.commits \in Nat
  BY DEF IInv, RestInv
<1>3. 0 \notin 1 .. used.commits /\ dm \subseteq 1 .. used.commits
  BY <1>2 DEF OffsetInv
<1>4. thread'[t] = Idle /\ \A u \in Thread \ {t} : thread'[u] = thread[u]
  BY DEF IInv, ThreadInv, DeleteOffsets
<1>5. Idle.op = "idle" /\ Idle.doomed = {}
  BY DEF Idle
<1>6. \A u \in Thread : thread'[u].doomed \subseteq 1 .. used'.commits
  BY <1>1, <1>4, <1>5 DEF OffsetInv
<1>7. \A g \in Group : buried'[g] \subseteq buried[g] \cup dm /\ (g # x => buried'[g] = buried[g])
  BY <1>1 DEF IInv, RestInv
<1>8. \A g \in Group : buried'[g] \subseteq 1 .. used'.commits /\ offset_store'[g] \notin buried'[g]
  <2>1. ASSUME NEW g \in Group PROVE buried'[g] \subseteq 1 .. used'.commits
    BY <1>1, <1>3, <1>7 DEF OffsetInv
  <2>2. ASSUME NEW g \in Group PROVE offset_store'[g] = 0 \/ (g # x /\ offset_store'[g] = offset_store[g])
    BY <1>1 DEF IInv, RestInv
  <2> QED
    BY <1>1, <1>3, <1>7, <2>1, <2>2 DEF OffsetInv
<1>9. ASSUME NEW u \in Thread, thread'[u].op = "commit"
      PROVE  /\ thread'[u].number \in 1 .. used'.commits
             /\ \A g \in Group : thread'[u].number \notin buried'[g]
             /\ \A v \in Thread : thread'[u].number \notin thread'[v].doomed
  <2>1. u # t /\ thread'[u] = thread[u]
    BY <1>4, <1>5, <1>9
  <2> QED
    BY <1>1, <1>4, <1>5, <1>7, <1>9, <2>1 DEF OffsetInv
<1>10. ASSUME NEW g \in Active'
      PROVE  /\ groups'[g].offset \notin buried'[g]
             /\ \A u \in Thread : thread'[u].op = "delete" /\ thread'[u].group = g
                                   => groups'[g].offset \notin thread'[u].doomed
  <2>1. g \in Group /\ g \in Active
    BY <1>1 DEF Active
  <2>2. groups[g].offset \notin buried[g] /\ (g = x => groups[g].offset \notin dm)
    BY <1>1, <2>1 DEF OffsetInv
  <2>3. groups'[g].offset \notin buried'[g]
    BY <1>1, <1>7, <2>1, <2>2
  <2> QED
    BY <1>1, <1>4, <1>5, <2>1, <2>3 DEF OffsetInv
<1> QED
  BY <1>6, <1>8, <1>9, <1>10 DEF OffsetInv

\* What the steps of the group protocol do to the caches, ...
LEMMA CachesStep ==
    ASSUME IInv
    PROVE  /\ UNCHANGED groups => CachesQuiet
           /\ \A gone : Erase(gone) => CachesQuiet
           /\ \A g \in Active, new \in GroupMetadata :
                 groups' = [groups EXCEPT ![g] = new] /\ new.offset = groups[g].offset => CachesQuiet
           /\ \A g \in Group :
                 groups' = [groups EXCEPT ![g] = NewGroup] => CachesQuiet
<1> USE DEF CachesQuiet
<1>0. groups \in [Group -> GroupMetadata \cup {NoGroup}]
  BY DEF IInv, GroupsInv
<1>1. UNCHANGED groups => CachesQuiet
  BY DEF Active
<1>2. ASSUME NEW gone, Erase(gone) PROVE CachesQuiet
  BY <1>2 DEF Active, Erase
<1>3. ASSUME NEW g \in Active, NEW new \in GroupMetadata,
             groups' = [groups EXCEPT ![g] = new], new.offset = groups[g].offset
      PROVE  CachesQuiet
  BY <1>0, <1>3 DEF Active
<1>4. ASSUME NEW g \in Group, groups' = [groups EXCEPT ![g] = NewGroup] PROVE CachesQuiet
  <2>1. NewGroup.offset = 0
    BY DEF NewGroup
  <2> QED
    BY <1>0, <1>4, <2>1 DEF Active
<1> QED
  BY <1>1, <1>2, <1>3, <1>4

\* ... and to the calls.
LEMMA CallsStep ==
    ASSUME IInv
    PROVE  /\ UNCHANGED thread => ThreadsQuiet
           /\ \A t \in Thread : thread' = [thread EXCEPT ![t] = Idle] => ThreadsQuiet
           /\ \A t \in Thread, op \in PointerOp : \A g, m, n :
                 thread' = [thread EXCEPT ![t] = Called(op, g, m, n)] => ThreadsQuiet
           /\ \A gone : thread' = Unpointed(thread, gone) => ThreadsQuiet
<1> USE DEF ThreadsQuiet
<1>0. thread \in [Thread -> Call \cup {Idle}]
  BY DEF IInv, ThreadInv
<1>1. UNCHANGED thread => ThreadsQuiet
  OBVIOUS
<1>2. ASSUME NEW t \in Thread, thread' = [thread EXCEPT ![t] = Idle] PROVE ThreadsQuiet
  <2>1. Idle.op = "idle" /\ Idle.doomed = {}
    BY DEF Idle
  <2> QED
    BY <1>0, <1>2, <2>1
<1>3. ASSUME NEW t \in Thread, NEW op \in PointerOp, NEW g, NEW m, NEW n,
             thread' = [thread EXCEPT ![t] = Called(op, g, m, n)]
      PROVE  ThreadsQuiet
  <2>1. Called(op, g, m, n).op = op /\ Called(op, g, m, n).doomed = {}
    BY DEF Called
  <2> QED
    BY <1>0, <1>3, <2>1
<1>4. ASSUME NEW gone, thread' = Unpointed(thread, gone) PROVE ThreadsQuiet
  <2>1. ASSUME NEW u \in Thread
        PROVE  /\ thread'[u].op = thread[u].op /\ thread'[u].group = thread[u].group
               /\ thread'[u].number = thread[u].number /\ thread'[u].doomed = thread[u].doomed
    <3>1. thread'[u] = thread[u] \/ thread'[u] = [thread[u] EXCEPT !.live = FALSE]
      BY <1>4 DEF Unpointed
    <3>2. CASE thread[u] \in Call
      BY <3>1, <3>2 DEF Call
    <3>3. CASE thread[u] = Idle
      BY <3>1, <3>3 DEF Idle
    <3> QED
      BY <1>0, <3>2, <3>3
  <2> QED
    BY <2>1
<1> QED
  BY <1>1, <1>2, <1>3, <1>4

\* A legal step of one group leaves its cache alone.
LEMMA UpdateQuiet ==
    ASSUME IInv, NEW g \in Active, NEW new, Update(g, new),
           Legal(groups[g], stable[g], new), new.offset = groups[g].offset
    PROVE  CachesQuiet
BY CachesStep DEF Update, Legal

\* Every other step.
LEMMA OffsetNext ==
    ASSUME IInv, OffsetInv, [Next]_vars
    PROVE  OffsetInv'
<1>0. used.commits \in Nat /\ used \in [commits : Nat, configs : Nat]
  BY DEF IInv, RestInv
<1>a. ASSUME NEW g \in Active
      PROVE  /\ g \in Group /\ groups[g] \in GroupMetadata /\ stable[g] \in Last
             /\ Coherent(groups[g], stable[g])
             /\ groups[g].awaiting_sync \subseteq groups[g].members
             /\ all_members_joined(groups[g])
  BY LivePointer DEF IInv, Coherent
<1>1. CASE UNCHANGED vars
  BY <1>0, <1>1, OffsetFrame, CachesStep, CallsStep DEF vars
<1>2. ASSUME NEW t \in Thread, JoinBegin(t) PROVE OffsetInv'
  <2>1. PICK g \in Group, m \in Member :
          /\ thread' = [thread EXCEPT ![t] = Called("join", g, m, 0)]
          /\ UNCHANGED groups \/ groups' = [groups EXCEPT ![g] = NewGroup]
    BY <1>2 DEF JoinBegin
  <2>2. CachesQuiet
    BY <2>1, CachesStep
  <2>3. ThreadsQuiet
    BY <2>1, CallsStep DEF PointerOp
  <2> QED
    BY <1>0, <1>2, <2>2, <2>3, OffsetFrame DEF JoinBegin, offsets
<1>3. ASSUME NEW t \in Thread, FindGroup(t) PROVE OffsetInv'
  <2>1. ThreadsQuiet
    BY <1>3, CallsStep DEF FindGroup
  <2>2. CachesQuiet
    BY <1>3, CachesStep DEF FindGroup
  <2> QED
    BY <1>0, <1>3, <2>1, <2>2, OffsetFrame DEF FindGroup, offsets
<1>4. ASSUME NEW t \in Thread, Dangling(t) PROVE OffsetInv'
  <2>1. ThreadsQuiet /\ CachesQuiet
    BY <1>4, CallsStep, CachesStep DEF Dangling
  <2> QED
    BY <1>0, <1>4, <2>1, OffsetFrame DEF Dangling, offsets
<1>5. ASSUME NEW t \in Thread, JoinGroup(t) PROVE OffsetInv'
  <2> DEFINE g == thread[t].group
             m == thread[t].member
  <2>1. g \in Active /\ m \in Member
    BY <1>5, AtLive DEF JoinGroup, PointerOp, AtGroup, IInv, ThreadInv
  <2>2. Update(g, joined(groups[g], m)) \/ UNCHANGED groups
    BY <1>5 DEF JoinGroup
  <2>3. ThreadsQuiet
    BY <1>5, CallsStep DEF JoinGroup
  <2> HIDE DEF g, m
  <2>4. Legal(groups[g], stable[g], joined(groups[g], m)) /\ joined(groups[g], m).offset = groups[g].offset
    BY <1>a, <2>1, JoinedLegal, OffsetKept
  <2>5. CachesQuiet
    BY <2>1, <2>2, <2>4, UpdateQuiet, CachesStep
  <2> QED
    BY <1>0, <1>5, <2>3, <2>5, OffsetFrame DEF JoinGroup, offsets
<1>6. ASSUME NEW t \in Thread, LeaveGroup(t) PROVE OffsetInv'
  <2> DEFINE g == thread[t].group
             m == thread[t].member
  <2>1. g \in Active /\ m \in Member
    BY <1>6, AtLive DEF LeaveGroup, PointerOp, AtGroup, IInv, ThreadInv
  <2>2. \/ m \in groups[g].members /\ \E d \in departed(groups[g], {m}) : Update(g, d)
        \/ UNCHANGED groups
    BY <1>6 DEF LeaveGroup
  <2>3. ThreadsQuiet
    BY <1>6, CallsStep DEF LeaveGroup
  <2> HIDE DEF g, m
  <2>4. CASE m \in groups[g].members /\ \E d \in departed(groups[g], {m}) : Update(g, d)
    <3>1. PICK d \in departed(groups[g], {m}) : Update(g, d)
      BY <2>4
    <3>2. Legal(groups[g], stable[g], d)
      BY <1>a, <2>1, <2>4, DepartedLegal
    <3>3. d.offset = groups[g].offset
      BY <1>a, <2>1, OffsetKept
    <3>4. CachesQuiet
      BY <2>1, <3>1, <3>2, <3>3, UpdateQuiet
    <3> QED
      BY <1>0, <1>6, <2>3, <3>4, OffsetFrame DEF LeaveGroup, offsets
  <2>5. CASE UNCHANGED groups
    BY <1>0, <1>6, <2>3, <2>5, CachesStep, OffsetFrame DEF LeaveGroup, offsets
  <2> QED
    BY <2>2, <2>4, <2>5
<1>7. ASSUME NEW t \in Thread, SyncGroup(t) PROVE OffsetInv'
  <2> DEFINE g == thread[t].group
             m == thread[t].member
  <2>1. g \in Active /\ m \in Member
    BY <1>7, AtLive DEF SyncGroup, PointerOp, AtGroup, IInv, ThreadInv
  <2>2. \/ /\ groups[g].state = "CompletingRebalance" /\ m \in groups[g].members
           /\ Update(g, synced(groups[g], m))
        \/ UNCHANGED groups
    BY <1>7 DEF SyncGroup
  <2>3. ThreadsQuiet
    BY <1>7, CallsStep DEF SyncGroup
  <2> HIDE DEF g, m
  <2>4. synced(groups[g], m).offset = groups[g].offset
    BY <1>a, <2>1, OffsetKept
  <2>5. CachesQuiet
    BY <1>a, <2>1, <2>2, <2>4, SyncedLegal, UpdateQuiet, CachesStep
  <2> QED
    BY <1>0, <1>7, <2>3, <2>5, OffsetFrame DEF SyncGroup, offsets
<1>8. ASSUME NEW t \in Thread, Heartbeat(t) PROVE OffsetInv'
  <2> DEFINE g == thread[t].group
             h == [groups[g] EXCEPT !.expired = @ \ {thread[t].member}]
  <2>1. g \in Active
    BY <1>8, AtLive DEF Heartbeat, PointerOp
  <2>2. h \in GroupMetadata /\ h.offset = groups[g].offset
    BY <1>a, <2>1 DEF GroupMetadata
  <2>3. groups' = [groups EXCEPT ![g] = h] \/ UNCHANGED groups
    BY <1>8 DEF Heartbeat
  <2>4. ThreadsQuiet
    BY <1>8, CallsStep DEF Heartbeat
  <2> HIDE DEF g, h
  <2>5. CachesQuiet
    BY <2>1, <2>2, <2>3, CachesStep
  <2> QED
    BY <1>0, <1>8, <2>4, <2>5, OffsetFrame DEF Heartbeat, offsets
<1>9. ASSUME NEW g \in Active,
             \/ SubscribeTopic(g) \/ UnsubscribeTopic(g) \/ SetGroupProtocol(g)
             \/ SessionExpires(g) \/ EmptyGroupAges(g)
      PROVE  OffsetInv'
  <2>1. \E h \in GroupMetadata : groups' = [groups EXCEPT ![g] = h] /\ h.offset = groups[g].offset
    <3>1. groups[g] \in GroupMetadata
      BY <1>a
    <3>2. CASE SubscribeTopic(g)
      <4>1. PICK topic \in Topic :
              groups' = [groups EXCEPT ![g] = [groups[g] EXCEPT !.subscribed_topics = @ \cup {topic}]]
        BY <3>2 DEF SubscribeTopic, Configure
      <4> DEFINE h == [groups[g] EXCEPT !.subscribed_topics = @ \cup {topic}]
      <4>2. h \in GroupMetadata
        BY <3>1 DEF GroupMetadata
      <4>3. h.offset = groups[g].offset
        BY <3>1 DEF GroupMetadata
      <4> QED
        BY <4>1, <4>2, <4>3
    <3>3. CASE UnsubscribeTopic(g)
      BY <3>1, <3>3 DEF UnsubscribeTopic, Configure, GroupMetadata
    <3>4. CASE SetGroupProtocol(g)
      BY <3>1, <3>4 DEF SetGroupProtocol, Configure, GroupMetadata
    <3>5. CASE SessionExpires(g)
      <4>1. PICK m \in groups[g].members :
              groups' = [groups EXCEPT ![g] = [groups[g] EXCEPT !.expired = @ \cup {m}]]
        BY <3>5 DEF SessionExpires
      <4> DEFINE h == [groups[g] EXCEPT !.expired = @ \cup {m}]
      <4>2. m \in Member
        BY <3>1, GroupFields
      <4>3. h \in GroupMetadata
        BY <3>1, <4>2 DEF GroupMetadata
      <4>4. h.offset = groups[g].offset
        BY <3>1 DEF GroupMetadata
      <4> QED
        BY <4>1, <4>3, <4>4
    <3>6. CASE EmptyGroupAges(g)
      <4> DEFINE h == [groups[g] EXCEPT !.aged = TRUE]
      <4>1. groups' = [groups EXCEPT ![g] = h]
        BY <3>6 DEF EmptyGroupAges
      <4>2. h \in GroupMetadata
        BY <3>1 DEF GroupMetadata
      <4>3. h.offset = groups[g].offset
        BY <3>1 DEF GroupMetadata
      <4> QED
        BY <4>1, <4>2, <4>3
    <3> QED
      BY <1>9, <3>2, <3>3, <3>4, <3>5, <3>6
  <2>2. CachesQuiet
    BY <2>1, CachesStep
  <2>3. thread' = thread /\ offset_store' = offset_store /\ buried' = buried
    BY <1>9 DEF SubscribeTopic, UnsubscribeTopic, SetGroupProtocol, Configure, SessionExpires,
                EmptyGroupAges, offsets
  <2>4. used'.commits = used.commits
    BY <1>0, <1>9 DEF SubscribeTopic, UnsubscribeTopic, SetGroupProtocol, Configure,
                      SessionExpires, EmptyGroupAges
  <2> QED
    BY <1>0, <2>2, <2>3, <2>4, CallsStep, OffsetFrame
<1>10. CASE StartCleanup \/ StopCleanup \/ CleanupAwake \/ CleanupFind \/ CleanupCollect
  <2>1. UNCHANGED <<groups, thread, offset_store, buried, used>>
    BY <1>10 DEF StartCleanup, StopCleanup, CleanupAwake, CleanupFind, CleanupCollect, offsets
  <2> QED
    BY <1>0, <2>1, CachesStep, CallsStep, OffsetFrame
<1>11. CASE CleanupVisit
  <2> DEFINE g == cleaner.at
             gone == timed_out(groups[g])
  <2>1. UNCHANGED <<thread, offset_store, buried, used>>
    BY <1>11 DEF CleanupVisit, offsets
  <2>2. CASE cleaner.live /\ gone # {} /\ \E d \in departed(groups[g], gone) : Update(g, d)
    <3>1. g \in Active
      BY <2>2 DEF IInv, CleanerInv
    <3>2. gone \in SUBSET Member /\ groups[g].state # "Empty"
      BY <1>a, <2>2, <3>1, GroupFields DEF timed_out
    <3>3. groups[g].members # {}
      BY <1>a, <3>1, <3>2 DEF Coherent, Led
    <3>4. PICK d \in departed(groups[g], gone) : Update(g, d)
      BY <2>2
    <3> HIDE DEF g, gone
    <3>5. Legal(groups[g], stable[g], d)
      BY <1>a, <3>1, <3>2, <3>3, DepartedLegal
    <3>6. PICK m : m \in Member
      BY <1>a, <3>1, <3>3, GroupFields
    <3>7. d.offset = groups[g].offset
      BY <1>a, <3>1, <3>2, <3>6, OffsetKept
    <3>8. CachesQuiet
      BY <3>1, <3>4, <3>5, <3>7, UpdateQuiet
    <3> QED
      BY <1>0, <2>1, <3>8, CallsStep, OffsetFrame
  <2>3. CASE UNCHANGED groups
    BY <1>0, <2>1, <2>3, CachesStep, CallsStep, OffsetFrame
  <2> QED
    BY <1>11, <2>2, <2>3 DEF CleanupVisit
<1>12. CASE CleanupErase
  <2>1. CachesQuiet /\ ThreadsQuiet
    BY <1>12, CachesStep, CallsStep DEF CleanupErase
  <2> QED
    BY <1>0, <1>12, <2>1, OffsetFrame DEF CleanupErase, offsets
<1>13. ASSUME NEW t \in Thread,
              CommitOffset(t) \/ CommitCached(t) \/ DeleteGroup(t) \/ DeleteOffsets(t)
       PROVE  OffsetInv'
  BY <1>13, CommitOffsetKeeps, CommitCachedKeeps, DeleteGroupKeeps, DeleteOffsetsKeeps
<1> QED
  BY <1>1, <1>2, <1>3, <1>4, <1>5, <1>6, <1>7, <1>8, <1>9, <1>10, <1>11, <1>12, <1>13 DEF Next
-----------------------------------------------------------------------------
(* The theorems. *)

\* The strengthened invariant holds initially, ...
LEMMA InitIInv == Init => IInv
<1> SUFFICES ASSUME Init PROVE IInv
  OBVIOUS
<1>1. Active = {}
  BY DEF Init, Active
<1>2. GroupsInv
  <2>1. NeverStable \in Last
    BY DEF NeverStable, Last
  <2> QED
    BY <2>1 DEF Init, GroupsInv
<1>3. ThreadInv
  BY DEF Init, ThreadInv, Idle, PointerOp
<1>4. CleanerInv
  BY DEF Init, CleanerInv
<1>5. RestInv
  BY DEF Init, RestInv
<1> QED
  BY <1>2, <1>3, <1>4, <1>5 DEF IInv

\* ... and every step keeps it and uses no Stable generation twice.
LEMMA NextIInv == IInv /\ [Next]_vars => IInv' /\ AllFresh
<1> SUFFICES ASSUME IInv, [Next]_vars PROVE IInv' /\ AllFresh
  OBVIOUS
<1>1. CASE UNCHANGED vars
  <2>1. GroupsInv' /\ AllFresh /\ Active' = Active
    BY <1>1, IdleStep DEF IInv, vars
  <2>2. CleanerInv' /\ cleanup_running' \in BOOLEAN
    BY <1>1, <2>1 DEF IInv, CleanerInv, RestInv, vars
  <2> QED
    BY <1>1, <2>1, <2>2, OtherStep DEF vars, offsets
<1>2. ASSUME NEW t \in Thread,
             \/ JoinBegin(t) \/ FindGroup(t) \/ Dangling(t)
             \/ JoinGroup(t) \/ LeaveGroup(t) \/ SyncGroup(t) \/ Heartbeat(t)
             \/ CommitOffset(t) \/ CommitCached(t) \/ DeleteGroup(t) \/ DeleteOffsets(t)
      PROVE  IInv' /\ AllFresh
  BY <1>2, JoinBeginStep, FindGroupStep, DanglingStep, JoinGroupStep, LeaveGroupStep,
     SyncGroupStep, HeartbeatStep, CommitOffsetStep, CommitCachedStep, DeleteGroupStep,
     DeleteOffsetsStep
<1>3. ASSUME NEW g \in Active,
             \/ SubscribeTopic(g) \/ UnsubscribeTopic(g) \/ SetGroupProtocol(g)
             \/ SessionExpires(g) \/ EmptyGroupAges(g)
      PROVE  IInv' /\ AllFresh
  BY <1>3, ConfigureStep, ClockStep
<1>4. CASE StartCleanup \/ StopCleanup \/ CleanupAwake \/ CleanupFind \/ CleanupCollect
  BY <1>4, CleanupLookStep
<1>5. CASE CleanupVisit
  BY <1>5, CleanupVisitStep
<1>6. CASE CleanupErase
  BY <1>6, CleanupEraseStep
<1> QED
  BY <1>1, <1>2, <1>3, <1>4, <1>5, <1>6 DEF Next

\* The strengthened invariant holds in every behaviour.
LEMMA Inductive == Spec => []IInv
<1> QED
  BY InitIInv, NextIInv, PTL DEF Spec

\* The offset invariant holds in every behaviour.
LEMMA OffsetInductive == Spec => []OffsetInv
<1>1. Init => OffsetInv
  BY DEF Init, OffsetInv, Active, Idle
<1>2. IInv /\ OffsetInv /\ [Next]_vars => OffsetInv'
  BY OffsetNext
<1> QED
  BY <1>1, <1>2, Inductive, PTL DEF Spec

\* Every field always has its type.
THEOREM TypeCorrect == Spec => []TypeOK
<1>1. IInv => TypeOK
  BY DEF IInv, GroupsInv, ThreadInv, CleanerInv, RestInv, TypeOK, Last
<1> QED
  BY <1>1, Inductive, PTL

\* Every use of a group goes through a pointer to a group in the map, or is Dangling.
THEOREM PointersAreValid == Spec => []PointersValid
<1>1. IInv => PointersValid
  BY DEF IInv, ThreadInv, CleanerInv, PointersValid
<1> QED
  BY <1>1, Inductive, PTL

\* A group with members has one leader, which is a member; join_group, leave_group and
\* check_session_timeouts together never leave it with none or two.
THEOREM LeadersAreUnique == Spec => []OneLeader
<1>1. IInv => OneLeader
  BY DEF IInv, GroupsInv, Active, Coherent, Led, OneLeader
<1> QED
  BY <1>1, Inductive, PTL

\* A group that is Stable waits for no member to sync, whatever joins, syncs, departures and
\* time-outs overlapped in its rebalances.
THEOREM StableGroupsAreSynced == Spec => []StableIsSynced
<1>1. IInv => StableIsSynced
  BY DEF IInv, GroupsInv, Active, Coherent, StableIsSynced
<1> QED
  BY <1>1, Inductive, PTL

\* While a group is Stable, its generation stands for the members it settled with.
THEOREM MembershipIsFixed == Spec => []GenerationIsMembership
<1>1. IInv => GenerationIsMembership
  BY DEF IInv, GroupsInv, Active, Coherent, Ahead, GenerationIsMembership
<1> QED
  BY <1>1, Inductive, PTL

\* A group that settles again does so under a higher generation.
THEOREM GenerationsAreNew == Spec => GenerationIsNew
<1>1. AllFresh => \A g \in Group : stable'[g] \notin {stable[g], NeverStable}
                                  => stable'[g].generation > stable[g].generation
  BY DEF AllFresh, Fresh
<1>2. IInv /\ [Next]_vars =>
        [\A g \in Group : stable'[g] \notin {stable[g], NeverStable}
                           => stable'[g].generation > stable[g].generation]_vars
  BY <1>1, NextIInv
<1> QED
  BY <1>2, Inductive, PTL DEF Spec, GenerationIsNew

\* What delete_group has removed is never found again, whatever commit_offset calls, joins
\* and other deletes it races with.
THEOREM DeletedStaysDeleted == Spec => []DeletedOffsetsGone
<1>1. OffsetInv => DeletedOffsetsGone
  BY DEF OffsetInv, DeletedOffsetsGone, Active
<1> QED
  BY <1>1, OffsetInductive, PTL
=============================================================================
