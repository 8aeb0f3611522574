------------------------ MODULE ConsumerGroupManager ------------------------
(***************************************************************************)
(* The consumer group coordinator of one broker,                           *)
(* src/torrent/broker/consumer_group_manager.cpp.                          *)
(*                                                                         *)
(* join_group(), leave_group(), sync_group() and heartbeat() look the      *)
(* group up under groups_mutex, give that lock up, and go on under the     *)
(* mutex of the group with a raw pointer to it.  In between, delete_group()*)
(* and the cleanup thread may free the group.  A call is therefore two     *)
(* steps of its thread, and its pointer is live or dangling at the second. *)
(***************************************************************************)
EXTENDS PartitionAssignor

CONSTANTS
    Thread,                 \* threads of the broker that call the manager
    Group,                  \* group ids
    NoGroup, None,          \* no entry in the map; no member, no group
    kMaxActiveGroups, kMaxMembersPerGroup

CONSTANTS                   \* bounds of the explored state space
    MaxGeneration,          \* no join is begun on a group of this generation
    MaxCommits,             \* offset commits
    MaxConfigs              \* subscriptions and protocol changes

VARIABLES
    groups,             \* groups[g]: the GroupMetadata of g, or NoGroup
    thread,             \* thread[t]: the call t is inside
    cleaner,            \* where the cleanup thread is
    cleanup_running,
    offset_store,       \* offset_store[g]: the committed offset of g's partition, 0 for none
    used,               \* how much of the bounds has been used
    stable,             \* history: the last generation of g that was Stable, and who was in it
    buried              \* history: offsets of g that a finished delete_group() must have removed

vars == <<groups, thread, cleaner, cleanup_running, offset_store, used, stable, buried>>

ASSUME FiniteAssumption == IsFiniteSet(Member) /\ IsFiniteSet(Group)
ASSUME NoneAssumption == None \notin Member \cup Group
ASSUME LimitAssumption == kMaxActiveGroups \in Nat /\ kMaxMembersPerGroup \in Nat
ASSUME BoundAssumption == MaxGeneration \in Nat /\ MaxCommits \in Nat /\ MaxConfigs \in Nat
-----------------------------------------------------------------------------
GroupState == {"Empty", "Stable", "PreparingRebalance", "CompletingRebalance"}
Strategy == {"Range", "RoundRobin", "Sticky"}

\* The flags of the GroupMembers are sets of members.  A time is kept as whether it is
\* too long ago: `expired' for last_heartbeat, `aged' for the state_timestamp of Empty.
GroupMetadata ==
    [state : GroupState, generation : Nat, leader_id : Member \cup {None},
     members : SUBSET Member, member_generation : [Member -> Nat \cup {-1}],
     is_leader : SUBSET Member, awaiting_sync : SUBSET Member, expired : SUBSET Member,
     aged : BOOLEAN, offset : Nat, subscribed_topics : SUBSET Topic, strategy : Strategy]

ASSUME NoGroupAssumption == NoGroup \notin GroupMetadata

\* Mutant: a group starts, like a member, at generation -1.
NewGroup_before_first ==
    [state |-> "Empty", generation |-> -1, leader_id |-> None,
     members |-> {}, member_generation |-> [m \in Member |-> -1],
     is_leader |-> {}, awaiting_sync |-> {}, expired |-> {},
     aged |-> FALSE, offset |-> 0, subscribed_topics |-> {}, strategy |-> "Range"]

NewGroup ==
    [state |-> "Empty", generation |-> 0, leader_id |-> None,
     members |-> {}, member_generation |-> [m \in Member |-> -1],
     is_leader |-> {}, awaiting_sync |-> {}, expired |-> {},
     aged |-> FALSE, offset |-> 0, subscribed_topics |-> {}, strategy |-> "Range"]

Rebalancing(g) == g.state \in {"PreparingRebalance", "CompletingRebalance"}
all_members_joined(g) == \A m \in g.members : g.member_generation[m] = g.generation
all_members_synced(g) == g.awaiting_sync = {}

Active == {g \in Group : groups[g] # NoGroup}

\* A call with a pointer to its group (join, leave, sync, heartbeat), or without one.
PointerOp == {"join", "leave", "sync", "heartbeat"}
Call == [op : PointerOp \cup {"commit", "delete"}, group : Group, member : Member \cup {None},
         number : Nat, live : BOOLEAN, doomed : SUBSET Nat]
Idle == [op |-> "idle", group |-> None, member |-> None, number |-> 0,
         live |-> FALSE, doomed |-> {}]
Called(op, g, m, n) == [op |-> op, group |-> g, member |-> m, number |-> n,
                        live |-> TRUE, doomed |-> {}]

\* The offsets whose commit has not returned yet.
InFlight == {thread[t].number : t \in {s \in Thread : thread[s].op = "commit"}}
-----------------------------------------------------------------------------
(* What the operations do to a group. *)

elected(g, m) == [g EXCEPT !.leader_id = m, !.is_leader = @ \cup {m}]

\* All members are on the generation of the group and have to sync.
called_to_sync(g) ==
    [g EXCEPT !.awaiting_sync = g.members,
              !.member_generation = [m \in Member |-> IF m \in g.members THEN g.generation
                                                      ELSE @[m]]]

\* join_group(), phase 2.
registered(g, m) ==
    IF m \in g.members
    THEN [g EXCEPT !.expired = @ \ {m}, !.member_generation[m] = g.generation,
                   !.awaiting_sync = IF Rebalancing(g) THEN @ \cup {m} ELSE @]
    ELSE [g EXCEPT !.members = @ \cup {m}, !.member_generation[m] = g.generation,
                   !.awaiting_sync = @ \cup {m}]

\* join_group(), phase 3.
first_joined(g, m) ==
    [elected(g, m) EXCEPT !.state = "Stable", !.generation = @ + 1, !.aged = FALSE,
                          !.awaiting_sync = @ \ {m},
                          !.member_generation[m] = g.generation + 1]

stable_joined(g, m) ==
    called_to_sync([elected(g, IF g.leader_id \in g.members THEN g.leader_id ELSE m)
                    EXCEPT !.state = "PreparingRebalance"])

\* Mutant: the generation is not advanced.
rebalance_joined_same_generation(g, m) ==
    LET h == IF g.leader_id \in g.members THEN g ELSE elected(g, m)
    IN  IF all_members_joined(h)
        THEN called_to_sync([h EXCEPT !.state = "CompletingRebalance"])
        ELSE h

rebalance_joined(g, m) ==
    LET h == IF g.leader_id \in g.members THEN g ELSE elected(g, m)
    IN  IF all_members_joined(h)
        THEN called_to_sync([h EXCEPT !.state = "CompletingRebalance", !.generation = @ + 1])
        ELSE h

joined(g, m) ==
    LET r == registered(g, m)
    IN  CASE g.state = "Empty"  -> first_joined(r, m)
          [] g.state = "Stable" -> stable_joined(r, m)
          [] OTHER              -> rebalance_joined(r, m)

erased(g, gone) ==
    [g EXCEPT !.members = @ \ gone, !.is_leader = @ \ gone,
              !.awaiting_sync = @ \ gone, !.expired = @ \ gone,
              !.member_generation = [m \in Member |-> IF m \in gone THEN -1 ELSE @[m]]]

\* Mutant: the leader is looked for only when the group is Stable.
heirs_when_stable(g, gone) ==
    LET e == erased(g, gone)
    IN  IF gone \cap g.is_leader # {} /\ g.state = "Stable"
        THEN {elected(e, m) : m \in e.members} ELSE {e}

\* A leader that goes is replaced by members.begin(), which may be anybody.
heirs(g, gone) ==
    LET e == erased(g, gone)
    IN  IF gone \cap g.is_leader # {} THEN {elected(e, m) : m \in e.members} ELSE {e}

\* Mutant: the members that stay are not asked to sync.
departed_no_sync(g, gone) ==
    IF g.members \subseteq gone
    THEN {[erased(g, gone) EXCEPT !.state = "Empty", !.leader_id = None,
                                  !.generation = 0, !.aged = FALSE]}
    ELSE heirs(g, gone)

\* leave_group() and check_session_timeouts(), after the members in `gone' are found.
departed(g, gone) ==
    IF g.members \subseteq gone
    THEN {[erased(g, gone) EXCEPT !.state = "Empty", !.leader_id = None,
                                  !.generation = 0, !.aged = FALSE]}
    ELSE IF g.state = "Stable"
    THEN {[h EXCEPT !.state = "PreparingRebalance", !.awaiting_sync = h.members] :
             h \in heirs(g, gone)}
    ELSE heirs(g, gone)

\* Mutant: the first member to sync settles the group.
synced_first(g, m) ==
    [g EXCEPT !.awaiting_sync = @ \ {m}, !.state = "Stable"]

\* sync_group().
synced(g, m) ==
    LET h == [g EXCEPT !.awaiting_sync = @ \ {m}]
    IN  IF all_members_synced(h) THEN [h EXCEPT !.state = "Stable"] ELSE h

\* The assignment sync_group() computes for the group.  It has no previous assignment to
\* pass to the sticky strategy, and the result is not stored.
assignments(g) ==
    CASE g.strategy = "Range"      -> assign_range(g.members, g.subscribed_topics)
      [] g.strategy = "RoundRobin" -> assign_roundrobin(g.members, g.subscribed_topics)
      [] g.strategy = "Sticky"     -> assign_sticky(g.members, g.subscribed_topics,
                                                    [m \in g.members |-> {}])
-----------------------------------------------------------------------------
NeverStable == [generation |-> 0, members |-> {}]

\* History: what is the last Stable generation once `old' has become `new'?
settled(old, new, last) ==
    IF new.state = "Empty" THEN NeverStable
    ELSE IF new.state = "Stable" /\ old.state # "Stable"
    THEN [generation |-> new.generation, members |-> new.members]
    ELSE last

Update(g, new) ==
    /\ groups' = [groups EXCEPT ![g] = new]
    /\ stable' = [stable EXCEPT ![g] = settled(groups[g], new, @)]

Init ==
    /\ groups = [g \in Group |-> NoGroup]
    /\ thread = [t \in Thread |-> Idle]
    /\ cleaner = [pc |-> "off", todo |-> {}, at |-> None, live |-> FALSE, remove |-> {}]
    /\ cleanup_running = FALSE
    /\ offset_store = [g \in Group |-> 0]
    /\ used = [commits |-> 0, configs |-> 0]
    /\ stable = [g \in Group |-> NeverStable]
    /\ buried = [g \in Group |-> {}]

cleanup == <<cleaner, cleanup_running>>
offsets == <<offset_store, buried>>

(* The calls that find a group, give up groups_mutex and take the mutex of the group. *)

\* join_group(), phase 1.  At the limit only a group that exists is found.
JoinBegin(t) ==
    /\ thread[t] = Idle
    /\ \E g \in Group, m \in Member :
        /\ thread' = [thread EXCEPT ![t] = Called("join", g, m, 0)]
        /\ \/ /\ g \in Active /\ groups[g].generation < MaxGeneration
              /\ UNCHANGED <<groups, stable>>
           \/ /\ g \notin Active /\ Cardinality(Active) < kMaxActiveGroups
              /\ groups' = [groups EXCEPT ![g] = NewGroup]
              /\ UNCHANGED stable
    /\ UNCHANGED <<cleanup, offsets, used>>

\* leave_group(), sync_group() and heartbeat(): a group that is not there ends the call.
FindGroup(t) ==
    /\ thread[t] = Idle
    /\ \E g \in Active, m \in Member, op \in PointerOp \ {"join"}, n \in 0 .. MaxGeneration :
        /\ op # "heartbeat" => n = 0
        /\ thread' = [thread EXCEPT ![t] = Called(op, g, m, n)]
    /\ UNCHANGED <<groups, stable, cleanup, offsets, used>>

\* The group has been freed in the meantime.  What the call reads and writes through its
\* pointer is lost with the memory of the group, and its result may be any.
Dangling(t) ==
    /\ thread[t].op \in PointerOp /\ ~thread[t].live
    /\ thread' = [thread EXCEPT ![t] = Idle]
    /\ UNCHANGED <<groups, stable, cleanup, offsets, used>>

\* The group of t's call, if the pointer is live.
AtGroup(t, op) == thread[t].op = op /\ thread[t].live

JoinGroup(t) ==
    LET g == thread[t].group
        m == thread[t].member
        full == Cardinality(groups[g].members) >= kMaxMembersPerGroup
    IN  /\ AtGroup(t, "join")
        /\ \/ /\ m \in groups[g].members \/ ~full
              /\ Update(g, joined(groups[g], m))
           \/ /\ m \notin groups[g].members /\ full
              /\ UNCHANGED <<groups, stable>>
        /\ thread' = [thread EXCEPT ![t] = Idle]
        /\ UNCHANGED <<cleanup, offsets, used>>

LeaveGroup(t) ==
    LET g == thread[t].group
        m == thread[t].member
    IN  /\ AtGroup(t, "leave")
        /\ \/ /\ m \in groups[g].members
              /\ \E d \in departed(groups[g], {m}) : Update(g, d)
           \/ /\ m \notin groups[g].members
              /\ UNCHANGED <<groups, stable>>
        /\ thread' = [thread EXCEPT ![t] = Idle]
        /\ UNCHANGED <<cleanup, offsets, used>>

SyncGroup(t) ==
    LET g == thread[t].group
        m == thread[t].member
        accepted == groups[g].state = "CompletingRebalance" /\ m \in groups[g].members
    IN  /\ AtGroup(t, "sync")
        /\ \/ accepted /\ Update(g, synced(groups[g], m))
           \/ ~accepted /\ UNCHANGED <<groups, stable>>
        /\ thread' = [thread EXCEPT ![t] = Idle]
        /\ UNCHANGED <<cleanup, offsets, used>>

Heartbeat(t) ==
    LET g == thread[t].group
        m == thread[t].member
        accepted == m \in groups[g].members /\ groups[g].member_generation[m] = thread[t].number
    IN  /\ AtGroup(t, "heartbeat")
        /\ \/ accepted /\ groups' = [groups EXCEPT ![g].expired = @ \ {m}]
           \/ ~accepted /\ UNCHANGED groups
        /\ thread' = [thread EXCEPT ![t] = Idle]
        /\ UNCHANGED <<stable, cleanup, offsets, used>>

(* Offsets *)

\* commit_offset() writes the store, ...
CommitOffset(t) ==
    /\ thread[t] = Idle
    /\ used.commits < MaxCommits
    /\ \E g \in Group :
        /\ offset_store' = [offset_store EXCEPT ![g] = used.commits + 1]
        /\ thread' = [thread EXCEPT ![t] = Called("commit", g, None, used.commits + 1)]
    /\ used' = [used EXCEPT !.commits = @ + 1]
    /\ UNCHANGED <<groups, stable, cleanup, buried>>

\* ... and then the cache of the group, holding both mutexes.
CommitCached(t) ==
    LET g == thread[t].group
    IN  /\ thread[t].op = "commit"
        /\ \/ g \in Active /\ groups' = [groups EXCEPT ![g].offset = thread[t].number]
           \/ g \notin Active /\ UNCHANGED groups
        /\ thread' = [thread EXCEPT ![t] = Idle]
        /\ UNCHANGED <<stable, cleanup, offsets, used>>

(* Freeing groups *)

\* The entries in `gone' are erased: pointers to them dangle.
Erase(gone) ==
    /\ groups' = [g \in Group |-> IF g \in gone THEN NoGroup ELSE groups[g]]
    /\ stable' = [g \in Group |-> IF g \in gone THEN NeverStable ELSE stable[g]]

Unpointed(calls, gone) ==
    [t \in Thread |-> IF calls[t].group \in gone THEN [calls[t] EXCEPT !.live = FALSE]
                      ELSE calls[t]]

DeleteGroup(t) ==
    /\ thread[t] = Idle
    /\ \E g \in Active :
        /\ groups[g].members = {}
        /\ Erase({g})
        /\ thread' = [Unpointed(thread, {g}) EXCEPT
                        ![t] = [Called("delete", g, None, 0) EXCEPT
                                  !.doomed = (1 .. used.commits) \ InFlight]]
        /\ cleaner' = [cleaner EXCEPT !.live = @ /\ cleaner.at # g]
    /\ UNCHANGED <<cleanup_running, offsets, used>>

\* Mutant: the offsets stay, as they do when the cleanup thread removes a group.
DeleteOffsets_kept(t) ==
    LET g == thread[t].group
    IN  /\ thread[t].op = "delete"
        /\ buried' = [buried EXCEPT ![g] = @ \cup thread[t].doomed]
        /\ thread' = [thread EXCEPT ![t] = Idle]
        /\ UNCHANGED <<groups, stable, cleanup, used, offset_store>>

DeleteOffsets(t) ==
    LET g == thread[t].group
    IN  /\ thread[t].op = "delete"
        /\ offset_store' = [offset_store EXCEPT ![g] = 0]
        /\ buried' = [buried EXCEPT ![g] = @ \cup thread[t].doomed]
        /\ thread' = [thread EXCEPT ![t] = Idle]
        /\ UNCHANGED <<groups, stable, cleanup, used>>

(* Configuration, under both mutexes *)

Configure(g, new) ==
    /\ used.configs < MaxConfigs
    /\ groups' = [groups EXCEPT ![g] = new]
    /\ used' = [used EXCEPT !.configs = @ + 1]
    /\ UNCHANGED <<thread, stable, cleanup, offsets>>

SubscribeTopic(g) ==
    \E topic \in Topic : Configure(g, [groups[g] EXCEPT !.subscribed_topics = @ \cup {topic}])

UnsubscribeTopic(g) ==
    \E topic \in Topic : Configure(g, [groups[g] EXCEPT !.subscribed_topics = @ \ {topic}])

SetGroupProtocol(g) ==
    \E s \in Strategy : Configure(g, [groups[g] EXCEPT !.strategy = s])

(* The cleanup thread *)

StartCleanup ==
    /\ ~cleanup_running /\ cleaner.pc = "off"
    /\ cleanup_running' = TRUE
    /\ cleaner' = [cleaner EXCEPT !.pc = "awake"]
    /\ UNCHANGED <<groups, stable, thread, offsets, used>>

StopCleanup ==
    /\ cleanup_running
    /\ cleanup_running' = FALSE
    /\ UNCHANGED <<groups, stable, thread, cleaner, offsets, used>>

\* The loop condition, and the snapshot of group ids in check_session_timeouts().
CleanupAwake ==
    /\ cleaner.pc = "awake"
    /\ cleaner' = IF cleanup_running THEN [cleaner EXCEPT !.pc = "scan", !.todo = Active]
                  ELSE [cleaner EXCEPT !.pc = "off"]
    /\ UNCHANGED <<groups, stable, thread, cleanup_running, offsets, used>>

CleanupFind ==
    /\ cleaner.pc = "scan"
    /\ \E g \in cleaner.todo :
        cleaner' = IF g \in Active
                   THEN [cleaner EXCEPT !.todo = @ \ {g}, !.at = g, !.live = TRUE, !.pc = "visit"]
                   ELSE [cleaner EXCEPT !.todo = @ \ {g}]
    /\ UNCHANGED <<groups, stable, thread, cleanup_running, offsets, used>>

\* Mutant: a group that is rebalancing is left alone.
timed_out_when_stable(g) == IF g.state = "Stable" THEN g.expired ELSE {}

timed_out(g) == IF g.state = "Empty" THEN {} ELSE g.expired

CleanupVisit ==
    LET g == cleaner.at
    IN  /\ cleaner.pc = "visit"
        /\ \/ /\ cleaner.live /\ timed_out(groups[g]) # {}
              /\ \E d \in departed(groups[g], timed_out(groups[g])) : Update(g, d)
           \/ /\ cleaner.live => timed_out(groups[g]) = {}
              /\ UNCHANGED <<groups, stable>>
        /\ cleaner' = [cleaner EXCEPT !.pc = "scan", !.at = None, !.live = FALSE]
        /\ UNCHANGED <<thread, cleanup_running, offsets, used>>

\* cleanup_dead_groups(), under a shared groups_mutex, ...
CleanupCollect ==
    LET old == {g \in Active : groups[g].state = "Empty" /\ groups[g].aged}
    IN  /\ cleaner.pc = "scan" /\ cleaner.todo = {}
        /\ cleaner' = [cleaner EXCEPT !.pc = IF old = {} THEN "awake" ELSE "erase",
                                      !.remove = old]
        /\ UNCHANGED <<groups, stable, thread, cleanup_running, offsets, used>>

\* ... and under a unique one, whatever has become of the groups since.
CleanupErase ==
    /\ cleaner.pc = "erase"
    /\ Erase(cleaner.remove)
    /\ thread' = Unpointed(thread, cleaner.remove)
    /\ cleaner' = [cleaner EXCEPT !.pc = "awake", !.remove = {}]
    /\ UNCHANGED <<cleanup_running, offsets, used>>

(* Time passes *)

SessionExpires(g) ==
    \E m \in groups[g].members \ groups[g].expired :
        /\ groups' = [groups EXCEPT ![g].expired = @ \cup {m}]
        /\ UNCHANGED <<stable, thread, cleanup, offsets, used>>

EmptyGroupAges(g) ==
    /\ groups[g].state = "Empty" /\ ~groups[g].aged
    /\ groups' = [groups EXCEPT ![g].aged = TRUE]
    /\ UNCHANGED <<stable, thread, cleanup, offsets, used>>

Next ==
    \/ \E t \in Thread :
        \/ JoinBegin(t) \/ FindGroup(t) \/ Dangling(t)
        \/ JoinGroup(t) \/ LeaveGroup(t) \/ SyncGroup(t) \/ Heartbeat(t)
        \/ CommitOffset(t) \/ CommitCached(t) \/ DeleteGroup(t) \/ DeleteOffsets(t)
    \/ \E g \in Active :
        \/ SubscribeTopic(g) \/ UnsubscribeTopic(g) \/ SetGroupProtocol(g)
        \/ SessionExpires(g) \/ EmptyGroupAges(g)
    \/ StartCleanup \/ StopCleanup
    \/ CleanupAwake \/ CleanupFind \/ CleanupVisit \/ CleanupCollect \/ CleanupErase

Spec == Init /\ [][Next]_vars

\* The cleanup thread is a loop around sleep_for(): it always goes on.
FairSpec ==
    /\ Spec
    /\ WF_vars(CleanupAwake) /\ WF_vars(CleanupFind) /\ WF_vars(CleanupVisit)
    /\ WF_vars(CleanupCollect) /\ WF_vars(CleanupErase)
-----------------------------------------------------------------------------
(* Properties. *)

\* Every field has its type.
TypeOK ==
    /\ groups \in [Group -> GroupMetadata \cup {NoGroup}]
    /\ thread \in [Thread -> Call \cup {Idle}]
    /\ cleaner \in [pc : {"off", "awake", "scan", "visit", "erase"}, todo : SUBSET Group,
                    at : Group \cup {None}, live : BOOLEAN, remove : SUBSET Group]
    /\ cleanup_running \in BOOLEAN
    /\ offset_store \in [Group -> Nat]
    /\ used \in [commits : Nat, configs : Nat]
    /\ stable \in [Group -> [generation : Nat, members : SUBSET Member]]
    /\ buried \in [Group -> SUBSET Nat]

\* A pointer that is taken to be live points to a group that is still in the map: Dangling
\* covers every use after delete_group() or cleanup_dead_groups() has freed the group.
PointersValid ==
    /\ \A t \in Thread : thread[t].op \in PointerOp /\ thread[t].live => thread[t].group \in Active
    /\ cleaner.live => cleaner.at \in Active

\* A group with members has exactly one leader, the member leader_id names; a group without
\* is Empty.  Leaders are replaced in three places (join_group, leave_group and
\* check_session_timeouts), in every state of a rebalance.
OneLeader ==
    \A g \in Active :
        IF groups[g].members = {} THEN groups[g].state = "Empty"
        ELSE /\ groups[g].state # "Empty"
             /\ groups[g].leader_id \in groups[g].members
             /\ groups[g].is_leader = {groups[g].leader_id}

\* A Stable group has no member that has yet to sync, whichever joins, syncs and departures
\* of a rebalance overlapped and whoever left or timed out before its turn to sync.
StableIsSynced ==
    \A g \in Active : groups[g].state = "Stable" => all_members_synced(groups[g])

\* A generation stands for one membership: while a group is Stable nobody enters or leaves, by
\* join_group, leave_group or check_session_timeouts.
GenerationIsMembership ==
    \A g \in Active :
        groups[g].state = "Stable" =>
            stable[g] = [generation |-> groups[g].generation, members |-> groups[g].members]

\* A group never becomes Stable again under the same generation, so that members of two
\* different assignments never both pass the generation check of heartbeat().  A group that
\* has been Empty in between starts again from 0.
GenerationIsNew ==
    [][\A g \in Group : stable'[g] \notin {stable[g], NeverStable}
                        => stable'[g].generation > stable[g].generation]_vars

\* When delete_group() has returned, no offset whose commit had returned before it began is
\* found again, in the store or in the cache of a new group of that name (commit_offset and
\* delete_group both write the two under different locks).
DeletedOffsetsGone ==
    \A g \in Group :
        /\ offset_store[g] \notin buried[g]
        /\ g \in Active => groups[g].offset \notin buried[g]

\* Whenever sync_group() settles a group, every partition of the subscribed topics has gone to
\* exactly one of its members, whichever topics and strategy those are, and evenly: per topic
\* by range, in total by the others.
AssignmentIsFair ==
    [][\A g \in Active :
        groups[g].state = "CompletingRebalance" /\ g \in Active' /\ groups'[g].state = "Stable" =>
        \A topics \in SUBSET Topic, s \in Strategy :
            LET a == assignments([groups[g] EXCEPT !.subscribed_topics = topics, !.strategy = s])
            IN  /\ Covers(a, topics)
                /\ IF s = "Range" THEN \A t \in topics : Even(a, Partitions({t}))
                   ELSE Even(a, Partitions(topics))]_vars

\* A member that stays silent is removed, in whatever state its group is, unless the cleanup
\* thread is stopped (check_session_timeouts).
SilentMemberRemoved ==
    \A g \in Group, m \in Member :
        cleanup_running /\ g \in Active /\ m \in groups[g].expired
        ~> ~cleanup_running \/ g \notin Active \/ m \notin groups[g].expired
=============================================================================
