---------------------------- MODULE GroupRejoin -----------------------------
(***************************************************************************)
(* Who has called join_group() since its group left Stable: a history      *)
(* variable beside ConsumerGroupManager, for what the comments of          *)
(* consumer_group_manager.cpp say of PreparingRebalance.                   *)
(***************************************************************************)
EXTENDS MCGroups

VARIABLE rejoined       \* history: the members that have joined g in its rebalance

\* The members whose join_group() on g has just gone through phase 3.
Joining(g) ==
    {thread[t].member : t \in {x \in Thread : /\ AtGroup(x, "join") /\ thread[x].group = g
                                              /\ thread'[x] = Idle}}

RejoinInit == Init /\ rejoined = [g \in Group |-> {}]

RejoinNext ==
    /\ Next
    /\ rejoined' = [g \in Group |->
                      IF groups'[g] # NoGroup /\ Rebalancing(groups'[g])
                      THEN rejoined[g] \cup Joining(g) ELSE {}]

RejoinSpec == RejoinInit /\ [][RejoinNext]_<<vars, rejoined>>

\* A group waits in PreparingRebalance until all its members have rejoined, as the comments at
\* the GroupState enum and in join_group() say.  The code asks all_members_joined(), which
\* compares generations that join_group() itself has made equal.
RejoinedFirst ==
    \A g \in Active :
        groups[g].state = "CompletingRebalance" => groups[g].members \subseteq rejoined[g]
=============================================================================
