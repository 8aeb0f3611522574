-------------------------------- MODULE MCRaft --------------------------------
(***************************************************************************)
(* Small RaftNode clusters for TLC: three nodes, and the membership changes *)
(* a client may propose.                                                    *)
(***************************************************************************)
EXTENDS RaftNode, TLC

CONSTANTS n1, n2, n3

Symmetry == Permutations({n1, n2, n3})

\* Replace n2 by n3 through a joint configuration, then leave it.
ReplaceMember ==
    {[type |-> "ConfigChange", new_members |-> {n1, n3},
      joint_consensus |-> TRUE, old_members |-> {n1, n2}],
     [type |-> "ConfigChange", new_members |-> {n1, n3},
      joint_consensus |-> FALSE, old_members |-> {}]}

===============================================================================
