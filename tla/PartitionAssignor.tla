-------------------------- MODULE PartitionAssignor --------------------------
(***************************************************************************)
(* The partition assignment strategies of consumer_group_manager.cpp.      *)
(* Members and topics are strings that the code sorts; here they are       *)
(* integers.  An assignment is a function from members to sets of          *)
(* partitions, and a partition is a pair of a topic and a number.          *)
(***************************************************************************)
EXTENDS Integers, FiniteSets

CONSTANTS
    Member, Topic,
    partition_count     \* partition_count[t]: TopicManager::partition_count(t)

ASSUME NamesAssumption == Member \subseteq Int /\ Topic \subseteq Int
ASSUME CountAssumption == partition_count \in [Topic -> Nat]
-----------------------------------------------------------------------------
\* The place of x in the sorted sequence of the elements of S, from 0.
Rank(x, S) == Cardinality({y \in S : y < x})

Partitions(topics) == UNION {{t} \X (0 .. partition_count[t] - 1) : t \in topics}

\* The place of a partition in the list the code makes of S: topic by topic.
Index(tp, S) ==
    Cardinality({x \in S : x[1] < tp[1] \/ (x[1] = tp[1] /\ x[2] < tp[2])})

\* Mutant: the remainder is dropped.
assign_range_no_remainder(members, topics) ==
    LET n == Cardinality(members)
        share(t, k) == partition_count[t] \div n
    IN  [m \in members |->
            LET k == Rank(m, members)
            IN  UNION {{t} \X (k * share(t, k) .. (k + 1) * share(t, k) - 1) : t \in topics}]

\* A contiguous range of every topic, the first members taking one more each.
assign_range(members, topics) ==
    LET n == Cardinality(members)
        count(t, k) == (partition_count[t] \div n) + IF k < partition_count[t] % n THEN 1 ELSE 0
        start[t \in topics, k \in 0 .. n] == IF k = 0 THEN 0 ELSE start[t, k - 1] + count(t, k - 1)
    IN  [m \in members |->
            LET k == Rank(m, members)
            IN  UNION {{t} \X (start[t, k] .. start[t, k] + count(t, k) - 1) : t \in topics}]

\* Every n-th partition of the parts, which go round the members.
Dealt(parts, members) ==
    [m \in members |->
        {tp \in parts : Index(tp, parts) % Cardinality(members) = Rank(m, members)}]

assign_roundrobin(members, topics) == Dealt(Partitions(topics), members)

\* What its previous owner keeps (the first in sort order, if it had two), and the rest
\* dealt out.
assign_sticky(members, topics, previous) ==
    LET claims(m) == Partitions(topics) \cap previous[m]
        kept(m) == claims(m) \ UNION {claims(x) : x \in {y \in members : y < m}}
        unclaimed == Partitions(topics) \ UNION {claims(m) : m \in members}
    IN  [m \in members |-> kept(m) \cup Dealt(unclaimed, members)[m]]

\* An assignment of the topics to the members: no partition is left out or given twice.
Covers(assignment, topics) ==
    /\ UNION {assignment[m] : m \in DOMAIN assignment} = Partitions(topics)
    /\ \A m, n \in DOMAIN assignment : m # n => assignment[m] \cap assignment[n] = {}

\* No member has two partitions more than another, of the partitions in S.
Even(assignment, S) ==
    \A m, n \in DOMAIN assignment :
        Cardinality(assignment[m] \cap S) <= Cardinality(assignment[n] \cap S) + 1
=============================================================================
