------------------------------ MODULE MCGroups ------------------------------
(***************************************************************************)
(* A group coordinator for TLC: three topics of two, three and no          *)
(* partitions, or one.  Threads and groups are interchangeable.            *)
(***************************************************************************)
EXTENDS ConsumerGroupManager, TLC

CONSTANTS t1, t2, g1, g2

ThreeTopics == <<2, 3, 0>>
OneTopic == <<2>>

Symmetry == Permutations(Thread) \cup Permutations(Group)
=============================================================================
