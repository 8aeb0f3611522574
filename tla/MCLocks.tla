------------------------------- MODULE MCLocks -------------------------------
(***************************************************************************)
(* A lock manager with two threads and two owners for TLC.  Threads, names *)
(* and owners are interchangeable.                                         *)
(***************************************************************************)
EXTENDS DistributedLockManager, TLC

CONSTANTS t1, t2, a, b, c, o1, o2

Symmetry == Permutations(Thread) \cup Permutations(Name) \cup Permutations(Owner)
=============================================================================
