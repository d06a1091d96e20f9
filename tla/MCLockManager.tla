--------------------------- MODULE MCLockManager ---------------------------
(* LockManager on small instances.  A thread's own transaction has the     *)
(* thread's name; the threads of Shared all work for the other ones.       *)
EXTENDS LockManager, TLC, FiniteSets

CONSTANT Shared

Own == [t \in Thread |-> {t}]
OwnOrShared == [t \in Thread |-> IF t \in Shared THEN Xid \ Thread ELSE {t}]
DistinctHash == CHOOSE h \in [Data -> 1 .. Cardinality(Data)] :
                    \A d, e \in Data : h[d] = h[e] => d = e

SharedSymmetry == Permutations(Shared)
=============================================================================
