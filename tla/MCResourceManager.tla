------------------------- MODULE MCResourceManager -------------------------
(* ResourceManager on small instances.                                      *)
EXTENDS ResourceManager, TLC

CONSTANTS s1, s2, c1, c2   \* two sessions and two customers

OwnCustomer == [s \in Session |-> IF s = s1 THEN {c1} ELSE {c2}]
AnyCustomer == [s \in Session |-> Customer]

ReserveMethods == {"add", "reserve", "newCustomer"}

FullSymmetry == Permutations(Item) \cup Permutations(Customer)
                   \cup Permutations(Session)
=============================================================================
