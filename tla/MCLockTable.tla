----------------------------- MODULE MCLockTable -----------------------------
(* LockTable on small instances.                                            *)
EXTENDS LockTable, TLC

CONSTANTS d, e   \* two items

Apart == d :> 6 @@ e :> -7
Together == d :> 5 @@ e :> -7
=============================================================================
