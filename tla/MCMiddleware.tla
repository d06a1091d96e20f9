---------------------------- MODULE MCMiddleware ----------------------------
(* Middleware on small instances.  A client's own transaction has its name. *)
EXTENDS Middleware, TLC

CONSTANTS f,   \* a flight
          k,   \* a car location
          u    \* a customer

Own == [t \in Client |-> {t}]
Shared == [t \in Client |-> Xid]

CoreOps == {Query(f, "Flight"), Change(f, "Flight"), Reserve(k, "Car", u)}
LiveOps == {Query(k, "Car"), NewCustomerId(u)}
ChangeOps == {Change(k, "Car")}
CustomerOps == {NewCustomer(u), DeleteCustomer(u, {k}), QueryCustomerInfo(u)}

OwnSymmetry == Permutations(Client)
=============================================================================
