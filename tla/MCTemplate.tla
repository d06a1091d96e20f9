----------------------------- MODULE MCTemplate -----------------------------
(* Template on small instances.                                             *)
EXTENDS Template, TLC

CONSTANTS a,   \* a flight
          b,   \* another flight
          u    \* a customer

Servers == [k \in Item |-> "Flight"]

AllMethods == {Add(a), Add(b), Delete(a), NewCustomer(u), NewCustomerId(u),
               DeleteCustomer(u), Bundle(u, <<a, b>>)}

ClientSymmetry == Permutations(Client)
=============================================================================
