---------------------------- MODULE MCDeployment ----------------------------
(* Deployment on small instances.                                           *)
EXTENDS Deployment, TLC

Two == <<"Flight", "Car">>
=============================================================================
