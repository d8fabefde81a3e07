------------------------------ MODULE MCBroker ------------------------------
(***************************************************************************)
(* Model-checking instances of Broker.  Connections are interchangeable.   *)
(***************************************************************************)
EXTENDS Broker

ClientSymmetry == Permutations(Clients)
=============================================================================
