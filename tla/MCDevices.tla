------------------------------ MODULE MCDevices ------------------------------
(* A small instance of Devices: MACs and portal threads are interchangeable. *)
EXTENDS Devices, TLC

Symmetric == Permutations(Mac) \union Permutations(Handler)
=============================================================================
