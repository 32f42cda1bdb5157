----------------------------- MODULE MCBindings -----------------------------
(* Small instances of Bindings; MACs are interchangeable, and so are the   *)
(* callers of resolve_device.                                              *)
EXTENDS Bindings, TLC

Symmetric == Permutations(Mac) \cup Permutations(Resolver)
=============================================================================
