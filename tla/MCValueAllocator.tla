-------------------------- MODULE MCValueAllocator --------------------------
(* Model checking instance of ValueAllocator.                              *)
EXTENDS ValueAllocator
=============================================================================
