-------------------------- MODULE MCRequestTracing -------------------------
(* Requests are interchangeable.                                           *)
EXTENDS RequestTracing, TLC

RequestSymmetry == Permutations(HttpRequests)
=============================================================================
