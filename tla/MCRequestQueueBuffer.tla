------------------------ MODULE MCRequestQueueBuffer ------------------------
(***************************************************************************)
(* RequestQueueBuffer on small instances. Requests are interchangeable,    *)
(* and so are the HTTP requests.                                           *)
(***************************************************************************)
EXTENDS RequestQueueBuffer

Symmetry == Permutations(Requests) \cup Permutations(Callers)

=============================================================================
