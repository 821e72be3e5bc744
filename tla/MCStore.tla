------------------------------ MODULE MCStore ------------------------------
(* Symmetry for the runs of Store that check no liveness and no refinement: *)
(* chats are interchangeable, and so are the requests in flight.            *)
EXTENDS Store, TLC

Symmetry == Permutations(Chats) \cup Permutations(Requests)
=============================================================================
