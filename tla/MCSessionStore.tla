--------------------------- MODULE MCSessionStore ---------------------------
(* More sessions than places, so that a login may find the store full, and    *)
(* enough requests for a user, a waiter and a pruner of one session.          *)
EXTENDS SessionStore, TLC

TaskSymmetry == Permutations(Sessions) \cup Permutations(Requests)
=============================================================================
