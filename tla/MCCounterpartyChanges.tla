------------------------ MODULE MCCounterpartyChanges ------------------------
(* Two owners, two plans and three records, of which two differ in their       *)
(* contacts: the second plan may be previewed, applied or overtaken at every   *)
(* await of the first, and others may interfere twice in between.              *)
EXTENDS CounterpartyChanges, TLC

IdSymmetry == Permutations(Plans) \cup Permutations(Sessions) \cup Permutations(Owners)
=============================================================================
