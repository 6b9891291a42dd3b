--------------------------- MODULE MCWriteJournal ---------------------------
(***************************************************************************)
(* WriteJournal for TLC: three plans, and two keys of each kind that can   *)
(* meet (two references and two contents of new invoices), so that every   *)
(* refusal of begin occurs.  Journals with migrated version 1 rows are     *)
(* among the initial states.  Plans are interchangeable.                   *)
(***************************************************************************)
EXTENDS WriteJournal, TLC

PlanSymmetry == Permutations(Plans)
=============================================================================
