---------------------------- MODULE MCJournalFile ----------------------------
(***************************************************************************)
(* JournalFile for TLC: two callers, and two plans for one new invoice, on *)
(* a path with no file, a journal of version 1 with any rows, or a current *)
(* one.  No symmetry, as liveness is checked too.                          *)
(***************************************************************************)
EXTENDS JournalFile
=============================================================================
