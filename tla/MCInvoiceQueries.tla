-------------------------- MODULE MCInvoiceQueries --------------------------
(***************************************************************************)
(* InvoiceQueries for TLC: one business with four invoices and one with a  *)
(* single one, one row a page, so that a list has up to four pages, a      *)
(* summary may be too large, and references are forgotten.                 *)
(***************************************************************************)
EXTENDS InvoiceQueries, TLC

CONSTANTS mine, other, r1, r2, r3, r4, s1

MCRowsOf == (mine :> {r1, r2, r3, r4}) @@ (other :> {s1})

Symmetry == Permutations({r1, r2, r3, r4})
=============================================================================
