------------------------- MODULE MCInvoiceOperations -------------------------
(***************************************************************************)
(* InvoiceOperations for TLC: two sessions, three previews and three       *)
(* requests: two references with the same content, and the correction of   *)
(* an original.                                                            *)
(***************************************************************************)
EXTENDS InvoiceOperations, TLC

CONSTANTS ref1, ref2, orig1, deal1

MCRequests ==
    {[kind |-> "issue", target |-> ref1, content |-> deal1],
     [kind |-> "issue", target |-> ref2, content |-> deal1],
     [kind |-> "correct", target |-> orig1, content |-> NoKey]}

Symmetric == Permutations(Plans) \cup Permutations(Sessions)
=============================================================================
