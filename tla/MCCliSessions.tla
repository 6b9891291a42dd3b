---------------------------- MODULE MCCliSessions ----------------------------
(* A certificate with its renewal in the same directory and one of another    *)
(* business, which shares a session file with the renewed one.                *)
EXTENDS CliSessions, TLC

CONSTANTS old, new, other, q1, q2, A, B, s1, s2, fingerprint, print

MCPathOf == (old :> q1) @@ (new :> q1) @@ (other :> q2)
MCOwnerOf == (old :> A) @@ (new :> A) @@ (other :> B)
MCSlotOf == (old :> s1) @@ (new :> s2) @@ (other :> s1)

\* A user may name an alias after the line of the certificate, and one after its end.
MCEnds == (fingerprint :> {print}) @@ (print :> {})

MCEarlier ==
    {NoText("blank")} \cup
    {[text |-> "toml", default |-> d,
      aliases |-> [n \in Names |-> IF n = fingerprint THEN other ELSE NoCert]] : d \in {NoCert, old}}

ProcSymmetry == Permutations(Procs)
=============================================================================
