-------------------------- MODULE WriteJournalProofs --------------------------
(***************************************************************************)
(* For every set of plans, keys and payloads: the journal's type           *)
(* correctness and the four exclusions it exists for.  The exclusions are  *)
(* jointly inductive: OneOpenPerTarget carries OneLivePerInvoice, and the  *)
(* two guard invariants need only the type of the guard sets.              *)
(***************************************************************************)
EXTENDS WriteJournal, TLAPS

\* Every write of begin and finish keeps the columns in their types.
THEOREM TypeCorrect == Spec => []TypeOK
<1>1. Init => TypeOK
  <2> SUFFICES ASSUME Init PROVE TypeOK
    OBVIOUS
  <2>1. \A p \in Plans : Recorded(p) => target[p] \in Targets
    BY DEF Init, Recorded
  <2> QED BY <2>1 DEF Init, TypeOK
<1>2. TypeOK /\ [Next]_vars => TypeOK'
  <2> SUFFICES ASSUME TypeOK, [Next]_vars PROVE TypeOK'
    OBVIOUS
  <2> USE DEF TypeOK, Recorded
  <2>1. ASSUME NEW p \in Plans, NEW t \in Targets, NEW h \in Payloads,
               NEW gs \in GuardKeys(t), Begin(p, t, h, gs)
        PROVE  TypeOK'
    <3>1. {t} \cup gs \in SUBSET Keys
      BY DEF GuardKeys, Keys
    <3>2. QED
      BY <2>1, <3>1 DEF Begin, InsertAttempt, Statuses, OpenStatuses, FinishStatuses
  <2>2. ASSUME NEW p \in Plans, NEW s \in FinishStatuses, Finish(p, s)
        PROVE  TypeOK'
    BY <2>2 DEF Finish, FinishReply, Statuses, FinishStatuses
  <2>3. CASE UNCHANGED vars
    BY <2>3 DEF vars
  <2> QED BY <2>1, <2>2, <2>3 DEF Next
<1> QED BY <1>1, <1>2, PTL DEF Spec

-----------------------------------------------------------------------------
\* What begin knows when it inserts a row (write_journal.py:58-138): the plan is
\* new, no other attempt on the target is open, none is complete if the target is
\* an invoice, and no open attempt stands in the way of the guard keys.
LEMMA StartedFacts ==
    ASSUME NEW p \in Plans, NEW t \in Targets, NEW h \in Payloads,
           NEW gs \in GuardKeys(t), Begin(p, t, h, gs)
    PROVE  /\ ~Recorded(p)
           /\ \A q \in Plans \ {p} : Open(q) => target[q] # t
           /\ t \in InvoiceTargets =>
                 \A q \in Plans \ {p} : status[q] = "complete" => target[q] # t
           /\ \A q \in Plans : Open(q) => guards[q] \cap gs = {}
           /\ gs # {} => \A q \in Plans : Open(q) => guards[q] # {}
BY DEF Begin, BeginReply, TargetOpen, TargetComplete, UniqueTarget, GuardHeld, LegacyOpen

\* A finish opens no attempt, revives none and leaves the key columns alone.
LEMMA FinishFacts ==
    ASSUME TypeOK, NEW p \in Plans, NEW s \in FinishStatuses, Finish(p, s)
    PROVE  /\ target' = target /\ guards' = guards
           /\ \A q \in Plans : Open(q)' => Open(q)
           /\ \A q \in Plans : Live(q)' => Live(q)
BY DEF Finish, FinishReply, FinishStatuses, Open, OpenStatuses, Live, TypeOK, Recorded

\* A begin changes the row of its own plan and no other.
LEMMA BeginFrame ==
    ASSUME TypeOK, NEW p \in Plans, NEW t \in Targets, NEW h \in Payloads,
           NEW gs \in GuardKeys(t), Begin(p, t, h, gs)
    PROVE  /\ target'[p] = t /\ guards'[p] = {t} \cup gs
           /\ \A q \in Plans \ {p} :
                 /\ target'[q] = target[q] /\ guards'[q] = guards[q]
                 /\ Open(q)' <=> Open(q)
                 /\ Live(q)' <=> Live(q)
BY DEF Begin, InsertAttempt, Open, Live, TypeOK

\* One unresolved attempt per target (write_journal.py:103-119), in every journal
\* that starts empty or as a consistent version 1 file.
THEOREM OneOpenPerTargetHolds == Spec => []OneOpenPerTarget
<1>1. Init => OneOpenPerTarget
  BY DEF Init, LegacyConsistent, OneOpenPerTarget
<1>2. TypeOK /\ OneOpenPerTarget /\ [Next]_vars => OneOpenPerTarget'
  <2> SUFFICES ASSUME TypeOK, OneOpenPerTarget, [Next]_vars PROVE OneOpenPerTarget'
    OBVIOUS
  <2>1. ASSUME NEW p \in Plans, NEW t \in Targets, NEW h \in Payloads,
               NEW gs \in GuardKeys(t), Begin(p, t, h, gs)
        PROVE  OneOpenPerTarget'
    BY <2>1, StartedFacts, BeginFrame DEF OneOpenPerTarget
  <2>2. ASSUME NEW p \in Plans, NEW s \in FinishStatuses, Finish(p, s)
        PROVE  OneOpenPerTarget'
    BY <2>2, FinishFacts DEF OneOpenPerTarget
  <2>3. CASE UNCHANGED vars
    BY <2>3 DEF vars, OneOpenPerTarget, Open
  <2> QED BY <2>1, <2>2, <2>3 DEF Next
<1> QED BY <1>1, <1>2, TypeCorrect, PTL DEF Spec

\* One attempt per invoice target that may have reached HomeTax, for good
\* (write_journal.py:103-138): the promise behind "once per original invoice".
THEOREM OneLivePerInvoiceHolds == Spec => []OneLivePerInvoice
<1>1. Init => OneLivePerInvoice
  BY DEF Init, LegacyConsistent, OneLivePerInvoice
<1>2. TypeOK /\ OneLivePerInvoice /\ [Next]_vars => OneLivePerInvoice'
  <2> SUFFICES ASSUME TypeOK, OneLivePerInvoice, [Next]_vars PROVE OneLivePerInvoice'
    OBVIOUS
  <2>1. ASSUME NEW p \in Plans, NEW t \in Targets, NEW h \in Payloads,
               NEW gs \in GuardKeys(t), Begin(p, t, h, gs)
        PROVE  OneLivePerInvoice'
    <3>1. t \in InvoiceTargets => \A q \in Plans \ {p} : Live(q) => target[q] # t
      BY <2>1, StartedFacts DEF Live, Open, OpenStatuses
    <3>2. QED
      BY <2>1, <3>1, BeginFrame DEF OneLivePerInvoice
  <2>2. ASSUME NEW p \in Plans, NEW s \in FinishStatuses, Finish(p, s)
        PROVE  OneLivePerInvoice'
    BY <2>2, FinishFacts DEF OneLivePerInvoice
  <2>3. CASE UNCHANGED vars
    BY <2>3 DEF vars, OneLivePerInvoice, Live
  <2> QED BY <2>1, <2>2, <2>3 DEF Next
<1> QED BY <1>1, <1>2, TypeCorrect, PTL DEF Spec

\* Two unresolved new invoices differ in content (write_journal.py:89-101).
THEOREM OneOpenPerContentHolds == Spec => []OneOpenPerContent
<1>1. Init => OneOpenPerContent
  BY DEF Init, OneOpenPerContent, ContentGuards
<1>2. TypeOK /\ OneOpenPerContent /\ [Next]_vars => OneOpenPerContent'
  <2> SUFFICES ASSUME TypeOK, OneOpenPerContent, [Next]_vars PROVE OneOpenPerContent'
    OBVIOUS
  <2>1. ASSUME NEW p \in Plans, NEW t \in Targets, NEW h \in Payloads,
               NEW gs \in GuardKeys(t), Begin(p, t, h, gs)
        PROVE  OneOpenPerContent'
    <3>1. ContentGuards(p)' \subseteq gs
      BY <2>1, BeginFrame DEF ContentGuards
    <3>2. \A q \in Plans \ {p} : ContentGuards(q)' = ContentGuards(q)
      BY <2>1, BeginFrame DEF ContentGuards
    <3>3. \A q \in Plans \ {p} : Open(q) => ContentGuards(q) \cap gs = {}
      BY <2>1, StartedFacts DEF ContentGuards
    <3>4. QED
      BY <2>1, <3>1, <3>2, <3>3, BeginFrame DEF OneOpenPerContent
  <2>2. ASSUME NEW p \in Plans, NEW s \in FinishStatuses, Finish(p, s)
        PROVE  OneOpenPerContent'
    BY <2>2, FinishFacts DEF OneOpenPerContent, ContentGuards
  <2>3. CASE UNCHANGED vars
    BY <2>3 DEF vars, OneOpenPerContent, ContentGuards, Open
  <2> QED BY <2>1, <2>2, <2>3 DEF Next
<1> QED BY <1>1, <1>2, TypeCorrect, PTL DEF Spec

\* An unresolved version 1 attempt keeps every new invoice out
\* (write_journal.py:81-101).
THEOREM LegacyBarsIssueHolds == Spec => []LegacyBarsIssue
<1>1. Init => LegacyBarsIssue
  BY DEF Init, LegacyBarsIssue, ContentGuards
<1>2. TypeOK /\ LegacyBarsIssue /\ [Next]_vars => LegacyBarsIssue'
  <2> SUFFICES ASSUME TypeOK, LegacyBarsIssue, [Next]_vars PROVE LegacyBarsIssue'
    OBVIOUS
  <2>1. ASSUME NEW p \in Plans, NEW t \in Targets, NEW h \in Payloads,
               NEW gs \in GuardKeys(t), Begin(p, t, h, gs)
        PROVE  LegacyBarsIssue'
    <3>1. ContentGuards(p)' \subseteq gs /\ guards'[p] # {}
      BY <2>1, BeginFrame DEF ContentGuards
    <3>2. \A q \in Plans \ {p} : ContentGuards(q)' = ContentGuards(q)
      BY <2>1, BeginFrame DEF ContentGuards
    <3>3. gs # {} => \A q \in Plans : Open(q) => guards[q] # {}
      BY <2>1, StartedFacts
    <3>4. QED
      BY <2>1, <3>1, <3>2, <3>3, BeginFrame DEF LegacyBarsIssue
  <2>2. ASSUME NEW p \in Plans, NEW s \in FinishStatuses, Finish(p, s)
        PROVE  LegacyBarsIssue'
    BY <2>2, FinishFacts DEF LegacyBarsIssue, ContentGuards
  <2>3. CASE UNCHANGED vars
    BY <2>3 DEF vars, LegacyBarsIssue, ContentGuards, Open
  <2> QED BY <2>1, <2>2, <2>3 DEF Next
<1> QED BY <1>1, <1>2, TypeCorrect, PTL DEF Spec

\* A recorded attempt is never rewritten (write_journal.py:172-189).
THEOREM RowsAreFinalHolds == Spec => RowsAreFinal
<1> DEFINE Kept(p) ==
        Recorded(p) =>
          /\ target'[p] = target[p] /\ payload'[p] = payload[p] /\ guards'[p] = guards[p]
          /\ status'[p] # status[p] =>
                status[p] = "in_flight" /\ status'[p] \in FinishStatuses
<1>1. TypeOK /\ [Next]_vars => [\A p \in Plans : Kept(p)]_vars
  <2> SUFFICES ASSUME TypeOK, [Next]_vars, NEW q \in Plans PROVE Kept(q) \/ UNCHANGED vars
    OBVIOUS
  <2>1. ASSUME NEW p \in Plans, NEW t \in Targets, NEW h \in Payloads,
               NEW gs \in GuardKeys(t), Begin(p, t, h, gs)
        PROVE  Kept(q)
    BY <2>1, StartedFacts DEF Begin, InsertAttempt, TypeOK
  <2>2. ASSUME NEW p \in Plans, NEW s \in FinishStatuses, Finish(p, s)
        PROVE  Kept(q)
    BY <2>2 DEF Finish, FinishReply, TypeOK, Recorded
  <2> QED BY <2>1, <2>2 DEF Next
<1> QED BY <1>1, TypeCorrect, PTL DEF Spec, RowsAreFinal
===============================================================================
