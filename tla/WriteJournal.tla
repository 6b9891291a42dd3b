---------------------------- MODULE WriteJournal ----------------------------
(***************************************************************************)
(* The durable idempotency journal of hometax_login/write_journal.py, as   *)
(* its callers see it: begin and finish are single SQLite transactions     *)
(* (BEGIN IMMEDIATE ... COMMIT), so each is one step.  The connections,    *)
(* locks and crashes under a transaction are the subject of JournalFile,   *)
(* which is shown to implement this module.                                *)
(*                                                                         *)
(* A plan is the random operation_id / change_id of a preview.  A target   *)
(* key is the hash of what may be written only once at a time: the client  *)
(* reference of a new invoice, the original approval number of a           *)
(* correction or cancellation, or a counterparty.  The three kinds of key  *)
(* hash differently shaped values, hence are disjoint.  Only a new invoice *)
(* carries a further guard key, the hash of its content.                   *)
(***************************************************************************)
EXTENDS Naturals, FiniteSets

CONSTANTS
    Plans,               \* operation ids and change ids
    IssueTargets,        \* keys of ("invoice-issue", client_reference)
    CorrectionTargets,   \* keys of ("invoice-correction", original approval number)
    CounterpartyTargets, \* keys of a counterparty of an owner
    Contents,            \* keys of "invoice-issue-content"
    Payloads,            \* content_digest / payload_hash values
    NoKey                \* what the key columns of a plan with no row hold here

InvoiceTargets == IssueTargets \cup CorrectionTargets
Targets == InvoiceTargets \cup CounterpartyTargets
Keys == Targets \cup Contents

ASSUME KeysAssumption ==
    /\ IssueTargets \cap CorrectionTargets = {}
    /\ InvoiceTargets \cap CounterpartyTargets = {}
    /\ Targets \cap Contents = {}
    /\ NoKey \notin Keys \cup Payloads

VARIABLES
    status,   \* write_attempts.status, "absent" when plan_id has no row
    target,   \* write_attempts.target_key
    payload,  \* write_attempts.payload_hash
    guards    \* write_guards.guard_key of each plan_id

vars == <<status, target, payload, guards>>

OpenStatuses == {"in_flight", "unknown"}
FinishStatuses == {"unknown", "complete", "rejected"}
Statuses == {"absent", "in_flight"} \cup FinishStatuses

Open(p) == status[p] \in OpenStatuses
Recorded(p) == status[p] # "absent"

\* The attempts of an invoice target that reached, or may have reached, HomeTax.
Live(p) == status[p] \in {"in_flight", "unknown", "complete"}

TypeOK ==
    /\ status \in [Plans -> Statuses]
    /\ target \in [Plans -> Targets \cup {NoKey}]
    /\ payload \in [Plans -> Payloads \cup {NoKey}]
    /\ guards \in [Plans -> SUBSET Keys]
    /\ \A p \in Plans : Recorded(p) => target[p] \in Targets

(***************************************************************************)
(* A journal starts empty, or as a version 1 file that was migrated: its   *)
(* rows have no guards at all, and obey what begin enforced without them.  *)
(***************************************************************************)
LegacyConsistent ==
    \A p, q \in Plans :
        (p # q /\ target[p] = target[q]) =>
            /\ ~(Open(p) /\ Open(q))
            /\ target[p] \in InvoiceTargets => ~(Live(p) /\ Live(q))

Init ==
    /\ status \in [Plans -> Statuses]
    /\ target \in [Plans -> Targets \cup {NoKey}]
    /\ payload \in [Plans -> Payloads \cup {NoKey}]
    /\ guards = [p \in Plans |-> {}]
    /\ \A p \in Plans : Recorded(p) <=> target[p] # NoKey
    /\ \A p \in Plans : Recorded(p) <=> payload[p] # NoKey
    /\ LegacyConsistent

-----------------------------------------------------------------------------
(***************************************************************************)
(* begin(plan_id, target_key, payload_hash, unique_target, guard_keys)     *)
(***************************************************************************)
Conflicting(p, t, h) == target[p] # t \/ payload[p] # h

\* Mutated forms (see PROJECT.json): an unknown attempt no longer blocks, ...
LegacyInFlight == \E q \in Plans : status[q] = "in_flight" /\ guards[q] = {}
GuardInFlight(gs) ==
    \E q \in Plans : status[q] = "in_flight" /\ guards[q] \cap gs # {}
TargetInFlight(p, t) ==
    \E q \in Plans \ {p} : status[q] = "in_flight" /\ target[q] = t
\* ... unique_target is passed for corrections only, ...
UniqueCorrection(t) == t \in CorrectionTargets
\* ... and finish overwrites an unknown outcome.
FinishReplyReopens(p, s) ==
    IF ~Recorded(p) THEN "WRITE_ATTEMPT_NOT_FOUND"
    ELSE IF status[p] \notin {s, "in_flight", "unknown"} THEN "WRITE_ALREADY_FINALIZED"
    ELSE "ok"

\* An unresolved row of a version 1 journal: nothing tells what it was about.
LegacyOpen == \E q \in Plans : Open(q) /\ guards[q] = {}

GuardHeld(gs) == \E q \in Plans : Open(q) /\ guards[q] \cap gs # {}

TargetOpen(p, t) == \E q \in Plans \ {p} : Open(q) /\ target[q] = t

TargetComplete(p, t) == \E q \in Plans \ {p} : status[q] = "complete" /\ target[q] = t

\* submit passes unique_target=True, CounterpartyChangeManager.apply does not.
UniqueTarget(t) == t \in InvoiceTargets

\* What the caller gets: the returned word, or the code of the LoginError raised.
BeginReply(p, t, h, gs) ==
    IF Recorded(p) THEN
        IF Conflicting(p, t, h) THEN "WRITE_IDEMPOTENCY_CONFLICT"
        ELSE IF status[p] = "complete" THEN "complete"
        ELSE IF Open(p) THEN "WRITE_OUTCOME_UNKNOWN"
        ELSE "WRITE_REJECTED"
    ELSE IF gs # {} /\ (LegacyOpen \/ GuardHeld(gs)) THEN "WRITE_OUTCOME_UNKNOWN"
    ELSE IF TargetOpen(p, t) THEN "WRITE_OUTCOME_UNKNOWN"
    ELSE IF UniqueTarget(t) /\ TargetComplete(p, t) THEN "WRITE_TARGET_COMPLETE"
    ELSE "started"

InsertAttempt(p, t, h, gs) ==
    /\ status' = [status EXCEPT ![p] = "in_flight"]
    /\ target' = [target EXCEPT ![p] = t]
    /\ payload' = [payload EXCEPT ![p] = h]
    /\ guards' = [guards EXCEPT ![p] = {t} \cup gs]

\* The transaction that inserts a row; every other reply leaves the tables alone.
Begin(p, t, h, gs) ==
    /\ BeginReply(p, t, h, gs) = "started"
    /\ InsertAttempt(p, t, h, gs)

\* The guard keys the callers pass: the content of a new invoice, else nothing.
GuardKeys(t) ==
    IF t \in IssueTargets THEN {{c} : c \in Contents} ELSE {{}}

(***************************************************************************)
(* finish(plan_id, status)                                                 *)
(***************************************************************************)
FinishReply(p, s) ==
    IF ~Recorded(p) THEN "WRITE_ATTEMPT_NOT_FOUND"
    ELSE IF status[p] \notin {s, "in_flight"} THEN "WRITE_ALREADY_FINALIZED"
    ELSE "ok"

\* A repeated finish with the recorded status is accepted and changes nothing.
Finish(p, s) ==
    /\ FinishReply(p, s) = "ok"
    /\ status' = [status EXCEPT ![p] = s]
    /\ UNCHANGED <<target, payload, guards>>

Next ==
    \/ \E p \in Plans, t \in Targets, h \in Payloads :
           \E gs \in GuardKeys(t) : Begin(p, t, h, gs)
    \/ \E p \in Plans, s \in FinishStatuses : Finish(p, s)

Spec == Init /\ [][Next]_vars

-----------------------------------------------------------------------------
\* write_journal.py:103-119: at any time one attempt per target may be
\* unresolved, whichever processes and sessions begin and finish attempts.
OneOpenPerTarget ==
    \A p, q \in Plans :
        (p # q /\ Open(p) /\ Open(q)) => target[p] # target[q]

\* write_journal.py:121-138 with 103-119: of all attempts on one invoice target
\* at most one was ever let through to HomeTax without having been rejected
\* before dispatch (an unknown outcome never clears, a complete one blocks).
OneLivePerInvoice ==
    \A p, q \in Plans :
        (p # q /\ Live(p) /\ Live(q) /\ target[p] = target[q])
            => target[p] \notin InvoiceTargets

\* The guards of a plan other than its own target key.
ContentGuards(p) == guards[p] \ {target[p]}

\* write_journal.py:89-101: two unresolved new invoices never have the same
\* content, though their client references (targets) differ.
OneOpenPerContent ==
    \A p, q \in Plans :
        (p # q /\ Open(p) /\ Open(q)) => ContentGuards(p) \cap ContentGuards(q) = {}

\* write_journal.py:81-101: while an attempt of a version 1 journal is
\* unresolved, no new invoice is in the works beside it.
LegacyBarsIssue ==
    \A p, q \in Plans :
        (Open(p) /\ guards[p] = {} /\ Open(q)) => ContentGuards(q) = {}

\* write_journal.py:172-189: what a row records is final. It leaves in_flight at
\* most once, is never removed, and never changes its target, payload or guards.
RowsAreFinal ==
    [][\A p \in Plans : Recorded(p) =>
          /\ target'[p] = target[p] /\ payload'[p] = payload[p] /\ guards'[p] = guards[p]
          /\ status'[p] # status[p] =>
                status[p] = "in_flight" /\ status'[p] \in FinishStatuses]_vars
=============================================================================
