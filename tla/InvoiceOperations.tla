-------------------------- MODULE InvoiceOperations --------------------------
(***************************************************************************)
(* Issuing, correcting and cancelling electronic tax invoices: the         *)
(* previews and the one-shot submission of invoice_operations.py over the  *)
(* steps of InvoiceBackend.issue, with the journal they share and HomeTax  *)
(* at the other end.                                                       *)
(*                                                                         *)
(* A session holds its previews in memory and runs one call at a time (the *)
(* session lock; a CLI process is a session of its own).  submit awaits    *)
(* HomeTax at four places, and at each of them the call may fail, be       *)
(* cancelled by the 60 second limit, or die with its process, while a      *)
(* request it sent is still on its way.  HomeTax is external: it may act   *)
(* on a request late, not at all, or on one document of a pair only.       *)
(***************************************************************************)
EXTENDS Naturals, FiniteSets

CONSTANTS
    Sessions, Plans,
    Requests,      \* what a user may ask for: [kind, target, content] records
    IssueTargets, CorrectionTargets, Contents, NoKey,
    MaxPreviews,   \* the bound of _prepare, 100 in the code
    MaxEdits       \* bound: changes of registered data by others

Kinds == {"issue", "correct", "cancel"}
Versions == 0 .. MaxEdits

ASSUME RequestsAssumption ==
    \A r \in Requests :
        /\ r.kind \in Kinds
        /\ r.kind = "issue" => r.target \in IssueTargets /\ r.content \in Contents
        /\ r.kind # "issue" => r.target \in CorrectionTargets /\ r.content = NoKey

ASSUME BoundsAssumption == MaxPreviews \in Nat \ {0} /\ MaxEdits \in Nat

ASSUME InvoiceKeysAssumption ==
    /\ IssueTargets \cap CorrectionTargets = {}
    /\ (IssueTargets \cup CorrectionTargets) \cap Contents = {}
    /\ NoKey \notin IssueTargets \cup CorrectionTargets \cup Contents \cup (Requests \X Versions)
    /\ NoKey \notin Plans

VARIABLES
    status, target, payload, guards,  \* the journal
    plan,      \* plan[p]: the InvoicePlan, and whether self.plans still has it
    calls,     \* calls[s]: the submit under way in session s
    world,     \* version of the profile, counterparty and original at HomeTax
    staged,    \* plans whose C04/C03 request was sent
    wire,      \* wire[p]: the C05/C04 request, with the version of its documents
    applied,   \* applied[p]: how many documents of p HomeTax registered
    told       \* told[p]: what the last reply of submit told the user about p

journalVars == <<status, target, payload, guards>>
remoteVars == <<world, staged, wire, applied>>
vars == <<status, target, payload, guards, plan, calls, world, staged, wire,
          applied, told>>

J == INSTANCE WriteJournal
         WITH CounterpartyTargets <- {}, Payloads <- Requests \X Versions

NoPlan == [at |-> "unused"]
Idle == [at |-> "idle"]
NoRequest == [at |-> "none"]

PlanRecord ==
    [at: {"live"}, session: Sessions, request: Requests, base: Versions, result: BOOLEAN]
        \cup [at: {"gone"}, request: Requests, base: Versions]
CallRecord == [at: {"refresh", "issue", "commit", "readback"}, plan: Plans, fresh: Versions]

\* What a reply of submit says of the invoice.
Meaning(code) ==
    CASE code \in {"issued", "already_issued"} -> "issued"
      [] code \in {"INVOICE_PREVIEW_STALE", "INVOICE_REFRESH_FAILED", "WRITE_REJECTED",
                   "WRITE_TARGET_COMPLETE"} -> "not_sent"
      [] code \in {"INVOICE_OUTCOME_UNKNOWN", "INVOICE_TIMEOUT", "WRITE_OUTCOME_UNKNOWN",
                   "WRITE_IDEMPOTENCY_CONFLICT"} -> "nothing"
      [] code = "INVOICE_RESULT_NOT_CACHED" -> "lost"
Meanings == {"nothing", "issued", "not_sent", "lost"}

\* A correction sends a negative and a corrected document, the others send one.
Documents(r) == IF r.kind = "correct" THEN 2 ELSE 1

TypeOK ==
    /\ J!TypeOK
    /\ plan \in [Plans -> PlanRecord \cup {NoPlan}]
    /\ calls \in [Sessions -> CallRecord \cup {Idle}]
    /\ world \in Versions
    /\ staged \in SUBSET Plans
    /\ wire \in [Plans -> [at: {"sent", "done"}, docs: Versions] \cup {NoRequest}]
    /\ applied \in [Plans -> 0 .. 2]
    /\ told \in [Plans -> Meanings]

Init ==
    /\ status = [p \in Plans |-> "absent"]
    /\ target = [p \in Plans |-> NoKey]
    /\ payload = [p \in Plans |-> NoKey]
    /\ guards = [p \in Plans |-> {}]
    /\ plan = [p \in Plans |-> NoPlan]
    /\ calls = [s \in Sessions |-> Idle]
    /\ world = 0
    /\ staged = {}
    /\ wire = [p \in Plans |-> NoRequest]
    /\ applied = [p \in Plans |-> 0]
    /\ told = [p \in Plans |-> "nothing"]

-----------------------------------------------------------------------------
(***************************************************************************)
(* Previews                                                                *)
(***************************************************************************)
PlansOf(s) == {p \in Plans : plan[p].at = "live" /\ plan[p].session = s}

\* preview_issue, preview_correct, preview_cancel: operation_id p is fresh, and
\* the digest stands for what HomeTax showed at this moment.
Preview(s, r, p) ==
    /\ calls[s] = Idle
    /\ plan[p] = NoPlan
    /\ Cardinality(PlansOf(s)) < MaxPreviews
    /\ plan' = [plan EXCEPT ![p] = [at |-> "live", session |-> s, request |-> r,
                                  base |-> world, result |-> FALSE]]
    /\ told' = [told EXCEPT ![p] = "nothing"]
    /\ UNCHANGED <<journalVars, remoteVars, calls>>

\* What is left of a preview that self.plans no longer has: the content of the
\* attempt, or nothing when it was never submitted (its id is as good as fresh).
Forget(p) ==
    IF J!Recorded(p)
    THEN [at |-> "gone", request |-> plan[p].request, base |-> plan[p].base]
    ELSE NoPlan

\* The five minutes of a preview pass; a submit that runs keeps its InvoicePlan.
Expire(p) ==
    /\ plan[p].at = "live"
    /\ plan' = [plan EXCEPT ![p] = Forget(p)]
    /\ UNCHANGED <<journalVars, remoteVars, calls, told>>

\* The session is closed, or its process dies in the middle of a call.
LoseSession(s) ==
    /\ plan' = [p \in Plans |-> IF p \in PlansOf(s) THEN Forget(p) ELSE plan[p]]
    /\ calls' = [calls EXCEPT ![s] = Idle]
    /\ UNCHANGED <<journalVars, remoteVars, told>>

-----------------------------------------------------------------------------
(***************************************************************************)
(* submit                                                                  *)
(***************************************************************************)
Digest(p) == <<plan[p].request, plan[p].base>>
TargetKey(p) == plan[p].request.target

\* Mutated form: every operation guards the content that an issue has.
GuardAlways(p) == {plan[p].request.content}

\* Only an issue has a content that no other reference may repeat.
GuardKeys(p) == IF plan[p].request.kind = "issue" THEN {plan[p].request.content} ELSE {}
BeginReply(p) == J!BeginReply(p, TargetKey(p), Digest(p), GuardKeys(p))

Submittable(s, p) ==
    /\ calls[s] = Idle
    /\ plan[p].at = "live"
    /\ plan[p].session = s

\* The journal admits the attempt; the call goes on to refresh the preview.
Start(s, p) ==
    /\ Submittable(s, p)
    /\ BeginReply(p) = "started"
    /\ J!InsertAttempt(p, TargetKey(p), Digest(p), GuardKeys(p))
    /\ calls' = [calls EXCEPT ![s] = [at |-> "refresh", plan |-> p, fresh |-> 0]]
    /\ UNCHANGED <<remoteVars, plan, told>>

Reply(p, code) == told' = [told EXCEPT ![p] = Meaning(code)]

\* The journal knows the plan as complete, or refuses it.  (When the journal
\* cannot be opened nothing changes at all: no step here.)
Refuse(s, p) ==
    /\ Submittable(s, p)
    /\ BeginReply(p) # "started"
    /\ Reply(p, IF BeginReply(p) # "complete" THEN BeginReply(p)
                ELSE IF plan[p].result THEN "already_issued"
                ELSE "INVOICE_RESULT_NOT_CACHED")
    /\ UNCHANGED <<journalVars, remoteVars, plan, calls>>

Running(s, at) == calls[s] # Idle /\ calls[s].at = at
PlanOf(s) == calls[s].plan
Dispatched(s) == ~Running(s, "refresh")

Advance(s, at) == calls' = [calls EXCEPT ![s].at = at]

\* The journal records the outcome, or cannot and leaves the attempt in_flight.
TryFinish(p, s) == J!Finish(p, s) \/ UNCHANGED journalVars

\* Mutated form: dispatched is set when the signed documents go out.
OutcomeAfterCommit(s) == IF Running(s, "readback") THEN "unknown" ELSE "rejected"

\* The except clause: unknown once dispatched is set, rejected before.
Outcome(s) == IF Dispatched(s) THEN "unknown" ELSE "rejected"

EndCall(s, code) ==
    /\ calls' = [calls EXCEPT ![s] = Idle]
    /\ Reply(PlanOf(s), code)

\* An exception reached the except clause of submit.
Raise(s, code) ==
    /\ TryFinish(PlanOf(s), Outcome(s))
    /\ EndCall(s, code)
    /\ UNCHANGED <<remoteVars, plan>>

\* Any await of a running call raises: an error of HomeTax or of its reply, or
\* the cancellation by the 60 second limit of the request.
Fail(s) ==
    /\ calls[s] # Idle
    /\ \/ Raise(s, "INVOICE_TIMEOUT")
       \/ Raise(s, IF Dispatched(s) THEN "INVOICE_OUTCOME_UNKNOWN" ELSE "INVOICE_REFRESH_FAILED")

\* Mutated form: the refresh is not compared with the confirmed digest.
NoDigestCheck(s) == TRUE

\* The refreshed content has the digest the user confirmed / is still the same.
MatchesDigest(s) == world = plan[PlanOf(s)].base
MatchesPrepared(s) == world = calls[s].fresh

\* backend.refresh and the comparison with the digest the user confirmed.
Refresh(s) ==
    /\ Running(s, "refresh")
    /\ \/ /\ MatchesDigest(s)
          /\ calls' = [calls EXCEPT ![s] = [at |-> "issue", plan |-> PlanOf(s), fresh |-> world]]
          /\ UNCHANGED <<journalVars, remoteVars, plan, told>>
       \/ /\ ~MatchesDigest(s)
          /\ Raise(s, "INVOICE_PREVIEW_STALE")

\* InvoiceBackend.issue refreshes once more, then asks for the original XML.
Stage(s) ==
    /\ Running(s, "issue")
    /\ \/ /\ MatchesPrepared(s)
          /\ staged' = staged \cup {PlanOf(s)}
          /\ Advance(s, "commit")
          /\ UNCHANGED <<journalVars, world, wire, applied, plan, told>>
       \/ /\ ~MatchesPrepared(s)
          /\ Raise(s, "INVOICE_OUTCOME_UNKNOWN")

\* The XML of the reply matches the documents; it is signed and submitted.
Commit(s) ==
    /\ Running(s, "commit")
    /\ wire' = [wire EXCEPT ![PlanOf(s)] = [at |-> "sent", docs |-> calls[s].fresh]]
    /\ Advance(s, "readback")
    /\ UNCHANGED <<journalVars, world, staged, applied, plan, told>>

\* Mutated form: the result is not kept.
DropResult(r) == r

\* _approval_numbers and _verify_readback: every document is there.
AllRegistered(p) == applied[p] = Documents(plan[p].request)

\* plan.result = result, which matters as long as self.plans has the plan.
SetResult(r) == IF r.at = "live" THEN [r EXCEPT !.result = TRUE] ELSE r

\* The approval numbers are those signed, and every document reads back as
\* previewed: the attempt is complete, unless the journal cannot say so.
ReadBack(s) ==
    LET p == PlanOf(s) IN
    /\ Running(s, "readback")
    /\ AllRegistered(p)
    /\ \/ /\ J!Finish(p, "complete")
          /\ plan' = [plan EXCEPT ![p] = SetResult(@)]
          /\ EndCall(s, "issued")
          /\ UNCHANGED remoteVars
       \/ Raise(s, "INVOICE_OUTCOME_UNKNOWN")

-----------------------------------------------------------------------------
(***************************************************************************)
(* HomeTax                                                                 *)
(***************************************************************************)
\* HomeTax acts on a submission, on all of its documents or only on some.
Apply(p) ==
    /\ wire[p].at = "sent"
    /\ wire' = [wire EXCEPT ![p].at = "done"]
    /\ \E n \in 0 .. Documents(plan[p].request) : applied' = [applied EXCEPT ![p] = n]
    /\ UNCHANGED <<journalVars, plan, calls, world, staged, told>>

\* Someone edits the counterparty or the profile.
Edit ==
    /\ world < MaxEdits
    /\ world' = world + 1
    /\ UNCHANGED <<journalVars, plan, calls, staged, wire, applied, told>>

Submit(s) ==
    \/ \E p \in Plans : Start(s, p)
    \/ \E p \in Plans : Refuse(s, p)

Proceed(s) == Refresh(s) \/ Stage(s) \/ Commit(s) \/ ReadBack(s) \/ Fail(s)

Next ==
    \/ \E s \in Sessions :
          \/ \E r \in Requests, p \in Plans : Preview(s, r, p)
          \/ Submit(s)
          \/ Proceed(s)
          \/ LoseSession(s)
    \/ \E p \in Plans : Expire(p) \/ Apply(p)
    \/ Edit

Spec == Init /\ [][Next]_vars

-----------------------------------------------------------------------------
\* docs/ISSUANCE.md: a client reference, and an original approval number, is used
\* at most once, over all sessions, retries, crashes and journal faults.
OneDispatchPerTarget ==
    \A p, q \in staged : p # q => TargetKey(p) # TargetKey(q)

\* invoice_operations.py:148-178: what the journal calls rejected was never sent,
\* not even the XML request; so a new preview of the target is safe.
RejectedNeverSent == \A p \in Plans : status[p] = "rejected" => p \notin staged

\* invoice_operations.py:150-173 with issuance_backend.py:227-309: what is submitted is
\* what the digest confirmed, although registered data changes before, between and
\* after the two refreshes; and complete stands for all documents of it, also if
\* HomeTax registers half a pair.
IssuedAsConfirmed ==
    \A p \in Plans :
        /\ wire[p] # NoRequest => wire[p].docs = plan[p].base
        /\ status[p] = "complete" => applied[p] = Documents(plan[p].request)

\* docs/ISSUANCE.md: the same content under a new client reference waits until the
\* earlier issue is known to be complete.
SameContentSettledFirst ==
    \A p, q \in staged :
        (p # q /\ GuardKeys(p) \cap GuardKeys(q) # {})
            => status[p] = "complete" \/ status[q] = "complete"

\* invoice_operations.py:176-200: an error that does not say the outcome is open
\* means that nothing was sent, a success that everything was registered, and a
\* completed operation repeated in its session is already_issued (docs/ISSUANCE.md):
\* the reply INVOICE_RESULT_NOT_CACHED cannot occur.
RepliesAreHonest ==
    \A p \in Plans :
        /\ told[p] = "not_sent" => p \notin staged
        /\ told[p] = "issued" => applied[p] = Documents(plan[p].request)
        /\ told[p] # "lost"

\* The claim on a target is the attempt that is, or may be, carried out.
Claimant(t) ==
    IF \E p \in Plans : J!Live(p) /\ target[p] = t
    THEN CHOOSE p \in Plans : J!Live(p) /\ target[p] = t
    ELSE NoKey

OneShot == INSTANCE OneShotWrites
    WITH Targets <- IssueTargets \cup CorrectionTargets, Nobody <- NoKey,
         claim <- [t \in IssueTargets \cup CorrectionTargets |-> Claimant(t)],
         reached <- staged,
         settled <- {p \in Plans : status[p] = "complete"}

\* invoice_operations.py:125-182 with write_journal.py:33-190: sessions, awaits, crashes
\* and faults implement the one-shot promise.  (That the journal's part of each step
\* is a step of WriteJournal is proved in InvoiceOperationsProofs.)
ImplementsOneShot == OneShot!Spec
=============================================================================
