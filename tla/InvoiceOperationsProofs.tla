----------------------- MODULE InvoiceOperationsProofs -----------------------
(***************************************************************************)
(* For every number of sessions, plans and requests, in two layers.        *)
(*                                                                         *)
(* IInv: an attempt that the journal calls rejected was never sent, and    *)
(* nothing is dispatched twice for one target.  Neither is inductive.      *)
(* What makes them so is where a call stands (its attempt is in_flight, no *)
(* other call works on it, and before Stage nothing was sent for it) and   *)
(* that a row of the journal keeps the target of its preview, also after   *)
(* the session is lost.                                                    *)
(*                                                                         *)
(* OInv, what the calls leave behind: what was sent is what was confirmed, *)
(* complete stands for every document, replies are honest, and the same    *)
(* content is settled before it is issued again.                           *)
(*                                                                         *)
(* Both give the refinement of the one-shot promise.                       *)
(***************************************************************************)
EXTENDS InvoiceOperations, TLAPS

Types ==
    /\ status \in [Plans -> J!Statuses]
    /\ target \in [Plans -> IssueTargets \cup CorrectionTargets \cup {NoKey}]
    /\ plan \in [Plans -> PlanRecord \cup {NoPlan}]
    /\ calls \in [Sessions -> CallRecord \cup {Idle}]
    /\ staged \in SUBSET Plans
    /\ world \in Versions

\* A row belongs to a preview that is remembered, and has its target.
RowsAreKnown ==
    \A p \in Plans : J!Recorded(p) => plan[p] # NoPlan /\ target[p] = TargetKey(p)

\* A call works on an attempt in flight, alone, and has sent nothing before Stage.
CallsAreSound ==
    \A s \in Sessions : calls[s] # Idle =>
        /\ status[PlanOf(s)] = "in_flight"
        /\ calls[s].at \in {"refresh", "issue"} => PlanOf(s) \notin staged
        /\ \A u \in Sessions \ {s} : calls[u] # Idle => PlanOf(u) # PlanOf(s)

SentIsLive == \A p \in staged : J!Live(p)

OneLivePerTarget ==
    \A p, q \in Plans : (p # q /\ J!Live(p) /\ J!Live(q)) => target[p] # target[q]

IInv == Types /\ RowsAreKnown /\ CallsAreSound /\ SentIsLive /\ OneLivePerTarget

-----------------------------------------------------------------------------
\* Every preview is of an invoice, so submit passes unique_target (InvoiceTargets).
LEMMA PreviewedTargets ==
    ASSUME NEW p \in Plans, Types, plan[p] # NoPlan
    PROVE  TargetKey(p) \in IssueTargets \cup CorrectionTargets
<1>1. plan[p].request \in Requests
  BY DEF Types, PlanRecord
<1>2. QED
  BY <1>1, RequestsAssumption DEF TargetKey, Kinds

\* What the journal has checked when it admits an attempt (write_journal.py:58-138).
LEMMA AdmittedFacts ==
    ASSUME NEW p \in Plans, TargetKey(p) \in IssueTargets \cup CorrectionTargets,
           BeginReply(p) = "started"
    PROVE  /\ ~J!Recorded(p)
           /\ \A q \in Plans \ {p} : J!Live(q) => target[q] # TargetKey(p)
BY DEF BeginReply, J!BeginReply, J!TargetOpen, J!TargetComplete, J!UniqueTarget,
       J!InvoiceTargets, J!Live, J!Open, J!OpenStatuses

\* The journal changes one row, from in_flight, or not at all (write_journal.py:172).
LEMMA FinishedFacts ==
    ASSUME Types, NEW p \in Plans, NEW o \in J!FinishStatuses, J!Finish(p, o),
           status[p] = "in_flight"
    PROVE  /\ status' = [status EXCEPT ![p] = o]
           /\ target' = target
BY DEF J!Finish

-----------------------------------------------------------------------------
\* A call that moves on to its next await, perhaps with its first request sent.
LEMMA CallGoesOn ==
    ASSUME IInv, NEW s \in Sessions, calls[s] # Idle,
           NEW k \in CallRecord, k.plan = PlanOf(s),
           calls' = [calls EXCEPT ![s] = k],
           \/ staged' = staged /\ (k.at \in {"refresh", "issue"} => calls[s].at \in {"refresh", "issue"})
           \/ staged' = staged \cup {PlanOf(s)} /\ k.at \notin {"refresh", "issue"},
           UNCHANGED <<status, target, plan, world>>
    PROVE  IInv'
<1> USE DEF IInv
<1>0. PlanOf(s) \in Plans /\ J!Live(PlanOf(s)) /\ k # Idle
  BY DEF Types, CallRecord, PlanOf, CallsAreSound, J!Live, Idle
<1>1. Types'
  BY <1>0 DEF Types
<1>2. RowsAreKnown'
  BY DEF RowsAreKnown, J!Recorded, TargetKey
<1>3. CallsAreSound'
  <2> SUFFICES ASSUME NEW t \in Sessions, calls'[t] # Idle
               PROVE  /\ status[calls'[t].plan] = "in_flight"
                      /\ calls'[t].at \in {"refresh", "issue"} => calls'[t].plan \notin staged'
                      /\ \A u \in Sessions \ {t} :
                            calls'[u] # Idle => calls'[u].plan # calls'[t].plan
    BY DEF CallsAreSound, PlanOf
  <2>1. \A u \in Sessions \ {s} : calls'[u] = calls[u]
    BY DEF Types
  <2>2. calls'[s] = k /\ k.plan = calls[s].plan
    BY DEF Types, PlanOf
  <2>3. \A u \in Sessions : (calls'[u] = Idle <=> calls[u] = Idle)
    BY <2>1, <2>2, <1>0
  <2>4. \A u \in Sessions : calls'[u] # Idle => calls'[u].plan = calls[u].plan
    BY <2>1, <2>2
  <2>5. status[calls'[t].plan] = "in_flight"
    BY <2>3, <2>4 DEF CallsAreSound, PlanOf
  <2>6. \A u \in Sessions \ {t} : calls'[u] # Idle => calls'[u].plan # calls'[t].plan
    BY <2>3, <2>4 DEF CallsAreSound, PlanOf
  <2>7. calls'[t].at \in {"refresh", "issue"} => calls'[t].plan \notin staged'
    <3>1. CASE t = s
      BY <3>1, <2>2 DEF CallsAreSound, PlanOf
    <3>2. CASE t # s
      <4>1. calls'[t].plan # calls[s].plan /\ calls[t] # Idle /\ calls'[t] = calls[t]
        BY <3>2, <2>1, <2>3 DEF CallsAreSound, PlanOf
      <4>2. QED
        BY <4>1 DEF CallsAreSound, PlanOf
    <3>3. QED
      BY <3>1, <3>2
  <2>8. QED
    BY <2>5, <2>6, <2>7
<1>4. SentIsLive'
  BY <1>0 DEF SentIsLive, J!Live
<1>5. OneLivePerTarget'
  BY DEF OneLivePerTarget, J!Live
<1>6. QED
  BY <1>1, <1>2, <1>3, <1>4, <1>5

\* A call that ends, with its outcome in the journal or not.
LEMMA CallEnds ==
    ASSUME IInv, NEW s \in Sessions, calls[s] # Idle,
           NEW o \in J!FinishStatuses, o = "rejected" => PlanOf(s) \notin staged,
           calls' = [calls EXCEPT ![s] = Idle],
           status' = status \/ status' = [status EXCEPT ![PlanOf(s)] = o],
           UNCHANGED <<target, staged, world>>,
           plan' \in [Plans -> PlanRecord \cup {NoPlan}],
           \A p \in Plans : J!Recorded(p) =>
               plan'[p] # NoPlan /\ plan'[p].request = plan[p].request
    PROVE  IInv'
<1> USE DEF IInv
<1>0. PlanOf(s) \in Plans /\ J!Live(PlanOf(s)) /\ J!Recorded(PlanOf(s))
  BY DEF Types, CallRecord, PlanOf, CallsAreSound, J!Live, Idle, J!Recorded
<1>1. Types'
  BY <1>0 DEF Types, J!FinishStatuses, J!Statuses
<1>2. \A p \in Plans : J!Recorded(p)' => J!Recorded(p)
  BY <1>0 DEF Types, J!Recorded
<1>3. \A p \in Plans : J!Live(p)' => J!Live(p)
  BY <1>0 DEF Types, J!Live
<1>4. RowsAreKnown'
  BY <1>2 DEF RowsAreKnown, TargetKey
<1>5. CallsAreSound'
  <2> SUFFICES ASSUME NEW t \in Sessions, calls'[t] # Idle
               PROVE  /\ status'[calls'[t].plan] = "in_flight"
                      /\ calls'[t].at \in {"refresh", "issue"} => calls'[t].plan \notin staged'
                      /\ \A u \in Sessions \ {t} :
                            calls'[u] # Idle => calls'[u].plan # calls'[t].plan
    BY DEF CallsAreSound, PlanOf
  <2>1. \A u \in Sessions : calls'[u] # Idle => u # s /\ calls'[u] = calls[u]
    BY DEF Types
  <2>2. calls[t] # Idle /\ calls'[t] = calls[t] /\ t # s
    BY <2>1
  <2>3. calls[t].plan # calls[s].plan
    BY <2>2 DEF CallsAreSound, PlanOf
  <2>4. status'[calls[t].plan] = status[calls[t].plan]
    BY <2>2, <2>3, <1>0 DEF Types, PlanOf, CallRecord, Idle
  <2>5. QED
    BY <2>1, <2>2, <2>4 DEF CallsAreSound, PlanOf
<1>6. SentIsLive'
  BY <1>0 DEF SentIsLive, J!Live, J!FinishStatuses, Types
<1>7. OneLivePerTarget'
  BY <1>3 DEF OneLivePerTarget
<1>8. QED
  BY <1>1, <1>4, <1>5, <1>6, <1>7

\* A step outside the calls: previews come and go, but not those with a row
\* (_prepare, _prune and clear of invoice_operations.py), or registered data changes.
LEMMA PreviewsChange ==
    ASSUME IInv, UNCHANGED <<status, target, calls, staged>>, world' \in Versions,
           plan' \in [Plans -> PlanRecord \cup {NoPlan}],
           \A p \in Plans : J!Recorded(p) =>
               plan'[p] # NoPlan /\ plan'[p].request = plan[p].request
    PROVE  IInv'
<1> USE DEF IInv
<1>1. Types'
  BY DEF Types
<1>2. RowsAreKnown'
  BY DEF RowsAreKnown, J!Recorded, TargetKey
<1>3. CallsAreSound'
  BY DEF CallsAreSound, PlanOf
<1>4. SentIsLive' /\ OneLivePerTarget'
  BY DEF SentIsLive, OneLivePerTarget, J!Live
<1>5. QED
  BY <1>1, <1>2, <1>3, <1>4

-----------------------------------------------------------------------------
\* preview_issue, preview_correct, preview_cancel: a fresh operation_id has no row.
LEMMA PreviewKeeps ==
    ASSUME IInv, NEW s \in Sessions, NEW r \in Requests, NEW p \in Plans, Preview(s, r, p)
    PROVE  IInv'
<1>1. [at |-> "live", session |-> s, request |-> r, base |-> world, result |-> FALSE] \in PlanRecord
  BY DEF IInv, Types, PlanRecord
<1>2. plan' \in [Plans -> PlanRecord \cup {NoPlan}]
  BY <1>1 DEF Preview, IInv, Types
<1>3. ~J!Recorded(p)
  BY DEF Preview, IInv, RowsAreKnown
<1>4. \A q \in Plans : J!Recorded(q) => plan'[q] = plan[q]
  BY <1>3 DEF Preview, IInv, Types
<1>5. QED
  BY <1>2, <1>4, PreviewsChange DEF Preview, journalVars, remoteVars, IInv, Types, RowsAreKnown

\* What _prune and clear leave of a preview keeps the content of its attempt.
LEMMA ForgottenKeepsContent ==
    ASSUME IInv, NEW p \in Plans, plan[p].at = "live"
    PROVE  /\ Forget(p) \in PlanRecord \cup {NoPlan}
           /\ J!Recorded(p) => Forget(p) # NoPlan /\ Forget(p).request = plan[p].request
<1>1. plan[p].request \in Requests /\ plan[p].base \in Versions
  BY DEF IInv, Types, PlanRecord, NoPlan
<1>2. QED
  BY <1>1 DEF Forget, PlanRecord, NoPlan

\* The five minutes of a preview pass.
LEMMA ExpireKeeps ==
    ASSUME IInv, NEW p \in Plans, Expire(p)
    PROVE  IInv'
<1>1. plan' \in [Plans -> PlanRecord \cup {NoPlan}]
  BY ForgottenKeepsContent DEF Expire, IInv, Types
<1>2. \A q \in Plans : J!Recorded(q) => plan'[q] # NoPlan /\ plan'[q].request = plan[q].request
  BY ForgottenKeepsContent DEF Expire, IInv, Types, RowsAreKnown
<1>3. QED
  BY <1>1, <1>2, PreviewsChange DEF Expire, journalVars, remoteVars, IInv, Types

\* A session that is lost takes its call along, wherever that stands.
LEMMA LoseSessionKeeps ==
    ASSUME IInv, NEW s \in Sessions, LoseSession(s)
    PROVE  IInv'
<1>1. plan' \in [Plans -> PlanRecord \cup {NoPlan}]
  BY ForgottenKeepsContent DEF LoseSession, PlansOf, IInv, Types
<1>2. \A q \in Plans : J!Recorded(q) => plan'[q] # NoPlan /\ plan'[q].request = plan[q].request
  BY ForgottenKeepsContent DEF LoseSession, PlansOf, IInv, Types, RowsAreKnown
<1>3. CASE calls[s] = Idle
  <2>1. calls' = calls
    BY <1>3 DEF LoseSession, IInv, Types
  <2>2. QED
    BY <1>1, <1>2, <2>1, PreviewsChange DEF LoseSession, journalVars, remoteVars, IInv, Types
<1>4. CASE calls[s] # Idle
  <2>1. "unknown" \in J!FinishStatuses /\ "unknown" # "rejected"
    BY DEF J!FinishStatuses
  <2>2. QED
    BY <1>1, <1>2, <1>4, <2>1, CallEnds DEF LoseSession, journalVars, remoteVars
<1>5. QED
  BY <1>3, <1>4

-----------------------------------------------------------------------------
\* begin of the journal lets a call start (invoice_operations.py:125-148).
LEMMA StartKeeps ==
    ASSUME IInv, NEW s \in Sessions, NEW p \in Plans, Start(s, p)
    PROVE  IInv'
<1> DEFINE t == TargetKey(p)
           k == [at |-> "refresh", plan |-> p, fresh |-> 0]
<1> USE DEF IInv
<1>1. plan[p] # NoPlan
  BY DEF Start, Submittable, NoPlan
<1>2. t \in IssueTargets \cup CorrectionTargets
  BY <1>1, PreviewedTargets
<1>3. /\ ~J!Recorded(p)
      /\ \A q \in Plans \ {p} : J!Live(q) => target[q] # t
  BY <1>2, AdmittedFacts DEF Start
<1>4. k \in CallRecord /\ k # Idle
  BY BoundsAssumption DEF CallRecord, Versions, Idle
<1>5. /\ status' = [status EXCEPT ![p] = "in_flight"]
      /\ target' = [target EXCEPT ![p] = t]
      /\ calls' = [calls EXCEPT ![s] = k]
      /\ calls[s] = Idle
      /\ UNCHANGED <<plan, staged, world>>
  BY DEF Start, Submittable, J!InsertAttempt, remoteVars
<1> HIDE DEF t, k
<1>6. \A q \in Plans \ {p} : status'[q] = status[q] /\ target'[q] = target[q]
  BY <1>5 DEF Types
<1>7. status'[p] = "in_flight" /\ target'[p] = t
  BY <1>5 DEF Types
<1>8. Types'
  BY <1>2, <1>4, <1>5 DEF Types, J!Statuses
<1>9. RowsAreKnown'
  BY <1>1, <1>5, <1>6, <1>7 DEF RowsAreKnown, J!Recorded, TargetKey, t
<1>10. p \notin staged
  BY <1>3 DEF SentIsLive, J!Live, J!Recorded
<1>11. CallsAreSound'
  <2>1. \A u \in Sessions \ {s} : calls'[u] = calls[u]
    BY <1>5 DEF Types
  <2>2. calls'[s] = k /\ k.plan = p
    BY <1>5 DEF Types, k
  <2>3. \A u \in Sessions \ {s} : calls[u] # Idle => calls[u].plan # p /\ calls[u].plan \in Plans
    BY <1>3 DEF CallsAreSound, PlanOf, J!Recorded, Types, CallRecord, Idle
  <2>4. QED
    BY <1>5, <1>6, <1>7, <1>10, <2>1, <2>2, <2>3 DEF CallsAreSound, PlanOf
<1>12. SentIsLive'
  BY <1>5, <1>6, <1>10, <1>8 DEF SentIsLive, J!Live, Types
<1>13. OneLivePerTarget'
  BY <1>3, <1>6, <1>7 DEF OneLivePerTarget, J!Live
<1>14. QED
  BY <1>8, <1>9, <1>11, <1>12, <1>13

\* The except clause (invoice_operations.py:176-200): rejected only if the call
\* had not reached the point where dispatched is set.
LEMMA RaiseKeeps ==
    ASSUME IInv, NEW s \in Sessions, calls[s] # Idle, NEW code, Raise(s, code)
    PROVE  IInv'
<1> DEFINE o == Outcome(s)
<1>1. o \in J!FinishStatuses
  BY DEF Outcome, J!FinishStatuses
<1>2. o = "rejected" => PlanOf(s) \notin staged
  BY DEF Outcome, Dispatched, Running, IInv, CallsAreSound
<1>3. PlanOf(s) \in Plans /\ status[PlanOf(s)] = "in_flight"
  BY DEF IInv, Types, CallRecord, CallsAreSound, PlanOf, Idle
<1>4. UNCHANGED journalVars \/ J!Finish(PlanOf(s), o)
  BY DEF Raise, TryFinish
<1> HIDE DEF o
<1>5. target' = target /\ (status' = status \/ status' = [status EXCEPT ![PlanOf(s)] = o])
  BY <1>1, <1>3, <1>4, FinishedFacts DEF IInv, journalVars
<1>6. QED
  BY <1>1, <1>2, <1>5, CallEnds DEF Raise, EndCall, remoteVars, IInv, Types, RowsAreKnown

\* What the next await of a call changes of its record.
LEMMA CallMoves ==
    ASSUME Types, NEW s \in Sessions, calls[s] # Idle,
           NEW a \in {"refresh", "issue", "commit", "readback"}
    PROVE  /\ calls[s].fresh \in Versions
           /\ \A v \in Versions : [at |-> a, plan |-> PlanOf(s), fresh |-> v] \in CallRecord
           /\ [calls EXCEPT ![s].at = a] =
                 [calls EXCEPT ![s] = [at |-> a, plan |-> PlanOf(s), fresh |-> calls[s].fresh]]
<1>1. calls[s] \in CallRecord
  BY DEF Types
<1>2. calls[s].fresh \in Versions /\ PlanOf(s) \in Plans
  BY <1>1 DEF CallRecord, PlanOf
<1>3. \A v \in Versions : [at |-> a, plan |-> PlanOf(s), fresh |-> v] \in CallRecord
  BY <1>2 DEF CallRecord
<1>4. [calls[s] EXCEPT !.at = a] = [at |-> a, plan |-> PlanOf(s), fresh |-> calls[s].fresh]
  BY <1>1 DEF CallRecord, PlanOf
<1>5. QED
  BY <1>2, <1>3, <1>4 DEF Types

\* backend.refresh and the comparison with the confirmed digest.
LEMMA RefreshKeeps ==
    ASSUME IInv, NEW s \in Sessions, Refresh(s)
    PROVE  IInv'
<1>1. CASE /\ MatchesDigest(s)
           /\ calls' = [calls EXCEPT ![s] = [at |-> "issue", plan |-> PlanOf(s), fresh |-> world]]
           /\ UNCHANGED <<journalVars, remoteVars, plan, told>>
  <2> DEFINE k == [at |-> "issue", plan |-> PlanOf(s), fresh |-> world]
  <2>1. k \in CallRecord /\ calls' = [calls EXCEPT ![s] = k]
    BY <1>1, CallMoves DEF Refresh, Running, IInv, Types
  <2>2. QED
    BY <1>1, <2>1, CallGoesOn DEF Refresh, Running, journalVars, remoteVars
<1>2. CASE Raise(s, "INVOICE_PREVIEW_STALE")
  BY <1>2, RaiseKeeps DEF Refresh, Running
<1>3. QED
  BY <1>1, <1>2 DEF Refresh

\* InvoiceBackend.issue: from here on the attempt counts as sent.
LEMMA StageKeeps ==
    ASSUME IInv, NEW s \in Sessions, Stage(s)
    PROVE  IInv'
<1>1. CASE staged' = staged \cup {PlanOf(s)} /\ Advance(s, "commit")
           /\ UNCHANGED <<journalVars, world, wire, applied, plan, told>>
  <2> DEFINE k == [at |-> "commit", plan |-> PlanOf(s), fresh |-> calls[s].fresh]
  <2>1. k \in CallRecord /\ calls' = [calls EXCEPT ![s] = k]
    BY <1>1, CallMoves DEF Stage, Running, Advance, IInv
  <2>2. QED
    BY <1>1, <2>1, CallGoesOn DEF Stage, Running, journalVars
<1>2. CASE Raise(s, "INVOICE_OUTCOME_UNKNOWN")
  BY <1>2, RaiseKeeps DEF Stage, Running
<1>3. QED
  BY <1>1, <1>2 DEF Stage

\* The signed documents go out.
LEMMA CommitKeeps ==
    ASSUME IInv, NEW s \in Sessions, Commit(s)
    PROVE  IInv'
<1> DEFINE k == [at |-> "readback", plan |-> PlanOf(s), fresh |-> calls[s].fresh]
<1>1. k \in CallRecord /\ calls' = [calls EXCEPT ![s] = k]
  BY CallMoves DEF Commit, Running, Advance, IInv
<1>2. QED
  BY <1>1, CallGoesOn DEF Commit, Running, journalVars

\* The journal records complete, and self.plans the result (invoice_operations.py:166-175).
LEMMA ReadBackKeeps ==
    ASSUME IInv, NEW s \in Sessions, ReadBack(s)
    PROVE  IInv'
<1> DEFINE p == PlanOf(s)
<1>1. calls[s] # Idle
  BY DEF ReadBack, Running
<1>2. p \in Plans /\ status[p] = "in_flight"
  BY <1>1 DEF IInv, Types, CallRecord, CallsAreSound, PlanOf, Idle
<1>3. CASE J!Finish(p, "complete") /\ plan' = [plan EXCEPT ![p] = SetResult(@)]
           /\ EndCall(s, "issued") /\ UNCHANGED remoteVars
  <2>1. "complete" \in J!FinishStatuses /\ "complete" # "rejected"
    BY DEF J!FinishStatuses
  <2>2. status' = [status EXCEPT ![p] = "complete"] /\ target' = target
    BY <1>2, <1>3, <2>1, FinishedFacts DEF IInv
  <2>3. plan[p] # NoPlan /\ plan[p] \in PlanRecord
    BY <1>2 DEF IInv, Types, RowsAreKnown, J!Recorded
  <2>4. /\ SetResult(plan[p]) \in PlanRecord
        /\ SetResult(plan[p]) # NoPlan
        /\ SetResult(plan[p]).request = plan[p].request
    BY <2>3 DEF SetResult, PlanRecord, NoPlan
  <2>5. plan' \in [Plans -> PlanRecord \cup {NoPlan}]
    BY <1>3, <2>4 DEF IInv, Types
  <2>6. \A q \in Plans : J!Recorded(q) => plan'[q] # NoPlan /\ plan'[q].request = plan[q].request
    BY <1>3, <2>4 DEF IInv, Types, RowsAreKnown
  <2>7. QED
    BY <1>1, <1>3, <2>1, <2>2, <2>5, <2>6, CallEnds DEF EndCall, remoteVars
<1>4. CASE Raise(s, "INVOICE_OUTCOME_UNKNOWN")
  BY <1>1, <1>4, RaiseKeeps
<1>5. QED
  BY <1>3, <1>4 DEF ReadBack

-----------------------------------------------------------------------------
\* No step of a session, of HomeTax or of another user breaks the invariant.
LEMMA StepKeeps == IInv /\ [Next]_vars => IInv'
<1> SUFFICES ASSUME IInv, [Next]_vars PROVE IInv'
  OBVIOUS
<1>1. ASSUME NEW s \in Sessions, NEW r \in Requests, NEW p \in Plans, Preview(s, r, p)
      PROVE  IInv'
  BY <1>1, PreviewKeeps
<1>2. ASSUME NEW s \in Sessions, NEW p \in Plans, Start(s, p)
      PROVE  IInv'
  BY <1>2, StartKeeps
<1>3. ASSUME NEW s \in Sessions, NEW p \in Plans, Refuse(s, p)
      PROVE  IInv'
  BY <1>3, PreviewsChange DEF Refuse, journalVars, remoteVars, IInv, Types, RowsAreKnown
<1>4. ASSUME NEW s \in Sessions, Proceed(s)
      PROVE  IInv'
  <2>1. CASE Fail(s)
    BY <2>1, RaiseKeeps DEF Fail
  <2>2. QED
    BY <1>4, <2>1, RefreshKeeps, StageKeeps, CommitKeeps, ReadBackKeeps DEF Proceed
<1>5. ASSUME NEW s \in Sessions, LoseSession(s)
      PROVE  IInv'
  BY <1>5, LoseSessionKeeps
<1>6. ASSUME NEW p \in Plans, Expire(p)
      PROVE  IInv'
  BY <1>6, ExpireKeeps
<1>7. ASSUME NEW p \in Plans, Apply(p)
      PROVE  IInv'
  BY <1>7, PreviewsChange DEF Apply, journalVars, IInv, Types, RowsAreKnown
<1>8. CASE Edit
  <2>1. world' \in Versions
    BY <1>8, BoundsAssumption DEF Edit, Versions, IInv, Types
  <2>2. QED
    BY <1>8, <2>1, PreviewsChange DEF Edit, journalVars, IInv, Types, RowsAreKnown
<1>9. CASE UNCHANGED vars
  BY <1>9, PreviewsChange DEF vars, journalVars, remoteVars, IInv, Types, RowsAreKnown
<1>10. QED
  BY <1>1, <1>2, <1>3, <1>4, <1>5, <1>6, <1>7, <1>8, <1>9 DEF Next, Submit

\* No row, no preview and no call at the start.
LEMMA StartsSound == Init => IInv
<1> SUFFICES ASSUME Init PROVE IInv
  OBVIOUS
<1>1. Types
  BY BoundsAssumption DEF Init, Types, J!Statuses, Versions
<1>2. RowsAreKnown /\ CallsAreSound /\ SentIsLive /\ OneLivePerTarget
  BY DEF Init, RowsAreKnown, CallsAreSound, SentIsLive, OneLivePerTarget, J!Recorded, J!Live
<1>3. QED
  BY <1>1, <1>2 DEF IInv

\* A submit begins its attempt with keys that the journal has for a preview.
LEMMA StartBegins ==
    ASSUME IInv, NEW s \in Sessions, NEW p \in Plans, Start(s, p)
    PROVE  J!Next
<1>1. plan[p] # NoPlan
  BY DEF Start, Submittable, NoPlan
<1>2. plan[p].request \in Requests /\ plan[p].base \in Versions
  BY <1>1 DEF IInv, Types, PlanRecord
<1>3. TargetKey(p) \in J!Targets
  BY <1>1, PreviewedTargets DEF IInv, J!Targets, J!InvoiceTargets
<1>4. Digest(p) \in Requests \X Versions
  BY <1>2 DEF Digest
<1>5. GuardKeys(p) \in J!GuardKeys(TargetKey(p))
  <2>1. CASE plan[p].request.kind = "issue"
    BY <1>2, <2>1, RequestsAssumption DEF GuardKeys, J!GuardKeys, TargetKey
  <2>2. CASE plan[p].request.kind # "issue"
    BY <1>2, <2>2, RequestsAssumption, InvoiceKeysAssumption DEF GuardKeys, J!GuardKeys, TargetKey
  <2>3. QED
    BY <2>1, <2>2
<1>6. J!Begin(p, TargetKey(p), Digest(p), GuardKeys(p))
  BY DEF Start, BeginReply, J!Begin
<1>7. QED
  BY <1>3, <1>4, <1>5, <1>6 DEF J!Next

\* An exception leaves the journal alone, or finishes the attempt of the call.
LEMMA RaiseFinishes ==
    ASSUME IInv, NEW s \in Sessions, calls[s] # Idle, NEW code, Raise(s, code)
    PROVE  J!Next \/ UNCHANGED journalVars
<1>1. PlanOf(s) \in Plans
  BY DEF IInv, Types, CallRecord, PlanOf, Idle
<1>2. Outcome(s) \in J!FinishStatuses
  BY DEF Outcome, J!FinishStatuses
<1>3. QED
  BY <1>1, <1>2 DEF Raise, TryFinish, J!Next

\* No other step writes to the journal.
LEMMA StepOfJournal == IInv /\ [Next]_vars => J!Next \/ UNCHANGED journalVars
<1> SUFFICES ASSUME IInv, [Next]_vars PROVE J!Next \/ UNCHANGED journalVars
  OBVIOUS
<1>1. ASSUME NEW s \in Sessions, NEW p \in Plans, Start(s, p)
      PROVE  J!Next
  BY <1>1, StartBegins
<1>2. ASSUME NEW s \in Sessions, Proceed(s)
      PROVE  J!Next \/ UNCHANGED journalVars
  <2>1. CASE Refresh(s)
    BY <2>1, RaiseFinishes DEF Refresh, Running
  <2>2. CASE Stage(s)
    BY <2>2, RaiseFinishes DEF Stage, Running
  <2>3. CASE Commit(s)
    BY <2>3 DEF Commit
  <2>4. CASE ReadBack(s)
    <3>1. PlanOf(s) \in Plans /\ calls[s] # Idle
      BY <2>4 DEF ReadBack, Running, IInv, Types, CallRecord, PlanOf
    <3>2. QED
      BY <2>4, <3>1, RaiseFinishes DEF ReadBack, J!Next, J!FinishStatuses
  <2>5. CASE Fail(s)
    BY <2>5, RaiseFinishes DEF Fail
  <2>6. QED
    BY <1>2, <2>1, <2>2, <2>3, <2>4, <2>5 DEF Proceed
<1>3. ASSUME NEW s \in Sessions, NEW r \in Requests, NEW p \in Plans, Preview(s, r, p)
      PROVE  UNCHANGED journalVars
  BY <1>3 DEF Preview
<1>4. ASSUME NEW s \in Sessions, NEW p \in Plans, Refuse(s, p)
      PROVE  UNCHANGED journalVars
  BY <1>4 DEF Refuse
<1>5. ASSUME NEW s \in Sessions, LoseSession(s)
      PROVE  UNCHANGED journalVars
  BY <1>5 DEF LoseSession
<1>6. ASSUME NEW p \in Plans, Expire(p) \/ Apply(p)
      PROVE  UNCHANGED journalVars
  BY <1>6 DEF Expire, Apply
<1>7. CASE Edit \/ UNCHANGED vars
  BY <1>7 DEF Edit, vars, journalVars
<1>8. QED
  BY <1>1, <1>2, <1>3, <1>4, <1>5, <1>6, <1>7 DEF Next, Submit

\* The journal is empty at the start.
LEMMA JournalStarts == Init => J!Init
<1> SUFFICES ASSUME Init PROVE J!Init
  OBVIOUS
<1>1. status \in [Plans -> J!Statuses] /\ \A p \in Plans : status[p] = "absent"
  BY DEF Init, J!Statuses
<1>2. /\ target \in [Plans -> J!Targets \cup {NoKey}]
      /\ payload \in [Plans -> (Requests \X Versions) \cup {NoKey}]
      /\ \A p \in Plans : target[p] = NoKey /\ payload[p] = NoKey
  BY DEF Init
<1>3. J!LegacyConsistent
  BY <1>1 DEF J!LegacyConsistent, J!Open, J!OpenStatuses, J!Live
<1>4. QED
  BY <1>1, <1>2, <1>3 DEF Init, J!Init, J!Recorded

\* invoice_operations.py:125-182 with write_journal.py:33-190: submit uses the journal
\* as WriteJournal allows, so what is proved of the journal holds here.
THEOREM UsesTheJournal == Spec => J!Spec
<1>1. IInv /\ [Next]_vars => [J!Next]_(J!vars)
  BY StepOfJournal DEF journalVars, J!vars
<1>2. QED
  BY <1>1, StartsSound, StepKeeps, JournalStarts, PTL DEF Spec, J!Spec

\* invoice_operations.py:148-178: what the journal calls rejected was never sent.
THEOREM RejectedNeverSentHolds == Spec => []RejectedNeverSent
<1>1. IInv => RejectedNeverSent
  BY DEF IInv, SentIsLive, J!Live, RejectedNeverSent
<1>2. QED
  BY <1>1, StartsSound, StepKeeps, PTL DEF Spec

\* docs/ISSUANCE.md: at most one plan per client reference or original is ever sent,
\* over all sessions, retries, crashes, expiries and faults of the journal.
THEOREM OneDispatchPerTargetHolds == Spec => []OneDispatchPerTarget
<1>1. IInv => OneDispatchPerTarget
  <2> SUFFICES ASSUME IInv, NEW p \in staged, NEW q \in staged, p # q
               PROVE  TargetKey(p) # TargetKey(q)
    BY DEF OneDispatchPerTarget
  <2>1. p \in Plans /\ q \in Plans /\ J!Live(p) /\ J!Live(q)
    BY DEF IInv, Types, SentIsLive
  <2>2. target[p] = TargetKey(p) /\ target[q] = TargetKey(q)
    BY <2>1 DEF IInv, RowsAreKnown, J!Live, J!Recorded
  <2>3. QED
    BY <2>1, <2>2 DEF IInv, OneLivePerTarget
<1>2. QED
  BY <1>1, StartsSound, StepKeeps, PTL DEF Spec

-----------------------------------------------------------------------------
(***************************************************************************)
(* What the calls leave behind                                             *)
(***************************************************************************)
OutcomeTypes ==
    /\ guards \in [Plans -> SUBSET (IssueTargets \cup CorrectionTargets \cup Contents)]
    /\ wire \in [Plans -> [at: {"sent", "done"}, docs: Versions] \cup {NoRequest}]
    /\ applied \in [Plans -> 0 .. 2]
    /\ told \in [Plans -> Meanings]

\* After the first refresh a call holds what was confirmed, and it submits once.
CallsAreFresh ==
    \A s \in Sessions : calls[s] # Idle =>
        /\ calls[s].at # "refresh" => calls[s].fresh = plan[PlanOf(s)].base
        /\ calls[s].at \in {"commit", "readback"} => PlanOf(s) \in staged
        /\ calls[s].at = "commit" => wire[PlanOf(s)] = NoRequest

\* What HomeTax received and did.
RequestsAreSound ==
    \A p \in Plans :
        /\ wire[p] # NoRequest => p \in staged /\ wire[p].docs = plan[p].base
        /\ applied[p] # 0 => wire[p].at = "done"

\* complete stands for all documents, and the session still has the result.
CompleteIsSound ==
    \A p \in Plans : status[p] = "complete" =>
        /\ applied[p] = Documents(plan[p].request)
        /\ p \in staged
        /\ plan[p].at = "live" => plan[p].result

\* An attempt that was not sent is never begun again: it has a row, or its target is
\* complete, or it is forgotten.
NeverBegun(p) ==
    \/ J!Recorded(p)
    \/ plan[p] = NoPlan
    \/ \E q \in Plans : q # p /\ status[q] = "complete" /\ target[q] = TargetKey(p)

TellsAreSound ==
    \A p \in Plans :
        /\ told[p] = "not_sent" =>
              /\ p \notin staged /\ NeverBegun(p)
              /\ \A s \in Sessions : calls[s] # Idle => PlanOf(s) # p
        /\ told[p] = "issued" => status[p] = "complete"
        /\ told[p] # "lost"

\* A row has the guards of its content, and open ones are of different content.
GuardsAreSound ==
    /\ \A p \in Plans : J!Recorded(p) => guards[p] = {target[p]} \cup GuardKeys(p)
    /\ \A p, q \in Plans :
          (p # q /\ J!Open(p) /\ J!Open(q)) => GuardKeys(p) \cap GuardKeys(q) = {}

OInv ==
    /\ OutcomeTypes /\ CallsAreFresh /\ RequestsAreSound /\ CompleteIsSound
    /\ TellsAreSound /\ GuardsAreSound

-----------------------------------------------------------------------------
\* What is known of the attempt of a call (invoice_operations.py:125-175).
LEMMA CallFacts ==
    ASSUME IInv, NEW s \in Sessions, calls[s] # Idle
    PROVE  /\ PlanOf(s) \in Plans /\ calls[s] \in CallRecord
           /\ status[PlanOf(s)] = "in_flight" /\ J!Recorded(PlanOf(s))
           /\ plan[PlanOf(s)] # NoPlan /\ plan[PlanOf(s)] \in PlanRecord
           /\ \A u \in Sessions \ {s} : calls[u] # Idle => PlanOf(u) # PlanOf(s)
<1>1. calls[s] \in CallRecord /\ PlanOf(s) \in Plans
  BY DEF IInv, Types, CallRecord, PlanOf
<1>2. status[PlanOf(s)] = "in_flight"
  BY DEF IInv, CallsAreSound
<1>3. QED
  BY <1>1, <1>2 DEF IInv, Types, RowsAreKnown, J!Recorded, CallsAreSound

\* What was sent belongs to a row.
LEMMA SentIsRecorded ==
    ASSUME IInv, NEW p \in staged
    PROVE  p \in Plans /\ J!Recorded(p)
BY DEF IInv, Types, SentIsLive, J!Live, J!Recorded

\* Previews come and go, but not those with a row (_prepare, _prune, clear).
LEMMA PreviewsAside ==
    ASSUME IInv, OInv,
           UNCHANGED <<status, target, guards, calls, staged, wire, applied>>,
           \A p \in Plans : J!Recorded(p) =>
               /\ plan'[p] # NoPlan
               /\ plan'[p].request = plan[p].request /\ plan'[p].base = plan[p].base
               /\ plan'[p].at = "live" => plan'[p] = plan[p],
           told' \in [Plans -> Meanings],
           \A p \in Plans :
               \/ told'[p] = "nothing"
               \/ told'[p] = told[p] /\ (plan'[p] \in {plan[p], NoPlan} \/ J!Recorded(p))
    PROVE  OInv'
<1>1. OutcomeTypes'
  BY DEF OInv, OutcomeTypes
<1>2. CallsAreFresh'
  BY CallFacts DEF OInv, CallsAreFresh, PlanOf
<1>3. RequestsAreSound'
  BY SentIsRecorded DEF OInv, RequestsAreSound
<1>4. CompleteIsSound'
  BY DEF OInv, CompleteIsSound, J!Recorded
<1>5. TellsAreSound'
  <2>1. \A p \in Plans : NeverBegun(p) /\ (plan'[p] \in {plan[p], NoPlan} \/ J!Recorded(p))
                            => NeverBegun(p)'
    BY DEF NeverBegun, J!Recorded, TargetKey
  <2>2. QED
    BY <2>1 DEF OInv, TellsAreSound, PlanOf
<1>6. GuardsAreSound'
  <2>1. \A p \in Plans : J!Recorded(p) => GuardKeys(p)' = GuardKeys(p)
    BY DEF GuardKeys
  <2>2. QED
    BY <2>1 DEF OInv, GuardsAreSound, J!Recorded, J!Open, J!OpenStatuses
<1>7. QED
  BY <1>1, <1>2, <1>3, <1>4, <1>5, <1>6 DEF OInv

\* A call that moves on: what it knows, stages or sends is of its own plan.
LEMMA CallAdvances ==
    ASSUME IInv, OInv, NEW s \in Sessions, calls[s] # Idle,
           NEW k \in CallRecord, k.plan = PlanOf(s), calls' = [calls EXCEPT ![s] = k],
           k.at # "refresh", k.fresh = plan[PlanOf(s)].base,
           \/ k.at = "issue" /\ staged' = staged /\ wire' = wire
           \/ k.at = "commit" /\ staged' = staged \cup {PlanOf(s)} /\ wire' = wire
                /\ PlanOf(s) \notin staged
           \/ k.at = "readback" /\ staged' = staged /\ PlanOf(s) \in staged
                /\ wire' = [wire EXCEPT ![PlanOf(s)] = [at |-> "sent", docs |-> k.fresh]]
                /\ wire[PlanOf(s)] = NoRequest,
           UNCHANGED <<status, target, guards, plan, applied, told>>
    PROVE  OInv'
<1> DEFINE p0 == PlanOf(s)
<1>0. p0 \in Plans /\ status[p0] = "in_flight" /\ k # Idle
  BY CallFacts DEF CallRecord, Idle
<1>1. OutcomeTypes'
  BY <1>0 DEF OInv, OutcomeTypes, CallRecord
<1>2. \A u \in Sessions \ {s} : calls'[u] = calls[u]
  BY DEF IInv, Types
<1>3. calls'[s] = k /\ k.plan = calls[s].plan /\ PlanOf(s)' = p0
  BY DEF IInv, Types, PlanOf
<1>4. \A u \in Sessions : calls'[u] # Idle => calls[u] # Idle /\ PlanOf(u)' = PlanOf(u)
  BY <1>2, <1>3 DEF PlanOf
<1>5. /\ \A q \in Plans \ {p0} : wire'[q] = wire[q] /\ (q \in staged' <=> q \in staged)
      /\ wire'[p0] = wire[p0] \/ (wire'[p0] = [at |-> "sent", docs |-> k.fresh]
                                    /\ p0 \in staged /\ wire[p0] = NoRequest)
      /\ staged \subseteq staged'
  BY <1>0 DEF OInv, OutcomeTypes
<1>6. CallsAreFresh'
  <2> SUFFICES ASSUME NEW t \in Sessions, calls'[t] # Idle
               PROVE  /\ calls'[t].at # "refresh" => calls'[t].fresh = plan[calls'[t].plan].base
                      /\ calls'[t].at \in {"commit", "readback"} => calls'[t].plan \in staged'
                      /\ calls'[t].at = "commit" => wire'[calls'[t].plan] = NoRequest
    BY DEF CallsAreFresh, PlanOf
  <2>1. CASE t = s
    <3>1. k.at = "commit" => wire[p0] = NoRequest
      BY <1>0 DEF OInv, RequestsAreSound
    <3>2. QED
      BY <2>1, <3>1, <1>3 DEF PlanOf
  <2>2. CASE t # s
    <3>1. calls'[t] = calls[t] /\ calls[t] # Idle /\ PlanOf(t) # p0 /\ PlanOf(t) \in Plans
      BY <2>2, <1>2, CallFacts
    <3>2. QED
      BY <3>1, <1>5 DEF OInv, CallsAreFresh, PlanOf
  <2>3. QED
    BY <2>1, <2>2
<1>7. RequestsAreSound'
  <2> SUFFICES ASSUME NEW q \in Plans
               PROVE  /\ wire'[q] # NoRequest => q \in staged' /\ wire'[q].docs = plan[q].base
                      /\ applied[q] # 0 => wire'[q].at = "done"
    BY DEF RequestsAreSound
  <2>1. CASE wire'[q] = wire[q]
    BY <2>1, <1>5 DEF OInv, RequestsAreSound
  <2>2. CASE wire'[q] # wire[q]
    BY <2>2, <1>5 DEF OInv, RequestsAreSound, NoRequest
  <2>3. QED
    BY <2>1, <2>2
<1>8. CompleteIsSound'
  BY <1>5 DEF OInv, CompleteIsSound
<1>9. TellsAreSound'
  <2>1. told[p0] # "not_sent"
    BY <1>0 DEF OInv, TellsAreSound
  <2>2. \A q \in Plans : NeverBegun(q) => NeverBegun(q)'
    BY DEF NeverBegun, J!Recorded, TargetKey
  <2>3. QED
    BY <1>4, <1>5, <2>1, <2>2 DEF OInv, TellsAreSound
<1>10. GuardsAreSound'
  BY DEF OInv, GuardsAreSound, J!Recorded, J!Open, GuardKeys
<1>11. QED
  BY <1>1, <1>6, <1>7, <1>8, <1>9, <1>10 DEF OInv

\* A call that ends, with its outcome in the journal or not, and tells the user.
LEMMA CallIsOver ==
    ASSUME IInv, OInv, NEW s \in Sessions, calls[s] # Idle,
           NEW o \in J!FinishStatuses,
           o = "complete" => /\ applied[PlanOf(s)] = Documents(plan[PlanOf(s)].request)
                             /\ PlanOf(s) \in staged
                             /\ plan'[PlanOf(s)].at = "live" => plan'[PlanOf(s)].result,
           calls' = [calls EXCEPT ![s] = Idle],
           status' = status \/ status' = [status EXCEPT ![PlanOf(s)] = o],
           UNCHANGED <<target, guards, staged, wire, applied>>,
           \A p \in Plans : J!Recorded(p) =>
               /\ plan'[p] # NoPlan
               /\ plan'[p].request = plan[p].request /\ plan'[p].base = plan[p].base
               /\ plan'[p].at = "live" => plan'[p] = plan[p] \/ plan'[p].result,
           \A p \in Plans : plan'[p] \in {plan[p], NoPlan} \/ J!Recorded(p),
           NEW w \in Meanings \ {"lost"},
           w = "not_sent" => PlanOf(s) \notin staged,
           w = "issued" => status'[PlanOf(s)] = "complete",
           told' = told \/ told' = [told EXCEPT ![PlanOf(s)] = w]
    PROVE  OInv'
<1> DEFINE p0 == PlanOf(s)
<1>0. p0 \in Plans /\ status[p0] = "in_flight" /\ J!Recorded(p0)
  BY CallFacts
<1>1. OutcomeTypes'
  BY <1>0 DEF OInv, OutcomeTypes
<1>2. /\ \A q \in Plans \ {p0} : status'[q] = status[q] /\ told'[q] = told[q]
      /\ status'[p0] \in {"in_flight", o} /\ told'[p0] \in {told[p0], w}
  BY <1>0 DEF IInv, Types, OInv, OutcomeTypes
<1>3. /\ \A q \in Plans : J!Recorded(q)' <=> J!Recorded(q)
      /\ \A q \in Plans : J!Open(q)' => J!Open(q)
      /\ \A q \in Plans : status[q] = "complete" => status'[q] = "complete"
  BY <1>0, <1>2 DEF J!Recorded, J!Open, J!OpenStatuses, J!FinishStatuses
<1>4. \A u \in Sessions : calls'[u] # Idle =>
          u # s /\ calls'[u] = calls[u] /\ calls[u] # Idle /\ PlanOf(u)' = PlanOf(u)
            /\ PlanOf(u) # p0 /\ PlanOf(u) \in Plans /\ J!Recorded(PlanOf(u))
  <2>1. \A u \in Sessions : calls'[u] # Idle => u # s /\ calls'[u] = calls[u]
    BY DEF IInv, Types
  <2>2. QED
    BY <2>1, CallFacts DEF PlanOf
<1>5. CallsAreFresh'
  <2> SUFFICES ASSUME NEW t \in Sessions, calls'[t] # Idle
               PROVE  /\ calls'[t].at # "refresh" => calls'[t].fresh = plan'[PlanOf(t)].base
                      /\ calls'[t].at \in {"commit", "readback"} => PlanOf(t) \in staged
                      /\ calls'[t].at = "commit" => wire[PlanOf(t)] = NoRequest
    BY <1>4 DEF CallsAreFresh
  <2>1. QED
    BY <1>4 DEF OInv, CallsAreFresh
<1>6. RequestsAreSound'
  BY SentIsRecorded DEF OInv, RequestsAreSound
<1>7. CompleteIsSound'
  <2> SUFFICES ASSUME NEW q \in Plans, status'[q] = "complete"
               PROVE  /\ applied[q] = Documents(plan'[q].request)
                      /\ q \in staged
                      /\ plan'[q].at = "live" => plan'[q].result
    BY DEF CompleteIsSound
  <2>1. J!Recorded(q)
    BY <1>3 DEF J!Recorded
  <2>2. CASE q = p0
    BY <2>1, <2>2, <1>2
  <2>3. CASE q # p0
    BY <2>1, <2>3, <1>2 DEF OInv, CompleteIsSound
  <2>4. QED
    BY <2>2, <2>3
<1>8. TellsAreSound'
  <2>1. \A q \in Plans : NeverBegun(q) => NeverBegun(q)'
    BY <1>3 DEF NeverBegun, TargetKey
  <2> SUFFICES ASSUME NEW q \in Plans
               PROVE  /\ told'[q] = "not_sent" =>
                            /\ q \notin staged /\ NeverBegun(q)'
                            /\ \A u \in Sessions : calls'[u] # Idle => PlanOf(u)' # q
                      /\ told'[q] = "issued" => status'[q] = "complete"
                      /\ told'[q] # "lost"
    BY DEF TellsAreSound
  <2>2. CASE q = p0
    <3>1. NeverBegun(q)'
      BY <2>2, <1>0, <2>1 DEF NeverBegun
    <3>2. QED
      BY <2>2, <3>1, <1>0, <1>2, <1>3, <1>4 DEF OInv, TellsAreSound
  <2>3. CASE q # p0
    BY <2>3, <2>1, <1>2, <1>4 DEF OInv, TellsAreSound
  <2>4. QED
    BY <2>2, <2>3
<1>9. GuardsAreSound'
  <2>1. \A p \in Plans : J!Recorded(p) => GuardKeys(p)' = GuardKeys(p)
    BY DEF GuardKeys
  <2>2. \A p \in Plans : J!Open(p) => J!Recorded(p)
    BY DEF J!Open, J!OpenStatuses, J!Recorded
  <2>3. QED
    BY <2>1, <2>2, <1>3 DEF OInv, GuardsAreSound
<1>10. QED
  BY <1>1, <1>5, <1>6, <1>7, <1>8, <1>9 DEF OInv

-----------------------------------------------------------------------------
\* A fresh operation_id: nothing has been told or done about it.
LEMMA PreviewTells ==
    ASSUME IInv, OInv, NEW s \in Sessions, NEW r \in Requests, NEW p \in Plans, Preview(s, r, p)
    PROVE  OInv'
<1>1. ~J!Recorded(p)
  BY DEF Preview, IInv, RowsAreKnown
<1>2. \A q \in Plans \ {p} : plan'[q] = plan[q] /\ told'[q] = told[q]
  BY DEF Preview, IInv, Types, OInv, OutcomeTypes
<1>3. told'[p] = "nothing" /\ told' \in [Plans -> Meanings]
  BY DEF Preview, OInv, OutcomeTypes, Meanings
<1>4. UNCHANGED <<status, target, guards, calls, staged, wire, applied>>
  BY DEF Preview, journalVars, remoteVars
<1>5. \A q \in Plans : J!Recorded(q) =>
          plan'[q] # NoPlan /\ plan'[q] = plan[q]
  BY <1>1, <1>2 DEF IInv, RowsAreKnown
<1>6. QED
  BY <1>2, <1>3, <1>4, <1>5, PreviewsAside

\* What is left of a forgotten preview keeps its content, but is no longer live.
LEMMA Forgotten ==
    ASSUME IInv, NEW p \in Plans, plan[p].at = "live"
    PROVE  /\ J!Recorded(p) => /\ Forget(p) # NoPlan
                               /\ Forget(p).request = plan[p].request
                               /\ Forget(p).base = plan[p].base
                               /\ Forget(p).at # "live"
           /\ ~J!Recorded(p) => Forget(p) = NoPlan
BY DEF Forget, NoPlan

\* The five minutes of a preview pass.
LEMMA ExpireTells ==
    ASSUME IInv, OInv, NEW p \in Plans, Expire(p)
    PROVE  OInv'
<1>1. \A q \in Plans : plan'[q] = plan[q] \/ (q = p /\ plan'[q] = Forget(q))
  BY DEF Expire, IInv, Types
<1>2. UNCHANGED <<status, target, guards, calls, staged, wire, applied, told>> /\ plan[p].at = "live"
  BY DEF Expire, journalVars, remoteVars
<1>3. \A q \in Plans : J!Recorded(q) =>
          /\ plan'[q] # NoPlan
          /\ plan'[q].request = plan[q].request /\ plan'[q].base = plan[q].base
          /\ plan'[q].at = "live" => plan'[q] = plan[q]
  BY <1>1, <1>2, Forgotten DEF IInv, RowsAreKnown
<1>4. \A q \in Plans : plan'[q] \in {plan[q], NoPlan} \/ J!Recorded(q)
  BY <1>1, <1>2, Forgotten
<1>5. told' \in [Plans -> Meanings]
  BY <1>2 DEF OInv, OutcomeTypes
<1>6. QED
  BY <1>2, <1>3, <1>4, <1>5, PreviewsAside

\* A session that is lost forgets its previews and its call.
LEMMA LoseSessionTells ==
    ASSUME IInv, OInv, NEW s \in Sessions, LoseSession(s)
    PROVE  OInv'
<1>1. \A q \in Plans : plan'[q] = plan[q] \/ (plan[q].at = "live" /\ plan'[q] = Forget(q))
  BY DEF LoseSession, PlansOf
<1>2. /\ UNCHANGED <<status, target, guards, staged, wire, applied, told>>
      /\ calls' = [calls EXCEPT ![s] = Idle]
  BY DEF LoseSession, journalVars, remoteVars
<1>3. \A q \in Plans : J!Recorded(q) =>
          /\ plan'[q] # NoPlan
          /\ plan'[q].request = plan[q].request /\ plan'[q].base = plan[q].base
          /\ plan'[q].at = "live" => plan'[q] = plan[q]
  BY <1>1, Forgotten DEF IInv, RowsAreKnown
<1>4. \A q \in Plans : plan'[q] \in {plan[q], NoPlan} \/ J!Recorded(q)
  BY <1>1, Forgotten
<1>5. told' \in [Plans -> Meanings]
  BY <1>2 DEF OInv, OutcomeTypes
<1>6. CASE calls[s] = Idle
  <2>1. calls' = calls
    BY <1>2, <1>6 DEF IInv, Types
  <2>2. QED
    BY <1>2, <1>3, <1>4, <1>5, <2>1, PreviewsAside
<1>7. CASE calls[s] # Idle
  <2>1. "unknown" \in J!FinishStatuses /\ "nothing" \in Meanings \ {"lost"}
    BY DEF J!FinishStatuses, Meanings
  <2>2. QED
    BY <1>2, <1>3, <1>4, <1>7, <2>1, CallIsOver
<1>8. QED
  BY <1>6, <1>7

-----------------------------------------------------------------------------
\* What the journal has checked of the content when it admits an attempt
\* (write_journal.py:81-101).
LEMMA AdmittedContent ==
    ASSUME NEW p \in Plans, BeginReply(p) = "started"
    PROVE  /\ ~J!Recorded(p)
           /\ \A q \in Plans : J!Open(q) => guards[q] \cap GuardKeys(p) = {}
<1>1. ~J!Recorded(p)
  BY DEF BeginReply, J!BeginReply
<1>2. CASE GuardKeys(p) = {}
  BY <1>1, <1>2
<1>3. CASE GuardKeys(p) # {}
  BY <1>1, <1>3 DEF BeginReply, J!BeginReply, J!GuardHeld
<1>4. QED
  BY <1>2, <1>3

\* begin lets a call start: of another content than every open attempt.
LEMMA StartTells ==
    ASSUME IInv, OInv, NEW s \in Sessions, NEW p \in Plans, Start(s, p)
    PROVE  OInv'
<1> DEFINE k == [at |-> "refresh", plan |-> p, fresh |-> 0]
<1>1. plan[p] # NoPlan /\ plan[p].at = "live"
  BY DEF Start, Submittable, NoPlan
<1>2. TargetKey(p) \in IssueTargets \cup CorrectionTargets
  BY <1>1, PreviewedTargets DEF IInv
<1>3. /\ ~J!Recorded(p)
      /\ \A q \in Plans \ {p} : J!Live(q) => target[q] # TargetKey(p)
      /\ \A q \in Plans : J!Open(q) => guards[q] \cap GuardKeys(p) = {}
  BY <1>2, AdmittedFacts, AdmittedContent DEF Start
<1>4. /\ status' = [status EXCEPT ![p] = "in_flight"]
      /\ target' = [target EXCEPT ![p] = TargetKey(p)]
      /\ guards' = [guards EXCEPT ![p] = {TargetKey(p)} \cup GuardKeys(p)]
      /\ calls' = [calls EXCEPT ![s] = k]
      /\ calls[s] = Idle
      /\ UNCHANGED <<plan, staged, wire, applied, told>>
  BY DEF Start, Submittable, J!InsertAttempt, remoteVars
<1>5. GuardKeys(p) \subseteq Contents
  <2>1. plan[p].request \in Requests
    BY <1>1 DEF IInv, Types, PlanRecord
  <2>2. QED
    BY <2>1, RequestsAssumption DEF GuardKeys
<1>6. /\ \A q \in Plans \ {p} : status'[q] = status[q] /\ target'[q] = target[q] /\ guards'[q] = guards[q]
      /\ status'[p] = "in_flight" /\ target'[p] = TargetKey(p)
      /\ guards'[p] = {TargetKey(p)} \cup GuardKeys(p)
  BY <1>4 DEF IInv, Types, OInv, OutcomeTypes
<1>7. /\ \A u \in Sessions \ {s} : calls'[u] = calls[u]
      /\ calls'[s] = k
  BY <1>4 DEF IInv, Types
<1>8. OutcomeTypes'
  BY <1>2, <1>4, <1>5 DEF OInv, OutcomeTypes
<1>9. p \notin staged
  BY <1>3, SentIsRecorded
<1>10. CallsAreFresh'
  <2>1. k.at = "refresh"
    OBVIOUS
  <2>2. QED
    BY <2>1, <1>4, <1>7 DEF OInv, CallsAreFresh, PlanOf
<1>11. RequestsAreSound'
  BY <1>4 DEF OInv, RequestsAreSound
<1>12. CompleteIsSound'
  BY <1>4, <1>6 DEF OInv, CompleteIsSound
<1>13. TellsAreSound'
  <2>1. told[p] # "not_sent"
    <3>1. ~NeverBegun(p)
      <4>1. \A q \in Plans : q # p /\ status[q] = "complete" => target[q] # TargetKey(p)
        BY <1>3 DEF J!Live
      <4>2. QED
        BY <4>1, <1>1, <1>3 DEF NeverBegun
    <3>2. QED
      BY <3>1 DEF OInv, TellsAreSound
  <2>2. \A q \in Plans : NeverBegun(q) => NeverBegun(q)'
    BY <1>3, <1>4, <1>6 DEF NeverBegun, J!Recorded, TargetKey
  <2>3. told[p] # "issued"
    BY <1>3 DEF OInv, TellsAreSound, J!Recorded
  <2>4. \A u \in Sessions : calls'[u] # Idle =>
            PlanOf(u)' = p \/ (calls[u] # Idle /\ PlanOf(u)' = PlanOf(u))
    BY <1>7 DEF PlanOf
  <2>5. QED
    BY <1>4, <1>6, <2>1, <2>2, <2>3, <2>4 DEF OInv, TellsAreSound
<1>14. GuardsAreSound'
  <2>1. \A q \in Plans : GuardKeys(q)' = GuardKeys(q)
    BY <1>4 DEF GuardKeys
  <2>2. \A q \in Plans \ {p} : J!Recorded(q)' = J!Recorded(q) /\ J!Open(q)' = J!Open(q)
    BY <1>6 DEF J!Recorded, J!Open
  <2>3. \A q \in Plans : J!Open(q) => J!Recorded(q)
    BY DEF J!Open, J!OpenStatuses, J!Recorded
  <2>4. \A q \in Plans \ {p} : J!Open(q) => GuardKeys(q) \cap GuardKeys(p) = {}
    BY <2>3, <1>3 DEF OInv, GuardsAreSound
  <2>5. QED
    BY <1>6, <2>1, <2>2, <2>4 DEF OInv, GuardsAreSound
<1>15. QED
  BY <1>8, <1>10, <1>11, <1>12, <1>13, <1>14 DEF OInv

\* What the replies of submit say (invoice_operations.py:100-200).
LEMMA MeaningFacts ==
    /\ Meaning("issued") = "issued" /\ Meaning("already_issued") = "issued"
    /\ Meaning("INVOICE_PREVIEW_STALE") = "not_sent" /\ Meaning("INVOICE_REFRESH_FAILED") = "not_sent"
    /\ Meaning("WRITE_REJECTED") = "not_sent" /\ Meaning("WRITE_TARGET_COMPLETE") = "not_sent"
    /\ Meaning("INVOICE_OUTCOME_UNKNOWN") = "nothing" /\ Meaning("INVOICE_TIMEOUT") = "nothing"
    /\ Meaning("WRITE_OUTCOME_UNKNOWN") = "nothing"
    /\ Meaning("WRITE_IDEMPOTENCY_CONFLICT") = "nothing"
BY DEF Meaning

\* What each refusal of begin is about (write_journal.py:58-138).
LEMMA RefusalFacts ==
    ASSUME IInv, NEW p \in Plans, BeginReply(p) # "started"
    PROVE  \/ BeginReply(p) = "complete" /\ status[p] = "complete"
           \/ BeginReply(p) = "WRITE_REJECTED" /\ status[p] = "rejected"
           \/ BeginReply(p) = "WRITE_TARGET_COMPLETE" /\ ~J!Recorded(p)
                /\ \E q \in Plans : q # p /\ status[q] = "complete" /\ target[q] = TargetKey(p)
           \/ BeginReply(p) \in {"WRITE_OUTCOME_UNKNOWN", "WRITE_IDEMPOTENCY_CONFLICT"}
<1>1. status[p] \in J!Statuses
  BY DEF IInv, Types
<1>2. CASE J!Recorded(p)
  BY <1>1, <1>2 DEF BeginReply, J!BeginReply, J!Recorded, J!Open, J!OpenStatuses, J!Statuses,
                    J!FinishStatuses
<1>3. CASE ~J!Recorded(p)
  BY <1>3 DEF BeginReply, J!BeginReply, J!TargetComplete
<1>4. QED
  BY <1>2, <1>3

\* The journal refuses a submit: what it says of the invoice is true for good.
LEMMA RefuseTells ==
    ASSUME IInv, OInv, NEW s \in Sessions, NEW p \in Plans, Refuse(s, p)
    PROVE  OInv'
<1> DEFINE code == IF BeginReply(p) # "complete" THEN BeginReply(p)
                   ELSE IF plan[p].result THEN "already_issued"
                   ELSE "INVOICE_RESULT_NOT_CACHED"
           w == Meaning(code)
<1>1. /\ plan[p].at = "live" /\ BeginReply(p) # "started"
      /\ told' = [told EXCEPT ![p] = w]
      /\ UNCHANGED <<status, target, guards, plan, calls, staged, wire, applied>>
  BY DEF Refuse, Submittable, Reply, journalVars, remoteVars
<1>2. \/ status[p] = "complete" /\ w = "issued"
      \/ status[p] = "rejected" /\ w = "not_sent"
      \/ w = "not_sent" /\ ~J!Recorded(p)
           /\ \E q \in Plans : q # p /\ status[q] = "complete" /\ target[q] = TargetKey(p)
      \/ w = "nothing"
  <2>1. CASE BeginReply(p) = "complete" /\ status[p] = "complete"
    <3>1. plan[p].result
      BY <1>1, <2>1 DEF OInv, CompleteIsSound
    <3>2. QED
      BY <2>1, <3>1, MeaningFacts
  <2>2. QED
    BY <1>1, <2>1, RefusalFacts, MeaningFacts
<1> HIDE DEF w
<1>3. w \in Meanings
  BY <1>2 DEF Meanings
<1>4. OutcomeTypes'
  BY <1>1, <1>3 DEF OInv, OutcomeTypes
<1>5. \A q \in Plans : told'[q] = told[q] \/ (q = p /\ told'[q] = w)
  BY <1>1 DEF OInv, OutcomeTypes
<1>6. TellsAreSound'
  <2>1. w = "not_sent" => p \notin staged /\ NeverBegun(p)
                             /\ \A u \in Sessions : calls[u] # Idle => PlanOf(u) # p
    BY <1>2, CallFacts, SentIsRecorded DEF NeverBegun, J!Recorded, IInv, SentIsLive, J!Live
  <2>2. w # "lost" /\ (w = "issued" => status[p] = "complete")
    BY <1>2
  <2>3. \A q \in Plans : NeverBegun(q)' <=> NeverBegun(q)
    BY <1>1 DEF NeverBegun, J!Recorded, TargetKey
  <2>4. QED
    BY <1>1, <1>5, <2>1, <2>2, <2>3 DEF OInv, TellsAreSound, PlanOf
<1>7. CallsAreFresh' /\ RequestsAreSound' /\ CompleteIsSound'
  BY <1>1 DEF OInv, CallsAreFresh, RequestsAreSound, CompleteIsSound, PlanOf
<1>8. GuardsAreSound'
  BY <1>1 DEF OInv, GuardsAreSound, J!Recorded, J!Open, GuardKeys
<1>9. QED
  BY <1>4, <1>6, <1>7, <1>8 DEF OInv

\* The except clause: a reply other than unknown comes from before Stage.
LEMMA RaiseTells ==
    ASSUME IInv, OInv, NEW s \in Sessions, calls[s] # Idle, NEW code, Raise(s, code),
           \/ Meaning(code) = "nothing"
           \/ Meaning(code) = "not_sent" /\ ~Dispatched(s)
    PROVE  OInv'
<1> DEFINE p0 == PlanOf(s)
           o == Outcome(s)
           w == Meaning(code)
<1>1. o \in J!FinishStatuses /\ o # "complete" /\ w \in Meanings \ {"lost"} /\ w # "issued"
  BY DEF Outcome, J!FinishStatuses, Meanings
<1>2. w = "not_sent" => p0 \notin staged
  BY DEF Dispatched, Running, IInv, CallsAreSound
<1>3. /\ J!Finish(p0, o) \/ UNCHANGED journalVars
      /\ calls' = [calls EXCEPT ![s] = Idle]
      /\ told' = [told EXCEPT ![p0] = w]
      /\ UNCHANGED <<remoteVars, plan>>
  BY DEF Raise, TryFinish, EndCall, Reply
<1> HIDE DEF o, w
<1>4. /\ UNCHANGED <<target, guards, staged, wire, applied>>
      /\ status' = status \/ status' = [status EXCEPT ![p0] = o]
  BY <1>3 DEF J!Finish, journalVars, remoteVars
<1>5. \A p \in Plans : J!Recorded(p) =>
          /\ plan'[p] # NoPlan
          /\ plan'[p].request = plan[p].request /\ plan'[p].base = plan[p].base
          /\ plan'[p].at = "live" => plan'[p] = plan[p] \/ plan'[p].result
  BY <1>3 DEF IInv, RowsAreKnown
<1>6. \A p \in Plans : plan'[p] \in {plan[p], NoPlan} \/ J!Recorded(p)
  BY <1>3
<1>7. QED
  BY <1>1, <1>2, <1>3, <1>4, <1>5, <1>6, CallIsOver

\* An await raises.
LEMMA FailTells ==
    ASSUME IInv, OInv, NEW s \in Sessions, Fail(s)
    PROVE  OInv'
<1>1. CASE Raise(s, "INVOICE_TIMEOUT")
  BY <1>1, MeaningFacts, RaiseTells DEF Fail
<1>2. CASE Raise(s, "INVOICE_OUTCOME_UNKNOWN") /\ Dispatched(s)
  BY <1>2, MeaningFacts, RaiseTells DEF Fail
<1>3. CASE Raise(s, "INVOICE_REFRESH_FAILED") /\ ~Dispatched(s)
  BY <1>3, MeaningFacts, RaiseTells DEF Fail
<1>4. QED
  BY <1>1, <1>2, <1>3 DEF Fail

\* The first refresh: the digest is the confirmed one, and the call holds that content.
LEMMA RefreshTells ==
    ASSUME IInv, OInv, NEW s \in Sessions, Refresh(s)
    PROVE  OInv'
<1>0. calls[s] # Idle /\ calls[s].at = "refresh"
  BY DEF Refresh, Running
<1>1. CASE /\ MatchesDigest(s)
           /\ calls' = [calls EXCEPT ![s] = [at |-> "issue", plan |-> PlanOf(s), fresh |-> world]]
           /\ UNCHANGED <<journalVars, remoteVars, plan, told>>
  <2> DEFINE k == [at |-> "issue", plan |-> PlanOf(s), fresh |-> world]
  <2>1. k \in CallRecord
    BY <1>0, CallMoves DEF IInv, Types
  <2>2. k.fresh = plan[PlanOf(s)].base /\ k.at = "issue" /\ k.plan = PlanOf(s)
    BY <1>1 DEF MatchesDigest
  <2>3. UNCHANGED <<status, target, guards, plan, applied, told>> /\ staged' = staged /\ wire' = wire
    BY <1>1 DEF journalVars, remoteVars
  <2>4. calls' = [calls EXCEPT ![s] = k]
    BY <1>1
  <2> HIDE DEF k
  <2>5. QED
    BY <1>0, <2>1, <2>2, <2>3, <2>4, CallAdvances
<1>2. CASE Raise(s, "INVOICE_PREVIEW_STALE")
  BY <1>0, <1>2, MeaningFacts, RaiseTells DEF Dispatched, Running
<1>3. QED
  BY <1>1, <1>2 DEF Refresh

\* The second refresh, and the request for the XML.
LEMMA StageTells ==
    ASSUME IInv, OInv, NEW s \in Sessions, Stage(s)
    PROVE  OInv'
<1>0. calls[s] # Idle /\ calls[s].at = "issue"
  BY DEF Stage, Running
<1>1. CASE staged' = staged \cup {PlanOf(s)} /\ Advance(s, "commit")
           /\ UNCHANGED <<journalVars, world, wire, applied, plan, told>>
  <2> DEFINE k == [at |-> "commit", plan |-> PlanOf(s), fresh |-> calls[s].fresh]
  <2>1. k \in CallRecord /\ calls' = [calls EXCEPT ![s] = k]
    BY <1>0, <1>1, CallMoves DEF Advance, IInv
  <2>2. k.fresh = plan[PlanOf(s)].base /\ k.at = "commit" /\ k.plan = PlanOf(s)
    BY <1>0 DEF OInv, CallsAreFresh
  <2>3. PlanOf(s) \notin staged
    BY <1>0 DEF IInv, CallsAreSound
  <2>4. UNCHANGED <<status, target, guards, plan, applied, told>> /\ wire' = wire
    BY <1>1 DEF journalVars
  <2> HIDE DEF k
  <2>5. QED
    BY <1>0, <1>1, <2>1, <2>2, <2>3, <2>4, CallAdvances
<1>2. CASE Raise(s, "INVOICE_OUTCOME_UNKNOWN")
  BY <1>0, <1>2, MeaningFacts, RaiseTells
<1>3. QED
  BY <1>1, <1>2 DEF Stage

\* The documents that go out are those the call holds.
LEMMA CommitTells ==
    ASSUME IInv, OInv, NEW s \in Sessions, Commit(s)
    PROVE  OInv'
<1> DEFINE k == [at |-> "readback", plan |-> PlanOf(s), fresh |-> calls[s].fresh]
<1>0. calls[s] # Idle /\ calls[s].at = "commit"
  BY DEF Commit, Running
<1>1. k \in CallRecord /\ calls' = [calls EXCEPT ![s] = k]
  BY <1>0, CallMoves DEF Commit, Advance, IInv
<1>2. k.fresh = plan[PlanOf(s)].base /\ k.at = "readback" /\ k.plan = PlanOf(s) /\ k.fresh = calls[s].fresh
  BY <1>0 DEF OInv, CallsAreFresh
<1>3. PlanOf(s) \in staged /\ wire[PlanOf(s)] = NoRequest
  BY <1>0 DEF OInv, CallsAreFresh
<1> HIDE DEF k
<1>4. /\ wire' = [wire EXCEPT ![PlanOf(s)] = [at |-> "sent", docs |-> k.fresh]]
      /\ UNCHANGED <<status, target, guards, plan, applied, told>> /\ staged' = staged
  BY <1>2 DEF Commit, journalVars
<1>5. QED
  BY <1>0, <1>1, <1>2, <1>3, <1>4, CallAdvances

\* Every document reads back: complete, and the result is kept with the preview.
LEMMA ReadBackTells ==
    ASSUME IInv, OInv, NEW s \in Sessions, ReadBack(s)
    PROVE  OInv'
<1> DEFINE p0 == PlanOf(s)
<1>0. calls[s] # Idle /\ calls[s].at = "readback" /\ AllRegistered(p0)
  BY DEF ReadBack, Running
<1>1. CASE J!Finish(p0, "complete") /\ plan' = [plan EXCEPT ![p0] = SetResult(@)]
           /\ EndCall(s, "issued") /\ UNCHANGED remoteVars
  <2>1. p0 \in Plans /\ J!Recorded(p0) /\ plan[p0] # NoPlan /\ plan[p0] \in PlanRecord
    BY <1>0, CallFacts
  <2>2. "complete" \in J!FinishStatuses /\ "issued" \in Meanings \ {"lost"}
    BY DEF J!FinishStatuses, Meanings
  <2>3. /\ SetResult(plan[p0]) # NoPlan
        /\ SetResult(plan[p0]).request = plan[p0].request
        /\ SetResult(plan[p0]).base = plan[p0].base
        /\ SetResult(plan[p0]).at = "live" => SetResult(plan[p0]).result
    BY <2>1 DEF SetResult, PlanRecord, NoPlan
  <2>4. \A q \in Plans : plan'[q] = IF q = p0 THEN SetResult(plan[p0]) ELSE plan[q]
    BY <1>1 DEF IInv, Types
  <2>5. \A p \in Plans : J!Recorded(p) =>
            /\ plan'[p] # NoPlan
            /\ plan'[p].request = plan[p].request /\ plan'[p].base = plan[p].base
            /\ plan'[p].at = "live" => plan'[p] = plan[p] \/ plan'[p].result
    BY <2>3, <2>4 DEF IInv, RowsAreKnown
  <2>6. \A p \in Plans : plan'[p] \in {plan[p], NoPlan} \/ J!Recorded(p)
    BY <2>1, <2>4
  <2>7. /\ status' = [status EXCEPT ![p0] = "complete"]
        /\ UNCHANGED <<target, guards, staged, wire, applied>>
        /\ calls' = [calls EXCEPT ![s] = Idle]
        /\ told' = [told EXCEPT ![p0] = "issued"]
    BY <1>1, MeaningFacts DEF J!Finish, EndCall, Reply, remoteVars
  <2>8. /\ applied[p0] = Documents(plan[p0].request) /\ p0 \in staged
        /\ plan'[p0].at = "live" => plan'[p0].result
        /\ status'[p0] = "complete"
    BY <1>0, <2>1, <2>3, <2>4, <2>7 DEF AllRegistered, OInv, CallsAreFresh, IInv, Types
  <2>9. QED
    BY <1>0, <2>2, <2>5, <2>6, <2>7, <2>8, CallIsOver
<1>2. CASE Raise(s, "INVOICE_OUTCOME_UNKNOWN")
  BY <1>0, <1>2, MeaningFacts, RaiseTells
<1>3. QED
  BY <1>0, <1>1, <1>2 DEF ReadBack

-----------------------------------------------------------------------------
\* HomeTax acts on a submission: complete was not said of it yet.
LEMMA ApplyTells ==
    ASSUME IInv, OInv, NEW p \in Plans, Apply(p)
    PROVE  OInv'
<1>1. /\ wire[p] # NoRequest /\ wire[p].at = "sent"
      /\ wire' = [wire EXCEPT ![p].at = "done"]
      /\ UNCHANGED <<status, target, guards, plan, calls, staged, told>>
  BY DEF Apply, NoRequest, journalVars
<1>2. PICK n \in 0 .. Documents(plan[p].request) : applied' = [applied EXCEPT ![p] = n]
  BY DEF Apply
<1>3. Documents(plan[p].request) \in {1, 2} /\ n \in 0 .. 2
  BY <1>2 DEF Documents
<1>4. wire[p] \in [at: {"sent", "done"}, docs: Versions]
  BY <1>1 DEF OInv, OutcomeTypes
<1>5. /\ \A q \in Plans \ {p} : wire'[q] = wire[q] /\ applied'[q] = applied[q]
      /\ wire'[p] = [at |-> "done", docs |-> wire[p].docs] /\ applied'[p] = n
  BY <1>1, <1>2, <1>4 DEF OInv, OutcomeTypes
<1>6. OutcomeTypes'
  <2>1. wire'[p] \in [at: {"sent", "done"}, docs: Versions]
    BY <1>4, <1>5
  <2>2. wire' \in [Plans -> [at: {"sent", "done"}, docs: Versions] \cup {NoRequest}]
    BY <1>1, <1>5, <2>1 DEF OInv, OutcomeTypes
  <2>3. QED
    BY <1>1, <1>2, <1>3, <2>2 DEF OInv, OutcomeTypes
<1>7. applied[p] = 0 /\ status[p] # "complete" /\ p \in staged /\ wire[p].docs = plan[p].base
  BY <1>1, <1>3 DEF OInv, RequestsAreSound, CompleteIsSound
<1>8. CallsAreFresh'
  <2>1. \A t \in Sessions : calls[t] # Idle /\ calls[t].at = "commit" => PlanOf(t) \in Plans \ {p}
    BY <1>1, CallFacts DEF OInv, CallsAreFresh
  <2>2. QED
    BY <1>1, <1>5, <2>1 DEF OInv, CallsAreFresh, PlanOf
<1>9. RequestsAreSound'
  BY <1>1, <1>5, <1>7 DEF OInv, RequestsAreSound
<1>10. CompleteIsSound'
  BY <1>1, <1>5, <1>7 DEF OInv, CompleteIsSound
<1>11. TellsAreSound'
  BY <1>1 DEF OInv, TellsAreSound, NeverBegun, J!Recorded, TargetKey, PlanOf
<1>12. GuardsAreSound'
  BY <1>1 DEF OInv, GuardsAreSound, J!Recorded, J!Open, GuardKeys
<1>13. QED
  BY <1>6, <1>8, <1>9, <1>10, <1>11, <1>12 DEF OInv

\* Steps that touch neither the calls nor what the replies are about.
LEMMA OthersTell ==
    ASSUME IInv, OInv,
           UNCHANGED <<status, target, guards, plan, calls, staged, wire, applied, told>>
    PROVE  OInv'
<1>1. \A p \in Plans : J!Recorded(p) => plan[p] # NoPlan
  BY DEF IInv, RowsAreKnown
<1>2. told' \in [Plans -> Meanings]
  BY DEF OInv, OutcomeTypes
<1>3. QED
  BY <1>1, <1>2, PreviewsAside

\* No step of a session, of HomeTax or of another user breaks the second layer.
LEMMA OutcomeKeeps == IInv /\ OInv /\ [Next]_vars => OInv'
<1> SUFFICES ASSUME IInv, OInv, [Next]_vars PROVE OInv'
  OBVIOUS
<1>1. ASSUME NEW s \in Sessions, NEW r \in Requests, NEW p \in Plans, Preview(s, r, p)
      PROVE  OInv'
  BY <1>1, PreviewTells
<1>2. ASSUME NEW s \in Sessions, Submit(s)
      PROVE  OInv'
  BY <1>2, StartTells, RefuseTells DEF Submit
<1>3. ASSUME NEW s \in Sessions, Proceed(s)
      PROVE  OInv'
  BY <1>3, RefreshTells, StageTells, CommitTells, ReadBackTells, FailTells DEF Proceed
<1>4. ASSUME NEW s \in Sessions, LoseSession(s)
      PROVE  OInv'
  BY <1>4, LoseSessionTells
<1>5. ASSUME NEW p \in Plans, Expire(p) \/ Apply(p)
      PROVE  OInv'
  BY <1>5, ExpireTells, ApplyTells
<1>6. CASE Edit \/ UNCHANGED vars
  BY <1>6, OthersTell DEF Edit, vars, journalVars, remoteVars
<1>7. QED
  BY <1>1, <1>2, <1>3, <1>4, <1>5, <1>6 DEF Next

\* Nothing was sent, done or told at the start.
LEMMA OutcomeStarts == Init => OInv
<1> SUFFICES ASSUME Init PROVE OInv
  OBVIOUS
<1>1. OutcomeTypes
  BY DEF Init, OutcomeTypes, Meanings
<1>2. CallsAreFresh /\ RequestsAreSound /\ CompleteIsSound /\ TellsAreSound
  BY DEF Init, CallsAreFresh, RequestsAreSound, CompleteIsSound, TellsAreSound, Idle
<1>3. GuardsAreSound
  BY DEF Init, GuardsAreSound, J!Recorded, J!Open, J!OpenStatuses
<1>4. QED
  BY <1>1, <1>2, <1>3 DEF OInv

\* Both layers hold in every reachable state.
LEMMA OutcomesSound == Spec => [](IInv /\ OInv)
BY StartsSound, StepKeeps, OutcomeStarts, OutcomeKeeps, PTL DEF Spec

\* invoice_operations.py:150-173 with issuance_backend.py:227-309: what is submitted is
\* what the user confirmed, over any number of edits, and complete stands for all
\* documents of the plan.
THEOREM IssuedAsConfirmedHolds == Spec => []IssuedAsConfirmed
<1>1. IInv /\ OInv => IssuedAsConfirmed
  BY DEF OInv, RequestsAreSound, CompleteIsSound, IssuedAsConfirmed
<1>2. QED
  BY <1>1, OutcomesSound, PTL

\* invoice_operations.py:176-200: no reply of submit is ever belied by what HomeTax
\* has, or by what a later call does.
THEOREM RepliesAreHonestHolds == Spec => []RepliesAreHonest
<1>1. IInv /\ OInv => RepliesAreHonest
  BY DEF OInv, TellsAreSound, CompleteIsSound, RepliesAreHonest
<1>2. QED
  BY <1>1, OutcomesSound, PTL

\* docs/ISSUANCE.md: the same content under another client reference waits until the
\* earlier issue is complete, in whichever session it was begun.
THEOREM SameContentSettledFirstHolds == Spec => []SameContentSettledFirst
<1>1. IInv /\ OInv => SameContentSettledFirst
  <2> SUFFICES ASSUME IInv, OInv, NEW p \in staged, NEW q \in staged, p # q,
                      GuardKeys(p) \cap GuardKeys(q) # {},
                      status[p] # "complete", status[q] # "complete"
               PROVE  FALSE
    BY DEF SameContentSettledFirst
  <2>1. p \in Plans /\ q \in Plans /\ J!Open(p) /\ J!Open(q)
    BY DEF IInv, Types, SentIsLive, J!Live, J!Open, J!OpenStatuses
  <2>2. QED
    BY <2>1 DEF OInv, GuardsAreSound
<1>2. QED
  BY <1>1, OutcomesSound, PTL

-----------------------------------------------------------------------------
(***************************************************************************)
(* The refinement: the claim on a target is its live attempt.              *)
(***************************************************************************)
InvoiceKeys == IssueTargets \cup CorrectionTargets

\* Claimant picks the live attempt of a target, and there is one at most.
ClaimsAreLive ==
    /\ \A p \in Plans : J!Live(p) => target[p] \in InvoiceKeys
    /\ \A t \in InvoiceKeys, p \in Plans :
          J!Live(p) /\ target[p] = t => Claimant(t) = p
    /\ \A t \in InvoiceKeys : Claimant(t) # NoKey =>
          \E p \in Plans : Claimant(t) = p /\ J!Live(p) /\ target[p] = t

\* The choice in Claimant is determined by OneLivePerTarget.
LEMMA ClaimsFacts == IInv => ClaimsAreLive
<1> SUFFICES ASSUME IInv PROVE ClaimsAreLive
  OBVIOUS
<1>1. ASSUME NEW p \in Plans, J!Live(p)
      PROVE  target[p] \in InvoiceKeys /\ Claimant(target[p]) = p
  <2>1. plan[p] # NoPlan /\ target[p] = TargetKey(p)
    BY <1>1 DEF IInv, RowsAreKnown, J!Live, J!Recorded
  <2>2. target[p] \in InvoiceKeys
    BY <2>1, PreviewedTargets DEF IInv, InvoiceKeys
  <2>3. \A q \in Plans : J!Live(q) /\ target[q] = target[p] => q = p
    BY <1>1 DEF IInv, OneLivePerTarget
  <2>4. QED
    BY <1>1, <2>2, <2>3 DEF Claimant
<1>2. ASSUME NEW t \in InvoiceKeys, Claimant(t) # NoKey
      PROVE  \E p \in Plans : Claimant(t) = p /\ J!Live(p) /\ target[p] = t
  BY <1>2 DEF Claimant
<1>3. QED
  BY <1>1, <1>2 DEF ClaimsAreLive

\* The claims stay when no row begins or ends, but for the one on target t.
LEMMA ClaimsKept ==
    ASSUME ClaimsAreLive, ClaimsAreLive', NEW T \in SUBSET InvoiceKeys,
           \A p \in Plans : /\ J!Live(p) /\ target[p] \in T => J!Live(p)' /\ target'[p] = target[p]
                            /\ J!Live(p)' /\ target'[p] \in T => J!Live(p) /\ target'[p] = target[p]
    PROVE  \A t \in T : Claimant(t)' = Claimant(t)
<1> SUFFICES ASSUME NEW t \in T PROVE Claimant(t)' = Claimant(t)
  OBVIOUS
<1>1. CASE Claimant(t) # NoKey
  <2>1. PICK p \in Plans : p = Claimant(t) /\ J!Live(p) /\ target[p] = t
    BY <1>1 DEF ClaimsAreLive
  <2>2. J!Live(p)' /\ target'[p] = t
    BY <2>1
  <2>3. Claimant(t)' = p
    BY <2>2 DEF ClaimsAreLive
  <2>4. QED
    BY <2>1, <2>3
<1>2. CASE Claimant(t) = NoKey
  <2>1. \A p \in Plans : ~(J!Live(p) /\ target[p] = t)
    BY <1>2, InvoiceKeysAssumption DEF ClaimsAreLive
  <2>2. CASE Claimant(t)' # NoKey
    <3>1. PICK p \in Plans : J!Live(p)' /\ target'[p] = t
      BY <2>2 DEF ClaimsAreLive
    <3>2. J!Live(p) /\ target[p] = t
      BY <3>1
    <3>3. QED
      BY <2>1, <3>2
  <2>3. QED
    BY <1>2, <2>2
<1>3. QED
  BY <1>1, <1>2

\* A step with the same rows alive and complete, and nothing sent, is a stutter.
LEMMA ShotStutters ==
    ASSUME IInv, ClaimsAreLive, ClaimsAreLive', UNCHANGED <<target, staged>>,
           \A p \in Plans : /\ J!Live(p)' <=> J!Live(p)
                            /\ status'[p] = "complete" <=> status[p] = "complete"
    PROVE  UNCHANGED OneShot!vars
<1>1. \A t \in InvoiceKeys : Claimant(t)' = Claimant(t)
  BY ClaimsKept
<1>2. {p \in Plans : status[p] = "complete"}' = {p \in Plans : status[p] = "complete"}
  OBVIOUS
<1>3. QED
  BY <1>1, <1>2 DEF OneShot!vars, InvoiceKeys

\* begin is the claim of a target (write_journal.py:121-138).
LEMMA StartClaims ==
    ASSUME IInv, ClaimsAreLive, ClaimsAreLive', NEW s \in Sessions, NEW p \in Plans, Start(s, p)
    PROVE  OneShot!Next
<1>1. plan[p] # NoPlan
  BY DEF Start, Submittable, NoPlan
<1>2. PICK t \in InvoiceKeys : t = TargetKey(p)
  BY <1>1, PreviewedTargets DEF IInv, InvoiceKeys
<1>3. /\ ~J!Recorded(p)
      /\ \A q \in Plans \ {p} : J!Live(q) => target[q] # t
  BY <1>2, AdmittedFacts DEF Start, InvoiceKeys
<1>4. /\ status' = [status EXCEPT ![p] = "in_flight"]
      /\ target' = [target EXCEPT ![p] = t]
      /\ UNCHANGED staged
  BY <1>2 DEF Start, J!InsertAttempt, remoteVars
<1>5. /\ \A q \in Plans \ {p} : status'[q] = status[q] /\ target'[q] = target[q]
      /\ status'[p] = "in_flight" /\ target'[p] = t
  BY <1>4 DEF IInv, Types
<1>6. ~J!Live(p) /\ p \notin staged
  BY <1>3, SentIsRecorded DEF J!Live, J!Recorded
<1>7. Claimant(t) = NoKey
  BY <1>2, <1>3, <1>6 DEF ClaimsAreLive
<1>8. \A u \in InvoiceKeys : Claimant(u) # p
  BY <1>6, InvoiceKeysAssumption DEF ClaimsAreLive
<1>9. Claimant(t)' = p
  <2>1. J!Live(p)' /\ target'[p] = t
    BY <1>5 DEF J!Live
  <2>2. QED
    BY <1>2, <2>1 DEF ClaimsAreLive
<1>10. \A u \in InvoiceKeys \ {t} : Claimant(u)' = Claimant(u)
  <2>1. \A q \in Plans :
            /\ J!Live(q) /\ target[q] \in InvoiceKeys \ {t} => J!Live(q)' /\ target'[q] = target[q]
            /\ J!Live(q)' /\ target'[q] \in InvoiceKeys \ {t} => J!Live(q) /\ target'[q] = target[q]
    BY <1>5, <1>6 DEF J!Live
  <2>2. QED
    BY <2>1, ClaimsKept
<1>11. {q \in Plans : status[q] = "complete"}' = {q \in Plans : status[q] = "complete"}
  BY <1>3, <1>5 DEF J!Recorded
<1>12. OneShot!Claim(t, p)
  <2>1. [u \in InvoiceKeys |-> Claimant(u)]' =
            [[u \in InvoiceKeys |-> Claimant(u)] EXCEPT ![t] = p]
    BY <1>2, <1>9, <1>10
  <2>2. QED
    BY <1>2, <1>4, <1>6, <1>7, <1>8, <1>11, <2>1 DEF OneShot!Claim, InvoiceKeys
<1>13. QED
  BY <1>2, <1>12 DEF OneShot!Next, InvoiceKeys

\* The except clause gives the claim back if it records rejected, and keeps it otherwise.
LEMMA RaiseReleases ==
    ASSUME IInv, ClaimsAreLive, ClaimsAreLive', NEW s \in Sessions, calls[s] # Idle, NEW code,
           Raise(s, code)
    PROVE  OneShot!Next \/ UNCHANGED OneShot!vars
<1>1. PICK p0 \in Plans : p0 = PlanOf(s) /\ status[p0] = "in_flight" /\ J!Live(p0)
  BY CallFacts DEF J!Live
<1>2. /\ J!Finish(p0, Outcome(s)) \/ UNCHANGED journalVars
      /\ UNCHANGED staged
  BY <1>1 DEF Raise, TryFinish, remoteVars
<1>3. CASE UNCHANGED journalVars
  BY <1>2, <1>3, ShotStutters DEF journalVars, J!Live
<1>4. CASE J!Finish(p0, Outcome(s)) /\ Outcome(s) = "unknown"
  <2>1. status' = [status EXCEPT ![p0] = "unknown"] /\ target' = target
    BY <1>4 DEF J!Finish
  <2>2. \A q \in Plans : status'[q] = IF q = p0 THEN "unknown" ELSE status[q]
    BY <2>1 DEF IInv, Types
  <2>3. \A q \in Plans : /\ J!Live(q)' <=> J!Live(q)
                         /\ status'[q] = "complete" <=> status[q] = "complete"
    BY <1>1, <2>2 DEF J!Live
  <2>4. QED
    BY <1>2, <2>1, <2>3, ShotStutters
<1>5. CASE J!Finish(p0, Outcome(s)) /\ Outcome(s) = "rejected" /\ ~Dispatched(s)
  <2>1. status' = [status EXCEPT ![p0] = "rejected"] /\ target' = target
    BY <1>5 DEF J!Finish
  <2>2. \A q \in Plans : status'[q] = IF q = p0 THEN "rejected" ELSE status[q]
    BY <2>1 DEF IInv, Types
  <2>3. p0 \notin staged
    BY <1>1, <1>5 DEF Dispatched, Running, IInv, CallsAreSound
  <2>4. PICK t \in InvoiceKeys : t = target[p0] /\ Claimant(t) = p0 /\ p0 # NoKey
    BY <1>1, InvoiceKeysAssumption DEF ClaimsAreLive
  <2>5. Claimant(t)' = NoKey
    <3>1. CASE Claimant(t)' # NoKey
      <4>1. PICK q \in Plans : J!Live(q)' /\ target'[q] = t
        BY <2>4, <3>1 DEF ClaimsAreLive
      <4>2. q # p0 /\ J!Live(q) /\ target[q] = t
        BY <2>1, <2>2, <4>1 DEF J!Live
      <4>3. Claimant(t) = q
        BY <4>2 DEF ClaimsAreLive
      <4>4. QED
        BY <2>4, <4>2, <4>3
    <3>2. QED
      BY <3>1
  <2>6. \A u \in InvoiceKeys \ {t} : Claimant(u)' = Claimant(u)
    <3>1. \A q \in Plans :
              /\ J!Live(q) /\ target[q] \in InvoiceKeys \ {t} => J!Live(q)' /\ target'[q] = target[q]
              /\ J!Live(q)' /\ target'[q] \in InvoiceKeys \ {t} => J!Live(q) /\ target'[q] = target[q]
      BY <2>1, <2>2, <2>4 DEF J!Live
    <3>2. QED
      BY <3>1, ClaimsKept
  <2>7. {q \in Plans : status[q] = "complete"}' = {q \in Plans : status[q] = "complete"}
    BY <1>1, <2>2
  <2>8. [u \in InvoiceKeys |-> Claimant(u)]' =
            [[u \in InvoiceKeys |-> Claimant(u)] EXCEPT ![t] = NoKey]
    BY <2>4, <2>5, <2>6
  <2>9. OneShot!Release(t)
    BY <1>2, <2>3, <2>4, <2>7, <2>8 DEF OneShot!Release, InvoiceKeys
  <2>10. QED
    BY <2>4, <2>9 DEF OneShot!Next, InvoiceKeys
<1>6. QED
  BY <1>2, <1>3, <1>4, <1>5 DEF Outcome

\* The request for the XML is the point from which the claim is never given back.
LEMMA StageReaches ==
    ASSUME IInv, ClaimsAreLive, ClaimsAreLive', NEW s \in Sessions, Stage(s)
    PROVE  OneShot!Next \/ UNCHANGED OneShot!vars
<1>1. calls[s] # Idle
  BY DEF Stage, Running
<1>2. PICK p0 \in Plans : p0 = PlanOf(s) /\ J!Live(p0)
  BY <1>1, CallFacts DEF J!Live
<1>3. CASE staged' = staged \cup {p0} /\ UNCHANGED journalVars
  <2>1. PICK t \in InvoiceKeys : Claimant(t) = p0 /\ p0 # NoKey
    BY <1>2, InvoiceKeysAssumption DEF ClaimsAreLive
  <2>2. status' = status /\ target' = target
    BY <1>3 DEF journalVars
  <2>3. \A u \in InvoiceKeys : Claimant(u)' = Claimant(u)
    BY <2>2, ClaimsKept DEF J!Live
  <2>4. OneShot!Reach(t)
    BY <1>3, <2>1, <2>2, <2>3 DEF OneShot!Reach, InvoiceKeys
  <2>5. QED
    BY <2>1, <2>4 DEF OneShot!Next, InvoiceKeys
<1>4. CASE Raise(s, "INVOICE_OUTCOME_UNKNOWN")
  BY <1>1, <1>4, RaiseReleases
<1>5. QED
  BY <1>2, <1>3, <1>4 DEF Stage

\* complete settles a claim that was sent.
LEMMA ReadBackSettles ==
    ASSUME IInv, OInv, ClaimsAreLive, ClaimsAreLive', NEW s \in Sessions, ReadBack(s)
    PROVE  OneShot!Next \/ UNCHANGED OneShot!vars
<1>1. calls[s] # Idle /\ calls[s].at = "readback"
  BY DEF ReadBack, Running
<1>2. PICK p0 \in Plans : p0 = PlanOf(s) /\ J!Live(p0) /\ status[p0] = "in_flight" /\ p0 \in staged
  BY <1>1, CallFacts DEF J!Live, OInv, CallsAreFresh
<1>3. CASE J!Finish(p0, "complete") /\ UNCHANGED remoteVars
  <2>1. status' = [status EXCEPT ![p0] = "complete"] /\ target' = target /\ staged' = staged
    BY <1>3 DEF J!Finish, remoteVars
  <2>2. PICK t \in InvoiceKeys : Claimant(t) = p0
    BY <1>2 DEF ClaimsAreLive
  <2>3. \A q \in Plans : status'[q] = IF q = p0 THEN "complete" ELSE status[q]
    BY <2>1 DEF IInv, Types
  <2>4. \A q \in Plans : J!Live(q)' <=> J!Live(q)
    BY <1>2, <2>3 DEF J!Live
  <2>5. \A u \in InvoiceKeys : Claimant(u)' = Claimant(u)
    BY <2>1, <2>4, ClaimsKept
  <2>6. {q \in Plans : status[q] = "complete"}' = {q \in Plans : status[q] = "complete"} \cup {p0}
    BY <1>2, <2>3
  <2>7. OneShot!Settle(t)
    BY <1>2, <2>1, <2>2, <2>5, <2>6 DEF OneShot!Settle, InvoiceKeys
  <2>8. QED
    BY <2>2, <2>7 DEF OneShot!Next, InvoiceKeys
<1>4. CASE Raise(s, "INVOICE_OUTCOME_UNKNOWN")
  BY <1>1, <1>4, RaiseReleases
<1>5. QED
  BY <1>2, <1>3, <1>4 DEF ReadBack

\* Every step is one of the four steps of the promise, or none.
LEMMA StepIsOneShot ==
    IInv /\ OInv /\ ClaimsAreLive /\ ClaimsAreLive' /\ [Next]_vars
        => [OneShot!Next]_(OneShot!vars)
<1> SUFFICES ASSUME IInv, OInv, ClaimsAreLive, ClaimsAreLive', [Next]_vars
             PROVE  OneShot!Next \/ UNCHANGED OneShot!vars
  OBVIOUS
<1>1. ASSUME UNCHANGED <<journalVars, staged>>
      PROVE  UNCHANGED OneShot!vars
  BY <1>1, ShotStutters DEF journalVars, J!Live
<1>2. ASSUME NEW s \in Sessions, NEW p \in Plans, Start(s, p)
      PROVE  OneShot!Next
  BY <1>2, StartClaims
<1>3. ASSUME NEW s \in Sessions, Proceed(s)
      PROVE  OneShot!Next \/ UNCHANGED OneShot!vars
  <2>1. CASE Refresh(s)
    <3>1. CASE UNCHANGED <<journalVars, remoteVars>>
      BY <1>1, <3>1 DEF remoteVars
    <3>2. CASE Raise(s, "INVOICE_PREVIEW_STALE")
      BY <2>1, <3>2, RaiseReleases DEF Refresh, Running
    <3>3. QED
      BY <2>1, <3>1, <3>2 DEF Refresh
  <2>2. CASE Commit(s)
    BY <1>1, <2>2 DEF Commit
  <2>3. CASE Fail(s)
    BY <2>3, RaiseReleases DEF Fail
  <2>4. QED
    BY <1>3, <2>1, <2>2, <2>3, StageReaches, ReadBackSettles DEF Proceed
<1>4. ASSUME NEW s \in Sessions, NEW r \in Requests, NEW p \in Plans, Preview(s, r, p)
      PROVE  UNCHANGED OneShot!vars
  BY <1>1, <1>4 DEF Preview, remoteVars
<1>5. ASSUME NEW s \in Sessions, NEW p \in Plans, Refuse(s, p)
      PROVE  UNCHANGED OneShot!vars
  BY <1>1, <1>5 DEF Refuse, remoteVars
<1>6. ASSUME NEW s \in Sessions, LoseSession(s)
      PROVE  UNCHANGED OneShot!vars
  BY <1>1, <1>6 DEF LoseSession, remoteVars
<1>7. ASSUME NEW p \in Plans, Expire(p) \/ Apply(p)
      PROVE  UNCHANGED OneShot!vars
  BY <1>1, <1>7 DEF Expire, Apply, remoteVars
<1>8. CASE Edit \/ UNCHANGED vars
  BY <1>1, <1>8 DEF Edit, vars, remoteVars, journalVars
<1>9. QED
  BY <1>2, <1>3, <1>4, <1>5, <1>6, <1>7, <1>8 DEF Next, Submit

\* No claim at the start.
LEMMA OneShotStarts == Init => OneShot!Init
<1> SUFFICES ASSUME Init PROVE OneShot!Init
  OBVIOUS
<1>1. \A p \in Plans : status[p] = "absent" /\ ~J!Live(p)
  BY DEF Init, J!Live
<1>2. \A t \in IssueTargets \cup CorrectionTargets : Claimant(t) = NoKey
  BY <1>1 DEF Claimant
<1>3. QED
  BY <1>1, <1>2 DEF OneShot!Init, Init

\* invoice_operations.py:125-182 with write_journal.py:33-190: for any number of sessions
\* and plans, the submission implements the one-shot promise: a claim per target, given
\* back only if nothing was sent.
THEOREM OneShotHolds == Spec => ImplementsOneShot
<1>1. Spec => []ClaimsAreLive
  BY ClaimsFacts, OutcomesSound, PTL
<1>2. QED
  BY <1>1, OutcomesSound, StepIsOneShot, OneShotStarts, PTL
     DEF Spec, ImplementsOneShot, OneShot!Spec

-----------------------------------------------------------------------------
(***************************************************************************)
(* Types                                                                   *)
(***************************************************************************)
\* begin and finish keep the columns of the journal in their types.
LEMMA RowsTyped == J!TypeOK /\ [J!Next]_(J!vars) => J!TypeOK'
<1> SUFFICES ASSUME J!TypeOK, [J!Next]_(J!vars) PROVE J!TypeOK'
  OBVIOUS
<1> USE DEF J!TypeOK, J!Recorded
<1>1. ASSUME NEW p \in Plans, NEW t \in J!Targets, NEW h \in Requests \X Versions,
             NEW gs \in J!GuardKeys(t), J!Begin(p, t, h, gs)
      PROVE  J!TypeOK'
  <2>1. {t} \cup gs \in SUBSET J!Keys
    BY DEF J!GuardKeys, J!Keys
  <2>2. QED
    BY <1>1, <2>1 DEF J!Begin, J!InsertAttempt, J!Statuses, J!FinishStatuses
<1>2. ASSUME NEW p \in Plans, NEW s \in J!FinishStatuses, J!Finish(p, s)
      PROVE  J!TypeOK'
  BY <1>2 DEF J!Finish, J!FinishReply, J!Statuses, J!FinishStatuses
<1>3. CASE UNCHANGED J!vars
  BY <1>3 DEF J!vars
<1>4. QED
  BY <1>1, <1>2, <1>3 DEF J!Next

\* invoice_operations.py:36-200: whatever the calls do, a row has the target and the digest
\* of a preview, a call stands at one of the awaits of submit, HomeTax registers two
\* documents at most, and every code that submit replies with has a meaning.
THEOREM TypeOKHolds == Spec => []TypeOK
<1>1. Init => J!TypeOK
  <2> SUFFICES ASSUME Init PROVE J!TypeOK
    OBVIOUS
  <2>1. \A p \in Plans : ~J!Recorded(p)
    BY DEF Init, J!Recorded
  <2>2. QED
    BY <2>1 DEF Init, J!TypeOK, J!Statuses
<1>2. Spec => []J!TypeOK
  BY <1>1, RowsTyped, UsesTheJournal, PTL DEF Spec, J!Spec
<1>3. IInv /\ OInv /\ J!TypeOK => TypeOK
  BY DEF IInv, Types, OInv, OutcomeTypes, TypeOK
<1>4. QED
  BY <1>2, <1>3, OutcomesSound, PTL
===============================================================================
