---------------------- MODULE CounterpartyChangesProofs ----------------------
(***************************************************************************)
(* For every number of sessions, previews, owners and interferences: a     *)
(* write lands on the record the user has seen unless others changed it or *)
(* a delete went astray into it, a delete goes astray only after a switch  *)
(* of the login behind the last check, complete means done in the right    *)
(* book, replies are honest, and apply uses the journal as WriteJournal    *)
(* allows.                                                                 *)
(*                                                                         *)
(* The heart is Untouched with RowSeen: from the row that the re-read      *)
(* reads first, over its contacts, to the moment the write lands, the      *)
(* record in the confirmed book is the one read, unless it was touched.    *)
(* It rests on the journal (one open attempt for a counterparty), which in *)
(* turn relies on a sent request never being called rejected.              *)
(***************************************************************************)
EXTENDS CounterpartyChanges, TLAPS

\* Before the contacts are read there is a row.
Calls ==
    {k \in PreviewCall \cup ApplyCall \cup {Idle} : k.at = "contacts" => k.row \in Values}

Types ==
    /\ status \in [Plans -> J!Statuses]
    /\ target \in [Plans -> Owners \cup {NoKey}]
    /\ plan \in [Plans -> PlanRecord \cup {NoPlan}]
    /\ calls \in [Sessions -> Calls]
    /\ registry \in [Owners -> Records]
    /\ scope \in [Sessions -> Owners]
    /\ wire \in [Plans -> RequestRecord \cup {NoRequest}]
    /\ disturbed \in SUBSET Plans /\ struck \in SUBSET Plans
    /\ told \in [Plans -> Meanings]

\* A row belongs to a preview that is remembered, and has its target; every preview
\* is of a change.
PlansAreSound ==
    \A p \in Plans :
        /\ J!Recorded(p) => plan[p] # NoPlan /\ target[p] = OwnerOf(p)
        /\ plan[p] # NoPlan => BeforeOf(p) # AfterOf(p)

Applying(s) == calls[s].task \in {"reread", "readback"}

\* write has not been asked to send.
Unsent(s) == calls[s].task = "reread" /\ calls[s].at # "answer"

\* An apply works on an attempt in flight, alone; nothing is sent before Send, and
\* nothing is read back before HomeTax has reported success.
CallsAreSound ==
    \A s \in Sessions : Applying(s) =>
        /\ status[PlanOf(s)] = "in_flight"
        /\ Unsent(s) => wire[PlanOf(s)] = NoRequest
        /\ calls[s].task = "readback" => wire[PlanOf(s)].at = "landed"
        /\ \A u \in Sessions \ {s} : Applying(u) => PlanOf(u) # PlanOf(s)

\* What a row says of the request.
RowsAreSound ==
    \A p \in Plans :
        /\ wire[p] # NoRequest => J!Live(p)
        /\ wire[p].at = "sent" => J!Open(p)
        /\ status[p] = "complete" => wire[p].at = "landed"

\* What the user was told stays true: nobody works on p any more.
TellsAreSound ==
    \A p \in Plans :
        /\ told[p] = "not_sent" =>
              /\ J!Recorded(p) /\ wire[p] = NoRequest
              /\ \A s \in Sessions : Applying(s) => PlanOf(s) # p
        /\ told[p] = "applied" => wire[p].at = "landed"

Touched == disturbed \cup struck

\* The re-read of p is behind it and its write has not taken effect as meant.
Compared(s) ==
    \/ calls[s].task = "reread" /\ calls[s].at \in {"authorize", "answer"}
    \/ calls[s].task = "readback"
Working(p) ==
    \/ wire[p].at = "sent"
    \/ ~LandedAtHome(p) /\ \E s \in Sessions : Compared(s) /\ PlanOf(s) = p

Untouched == \A p \in Plans : Working(p) => registry[OwnerOf(p)] = BeforeOf(p) \/ p \in Touched

\* Between R06 and R07 in the confirmed book, the row is still the one read, until
\* the write takes effect there.
HalfRead(s) == Applying(s) /\ calls[s].at = "contacts"
HasRow(o, row) == registry[o] # Absent /\ registry[o].row = row

RowSeen ==
    \A s \in Sessions :
        HalfRead(s) /\ calls[s].owner = OwnerOf(PlanOf(s)) =>
            \/ HasRow(calls[s].owner, calls[s].row)
            \/ LandedAtHome(PlanOf(s)) \/ PlanOf(s) \in Touched

\* A request that no switch has overtaken would land at home.
SentAtHome ==
    \A p \in Plans : wire[p].at = "sent" =>
        wire[p].switched = TRUE \/ scope[wire[p].session] = OwnerOf(p)

IInv ==
    /\ Types /\ PlansAreSound /\ CallsAreSound /\ RowsAreSound /\ TellsAreSound
    /\ Untouched /\ RowSeen /\ SentAtHome /\ J!OneOpenPerTarget /\ CompleteIsOurs

-----------------------------------------------------------------------------
\* A session may be idle.
LEMMA IdleIsCall == Idle \in Calls
BY DEF Idle, Calls

\* A preview is of a counterparty in the book of some owner.
LEMMA PlanFacts ==
    ASSUME Types, NEW p \in Plans, plan[p] # NoPlan
    PROVE  OwnerOf(p) \in Owners /\ BeforeOf(p) \in Records /\ AfterOf(p) \in Records
<1>1. plan[p].body \in Body
  BY DEF Types, PlanRecord
<1>2. QED
  BY <1>1 DEF Body, OwnerOf, BeforeOf, AfterOf

\* What is known of the attempt of a call (counterparty_changes.py:317-382).
LEMMA CallFacts ==
    ASSUME IInv, NEW s \in Sessions, Applying(s)
    PROVE  /\ PlanOf(s) \in Plans /\ calls[s] \in ApplyCall
           /\ status[PlanOf(s)] = "in_flight" /\ J!Recorded(PlanOf(s)) /\ J!Open(PlanOf(s))
           /\ plan[PlanOf(s)] # NoPlan
           /\ target[PlanOf(s)] = OwnerOf(PlanOf(s))
<1>1. calls[s] \in ApplyCall /\ PlanOf(s) \in Plans
  BY DEF IInv, Types, Calls, Applying, PreviewCall, ApplyCall, Idle, PlanOf
<1>2. status[PlanOf(s)] = "in_flight"
  BY DEF IInv, CallsAreSound
<1>3. J!Recorded(PlanOf(s)) /\ J!Open(PlanOf(s))
  BY <1>2 DEF J!Recorded, J!Open, J!OpenStatuses
<1>4. QED
  BY <1>1, <1>2, <1>3 DEF IInv, PlansAreSound

\* Whoever is between the two requests has looked at the record.
LEMMA HalfReadIsExposed ==
    ASSUME NEW s \in Sessions, HalfRead(s), ~LandedAtHome(PlanOf(s))
    PROVE  Exposed(PlanOf(s))
BY DEF HalfRead, Applying, Looked, Exposed

\* Whoever is at work has looked at the record.
LEMMA WorkingIsExposed ==
    ASSUME NEW p \in Plans, Working(p)
    PROVE  Exposed(p)
BY DEF Working, Exposed, Compared, Looked

\* Whoever has looked has a preview, a row and an open attempt.
LEMMA ExposedFacts ==
    ASSUME IInv, NEW p \in Plans, Exposed(p)
    PROVE  J!Open(p) /\ J!Recorded(p) /\ plan[p] # NoPlan /\ target[p] = OwnerOf(p)
<1>1. J!Open(p)
  <2>1. CASE wire[p].at = "sent"
    BY <2>1 DEF IInv, RowsAreSound
  <2>2. CASE \E s \in Sessions : Looked(s) /\ PlanOf(s) = p
    <3>1. PICK s \in Sessions : Looked(s) /\ PlanOf(s) = p
      BY <2>2
    <3>2. Applying(s)
      BY <3>1 DEF Looked, Applying
    <3>3. QED
      BY <3>1, <3>2, CallFacts
  <2>3. QED
    BY <2>1, <2>2 DEF Exposed
<1>2. J!Recorded(p)
  BY <1>1 DEF J!Open, J!OpenStatuses, J!Recorded
<1>3. QED
  BY <1>1, <1>2 DEF IInv, PlansAreSound

\* The program's own open attempts are about different counterparties.
LEMMA ExposedDiffer ==
    ASSUME IInv, NEW p \in Plans, NEW q \in Plans, p # q, Exposed(p), Exposed(q)
    PROVE  OwnerOf(p) # OwnerOf(q)
<1>1. J!Open(p) /\ J!Open(q) /\ target[p] = OwnerOf(p) /\ target[q] = OwnerOf(q)
  BY ExposedFacts
<1>2. QED
  BY <1>1 DEF IInv, J!OneOpenPerTarget

-----------------------------------------------------------------------------
\* Previews come and go, but not those with a row (_prepare, plans, clear); what a
\* preview reads meanwhile is nobody else's business.
LEMMA PreviewsChange ==
    ASSUME IInv, UNCHANGED <<status, target, registry, scope, wire, disturbed, struck>>,
           calls' \in [Sessions -> Calls],
           \A u \in Sessions : calls'[u] = calls[u] \/ (~Applying(u) /\ ~Applying(u)'),
           plan' \in [Plans -> PlanRecord \cup {NoPlan}],
           \A p \in Plans : J!Recorded(p) => plan'[p] # NoPlan /\ plan'[p].body = plan[p].body,
           \A p \in Plans : plan'[p] # NoPlan => BeforeOf(p)' # AfterOf(p)',
           told' \in [Plans -> Meanings],
           \A p \in Plans : told'[p] \in {told[p], "nothing"}
    PROVE  IInv'
<1>1. Types'
  BY DEF IInv, Types
<1>2. \A p \in Plans : J!Recorded(p) => OwnerOf(p)' = OwnerOf(p) /\ BeforeOf(p)' = BeforeOf(p)
  BY DEF OwnerOf, BeforeOf
<1>3. PlansAreSound'
  BY <1>2 DEF IInv, PlansAreSound, J!Recorded
<1>4. \A u \in Sessions : Applying(u)' => Applying(u) /\ calls'[u] = calls[u]
  BY DEF Applying
<1>5. CallsAreSound'
  <2> SUFFICES ASSUME NEW t \in Sessions, Applying(t)'
               PROVE  /\ status[calls'[t].plan] = "in_flight"
                      /\ Unsent(t)' => wire[calls'[t].plan] = NoRequest
                      /\ calls'[t].task = "readback" => wire[calls'[t].plan].at = "landed"
                      /\ \A u \in Sessions \ {t} : Applying(u)' => calls'[u].plan # calls'[t].plan
    BY DEF CallsAreSound, PlanOf
  <2>1. Applying(t) /\ calls'[t] = calls[t]
    BY <1>4
  <2>2. \A u \in Sessions \ {t} : Applying(u)' => calls'[u].plan # calls[t].plan
    BY <1>4, <2>1 DEF IInv, CallsAreSound, PlanOf
  <2>3. QED
    BY <2>1, <2>2 DEF IInv, CallsAreSound, PlanOf, Unsent
<1>6. RowsAreSound' /\ J!OneOpenPerTarget'
  BY DEF IInv, RowsAreSound, J!Live, J!Open, J!OneOpenPerTarget
<1>7. TellsAreSound'
  BY <1>4 DEF IInv, TellsAreSound, J!Recorded, PlanOf
<1>8. \A p \in Plans : wire[p].at = "sent" => J!Recorded(p)
  BY DEF IInv, RowsAreSound, J!Open, J!OpenStatuses, J!Recorded
<1>9. Untouched'
  <2> SUFFICES ASSUME NEW p \in Plans, Working(p)'
               PROVE  registry[OwnerOf(p)'] = BeforeOf(p)' \/ p \in Touched
    BY DEF Untouched, Touched
  <2>1. \A u \in Sessions : Compared(u)' => Compared(u) /\ calls'[u] = calls[u] /\ Applying(u)
    BY <1>4 DEF Compared, Applying
  <2>2. J!Recorded(p)
    <3>1. CASE \E u \in Sessions : Compared(u)' /\ PlanOf(u)' = p
      BY <3>1, <2>1, CallFacts DEF PlanOf
    <3>2. QED
      BY <3>1, <1>8 DEF Working
  <2>3. Working(p)
    BY <2>1, <2>2, <1>2 DEF Working, LandedAtHome, PlanOf
  <2>4. QED
    BY <2>2, <2>3, <1>2 DEF IInv, Untouched
<1>10. RowSeen'
  <2> SUFFICES ASSUME NEW t \in Sessions, HalfRead(t)',
                      calls'[t].owner = plan'[calls'[t].plan].body.owner
               PROVE  \/ HasRow(calls'[t].owner, calls'[t].row)
                      \/ wire[calls'[t].plan] =
                            [at |-> "landed", owner |-> plan'[calls'[t].plan].body.owner]
                      \/ calls'[t].plan \in Touched
    BY DEF RowSeen, HasRow, Touched, LandedAtHome, OwnerOf, PlanOf
  <2>1. calls'[t] = calls[t] /\ HalfRead(t) /\ Applying(t)
    BY <1>4 DEF HalfRead
  <2>2. plan'[PlanOf(t)].body.owner = OwnerOf(PlanOf(t))
    BY <2>1, CallFacts DEF OwnerOf
  <2>3. QED
    BY <2>1, <2>2 DEF IInv, RowSeen, LandedAtHome, PlanOf
<1>11. SentAtHome' /\ CompleteIsOurs'
  BY <1>2, <1>8 DEF IInv, SentAtHome, CompleteIsOurs, LandedAtHome, J!Recorded
<1>12. QED
  BY <1>1, <1>3, <1>5, <1>6, <1>7, <1>9, <1>10, <1>11 DEF IInv

\* An apply that moves on to its next await, perhaps by sending its request.
LEMMA CallGoesOn ==
    ASSUME IInv, NEW s \in Sessions, Applying(s),
           NEW k \in ApplyCall, k \in Calls, k.plan = PlanOf(s),
           calls' = [calls EXCEPT ![s] = k],
           \/ wire' = wire
           \/ /\ wire' = [wire EXCEPT ![PlanOf(s)] =
                              [at |-> "sent", session |-> s, switched |-> FALSE]]
              /\ wire[PlanOf(s)] = NoRequest /\ k.at = "answer" /\ k.task = "reread"
              /\ scope[s] = OwnerOf(PlanOf(s)),
           k.task = "reread" /\ k.at # "answer" => wire[PlanOf(s)] = NoRequest,
           k.task = "readback" => wire[PlanOf(s)].at = "landed",
           k.task = "readback" \/ k.at \in {"authorize", "answer"} =>
               \/ Compared(s)
               \/ registry[OwnerOf(PlanOf(s))] = BeforeOf(PlanOf(s))
               \/ PlanOf(s) \in Touched,
           k.at = "contacts" /\ k.owner = OwnerOf(PlanOf(s)) =>
               HasRow(k.owner, k.row) \/ LandedAtHome(PlanOf(s)) \/ PlanOf(s) \in Touched,
           UNCHANGED <<status, target, plan, registry, scope, disturbed, struck, told>>
    PROVE  IInv'
<1> DEFINE p0 == PlanOf(s)
           sent == [at |-> "sent", session |-> s, switched |-> FALSE]
<1>0. /\ p0 \in Plans /\ status[p0] = "in_flight" /\ J!Open(p0) /\ J!Live(p0)
      /\ k.task \in {"reread", "readback"} /\ k.at \in Awaits
  BY CallFacts DEF ApplyCall, Awaits, Previews, J!Live
<1>1. sent \in RequestRecord /\ sent.at = "sent" /\ sent.session = s
  BY DEF RequestRecord
<1> HIDE DEF sent
<1>2. Types'
  BY <1>0, <1>1 DEF IInv, Types, sent
<1>3. PlansAreSound' /\ J!OneOpenPerTarget'
  BY DEF IInv, PlansAreSound, J!Recorded, OwnerOf, BeforeOf, AfterOf, J!OneOpenPerTarget, J!Open
<1>4. /\ \A u \in Sessions \ {s} : calls'[u] = calls[u]
      /\ calls'[s] = k /\ k.plan = calls[s].plan
      /\ \A u \in Sessions : Applying(u)' <=> Applying(u)
  BY <1>0 DEF IInv, Types, PlanOf, Applying
<1>5. /\ \A q \in Plans \ {p0} : wire'[q] = wire[q]
      /\ \/ wire'[p0] = wire[p0]
         \/ /\ wire'[p0] = sent /\ wire[p0] = NoRequest /\ k.at = "answer" /\ k.task = "reread"
            /\ scope[s] = OwnerOf(p0)
  BY <1>0 DEF IInv, Types, sent
<1>6. \A u \in Sessions \ {s} : Applying(u) => PlanOf(u) # p0 /\ PlanOf(u) \in Plans
  BY CallFacts DEF IInv, CallsAreSound
<1>7. CallsAreSound'
  <2> SUFFICES ASSUME NEW t \in Sessions, Applying(t)'
               PROVE  /\ status[calls'[t].plan] = "in_flight"
                      /\ Unsent(t)' => wire'[calls'[t].plan] = NoRequest
                      /\ calls'[t].task = "readback" => wire'[calls'[t].plan].at = "landed"
                      /\ \A u \in Sessions \ {t} : Applying(u)' => calls'[u].plan # calls'[t].plan
    BY DEF CallsAreSound, PlanOf
  <2>1. \A u \in Sessions : Applying(u)' => Applying(u) /\ calls'[u].plan = PlanOf(u)
    BY <1>4 DEF PlanOf
  <2>2. \A u \in Sessions \ {t} : Applying(u)' => calls'[u].plan # calls'[t].plan
    BY <2>1 DEF IInv, CallsAreSound
  <2>3. CASE t = s
    BY <2>3, <2>2, <1>0, <1>1, <1>4, <1>5 DEF PlanOf, Unsent
  <2>4. CASE t # s
    <3>1. calls'[t] = calls[t] /\ PlanOf(t) # p0 /\ PlanOf(t) \in Plans /\ Applying(t)
      BY <2>4, <1>4, <1>6
    <3>2. wire'[PlanOf(t)] = wire[PlanOf(t)]
      BY <3>1, <1>5
    <3>3. QED
      BY <2>2, <3>1, <3>2 DEF IInv, CallsAreSound, PlanOf, Unsent
  <2>5. QED
    BY <2>3, <2>4
<1>8. RowsAreSound'
  BY <1>0, <1>1, <1>5 DEF IInv, RowsAreSound, J!Live, J!Open, J!OpenStatuses
<1>9. TellsAreSound'
  <2>1. told[p0] # "not_sent"
    BY <1>0 DEF IInv, TellsAreSound
  <2>2. told[p0] = "applied" => wire[p0] # NoRequest
    BY <1>0 DEF IInv, TellsAreSound, NoRequest
  <2>3. \A u \in Sessions : Applying(u)' => Applying(u) /\ PlanOf(u)' = PlanOf(u)
    BY <1>4 DEF PlanOf
  <2>4. QED
    BY <1>0, <1>5, <2>1, <2>2, <2>3 DEF IInv, TellsAreSound, J!Recorded
<1>10. Untouched'
  <2> SUFFICES ASSUME NEW p \in Plans, Working(p)'
               PROVE  registry[OwnerOf(p)] = BeforeOf(p) \/ p \in Touched
    BY DEF Untouched, OwnerOf, BeforeOf, Touched
  <2>1. CASE p # p0
    <3>1. wire'[p] = wire[p]
      BY <2>1, <1>5
    <3>2. \A u \in Sessions : Compared(u)' /\ PlanOf(u)' = p => Compared(u) /\ PlanOf(u) = p
      BY <2>1, <1>4 DEF Compared, PlanOf
    <3>3. Working(p)
      BY <3>1, <3>2 DEF Working, LandedAtHome, OwnerOf
    <3>4. QED
      BY <3>3 DEF IInv, Untouched
  <2>2. CASE p = p0
    <3>1. Compared(s)'
      <4>1. CASE wire'[p0] = sent /\ wire[p0] = NoRequest
        BY <4>1, <1>1, <1>4, <1>5 DEF Compared, NoRequest
      <4>2. CASE wire'[p0] = wire[p0] /\ wire[p0].at = "sent"
        BY <4>2, <1>0, <1>4 DEF Compared, NoRequest
      <4>3. CASE \E u \in Sessions : Compared(u)' /\ PlanOf(u)' = p
        <5>1. PICK u \in Sessions : Compared(u)' /\ PlanOf(u)' = p0
          BY <4>3, <2>2
        <5>2. Applying(u)'
          BY <5>1 DEF Compared, Applying
        <5>3. u = s
          BY <5>1, <5>2, <1>4, <1>6 DEF PlanOf
        <5>4. QED
          BY <5>1, <5>3
      <4>4. QED
        BY <4>1, <4>2, <4>3, <2>2, <1>5 DEF Working
    <3>2. Compared(s) \/ registry[OwnerOf(p0)] = BeforeOf(p0) \/ p0 \in Touched
      BY <3>1, <1>4 DEF Compared
    <3>3. CASE Compared(s) /\ Working(p0)
      BY <3>3, <2>2, <1>0 DEF IInv, Untouched
    <3>4. CASE Compared(s) /\ ~Working(p0)
      <4>1. LandedAtHome(p)
        BY <3>4, <2>2 DEF Working
      <4>2. wire'[p] = wire[p]
        BY <4>1, <2>2, <1>5 DEF LandedAtHome, NoRequest
      <4>3. ~Working(p)'
        BY <4>1, <4>2 DEF Working, LandedAtHome, OwnerOf
      <4>4. QED
        BY <4>3
    <3>5. QED
      BY <3>2, <3>3, <3>4, <2>2
  <2>3. QED
    BY <2>1, <2>2
<1>11. RowSeen'
  <2> SUFFICES ASSUME NEW t \in Sessions, HalfRead(t)',
                      calls'[t].owner = OwnerOf(calls'[t].plan)
               PROVE  \/ HasRow(calls'[t].owner, calls'[t].row)
                      \/ wire'[calls'[t].plan] = [at |-> "landed", owner |-> OwnerOf(calls'[t].plan)]
                      \/ calls'[t].plan \in Touched
    BY DEF RowSeen, HasRow, Touched, LandedAtHome, OwnerOf, PlanOf
  <2>1. CASE t = s
    <3>1. k.at = "contacts" /\ calls'[t] = k /\ k.plan = p0
      BY <2>1, <1>4 DEF HalfRead
    <3>2. wire'[p0] = wire[p0]
      BY <3>1, <1>5
    <3>3. QED
      BY <3>1, <3>2 DEF LandedAtHome
  <2>2. CASE t # s
    <3>1. HalfRead(t) /\ Applying(t) /\ calls'[t] = calls[t] /\ calls'[t].plan = PlanOf(t)
      BY <2>2, <1>4 DEF HalfRead, PlanOf
    <3>2. wire'[PlanOf(t)] = wire[PlanOf(t)]
      BY <2>2, <3>1, <1>5, <1>6
    <3>3. QED
      BY <3>1, <3>2 DEF IInv, RowSeen, LandedAtHome
  <2>3. QED
    BY <2>1, <2>2
<1>12. SentAtHome'
  BY <1>0, <1>1, <1>5 DEF IInv, SentAtHome, OwnerOf
<1>13. CompleteIsOurs'
  BY <1>0, <1>5 DEF IInv, CompleteIsOurs, LandedAtHome, OwnerOf
<1>14. QED
  BY <1>2, <1>3, <1>7, <1>8, <1>9, <1>10, <1>11, <1>12, <1>13 DEF IInv

\* A call that ends: its outcome is in the journal or not, and the user is told.
LEMMA CallEnds ==
    ASSUME IInv, NEW s \in Sessions, Applying(s),
           NEW o \in J!FinishStatuses,
           o = "rejected" => wire[PlanOf(s)] = NoRequest,
           o = "complete" => /\ wire[PlanOf(s)].at = "landed"
                             /\ LandedAtHome(PlanOf(s)) \/ PlanOf(s) \in Touched,
           calls' = [calls EXCEPT ![s] = Idle],
           status' = status \/ status' = [status EXCEPT ![PlanOf(s)] = o],
           UNCHANGED <<target, registry, scope, wire, disturbed, struck>>,
           plan' \in [Plans -> PlanRecord \cup {NoPlan}],
           \A p \in Plans : J!Recorded(p) => plan'[p] # NoPlan /\ plan'[p].body = plan[p].body,
           \A p \in Plans : plan'[p] # NoPlan => BeforeOf(p)' # AfterOf(p)',
           NEW w \in Meanings,
           w = "not_sent" => wire[PlanOf(s)] = NoRequest,
           w = "applied" => wire[PlanOf(s)].at = "landed",
           told' = told \/ told' = [told EXCEPT ![PlanOf(s)] = w]
    PROVE  IInv'
<1> DEFINE p0 == PlanOf(s)
<1>0. /\ p0 \in Plans /\ status[p0] = "in_flight" /\ J!Open(p0) /\ J!Live(p0) /\ J!Recorded(p0)
  BY CallFacts DEF J!Live
<1>1. Types'
  BY <1>0, IdleIsCall DEF IInv, Types, J!FinishStatuses, J!Statuses
<1>2. /\ \A q \in Plans \ {p0} : status'[q] = status[q] /\ told'[q] = told[q]
      /\ status'[p0] \in {"in_flight", o} /\ told'[p0] \in {told[p0], w}
  BY <1>0 DEF IInv, Types
<1>3. /\ \A q \in Plans : J!Recorded(q)' => J!Recorded(q)
      /\ \A q \in Plans : J!Recorded(q) => J!Recorded(q)'
      /\ \A q \in Plans : J!Open(q)' => J!Open(q)
  BY <1>0, <1>2 DEF J!Recorded, J!Open, J!OpenStatuses, J!FinishStatuses
<1>4. \A q \in Plans : J!Recorded(q) => OwnerOf(q)' = OwnerOf(q) /\ BeforeOf(q)' = BeforeOf(q)
  BY DEF OwnerOf, BeforeOf
<1>5. \A u \in Sessions : Applying(u)' =>
          u # s /\ calls'[u] = calls[u] /\ PlanOf(u) # p0 /\ PlanOf(u) \in Plans /\ Applying(u)
  <2>1. \A u \in Sessions : Applying(u)' => u # s /\ calls'[u] = calls[u] /\ Applying(u)
    BY DEF IInv, Types, Applying, Idle
  <2>2. QED
    BY <2>1, CallFacts DEF IInv, CallsAreSound
<1>6. PlansAreSound'
  BY <1>3, <1>4 DEF IInv, PlansAreSound
<1>7. CallsAreSound'
  <2> SUFFICES ASSUME NEW t \in Sessions, Applying(t)'
               PROVE  /\ status'[calls'[t].plan] = "in_flight"
                      /\ Unsent(t)' => wire[calls'[t].plan] = NoRequest
                      /\ calls'[t].task = "readback" => wire[calls'[t].plan].at = "landed"
                      /\ \A u \in Sessions \ {t} : Applying(u)' => calls'[u].plan # calls'[t].plan
    BY DEF CallsAreSound, PlanOf
  <2>1. calls'[t] = calls[t] /\ Applying(t) /\ status'[PlanOf(t)] = status[PlanOf(t)]
    BY <1>2, <1>5
  <2>2. QED
    BY <1>5, <2>1 DEF IInv, CallsAreSound, PlanOf, Unsent
<1>8. RowsAreSound'
  <2> SUFFICES ASSUME NEW q \in Plans
               PROVE  /\ wire[q] # NoRequest => status'[q] \in {"in_flight", "unknown", "complete"}
                      /\ wire[q].at = "sent" => status'[q] \in {"in_flight", "unknown"}
                      /\ status'[q] = "complete" => wire[q].at = "landed"
    BY DEF RowsAreSound, J!Live, J!Open, J!OpenStatuses
  <2>1. CASE q = p0
    BY <2>1, <1>2 DEF J!FinishStatuses, NoRequest
  <2>2. CASE q # p0
    BY <2>2, <1>2 DEF IInv, RowsAreSound, J!Live, J!Open, J!OpenStatuses
  <2>3. QED
    BY <2>1, <2>2
<1>9. TellsAreSound'
  <2> SUFFICES ASSUME NEW q \in Plans
               PROVE  /\ told'[q] = "not_sent" =>
                            /\ J!Recorded(q)' /\ wire[q] = NoRequest
                            /\ \A u \in Sessions : Applying(u)' => calls'[u].plan # q
                      /\ told'[q] = "applied" => wire[q].at = "landed"
    BY DEF TellsAreSound, PlanOf
  <2>1. \A u \in Sessions : Applying(u)' => Applying(u) /\ calls'[u].plan = PlanOf(u)
    BY <1>5 DEF PlanOf
  <2>2. CASE q = p0
    <3>1. told[q] # "not_sent"
      BY <2>2, <1>0 DEF IInv, TellsAreSound
    <3>2. QED
      BY <2>1, <2>2, <3>1, <1>0, <1>2, <1>3, <1>5 DEF IInv, TellsAreSound
  <2>3. CASE q # p0
    BY <2>1, <2>3, <1>2, <1>3 DEF IInv, TellsAreSound
  <2>4. QED
    BY <2>2, <2>3
<1>10. Untouched'
  <2> SUFFICES ASSUME NEW p \in Plans, Working(p)'
               PROVE  registry[OwnerOf(p)'] = BeforeOf(p)' \/ p \in Touched
    BY DEF Untouched, Touched
  <2>1. \A u \in Sessions : Compared(u)' => Compared(u) /\ calls'[u] = calls[u] /\ Applying(u)
    BY <1>5 DEF Compared, Applying
  <2>2. J!Recorded(p)
    <3>1. CASE wire[p].at = "sent"
      BY <3>1 DEF IInv, RowsAreSound, J!Open, J!OpenStatuses, J!Recorded
    <3>2. CASE \E u \in Sessions : Compared(u)' /\ PlanOf(u)' = p
      BY <3>2, <2>1, CallFacts DEF PlanOf
    <3>3. QED
      BY <3>1, <3>2 DEF Working
  <2>3. Working(p)
    BY <2>1, <2>2, <1>4 DEF Working, LandedAtHome, PlanOf
  <2>4. QED
    BY <2>2, <2>3, <1>4 DEF IInv, Untouched
<1>11. J!OneOpenPerTarget'
  BY <1>3 DEF IInv, J!OneOpenPerTarget
<1>12. CompleteIsOurs'
  <2> SUFFICES ASSUME NEW q \in Plans, status'[q] = "complete"
               PROVE  wire[q] = [at |-> "landed", owner |-> OwnerOf(q)'] \/ q \in Touched
    BY DEF CompleteIsOurs, LandedAtHome, Touched
  <2>1. J!Recorded(q) /\ OwnerOf(q)' = OwnerOf(q)
    BY <1>3, <1>4 DEF J!Recorded
  <2>2. CASE q = p0
    BY <2>1, <2>2, <1>2 DEF LandedAtHome
  <2>3. CASE q # p0
    BY <2>1, <2>3, <1>2 DEF IInv, CompleteIsOurs, LandedAtHome, Touched
  <2>4. QED
    BY <2>2, <2>3
<1>13. RowSeen'
  <2> SUFFICES ASSUME NEW t \in Sessions, HalfRead(t)',
                      calls'[t].owner = plan'[calls'[t].plan].body.owner
               PROVE  \/ HasRow(calls'[t].owner, calls'[t].row)
                      \/ wire[calls'[t].plan] =
                            [at |-> "landed", owner |-> plan'[calls'[t].plan].body.owner]
                      \/ calls'[t].plan \in Touched
    BY DEF RowSeen, HasRow, Touched, LandedAtHome, OwnerOf, PlanOf
  <2>1. calls'[t] = calls[t] /\ HalfRead(t) /\ Applying(t)
    BY <1>5 DEF HalfRead
  <2>2. plan'[PlanOf(t)].body.owner = OwnerOf(PlanOf(t))
    BY <2>1, CallFacts DEF OwnerOf
  <2>3. QED
    BY <2>1, <2>2 DEF IInv, RowSeen, LandedAtHome, PlanOf
<1>14. SentAtHome'
  BY <1>4 DEF IInv, SentAtHome, RowsAreSound, J!Open, J!OpenStatuses, J!Recorded
<1>15. QED
  BY <1>1, <1>6, <1>7, <1>8, <1>9, <1>10, <1>11, <1>12, <1>13, <1>14 DEF IInv

\* HomeTax or others act: requests that were sent are answered, and whoever has looked
\* at a record that changes is touched.
LEMMA WorldChanges ==
    ASSUME IInv, UNCHANGED <<status, target, plan, calls, told>>,
           wire' \in [Plans -> RequestRecord \cup {NoRequest}],
           registry' \in [Owners -> Records], scope' \in [Sessions -> Owners],
           disturbed' \in SUBSET Plans, struck' \in SUBSET Plans,
           Touched \subseteq Touched',
           \A p \in Plans : \/ wire'[p] = wire[p]
                            \/ wire[p].at = "sent" /\ wire'[p].at \in {"sent", "landed", "refused"},
           SentAtHome',
           \A p \in Plans : Exposed(p) =>
               \/ p \in Touched' \/ LandedAtHome(p)'
               \/ registry'[OwnerOf(p)] = registry[OwnerOf(p)]
    PROVE  IInv'
<1>1. Types'
  BY DEF IInv, Types
<1>2. PlansAreSound' /\ J!OneOpenPerTarget'
  BY DEF IInv, PlansAreSound, J!Recorded, OwnerOf, BeforeOf, AfterOf, J!OneOpenPerTarget, J!Open
<1>3. \A s \in Sessions : Applying(s) => PlanOf(s) \in Plans
  BY CallFacts
<1>4. CallsAreSound'
  BY <1>3 DEF IInv, CallsAreSound, PlanOf, NoRequest, Applying, Unsent
<1>5. RowsAreSound'
  BY DEF IInv, RowsAreSound, J!Live, J!Open, J!OpenStatuses, NoRequest
<1>6. TellsAreSound'
  BY DEF IInv, TellsAreSound, J!Recorded, PlanOf, NoRequest, Applying
<1>7. \A p \in Plans : LandedAtHome(p) => LandedAtHome(p)'
  BY DEF LandedAtHome, OwnerOf
<1>8. Untouched'
  <2> SUFFICES ASSUME NEW p \in Plans, Working(p)', p \notin Touched'
               PROVE  registry'[OwnerOf(p)] = BeforeOf(p)
    BY DEF Untouched, OwnerOf, BeforeOf
  <2>1. ~LandedAtHome(p)'
    BY DEF Working, LandedAtHome
  <2>2. Working(p)
    BY <1>7, <2>1 DEF Working, Compared, PlanOf
  <2>3. QED
    BY <2>1, <2>2, WorkingIsExposed DEF IInv, Untouched
<1>9. RowSeen'
  <2> SUFFICES ASSUME NEW t \in Sessions, HalfRead(t)', calls[t].owner = OwnerOf(PlanOf(t)),
                      PlanOf(t) \notin Touched',
                      wire'[PlanOf(t)] # [at |-> "landed", owner |-> OwnerOf(PlanOf(t))]
               PROVE  HasRow(calls[t].owner, calls[t].row)'
    BY DEF RowSeen, PlanOf, OwnerOf, LandedAtHome
  <2>1. HalfRead(t) /\ PlanOf(t) \in Plans
    BY <1>3 DEF HalfRead, Applying
  <2>2. PICK p \in Plans : p = PlanOf(t)
    BY <2>1
  <2>3. ~LandedAtHome(p)' /\ p \notin Touched'
    BY <2>2 DEF LandedAtHome, OwnerOf, PlanOf
  <2>4. ~LandedAtHome(p)
    BY <1>7, <2>3
  <2>5. registry'[OwnerOf(p)] = registry[OwnerOf(p)]
    BY <2>1, <2>2, <2>3, <2>4, HalfReadIsExposed
  <2>6. HasRow(calls[t].owner, calls[t].row)
    BY <2>1, <2>2, <2>3, <2>4 DEF IInv, RowSeen
  <2>7. QED
    BY <2>2, <2>5, <2>6 DEF HasRow
<1>10. CompleteIsOurs'
  <2> SUFFICES ASSUME NEW p \in Plans, status[p] = "complete"
               PROVE  LandedAtHome(p)' \/ p \in Touched'
    BY DEF CompleteIsOurs, Touched
  <2>1. LandedAtHome(p) \/ p \in Touched
    BY DEF IInv, CompleteIsOurs, Touched
  <2>2. QED
    BY <1>7, <2>1
<1>11. QED
  BY <1>1, <1>2, <1>4, <1>5, <1>6, <1>8, <1>9, <1>10 DEF IInv

-----------------------------------------------------------------------------
\* A preview that reads on.
LEMMA PreviewReads ==
    ASSUME IInv,
           UNCHANGED <<status, target, registry, scope, wire, disturbed, struck, plan, told>>,
           calls' \in [Sessions -> Calls],
           \A u \in Sessions : calls'[u] = calls[u] \/ (~Applying(u) /\ ~Applying(u)')
    PROVE  IInv'
<1>1. plan' \in [Plans -> PlanRecord \cup {NoPlan}] /\ told' \in [Plans -> Meanings]
  BY DEF IInv, Types
<1>2. /\ \A p \in Plans : J!Recorded(p) => plan'[p] # NoPlan /\ plan'[p].body = plan[p].body
      /\ \A p \in Plans : plan'[p] # NoPlan => BeforeOf(p)' # AfterOf(p)'
  BY DEF IInv, PlansAreSound, BeforeOf, AfterOf
<1>3. \A p \in Plans : told'[p] \in {told[p], "nothing"}
  OBVIOUS
<1>4. QED
  BY <1>1, <1>2, <1>3, PreviewsChange

\* preview_create, preview_update, preview_delete begin to read.
LEMMA PreviewKeeps ==
    ASSUME IInv, NEW s \in Sessions, NEW create \in BOOLEAN, Preview(s, create)
    PROVE  IInv'
<1>1. scope[s] \in Owners
  BY DEF IInv, Types
<1>2. [at |-> "locate", task |-> "preview", create |-> create,
       owner |-> scope[s], row |-> Absent] \in Calls
  BY <1>1 DEF PreviewCall, Previews, Reads, Calls
<1>3. calls' \in [Sessions -> Calls]
  BY <1>2 DEF Preview, IInv, Types
<1>4. \A u \in Sessions : calls'[u] = calls[u] \/ (~Applying(u) /\ ~Applying(u)')
  BY DEF Preview, IInv, Types, Applying, Idle
<1>5. UNCHANGED <<status, target, registry, scope, wire, disturbed, struck, plan, told>>
  BY DEF Preview, journalVars, remoteVars
<1>6. QED
  BY <1>3, <1>4, <1>5, PreviewReads

\* What the manager forgets of a preview keeps the subject of its attempt.
LEMMA ForgottenKeepsSubject ==
    ASSUME IInv, NEW p \in Plans, plan[p].at = "live"
    PROVE  /\ Forget(p) \in PlanRecord \cup {NoPlan}
           /\ J!Recorded(p) => Forget(p) # NoPlan
           /\ Forget(p) # NoPlan => Forget(p).body = plan[p].body
           /\ plan[p] # NoPlan
<1>1. plan[p].body \in Body /\ plan[p] # NoPlan
  BY DEF IInv, Types, PlanRecord, NoPlan
<1>2. QED
  BY <1>1 DEF Forget, PlanRecord, NoPlan

\* The five minutes of a preview pass.
LEMMA ExpireKeeps ==
    ASSUME IInv, NEW p \in Plans, Expire(p)
    PROVE  IInv'
<1>1. /\ plan[p].at = "live" /\ plan' = [plan EXCEPT ![p] = Forget(p)]
      /\ UNCHANGED <<status, target, calls, registry, scope, wire, disturbed, struck, told>>
  BY DEF Expire, journalVars, remoteVars
<1>2. plan' \in [Plans -> PlanRecord \cup {NoPlan}]
  BY <1>1, ForgottenKeepsSubject DEF IInv, Types
<1>3. \A q \in Plans : plan'[q] = plan[q] \/ (q = p /\ plan'[q] = Forget(q))
  BY <1>1 DEF IInv, Types
<1>4. \A q \in Plans : J!Recorded(q) => plan'[q] # NoPlan /\ plan'[q].body = plan[q].body
  BY <1>1, <1>3, ForgottenKeepsSubject DEF IInv, PlansAreSound
<1>5. \A q \in Plans : plan'[q] # NoPlan => BeforeOf(q)' # AfterOf(q)'
  BY <1>1, <1>3, ForgottenKeepsSubject DEF IInv, PlansAreSound, BeforeOf, AfterOf
<1>6. told' \in [Plans -> Meanings] /\ \A q \in Plans : told'[q] \in {told[q], "nothing"}
  BY <1>1 DEF IInv, Types
<1>7. calls' \in [Sessions -> Calls]
  BY <1>1 DEF IInv, Types
<1>8. QED
  BY <1>1, <1>2, <1>4, <1>5, <1>6, <1>7, PreviewsChange

\* A session that is lost takes its call along, wherever that stands.
LEMMA LoseSessionKeeps ==
    ASSUME IInv, NEW s \in Sessions, LoseSession(s)
    PROVE  IInv'
<1>1. \A q \in Plans : plan'[q] = plan[q] \/ (plan[q].at = "live" /\ plan'[q] = Forget(q))
  BY DEF LoseSession, PlansOf
<1>2. plan' \in [Plans -> PlanRecord \cup {NoPlan}]
  BY ForgottenKeepsSubject DEF LoseSession, PlansOf, IInv, Types
<1>3. \A q \in Plans : J!Recorded(q) => plan'[q] # NoPlan /\ plan'[q].body = plan[q].body
  BY <1>1, ForgottenKeepsSubject DEF IInv, PlansAreSound
<1>4. \A q \in Plans : plan'[q] # NoPlan => BeforeOf(q)' # AfterOf(q)'
  BY <1>1, ForgottenKeepsSubject DEF IInv, PlansAreSound, BeforeOf, AfterOf
<1>5. /\ UNCHANGED <<status, target, registry, scope, wire, disturbed, struck, told>>
      /\ calls' = [calls EXCEPT ![s] = Idle]
  BY DEF LoseSession, journalVars, remoteVars
<1>6. told' \in [Plans -> Meanings] /\ \A q \in Plans : told'[q] \in {told[q], "nothing"}
  BY <1>5 DEF IInv, Types
<1>7. CASE ~Applying(s)
  <2>1. calls' \in [Sessions -> Calls]
    BY <1>5, IdleIsCall DEF IInv, Types
  <2>2. \A u \in Sessions : calls'[u] = calls[u] \/ (~Applying(u) /\ ~Applying(u)')
    BY <1>5, <1>7 DEF IInv, Types, Applying, Idle
  <2>3. QED
    BY <1>2, <1>3, <1>4, <1>5, <1>6, <2>1, <2>2, PreviewsChange
<1>8. CASE Applying(s)
  <2>1. "unknown" \in J!FinishStatuses /\ "nothing" \in Meanings
    BY DEF J!FinishStatuses, Meanings
  <2>2. QED
    BY <1>2, <1>3, <1>4, <1>5, <1>8, <2>1, CallEnds
<1>9. QED
  BY <1>7, <1>8

-----------------------------------------------------------------------------
\* What begin has checked when it admits an attempt (write_journal.py:58-138).
LEMMA AdmittedFacts ==
    ASSUME NEW p \in Plans, BeginReply(p) = "started"
    PROVE  /\ ~J!Recorded(p)
           /\ \A q \in Plans \ {p} : J!Open(q) => target[q] # OwnerOf(p)
BY DEF BeginReply, J!BeginReply, J!TargetOpen

\* begin lets an apply start (counterparty_changes.py:317-330).
LEMMA StartKeeps ==
    ASSUME IInv, NEW s \in Sessions, NEW p \in Plans, Start(s, p)
    PROVE  IInv'
<1> DEFINE k == [at |-> "locate", task |-> "reread", plan |-> p,
                 owner |-> scope[s], row |-> Absent]
<1>1. plan[p] # NoPlan
  BY DEF Start, Applicable, NoPlan
<1>2. OwnerOf(p) \in Owners /\ scope[s] \in Owners
  BY <1>1, PlanFacts DEF IInv, Types
<1>3. /\ ~J!Recorded(p)
      /\ \A q \in Plans \ {p} : J!Open(q) => target[q] # OwnerOf(p)
  BY AdmittedFacts DEF Start
<1>4. k \in ApplyCall /\ k \in Calls /\ k.task = "reread" /\ k.at = "locate" /\ k.plan = p
  BY <1>2 DEF ApplyCall, Awaits, Previews, Reads, Calls
<1>5. /\ status' = [status EXCEPT ![p] = "in_flight"]
      /\ target' = [target EXCEPT ![p] = OwnerOf(p)]
      /\ calls' = [calls EXCEPT ![s] = k]
      /\ calls[s] = Idle
      /\ UNCHANGED <<plan, registry, scope, wire, disturbed, struck, told>>
  BY DEF Start, Reread, Applicable, J!InsertAttempt, remoteVars
<1> HIDE DEF k
<1>6. /\ \A q \in Plans \ {p} : status'[q] = status[q] /\ target'[q] = target[q]
      /\ status'[p] = "in_flight" /\ target'[p] = OwnerOf(p)
  BY <1>5 DEF IInv, Types
<1>7. /\ \A u \in Sessions \ {s} : calls'[u] = calls[u]
      /\ calls'[s] = k /\ ~Applying(s)
      /\ \A u \in Sessions \ {s} : Applying(u)' => Applying(u)
  BY <1>5 DEF IInv, Types, Applying, Idle
<1>8. Types'
  BY <1>2, <1>4, <1>5 DEF IInv, Types, J!Statuses
<1>9. wire[p] = NoRequest
  BY <1>3 DEF IInv, RowsAreSound, J!Live, J!Recorded
<1>10. \A u \in Sessions : Applying(u) => u # s /\ PlanOf(u) # p /\ PlanOf(u) \in Plans
  BY <1>3, <1>7, CallFacts
<1>11. PlansAreSound'
  BY <1>1, <1>5, <1>6 DEF IInv, PlansAreSound, J!Recorded, OwnerOf, BeforeOf, AfterOf
<1>12. CallsAreSound'
  <2>1. \A u \in Sessions \ {s} : Applying(u)' =>
            calls'[u].plan = PlanOf(u) /\ calls'[u].plan # p /\ PlanOf(u) \in Plans
    BY <1>7, <1>10 DEF PlanOf
  <2> SUFFICES ASSUME NEW t \in Sessions, Applying(t)'
               PROVE  /\ status'[calls'[t].plan] = "in_flight"
                      /\ Unsent(t)' => wire[calls'[t].plan] = NoRequest
                      /\ calls'[t].task = "readback" => wire[calls'[t].plan].at = "landed"
                      /\ \A u \in Sessions \ {t} : Applying(u)' => calls'[u].plan # calls'[t].plan
    BY <1>5 DEF CallsAreSound, PlanOf
  <2>2. CASE t = s
    BY <2>2, <2>1, <1>4, <1>6, <1>7, <1>9
  <2>3. CASE t # s
    <3>1. Applying(t) /\ calls'[t] = calls[t] /\ calls'[t].plan = PlanOf(t)
      BY <2>3, <2>1, <1>7
    <3>2. status'[PlanOf(t)] = status[PlanOf(t)]
      BY <3>1, <2>1, <2>3, <1>6
    <3>3. \A u \in Sessions \ {t} : Applying(u)' => calls'[u].plan # PlanOf(t)
      BY <2>1, <2>3, <3>1, <1>4, <1>7 DEF IInv, CallsAreSound
    <3>4. QED
      BY <3>1, <3>2, <3>3 DEF IInv, CallsAreSound, PlanOf, Unsent
  <2>4. QED
    BY <2>2, <2>3
<1>13. RowsAreSound'
  BY <1>5, <1>6, <1>9 DEF IInv, RowsAreSound, J!Live, J!Open, NoRequest
<1>14. TellsAreSound'
  <2>1. told[p] # "not_sent"
    BY <1>3 DEF IInv, TellsAreSound
  <2>2. \A u \in Sessions : Applying(u)' => calls'[u].plan = p \/ (Applying(u) /\ calls'[u].plan = PlanOf(u))
    BY <1>4, <1>7 DEF PlanOf
  <2>3. \A q \in Plans : J!Recorded(q) => J!Recorded(q)'
    BY <1>6 DEF J!Recorded
  <2>4. QED
    BY <1>5, <2>1, <2>2, <2>3 DEF IInv, TellsAreSound, PlanOf
<1>15. Untouched'
  <2>1. \A q \in Plans : Working(q)' => Working(q)
    <3> SUFFICES ASSUME NEW q \in Plans, Working(q)' PROVE Working(q)
      OBVIOUS
    <3>1. \A u \in Sessions : Compared(u)' => Compared(u) /\ PlanOf(u)' = PlanOf(u)
      BY <1>4, <1>7 DEF Compared, PlanOf
    <3>2. QED
      BY <1>5, <3>1 DEF Working, LandedAtHome, OwnerOf
  <2>2. QED
    BY <1>5, <2>1 DEF IInv, Untouched, OwnerOf, BeforeOf, Touched
<1>16. RowSeen'
  <2>1. \A u \in Sessions : HalfRead(u)' => HalfRead(u) /\ calls'[u] = calls[u]
    BY <1>4, <1>7 DEF HalfRead
  <2>2. QED
    BY <1>5, <2>1 DEF IInv, RowSeen, HasRow, PlanOf, OwnerOf, LandedAtHome, Touched
<1>17. J!OneOpenPerTarget'
  BY <1>3, <1>6 DEF IInv, J!OneOpenPerTarget, J!Open
<1>18. CompleteIsOurs' /\ SentAtHome'
  BY <1>5, <1>6 DEF IInv, CompleteIsOurs, SentAtHome, OwnerOf, LandedAtHome
<1>19. QED
  BY <1>8, <1>11, <1>12, <1>13, <1>14, <1>15, <1>16, <1>17, <1>18 DEF IInv

\* begin answers at once (counterparty_changes.py:317-330): complete and rejected are
\* final, so what the user is told is true.
LEMMA RefuseKeeps ==
    ASSUME IInv, NEW s \in Sessions, NEW p \in Plans, Refuse(s, p)
    PROVE  IInv'
<1>1. /\ UNCHANGED <<status, target, plan, calls, registry, scope, wire, disturbed, struck>>
      /\ \E w \in {"applied", "not_sent", "nothing"} :
            /\ told' = [told EXCEPT ![p] = w]
            /\ w = "applied" => BeginReply(p) = "complete"
            /\ w = "not_sent" => BeginReply(p) = "WRITE_REJECTED"
  BY DEF Refuse, Reply, journalVars, remoteVars
<1>2. PICK w \in {"applied", "not_sent", "nothing"} :
            /\ told' = [told EXCEPT ![p] = w]
            /\ w = "applied" => BeginReply(p) = "complete"
            /\ w = "not_sent" => BeginReply(p) = "WRITE_REJECTED"
  BY <1>1
<1>3. w = "applied" => status[p] = "complete"
  BY <1>2 DEF BeginReply, J!BeginReply
<1>4. w = "not_sent" => status[p] = "rejected"
  BY <1>2 DEF BeginReply, J!BeginReply, J!Recorded, J!Open, J!OpenStatuses, IInv, Types,
              J!Statuses, J!FinishStatuses
<1>5. told' \in [Plans -> Meanings]
  BY <1>2 DEF IInv, Types, Meanings
<1>6. \A q \in Plans : told'[q] = told[q] \/ (q = p /\ told'[q] = w)
  BY <1>2 DEF IInv, Types
<1>7. TellsAreSound'
  <2>1. w = "applied" => wire[p].at = "landed"
    BY <1>3 DEF IInv, RowsAreSound
  <2>2. w = "not_sent" => J!Recorded(p) /\ wire[p] = NoRequest
                             /\ \A u \in Sessions : Applying(u) => PlanOf(u) # p
    BY <1>4 DEF IInv, RowsAreSound, J!Live, J!Recorded, CallsAreSound
  <2>3. QED
    BY <1>1, <1>6, <2>1, <2>2 DEF IInv, TellsAreSound, J!Recorded, PlanOf, Applying
<1>8. Types' /\ PlansAreSound' /\ CallsAreSound' /\ RowsAreSound'
  BY <1>1, <1>5 DEF IInv, Types, PlansAreSound, CallsAreSound, RowsAreSound, J!Recorded, J!Live,
     J!Open, OwnerOf, BeforeOf, AfterOf, PlanOf, Applying, Unsent
<1>9. Untouched' /\ J!OneOpenPerTarget' /\ CompleteIsOurs'
  BY <1>1 DEF IInv, Untouched, Working, LandedAtHome, Compared, PlanOf, OwnerOf, BeforeOf,
     Touched, J!OneOpenPerTarget, J!Open, CompleteIsOurs
<1>10. RowSeen' /\ SentAtHome'
  BY <1>1 DEF IInv, RowSeen, HalfRead, Applying, HasRow, SentAtHome, LandedAtHome, PlanOf,
     OwnerOf, Touched
<1>11. QED
  BY <1>7, <1>8, <1>9, <1>10 DEF IInv

-----------------------------------------------------------------------------
\* The except clause (counterparty_changes.py:366-382): rejected only if dispatched was
\* not set, and then nothing was sent.
LEMMA RaiseKeeps ==
    ASSUME IInv, NEW s \in Sessions, Applying(s), Raise(s)
    PROVE  IInv'
<1> DEFINE p0 == PlanOf(s)
           o == IF Dispatched(s) THEN "unknown" ELSE "rejected"
           w == IF Dispatched(s) THEN "nothing" ELSE "not_sent"
<1>1. o \in J!FinishStatuses /\ w \in Meanings /\ o # "complete" /\ w # "applied"
  BY DEF J!FinishStatuses, Meanings
<1>2. ~Dispatched(s) => wire[p0] = NoRequest
  BY DEF Dispatched, IInv, CallsAreSound, Unsent, Applying
<1>3. (o = "rejected" => wire[p0] = NoRequest) /\ (w = "not_sent" => wire[p0] = NoRequest)
  BY <1>2
<1>4. /\ J!Finish(p0, o) \/ UNCHANGED journalVars
      /\ calls' = [calls EXCEPT ![s] = Idle]
      /\ told' = [told EXCEPT ![p0] = w]
      /\ UNCHANGED <<remoteVars, plan>>
  BY DEF Raise, Reply
<1> HIDE DEF o, w
<1>5. target' = target /\ (status' = status \/ status' = [status EXCEPT ![p0] = o])
  BY <1>4 DEF J!Finish, journalVars
<1>6. plan' \in [Plans -> PlanRecord \cup {NoPlan}]
  BY <1>4 DEF IInv, Types
<1>7. /\ \A q \in Plans : J!Recorded(q) => plan'[q] # NoPlan /\ plan'[q].body = plan[q].body
      /\ \A q \in Plans : plan'[q] # NoPlan => BeforeOf(q)' # AfterOf(q)'
  BY <1>4 DEF IInv, PlansAreSound, BeforeOf, AfterOf
<1>8. UNCHANGED <<target, registry, scope, wire, disturbed, struck>>
  BY <1>4, <1>5 DEF remoteVars
<1>9. QED
  BY <1>1, <1>3, <1>4, <1>5, <1>6, <1>7, <1>8, CallEnds

\* A call is a preview or an apply.
LEMMA KindsOfCall ==
    ASSUME IInv, NEW s \in Sessions, calls[s] # Idle
    PROVE  /\ Previewing(s) => calls[s] \in PreviewCall /\ ~Applying(s)
           /\ ~Previewing(s) => calls[s] \in ApplyCall /\ Applying(s)
BY DEF IInv, Types, Calls, Previewing, Applying, PreviewCall, ApplyCall

\* What the next await of a call changes of its record.
LEMMA CallMoves ==
    ASSUME IInv, NEW s \in Sessions, NEW a \in Awaits, NEW o \in Owners,
           NEW r \in Values \cup {Absent}
    PROVE  /\ [calls EXCEPT ![s].at = a] = [calls EXCEPT ![s] = [calls[s] EXCEPT !.at = a]]
           /\ [calls EXCEPT ![s].at = a, ![s].owner = o] =
                 [calls EXCEPT ![s] = [calls[s] EXCEPT !.at = a, !.owner = o]]
           /\ [calls EXCEPT ![s].at = a, ![s].row = r] =
                 [calls EXCEPT ![s] = [calls[s] EXCEPT !.at = a, !.row = r]]
           /\ [calls EXCEPT ![s].at = a, ![s].task = "readback"] =
                 [calls EXCEPT ![s] = [calls[s] EXCEPT !.at = a, !.task = "readback"]]
BY DEF IInv, Types

\* A preview moves on to its next await.
LEMMA PreviewMoves ==
    ASSUME IInv, NEW s \in Sessions, Previewing(s), calls[s] # Idle,
           NEW a \in Previews, NEW o \in Owners, NEW r \in Values \cup {Absent},
           \/ a # "contacts" /\ calls' = [calls EXCEPT ![s].at = a]
           \/ a # "contacts" /\ calls' = [calls EXCEPT ![s].at = a, ![s].owner = o]
           \/ r \in Values /\ calls' = [calls EXCEPT ![s].at = a, ![s].row = r],
           UNCHANGED <<journalVars, remoteVars, plan, told>>
    PROVE  IInv'
<1>1. calls[s] \in PreviewCall /\ ~Applying(s) /\ a \in Awaits
  BY KindsOfCall DEF Awaits, Previews, Reads
<1>2. /\ a # "contacts" => [calls[s] EXCEPT !.at = a] \in PreviewCall \cap Calls
      /\ a # "contacts" => [calls[s] EXCEPT !.at = a, !.owner = o] \in PreviewCall \cap Calls
      /\ r \in Values => [calls[s] EXCEPT !.at = a, !.row = r] \in PreviewCall \cap Calls
  BY <1>1 DEF PreviewCall, Calls
<1>3. PICK c \in PreviewCall \cap Calls : calls' = [calls EXCEPT ![s] = c]
  <2> DEFINE Moved(c) == calls' = [calls EXCEPT ![s] = c]
  <2>1. CASE a # "contacts" /\ calls' = [calls EXCEPT ![s].at = a]
    <3>1. Moved([calls[s] EXCEPT !.at = a])
      BY <1>1, <2>1, CallMoves
    <3>2. QED
      BY <1>2, <2>1, <3>1
  <2>2. CASE a # "contacts" /\ calls' = [calls EXCEPT ![s].at = a, ![s].owner = o]
    <3>1. Moved([calls[s] EXCEPT !.at = a, !.owner = o])
      BY <1>1, <2>2, CallMoves
    <3>2. QED
      BY <1>2, <2>2, <3>1
  <2>3. CASE r \in Values /\ calls' = [calls EXCEPT ![s].at = a, ![s].row = r]
    <3>1. Moved([calls[s] EXCEPT !.at = a, !.row = r])
      BY <1>1, <2>3, CallMoves
    <3>2. QED
      BY <1>2, <2>3, <3>1
  <2>4. QED
    BY <2>1, <2>2, <2>3
<1>4. calls' \in [Sessions -> Calls]
  BY <1>3 DEF IInv, Types
<1>5. calls'[s] = c /\ c.task = "preview"
  BY <1>3 DEF IInv, Types, PreviewCall
<1>6. \A u \in Sessions : calls'[u] = calls[u] \/ (~Applying(u) /\ ~Applying(u)')
  BY <1>1, <1>3, <1>5 DEF IInv, Types, Applying
<1>7. QED
  BY <1>4, <1>6, PreviewReads DEF journalVars, remoteVars

\* The error of a preview.
LEMMA GiveUpKeeps ==
    ASSUME IInv, NEW s \in Sessions, calls[s] # Idle, GiveUp(s)
    PROVE  IInv'
<1>1. ~Applying(s)
  BY KindsOfCall DEF GiveUp
<1>2. calls' \in [Sessions -> Calls]
  BY IdleIsCall DEF GiveUp, IInv, Types
<1>3. \A u \in Sessions : calls'[u] = calls[u] \/ (~Applying(u) /\ ~Applying(u)')
  BY <1>1 DEF GiveUp, IInv, Types, Applying, Idle
<1>4. QED
  BY <1>2, <1>3, PreviewReads DEF GiveUp, journalVars, remoteVars

\* _prepare: a fresh change_id has no row.
LEMMA PrepareKeeps ==
    ASSUME IInv, NEW s \in Sessions, calls[s] # Idle, NEW p \in Plans, NEW o \in Owners,
           NEW seen \in Records, Prepare(s, p, o, seen)
    PROVE  IInv'
<1>1. ~Applying(s)
  BY KindsOfCall DEF Prepare
<1>2. PICK after \in Records \ {seen} :
          plan' = [plan EXCEPT ![p] =
                      [at |-> "live", session |-> s,
                       body |-> [owner |-> o, before |-> seen, after |-> after]]]
  BY DEF Prepare
<1>3. PICK b \in Body : b.before # b.after
          /\ plan' = [plan EXCEPT ![p] = [at |-> "live", session |-> s, body |-> b]]
  BY <1>2 DEF Body
<1>4. [at |-> "live", session |-> s, body |-> b] \in PlanRecord
  BY DEF PlanRecord
<1>5. plan' \in [Plans -> PlanRecord \cup {NoPlan}]
  BY <1>3, <1>4 DEF IInv, Types
<1>6. ~J!Recorded(p)
  BY DEF Prepare, IInv, PlansAreSound
<1>7. /\ \A q \in Plans \ {p} : plan'[q] = plan[q]
      /\ plan'[p].body = b
  BY <1>3 DEF IInv, Types
<1>8. \A q \in Plans : J!Recorded(q) => plan'[q] # NoPlan /\ plan'[q].body = plan[q].body
  BY <1>6, <1>7 DEF IInv, PlansAreSound
<1>9. \A q \in Plans : plan'[q] # NoPlan => BeforeOf(q)' # AfterOf(q)'
  BY <1>3, <1>7 DEF IInv, PlansAreSound, BeforeOf, AfterOf
<1>10. told' \in [Plans -> Meanings] /\ \A q \in Plans : told'[q] \in {told[q], "nothing"}
  BY DEF Prepare, IInv, Types, Meanings
<1>11. /\ calls' \in [Sessions -> Calls]
       /\ \A u \in Sessions : calls'[u] = calls[u] \/ (~Applying(u) /\ ~Applying(u)')
  BY <1>1, IdleIsCall DEF Prepare, IInv, Types, Applying, Idle
<1>12. UNCHANGED <<status, target, registry, scope, wire, disturbed, struck>>
  BY DEF Prepare, journalVars, remoteVars
<1>13. QED
  BY <1>5, <1>8, <1>9, <1>10, <1>11, <1>12, PreviewsChange

-----------------------------------------------------------------------------
\* What is seen in the confirmed book is what is there.
Seen(s, o, seen) ==
    o = OwnerOf(PlanOf(s)) =>
        registry[o] = seen \/ LandedAtHome(PlanOf(s)) \/ PlanOf(s) \in Touched

\* The record is still the one the preview showed (counterparty_changes.py:331-339).
LEMMA CompareKeeps ==
    ASSUME IInv, NEW s \in Sessions, calls[s].at \in {"list", "preflight", "contacts"},
           NEW o \in Owners, NEW seen \in Records, Seen(s, o, seen), Compare(s, o, seen)
    PROVE  IInv'
<1>1. Applying(s) /\ calls[s].task = "reread" /\ Unsent(s)
  BY DEF Compare, Applying, Unsent
<1>2. CASE /\ Stable(s, o, seen)
           /\ calls' = [calls EXCEPT ![s].at = "authorize", ![s].row = Absent]
           /\ UNCHANGED <<journalVars, remoteVars, plan, told>>
  <2>1. "authorize" \in Awaits /\ Absent \in Values \cup {Absent} /\ calls[s] \in ApplyCall
    BY <1>1, CallFacts DEF Awaits, Previews, Reads
  <2>2. PICK k : k = [calls[s] EXCEPT !.at = "authorize", !.row = Absent]
    OBVIOUS
  <2>3. calls' = [calls EXCEPT ![s] = k]
    BY <1>2, <2>1, <2>2, CallMoves
  <2>4. k \in ApplyCall /\ k \in Calls /\ k.plan = PlanOf(s) /\ k.at = "authorize"
           /\ k.task = "reread"
    BY <1>1, <2>1, <2>2 DEF PlanOf, ApplyCall, Calls, Awaits, Previews, Reads
  <2>5. wire[PlanOf(s)] = NoRequest
    BY <1>1 DEF IInv, CallsAreSound
  <2>6. registry[OwnerOf(PlanOf(s))] = BeforeOf(PlanOf(s)) \/ PlanOf(s) \in Touched
    BY <1>2, <2>5 DEF Stable, Seen, LandedAtHome, NoRequest
  <2>7. UNCHANGED <<status, target, plan, registry, scope, wire, disturbed, struck, told>>
    BY <1>2 DEF journalVars, remoteVars
  <2>8. QED
    BY <1>1, <2>3, <2>4, <2>5, <2>6, <2>7, CallGoesOn
<1>3. CASE Raise(s)
  BY <1>1, <1>3, RaiseKeeps
<1>4. QED
  BY <1>2, <1>3 DEF Compare

\* The journal records complete (counterparty_changes.py:347-365). If the write landed
\* elsewhere, the record was as before, so it cannot pass for the one confirmed.
LEMMA VerifyKeeps ==
    ASSUME IInv, NEW s \in Sessions,
           NEW o \in Owners, NEW seen \in Records, Seen(s, o, seen), Verify(s, o, seen)
    PROVE  IInv'
<1> DEFINE p0 == PlanOf(s)
<1>1. Applying(s) /\ Compared(s) /\ calls[s].task = "readback"
  BY DEF Verify, Compared, Applying
<1>2. CASE /\ Verified(s, o, seen)
           /\ J!Finish(p0, "complete")
           /\ calls' = [calls EXCEPT ![s] = Idle]
           /\ Reply(p0, "applied")
           /\ UNCHANGED <<remoteVars, plan>>
  <2>1. p0 \in Plans /\ plan[p0] # NoPlan
    BY <1>1, CallFacts
  <2>2. wire[p0].at = "landed"
    BY <1>1 DEF IInv, CallsAreSound
  <2>3. LandedAtHome(p0) \/ p0 \in Touched
    <3> SUFFICES ASSUME ~LandedAtHome(p0), p0 \notin Touched PROVE FALSE
      OBVIOUS
    <3>1. Working(p0)
      BY <1>1 DEF Working
    <3>2. registry[OwnerOf(p0)] = BeforeOf(p0)
      BY <2>1, <3>1 DEF IInv, Untouched
    <3>3. registry[OwnerOf(p0)] = AfterOf(p0)
      BY <1>2 DEF Verified, Seen
    <3>4. QED
      BY <2>1, <3>2, <3>3 DEF IInv, PlansAreSound
  <2>4. /\ target' = target /\ status' = [status EXCEPT ![p0] = "complete"]
        /\ told' = [told EXCEPT ![p0] = "applied"]
    BY <1>2 DEF J!Finish, Reply
  <2>5. plan' \in [Plans -> PlanRecord \cup {NoPlan}]
    BY <1>2 DEF IInv, Types
  <2>6. /\ \A q \in Plans : J!Recorded(q) => plan'[q] # NoPlan /\ plan'[q].body = plan[q].body
        /\ \A q \in Plans : plan'[q] # NoPlan => BeforeOf(q)' # AfterOf(q)'
    BY <1>2 DEF IInv, PlansAreSound, BeforeOf, AfterOf
  <2>7. UNCHANGED <<target, registry, scope, wire, disturbed, struck>>
    BY <1>2, <2>4 DEF remoteVars
  <2>8. "complete" \in J!FinishStatuses /\ "applied" \in Meanings
    BY DEF J!FinishStatuses, Meanings
  <2>9. QED
    BY <1>1, <1>2, <2>2, <2>3, <2>4, <2>5, <2>6, <2>7, <2>8, CallEnds
<1>3. CASE Raise(s)
  BY <1>1, <1>3, RaiseKeeps
<1>4. QED
  BY <1>2, <1>3 DEF Verify

\* The end of a read of the record.
LEMMA ConcludeKeeps ==
    ASSUME IInv, NEW s \in Sessions, calls[s].at \in {"list", "preflight", "contacts"},
           NEW o \in Owners, NEW seen \in Records, Seen(s, o, seen), Conclude(s, o, seen)
    PROVE  IInv'
<1>1. calls[s] # Idle
  BY DEF Idle
<1>2. QED
  BY <1>1, PrepareKeeps, CompareKeeps, VerifyKeeps DEF Conclude

\* The book that the next request asks for (_business).
LEMMA LooksForOwner ==
    ASSUME IInv, NEW s \in Sessions, NEW a \in Awaits,
           a \in Previews \ {"contacts"}, calls[s].task = "readback" => a \in Reads,
           calls[s].at \in {"locate", "rescope"},
           calls' = [calls EXCEPT ![s].at = a, ![s].owner = scope[s]],
           UNCHANGED <<journalVars, remoteVars, plan, told>>
    PROVE  IInv'
<1>1. calls[s] # Idle /\ scope[s] \in Owners /\ Absent \in Values \cup {Absent}
  BY DEF Running, Idle, IInv, Types
<1>2. UNCHANGED <<status, target, plan, registry, scope, wire, disturbed, struck, told>>
  BY DEF journalVars, remoteVars
<1>3. CASE Previewing(s)
  BY <1>1, <1>3, PreviewMoves
<1>4. CASE ~Previewing(s)
  <2>1. calls[s] \in ApplyCall /\ Applying(s)
    BY <1>1, <1>4, KindsOfCall
  <2>2. PICK k : k = [calls[s] EXCEPT !.at = a, !.owner = scope[s]]
    OBVIOUS
  <2>3. calls' = [calls EXCEPT ![s] = k]
    BY <1>1, <2>2, CallMoves
  <2>4. k \in ApplyCall /\ k \in Calls /\ k.plan = PlanOf(s) /\ k.at = a
           /\ k.task = calls[s].task
    BY <1>1, <2>1, <2>2 DEF PlanOf, ApplyCall, Calls, Awaits, Previews, Reads
  <2>5. /\ calls[s].task = "reread" => wire[PlanOf(s)] = NoRequest
        /\ calls[s].task = "readback" => wire[PlanOf(s)].at = "landed" /\ Compared(s)
    BY <2>1 DEF Running, IInv, CallsAreSound, Unsent, Compared
  <2>6. k.at \notin {"contacts", "authorize", "answer"}
    BY <2>4 DEF Previews, Reads
  <2>7. QED
    BY <1>2, <2>1, <2>3, <2>4, <2>5, <2>6, CallGoesOn
<1>5. QED
  BY <1>3, <1>4

\* _business, before the list and, in new_target, after it.
LEMMA LocateKeeps ==
    ASSUME IInv, NEW s \in Sessions, Locate(s) \/ Rescope(s)
    PROVE  IInv'
<1>1. "list" \in Reads /\ "preflight" \in Previews /\ "list" \in Previews
         /\ "list" \in Awaits /\ "preflight" \in Awaits
  BY DEF Awaits, Previews, Reads
<1>2. Running(s, "rescope") => calls[s].task # "readback"
  BY DEF Running, IInv, Types, Calls, ApplyCall, PreviewCall, Idle, Reads
<1>3. QED
  BY <1>1, <1>2, LooksForOwner DEF Locate, Rescope, Running

\* The count of R04 says that there is none.
LEMMA PreflightKeeps ==
    ASSUME IInv, NEW s \in Sessions, Preflight(s)
    PROVE  IInv'
<1>1. calls[s] # Idle /\ calls[s].at = "preflight"
  BY DEF Preflight, Running, Idle
<1>2. calls[s].owner \in Owners
  BY <1>1, KindsOfCall DEF PreviewCall, ApplyCall
<1>3. Seen(s, calls[s].owner, Absent) /\ Absent \in Records
  BY DEF Preflight, Seen, Records
<1>4. QED
  BY <1>1, <1>2, <1>3, ConcludeKeeps DEF Preflight

\* The contacts complete the row (_detail).
LEMMA ReadContactsKeeps ==
    ASSUME IInv, NEW s \in Sessions, ReadContacts(s)
    PROVE  IInv'
<1> DEFINE o == calls[s].owner
           seen == [row |-> calls[s].row, contacts |-> ContactsIn(o)]
<1>1. calls[s] # Idle /\ calls[s].at = "contacts" /\ Conclude(s, o, seen)
  BY DEF ReadContacts, Running, Idle
<1>2. o \in Owners /\ calls[s].row \in Values
  BY <1>1, KindsOfCall DEF PreviewCall, ApplyCall, IInv, Types, Calls
<1>3. ContactsIn(o) \in Contacts
  BY <1>2, RecordsAssumption DEF ContactsIn, IInv, Types, Records, Entries
<1>4. seen \in Records
  BY <1>2, <1>3 DEF Records, Entries
<1>5. HasRow(o, calls[s].row) => registry[o] = seen
  <2>1. registry[o] \in Entries \cup {Absent}
    BY <1>2 DEF IInv, Types, Records
  <2>2. QED
    BY <2>1 DEF HasRow, ContactsIn, Entries
<1>6. Applying(s) => Seen(s, o, seen)
  BY <1>1, <1>5 DEF Seen, IInv, RowSeen, HalfRead
<1> HIDE DEF seen
<1>7. CASE Applying(s)
  BY <1>1, <1>2, <1>4, <1>6, <1>7, ConcludeKeeps
<1>8. CASE ~Applying(s)
  BY <1>1, <1>2, <1>4, <1>8, PrepareKeeps DEF Conclude, Compare, Verify, Applying
<1>9. QED
  BY <1>7, <1>8

\* The list shows a row, or none (find_counterparty).
LEMMA ListKeeps ==
    ASSUME IInv, NEW s \in Sessions, List(s)
    PROVE  IInv'
<1> DEFINE o == calls[s].owner
<1>1. calls[s] # Idle /\ calls[s].at = "list"
  BY DEF List, Running, Idle
<1>2. o \in Owners /\ Absent \in Values \cup {Absent}
  BY <1>1, KindsOfCall DEF PreviewCall, ApplyCall
<1>3. registry[o] \in Entries \cup {Absent}
  BY <1>2 DEF IInv, Types, Records
<1>4. CASE registry[o] = Absent /\ Conclude(s, o, Absent)
  <2>1. Seen(s, o, Absent) /\ Absent \in Records
    BY <1>4 DEF Seen, Records
  <2>2. QED
    BY <1>1, <1>2, <1>4, <2>1, ConcludeKeeps
<1>5. {"rescope", "contacts"} \subseteq Awaits /\ {"rescope", "contacts"} \subseteq Previews
  BY DEF Awaits, Previews, Reads
<1>6. ASSUME UNCHANGED <<journalVars, remoteVars, plan, told>>, Applying(s),
             NEW k, k \in ApplyCall, k \in Calls, k.plan = PlanOf(s), k.task = calls[s].task,
             calls' = [calls EXCEPT ![s] = k],
             \/ k.at = "rescope" /\ k.task = "reread"
             \/ k.at = "contacts" /\ (k.owner = o => HasRow(o, k.row)) /\ k.owner = o
      PROVE  IInv'
  <2>1. /\ calls[s].task = "reread" => wire[PlanOf(s)] = NoRequest
        /\ calls[s].task = "readback" => wire[PlanOf(s)].at = "landed" /\ Compared(s)
    BY <1>1, <1>6 DEF IInv, CallsAreSound, Unsent, Compared
  <2>2. UNCHANGED <<status, target, plan, registry, scope, wire, disturbed, struck, told>>
    BY <1>6 DEF journalVars, remoteVars
  <2>3. QED
    BY <1>6, <2>1, <2>2, CallGoesOn
<1>7. CASE /\ NewTarget(s)
           /\ calls' = [calls EXCEPT ![s].at = "rescope"]
           /\ UNCHANGED <<journalVars, remoteVars, plan, told>>
  <2>1. CASE Previewing(s)
    BY <1>1, <1>2, <1>5, <1>7, <2>1, PreviewMoves
  <2>2. CASE ~Previewing(s)
    <3>1. calls[s] \in ApplyCall /\ Applying(s) /\ calls[s].task = "reread"
      BY <1>1, <1>7, <2>2, KindsOfCall DEF NewTarget
    <3>2. PICK k : k = [calls[s] EXCEPT !.at = "rescope"]
      OBVIOUS
    <3>3. calls' = [calls EXCEPT ![s] = k]
      BY <1>2, <1>5, <1>7, <3>2, CallMoves
    <3>4. k \in ApplyCall /\ k \in Calls /\ k.plan = PlanOf(s) /\ k.at = "rescope"
             /\ k.task = calls[s].task
      BY <1>2, <1>5, <3>1, <3>2 DEF PlanOf, ApplyCall, Calls, Awaits, Previews, Reads
    <3>5. QED
      BY <1>6, <1>7, <3>1, <3>3, <3>4
  <2>3. QED
    BY <2>1, <2>2
<1>8. CASE /\ registry[o] # Absent
           /\ calls' = [calls EXCEPT ![s].at = "contacts", ![s].row = registry[o].row]
           /\ UNCHANGED <<journalVars, remoteVars, plan, told>>
  <2>1. PICK r \in Values : r = registry[o].row
    BY <1>3, <1>8 DEF Entries
  <2>2. CASE Previewing(s)
    BY <1>1, <1>2, <1>5, <1>8, <2>1, <2>2, PreviewMoves
  <2>3. CASE ~Previewing(s)
    <3>1. calls[s] \in ApplyCall /\ Applying(s)
      BY <1>1, <2>3, KindsOfCall
    <3>2. PICK k : k = [calls[s] EXCEPT !.at = "contacts", !.row = r]
      OBVIOUS
    <3>3. calls' = [calls EXCEPT ![s] = k]
      BY <1>2, <1>5, <1>8, <2>1, <3>2, CallMoves
    <3>4. k \in ApplyCall /\ k \in Calls /\ k.plan = PlanOf(s) /\ k.at = "contacts"
             /\ k.task = calls[s].task
      BY <1>2, <1>5, <2>1, <3>1, <3>2 DEF PlanOf, ApplyCall, Calls, Awaits, Previews, Reads
    <3>5. k.owner = o /\ k.row = r
      BY <3>1, <3>2 DEF ApplyCall
    <3>6. HasRow(o, k.row)
      BY <1>8, <2>1, <3>5 DEF HasRow
    <3>7. QED
      BY <1>6, <1>8, <3>1, <3>3, <3>4, <3>5, <3>6
  <2>4. QED
    BY <2>2, <2>3
<1>9. QED
  BY <1>4, <1>7, <1>8 DEF List

\* The request leaves the process, once (counterparty_backend.py:321-349).
LEMMA SendKeeps ==
    ASSUME IInv, NEW s \in Sessions, Send(s)
    PROVE  IInv'
<1>1. calls[s] # Idle /\ calls[s].at = "authorize"
  BY DEF Send, Running, Idle
<1>2. CASE /\ scope[s] = OwnerOf(PlanOf(s))
           /\ wire' = [wire EXCEPT ![PlanOf(s)] =
                          [at |-> "sent", session |-> s, switched |-> FALSE]]
           /\ calls' = [calls EXCEPT ![s].at = "answer"]
           /\ UNCHANGED <<journalVars, registry, scope, outside, disturbed, struck, plan, told>>
           /\ Applying(s)
  <2>1. "answer" \in Awaits /\ Absent \in Values \cup {Absent} /\ calls[s] \in ApplyCall
           /\ scope[s] \in Owners
    BY <1>2, CallFacts DEF Awaits, Previews, Reads, IInv, Types
  <2>2. PICK k : k = [calls[s] EXCEPT !.at = "answer"]
    OBVIOUS
  <2>3. calls' = [calls EXCEPT ![s] = k]
    BY <1>2, <2>1, <2>2, CallMoves
  <2>4. k \in ApplyCall /\ k \in Calls /\ k.plan = PlanOf(s) /\ k.at = "answer"
           /\ k.task = calls[s].task
    BY <1>1, <2>1, <2>2 DEF PlanOf, ApplyCall, Calls, Awaits, Previews, Reads
  <2>5. calls[s].task = "reread" /\ wire[PlanOf(s)] = NoRequest /\ Compared(s)
    BY <1>1, <1>2, <2>1 DEF IInv, CallsAreSound, Unsent, Compared, Applying, ApplyCall, Reads
  <2>6. UNCHANGED <<status, target, plan, registry, scope, disturbed, struck, told>>
    BY <1>2 DEF journalVars
  <2>7. QED
    BY <1>2, <2>3, <2>4, <2>5, <2>6, CallGoesOn
<1>3. CASE Raise(s)
  BY <1>1, <1>3, RaiseKeeps, KindsOfCall DEF Raise
<1>4. Applying(s)
  BY <1>1, KindsOfCall DEF PreviewCall, Previews, Reads
<1>5. QED
  BY <1>2, <1>3, <1>4 DEF Send

\* HomeTax reports success; the record is read back.
LEMMA AnswerKeeps ==
    ASSUME IInv, NEW s \in Sessions, Answer(s)
    PROVE  IInv'
<1>1. calls[s] # Idle /\ calls[s].at = "answer" /\ wire[PlanOf(s)].at = "landed"
  BY DEF Answer, Running, Idle
<1>2. calls[s] \in ApplyCall /\ Applying(s)
  BY <1>1, KindsOfCall DEF PreviewCall, Previews, Reads
<1>3. Compared(s)
  BY <1>1, <1>2 DEF Compared, Applying
<1>4. PICK k : k = [calls[s] EXCEPT !.at = "locate", !.task = "readback"]
  OBVIOUS
<1>5. calls' = [calls EXCEPT ![s] = k]
  BY <1>4 DEF Answer, IInv, Types
<1>6. k \in ApplyCall /\ k \in Calls /\ k.plan = PlanOf(s) /\ k.at = "locate" /\ k.task = "readback"
  BY <1>2, <1>4 DEF PlanOf, ApplyCall, Calls, Reads
<1>7. UNCHANGED <<status, target, plan, registry, scope, wire, disturbed, struck, told>>
  BY DEF Answer, journalVars, remoteVars
<1>8. QED
  BY <1>1, <1>2, <1>3, <1>5, <1>6, <1>7, CallGoesOn

-----------------------------------------------------------------------------
\* A request was sent from a session and is about somebody's book.
LEMMA SentFacts ==
    ASSUME IInv, NEW p \in Plans, wire[p].at = "sent"
    PROVE  /\ wire[p].session \in Sessions /\ wire[p].switched \in BOOLEAN
           /\ Exposed(p) /\ OwnerOf(p) \in Owners /\ AfterOf(p) \in Records
           /\ Addressee(p) \in Owners
           /\ Addressee(p) # OwnerOf(p) => IsDelete(p) /\ wire[p].switched = TRUE
<1>1. wire[p] \in RequestRecord
  BY DEF IInv, Types, NoRequest
<1>2. wire[p].session \in Sessions /\ wire[p].switched \in BOOLEAN
  BY <1>1 DEF RequestRecord
<1>3. Exposed(p)
  BY DEF Exposed
<1>4. OwnerOf(p) \in Owners /\ AfterOf(p) \in Records
  BY <1>3, ExposedFacts, PlanFacts DEF IInv
<1>5. Addressee(p) \in Owners
  BY <1>2, <1>4 DEF Addressee, IInv, Types
<1>6. Addressee(p) # OwnerOf(p) => IsDelete(p) /\ wire[p].switched = TRUE
  BY DEF Addressee, IInv, SentAtHome
<1>7. QED
  BY <1>2, <1>3, <1>4, <1>5, <1>6

\* HomeTax acts on a request. No other plan has looked at the record it is about; a
\* delete in another book strikes it from under those that have.
LEMMA LandKeeps ==
    ASSUME IInv, NEW p \in Plans, Land(p)
    PROVE  IInv'
<1> DEFINE o == Addressee(p)
<1>1. /\ wire[p].at = "sent"
      /\ registry' = [registry EXCEPT ![o] = AfterOf(p)]
      /\ wire' = [wire EXCEPT ![p] = [at |-> "landed", owner |-> o]]
      /\ struck' = IF o = OwnerOf(p) THEN struck ELSE struck \cup ExposedIn(o)
      /\ UNCHANGED <<status, target, plan, calls, scope, disturbed, told>>
  BY DEF Land, journalVars
<1>2. Exposed(p) /\ AfterOf(p) \in Records /\ OwnerOf(p) \in Owners /\ o \in Owners
  BY <1>1, SentFacts
<1> HIDE DEF o
<1>3. [at |-> "landed", owner |-> o] \in RequestRecord
  BY <1>2 DEF RequestRecord
<1>4. /\ wire' \in [Plans -> RequestRecord \cup {NoRequest}]
      /\ registry' \in [Owners -> Records]
      /\ scope' \in [Sessions -> Owners]
  BY <1>1, <1>2, <1>3 DEF IInv, Types
<1>5. disturbed' \in SUBSET Plans /\ struck' \in SUBSET Plans /\ Touched \subseteq Touched'
  BY <1>1 DEF IInv, Types, ExposedIn, Touched
<1>6. /\ wire'[p] = [at |-> "landed", owner |-> o]
      /\ \A q \in Plans \ {p} : wire'[q] = wire[q]
      /\ \A u \in Owners \ {o} : registry'[u] = registry[u]
  BY <1>1 DEF IInv, Types
<1>7. SentAtHome'
  <2>1. wire'[p].at = "landed"
    BY <1>6
  <2>2. QED
    BY <1>1, <1>6, <2>1 DEF IInv, SentAtHome, OwnerOf
<1>8. ASSUME NEW q \in Plans, Exposed(q)
      PROVE  q \in Touched' \/ LandedAtHome(q)' \/ registry'[OwnerOf(q)] = registry[OwnerOf(q)]
  <2>1. CASE q = p
    BY <1>1, <1>2, <1>6, <2>1 DEF LandedAtHome, OwnerOf
  <2>2. CASE q # p
    <3>1. plan[q] # NoPlan /\ OwnerOf(q) # OwnerOf(p)
      BY <1>2, <1>8, <2>2, ExposedFacts, ExposedDiffer
    <3>2. OwnerOf(q) \in Owners
      BY <3>1, PlanFacts DEF IInv
    <3>3. CASE OwnerOf(q) = o
      BY <1>1, <1>8, <3>1, <3>3 DEF ExposedIn, Touched
    <3>4. CASE OwnerOf(q) # o
      BY <1>6, <3>2, <3>4
    <3>5. QED
      BY <3>3, <3>4
  <2>3. QED
    BY <2>1, <2>2
<1>9. \A q \in Plans : \/ wire'[q] = wire[q]
                       \/ wire[q].at = "sent" /\ wire'[q].at \in {"sent", "landed", "refused"}
  BY <1>1, <1>6
<1>10. QED
  BY <1>1, <1>4, <1>5, <1>7, <1>8, <1>9, WorldChanges

\* HomeTax refuses a request.
LEMMA DeclineKeeps ==
    ASSUME IInv, NEW p \in Plans, Decline(p)
    PROVE  IInv'
<1>1. /\ wire[p].at = "sent"
      /\ wire' = [wire EXCEPT ![p] = [at |-> "refused"]]
      /\ UNCHANGED <<status, target, plan, calls, registry, scope, disturbed, struck, told>>
  BY DEF Decline, journalVars
<1>2. [at |-> "refused"] \in RequestRecord
  BY DEF RequestRecord
<1>3. wire' \in [Plans -> RequestRecord \cup {NoRequest}]
  BY <1>1, <1>2 DEF IInv, Types
<1>4. \A q \in Plans : \/ wire'[q] = wire[q]
                       \/ wire[q].at = "sent" /\ wire'[q].at \in {"sent", "landed", "refused"}
  BY <1>1 DEF IInv, Types
<1>5. /\ registry' \in [Owners -> Records] /\ scope' \in [Sessions -> Owners]
      /\ disturbed' \in SUBSET Plans /\ struck' \in SUBSET Plans /\ Touched \subseteq Touched'
  BY <1>1 DEF IInv, Types, Touched
<1>6. SentAtHome'
  BY <1>1 DEF IInv, Types, SentAtHome, OwnerOf
<1>7. QED
  BY <1>1, <1>3, <1>4, <1>5, <1>6, WorldChanges

\* Someone edits a record on a HomeTax screen.
LEMMA EditKeeps ==
    ASSUME IInv, NEW o \in Owners, NEW r \in Records, Edit(o, r)
    PROVE  IInv'
<1>1. /\ registry' = [registry EXCEPT ![o] = r]
      /\ disturbed' = disturbed \cup ExposedIn(o)
      /\ UNCHANGED <<status, target, plan, calls, scope, wire, struck, told>>
  BY DEF Edit, journalVars
<1>2. /\ wire' \in [Plans -> RequestRecord \cup {NoRequest}]
      /\ registry' \in [Owners -> Records] /\ scope' \in [Sessions -> Owners]
      /\ disturbed' \in SUBSET Plans /\ struck' \in SUBSET Plans /\ Touched \subseteq Touched'
  BY <1>1 DEF IInv, Types, ExposedIn, Touched
<1>3. ASSUME NEW q \in Plans, Exposed(q)
      PROVE  q \in Touched' \/ registry'[OwnerOf(q)] = registry[OwnerOf(q)]
  <2>1. plan[q] # NoPlan /\ OwnerOf(q) \in Owners
    BY <1>3, ExposedFacts, PlanFacts DEF IInv
  <2>2. CASE OwnerOf(q) = o
    BY <1>1, <1>3, <2>1, <2>2 DEF ExposedIn, Touched
  <2>3. CASE OwnerOf(q) # o
    BY <1>1, <2>1, <2>3 DEF IInv, Types
  <2>4. QED
    BY <2>2, <2>3
<1>4. SentAtHome'
  BY <1>1 DEF IInv, SentAtHome, OwnerOf
<1>5. QED
  BY <1>1, <1>2, <1>3, <1>4, WorldChanges

\* A login is switched: what it has sent may land astray from now on.
LEMMA SwitchKeeps ==
    ASSUME IInv, NEW s \in Sessions, NEW o \in Owners, Switch(s, o)
    PROVE  IInv'
<1>1. /\ scope' = [scope EXCEPT ![s] = o]
      /\ UNCHANGED <<status, target, plan, calls, registry, disturbed, struck, told>>
  BY DEF Switch, journalVars
<1>2. \A p \in Plans : wire'[p] = IF wire[p].at = "sent" /\ wire[p].session = s
                                  THEN [wire[p] EXCEPT !.switched = TRUE] ELSE wire[p]
  BY DEF Switch
<1>3. ASSUME NEW p \in Plans
      PROVE  /\ wire'[p] \in RequestRecord \cup {NoRequest}
             /\ \/ wire'[p] = wire[p]
                \/ wire[p].at = "sent" /\ wire'[p].at \in {"sent", "landed", "refused"}
             /\ wire'[p].at = "sent" =>
                   wire'[p].switched = TRUE \/ (wire'[p] = wire[p] /\ wire[p].session # s)
  <2>1. CASE wire[p].at = "sent" /\ wire[p].session = s
    <3>1. wire[p] \in [at: {"sent"}, session: Sessions, switched: BOOLEAN]
      BY <2>1 DEF IInv, Types, RequestRecord, NoRequest
    <3>2. /\ [wire[p] EXCEPT !.switched = TRUE] \in [at: {"sent"}, session: Sessions, switched: BOOLEAN]
          /\ [wire[p] EXCEPT !.switched = TRUE].switched = TRUE
          /\ [wire[p] EXCEPT !.switched = TRUE].at = "sent"
      BY <3>1
    <3>3. QED
      BY <1>2, <2>1, <3>2 DEF RequestRecord
  <2>2. CASE ~(wire[p].at = "sent" /\ wire[p].session = s)
    BY <1>2, <2>2 DEF IInv, Types
  <2>3. QED
    BY <2>1, <2>2
<1>4. /\ wire' \in [Plans -> RequestRecord \cup {NoRequest}]
      /\ registry' \in [Owners -> Records] /\ scope' \in [Sessions -> Owners]
      /\ disturbed' \in SUBSET Plans /\ struck' \in SUBSET Plans /\ Touched \subseteq Touched'
  <2>1. wire' = [p \in Plans |-> wire'[p]]
    BY DEF Switch
  <2>2. wire' \in [Plans -> RequestRecord \cup {NoRequest}]
    BY <1>3, <2>1
  <2>3. QED
    BY <1>1, <2>2 DEF IInv, Types, Touched
<1>5. SentAtHome'
  <2> SUFFICES ASSUME NEW p \in Plans, wire'[p].at = "sent", wire'[p].switched # TRUE
               PROVE  scope'[wire'[p].session] = OwnerOf(p)
    BY <1>1 DEF SentAtHome, OwnerOf
  <2>1. wire'[p] = wire[p] /\ wire[p].session # s
    BY <1>3
  <2>2. wire[p].session \in Sessions /\ scope[wire[p].session] = OwnerOf(p)
    BY <2>1, SentFacts DEF IInv, SentAtHome
  <2>3. QED
    BY <1>1, <2>1, <2>2 DEF IInv, Types
<1>6. QED
  BY <1>1, <1>3, <1>4, <1>5, WorldChanges

-----------------------------------------------------------------------------
\* No step of a session, of HomeTax or of others breaks the invariant.
LEMMA StepKeeps == IInv /\ [Next]_vars => IInv'
<1> SUFFICES ASSUME IInv, [Next]_vars PROVE IInv'
  OBVIOUS
<1>1. ASSUME NEW s \in Sessions, NEW create \in BOOLEAN, Preview(s, create)
      PROVE  IInv'
  BY <1>1, PreviewKeeps
<1>2. ASSUME NEW s \in Sessions, NEW p \in Plans, Start(s, p) \/ Refuse(s, p)
      PROVE  IInv'
  BY <1>2, StartKeeps, RefuseKeeps
<1>3. ASSUME NEW s \in Sessions, Proceed(s)
      PROVE  IInv'
  <2>1. CASE Fail(s)
    BY <2>1, KindsOfCall, RaiseKeeps, GiveUpKeeps DEF Fail, Raise
  <2>2. QED
    BY <1>3, <2>1, LocateKeeps, ListKeeps, ReadContactsKeeps, PreflightKeeps, SendKeeps,
       AnswerKeeps DEF Proceed
<1>4. ASSUME NEW s \in Sessions, LoseSession(s)
      PROVE  IInv'
  BY <1>4, LoseSessionKeeps
<1>5. ASSUME NEW p \in Plans, Expire(p) \/ Land(p) \/ Decline(p)
      PROVE  IInv'
  BY <1>5, ExpireKeeps, LandKeeps, DeclineKeeps
<1>6. CASE Others
  BY <1>6, EditKeeps, SwitchKeeps DEF Others
<1>7. CASE UNCHANGED vars
  <2>1. UNCHANGED <<status, target, plan, calls, registry, scope, wire, disturbed, struck, told>>
    BY <1>7 DEF vars, journalVars, remoteVars
  <2>2. calls' \in [Sessions -> Calls]
    BY <2>1 DEF IInv, Types
  <2>3. QED
    BY <2>1, <2>2, PreviewReads
<1>8. QED
  BY <1>1, <1>2, <1>3, <1>4, <1>5, <1>6, <1>7 DEF Next

\* No row, no preview, no call and no request at the start.
LEMMA StartsSound == Init => IInv
<1> SUFFICES ASSUME Init PROVE IInv
  OBVIOUS
<1>1. Types
  BY IdleIsCall DEF Init, Types, J!Statuses, Meanings
<1>2. /\ \A s \in Sessions : ~Applying(s) /\ ~Compared(s)
      /\ \A p \in Plans : wire[p] = NoRequest /\ wire[p].at = "none" /\ ~J!Recorded(p)
                             /\ status[p] = "absent"
  BY DEF Init, Applying, Compared, Idle, NoRequest, J!Recorded
<1>3. PlansAreSound /\ CallsAreSound /\ RowsAreSound /\ TellsAreSound
  BY <1>2 DEF Init, PlansAreSound, CallsAreSound, RowsAreSound, TellsAreSound
<1>4. Untouched /\ RowSeen /\ SentAtHome /\ CompleteIsOurs
  BY <1>2 DEF Untouched, Working, RowSeen, HalfRead, SentAtHome, CompleteIsOurs
<1>5. J!OneOpenPerTarget
  BY <1>2 DEF J!OneOpenPerTarget, J!Open, J!OpenStatuses
<1>6. QED
  BY <1>1, <1>3, <1>4, <1>5 DEF IInv

\* counterparty_changes.py:347-365: complete means done in the book that was confirmed.
THEOREM CompleteIsOursHolds == Spec => []CompleteIsOurs
<1>1. IInv => CompleteIsOurs
  BY DEF IInv
<1>2. QED
  BY <1>1, StartsSound, StepKeeps, PTL DEF Spec

\* counterparty_changes.py:340-382: what is recorded or told is what happened.
THEOREM RepliesAreHonestHolds == Spec => []RepliesAreHonest
<1>1. IInv => RepliesAreHonest
  BY DEF IInv, RepliesAreHonest, RowsAreSound, TellsAreSound, J!Live
<1>2. QED
  BY <1>1, StartsSound, StepKeeps, PTL DEF Spec

\* docs/COUNTERPARTIES.md:98-103: no write of the program lands on a record the user has
\* not seen, late as it may be, unless others edit it, or a delete goes astray into it,
\* after the re-read has read its row.
THEOREM NoLostUpdateHolds == Spec => NoLostUpdate
<1>1. IInv /\ [Next]_vars =>
          [\A p \in Plans : Lands(p) /\ LandedAtHome(p)'
               => registry[OwnerOf(p)] = BeforeOf(p) \/ p \in disturbed \cup struck]_vars
  BY DEF IInv, Untouched, Working, Touched, Lands
<1>2. QED
  BY <1>1, StartsSound, StepKeeps, PTL DEF Spec, NoLostUpdate

\* A request lands only when HomeTax acts on it.
LEMMA LandsByLand ==
    ASSUME IInv, Next, NEW p \in Plans, Lands(p)
    PROVE  Land(p)
<1>1. wire' # wire /\ wire[p].at = "sent" /\ wire'[p].at = "landed"
  BY DEF Lands
<1>2. ASSUME NEW s \in Sessions, Raise(s) \/ GiveUp(s)
      PROVE  wire' = wire
  BY <1>2 DEF Raise, GiveUp, remoteVars
<1>3. ASSUME NEW s \in Sessions, NEW o, NEW seen, Conclude(s, o, seen)
      PROVE  wire' = wire
  BY <1>2, <1>3 DEF Conclude, Prepare, Compare, Verify, remoteVars
<1>4. ASSUME NEW s \in Sessions, Proceed(s)
      PROVE  FALSE
  <2>1. Send(s)
    BY <1>1, <1>2, <1>3, <1>4
       DEF Proceed, Locate, List, ReadContacts, Rescope, Preflight, Answer, Fail, remoteVars
  <2>2. wire' = [wire EXCEPT ![PlanOf(s)] = [at |-> "sent", session |-> s, switched |-> FALSE]]
    BY <1>1, <1>2, <2>1 DEF Send
  <2>3. QED
    BY <1>1, <2>2 DEF IInv, Types
<1>5. ASSUME NEW s \in Sessions, \/ \E create \in BOOLEAN : Preview(s, create)
                                 \/ \E q \in Plans : Start(s, q) \/ Refuse(s, q)
                                 \/ LoseSession(s)
      PROVE  FALSE
  BY <1>1, <1>5 DEF Preview, Start, Refuse, LoseSession, remoteVars
<1>6. ASSUME NEW q \in Plans, Expire(q) \/ Decline(q)
      PROVE  FALSE
  BY <1>1, <1>6 DEF Expire, Decline, remoteVars, IInv, Types
<1>7. ASSUME NEW q \in Plans, Land(q)
      PROVE  q = p
  BY <1>1, <1>7 DEF Land, IInv, Types
<1>8. ASSUME Others
      PROVE  FALSE
  <2>1. ASSUME NEW s \in Sessions, NEW o \in Owners, Switch(s, o)
        PROVE  wire'[p] = wire[p] \/ wire'[p].at = wire[p].at
    <3>1. wire[p] \in [at: {"sent"}, session: Sessions, switched: BOOLEAN]
      BY <1>1 DEF IInv, Types, RequestRecord, NoRequest
    <3>2. [wire[p] EXCEPT !.switched = TRUE].at = wire[p].at
      BY <3>1
    <3>3. QED
      BY <2>1, <3>2 DEF Switch
  <2>2. QED
    BY <1>1, <1>8, <2>1 DEF Others, Edit
<1>9. QED
  BY <1>4, <1>5, <1>6, <1>7, <1>8 DEF Next

\* counterparty_backend.py:321-349: a write lands in another book only as a delete that
\* a switch of the login has overtaken after the last look.
THEOREM StrayOnlyAfterSwitchHolds == Spec => StrayOnlyAfterSwitch
<1>1. ASSUME IInv, Next, NEW p \in Plans, Lands(p), ~LandedAtHome(p)'
      PROVE  IsDelete(p) /\ wire[p].switched
  <2>1. Land(p) /\ wire[p].at = "sent"
    BY <1>1, LandsByLand DEF Land
  <2>2. wire'[p] = [at |-> "landed", owner |-> Addressee(p)]
    <3>1. wire' = [wire EXCEPT ![p] = [at |-> "landed", owner |-> Addressee(p)]]
      BY <2>1 DEF Land
    <3>2. QED
      BY <1>1, <3>1 DEF IInv, Types
  <2>3. OwnerOf(p)' = OwnerOf(p)
    BY <2>1 DEF Land, OwnerOf
  <2>4. Addressee(p) # OwnerOf(p)
    BY <1>1, <2>2, <2>3 DEF LandedAtHome
  <2>5. IsDelete(p) /\ wire[p].switched = TRUE
    BY <1>1, <2>1, <2>4, SentFacts
  <2>6. QED
    BY <2>5, Zenon
<1>2. IInv /\ [Next]_vars =>
          [\A p \in Plans : Lands(p) /\ ~LandedAtHome(p)'
               => IsDelete(p) /\ wire[p].switched]_vars
  BY <1>1
<1>3. QED
  BY <1>2, StartsSound, StepKeeps, PTL DEF Spec, StrayOnlyAfterSwitch

-----------------------------------------------------------------------------
\* An apply begins its attempt with keys that the journal has for a counterparty.
LEMMA StartBegins ==
    ASSUME IInv, NEW s \in Sessions, NEW p \in Plans, Start(s, p)
    PROVE  J!Next
<1>1. plan[p] # NoPlan
  BY DEF Start, Applicable, NoPlan
<1>2. OwnerOf(p) \in Owners /\ AfterOf(p) \in Records
  BY <1>1, PlanFacts DEF IInv
<1>3. OwnerOf(p) \in J!Targets /\ PayloadHash(p) \in Payloads
  BY <1>2 DEF J!Targets, J!InvoiceTargets, PayloadHash, Payloads, IsCreate
<1>4. {} \in J!GuardKeys(OwnerOf(p))
  BY DEF J!GuardKeys
<1>5. J!Begin(p, OwnerOf(p), PayloadHash(p), {})
  BY DEF Start, BeginReply, J!Begin
<1>6. QED
  BY <1>3, <1>4, <1>5 DEF J!Next

\* No other step writes to the journal than the end of a call.
LEMMA StepOfJournal == IInv /\ [Next]_vars => J!Next \/ UNCHANGED journalVars
<1> SUFFICES ASSUME IInv, [Next]_vars PROVE J!Next \/ UNCHANGED journalVars
  OBVIOUS
<1>1. ASSUME NEW s \in Sessions, calls[s] # Idle, Raise(s)
      PROVE  J!Next \/ UNCHANGED journalVars
  <2>1. PlanOf(s) \in Plans
    BY <1>1, CallFacts, KindsOfCall DEF Raise
  <2>2. QED
    BY <1>1, <2>1 DEF Raise, J!Next, J!FinishStatuses
<1>2. ASSUME NEW s \in Sessions, calls[s] # Idle, NEW o, NEW seen, Conclude(s, o, seen)
      PROVE  J!Next \/ UNCHANGED journalVars
  <2>1. CASE \E p \in Plans : Prepare(s, p, o, seen)
    BY <2>1 DEF Prepare
  <2>2. CASE Compare(s, o, seen)
    BY <1>1, <1>2, <2>2 DEF Compare
  <2>3. CASE Verify(s, o, seen)
    <3>1. PlanOf(s) \in Plans
      BY <2>3, CallFacts DEF Verify, Applying
    <3>2. QED
      BY <1>1, <1>2, <2>3, <3>1 DEF Verify, J!Next, J!FinishStatuses
  <2>4. QED
    BY <1>2, <2>1, <2>2, <2>3 DEF Conclude
<1>3. ASSUME NEW s \in Sessions, Proceed(s)
      PROVE  J!Next \/ UNCHANGED journalVars
  <2>1. CASE Locate(s) \/ Rescope(s) \/ Answer(s)
    BY <2>1 DEF Locate, Rescope, Answer
  <2>2. CASE List(s)
    BY <1>2, <2>2 DEF List, Running, Idle
  <2>3. CASE ReadContacts(s) \/ Preflight(s)
    <3>1. calls[s] # Idle
      BY <2>3 DEF ReadContacts, Preflight, Running, Idle
    <3>2. QED
      BY <1>2, <2>3, <3>1 DEF ReadContacts, Preflight
  <2>4. CASE Send(s)
    BY <1>1, <2>4 DEF Send, Running, Idle
  <2>5. CASE Fail(s)
    BY <1>1, <2>5 DEF Fail, GiveUp
  <2>6. QED
    BY <1>3, <2>1, <2>2, <2>3, <2>4, <2>5 DEF Proceed
<1>4. ASSUME NEW s \in Sessions, NEW create \in BOOLEAN, Preview(s, create)
      PROVE  UNCHANGED journalVars
  BY <1>4 DEF Preview
<1>5. ASSUME NEW s \in Sessions, LoseSession(s)
      PROVE  UNCHANGED journalVars
  BY <1>5 DEF LoseSession
<1>6. ASSUME NEW p \in Plans, Expire(p) \/ Land(p) \/ Decline(p)
      PROVE  UNCHANGED journalVars
  BY <1>6 DEF Expire, Land, Decline
<1>7. CASE Others \/ UNCHANGED vars
  BY <1>7 DEF Others, Edit, Switch, vars, journalVars
<1>8. ASSUME NEW s \in Sessions, NEW p \in Plans, Refuse(s, p)
      PROVE  UNCHANGED journalVars
  BY <1>8 DEF Refuse
<1>9. QED
  BY <1>3, <1>4, <1>5, <1>6, <1>7, <1>8, StartBegins DEF Next

\* The journal is empty at the start.
LEMMA JournalStarts == Init => J!Init
<1> SUFFICES ASSUME Init PROVE J!Init
  OBVIOUS
<1>1. status \in [Plans -> J!Statuses] /\ \A p \in Plans : status[p] = "absent"
  BY DEF Init, J!Statuses
<1>2. /\ target \in [Plans -> J!Targets \cup {NoKey}]
      /\ payload \in [Plans -> Payloads \cup {NoKey}]
      /\ \A p \in Plans : target[p] = NoKey /\ payload[p] = NoKey
  BY DEF Init
<1>3. J!LegacyConsistent
  BY <1>1 DEF J!LegacyConsistent, J!Open, J!OpenStatuses, J!Live
<1>4. QED
  BY <1>1, <1>2, <1>3 DEF Init, J!Init, J!Recorded

\* counterparty_changes.py:317-382 with write_journal.py:33-190: apply uses the journal
\* as WriteJournal allows.
THEOREM UsesTheJournal == Spec => J!Spec
<1>1. IInv /\ [Next]_vars => [J!Next]_(J!vars)
  BY StepOfJournal DEF journalVars, J!vars
<1>2. QED
  BY <1>1, StartsSound, StepKeeps, JournalStarts, PTL DEF Spec, J!Spec

-----------------------------------------------------------------------------
(***************************************************************************)
(* Types                                                                   *)
(***************************************************************************)
\* begin and finish keep the columns of the journal in their types.
LEMMA RowsTyped == J!TypeOK /\ [J!Next]_(J!vars) => J!TypeOK'
<1> SUFFICES ASSUME J!TypeOK, [J!Next]_(J!vars) PROVE J!TypeOK'
  OBVIOUS
<1> USE DEF J!TypeOK, J!Recorded
<1>1. ASSUME NEW p \in Plans, NEW t \in J!Targets, NEW h \in Payloads,
             NEW gs \in J!GuardKeys(t), J!Begin(p, t, h, gs)
      PROVE  J!TypeOK'
  <2>1. {t} \cup gs \in SUBSET J!Keys
    BY DEF J!GuardKeys, J!Keys
  <2>2. QED
    BY <1>1, <2>1 DEF J!Begin, J!InsertAttempt, J!Statuses, J!FinishStatuses
<1>2. ASSUME NEW p \in Plans, NEW s \in J!FinishStatuses, J!Finish(p, s)
      PROVE  J!TypeOK'
  BY <1>2 DEF J!Finish, J!FinishReply, J!Statuses, J!FinishStatuses
<1>3. CASE UNCHANGED J!vars
  BY <1>3 DEF J!vars
<1>4. QED
  BY <1>1, <1>2, <1>3 DEF J!Next

\* Only others count as outside, and they stop at the bound.
Bounded == outside \in 0 .. MaxOutside

\* At every step.
LEMMA OutsideBounded == Bounded /\ [Next]_vars => Bounded'
<1> SUFFICES ASSUME Bounded, [Next]_vars PROVE Bounded'
  OBVIOUS
<1> USE DEF Bounded
<1>1. ASSUME NEW s \in Sessions, Raise(s) \/ GiveUp(s)
      PROVE  outside' = outside
  BY <1>1 DEF Raise, GiveUp, remoteVars
<1>2. ASSUME NEW s \in Sessions, NEW o, NEW seen, Conclude(s, o, seen)
      PROVE  outside' = outside
  BY <1>1, <1>2 DEF Conclude, Prepare, Compare, Verify, remoteVars
<1>3. ASSUME NEW s \in Sessions, Proceed(s)
      PROVE  outside' = outside
  BY <1>1, <1>2, <1>3
     DEF Proceed, Locate, List, ReadContacts, Rescope, Preflight, Send, Answer, Fail, remoteVars
<1>4. ASSUME NEW s \in Sessions, \/ \E create \in BOOLEAN : Preview(s, create)
                                 \/ \E p \in Plans : Start(s, p) \/ Refuse(s, p)
                                 \/ LoseSession(s)
      PROVE  outside' = outside
  BY <1>4 DEF Preview, Start, Refuse, LoseSession, remoteVars
<1>5. ASSUME NEW p \in Plans, Expire(p) \/ Land(p) \/ Decline(p)
      PROVE  outside' = outside
  BY <1>5 DEF Expire, Land, Decline, remoteVars
<1>6. CASE Others
  BY <1>6, BoundsAssumption DEF Others, Edit, Switch
<1>7. CASE UNCHANGED vars
  BY <1>7 DEF vars, remoteVars
<1>8. QED
  BY <1>3, <1>4, <1>5, <1>6, <1>7 DEF Next

\* counterparty_changes.py:218-382: whatever the calls and the others do, a row has an
\* owner and the hash of a change, a call stands at one of the awaits of apply, and a
\* request lands in the book of an owner.
THEOREM TypeOKHolds == Spec => []TypeOK
<1>1. Init => J!TypeOK /\ Bounded
  <2> SUFFICES ASSUME Init PROVE J!TypeOK /\ Bounded
    OBVIOUS
  <2>1. \A p \in Plans : ~J!Recorded(p)
    BY DEF Init, J!Recorded
  <2>2. QED
    BY <2>1, BoundsAssumption DEF Bounded, Init, J!TypeOK, J!Statuses
<1>2. Spec => []J!TypeOK
  BY <1>1, RowsTyped, UsesTheJournal, PTL DEF Spec, J!Spec
<1>3. Spec => [](Bounded)
  BY <1>1, OutsideBounded, PTL DEF Spec
<1>4. IInv /\ J!TypeOK /\ Bounded => TypeOK
  BY DEF Bounded, IInv, Types, TypeOK, Calls
<1>5. QED
  BY <1>2, <1>3, <1>4, StartsSound, StepKeeps, PTL DEF Spec
===============================================================================
