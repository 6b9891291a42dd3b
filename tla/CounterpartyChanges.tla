------------------------- MODULE CounterpartyChanges -------------------------
(***************************************************************************)
(* Registering, changing and deleting one counterparty in the books of     *)
(* several owners: the previews and apply of counterparty_changes.py over  *)
(* the steps of counterparty_backend.py, with the journal they share and   *)
(* HomeTax at the other end.                                               *)
(*                                                                         *)
(* A record is read in three requests: for whom the login acts             *)
(* (_business), the row in the list of that owner (R06), its contacts      *)
(* (R07).  Each answer may have changed before the next, so what a         *)
(* snapshot shows need never have been in the book.  A delete names the    *)
(* counterparty only, so it takes effect for whomever the login acts then. *)
(* Others may edit a book and switch a login at any time.                  *)
(***************************************************************************)
EXTENDS Naturals, FiniteSets

CONSTANTS
    Sessions, Plans,
    Owners,        \* (owner_tin, owner_branch): with the one number, a target
    Values,        \* the business fields, those of a row of the list
    Contacts,      \* the contacts of a counterparty
    NoContacts,    \* none, one of Contacts
    Absent,        \* no such counterparty in the book
    NoKey,
    MaxPreviews,   \* the bound of _prepare, 100 in the code
    MaxOutside     \* bound: edits and login switches by others

Entries == [row: Values, contacts: Contacts]
Records == Entries \cup {Absent}
Payloads == [owner: Owners, create: BOOLEAN, after: Records]

ASSUME RecordsAssumption == NoContacts \in Contacts /\ Absent \notin Entries \cup Values

ASSUME BoundsAssumption == MaxPreviews \in Nat \ {0} /\ MaxOutside \in Nat

ASSUME OwnerKeysAssumption == NoKey \notin Owners \cup Payloads

VARIABLES
    status, target, payload, guards,  \* the journal
    plan,       \* plan[p]: the ChangePlan, and whether self.plans still has it
    calls,      \* calls[s]: the preview or apply under way in session s
    registry,   \* registry[o]: the counterparty in the book of o
    scope,      \* scope[s]: the owner the login of s acts for
    wire,       \* wire[p]: the write request of p, and whose book it changed
    outside,    \* how often others have interfered
    disturbed,  \* history: plans whose record others changed under them
    struck,     \* history: plans whose record a stray delete of the program took
    told        \* told[p]: what the last reply of apply told the user about p

journalVars == <<status, target, payload, guards>>
remoteVars == <<registry, scope, wire, outside, disturbed, struck>>
vars == <<journalVars, plan, calls, remoteVars, told>>

J == INSTANCE WriteJournal
         WITH IssueTargets <- {}, CorrectionTargets <- {}, Contents <- {},
              CounterpartyTargets <- Owners

NoPlan == [at |-> "unused"]
Idle == [at |-> "idle", task |-> "none"]
NoRequest == [at |-> "none"]

Body == [owner: Owners, before: Records, after: Records]
PlanRecord ==
    {[at |-> "live", session |-> s, body |-> b] : s \in Sessions, b \in Body}
        \cup {[at |-> "gone", body |-> b] : b \in Body}

\* The awaits of current (Reads), of new_target (locate, list, rescope, preflight) and
\* of write (authorize, answer). owner and row are what the read has found so far; a
\* preview is to create or not, apply has its plan.
Reads == {"locate", "list", "contacts"}
Previews == Reads \cup {"rescope", "preflight"}
Awaits == Previews \cup {"authorize", "answer"}

PreviewCall ==
    [at: Previews, task: {"preview"}, create: BOOLEAN,
     owner: Owners, row: Values \cup {Absent}]
ApplyCall ==
    [at: Awaits, task: {"reread"}, plan: Plans, owner: Owners, row: Values \cup {Absent}]
        \cup [at: Reads, task: {"readback"}, plan: Plans,
              owner: Owners, row: Values \cup {Absent}]

\* switched is history: the login has acted for another owner since write looked.
RequestRecord ==
    [at: {"sent"}, session: Sessions, switched: BOOLEAN]
        \cup [at: {"refused"}] \cup [at: {"landed"}, owner: Owners]

Meanings == {"nothing", "applied", "not_sent"}

TypeOK ==
    /\ J!TypeOK
    /\ plan \in [Plans -> PlanRecord \cup {NoPlan}]
    /\ calls \in [Sessions -> PreviewCall \cup ApplyCall \cup {Idle}]
    /\ registry \in [Owners -> Records]
    /\ scope \in [Sessions -> Owners]
    /\ wire \in [Plans -> RequestRecord \cup {NoRequest}]
    /\ outside \in 0 .. MaxOutside
    /\ disturbed \in SUBSET Plans /\ struck \in SUBSET Plans
    /\ told \in [Plans -> Meanings]

Init ==
    /\ status = [p \in Plans |-> "absent"]
    /\ target = [p \in Plans |-> NoKey]
    /\ payload = [p \in Plans |-> NoKey]
    /\ guards = [p \in Plans |-> {}]
    /\ plan = [p \in Plans |-> NoPlan]
    /\ calls = [s \in Sessions |-> Idle]
    /\ registry \in [Owners -> Records]
    /\ scope \in [Sessions -> Owners]
    /\ wire = [p \in Plans |-> NoRequest]
    /\ outside = 0
    /\ disturbed = {} /\ struck = {}
    /\ told = [p \in Plans |-> "nothing"]

-----------------------------------------------------------------------------
(***************************************************************************)
(* Calls and previews                                                      *)
(***************************************************************************)
Previewing(s) == calls[s].task = "preview"
PlansOf(s) == {p \in Plans : plan[p].at = "live" /\ plan[p].session = s}

\* Bound: there is an id of Plans for every preview that is being made.
IdLeft ==
    Cardinality({s \in Sessions : Previewing(s)}) < Cardinality({p \in Plans : plan[p] = NoPlan})

\* preview_create asks new_target, preview_update and preview_delete ask current.
Preview(s, create) ==
    /\ calls[s] = Idle   \* the lock of the session, here and in apply
    /\ IdLeft
    /\ calls' = [calls EXCEPT ![s] = [at |-> "locate", task |-> "preview", create |-> create,
                                      owner |-> scope[s], row |-> Absent]]
    /\ UNCHANGED <<journalVars, remoteVars, plan, told>>

\* What is left of a preview that self.plans no longer has: the subject of the
\* attempt, or nothing when it was never applied (its id is as good as fresh).
Forget(p) ==
    IF J!Recorded(p) THEN [at |-> "gone", body |-> plan[p].body] ELSE NoPlan

\* The five minutes of a preview pass; an apply that runs keeps its ChangePlan.
Expire(p) ==
    /\ plan[p].at = "live"
    /\ plan' = [plan EXCEPT ![p] = Forget(p)]
    /\ UNCHANGED <<journalVars, remoteVars, calls, told>>

\* The session is closed, or its process dies in the middle of a call.
LoseSession(s) ==
    /\ plan' = [p \in Plans |-> IF p \in PlansOf(s) THEN Forget(p) ELSE plan[p]]
    /\ calls' = [calls EXCEPT ![s] = Idle]
    /\ UNCHANGED <<journalVars, remoteVars, told>>

-----------------------------------------------------------------------------
(***************************************************************************)
(* apply, up to its first await                                            *)
(***************************************************************************)
OwnerOf(p) == plan[p].body.owner
BeforeOf(p) == plan[p].body.before
AfterOf(p) == plan[p].body.after
IsCreate(p) == BeforeOf(p) = Absent
IsDelete(p) == AfterOf(p) = Absent

PayloadHash(p) == [owner |-> OwnerOf(p), create |-> IsCreate(p), after |-> AfterOf(p)]

BeginReply(p) == J!BeginReply(p, OwnerOf(p), PayloadHash(p), {})

Reread(s, p) ==
    calls' = [calls EXCEPT ![s] = [at |-> "locate", task |-> "reread", plan |-> p,
                                   owner |-> scope[s], row |-> Absent]]

Applicable(s, p) ==
    /\ calls[s] = Idle
    /\ plan[p].at = "live"
    /\ plan[p].session = s

\* Mutated form: the key of the target and the hash of the content are swapped.
StartSwapped(s, p) ==
    /\ Applicable(s, p)
    /\ BeginReply(p) = "started"
    /\ J!InsertAttempt(p, PayloadHash(p), OwnerOf(p), {})
    /\ Reread(s, p)
    /\ UNCHANGED <<remoteVars, plan, told>>

Start(s, p) ==
    /\ Applicable(s, p)
    /\ BeginReply(p) = "started"
    /\ J!InsertAttempt(p, OwnerOf(p), PayloadHash(p), {})
    /\ Reread(s, p)
    /\ UNCHANGED <<remoteVars, plan, told>>

Reply(p, meaning) == told' = [told EXCEPT ![p] = meaning]

\* already_applied, or one of the refusals of begin.
Refuse(s, p) ==
    /\ Applicable(s, p)
    /\ BeginReply(p) # "started"
    /\ Reply(p, IF BeginReply(p) = "complete" THEN "applied"
                ELSE IF BeginReply(p) = "WRITE_REJECTED" THEN "not_sent"
                ELSE "nothing")
    /\ UNCHANGED <<journalVars, remoteVars, plan, calls>>

-----------------------------------------------------------------------------
(***************************************************************************)
(* What a preview and apply make of a snapshot, and of an error            *)
(***************************************************************************)
Running(s, at) == calls[s].at = at
PlanOf(s) == calls[s].plan

\* Mutated form: dispatched is set once write has returned.
DispatchedLate(s) == calls[s].task = "readback"

\* dispatched is set before write is called.
Dispatched(s) == calls[s].task = "readback" \/ calls[s].at \in {"authorize", "answer"}

\* The except clause, and what the error tells: the journal may be out of reach.
Raise(s) ==
    /\ ~Previewing(s)
    /\ \/ J!Finish(PlanOf(s), IF Dispatched(s) THEN "unknown" ELSE "rejected")
       \/ UNCHANGED journalVars
    /\ calls' = [calls EXCEPT ![s] = Idle]
    /\ Reply(PlanOf(s), IF Dispatched(s) THEN "nothing" ELSE "not_sent")
    /\ UNCHANGED <<remoteVars, plan>>

\* The error of a preview leaves nothing behind.
GiveUp(s) ==
    /\ Previewing(s)
    /\ calls' = [calls EXCEPT ![s] = Idle]
    /\ UNCHANGED <<journalVars, remoteVars, plan, told>>

\* An await raises: an error of HomeTax or of its reply, what the reply shows
\* (COUNTERPARTY_ALREADY_EXISTS, ..._NOT_FOUND), the connection, or the cancellation
\* by the 60 second limit of the request.
Fail(s) ==
    /\ calls[s] # Idle
    /\ Raise(s) \/ GiveUp(s)

\* _prepare of a change (NO_CHANGE), under a fresh id; only preview_create goes on
\* without a record.
Prepare(s, p, o, seen) ==
    /\ Previewing(s)
    /\ plan[p] = NoPlan
    /\ Cardinality(PlansOf(s)) < MaxPreviews
    /\ (seen = Absent) = calls[s].create
    /\ \E after \in Records \ {seen} :
           plan' = [plan EXCEPT ![p] =
                       [at |-> "live", session |-> s,
                        body |-> [owner |-> o, before |-> seen, after |-> after]]]
    /\ calls' = [calls EXCEPT ![s] = Idle]
    /\ told' = [told EXCEPT ![p] = "nothing"]
    /\ UNCHANGED <<journalVars, remoteVars>>

\* Mutated form: contacts are left out of the fingerprint.
StableByRow(s, o, seen) ==
    /\ o = OwnerOf(PlanOf(s))
    /\ (seen = Absent) = IsCreate(PlanOf(s))
    /\ seen # Absent => seen.row = BeforeOf(PlanOf(s)).row

\* The snapshot is that of the preview; of a create, the number is still unknown.
Stable(s, o, seen) == o = OwnerOf(PlanOf(s)) /\ seen = BeforeOf(PlanOf(s))

Compare(s, o, seen) ==
    /\ calls[s].task = "reread"
    /\ \/ /\ Stable(s, o, seen)
          /\ calls' = [calls EXCEPT ![s].at = "authorize", ![s].row = Absent]
          /\ UNCHANGED <<journalVars, remoteVars, plan, told>>
       \/ /\ ~Stable(s, o, seen)
          /\ Raise(s)

\* Mutated form: same_scope is not looked at for a delete.
VerifiedAnywhere(s, o, seen) ==
    /\ IsDelete(PlanOf(s)) \/ o = OwnerOf(PlanOf(s))
    /\ seen = AfterOf(PlanOf(s))

\* The record read back, in the same scope, is the one confirmed.
Verified(s, o, seen) == o = OwnerOf(PlanOf(s)) /\ seen = AfterOf(PlanOf(s))

Verify(s, o, seen) ==
    /\ calls[s].task = "readback"
    /\ \/ /\ Verified(s, o, seen)
          /\ J!Finish(PlanOf(s), "complete")
          /\ calls' = [calls EXCEPT ![s] = Idle]
          /\ Reply(PlanOf(s), "applied")
          /\ UNCHANGED <<remoteVars, plan>>
       \/ Raise(s)   \* not verified, or the journal cannot say that it is

\* What the caller of the read does with the record seen in the book of o.
Conclude(s, o, seen) ==
    \/ \E p \in Plans : Prepare(s, p, o, seen)
    \/ Compare(s, o, seen)
    \/ Verify(s, o, seen)

-----------------------------------------------------------------------------
(***************************************************************************)
(* The awaits of current, new_target and write                             *)
(***************************************************************************)
NewTarget(s) ==
    \/ Previewing(s) /\ calls[s].create
    \/ calls[s].task = "reread" /\ IsCreate(PlanOf(s))

\* _business: the owner whose book the next request asks for, here before R06 ...
Locate(s) ==
    /\ Running(s, "locate")
    /\ calls' = [calls EXCEPT ![s].at = "list", ![s].owner = scope[s]]
    /\ UNCHANGED <<journalVars, remoteVars, plan, told>>

\* ... and here, in new_target, after it: the owner of the snapshot.
Rescope(s) ==
    /\ Running(s, "rescope")
    /\ calls' = [calls EXCEPT ![s].at = "preflight", ![s].owner = scope[s]]
    /\ UNCHANGED <<journalVars, remoteVars, plan, told>>

\* R06: new_target goes on when it finds no row, current keeps the one it finds.
List(s) ==
    LET found == registry[calls[s].owner] IN
    /\ Running(s, "list")
    /\ \/ /\ NewTarget(s) /\ found = Absent
          /\ calls' = [calls EXCEPT ![s].at = "rescope"]
          /\ UNCHANGED <<journalVars, remoteVars, plan, told>>
       \/ /\ ~NewTarget(s) /\ found # Absent
          /\ calls' = [calls EXCEPT ![s].at = "contacts", ![s].row = found.row]
          /\ UNCHANGED <<journalVars, remoteVars, plan, told>>
       \/ /\ ~NewTarget(s) /\ found = Absent
          /\ Conclude(s, calls[s].owner, Absent)

\* R04, after R05 and R01, which are not about the book: the count of this owner.
Preflight(s) ==
    /\ Running(s, "preflight")
    /\ registry[calls[s].owner] = Absent
    /\ Conclude(s, calls[s].owner, Absent)

ContactsIn(o) == IF registry[o] = Absent THEN NoContacts ELSE registry[o].contacts

\* R07: the contacts as they are now; none, or an error, for a counterparty that has
\* gone meanwhile. With the row of R06 they make the snapshot.
ReadContacts(s) ==
    /\ Running(s, "contacts")
    /\ Conclude(s, calls[s].owner,
                [row |-> calls[s].row, contacts |-> ContactsIn(calls[s].owner)])

\* Mutated form: what write is told of the scope is not compared.
SendUnchecked(s) ==
    /\ Running(s, "authorize")
    /\ wire' = [wire EXCEPT ![PlanOf(s)] = [at |-> "sent", session |-> s, switched |-> FALSE]]
    /\ calls' = [calls EXCEPT ![s].at = "answer"]
    /\ UNCHANGED <<journalVars, registry, scope, outside, disturbed, struck, plan, told>>

\* write asks for the scope once more, then sends its one request.
Send(s) ==
    /\ Running(s, "authorize")
    /\ \/ /\ scope[s] = OwnerOf(PlanOf(s))
          /\ wire' = [wire EXCEPT ![PlanOf(s)] =
                         [at |-> "sent", session |-> s, switched |-> FALSE]]
          /\ calls' = [calls EXCEPT ![s].at = "answer"]
          /\ UNCHANGED <<journalVars, registry, scope, outside, disturbed, struck, plan, told>>
       \/ /\ scope[s] # OwnerOf(PlanOf(s))
          /\ Raise(s)

\* HomeTax reports success (_ok); the change is read back.
Answer(s) ==
    /\ Running(s, "answer")
    /\ wire[PlanOf(s)].at = "landed"
    /\ calls' = [calls EXCEPT ![s].at = "locate", ![s].task = "readback"]
    /\ UNCHANGED <<journalVars, remoteVars, plan, told>>

-----------------------------------------------------------------------------
(***************************************************************************)
(* HomeTax and the others who use it                                       *)
(***************************************************************************)
\* Whose book a request is about: only a create and an update carry the owner.
Addressee(p) == IF IsDelete(p) THEN scope[wire[p].session] ELSE OwnerOf(p)

LandedAtHome(p) == wire[p] = [at |-> "landed", owner |-> OwnerOf(p)]

\* The re-read has begun to look at the record, from the row of R06 on, or for a
\* create from the count of R04 on.
Looked(s) ==
    \/ calls[s].task = "reread" /\ calls[s].at \in {"contacts", "authorize", "answer"}
    \/ calls[s].task = "readback"

\* ... and the write has still to land there.
Exposed(p) ==
    \/ wire[p].at = "sent"
    \/ ~LandedAtHome(p) /\ \E s \in Sessions : Looked(s) /\ PlanOf(s) = p

ExposedIn(o) == {p \in Plans : plan[p] # NoPlan /\ OwnerOf(p) = o /\ Exposed(p)}

\* HomeTax acts on a request, perhaps long after its call has ended. A delete that
\* lands in another book strikes the record from under the plans about that book.
Land(p) ==
    LET o == Addressee(p) IN
    /\ wire[p].at = "sent"
    /\ registry' = [registry EXCEPT ![o] = AfterOf(p)]
    /\ wire' = [wire EXCEPT ![p] = [at |-> "landed", owner |-> o]]
    /\ struck' = IF o = OwnerOf(p) THEN struck ELSE struck \cup ExposedIn(o)
    /\ UNCHANGED <<journalVars, plan, calls, scope, outside, disturbed, told>>

Decline(p) ==
    /\ wire[p].at = "sent"
    /\ wire' = [wire EXCEPT ![p] = [at |-> "refused"]]
    /\ UNCHANGED <<journalVars, plan, calls, registry, scope, outside, disturbed, struck, told>>

\* Someone edits the record of o on a HomeTax screen.
Edit(o, r) ==
    /\ outside < MaxOutside
    /\ r # registry[o]
    /\ outside' = outside + 1
    /\ registry' = [registry EXCEPT ![o] = r]
    /\ disturbed' = disturbed \cup ExposedIn(o)
    /\ UNCHANGED <<journalVars, plan, calls, scope, wire, struck, told>>

\* The login now acts for another owner.
Switch(s, o) ==
    /\ outside < MaxOutside
    /\ o # scope[s]
    /\ outside' = outside + 1
    /\ scope' = [scope EXCEPT ![s] = o]
    /\ wire' = [p \in Plans |->
                   IF wire[p].at = "sent" /\ wire[p].session = s
                   THEN [wire[p] EXCEPT !.switched = TRUE] ELSE wire[p]]
    /\ UNCHANGED <<journalVars, plan, calls, registry, disturbed, struck, told>>

Proceed(s) ==
    \/ Locate(s) \/ List(s) \/ ReadContacts(s) \/ Rescope(s) \/ Preflight(s)
    \/ Send(s) \/ Answer(s) \/ Fail(s)

Others ==
    \/ \E o \in Owners, r \in Records : Edit(o, r)
    \/ \E s \in Sessions, o \in Owners : Switch(s, o)

Next ==
    \/ \E s \in Sessions :
          \/ \E create \in BOOLEAN : Preview(s, create)
          \/ \E p \in Plans : Start(s, p) \/ Refuse(s, p)
          \/ Proceed(s)
          \/ LoseSession(s)
    \/ \E p \in Plans : Expire(p) \/ Land(p) \/ Decline(p)
    \/ Others

Spec == Init /\ [][Next]_vars

-----------------------------------------------------------------------------
\* counterparty_changes.py:347-365: complete means that the write took effect in
\* the book the user confirmed, wherever the login acted meanwhile; only if the very
\* record was changed by others, or struck by a delete of the program that went
\* astray, may that have done it instead.
CompleteIsOurs ==
    \A p \in Plans :
        status[p] = "complete" => LandedAtHome(p) \/ p \in disturbed \cup struck

Lands(p) == wire[p].at = "sent" /\ wire'[p].at = "landed"

\* docs/COUNTERPARTIES.md:98-103: a change lands on the record that the user saw, row
\* and contacts together, unless someone edited it, or a delete of the program went
\* astray into it, since the re-read read the first of the two. So the writes of the
\* program meant for one record never race, not even one whose outcome is open and
\* which lands late.
NoLostUpdate ==
    [][\A p \in Plans : Lands(p) /\ LandedAtHome(p)'
           => registry[OwnerOf(p)] = BeforeOf(p) \/ p \in disturbed \cup struck]_vars

\* counterparty_backend.py:321-349: write looks for whom the login acts just before it
\* sends. A write goes astray only as a delete, and only if the login was switched
\* after that look: never by a switch during the preview, the re-read or the look.
StrayOnlyAfterSwitch ==
    [][\A p \in Plans : Lands(p) /\ ~LandedAtHome(p)'
           => IsDelete(p) /\ wire[p].switched]_vars

\* counterparty_changes.py:340-382: what the journal calls rejected never left the
\* process, so a new preview of the counterparty is safe; an error that does not say
\* the outcome is open means nothing was sent, and applied or already_applied that it
\* took effect.
RepliesAreHonest ==
    \A p \in Plans :
        /\ status[p] = "rejected" \/ told[p] = "not_sent" => wire[p] = NoRequest
        /\ told[p] = "applied" => wire[p].at = "landed"
=============================================================================
