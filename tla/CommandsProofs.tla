---------------------------- MODULE CommandsProofs ----------------------------
(***************************************************************************)
(* What a client does, for any ledger, register, commands and requests: no *)
(* query is refused, every day of a period is in one query, every row of a *)
(* query is read once, a report that is printed says what the ledger says, *)
(* what is signed was previewed, and a write that completes has settled    *)
(* the original.                                                           *)
(*                                                                         *)
(* A client behaves as InvoiceDocuments and as Reports do (ClientWrites,   *)
(* ClientReports), so each of them is reasoned about alone.  For a write,  *)
(* the invariant follows the plan from its preview on: the original is     *)
(* there and stays as it was, since HomeTax acts on numbers that were not  *)
(* in use, and the register stands still once the client reads it back.    *)
(* For a report, a query that was valid when the command began stays       *)
(* valid, as days only pass, and its books stay as they are, as its period *)
(* is over: pages of different days fit together.  Rows add up to what     *)
(* their entries add up to, and every entry is in the rows of one query.   *)
(***************************************************************************)
EXTENDS Commands, FiniteSetTheorems, SequenceTheorems, WellFoundedInduction, TLAPS

-----------------------------------------------------------------------------
(***************************************************************************)
(* One write                                                               *)
(***************************************************************************)
Unplanned == {"idle", "refused", "not_listed"}
Unsigned == Unplanned \cup {"previewed", "refresh", "create"}

\* The first document takes back the original, which is as it was at the preview.
Reverses(r, d) ==
    LET o == Original(r) IN
    /\ o # NoDocument /\ Total(o.lines) = o.sum
    /\ d.original = r.original
    /\ d.sum = -o.sum

PlanIsRight ==
    at \notin Unplanned =>
        /\ prepared.request \in Requests
        /\ Len(prepared.docs) \in {1, 2} /\ DOMAIN prepared.docs = 1 .. Len(prepared.docs)
        /\ prepared.request.operation # "issue" => Reverses(prepared.request, prepared.docs[1])

\* Numbers that HomeTax has still to use are free; afterwards nothing is on its way.
SentIsFree ==
    /\ sent => \A i \in DOMAIN made : register[made[i].number] = NoDocument
    /\ at \in Unsigned => signed = {} /\ ~sent
    /\ at \in {"readback", "complete"} => ~sent

ReadSoFar ==
    /\ at \notin {"readback", "complete", "raised"} => checked = 0
    /\ at = "readback" => checked \in 0 .. Len(prepared.docs) - 1
    /\ at = "complete" => checked = Len(prepared.docs)
    /\ at \in {"readback", "complete"} =>
          \A j \in 1 .. checked :
              register[made[j].number] = prepared.docs[j] /\ Readable(prepared.docs[j])

IInv ==
    /\ at \in Awaits \cup Ends
    /\ at = "idle" => register \in Registers
    /\ PlanIsRight /\ SentIsFree /\ ReadSoFar /\ SignedIsPreviewed

-----------------------------------------------------------------------------
\* A negative document has the negative sum and names the original
\* (issuance_backend.py:408-435).
LEMMA NegativeReverses ==
    ASSUME NEW d, DOMAIN d = Fields, d.sum \in Int, d.sum > 0,
           NEW w, NEW u, NEW n, NEW reason
    PROVE  Negative(d, w, u, n, reason).sum = -d.sum
           /\ Negative(d, w, u, n, reason).original = n
  BY DEF Negative, Fields, Abs

\* What a preview makes of a request (issuance_backend.py:66-225).
LEMMA PreviewedDocuments ==
    ASSUME register \in Registers, NEW r \in Requests, Allowed(r)
    PROVE  /\ Len(Documents(r)) \in {1, 2} /\ DOMAIN Documents(r) = 1 .. Len(Documents(r))
           /\ r.operation # "issue" => Reverses(r, Documents(r)[1])
<1> DEFINE d == Original(r)
<1>1. CASE r.operation = "issue"
  BY <1>1 DEF Documents
<1>2. CASE r.operation # "issue"
  <2>1. r.original \in Numbers
    BY <1>2, RequestsAssumption
  <2>2. d # NoDocument /\ Total(d.lines) = d.sum /\ d.sum > 0
    BY <1>2 DEF Allowed, Correctable, Readable
  <2>3. d.sum \in Int /\ DOMAIN d = Fields
    BY <2>1, <2>2, RegistersAssumption DEF Original
  <2>4. \E w, u, reason :
           \/ Documents(r) = <<Negative(d, w, u, r.original, reason)>>
           \/ \E e : Documents(r) = <<Negative(d, w, u, r.original, reason), e>>
    BY <1>2 DEF Documents
  <2>5. QED
    BY <2>2, <2>3, <2>4, NegativeReverses DEF Reverses
<1>3. QED
  BY <1>1, <1>2

-----------------------------------------------------------------------------
\* Steps that leave the register alone keep the plan.
LEMMA PlanStays ==
    ASSUME IInv, at \notin Unplanned, UNCHANGED <<register, prepared>>
    PROVE  PlanIsRight'
  BY DEF IInv, PlanIsRight, Reverses, Original

\* A preview plans what PreviewedDocuments says, or nothing.
LEMMA PreviewKeeps ==
    ASSUME IInv, NEW r \in Requests, Preview(r)
    PROVE  IInv'
<1>1. at = "idle" /\ register \in Registers /\ signed = {} /\ ~sent /\ checked = 0
  BY DEF Preview, IInv, SentIsFree, ReadSoFar, Unsigned, Unplanned
<1>2. UNCHANGED <<register, signed, sent, checked, made, trust>>
  BY DEF Preview, world
<1>3. CASE Allowed(r) /\ at' = "previewed" /\ prepared' = [request |-> r, docs |-> Documents(r)]
  <2>1. at' = "previewed" /\ prepared' = [request |-> r, docs |-> Documents(r)]
    BY <1>3
  <2>2. PlanIsRight'
    BY <1>1, <1>2, <1>3, <2>1, PreviewedDocuments DEF PlanIsRight, Reverses, Original
  <2>3. QED
    BY <1>1, <1>2, <2>1, <2>2
       DEF IInv, Awaits, SentIsFree, ReadSoFar, SignedIsPreviewed, Unsigned, Unplanned
<1>4. CASE at' \in {"not_listed", "refused"}
  BY <1>1, <1>2, <1>4
     DEF IInv, Ends, PlanIsRight, SentIsFree, ReadSoFar, SignedIsPreviewed, Unsigned, Unplanned
<1>5. QED
  BY <1>3, <1>4 DEF Preview

\* issue before the request for the XML: nothing is signed.
LEMMA IssueKeeps ==
    ASSUME IInv, NEW e \in Encodings, NEW t \in BOOLEAN, Issue(e, t)
    PROVE  IInv'
<1>1. /\ at = "previewed" /\ signed = {} /\ ~sent /\ checked = 0
      /\ at' \in {"raised", "refresh"}
      /\ UNCHANGED <<register, prepared, signed, sent, checked, made>>
  BY DEF Issue, IInv, SentIsFree, ReadSoFar, Unsigned, world
<1>2. PlanIsRight'
  BY <1>1, PlanStays DEF Unplanned
<1>3. QED
  BY <1>1, <1>2
     DEF IInv, Awaits, Ends, SentIsFree, ReadSoFar, SignedIsPreviewed, Unsigned, Unplanned

\* Previewed again, or raised: nothing is signed yet (issuance_backend.py:227-244).
LEMMA RefreshKeeps == ASSUME IInv, Refresh PROVE IInv'
<1>1. /\ at = "refresh" /\ signed = {} /\ ~sent /\ checked = 0
      /\ at' \in {"raised", "create"}
      /\ UNCHANGED <<register, prepared, signed, sent, checked, made, trust>>
  BY DEF Refresh, IInv, SentIsFree, ReadSoFar, Unsigned, world
<1>2. PlanIsRight'
  BY <1>1, PlanStays DEF Unplanned
<1>3. QED
  BY <1>1, <1>2
     DEF IInv, Awaits, Ends, SentIsFree, ReadSoFar, SignedIsPreviewed, Unsigned, Unplanned

\* The XML is compared, its documents are signed and sent (issuance_backend.py:246-301).
LEMMA CreateKeeps == ASSUME IInv, Create PROVE IInv'
<1>1. /\ at = "create" /\ signed = {} /\ ~sent /\ checked = 0
      /\ UNCHANGED <<register, prepared, checked, trust>>
  BY DEF Create, IInv, SentIsFree, ReadSoFar, Unsigned, world
<1>2. PlanIsRight'
  BY <1>1, PlanStays DEF Unplanned
<1>3. PICK answer \in Answers(prepared.docs) :
        IF ~Matches(answer, prepared.docs)
        THEN at' = "raised" /\ UNCHANGED <<made, sent, signed>>
        ELSE \E subject \in {answer[1].doc, Other(answer[1].doc)} :
                IF wire = "signedinfo" /\ ~Verified(subject, answer)
                THEN at' = "raised" /\ UNCHANGED <<made, sent, signed>>
                ELSE /\ at' = "commit"
                     /\ made' = answer
                     /\ sent' = TRUE
                     /\ signed' = signed \cup (IF wire = "signedinfo" THEN {subject}
                                               ELSE {answer[i].doc : i \in DOMAIN answer})
  BY DEF Create
<1>4. CASE at' = "raised" /\ UNCHANGED <<made, sent, signed>>
  BY <1>1, <1>2, <1>4 DEF IInv, Ends, SentIsFree, ReadSoFar, SignedIsPreviewed, Unsigned, Unplanned
<1>5. ASSUME NEW subject, Matches(answer, prepared.docs),
             wire = "signedinfo" => Verified(subject, answer),
             at' = "commit", made' = answer, sent' = TRUE,
             signed' = signed \cup (IF wire = "signedinfo" THEN {subject}
                                    ELSE {answer[i].doc : i \in DOMAIN answer})
      PROVE  IInv'
  <2>1. /\ DOMAIN answer = DOMAIN prepared.docs
        /\ \A i \in DOMAIN prepared.docs : answer[i].doc = prepared.docs[i]
    BY <1>5 DEF Matches
  <2>2. 1 \in DOMAIN prepared.docs
    BY <1>1 DEF IInv, PlanIsRight, Unplanned
  <2>3. \A d \in signed' : trust \/ d \in ToSet(prepared.docs)
    BY <1>1, <1>5, <2>1, <2>2 DEF Verified, ToSet
  <2>4. \A i \in DOMAIN answer : register[answer[i].number] = NoDocument
    BY DEF Answers, Unused
  <2>5. QED
    BY <1>1, <1>2, <1>5, <2>3, <2>4
       DEF IInv, Awaits, SentIsFree, ReadSoFar, SignedIsPreviewed, Unsigned, Unplanned
<1>6. QED
  BY <1>3, <1>4, <1>5

-----------------------------------------------------------------------------
\* HomeTax writes to the numbers it made, which were free: the original stays.
LEMMA ActKeeps == ASSUME IInv, Act PROVE IInv'
<1>1. /\ sent /\ sent' = FALSE
      /\ UNCHANGED <<at, prepared, made, trust, checked, signed>>
  BY DEF Act
<1>2. at \notin Unsigned \cup {"readback", "complete"}
  BY <1>1 DEF IInv, SentIsFree
<1>3. \A n \in Numbers : register[n] # NoDocument => register'[n] = register[n]
  <2> SUFFICES ASSUME NEW n \in Numbers, register[n] # NoDocument
               PROVE  register'[n] = register[n]
    OBVIOUS
  <2>1. \A i \in DOMAIN made : made[i].number # n
    BY <1>1 DEF IInv, SentIsFree
  <2>2. QED
    BY <2>1 DEF Act
<1>4. PlanIsRight'
  <2> SUFFICES ASSUME prepared.request.operation # "issue", at \notin Unplanned
               PROVE  Reverses(prepared.request, prepared.docs[1])'
    BY <1>1 DEF IInv, PlanIsRight
  <2>1. prepared.request.original \in Numbers
    BY RequestsAssumption DEF IInv, PlanIsRight
  <2>2. QED
    BY <1>1, <1>3, <2>1 DEF IInv, PlanIsRight, Reverses, Original
<1>5. QED
  BY <1>1, <1>2, <1>4 DEF IInv, SentIsFree, ReadSoFar, SignedIsPreviewed, Unsigned, Unplanned

\* The numbers are accepted or not; nothing is read back yet (issuance_backend.py:281-301).
LEMMA CommittedKeeps == ASSUME IInv, Committed PROVE IInv'
<1>1. /\ at = "commit" /\ ~sent /\ checked = 0
      /\ at' \in {"readback", "raised"}
      /\ UNCHANGED <<register, prepared, signed, sent, checked, made, trust>>
  BY DEF Committed, IInv, ReadSoFar, world
<1>2. PlanIsRight'
  BY <1>1, PlanStays DEF Unplanned
<1>3. Len(prepared.docs) \in {1, 2}
  BY <1>1 DEF IInv, PlanIsRight, Unplanned
<1>4. QED
  BY <1>1, <1>2, <1>3
     DEF IInv, Awaits, Ends, SentIsFree, ReadSoFar, SignedIsPreviewed, Unsigned, Unplanned

\* One document more is as previewed (issuance_backend.py:993-1012).
LEMMA ReadBackKeeps == ASSUME IInv, ReadBack PROVE IInv'
<1> DEFINE i == checked + 1
<1>1. /\ at = "readback" /\ ~sent
      /\ UNCHANGED <<register, prepared, signed, sent, made, trust>>
  BY DEF ReadBack, IInv, SentIsFree, world
<1>2. PlanIsRight'
  BY <1>1, PlanStays DEF Unplanned
<1>3. checked \in 0 .. Len(prepared.docs) - 1 /\ Len(prepared.docs) \in {1, 2}
  BY <1>1 DEF IInv, ReadSoFar, PlanIsRight, Unplanned
<1>4. CASE at' = "raised" /\ UNCHANGED checked
  BY <1>1, <1>2, <1>4 DEF IInv, Ends, SentIsFree, ReadSoFar, SignedIsPreviewed, Unsigned, Unplanned
<1>5. CASE /\ Agrees(register[made[i].number], i)
           /\ checked' = i
           /\ at' = IF i = Len(prepared.docs) THEN "complete" ELSE at
  <2>1. register[made[i].number] = prepared.docs[i] /\ Readable(prepared.docs[i])
    BY <1>5 DEF Agrees
  <2>2. \A j \in 1 .. i :
           register[made[j].number] = prepared.docs[j] /\ Readable(prepared.docs[j])
    BY <1>1, <1>3, <2>1 DEF IInv, ReadSoFar
  <2>3. ReadSoFar'
    BY <1>1, <1>3, <1>5, <2>2 DEF ReadSoFar, Readable
  <2>4. QED
    BY <1>1, <1>2, <1>5, <2>3
       DEF IInv, Awaits, Ends, SentIsFree, SignedIsPreviewed, Unsigned, Unplanned
<1>6. QED
  BY <1>1, <1>4, <1>5 DEF ReadBack

\* A request that fails ends the operation where it stands.
LEMMA FailKeeps == ASSUME IInv, Fail PROVE IInv'
<1>1. /\ at \notin Unplanned /\ at' = "raised"
      /\ UNCHANGED <<register, prepared, signed, sent, checked, made, trust>>
  BY DEF Fail, Unplanned, world
<1>2. PlanIsRight'
  BY <1>1, PlanStays
<1>3. QED
  BY <1>1, <1>2 DEF IInv, Ends, SentIsFree, ReadSoFar, SignedIsPreviewed, Unsigned, Unplanned

-----------------------------------------------------------------------------
\* No step of the client, of HomeTax or of the recipient breaks the invariant.
LEMMA StepKeeps == IInv /\ [Next]_vars => IInv'
<1> SUFFICES ASSUME IInv, [Next]_vars PROVE IInv'
  OBVIOUS
<1>1. ASSUME UNCHANGED <<register, at, prepared, made, sent, checked, signed, trust>>
      PROVE  IInv'
  BY <1>1
     DEF IInv, PlanIsRight, Reverses, Original, SentIsFree, ReadSoFar, SignedIsPreviewed
<1>2. ASSUME NEW direction \in Directions, List(direction)
      PROVE  IInv'
  BY <1>1, <1>2 DEF List
<1>3. CASE Write
  BY <1>3, PreviewKeeps, IssueKeeps, RefreshKeeps, CreateKeeps, ActKeeps, CommittedKeeps,
     ReadBackKeeps, FailKeeps DEF Write
<1>4. CASE Change
  BY <1>1, <1>4 DEF Change
<1>5. CASE UNCHANGED vars
  BY <1>1, <1>5 DEF vars
<1>6. QED
  BY <1>2, <1>3, <1>4, <1>5 DEF Next

\* Nothing is planned at the start.
LEMMA StartsRight == Init => IInv
  BY DEF Init, IInv, Awaits, PlanIsRight, SentIsFree, ReadSoFar, SignedIsPreviewed, Unplanned

\* issuance_backend.py:268-281, 886-925: what is signed was previewed, or trusted.
THEOREM SignedIsPreviewedHolds == Spec => []SignedIsPreviewed
<1>1. IInv => SignedIsPreviewed
  BY DEF IInv
<1>2. QED
  BY <1>1, StartsRight, StepKeeps, PTL DEF Spec

\* issuance_backend.py:288-309, 408-435: a write that completes has settled the original.
THEOREM CompleteIsSettledHolds == Spec => []CompleteIsSettled
<1>1. IInv => CompleteIsSettled
  <2> SUFFICES ASSUME IInv, at = "complete" PROVE CompleteIsSettled
    BY DEF CompleteIsSettled
  <2> DEFINE docs == prepared.docs
             r == prepared.request
  <2>1. Len(docs) \in {1, 2} /\ DOMAIN docs = 1 .. Len(docs) /\ checked = Len(docs)
    BY DEF IInv, PlanIsRight, ReadSoFar, Unplanned
  <2>2. \A j \in DOMAIN docs : register[made[j].number] = docs[j] /\ Readable(docs[j])
    BY <2>1 DEF IInv, ReadSoFar
  <2>3. ASSUME r.operation # "issue"
        PROVE  LET d == register[made[1].number]
                   o == Original(r)
               IN d.original = r.original /\ d.sum = -o.sum /\ Total(d.lines) = -Total(o.lines)
    BY <2>1, <2>2, <2>3 DEF IInv, PlanIsRight, Unplanned, Reverses, Readable
  <2>4. QED
    BY <2>2, <2>3 DEF CompleteIsSettled
<1>2. QED
  BY <1>1, StartsRight, StepKeeps, PTL DEF Spec

-----------------------------------------------------------------------------
(***************************************************************************)
(* The types of one write                                                  *)
(***************************************************************************)
\* What is at HomeTax, previewed or made is a document.
IsDocument(d) == DOMAIN d = Fields /\ d.sum \in Int /\ d.reason \in Reasons

PlanTyped ==
    /\ Len(prepared.docs) \in Nat /\ DOMAIN prepared.docs = 1 .. Len(prepared.docs)
    /\ \A i \in DOMAIN prepared.docs : IsDocument(prepared.docs[i])
    /\ at # "idle" => prepared.request \in Requests
    /\ checked \in 0 .. Len(prepared.docs)

MadeTyped ==
    /\ \A i \in DOMAIN made : IsDocument(made[i].doc) /\ made[i].number \in Numbers
    /\ at \in {"commit", "readback"} => Len(made) = Len(prepared.docs)

RegisterTyped == \A n \in Numbers : register[n] # NoDocument => IsDocument(register[n])

RestTyped ==
    /\ party \in Parties /\ changes \in 0 .. MaxChanges
    /\ references \in [Numbers -> Directions \cup {"none"}]
    /\ at \in Awaits \cup Ends
    /\ wire \in Encodings /\ trust \in BOOLEAN /\ sent \in BOOLEAN

Typed == PlanTyped /\ MadeTyped /\ RegisterTyped /\ RestTyped

\* A preview is made of documents (issuance_backend.py:66-225).
LEMMA PreviewsAreDocuments ==
    ASSUME RegisterTyped, NEW r \in Requests, Allowed(r)
    PROVE  /\ Len(Documents(r)) \in Nat /\ DOMAIN Documents(r) = 1 .. Len(Documents(r))
           /\ \A i \in DOMAIN Documents(r) : IsDocument(Documents(r)[i])
<1> DEFINE d == Original(r)
<1>1. \A reason \in Reasons : IsDocument(Replacement(r, reason))
  BY RequestsAssumption DEF IsDocument, Replacement, Document, Fields
<1>2. {"none", "01", "04"} \subseteq Reasons
  BY DEF Reasons
<1>3. CASE r.operation = "issue"
  <2>1. Documents(r) = <<Replacement(r, "none")>>
    BY <1>3 DEF Documents
  <2>2. QED
    BY <1>1, <1>2, <2>1
<1>4. CASE r.operation # "issue"
  <2>1. r.original \in Numbers /\ r.reason \in Reasons
    BY <1>4, RequestsAssumption
  <2>2. IsDocument(d)
    BY <1>4, <2>1 DEF RegisterTyped, Original, Allowed, Correctable, Readable
  <2>3. \A w, u : \A reason \in Reasons : IsDocument(Negative(d, w, u, r.original, reason))
    <3> SUFFICES ASSUME NEW w, NEW u, NEW reason \in Reasons
                 PROVE  IsDocument(Negative(d, w, u, r.original, reason))
      OBVIOUS
    <3> DEFINE e == Negative(d, w, u, r.original, reason)
    <3> HIDE DEF d
    <3>1. DOMAIN e = Fields /\ e.sum = -Abs(d.sum) /\ e.reason = reason
      BY <2>2 DEF IsDocument, Negative, Fields
    <3>2. -Abs(d.sum) \in Int
      BY <2>2 DEF IsDocument, Abs
    <3>3. QED
      BY <3>1, <3>2 DEF IsDocument
  <2>4. \E w, u : \E reason \in Reasons :
           \/ Documents(r) = <<Negative(d, w, u, r.original, reason)>>
           \/ Documents(r) = <<Negative(d, w, u, r.original, reason), Replacement(r, "01")>>
    <3>0. r.operation \in {"correct", "cancel"}
      BY <1>4, RequestsAssumption
    <3>1. CASE r.operation = "correct"
      <4>1. Documents(r) = <<Negative(d, d.written, d.supplied, r.original, "01"), Replacement(r, "01")>>
        BY <3>1 DEF Documents
      <4>2. QED
        BY <1>2, <4>1
    <3>2. CASE r.operation # "correct" /\ r.reason = "04"
      <4>1. Documents(r) = <<Negative(d, r.written, r.written, r.original, "04")>>
        BY <3>0, <3>2 DEF Documents
      <4>2. QED
        BY <1>2, <4>1
    <3>3. CASE r.operation # "correct" /\ r.reason # "04"
      <4>1. Documents(r) = <<Negative(d, d.written, d.supplied, r.original, r.reason)>>
        BY <3>0, <3>3 DEF Documents
      <4>2. QED
        BY <2>1, <4>1
    <3>4. QED
      BY <3>1, <3>2, <3>3
  <2>5. QED
    BY <1>1, <1>2, <2>3, <2>4
<1>5. QED
  BY <1>3, <1>4

\* A preview makes documents of its requests, or plans nothing.
LEMMA PreviewTyped ==
    ASSUME IInv, Typed, NEW r \in Requests, Preview(r)
    PROVE  Typed'
<1>1. at = "idle" /\ checked = 0
  BY DEF Preview, IInv, ReadSoFar
<1>2. /\ UNCHANGED <<register, party, changes, references, wire, trust, made, sent, checked>>
      /\ at' \in {"previewed", "not_listed", "refused"}
      /\ at' = "previewed" => Allowed(r)
      /\ prepared' = [request |-> r, docs |-> IF at' = "previewed" THEN Documents(r) ELSE <<>>]
  BY DEF Preview, world
<1>3. RegisterTyped' /\ RestTyped' /\ MadeTyped'
  BY <1>2 DEF Typed, RegisterTyped, RestTyped, MadeTyped, Awaits, Ends
<1>4. PlanTyped'
  <2>1. /\ prepared'.request = r
        /\ prepared'.docs = IF at' = "previewed" THEN Documents(r) ELSE <<>>
        /\ at' = "previewed" => Allowed(r)
    BY <1>2
  <2>2. /\ Len(prepared'.docs) \in Nat /\ DOMAIN prepared'.docs = 1 .. Len(prepared'.docs)
        /\ \A i \in DOMAIN prepared'.docs : IsDocument(prepared'.docs[i])
    <3>1. CASE at' = "previewed"
      BY <2>1, <3>1, PreviewsAreDocuments DEF Typed
    <3>2. CASE at' # "previewed"
      BY <2>1, <3>2
    <3>3. QED
      BY <3>1, <3>2
  <2>3. QED
    BY <1>1, <1>2, <2>1, <2>2 DEF PlanTyped
<1>5. QED
  BY <1>3, <1>4 DEF Typed

\* So does the write as it numbers them.
LEMMA CreateTyped ==
    ASSUME IInv, Typed, Create
    PROVE  Typed'
<1> DEFINE docs == prepared.docs
           n == Len(docs)
<1>1. UNCHANGED <<register, party, changes, references, prepared, wire, trust, checked>> /\ at = "create"
  BY DEF Create, world
<1>2. \/ at' = "raised" /\ UNCHANGED <<made, sent>>
      \/ /\ at' = "commit" /\ sent' = TRUE
         /\ \E answer \in Answers(docs) : Matches(answer, docs) /\ made' = answer
  BY DEF Create
<1>3. PlanTyped' /\ RegisterTyped' /\ RestTyped'
  <2>1. PlanTyped' /\ RegisterTyped'
    BY <1>1, <1>2 DEF Typed, PlanTyped, RegisterTyped
  <2>2. RestTyped'
    BY <1>1, <1>2 DEF Typed, RestTyped, Awaits, Ends
  <2>3. QED
    BY <2>1, <2>2
<1>4. MadeTyped'
  <2>1. CASE at' = "raised" /\ UNCHANGED <<made, sent>>
    BY <1>1, <2>1 DEF Typed, MadeTyped
  <2>2. CASE \E answer \in Answers(docs) : Matches(answer, docs) /\ made' = answer
    <3>1. PICK answer \in Answers(docs) : Matches(answer, docs) /\ made' = answer
      BY <2>2
    <3>2. PICK s, ns, ids :
             /\ ns \in [DOMAIN s -> Unused]
             /\ answer = [i \in DOMAIN s |-> [doc |-> s[i], id |-> ids[i], number |-> ns[i]]]
      <4> DEFINE forms(s) == {[i \in DOMAIN s |-> [doc |-> s[i], id |-> ids[i], number |-> ns[i]]] :
                                 ns \in [DOMAIN s -> Unused], ids \in [DOMAIN s -> Unused]}
                 shapes == {docs, Reverse(docs), <<Other(docs[1])>> \o Tail(docs), Tail(docs)}
      <4>1. Answers(docs) = UNION {forms(s) : s \in shapes}
        BY DEF Answers
      <4> HIDE DEF forms, shapes
      <4>2. PICK s \in shapes : answer \in forms(s)
        BY <4>1
      <4>3. QED
        BY <4>2 DEF forms
    <3>3. DOMAIN s = 1 .. n /\ n \in Nat /\ \A i \in 1 .. n : answer[i].doc = docs[i]
      BY <3>1, <3>2 DEF Matches, Typed, PlanTyped
    <3>4. Len(answer) = n
      <4> HIDE DEF n
      <4>1. QED
        BY <3>2, <3>3
    <3>5. \A i \in DOMAIN answer : answer[i].number \in Numbers
      BY <3>2 DEF Unused
    <3>6. \A i \in DOMAIN answer : IsDocument(answer[i].doc)
      BY <3>2, <3>3 DEF Typed, PlanTyped
    <3>7. QED
      BY <1>1, <3>1, <3>4, <3>5, <3>6 DEF MadeTyped
  <2>3. QED
    BY <1>2, <2>1, <2>2
<1>5. QED
  BY <1>3, <1>4 DEF Typed

\* HomeTax puts them into its register as they are.
LEMMA ActTyped ==
    ASSUME Typed, Act
    PROVE  Typed'
<1>1. UNCHANGED <<party, changes, references, at, prepared, wire, trust, made, checked>> /\ sent' = FALSE
  BY DEF Act
<1>2. PICK done \in SUBSET DOMAIN made, other \in SUBSET DOMAIN made :
         register' = [n \in Numbers |->
            IF \E i \in done : made[i].number = n
            THEN LET i == CHOOSE j \in done : made[j].number = n
                 IN IF i \in other THEN Other(made[i].doc) ELSE made[i].doc
            ELSE register[n]]
  BY DEF Act
<1>3. RegisterTyped'
  <2> SUFFICES ASSUME NEW n \in Numbers, register'[n] # NoDocument
               PROVE  IsDocument(register'[n])
    BY DEF RegisterTyped
  <2>1. CASE \E i \in done : made[i].number = n
    <3> DEFINE i == CHOOSE j \in done : made[j].number = n
    <3>1. i \in DOMAIN made
      BY <2>1
    <3>2. register'[n] \in {made[i].doc, Other(made[i].doc)}
      BY <1>2, <2>1
    <3> HIDE DEF i
    <3>3. IsDocument(made[i].doc)
      BY <3>1 DEF Typed, MadeTyped
    <3>4. IsDocument(Other(made[i].doc))
      BY <3>3 DEF IsDocument, Other, Fields
    <3>5. QED
      BY <3>2, <3>3, <3>4
  <2>2. CASE ~\E i \in done : made[i].number = n
    BY <1>2, <2>2 DEF Typed, RegisterTyped
  <2>3. QED
    BY <2>1, <2>2
<1>4. PlanTyped' /\ MadeTyped'
  BY <1>1 DEF Typed, PlanTyped, MadeTyped
<1>5. RestTyped'
  BY <1>1 DEF Typed, RestTyped
<1>6. QED
  BY <1>3, <1>4, <1>5 DEF Typed

\* The steps that make no documents.
LEMMA OthersTyped ==
    ASSUME Typed, at \in Awaits, at # "idle", at' \in Awaits \cup Ends, at' # "idle",
           at' = "readback" => at \in {"commit", "readback"}, at' # "commit",
           checked' \in 0 .. Len(prepared.docs), wire' \in Encodings, trust' \in BOOLEAN,
           UNCHANGED <<world, prepared, made, sent>>
    PROVE  Typed'
<1>1. PlanTyped' /\ RegisterTyped'
  BY DEF Typed, PlanTyped, RegisterTyped, world
<1>2. MadeTyped'
  BY DEF Typed, MadeTyped
<1>3. RestTyped'
  BY DEF Typed, RestTyped, world
<1>4. QED
  BY <1>1, <1>2, <1>3 DEF Typed

\* Documents keep their types at every step.
LEMMA TypesStay == IInv /\ Typed /\ [Next]_vars => Typed'
<1> SUFFICES ASSUME IInv, Typed, [Next]_vars
             PROVE  Typed'
  OBVIOUS
<1>1. /\ checked \in 0 .. Len(prepared.docs) /\ wire \in Encodings /\ trust \in BOOLEAN
      /\ Len(prepared.docs) \in Nat /\ changes \in 0 .. MaxChanges /\ MaxChanges \in Nat
  BY LimitsAssumption DEF Typed, PlanTyped, RestTyped
<1>2. ASSUME NEW direction \in Directions, List(direction)
      PROVE  Typed'
  <2>1. UNCHANGED <<register, party, changes, at, prepared, wire, trust, made, sent, checked>>
    BY <1>2 DEF List
  <2>2. references' \in [Numbers -> Directions \cup {"none"}]
    BY <1>2 DEF List, Typed, RestTyped
  <2>3. QED
    BY <2>1, <2>2 DEF Typed, PlanTyped, MadeTyped, RegisterTyped, RestTyped
<1>3. ASSUME NEW r \in Requests, Preview(r)
      PROVE  Typed'
  BY <1>3, PreviewTyped
<1>4. ASSUME NEW e \in Encodings, NEW t \in BOOLEAN, Issue(e, t)
      PROVE  Typed'
  BY <1>1, <1>4, OthersTyped DEF Issue, Awaits, Ends
<1>5. CASE Refresh
  BY <1>1, <1>5, OthersTyped DEF Refresh, Awaits, Ends
<1>6. CASE Create
  BY <1>6, CreateTyped
<1>7. CASE Act
  BY <1>7, ActTyped
<1>8. CASE Committed
  BY <1>1, <1>8, OthersTyped DEF Committed, Awaits, Ends
<1>9. CASE ReadBack
  <2>1. at = "readback" /\ checked \in 0 .. Len(prepared.docs) - 1
    BY <1>9 DEF ReadBack, IInv, ReadSoFar
  <2>2. checked' \in 0 .. Len(prepared.docs) /\ at' \in {"raised", "complete", "readback"}
    BY <1>1, <1>9, <2>1 DEF ReadBack
  <2>3. QED
    BY <1>1, <1>9, <2>1, <2>2, OthersTyped DEF ReadBack, Awaits, Ends
<1>10. CASE Fail
  BY <1>1, <1>10, OthersTyped DEF Fail, Awaits, Ends
<1>11. CASE Change
  <2>1. /\ UNCHANGED <<register, references, at, prepared, wire, trust, made, sent, checked>>
        /\ changes' = changes + 1 /\ changes < MaxChanges /\ party' \in Parties
    BY <1>11 DEF Change
  <2>2. changes' \in 0 .. MaxChanges
    BY <1>1, <2>1
  <2>3. QED
    BY <2>1, <2>2 DEF Typed, PlanTyped, MadeTyped, RegisterTyped, RestTyped
<1>12. CASE UNCHANGED vars
  BY <1>12 DEF vars, Typed, PlanTyped, MadeTyped, RegisterTyped, RestTyped
<1>13. QED
  BY <1>2, <1>3, <1>4, <1>5, <1>6, <1>7, <1>8, <1>9, <1>10, <1>11, <1>12 DEF Next, Write

\* The register begins with documents.
LEMMA TypesStart == Init => Typed
<1> SUFFICES ASSUME Init
             PROVE  Typed
  OBVIOUS
<1>1. RegisterTyped
  BY RegistersAssumption DEF Init, RegisterTyped, IsDocument
<1>2. PlanTyped /\ MadeTyped
  BY DEF Init, NoPlan, PlanTyped, MadeTyped
<1>3. RestTyped
  <2>1. 0 \in 0 .. MaxChanges
    BY LimitsAssumption
  <2>2. references \in [Numbers -> Directions \cup {"none"}]
    BY DEF Init
  <2>3. QED
    BY <2>1, <2>2 DEF Init, RestTyped, Encodings, Awaits
<1>4. QED
  BY <1>1, <1>2, <1>3 DEF Typed

\* The same for one writing command.
LEMMA WritesAreTyped == Spec => []TypeOK
<1>1. Typed => TypeOK
  BY DEF Typed, PlanTyped, MadeTyped, RegisterTyped, RestTyped, IsDocument, TypeOK
<1>2. QED
  BY <1>1, StartsRight, StepKeeps, TypesStart, TypesStay, PTL DEF Spec

-----------------------------------------------------------------------------
(***************************************************************************)
(* The calendar (revenue.py:29-38, cli.py:316-325)                         *)
(***************************************************************************)
IsMonth(k) == k \in Nat /\ k % 100 \in 1 .. 12

\* The months since year 0.
Index(k) == 12 * (k \div 100) + (k % 100) - 1

\* Division by the numbers of the calendar.
LEMMA Division ==
    ASSUME NEW n \in Nat
    PROVE  /\ n \div 100 \in Nat /\ n % 100 \in 0 .. 99 /\ n = 100 * (n \div 100) + (n % 100)
           /\ n \div 12 \in Nat /\ n % 12 \in 0 .. 11 /\ n = 12 * (n \div 12) + (n % 12)
OBVIOUS

\* A month has 28 to 31 days.
LEMMA DaysOfMonth ==
    ASSUME NEW k \in Nat
    PROVE  /\ R!DaysIn(k) \in 28 .. 31
           /\ R!LastDay(k) \in Nat /\ R!LastDay(k) = 100 * k + R!DaysIn(k)
BY DEF R!LastDay, R!DaysIn

\* A day is its month and its day of the month.
LEMMA DayParts ==
    ASSUME NEW d, R!IsDay(d)
    PROVE  /\ d \in Nat /\ IsMonth(R!MonthKey(d)) /\ d % 100 \in 1 .. 31
           /\ d = 100 * R!MonthKey(d) + (d % 100)
           /\ R!Year(d) \in Nat /\ R!Year(d) = R!MonthKey(d) \div 100
           /\ R!MonthOf(d) = R!MonthKey(d) % 100
<1>1. d \in Nat /\ R!MonthOf(d) \in 1 .. 12 /\ d % 100 \in 1 .. R!DaysIn(R!MonthKey(d))
  BY DEF R!IsDay
<1>2. R!MonthKey(d) \in Nat /\ R!MonthOf(d) = R!MonthKey(d) % 100
  BY <1>1 DEF R!MonthKey, R!MonthOf
<1>3. R!DaysIn(R!MonthKey(d)) \in 28 .. 31
  BY <1>2, DaysOfMonth
<1>4. d = 100 * R!MonthKey(d) + (d % 100)
  BY <1>1, Division DEF R!MonthKey
<1>5. R!Year(d) \in Nat /\ R!Year(d) = R!MonthKey(d) \div 100
  BY <1>1 DEF R!MonthKey, R!Year
<1>6. QED
  BY <1>1, <1>2, <1>3, <1>4, <1>5 DEF IsMonth

\* Each of them is a day, and of that month.
LEMMA DayOfMonth ==
    ASSUME NEW k, IsMonth(k), NEW n \in 1 .. R!DaysIn(k)
    PROVE  R!IsDay(100 * k + n) /\ R!MonthKey(100 * k + n) = k
<1>1. k \in Nat /\ k % 100 \in 1 .. 12 /\ n \in Nat /\ 1 <= n /\ n <= 31 /\ n <= R!DaysIn(k)
  BY DaysOfMonth DEF IsMonth
<1>2. (100 * k + n) \div 100 = k /\ (100 * k + n) % 100 = n
  BY <1>1
<1>3. R!MonthKey(100 * k + n) = k /\ R!MonthOf(100 * k + n) = k % 100
  BY <1>2 DEF R!MonthKey, R!MonthOf
<1>4. 100 * k + n \in Nat
  BY <1>1
<1>5. QED
  BY <1>1, <1>2, <1>3, <1>4 DEF R!IsDay

\* A later month is so many places later on the line of months.
LEMMA LaterMonth ==
    ASSUME NEW k, IsMonth(k), NEW n \in Nat
    PROVE  IsMonth(R!Later(k, n)) /\ Index(R!Later(k, n)) = Index(k) + n
<1> DEFINE q == k \div 100
           r == k % 100
           m == r - 1 + n
           q12 == m \div 12
           r12 == m % 12
           y == q + q12
           l == 100 * y + r12 + 1
<1>1. q \in Nat /\ r \in 1 .. 12
  BY Division DEF IsMonth
<1>2. R!Later(k, n) = l /\ Index(k) = 12 * q + r - 1
  <2>1. R!Later(k, n) = l
    BY DEF R!Later
  <2>2. Index(k) = 12 * q + r - 1
    BY DEF Index
  <2>3. QED
    BY <2>1, <2>2
<1> HIDE DEF q, r
<1>3. m \in Nat
  BY <1>1
<1>4. m = r - 1 + n
  OBVIOUS
<1> HIDE DEF m
<1>5. q12 \in Nat /\ r12 \in 0 .. 11 /\ m = 12 * q12 + r12
  BY <1>3, Division
<1> HIDE DEF q12, r12
<1>6. y \in Nat /\ y = q + q12
  BY <1>1, <1>5
<1> HIDE DEF y
<1>7. l \in Nat /\ l \div 100 = y /\ l % 100 = r12 + 1
  <2> DEFINE d == r12 + 1
  <2>1. d \in 1 .. 12 /\ l = 100 * y + d /\ r12 + 1 = d
    BY <1>5, <1>6
  <2> HIDE DEF d, l
  <2>2. (100 * y + d) \div 100 = y /\ (100 * y + d) % 100 = d /\ 100 * y + d \in Nat
    BY <1>6, <2>1
  <2>3. QED
    BY <2>1, <2>2
<1> HIDE DEF l
<1>8. IsMonth(l) /\ Index(l) = 12 * y + (r12 + 1) - 1
  BY <1>5, <1>7 DEF IsMonth, Index
<1>9. 12 * y + (r12 + 1) - 1 = 12 * q + r - 1 + n
  BY <1>1, <1>3, <1>4, <1>5, <1>6
<1>10. QED
  BY <1>2, <1>8, <1>9

\* Months are in the order of their keys.
LEMMA MonthOrder ==
    ASSUME NEW k, IsMonth(k), NEW l, IsMonth(l)
    PROVE  /\ Index(k) \in Nat
           /\ Index(k) <= Index(l) <=> k <= l
           /\ k \div 100 < l \div 100 => k < l
<1> DEFINE q == k \div 100
           r == k % 100
           p == l \div 100
           s == l % 100
<1>1. k \in Nat /\ q \in Nat /\ r \in 1 .. 12 /\ k = 100 * q + r
  BY Division DEF IsMonth
<1>2. l \in Nat /\ p \in Nat /\ s \in 1 .. 12 /\ l = 100 * p + s
  BY Division DEF IsMonth
<1>3. Index(k) = 12 * q + r - 1 /\ Index(l) = 12 * p + s - 1
  BY DEF Index
<1> HIDE DEF q, r, p, s
<1>4. /\ 12 * q + r - 1 \in Nat
      /\ 12 * q + r - 1 <= 12 * p + s - 1 <=> k <= l
      /\ q < p => k < l
  BY <1>1, <1>2
<1>5. QED
  BY <1>3, <1>4 DEF q, p

\* Days are in the order of their months and years.
LEMMA DayOrder ==
    ASSUME NEW d, R!IsDay(d), NEW e, R!IsDay(e)
    PROVE  /\ R!MonthKey(d) < R!MonthKey(e) => d < e
           /\ d <= e => R!MonthKey(d) <= R!MonthKey(e) /\ R!Year(d) <= R!Year(e)
<1>1. /\ d \in Nat /\ R!MonthKey(d) \in Nat /\ d % 100 \in 1 .. 31
      /\ d = 100 * R!MonthKey(d) + (d % 100)
  BY DayParts DEF IsMonth
<1>2. /\ e \in Nat /\ R!MonthKey(e) \in Nat /\ e % 100 \in 1 .. 31
      /\ e = 100 * R!MonthKey(e) + (e % 100)
  BY DayParts DEF IsMonth
<1>3. d <= e => R!Year(d) <= R!Year(e)
  BY <1>1, <1>2 DEF R!Year
<1>4. QED
  BY <1>1, <1>2, <1>3

\* Midnight brings the next day, which is a day.
LEMMA NextDayIsLater ==
    ASSUME NEW d, R!IsDay(d)
    PROVE  R!IsDay(R!NextDay(d)) /\ d < R!NextDay(d)
<1> DEFINE k == R!MonthKey(d)
           l == R!Later(k, 1)
<1>1. d \in Nat /\ IsMonth(k) /\ k \in Nat /\ d = 100 * k + (d % 100) /\ d % 100 \in 1 .. R!DaysIn(k)
  BY DayParts DEF IsMonth, R!IsDay
<1>2. R!LastDay(k) = 100 * k + R!DaysIn(k) /\ R!DaysIn(k) \in 28 .. 31
  BY <1>1, DaysOfMonth
<1>3. CASE d = R!LastDay(k)
  <2>1. R!NextDay(d) = 100 * l + 1
    BY <1>3 DEF R!NextDay
  <2>2. IsMonth(l) /\ Index(l) = Index(k) + 1
    BY <1>1, LaterMonth
  <2>3. k < l /\ l \in Nat
    <3>1. Index(k) \in Nat /\ ~(Index(l) <= Index(k))
      BY <1>1, <2>2, MonthOrder
    <3>2. l \in Nat
      BY <2>2 DEF IsMonth
    <3> HIDE DEF k, l
    <3>3. ~(l <= k)
      BY <1>1, <2>2, <3>1, MonthOrder
    <3>4. QED
      BY <1>1, <3>2, <3>3
  <2>4. 1 \in 1 .. R!DaysIn(l)
    BY <2>3, DaysOfMonth
  <2>5. R!IsDay(100 * l + 1)
    BY <2>2, <2>4, DayOfMonth
  <2> HIDE DEF k, l
  <2>6. d < 100 * l + 1
    BY <1>1, <1>2, <1>3, <2>3
  <2>7. QED
    BY <2>1, <2>5, <2>6
<1>4. CASE d # R!LastDay(k)
  <2> DEFINE n == (d % 100) + 1
  <2>1. R!NextDay(d) = d + 1
    BY <1>4 DEF R!NextDay
  <2>2. n \in 1 .. R!DaysIn(k) /\ d + 1 = 100 * k + n
    BY <1>1, <1>2, <1>4
  <2>3. R!IsDay(100 * k + n)
    BY <1>1, <2>2, DayOfMonth
  <2>4. QED
    BY <1>1, <2>1, <2>2, <2>3
<1>5. QED
  BY <1>3, <1>4

-----------------------------------------------------------------------------
(***************************************************************************)
(* Periods (cli.py:316-380, 865-899)                                       *)
(***************************************************************************)
\* What valid_period asks of a query, on a day that has come.
ShortPeriod(from, to, day) ==
    from <= to /\ to <= day /\ to <= R!SameDay(from, 3)

\* The first of the month after the third one is within three months of any day of the
\* first: valid_period counts by days, split_periods by months.
LEMMA ThreeMonths ==
    ASSUME NEW d, R!IsDay(d), NEW n \in 0 .. 2
    PROVE  LET m == R!Later(R!MonthKey(d), n) IN
           /\ IsMonth(m) /\ R!LastDay(m) \in Nat
           /\ R!LastDay(m) < R!SameDay(d, 3) /\ d <= R!LastDay(m)
<1> DEFINE k == R!MonthKey(d)
           m == R!Later(k, n)
           l == R!Later(k, 3)
           least == R!Earliest(d % 100, R!DaysIn(l))
<1>1. d \in Nat /\ IsMonth(k) /\ k \in Nat /\ d = 100 * k + (d % 100) /\ d % 100 \in 1 .. R!DaysIn(k)
  BY DayParts DEF IsMonth, R!IsDay
<1>2. IsMonth(m) /\ m \in Nat /\ Index(m) = Index(k) + n
  <2>1. n \in Nat
    OBVIOUS
  <2>2. IsMonth(m) /\ Index(m) = Index(k) + n
    BY <1>1, <2>1, LaterMonth
  <2>3. QED
    BY <2>2 DEF IsMonth
<1>3. IsMonth(l) /\ l \in Nat /\ Index(l) = Index(k) + 3
  BY <1>1, LaterMonth DEF IsMonth
<1>4. /\ R!LastDay(m) = 100 * m + R!DaysIn(m) /\ R!DaysIn(m) \in 28 .. 31
      /\ R!LastDay(m) \in Nat /\ R!DaysIn(l) \in 28 .. 31 /\ R!DaysIn(k) \in 28 .. 31
  BY <1>1, <1>2, <1>3, DaysOfMonth
<1>5. R!SameDay(d, 3) = 100 * l + least
  BY DEF R!SameDay
<1>6. least \in Nat /\ least >= 1
  BY <1>1, <1>4 DEF R!Earliest
<1> HIDE DEF k, m, l, least
<1>7. m < l
  <2>1. Index(k) \in Nat /\ ~(Index(l) <= Index(m))
    BY <1>1, <1>2, <1>3, MonthOrder
  <2>2. ~(l <= m)
    BY <1>2, <1>3, <2>1, MonthOrder
  <2>3. QED
    BY <1>2, <1>3, <2>2
<1>8. R!LastDay(m) < 100 * l + least
  BY <1>2, <1>3, <1>4, <1>6, <1>7
<1>9. d <= R!LastDay(m)
  <2>1. k <= m
    <3>1. Index(k) \in Nat /\ Index(k) <= Index(m)
      BY <1>1, <1>2, MonthOrder
    <3>2. QED
      BY <1>1, <1>2, <3>1, MonthOrder
  <2>2. CASE k = m
    BY <1>1, <1>4, <2>2
  <2>3. CASE k < m
    BY <1>1, <1>2, <1>4, <2>3
  <2>4. QED
    BY <1>1, <1>2, <2>1, <2>2, <2>3
<1>10. QED
  BY <1>2, <1>4, <1>5, <1>8, <1>9 DEF k, m

\* The months of a period are counted from that of its start to that of its end.
LEMMA MonthsOfPeriod ==
    ASSUME NEW start, R!IsDay(start), NEW end, R!IsDay(end)
    PROVE  R!HowManyMonths(start, end) =
              Index(R!MonthKey(end)) - Index(R!MonthKey(start)) + 1
<1> DEFINE k == R!MonthKey(start)
           e == R!MonthKey(end)
           many == R!HowManyMonths(start, end)
<1>1. /\ R!Year(start) = k \div 100 /\ R!MonthOf(start) = k % 100
      /\ R!Year(end) = e \div 100 /\ R!MonthOf(end) = e % 100
      /\ k \in Nat /\ e \in Nat
  BY DayParts DEF IsMonth
<1> HIDE DEF k, e
<1>2. many = 12 * (e \div 100 - k \div 100) + (e % 100) - (k % 100) + 1
  BY <1>1 DEF R!HowManyMonths
<1>3. k \div 100 \in Nat /\ e \div 100 \in Nat /\ k % 100 \in Nat /\ e % 100 \in Nat
  BY <1>1, Division
<1> HIDE DEF many
<1>4. many = Index(e) - Index(k) + 1
  BY <1>2, <1>3 DEF Index
<1>5. QED
  BY <1>4 DEF k, e, many

\* The spans cover at least a day each, end with the period at the latest, and are
\* short enough for HomeTax.
LEMMA SpansFit ==
    ASSUME NEW start, R!IsDay(start), NEW end, R!IsDay(end), start <= end
    PROVE  LET spans == R!SplitPeriods(start, end) IN
           \E n \in Nat \ {0} :
              /\ DOMAIN spans = 1 .. n
              /\ \A i \in 1 .. n : /\ spans[i][1] \in Nat /\ spans[i][2] \in Nat
                                   /\ ShortPeriod(spans[i][1], spans[i][2], end)
<1> DEFINE k == R!MonthKey(start)
           e == R!MonthKey(end)
           many == R!HowManyMonths(start, end)
           n == (many + 3 - 1) \div 3
           first(i) == IF i = 1 THEN start ELSE 100 * R!Later(k, 3 * (i - 1)) + 1
           last(i) == R!Earliest(R!LastDay(R!Later(k, 3 * i - 1)), end)
           spans == R!SplitPeriods(start, end)
<1>1. spans = [i \in 1 .. n |-> <<first(i), last(i)>>]
  BY DEF R!SplitPeriods, R!SplitInto
<1>2. /\ IsMonth(k) /\ IsMonth(e) /\ k \in Nat /\ e \in Nat /\ start \in Nat /\ end \in Nat
      /\ end = 100 * e + (end % 100) /\ end % 100 \in 1 .. 31
  BY DayParts DEF IsMonth
<1>3. Index(k) \in Nat /\ Index(e) \in Nat /\ Index(k) <= Index(e)
  BY <1>2, DayOrder, MonthOrder
<1>4. many = Index(e) - Index(k) + 1
  BY MonthsOfPeriod
<1> HIDE DEF many, spans
<1>5. n \in Nat \ {0} /\ \A i \in 1 .. n : 3 * i <= many + 2
  <2>1. many \in Nat /\ many >= 1
    BY <1>3, <1>4
  <2>2. QED
    BY <2>1
<1> HIDE DEF n
<1>6. ASSUME NEW i \in 1 .. n
      PROVE  first(i) \in Nat /\ last(i) \in Nat /\ ShortPeriod(first(i), last(i), end)
  <2> DEFINE f == first(i)
             b == R!Later(k, 3 * (i - 1))
             z == R!Later(k, 3 * i - 1)
             c == R!Later(R!MonthKey(f), 2)
  <2>1. 3 * (i - 1) \in Nat /\ 3 * i - 1 \in Nat /\ 3 * i - 1 = 3 * (i - 1) + 2 /\ (i = 1 => 3 * (i - 1) = 0)
    BY <1>5
  <2>2. /\ IsMonth(b) /\ Index(b) = Index(k) + 3 * (i - 1)
        /\ IsMonth(z) /\ Index(z) = Index(k) + (3 * i - 1)
    BY <1>2, <2>1, LaterMonth
  <2>3. R!IsDay(f) /\ R!MonthKey(f) = b /\ f <= end
    <3>1. CASE i = 1
      <4>1. Index(b) = Index(k)
        <5> HIDE DEF b, k
        <5>1. QED
          BY <1>3, <2>1, <2>2, <3>1
      <4> HIDE DEF b
      <4>2. b = k
        <5>1. b <= k /\ k <= b /\ b \in Nat
          BY <1>2, <1>3, <2>2, <4>1, MonthOrder DEF IsMonth
        <5> HIDE DEF k
        <5>2. QED
          BY <1>2, <5>1
      <4>3. QED
        BY <3>1, <4>2
    <3>2. CASE i # 1
      <4>1. 1 \in 1 .. R!DaysIn(b) /\ b \in Nat
        BY <2>2, DaysOfMonth DEF IsMonth
      <4>2. R!IsDay(100 * b + 1) /\ R!MonthKey(100 * b + 1) = b
        BY <2>2, <4>1, DayOfMonth
      <4>3. b <= e
        <5> HIDE DEF b, e, k
        <5>1. Index(b) <= Index(e)
          BY <1>3, <1>4, <1>5, <2>2
        <5>2. QED
          BY <1>2, <2>2, <5>1, MonthOrder
      <4> HIDE DEF b, e
      <4>4. 100 * b + 1 <= end
        BY <1>2, <4>1, <4>3
      <4>5. f = 100 * b + 1
        BY <3>2 DEF b
      <4>6. QED
        BY <4>2, <4>4, <4>5
    <3>3. QED
      BY <3>1, <3>2
  <2> HIDE DEF f
  <2>4. IsMonth(c) /\ R!LastDay(c) \in Nat /\ R!LastDay(c) < R!SameDay(f, 3) /\ f <= R!LastDay(c)
    BY <2>3, ThreeMonths
  <2>5. c = z
    <3>1. Index(c) = Index(b) + 2
      BY <2>2, <2>3, LaterMonth
    <3> HIDE DEF b, c, z, k
    <3>2. Index(c) = Index(z)
      BY <1>3, <2>1, <2>2, <3>1
    <3>3. c <= z /\ z <= c /\ Index(c) \in Nat
      BY <2>2, <2>4, <3>2, MonthOrder
    <3>4. QED
      BY <2>2, <2>4, <3>3 DEF IsMonth
  <2>6. last(i) = R!Earliest(R!LastDay(c), end) /\ f \in Nat /\ R!SameDay(f, 3) \in Nat
    <3>1. f \in Nat /\ f % 100 \in 1 .. 31
      BY <2>3, DayParts
    <3>2. R!SameDay(f, 3) \in Nat
      <4>1. IsMonth(R!Later(R!MonthKey(f), 3))
        BY <2>2, <2>3, LaterMonth
      <4>2. R!DaysIn(R!Later(R!MonthKey(f), 3)) \in 28 .. 31
        BY <4>1, DaysOfMonth DEF IsMonth
      <4>3. QED
        BY <3>1, <4>1, <4>2 DEF R!SameDay, R!Earliest, IsMonth
    <3>3. QED
      BY <2>5, <3>1, <3>2
  <2> HIDE DEF c
  <2>7. R!Earliest(R!LastDay(c), end) \in Nat /\ ShortPeriod(f, R!Earliest(R!LastDay(c), end), end)
    BY <1>2, <2>3, <2>4, <2>6 DEF ShortPeriod, R!Earliest
  <2>8. QED
    BY <2>6, <2>7 DEF f
<1> HIDE DEF first, last
<1>7. \A i \in 1 .. n : spans[i][1] = first(i) /\ spans[i][2] = last(i)
  BY <1>1
<1>8. DOMAIN spans = 1 .. n
  BY <1>1
<1>9. QED
  BY <1>5, <1>6, <1>7, <1>8 DEF spans

\* A day is after the first of a month, and before the end of it, as its month says.
LEMMA MonthBounds ==
    ASSUME NEW d, R!IsDay(d), NEW m, IsMonth(m)
    PROVE  /\ 100 * m + 1 <= d <=> Index(m) <= Index(R!MonthKey(d))
           /\ d <= R!LastDay(m) <=> Index(R!MonthKey(d)) <= Index(m)
<1> DEFINE k == R!MonthKey(d)
           r == d % 100
<1>1. /\ d \in Nat /\ IsMonth(k) /\ k \in Nat /\ d = 100 * k + r
      /\ r \in 1 .. R!DaysIn(k)
  BY DayParts DEF IsMonth, R!IsDay
<1>2. /\ m \in Nat /\ R!LastDay(m) = 100 * m + R!DaysIn(m)
      /\ R!DaysIn(m) \in 28 .. 31 /\ R!DaysIn(k) \in 28 .. 31
  BY <1>1, DaysOfMonth DEF IsMonth
<1>3. (Index(m) <= Index(k) <=> m <= k) /\ (Index(k) <= Index(m) <=> k <= m)
  BY <1>1, MonthOrder
<1> HIDE DEF k, r
<1>4. 100 * m + 1 <= d <=> m <= k
  BY <1>1, <1>2
<1>5. d <= R!LastDay(m) <=> k <= m
  <2>1. CASE k = m
    BY <1>1, <1>2, <2>1
  <2>2. CASE k < m
    BY <1>1, <1>2, <2>2
  <2>3. CASE m < k
    BY <1>1, <1>2, <2>3
  <2>4. QED
    BY <1>1, <1>2, <2>1, <2>2, <2>3
<1>6. QED
  BY <1>3, <1>4, <1>5 DEF k

\* Each three months from the month of the start on are in a span.
LEMMA Thirds ==
    ASSUME NEW j \in Int, NEW many \in Nat, NEW i \in Nat \ {0}
    PROVE  /\ 3 * (i - 1) <= j /\ j <= 3 * i - 1 <=> j \div 3 + 1 = i
           /\ 0 <= j /\ j < many => j \div 3 + 1 \in 1 .. (many + 3 - 1) \div 3
OBVIOUS

\* split_periods: every day of the period, and no other, is in one span, and only in
\* one (cli.py:316-325).
THEOREM SpansPartition ==
    ASSUME NEW start, R!IsDay(start), NEW end, R!IsDay(end), start <= end,
           NEW d, R!IsDay(d)
    PROVE  LET spans == R!SplitPeriods(start, end)
               Has(i) == spans[i][1] <= d /\ d <= spans[i][2]
           IN /\ start <= d /\ d <= end <=> \E i \in DOMAIN spans : Has(i)
              /\ \A i, j \in DOMAIN spans : Has(i) /\ Has(j) => i = j
<1> DEFINE k == R!MonthKey(start)
           e == R!MonthKey(end)
           m == R!MonthKey(d)
           many == R!HowManyMonths(start, end)
           n == (many + 3 - 1) \div 3
           first(i) == IF i = 1 THEN start ELSE 100 * R!Later(k, 3 * (i - 1)) + 1
           last(i) == R!Earliest(R!LastDay(R!Later(k, 3 * i - 1)), end)
           spans == R!SplitPeriods(start, end)
           x == Index(m) - Index(k)
<1>1. spans = [i \in 1 .. n |-> <<first(i), last(i)>>]
  BY DEF R!SplitPeriods, R!SplitInto
<1>2. /\ IsMonth(k) /\ IsMonth(e) /\ IsMonth(m)
      /\ start \in Nat /\ end \in Nat /\ d \in Nat
  BY DayParts
<1>3. Index(k) \in Nat /\ Index(e) \in Nat /\ Index(m) \in Nat /\ Index(k) <= Index(e)
  BY <1>2, DayOrder, MonthOrder
<1>4. many = Index(e) - Index(k) + 1
  BY MonthsOfPeriod
<1>5. /\ start <= d => Index(k) <= Index(m)
      /\ d <= end => Index(m) <= Index(e)
      /\ Index(k) < Index(m) => start <= d
  <2>1. start <= d => k <= m
    BY DayOrder
  <2>2. d <= end => m <= e
    BY DayOrder
  <2>3. k < m => start < d
    BY DayOrder
  <2>4. ~(m <= k) => k < m
    BY <1>2 DEF IsMonth
  <2> HIDE DEF k, e, m
  <2>5. Index(k) < Index(m) => ~(m <= k)
    BY <1>2, <1>3, MonthOrder
  <2>6. QED
    BY <1>2, <2>1, <2>2, <2>3, <2>4, <2>5, MonthOrder
<1> HIDE DEF many, spans
<1>6. many \in Nat /\ n \in Nat /\ x \in Int
  BY <1>3, <1>4
<1> HIDE DEF n
<1>7. ASSUME NEW i \in 1 .. n
      PROVE  first(i) <= d /\ d <= last(i) <=>
                start <= d /\ d <= end /\ 3 * (i - 1) <= x /\ x <= 3 * i - 1
  <2> DEFINE b == R!Later(k, 3 * (i - 1))
             z == R!Later(k, 3 * i - 1)
  <2>1. i \in Nat \ {0} /\ 3 * (i - 1) \in Nat /\ 3 * i - 1 \in Nat
    BY <1>6
  <2>2. /\ IsMonth(b) /\ Index(b) = Index(k) + 3 * (i - 1)
        /\ IsMonth(z) /\ Index(z) = Index(k) + (3 * i - 1)
    BY <1>2, <2>1, LaterMonth
  <2>3. /\ 100 * b + 1 <= d <=> Index(b) <= Index(m)
        /\ d <= R!LastDay(z) <=> Index(m) <= Index(z)
    BY <2>2, MonthBounds
  <2>4. R!LastDay(z) \in Nat
    BY <2>2, DaysOfMonth DEF IsMonth
  <2>5. first(i) = IF i = 1 THEN start ELSE 100 * b + 1
    OBVIOUS
  <2>6. last(i) = R!Earliest(R!LastDay(z), end)
    OBVIOUS
  <2>7. x = Index(m) - Index(k)
    OBVIOUS
  <2> HIDE DEF b, z, first, last, x, k, m
  <2>8. d <= last(i) <=> d <= end /\ x <= 3 * i - 1
    <3>1. d <= last(i) <=> d <= R!LastDay(z) /\ d <= end
      BY <1>2, <2>4, <2>6 DEF R!Earliest
    <3>2. Index(m) <= Index(z) <=> x <= 3 * i - 1
      BY <1>3, <2>1, <2>2, <2>7
    <3>3. QED
      BY <2>3, <3>1, <3>2
  <2>9. Index(b) <= Index(m) <=> 3 * (i - 1) <= x
    BY <1>3, <2>1, <2>2, <2>7
  <2>10. first(i) <= d <=> start <= d /\ 3 * (i - 1) <= x
    <3>1. CASE i = 1
      <4>1. start <= d => 3 * (i - 1) <= x
        BY <1>3, <1>5, <2>7, <3>1
      <4>2. QED
        BY <2>5, <3>1, <4>1
    <3>2. CASE i # 1
      <4>1. 3 * (i - 1) <= x => Index(k) < Index(m)
        BY <1>3, <2>1, <2>7, <3>2
      <4>2. QED
        BY <1>5, <2>3, <2>5, <2>9, <3>2, <4>1
    <3>3. QED
      BY <3>1, <3>2
  <2>11. QED
    BY <2>8, <2>10
<1> HIDE DEF first, last, x
<1>8. \A i \in 1 .. n : spans[i][1] = first(i) /\ spans[i][2] = last(i)
  BY <1>1
<1>9. DOMAIN spans = 1 .. n
  BY <1>1
<1>10. start <= d /\ d <= end => 0 <= x /\ x < many
  <2>1. start <= d /\ d <= end => Index(k) <= Index(m) /\ Index(m) <= Index(e)
    BY <1>5
  <2> HIDE DEF k, e, m
  <2>2. QED
    BY <1>3, <1>4, <2>1 DEF x
<1>11. \A i \in 1 .. n : i \in Nat \ {0}
  BY <1>6
<1>12. \A i \in 1 .. n : spans[i][1] <= d /\ d <= spans[i][2] <=>
                            start <= d /\ d <= end /\ x \div 3 + 1 = i
  BY <1>6, <1>7, <1>8, <1>11, Thirds
<1>13. start <= d /\ d <= end => x \div 3 + 1 \in 1 .. n
  <2>1. 1 \in Nat \ {0}
    OBVIOUS
  <2>2. QED
    BY <1>6, <1>10, <2>1, Thirds DEF n
<1> HIDE DEF k, e, m
<1>14. QED
  BY <1>9, <1>12, <1>13 DEF spans

\* fetch_cash_purchase_months: over whole months, every day of the period, and no
\* other, is in one query, which says the month of the day: the rows that come have no
\* dates (cli.py:889-899).
THEOREM CashMonthsPartition ==
    ASSUME NEW start, R!IsDay(start), start % 100 = 1, NEW end, R!IsDay(end), start <= end,
           NEW d, R!IsDay(d)
    PROVE  LET months == R!CashMonths(<<start, end>>)
               Has(i) == months[i].from <= d /\ d <= months[i].to
           IN /\ start <= d /\ d <= end <=> \E i \in DOMAIN months : Has(i)
              /\ \A i, j \in DOMAIN months : Has(i) /\ Has(j) => i = j
              /\ \A i \in DOMAIN months : Has(i) => R!MonthKey(months[i].from) = R!MonthKey(d)
<1> DEFINE k == R!MonthKey(start)
           e == R!MonthKey(end)
           m == R!MonthKey(d)
           n == R!HowManyMonths(start, end)
           month(i) == R!Later(k, i - 1)
           last(i) == R!Earliest(R!LastDay(month(i)), end)
           months == R!CashMonths(<<start, end>>)
           x == Index(m) - Index(k)
<1>1. DOMAIN months = 1 .. n
  BY DEF R!CashMonths
<1>2. \A i \in 1 .. n : months[i].from = 100 * month(i) + 1 /\ months[i].to = last(i)
  BY DEF R!CashMonths, R!Query
<1>3. /\ IsMonth(k) /\ IsMonth(e) /\ IsMonth(m)
      /\ start \in Nat /\ end \in Nat /\ d \in Nat /\ start = 100 * k + 1
  BY DayParts
<1>4. Index(k) \in Nat /\ Index(e) \in Nat /\ Index(m) \in Nat /\ Index(k) <= Index(e)
  BY <1>3, DayOrder, MonthOrder
<1>5. n = Index(e) - Index(k) + 1
  BY MonthsOfPeriod
<1>6. d <= end => Index(m) <= Index(e)
  BY <1>3, DayOrder, MonthOrder
<1>7. start <= d <=> Index(k) <= Index(m)
  BY <1>3, MonthBounds
<1> HIDE DEF n, months
<1>8. n \in Nat /\ x \in Int
  BY <1>4, <1>5
<1>9. ASSUME NEW i \in 1 .. n
      PROVE  /\ 100 * month(i) + 1 <= d /\ d <= last(i) <=> d <= end /\ i = x + 1
             /\ i = x + 1 => month(i) = m
             /\ R!MonthKey(100 * month(i) + 1) = month(i)
  <2> DEFINE z == month(i)
  <2>1. i \in Nat \ {0} /\ i - 1 \in Nat
    BY <1>8
  <2>2. IsMonth(z) /\ z \in Nat /\ Index(z) = Index(k) + (i - 1)
    BY <1>3, <2>1, LaterMonth DEF IsMonth
  <2>3. /\ 100 * z + 1 <= d <=> Index(z) <= Index(m)
        /\ d <= R!LastDay(z) <=> Index(m) <= Index(z)
    BY <2>2, MonthBounds
  <2>4. R!LastDay(z) \in Nat /\ 1 \in 1 .. R!DaysIn(z)
    BY <2>2, DaysOfMonth
  <2>5. R!MonthKey(100 * z + 1) = z
    BY <2>2, <2>4, DayOfMonth
  <2>6. last(i) = R!Earliest(R!LastDay(z), end)
    OBVIOUS
  <2>7. (Index(z) <= Index(m) <=> z <= m) /\ (Index(m) <= Index(z) <=> m <= z) /\ m \in Nat
    BY <1>3, <2>2, MonthOrder DEF IsMonth
  <2>8. x = Index(m) - Index(k)
    OBVIOUS
  <2> HIDE DEF z, last, x, k, m
  <2>9. d <= last(i) <=> d <= R!LastDay(z) /\ d <= end
    BY <1>3, <2>4, <2>6 DEF R!Earliest
  <2>10. Index(z) <= Index(m) /\ Index(m) <= Index(z) <=> i = x + 1
    BY <1>4, <2>1, <2>2, <2>8
  <2>11. i = x + 1 => z = m
    BY <2>2, <2>7, <2>10
  <2>12. QED
    BY <2>3, <2>5, <2>9, <2>10, <2>11 DEF z
<1> HIDE DEF last, month
<1>10. start <= d /\ d <= end => x + 1 \in 1 .. n
  <2> HIDE DEF k, e, m
  <2>1. QED
    BY <1>4, <1>5, <1>6, <1>7 DEF x
<1>11. \A i \in 1 .. n : i = x + 1 => start <= d
  <2> HIDE DEF k, e, m
  <2>1. QED
    BY <1>4, <1>7, <1>8 DEF x
<1> HIDE DEF x, m, k, e
<1>12. \A i \in 1 .. n :
          /\ months[i].from <= d /\ d <= months[i].to <=> start <= d /\ d <= end /\ i = x + 1
          /\ i = x + 1 => R!MonthKey(months[i].from) = m
  BY <1>2, <1>9, <1>11
<1>13. start <= d /\ d <= end =>
          \E i \in 1 .. n : months[i].from <= d /\ d <= months[i].to
  <2>1. ASSUME start <= d, d <= end, NEW i \in 1 .. n, i = x + 1
        PROVE  months[i].from <= d /\ d <= months[i].to
    BY <1>12, <2>1
  <2>2. QED
    BY <1>10, <2>1
<1>14. \A i, j \in 1 .. n : /\ months[i].from <= d /\ d <= months[i].to
                           /\ months[j].from <= d /\ d <= months[j].to
                           => i = j
  BY <1>12
<1>15. \A i \in 1 .. n :
          months[i].from <= d /\ d <= months[i].to =>
             start <= d /\ d <= end /\ R!MonthKey(months[i].from) = m
  BY <1>12
<1> HIDE DEF n, months, m
<1>16. QED
  BY <1>1, <1>13, <1>14, <1>15 DEF months, m

\* A date of a year, a month and a day.
Date(y, m, n) == 10000 * y + 100 * m + n

\* A day by its year, month and day of the month.
LEMMA Dates ==
    ASSUME NEW y \in Nat, NEW m \in 1 .. 12, NEW n \in 1 .. R!DaysIn(100 * y + m)
    PROVE  LET d == Date(y, m, n) IN
           R!IsDay(d) /\ R!Year(d) = y /\ R!MonthOf(d) = m /\ R!MonthKey(d) = 100 * y + m
<1> DEFINE k == 100 * y + m
           d == Date(y, m, n)
<1>1. k \in Nat /\ k \div 100 = y /\ k % 100 = m
  OBVIOUS
<1>2. IsMonth(k)
  BY <1>1 DEF IsMonth
<1>3. R!DaysIn(k) \in 28 .. 31
  BY <1>1, DaysOfMonth
<1>4. n \in Nat /\ d = 100 * k + n
  BY <1>3 DEF Date
<1>5. R!IsDay(100 * k + n) /\ R!MonthKey(100 * k + n) = k
  BY <1>2, DayOfMonth
<1> HIDE DEF k, d
<1>6. R!IsDay(d) /\ R!MonthKey(d) = k
  BY <1>4, <1>5
<1>7. R!Year(d) = y /\ R!MonthOf(d) = m
  BY <1>1, <1>6, DayParts
<1>8. QED
  BY <1>6, <1>7 DEF k, d

\* A place on the line of months has one month.
LEMMA SameMonth ==
    ASSUME NEW k, IsMonth(k), NEW l, IsMonth(l), Index(k) = Index(l)
    PROVE  k = l
<1>1. k \in Nat /\ l \in Nat /\ Index(k) \in Nat
  BY MonthOrder DEF IsMonth
<1>2. k <= l /\ l <= k
  BY <1>1, MonthOrder
<1>3. QED
  BY <1>1, <1>2

\* Cash purchases are asked for by the month, from a first of a month on.
LEMMA MonthsFit ==
    ASSUME NEW start, R!IsDay(start), NEW end, R!IsDay(end), start <= end
    PROVE  /\ R!HowManyMonths(start, end) \in Nat \ {0}
           /\ \A i \in 1 .. R!HowManyMonths(start, end) :
                 LET m == R!Later(R!MonthKey(start), i - 1) IN
                 /\ R!IsDay(100 * m + 1)
                 /\ R!Earliest(R!LastDay(m), end) \in Nat
                 /\ ShortPeriod(100 * m + 1, R!Earliest(R!LastDay(m), end), end)
<1> DEFINE k == R!MonthKey(start)
           e == R!MonthKey(end)
           many == R!HowManyMonths(start, end)
<1>1. /\ IsMonth(k) /\ IsMonth(e) /\ e \in Nat /\ end \in Nat
      /\ end = 100 * e + (end % 100) /\ end % 100 \in 1 .. 31
  BY DayParts DEF IsMonth
<1>2. Index(k) \in Nat /\ Index(e) \in Nat /\ Index(k) <= Index(e)
  BY <1>1, DayOrder, MonthOrder DEF IsMonth
<1>3. many = Index(e) - Index(k) + 1
  <2>1. /\ R!Year(start) = k \div 100 /\ R!MonthOf(start) = k % 100
        /\ R!Year(end) = e \div 100 /\ R!MonthOf(end) = e % 100
    BY DayParts
  <2> HIDE DEF k, e
  <2>2. many = 12 * (e \div 100 - k \div 100) + (e % 100) - (k % 100) + 1
    BY <2>1 DEF R!HowManyMonths
  <2>3. k \div 100 \in Nat /\ e \div 100 \in Nat /\ k % 100 \in Nat /\ e % 100 \in Nat
    BY <1>1, Division DEF IsMonth
  <2> HIDE DEF many
  <2>4. QED
    BY <2>2, <2>3 DEF Index
<1> HIDE DEF many
<1>4. many \in Nat \ {0}
  BY <1>2, <1>3
<1>5. ASSUME NEW i \in 1 .. many
      PROVE  LET m == R!Later(k, i - 1) IN
             /\ R!IsDay(100 * m + 1)
             /\ R!Earliest(R!LastDay(m), end) \in Nat
             /\ ShortPeriod(100 * m + 1, R!Earliest(R!LastDay(m), end), end)
  <2> DEFINE m == R!Later(k, i - 1)
             d == 100 * m + 1
             c == R!Later(R!MonthKey(d), 0)
  <2>1. i - 1 \in Nat /\ i - 1 <= many - 1
    BY <1>4
  <2>2. IsMonth(m) /\ m \in Nat /\ Index(m) = Index(k) + (i - 1)
    <3>1. IsMonth(m) /\ Index(m) = Index(k) + (i - 1)
      BY <1>1, <2>1, LaterMonth
    <3>2. QED
      BY <3>1 DEF IsMonth
  <2>3. m <= e
    <3> HIDE DEF m, e, k
    <3>1. Index(m) <= Index(e)
      BY <1>2, <1>3, <1>4, <2>1, <2>2
    <3>2. QED
      BY <1>1, <2>2, <3>1, MonthOrder
  <2>4. R!IsDay(d) /\ R!MonthKey(d) = m /\ d \in Nat
    <3>1. 1 \in 1 .. R!DaysIn(m)
      BY <2>2, DaysOfMonth
    <3>2. QED
      BY <2>2, <3>1, DayOfMonth
  <2>5. R!LastDay(c) \in Nat /\ R!LastDay(c) < R!SameDay(d, 3) /\ d <= R!LastDay(c) /\ IsMonth(c)
    BY <2>4, ThreeMonths
  <2>6. c = m
    <3>1. Index(c) = Index(m)
      <4>1. Index(c) = Index(m) + 0
        BY <2>2, <2>4, LaterMonth
      <4>2. Index(m) \in Nat
        BY <2>2, MonthOrder
      <4> HIDE DEF m, c
      <4>3. QED
        BY <4>1, <4>2
    <3>2. QED
      BY <2>2, <2>5, <3>1, SameMonth
  <2>7. R!SameDay(d, 3) \in Nat
    <3>1. IsMonth(R!Later(R!MonthKey(d), 3))
      BY <2>2, <2>4, LaterMonth
    <3>2. R!DaysIn(R!Later(R!MonthKey(d), 3)) \in 28 .. 31
      BY <3>1, DaysOfMonth DEF IsMonth
    <3>3. d % 100 \in 1 .. 31
      BY <2>4, DayParts
    <3>4. QED
      BY <2>4, <3>1, <3>2, <3>3 DEF R!SameDay, R!Earliest, IsMonth
  <2> HIDE DEF e, c
  <2>8. d <= end
    BY <1>1, <2>2, <2>3
  <2> HIDE DEF m, d
  <2>9. /\ R!IsDay(d) /\ R!Earliest(R!LastDay(m), end) \in Nat
        /\ ShortPeriod(d, R!Earliest(R!LastDay(m), end), end)
    BY <1>1, <2>4, <2>5, <2>6, <2>7, <2>8 DEF ShortPeriod, R!Earliest
  <2>10. QED
    BY <2>9 DEF m, d
<1>6. QED
  BY <1>4, <1>5 DEF many

-----------------------------------------------------------------------------
(***************************************************************************)
(* Queries (financials.py:127-184, cli.py:803-899)                         *)
(***************************************************************************)
Sources == R!Columns \cup R!Breakdowns \cup {"registry"}
Daily == {"sales", "purchases", "business_card", "cash_purchase"}

\* The queries that HomeTax takes today.
Taken == {q \in [source : Sources, from : Nat, to : Nat, deduction : R!Deductions, whole : BOOLEAN] :
             R!ValidQuery(q) /\ (q.source = "cash_sales" => q.whole)}

\* A query has the fields that it was made of.
LEMMA QueryRecords ==
    ASSUME NEW source \in Sources, NEW from \in Nat, NEW to \in Nat,
           NEW deduction \in R!Deductions, NEW whole \in BOOLEAN
    PROVE  LET q == R!Query(source, from, to, deduction, whole) IN
           /\ q \in [source : Sources, from : Nat, to : Nat, deduction : R!Deductions, whole : BOOLEAN]
           /\ q.source = source /\ q.from = from /\ q.to = to
BY DEF R!Query

\* A short period of a list by days can be asked for.
LEMMA PeriodTaken ==
    ASSUME R!IsDay(today), NEW source \in Daily, NEW from \in Nat, NEW to \in Nat,
           NEW end \in Nat, ShortPeriod(from, to, end), end <= today,
           NEW deduction \in R!Deductions, NEW whole \in BOOLEAN
    PROVE  R!Query(source, from, to, deduction, whole) \in Taken
<1> DEFINE q == R!Query(source, from, to, deduction, whole)
<1>1. /\ q \in [source : Sources, from : Nat, to : Nat, deduction : R!Deductions, whole : BOOLEAN]
      /\ q.source = source /\ q.from = from /\ q.to = to
  <2>1. source \in Sources
    BY DEF Daily, Sources, R!Columns
  <2>2. QED
    BY <2>1, QueryRecords
<1> HIDE DEF q
<1>2. today \in Nat
  BY DayParts
<1>3. R!ValidPeriod(from, to)
  BY <1>2 DEF ShortPeriod, R!ValidPeriod, R!Earliest
<1>4. source \notin {"card_sales", "cash_sales", "registry"}
  BY DEF Daily
<1>5. R!ValidQuery(q)
  BY <1>1, <1>3, <1>4 DEF R!ValidQuery
<1>6. q \in Taken
  BY <1>1, <1>4, <1>5 DEF Taken
<1>7. QED
  BY <1>6 DEF q

\* So can each span of a period, and there is one.
LEMMA SpansTaken ==
    ASSUME R!IsDay(today), NEW source \in Daily, NEW deduction \in R!Deductions, NEW whole \in BOOLEAN,
           NEW p, R!IsDay(p[1]), R!IsDay(p[2]), p[1] <= p[2], p[2] <= today
    PROVE  R!Spans(source, p, deduction, whole) \in Seq(Taken) /\ Len(R!Spans(source, p, deduction, whole)) > 0
<1> DEFINE spans == R!SplitPeriods(p[1], p[2])
           queries == R!Spans(source, p, deduction, whole)
           query(i) == R!Query(source, spans[i][1], spans[i][2], deduction, whole)
<1>1. PICK n \in Nat \ {0} :
         /\ DOMAIN spans = 1 .. n
         /\ \A i \in 1 .. n : /\ spans[i][1] \in Nat /\ spans[i][2] \in Nat
                              /\ ShortPeriod(spans[i][1], spans[i][2], p[2])
  BY SpansFit
<1>2. queries = [i \in 1 .. n |-> query(i)]
  BY <1>1 DEF R!Spans
<1>3. p[2] \in Nat
  BY DayParts
<1> HIDE DEF spans
<1>4. \A i \in 1 .. n : query(i) \in Taken
  BY <1>1, <1>3, PeriodTaken
<1> HIDE DEF query, queries
<1>5. QED
  BY <1>1, <1>2, <1>4 DEF queries

\* So can each month of a period.
LEMMA CashMonthsTaken ==
    ASSUME R!IsDay(today), NEW p, R!IsDay(p[1]), R!IsDay(p[2]), p[1] <= p[2], p[2] <= today
    PROVE  R!CashMonths(p) \in Seq(Taken)
<1> DEFINE many == R!HowManyMonths(p[1], p[2])
           month(i) == R!Later(R!MonthKey(p[1]), i - 1)
           from(i) == 100 * month(i) + 1
           to(i) == R!Earliest(R!LastDay(month(i)), p[2])
           query(i) == R!Query("cash_purchase", from(i), to(i), "all", FALSE)
<1>1. many \in Nat /\ p[2] \in Nat
  BY MonthsFit, DayParts
<1>2. R!CashMonths(p) = [i \in 1 .. many |-> query(i)]
  BY DEF R!CashMonths
<1>3. \A i \in 1 .. many : R!IsDay(from(i)) /\ to(i) \in Nat /\ ShortPeriod(from(i), to(i), p[2])
  BY MonthsFit
<1> HIDE DEF from, to
<1>4. \A i \in 1 .. many : query(i) \in Taken
  <2> SUFFICES ASSUME NEW i \in 1 .. many PROVE query(i) \in Taken
    OBVIOUS
  <2>1. from(i) \in Nat
    BY <1>3, DayParts
  <2>2. "cash_purchase" \in Daily /\ "all" \in R!Deductions
    BY DEF Daily, R!Deductions
  <2>3. QED
    BY <1>1, <1>3, <2>1, <2>2, PeriodTaken
<1> HIDE DEF query
<1>5. QED
  BY <1>1, <1>2, <1>4

\* The queries of a year, which ask for a year that has begun.
YearQuery(source, from, to) == R!Query(source, from, to, "all", TRUE)

\* Sums of a year that has begun can be asked for.
LEMMA YearTaken ==
    ASSUME R!IsDay(today), NEW source \in {"card_sales", "cash_sales"},
           NEW from, NEW to, R!IsDay(from), R!IsDay(to), from <= to,
           R!Year(from) \in 2000 .. 2100, R!Year(from) <= R!Year(today)
    PROVE  YearQuery(source, from, to) \in Taken
<1> DEFINE q == YearQuery(source, from, to)
<1>1. /\ q \in [source : Sources, from : Nat, to : Nat, deduction : R!Deductions, whole : BOOLEAN]
      /\ q.source = source /\ q.from = from /\ q.to = to
  <2>1. source \in Sources
    BY DEF Sources, R!Columns
  <2>2. from \in Nat /\ to \in Nat
    BY DayParts
  <2>3. QED
    BY <2>1, <2>2 DEF YearQuery, R!Query, R!Deductions
<1>2. q.whole
  BY DEF YearQuery, R!Query
<1> HIDE DEF q
<1>3. R!ValidQuery(q)
  <2>1. R!ValidYear(q.from, q.to)
    BY <1>1 DEF R!ValidYear
  <2>2. q.source \in {"card_sales", "cash_sales"}
    BY <1>1
  <2>3. QED
    BY <2>1, <2>2 DEF R!ValidQuery
<1>4. q \in Taken
  BY <1>1, <1>2, <1>3 DEF Taken
<1>5. QED
  BY <1>4 DEF q

\* A year that can be asked for, the first and the last of its quarters.
HasBegun(y) == y \in 2000 .. 2100 /\ y <= R!Year(today)
AreQuarters(n, m) == n \in 1 .. 4 /\ m \in 1 .. 4 /\ n <= m

\* So can the quarters of one, in their order.
LEMMA CardSalesTaken ==
    ASSUME R!IsDay(today), NEW y, HasBegun(y), NEW n, NEW m, AreQuarters(n, m)
    PROVE  R!CardSales(y, n, m) \in Seq(Taken) /\ Len(R!CardSales(y, n, m)) > 0
<1> DEFINE f == 3 * n - 2
           l == 3 * m
           k == 100 * y + l
           from == Date(y, f, 1)
           to == Date(y, l, R!DaysIn(k))
           q == YearQuery("card_sales", from, to)
<1>0. /\ y \in 2000 .. 2100 /\ y <= R!Year(today)
      /\ n \in 1 .. 4 /\ m \in 1 .. 4 /\ n <= m
  BY DEF HasBegun, AreQuarters
<1>1. f \in 1 .. 12 /\ l \in 1 .. 12 /\ y \in Nat /\ f <= l
  BY <1>0
<1>2. R!CardSales(y, n, m) =
        <<R!Query("card_sales", 10000 * y + 100 * f + 1, R!LastDay(k), "all", TRUE)>>
  BY DEF R!CardSales
<1> HIDE DEF f, l
<1>3. k \in Nat /\ 100 * y + f \in Nat
  BY <1>1
<1>4. R!DaysIn(k) \in 28 .. 31 /\ R!DaysIn(100 * y + f) \in 28 .. 31
  BY <1>3, DaysOfMonth
<1>5. 1 \in 1 .. R!DaysIn(100 * y + f) /\ R!DaysIn(k) \in 1 .. R!DaysIn(k)
  BY <1>4
<1>6. R!IsDay(from) /\ R!Year(from) = y
  <2>1. \A i \in 1 .. R!DaysIn(100 * y + f) :
           R!IsDay(Date(y, f, i)) /\ R!Year(Date(y, f, i)) = y
    BY <1>1, Dates
  <2>2. QED
    BY <1>5, <2>1
<1>7. R!IsDay(to)
  BY <1>1, <1>5, Dates
<1>8. R!LastDay(k) = to /\ from = 10000 * y + 100 * f + 1
  BY <1>1, <1>4 DEF R!LastDay, Date
<1>9. from <= to
  BY <1>1, <1>4 DEF Date
<1> HIDE DEF from, to, k
<1>10. R!CardSales(y, n, m) = <<q>>
  BY <1>2, <1>8 DEF YearQuery
<1>11. "card_sales" \in {"card_sales", "cash_sales"}
  OBVIOUS
<1>12. q \in Taken
  BY <1>0, <1>6, <1>7, <1>9, <1>11, YearTaken
<1> HIDE DEF q
<1>13. QED
  BY <1>10, <1>12

\* So can the whole of one.
LEMMA CashSalesTaken ==
    ASSUME R!IsDay(today), NEW y, HasBegun(y)
    PROVE  R!CashSales(y) \in Seq(Taken) /\ Len(R!CashSales(y)) > 0
<1> DEFINE from == Date(y, 1, 1)
           to == Date(y, 12, 31)
           q == YearQuery("cash_sales", from, to)
<1>0. y \in 2000 .. 2100 /\ y <= R!Year(today)
  BY DEF HasBegun
<1>1. y \in Nat /\ 100 * y + 1 \in Nat /\ 100 * y + 12 \in Nat
  BY <1>0
<1>2. 1 \in 1 .. R!DaysIn(100 * y + 1) /\ 31 \in 1 .. R!DaysIn(100 * y + 12)
  <2>1. R!DaysIn(100 * y + 1) \in 28 .. 31
    BY <1>1, DaysOfMonth
  <2>2. (100 * y + 12) % 100 = 12
    BY <1>1
  <2>3. R!DaysIn(100 * y + 12) = 31
    BY <2>2 DEF R!DaysIn
  <2>4. QED
    BY <2>1, <2>3
<1>3. 1 \in 1 .. 12 /\ 12 \in 1 .. 12
  OBVIOUS
<1>4. R!IsDay(from) /\ R!Year(from) = y
  BY <1>1, <1>2, <1>3, Dates
<1>5. R!IsDay(to)
  BY <1>1, <1>2, <1>3, Dates
<1>6. from = 10000 * y + 101 /\ to = 10000 * y + 1231 /\ from <= to
  BY <1>1 DEF Date
<1> HIDE DEF from, to
<1>7. R!CashSales(y) = <<q>>
  BY <1>6 DEF R!CashSales, YearQuery
<1>8. "cash_sales" \in {"card_sales", "cash_sales"}
  OBVIOUS
<1>9. q \in Taken
  BY <1>0, <1>4, <1>5, <1>6, <1>8, YearTaken
<1> HIDE DEF q
<1>10. QED
  BY <1>7, <1>9

\* The quarters of two months are in the order of the months.
LEMMA Quarters ==
    ASSUME NEW m \in 1 .. 12, NEW n \in 1 .. 12, m <= n
    PROVE  /\ (m - 1) \div 3 + 1 \in 1 .. 4 /\ (n - 1) \div 3 + 1 \in 1 .. 4
           /\ (m - 1) \div 3 + 1 <= (n - 1) \div 3 + 1
OBVIOUS

\* A period of year y, which has begun, until today at the latest.
OfYear(p, y) ==
    /\ R!IsDay(p[1]) /\ R!IsDay(p[2]) /\ p[1] <= p[2] /\ R!Year(p[2]) = y
    /\ AreQuarters(R!QuarterOf(p[1]), R!QuarterOf(p[2]))

FitsYear(p, y) == OfYear(p, y) /\ p[2] <= today /\ y <= R!Year(today)

\* Months f to l of year y, and the days of l.
AreMonths(y, f, l, n) ==
    /\ y \in Nat /\ f \in 1 .. 12 /\ l \in 1 .. 12 /\ f <= l
    /\ n \in 1 .. R!DaysIn(100 * y + l)

\* Some months of a year, of which the first has begun, are a period of it.
LEMMA PeriodOfYear ==
    ASSUME R!IsDay(today), NEW y, NEW f, NEW l, NEW n, AreMonths(y, f, l, n),
           Date(y, f, 1) <= today
    PROVE  FitsYear(<<Date(y, f, 1), R!Earliest(Date(y, l, n), today)>>, y)
<1> DEFINE from == Date(y, f, 1)
           last == Date(y, l, n)
           to == R!Earliest(last, today)
<1>0. /\ y \in Nat /\ f \in 1 .. 12 /\ l \in 1 .. 12 /\ f <= l
      /\ n \in 1 .. R!DaysIn(100 * y + l)
  BY DEF AreMonths
<1>1. 100 * y + f \in Nat /\ 100 * y + l \in Nat
  BY <1>0
<1>2. R!DaysIn(100 * y + f) \in 28 .. 31 /\ R!DaysIn(100 * y + l) \in 28 .. 31
  BY <1>1, DaysOfMonth
<1>3. R!IsDay(from) /\ R!Year(from) = y /\ R!MonthOf(from) = f
  <2>1. \A i \in 1 .. R!DaysIn(100 * y + f) :
           LET d == Date(y, f, i) IN R!IsDay(d) /\ R!Year(d) = y /\ R!MonthOf(d) = f
    BY <1>0, Dates
  <2>2. 1 \in 1 .. R!DaysIn(100 * y + f)
    BY <1>2
  <2>3. QED
    BY <2>1, <2>2
<1>4. R!IsDay(last) /\ R!Year(last) = y
  BY <1>0, Dates
<1>5. from <= last /\ from \in Nat /\ last \in Nat /\ today \in Nat
  <2>1. n \in Nat /\ 1 <= n
    BY <1>0, <1>2
  <2>2. from <= last /\ from \in Nat /\ last \in Nat
    BY <1>0, <2>1 DEF Date
  <2>3. QED
    BY <2>2, DayParts
<1>6. to \in {last, today} /\ to <= last /\ to <= today /\ from <= to
  <2> HIDE DEF from, last
  <2>1. QED
    BY <1>5 DEF R!Earliest, from
<1> HIDE DEF from, last, to
<1>7. R!IsDay(to)
  BY <1>4, <1>6
<1>8. R!Year(to) = y
  <2>1. y <= R!Year(to) /\ R!Year(to) <= y
    BY <1>0, <1>3, <1>4, <1>6, <1>7, DayOrder
  <2>2. R!Year(to) \in Nat
    BY <1>7, DayParts
  <2>3. QED
    BY <1>0, <2>1, <2>2
<1>9. y <= R!Year(today)
  BY <1>6, <1>7, <1>8, DayOrder
<1>10. R!MonthOf(to) \in 1 .. 12 /\ R!MonthOf(from) <= R!MonthOf(to)
  <2>1. R!MonthKey(from) <= R!MonthKey(to)
    BY <1>3, <1>6, <1>7, DayOrder
  <2>2. /\ R!MonthKey(from) \in Nat /\ R!MonthKey(from) \div 100 = y
        /\ R!MonthKey(from) % 100 = R!MonthOf(from)
    BY <1>3, DayParts DEF IsMonth
  <2>3. /\ R!MonthKey(to) \in Nat /\ R!MonthKey(to) \div 100 = y
        /\ R!MonthKey(to) % 100 = R!MonthOf(to) /\ R!MonthOf(to) \in 1 .. 12
    BY <1>7, <1>8, DayParts DEF IsMonth
  <2>4. QED
    BY <1>0, <1>3, <2>1, <2>2, <2>3, Division
<1>11. AreQuarters(R!QuarterOf(from), R!QuarterOf(to))
  BY <1>0, <1>3, <1>10, Quarters DEF R!QuarterOf, AreQuarters
<1>12. FitsYear(<<from, to>>, y)
  BY <1>3, <1>6, <1>7, <1>8, <1>9, <1>11 DEF FitsYear, OfYear
<1>13. QED
  BY <1>12 DEF from, last, to

\* Queries after queries.
LEMMA BothTaken ==
    ASSUME NEW s \in Seq(Taken), NEW t \in Seq(Taken)
    PROVE  s \o t \in Seq(Taken) /\ Len(s \o t) = Len(s) + Len(t)
  BY ConcatProperties

\* The year until today is a period of it.
LEMMA WholeYear ==
    ASSUME R!IsDay(today), NEW y \in Nat, y <= R!Year(today)
    PROVE  FitsYear(<<10000 * y + 101, R!Earliest(10000 * y + 1231, today)>>, y)
<1>1. today \in Nat /\ R!Year(today) \in Nat
  BY DayParts
<1>2. R!Year(today) = today \div 10000
  BY DEF R!Year
<1>3. 10000 * y + 101 = Date(y, 1, 1) /\ 10000 * y + 1231 = Date(y, 12, 31)
  BY DEF Date
<1>4. (100 * y + 12) % 100 = 12
  OBVIOUS
<1>5. R!DaysIn(100 * y + 12) = 31
  BY <1>4 DEF R!DaysIn
<1>6. 31 \in 1 .. R!DaysIn(100 * y + 12) /\ 1 \in 1 .. 12 /\ 12 \in 1 .. 12 /\ 1 <= 12
  BY <1>5
<1>7. Date(y, 1, 1) <= today
  <2>1. /\ R!MonthKey(today) \in Nat /\ R!MonthKey(today) % 100 \in 1 .. 12
        /\ R!Year(today) = R!MonthKey(today) \div 100 /\ today % 100 \in 1 .. 31
        /\ today = 100 * R!MonthKey(today) + (today % 100)
    BY DayParts DEF IsMonth
  <2>2. QED
    BY <1>1, <1>3, <2>1, Division
<1>8. AreMonths(y, 1, 12, 31)
  BY <1>6 DEF AreMonths
<1>9. QED
  BY <1>3, <1>7, <1>8, PeriodOfYear

HalfOf(y, h) ==
    <<10000 * y + 600 * h - 499, R!Earliest(R!LastDay(100 * y + 6 * h), today)>>

\* So is a half-year that has begun.
LEMMA HalfYear ==
    ASSUME R!IsDay(today), NEW y, NEW h, y \in 2000 .. 2100, h \in 1 .. 2,
           10000 * y + 600 * h - 499 <= today
    PROVE  FitsYear(HalfOf(y, h), y)
<1> DEFINE f == 6 * h - 5
           l == 6 * h
           n == R!DaysIn(100 * y + l)
<1>1. f \in 1 .. 12 /\ l \in 1 .. 12 /\ f <= l /\ 100 * y + l \in Nat /\ y \in Nat
  OBVIOUS
<1>2. n \in 28 .. 31 /\ R!LastDay(100 * y + l) = 100 * (100 * y + l) + n
  BY <1>1, DaysOfMonth
<1>3. 10000 * y + 600 * h - 499 = Date(y, f, 1)
  BY DEF Date
<1> HIDE DEF l, f
<1>4. n \in 1 .. R!DaysIn(100 * y + l)
  BY <1>2
<1>5. R!LastDay(100 * y + l) = Date(y, l, n)
  <2> HIDE DEF n
  <2>1. QED
    BY <1>1, <1>2 DEF Date
<1>6. Date(y, f, 1) <= today
  BY <1>3
<1> HIDE DEF n
<1>7. FitsYear(<<Date(y, f, 1), R!Earliest(Date(y, l, n), today)>>, y)
  <2>1. AreMonths(y, f, l, n)
    BY <1>1, <1>4 DEF AreMonths
  <2>2. QED
    BY <1>6, <2>1, PeriodOfYear
<1>8. FitsYear(<<10000 * y + 600 * h - 499,
                 R!Earliest(R!LastDay(100 * y + l), today)>>, y)
  BY <1>3, <1>5, <1>7
<1>9. QED
  BY <1>8 DEF l, HalfOf

\* The years that the command line takes have begun.
LEMMA BegunYear ==
    ASSUME R!IsDay(today), NEW y, y \in 0 .. 2100, y \in 2000 .. R!Year(today)
    PROVE  HasBegun(y)
<1>1. R!Year(today) \in Nat
  BY DayParts
<1>2. QED
  BY <1>1 DEF HasBegun

\* The period of a list is of days, and over or until today.
LEMMA DailyPeriod ==
    ASSUME R!IsDay(today), NEW c \in Reading, R!Acceptable(c), c.kind \in {"list", "summary"}
    PROVE  LET p == R!Period(c) IN
           R!IsDay(p[1]) /\ R!IsDay(p[2]) /\ p[1] <= p[2] /\ p[2] <= today
<1> DEFINE p == R!Period(c)
<1>1. p = IF c.from = R!Ytd THEN <<10000 * R!Year(today) + 101, today>> ELSE <<c.from, c.to>>
  BY DEF R!Period
<1>2. p[1] <= p[2] /\ p[2] <= today
  BY DEF R!Acceptable
<1>3. R!IsDay(p[1]) /\ R!IsDay(p[2])
  <2>1. CASE c.from = R!Ytd
    <3>1. R!Year(today) \in Nat
      BY DayParts
    <3>2. R!IsDay(Date(R!Year(today), 1, 1))
      <4>1. R!DaysIn(100 * R!Year(today) + 1) \in 28 .. 31
        BY <3>1, DaysOfMonth
      <4>2. 1 \in 1 .. 12 /\ 1 \in 1 .. R!DaysIn(100 * R!Year(today) + 1)
        BY <4>1
      <4>3. QED
        BY <3>1, <4>2, Dates
    <3>3. Date(R!Year(today), 1, 1) = 10000 * R!Year(today) + 101
      BY <3>1 DEF Date
    <3>4. QED
      BY <1>1, <2>1, <3>2, <3>3
  <2>2. CASE c.from # R!Ytd
    BY <1>1, <2>2, ReadingAssumption
  <2>3. QED
    BY <2>1, <2>2
<1>4. QED
  BY <1>2, <1>3

\* The period of a report is one of its year, and begins with a half of it.
BeginsHalf(p, y) == \E f \in {1, 7} : p[1] = Date(y, f, 1)

\* A revenue, VAT or counterparty command has such a period.
LEMMA YearPeriod ==
    ASSUME R!IsDay(today), NEW c \in Reading, R!Acceptable(c),
           c.kind \in {"revenue", "counterparty", "vat"}
    PROVE  /\ c.year \in 2000 .. 2100
           /\ FitsYear(R!Period(c), c.year) /\ BeginsHalf(R!Period(c), c.year)
<1> DEFINE p == R!Period(c)
<1>1. CASE c.kind = "vat"
  <2>1. c.year \in 0 .. 2100 /\ c.half \in 1 .. 2
    BY <1>1, ReadingAssumption
  <2>2. p = <<10000 * c.year + 600 * c.half - 499,
              R!Earliest(R!LastDay(100 * c.year + 6 * c.half), today)>>
    BY <1>1 DEF R!Period
  <2>3. c.year >= 2000 /\ p[1] <= today
    BY <1>1 DEF R!Acceptable
  <2>4. PICK y \in 0 .. 2100 : y = c.year
    BY <2>1
  <2>5. PICK h \in 1 .. 2 : h = c.half
    BY <2>1
  <2>6. p = <<10000 * y + 600 * h - 499, R!Earliest(R!LastDay(100 * y + 6 * h), today)>>
    BY <2>2, <2>4, <2>5
  <2> HIDE DEF p
  <2>7. y \in 2000 .. 2100 /\ 10000 * y + 600 * h - 499 <= today
    <3>1. y >= 2000
      BY <2>3, <2>4
    <3>2. 10000 * y + 600 * h - 499 <= today
      BY <2>3, <2>6
    <3>3. QED
      BY <3>1, <3>2
  <2>8. FitsYear(p, y)
    <3>1. FitsYear(HalfOf(y, h), y)
      BY <2>7, HalfYear
    <3>2. QED
      BY <2>6, <3>1 DEF HalfOf
  <2>9. BeginsHalf(p, y)
    <3>1. p[1] = 10000 * y + 600 * h - 499
      BY <2>6
    <3>2. p[1] = Date(y, 1, 1) \/ p[1] = Date(y, 7, 1)
      BY <3>1 DEF Date
    <3>3. QED
      BY <3>2 DEF BeginsHalf
  <2>10. QED
    BY <2>4, <2>7, <2>8, <2>9 DEF p
<1>2. CASE c.kind \in {"revenue", "counterparty"}
  <2>1. c.year \in 0 .. 2100
    BY <1>2, ReadingAssumption
  <2>2. p = <<10000 * c.year + 101, R!Earliest(10000 * c.year + 1231, today)>>
    BY <1>2 DEF R!Period
  <2>3. c.year \in 2000 .. R!Year(today)
    BY <1>2 DEF R!Acceptable
  <2>4. c.year \in 2000 .. 2100 /\ c.year <= R!Year(today)
    BY <2>1, <2>3, BegunYear DEF HasBegun
  <2> HIDE DEF p
  <2>5. PICK y \in 2000 .. 2100 : y = c.year
    BY <2>4
  <2>6. FitsYear(p, y)
    BY <2>2, <2>4, <2>5, WholeYear
  <2>7. BeginsHalf(p, y)
    <3>1. p[1] = Date(y, 1, 1)
      BY <2>2, <2>5 DEF Date
    <3>2. QED
      BY <3>1 DEF BeginsHalf
  <2>8. QED
    BY <2>5, <2>6, <2>7 DEF p
<1>3. QED
  BY <1>1, <1>2

\* Every query of a command that the command line accepts is one that HomeTax takes.
LEMMA WorkTaken ==
    ASSUME R!IsDay(today), NEW c \in Reading, R!Acceptable(c)
    PROVE  R!Work(c) \in Seq(Taken) /\ Len(R!Work(c)) > 0
<1> DEFINE p == R!Period(c)
           sales == R!Spans("sales", p, "all", FALSE)
           purchases == R!Spans("purchases", p, "all", FALSE)
           bought == R!Spans("business_card", p, IF c.kind = "vat" THEN "deductible" ELSE "all", FALSE)
           cash == R!CashMonths(p)
           cards == R!CardSales(c.year, R!QuarterOf(p[1]), R!QuarterOf(p[2]))
           receipts == R!CashSales(c.year)
<1>0. /\ FALSE \in BOOLEAN /\ TRUE \in BOOLEAN /\ "all" \in R!Deductions
      /\ (IF c.kind = "vat" THEN "deductible" ELSE "all") \in R!Deductions
  BY DEF R!Deductions
<1>1. CASE c.kind \in {"list", "summary"}
  <2>2. R!IsDay(p[1]) /\ R!IsDay(p[2]) /\ p[1] <= p[2] /\ p[2] <= today
    BY <1>1, DailyPeriod
  <2>4. c.source \in Daily /\ (c.kind = "list" => c.deduction \in R!Deductions)
    BY <1>1, ReadingAssumption DEF Daily, R!Deductions
  <2>5. \A deduction \in R!Deductions, whole \in BOOLEAN :
           /\ R!Spans(c.source, p, deduction, whole) \in Seq(Taken)
           /\ Len(R!Spans(c.source, p, deduction, whole)) > 0
    BY <2>2, <2>4, SpansTaken
  <2> HIDE DEF p
  <2>6. CASE c.kind = "list"
    <3>1. R!Work(c) = R!Spans(c.source, p, c.deduction, FALSE)
      BY <2>6 DEF R!Work, R!WorkOver, p
    <3>2. QED
      BY <1>0, <2>4, <2>5, <2>6, <3>1
  <2>7. CASE c.kind = "summary"
    <3>1. R!Work(c) = R!Spans(c.source, p, "all", TRUE)
      BY <2>7 DEF R!Work, R!WorkOver, p
    <3>2. QED
      BY <1>0, <2>5, <3>1
  <2>8. QED
    BY <1>1, <2>6, <2>7
<1>2. CASE c.kind = "registry"
  <2>1. R!Work(c) = <<R!Query("registry", 0, R!Forever, "all", FALSE)>>
    BY <1>2 DEF R!Work, R!WorkOver
  <2> DEFINE q == R!Query("registry", 0, R!Forever, "all", FALSE)
  <2>2. /\ q \in [source : Sources, from : Nat, to : Nat, deduction : R!Deductions, whole : BOOLEAN]
        /\ q.source = "registry"
    BY SMT DEF R!Query, R!Forever, R!Deductions, Sources
  <2>3. R!Work(c) = <<q>>
    BY <2>1
  <2> HIDE DEF q
  <2>4. R!ValidQuery(q)
    BY <2>2 DEF R!ValidQuery
  <2>5. q \in Taken
    BY <2>2, <2>4 DEF Taken
  <2>6. QED
    BY <2>3, <2>5
<1>3. CASE c.kind = "card_sales"
  <2>1. R!Work(c) = R!CardSales(c.year, c.first, c.last)
    BY <1>3 DEF R!Work, R!WorkOver
  <2>2. c.year \in 2000 .. R!Year(today) /\ c.first <= c.last
    BY <1>3 DEF R!Acceptable
  <2>3. c.year \in 0 .. 2100 /\ c.first \in 1 .. 4 /\ c.last \in 1 .. 4
    BY <1>3, ReadingAssumption
  <2>4. HasBegun(c.year)
    BY <2>2, <2>3, BegunYear
  <2>5. AreQuarters(c.first, c.last)
    BY <2>2, <2>3 DEF AreQuarters
  <2>6. QED
    BY <2>1, <2>4, <2>5, CardSalesTaken
<1>4. CASE c.kind = "cash_sales"
  <2>1. R!Work(c) = R!CashSales(c.year)
    BY <1>4 DEF R!Work, R!WorkOver
  <2>2. c.year \in 2000 .. R!Year(today)
    BY <1>4 DEF R!Acceptable
  <2>3. c.year \in 0 .. 2100
    BY <1>4, ReadingAssumption
  <2>4. HasBegun(c.year)
    BY <2>2, <2>3, BegunYear
  <2>5. QED
    BY <2>1, <2>4, CashSalesTaken
<1>5. CASE c.kind \in {"revenue", "counterparty", "vat"}
  <2>1. c.year \in 2000 .. 2100 /\ FitsYear(p, c.year)
    BY <1>5, YearPeriod
  <2> HIDE DEF p
  <2>2. /\ R!IsDay(p[1]) /\ R!IsDay(p[2]) /\ p[1] <= p[2] /\ p[2] <= today
        /\ AreQuarters(R!QuarterOf(p[1]), R!QuarterOf(p[2]))
        /\ HasBegun(c.year)
    BY <2>1 DEF FitsYear, OfYear, HasBegun
  <2>7. \A source \in Daily, deduction \in R!Deductions, whole \in BOOLEAN :
           R!Spans(source, p, deduction, whole) \in Seq(Taken) /\ Len(R!Spans(source, p, deduction, whole)) > 0
    BY <2>2, SpansTaken
  <2>8. "sales" \in Daily /\ "purchases" \in Daily /\ "business_card" \in Daily
    BY DEF Daily
  <2>9. sales \in Seq(Taken) /\ Len(sales) > 0 /\ purchases \in Seq(Taken) /\ bought \in Seq(Taken)
    <3>1. sales \in Seq(Taken) /\ Len(sales) > 0
      BY <1>0, <2>7, <2>8
    <3>2. purchases \in Seq(Taken)
      BY <1>0, <2>7, <2>8
    <3>3. bought \in Seq(Taken)
      BY <1>0, <2>7, <2>8
    <3>4. QED
      BY <3>1, <3>2, <3>3
  <2>10. cash \in Seq(Taken)
    BY <2>2, CashMonthsTaken
  <2>11. cards \in Seq(Taken) /\ receipts \in Seq(Taken)
    BY <2>2, CardSalesTaken, CashSalesTaken
  <2>12. R!Work(c) = IF c.kind = "counterparty" THEN sales \o purchases
                     ELSE sales \o purchases \o cards \o receipts \o bought \o cash
    <3>1. c.kind \notin {"list", "summary", "registry", "card_sales", "cash_sales"}
      BY <1>5
    <3>2. CASE c.kind = "counterparty"
      BY <3>2 DEF R!Work, R!WorkOver, p
    <3>3. CASE c.kind # "counterparty"
      BY <3>1, <3>3 DEF R!Work, R!WorkOver, p
    <3>4. QED
      BY <3>2, <3>3
  <2> HIDE DEF sales, purchases, cards, receipts, bought, cash
  <2>13. sales \o purchases \in Seq(Taken) /\ Len(sales \o purchases) > 0
    BY <2>9, BothTaken
  <2>14. /\ sales \o purchases \o cards \in Seq(Taken)
         /\ Len(sales \o purchases \o cards) > 0
    BY <2>11, <2>13, BothTaken
  <2>15. /\ sales \o purchases \o cards \o receipts \in Seq(Taken)
         /\ Len(sales \o purchases \o cards \o receipts) > 0
    BY <2>11, <2>14, BothTaken
  <2>16. /\ sales \o purchases \o cards \o receipts \o bought \in Seq(Taken)
         /\ Len(sales \o purchases \o cards \o receipts \o bought) > 0
    BY <2>9, <2>15, BothTaken
  <2>17. /\ sales \o purchases \o cards \o receipts \o bought \o cash \in Seq(Taken)
         /\ Len(sales \o purchases \o cards \o receipts \o bought \o cash) > 0
    BY <2>10, <2>16, BothTaken
  <2>18. QED
    BY <2>12, <2>13, <2>17
<1>6. QED
  BY <1>1, <1>2, <1>3, <1>4, <1>5, ReadingAssumption

-----------------------------------------------------------------------------
(***************************************************************************)
(* A reading command                                                       *)
(***************************************************************************)
\* What remains to be asked is taken, whatever day it is by now.
QueueIsTaken ==
    /\ R!IsDay(today)
    /\ reading = "fetch" => queue \in Seq(Taken) /\ Len(queue) > 0
    /\ reading # "refused"

\* Whatever the day, three months later is a number.
LEMMA SameDayIsNumber ==
    ASSUME NEW d \in Nat
    PROVE  R!SameDay(d, 3) \in Int
<1> DEFINE k == R!MonthKey(d)
           l == R!Later(k, 3)
<1>1. k \in Nat /\ d % 100 \in Int
  BY DEF R!MonthKey
<1> HIDE DEF k
<1>2. l \in Nat
  BY <1>1 DEF R!Later
<1> HIDE DEF l
<1>3. R!DaysIn(l) \in 28 .. 31
  BY <1>2, DaysOfMonth
<1>4. R!SameDay(d, 3) = 100 * l + R!Earliest(d % 100, R!DaysIn(l))
  BY DEF R!SameDay, k, l
<1>5. QED
  BY <1>1, <1>2, <1>3, <1>4 DEF R!Earliest

\* A query that was taken once is taken later: days only pass.
LEMMA StillTaken ==
    R!IsDay(today) /\ R!IsDay(today') /\ today <= today' => Taken \subseteq Taken'
<1> SUFFICES ASSUME R!IsDay(today), R!IsDay(today'), today <= today', NEW q \in Taken
             PROVE  q \in Taken'
  OBVIOUS
<1>1. /\ q \in [source : Sources, from : Nat, to : Nat, deduction : R!Deductions, whole : BOOLEAN]
      /\ R!ValidQuery(q)
  BY DEF Taken
<1>2. q.from \in Nat /\ q.to \in Nat
  BY <1>1
<1>3. /\ today \in Nat /\ today' \in Nat /\ R!Year(today) \in Nat /\ R!Year(today') \in Nat
      /\ R!Year(today) <= R!Year(today')
  BY DayParts, DayOrder
<1> DEFINE from == q.from
           to == q.to
           y == R!Year(from)
           s == R!SameDay(from, 3)
<1>4. from \in Nat /\ to \in Nat
  BY <1>2
<1>5. R!ValidPeriod(from, to) => R!ValidPeriod(from, to)'
  <2> SUFFICES ASSUME from <= to, to <= R!Earliest(today, s)
               PROVE  to <= R!Earliest(today', s)
    BY DEF R!ValidPeriod
  <2>1. s \in Int
    BY <1>4, SameDayIsNumber
  <2> HIDE DEF to, s
  <2>2. QED
    BY <1>3, <1>4, <2>1 DEF R!Earliest
<1>6. R!ValidYear(from, to) => R!ValidYear(from, to)'
  <2> SUFFICES ASSUME y \in 2000 .. 2100, y <= R!Year(today), from <= to
               PROVE  y <= R!Year(today')
    BY DEF R!ValidYear
  <2> HIDE DEF y
  <2>1. QED
    BY <1>3
<1> HIDE DEF from, to
<1>7. R!ValidQuery(q)'
  <2>1. CASE q.source \in {"card_sales", "cash_sales"}
    BY <1>1, <1>6, <2>1 DEF R!ValidQuery, from, to
  <2>2. CASE q.source = "registry"
    BY <2>2 DEF R!ValidQuery
  <2>3. CASE q.source \notin {"card_sales", "cash_sales", "registry"}
    BY <1>1, <1>5, <2>3 DEF R!ValidQuery, from, to
  <2>4. QED
    BY <2>1, <2>2, <2>3
<1>8. QED
  BY <1>1, <1>7 DEF Taken

\* With the day unchanged or later, the same queries will do.
LEMMA QueueStays ==
    QueueIsTaken /\ R!IsDay(today') /\ today <= today' /\ UNCHANGED <<queue, reading>>
        => QueueIsTaken'
<1> SUFFICES ASSUME QueueIsTaken, R!IsDay(today'), today <= today', UNCHANGED <<queue, reading>>
             PROVE  QueueIsTaken'
  OBVIOUS
<1>1. Taken \subseteq Taken'
  BY StillTaken DEF QueueIsTaken
<1>2. reading = "fetch" => queue \in Seq(Taken')
  BY <1>1 DEF QueueIsTaken
<1>3. QED
  BY <1>2 DEF QueueIsTaken

\* The rest of the queries.
LEMMA OnwardKeeps ==
    QueueIsTaken /\ reading = "fetch" /\ R!Onward /\ UNCHANGED today => QueueIsTaken'
<1> SUFFICES ASSUME QueueIsTaken, reading = "fetch", R!Onward, UNCHANGED today
             PROVE  QueueIsTaken'
  OBVIOUS
<1>1. R!IsDay(today) /\ today \in Nat /\ queue \in Seq(Taken) /\ Len(queue) > 0
  BY DayParts DEF QueueIsTaken
<1>2. Taken \subseteq Taken'
  BY <1>1, StillTaken
<1>3. queue' = Tail(queue) /\ (reading' = IF Len(queue) = 1 THEN "build" ELSE "fetch")
  BY DEF R!Onward
<1>4. queue' \in Seq(Taken) /\ Len(queue') = Len(queue) - 1 /\ Len(queue) \in Nat
  BY <1>1, <1>3
<1>5. queue' \in Seq(Taken')
  BY <1>2, <1>4
<1>6. QED
  BY <1>1, <1>3, <1>4, <1>5 DEF QueueIsTaken

\* A command begins with queries that can be made.
LEMMA BeginKeeps ==
    ASSUME QueueIsTaken, NEW c \in Reading, R!Begin(c)
    PROVE  QueueIsTaken'
<1>1. R!IsDay(today) /\ today \in Nat /\ UNCHANGED today
  BY DayParts DEF QueueIsTaken, R!Begin
<1>2. CASE R!Acceptable(c)
  <2>1. queue' = R!Work(c) /\ reading' = "fetch"
    BY <1>2 DEF R!Begin
  <2>2. R!Work(c) \in Seq(Taken) /\ Len(R!Work(c)) > 0
    BY <1>1, <1>2, WorkTaken
  <2>3. Taken \subseteq Taken'
    BY <1>1, StillTaken
  <2> HIDE DEF Taken
  <2>4. queue' \in Seq(Taken')
    BY <2>1, <2>2, <2>3
  <2>5. QED
    BY <1>1, <2>1, <2>2, <2>4 DEF QueueIsTaken
<1>3. CASE ~R!Acceptable(c)
  BY <1>1, <1>3 DEF R!Begin, QueueIsTaken
<1>4. QED
  BY <1>2, <1>3

\* A reply leaves the queries that are still to make, or fewer.
LEMMA FetchTakes == QueueIsTaken /\ R!Fetch => QueueIsTaken'
<1> SUFFICES ASSUME QueueIsTaken, R!Fetch
             PROVE  QueueIsTaken'
  OBVIOUS
<1>1. reading = "fetch" /\ queue \in Seq(Taken) /\ Len(queue) > 0 /\ R!IsDay(today) /\ today \in Nat
  BY DayParts DEF R!Fetch, QueueIsTaken
<1>2. R!ValidQuery(Head(queue))
  <2>1. Head(queue) \in Taken
    BY <1>1
  <2>2. QED
    BY <2>1 DEF Taken
<1>3. R!FetchPage(Head(queue)) \/ R!FetchCardSales(Head(queue))
  BY <1>2 DEF R!Fetch
<1>4. UNCHANGED today
  BY <1>3 DEF R!FetchPage, R!FetchCardSales
<1>5. \/ R!Onward
      \/ UNCHANGED <<queue, reading>>
      \/ reading' = "failed"
  BY <1>3 DEF R!FetchPage, R!FetchCardSales
<1>6. QED
  <2>1. CASE R!Onward
    BY <1>1, <1>4, <2>1, OnwardKeeps
  <2>2. CASE UNCHANGED <<queue, reading>>
    BY <1>1, <1>4, <2>2, QueueStays
  <2>3. CASE reading' = "failed"
    BY <1>1, <1>4, <2>3 DEF QueueIsTaken
  <2>4. QED
    BY <1>5, <2>1, <2>2, <2>3

\* At every step the queries that remain can be made.
LEMMA ReadingKeeps == QueueIsTaken /\ [R!Next]_(R!vars) => QueueIsTaken'
<1> SUFFICES ASSUME QueueIsTaken, [R!Next]_(R!vars)
             PROVE  QueueIsTaken'
  OBVIOUS
<1>1. R!IsDay(today) /\ today \in Nat
  BY DayParts DEF QueueIsTaken
<1>2. ASSUME NEW c \in Reading, R!Begin(c) PROVE QueueIsTaken'
  BY <1>2, BeginKeeps
<1>3. CASE R!Fetch
  BY <1>3, FetchTakes
<1>4. CASE R!Fail
  BY <1>1, <1>4 DEF R!Fail, QueueIsTaken
<1>5. CASE R!Build
  BY <1>1, <1>5 DEF R!Build, QueueIsTaken
<1>6. CASE R!Midnight
  <2>1. today' = R!NextDay(today) /\ UNCHANGED <<queue, reading>>
    BY <1>6 DEF R!Midnight
  <2>2. R!IsDay(today') /\ today <= today'
    BY <1>1, <2>1, NextDayIsLater, DayParts
  <2>3. QED
    BY <2>1, <2>2, QueueStays
<1>7. CASE UNCHANGED R!vars
  <2>1. UNCHANGED <<today, queue, reading>>
    BY <1>7 DEF R!vars
  <2>2. QED
    BY <1>1, <2>1, QueueStays
<1>8. QED
  BY <1>2, <1>3, <1>4, <1>5, <1>6, <1>7 DEF R!Next

\* No query is refused before there is one.
LEMMA ReadingStarts == R!Init => QueueIsTaken
  BY BooksAssumption DEF R!Init, QueueIsTaken

\* The same for one reading command.
LEMMA ReadingIsTaken == R!Spec => []QueueIsTaken
  BY ReadingStarts, ReadingKeeps, PTL DEF R!Spec

-----------------------------------------------------------------------------
(***************************************************************************)
(* What was read: rows of known sources                                    *)
(***************************************************************************)
\* A sequence of rows, each of a list that a command can ask for.
AreSourced(T) == \A row \in T : row.source \in Sources
IsOf(s, T) == s \in Seq(T) /\ AreSourced(T)
Sourced(s) == \E T : IsOf(s, T)

\* No rows are of known sources.
LEMMA NothingIsSourced == Sourced(<<>>)
<1>1. <<>> \in Seq({})
  OBVIOUS
<1>2. IsOf(<<>>, {})
  BY <1>1 DEF IsOf, AreSourced
<1>3. QED
  BY <1>2 DEF Sourced

\* So are rows and more rows.
LEMMA BothAreSourced ==
    ASSUME NEW s, NEW t, Sourced(s), Sourced(t)
    PROVE  Sourced(s \o t)
<1>1. PICK S : IsOf(s, S)
  BY DEF Sourced
<1>2. PICK T : IsOf(t, T)
  BY DEF Sourced
<1>3. s \in Seq(S \cup T) /\ t \in Seq(S \cup T)
  BY <1>1, <1>2 DEF IsOf
<1>4. s \o t \in Seq(S \cup T)
  BY <1>3, ConcatProperties
<1>5. IsOf(s \o t, S \cup T)
  BY <1>1, <1>2, <1>4 DEF IsOf, AreSourced
<1>6. QED
  BY <1>5 DEF Sourced

\* Reports counts as FiniteSets does.
LEMMA SameCardinality == \A S : R!Cardinality(S) = Cardinality(S)
  BY DEF R!Cardinality, Cardinality

\* What HomeTax answers with is about what it has, and there are finitely many rows.
LEMMA RowsAreSourced ==
    ASSUME NEW q, q.source \in Sources, NEW E, IsFiniteSet(E)
    PROVE  Sourced(R!RowsAbout(q, E))
<1> DEFINE keys == R!Keys(q, E)
           order == R!InOrder(keys)
           T == {R!Row(q, F) : F \in SUBSET E}
           n == Cardinality(keys)
           rows == R!RowsAbout(q, E)
<1>1. n \in Nat
  <2> DEFINE f == [e \in E |-> R!Key(q, e)]
  <2>1. f \in Surjection(E, keys)
    BY DEF Surjection, R!Keys
  <2> HIDE DEF f, keys
  <2>2. QED
    BY <2>1, FS_Surjection, FS_CardinalityType
<1>2. rows = [i \in 1 .. n |-> R!Row(q, R!WithKey(q, E, order[i]))]
  <2>1. rows = [i \in 1 .. R!Cardinality(keys) |-> R!Row(q, R!WithKey(q, E, order[i]))]
    BY DEF R!RowsAbout
  <2>2. R!Cardinality(keys) = n
    BY SameCardinality
  <2> HIDE DEF n, order
  <2>3. QED
    BY <2>1, <2>2
<1>3. \A k : R!WithKey(q, E, k) \in SUBSET E
  BY DEF R!WithKey
<1> HIDE DEF n, order
<1>4. \A i \in 1 .. n : R!Row(q, R!WithKey(q, E, order[i])) \in T
  BY <1>3
<1> HIDE DEF T, rows
<1>5. rows \in Seq(T)
  BY <1>1, <1>2, <1>4
<1>6. AreSourced(T)
  BY DEF T, R!Row, AreSourced
<1>7. IsOf(rows, T)
  BY <1>5, <1>6 DEF IsOf
<1>8. QED
  BY <1>7 DEF Sourced, rows

\* So are rows without the first.
LEMMA TailIsSourced ==
    ASSUME NEW s, Sourced(s), s # <<>>
    PROVE  Sourced(Tail(s))
<1>1. PICK T : IsOf(s, T)
  BY DEF Sourced
<1>2. IsOf(Tail(s), T)
  BY <1>1, HeadTailProperties DEF IsOf
<1>3. QED
  BY <1>2 DEF Sourced

\* So is a page of rows.
LEMMA PageIsSourced ==
    ASSUME NEW s, Sourced(s), NEW n \in Nat, n > 0
    PROVE  Sourced(R!PageOf(s, n))
<1>1. PICK T : IsOf(s, T)
  BY DEF Sourced
<1> DEFINE first == (n - 1) * PageSize + 1
           last == R!Earliest(n * PageSize, Len(s))
<1>2. s \in Seq(T) /\ Len(s) \in Nat /\ PageSize \in Nat
  BY <1>1, LimitsAssumption DEF IsOf
<1>3. (n - 1) * PageSize \in Nat /\ n * PageSize \in Nat
  BY <1>2
<1>4. first \in Int /\ last \in Int /\ first >= 1 /\ last <= Len(s)
  BY <1>2, <1>3 DEF R!Earliest
<1>5. R!PageOf(s, n) = SubSeq(s, first, last)
  BY DEF R!PageOf
<1> HIDE DEF first, last
<1>6. \A i \in first .. last : s[i] \in T
  BY <1>2, <1>4
<1>7. SubSeq(s, first, last) \in Seq(T)
  BY <1>4, <1>6, SubSeqProperties
<1>8. IsOf(R!PageOf(s, n), T)
  BY <1>1, <1>5, <1>7 DEF IsOf
<1>9. QED
  BY <1>8 DEF Sourced

ReportTyped ==
    /\ ledger \in Ledgers
    /\ nights \in 0 .. MaxNights
    /\ command = R!NoCommand \/ command.of \in Reading
    /\ page \in 1 .. MaxPages
    /\ reading \in {"idle", "fetch", "build", "rejected", "refused", "failed", "done"}
    /\ Sourced(got)
    /\ sums \in {"whole", "short"}

\* So are two rows.
LEMMA TwoAreSourced ==
    ASSUME NEW a, NEW b, a.source \in Sources, b.source \in Sources
    PROVE  Sourced(<<a, b>>)
<1>1. IsOf(<<a, b>>, {a, b})
  BY DEF IsOf, AreSourced
<1>2. QED
  BY <1>1 DEF Sourced

\* The rows of a reply, and the total with them (financials.py:525-639).
LEMMA RepliesAreSourced ==
    ASSUME ledger \in Ledgers, page \in 1 .. MaxPages,
           NEW q, q.source \in Sources, NEW r \in R!Replies(q)
    PROVE  Sourced(r.rows) /\ Sourced(R!TotalOnce(q))
<1> DEFINE rows == R!Rows(q)
           right == R!RightRows(q)
<1>1. Sourced(rows)
  <2>1. R!Matching(q) \in SUBSET ledger
    BY DEF R!Matching, R!Found
  <2>2. IsFiniteSet(R!Matching(q))
    BY <2>1, BooksAssumption, FS_Subset
  <2>3. QED
    BY <2>2, RowsAreSourced DEF R!Rows
<1>2. page \in Nat /\ page > 0 /\ page + 1 \in Nat /\ page + 1 > 0
  BY LimitsAssumption
<1>3. Sourced(right) /\ Sourced(R!PageOf(rows, page)) /\ Sourced(R!PageOf(rows, page + 1))
  <2> HIDE DEF rows
  <2>1. Sourced(R!PageOf(rows, page)) /\ Sourced(R!PageOf(rows, page + 1))
    BY <1>1, <1>2, PageIsSourced
  <2>2. right = rows \/ right = R!PageOf(rows, page)
    BY DEF R!RightRows, rows
  <2>3. QED
    BY <1>1, <2>1, <2>2
<1>4. \/ r.rows = right
      \/ r.rows = R!PageOf(rows, page + 1)
      \/ right # <<>> /\ r.rows = Tail(right)
  <2>1. \A p, some : R!Reply(q, p, some).rows = some
    BY DEF R!Reply
  <2>2. \/ r = R!Reply(q, page, right)
        \/ r = R!Reply(q, page + 1, R!PageOf(rows, page + 1))
        \/ right # <<>> /\ r = R!Reply(q, page, Tail(right))
    BY DEF R!Replies
  <2>3. QED
    BY <2>1, <2>2
<1> HIDE DEF rows, right
<1>5. Sourced(r.rows)
  BY <1>3, <1>4, TailIsSourced
<1>6. Sourced(R!TotalOnce(q))
  <2>1. CASE q.source = "cash_purchase" /\ page = 1
    <3> PICK a, b : a = R!Breakdown("eligible_total", q) /\ b = R!Breakdown("deductible_total", q)
      OBVIOUS
    <3>1. R!TotalOnce(q) = <<a, b>>
      BY <2>1 DEF R!TotalOnce, R!BreakdownsOf
    <3>2. a.source \in Sources /\ b.source \in Sources
      BY DEF R!Breakdown, R!BreakdownOf, R!Breakdowns, Sources
    <3>3. Sourced(<<a, b>>)
      BY <3>2, TwoAreSourced
    <3>4. QED
      BY <3>1, <3>3
  <2>2. CASE ~(q.source = "cash_purchase" /\ page = 1)
    BY <2>2, NothingIsSourced DEF R!TotalOnce
  <2>3. QED
    BY <2>1, <2>2
<1>7. QED
  BY <1>5, <1>6

\* Whatever HomeTax replies, the rows received are of known sources.
LEMMA FetchTyped == QueueIsTaken /\ ReportTyped /\ R!Fetch => ReportTyped'
<1> SUFFICES ASSUME QueueIsTaken, ReportTyped, R!Fetch
             PROVE  ReportTyped'
  OBVIOUS
<1> DEFINE q == Head(queue)
<1>1. q \in Taken
  BY DEF R!Fetch, QueueIsTaken
<1>2. q.source \in Sources
  BY <1>1 DEF Taken
<1>3. R!FetchPage(q) \/ R!FetchCardSales(q)
  BY <1>1 DEF R!Fetch, Taken
<1> HIDE DEF q
<1>4. UNCHANGED <<ledger, nights, command>>
  BY <1>3 DEF R!FetchPage, R!FetchCardSales
<1>5. ledger \in Ledgers /\ page \in 1 .. MaxPages /\ page \in Nat /\ MaxPages \in Nat \ {0} /\ Sourced(got)
  BY LimitsAssumption DEF ReportTyped
<1>6. /\ page' \in 1 .. MaxPages
      /\ reading' \in {"idle", "fetch", "build", "rejected", "refused", "failed", "done"}
  <2>1. reading = "fetch"
    BY DEF R!Fetch
  <2>2. R!Onward => page' = 1 /\ reading' \in {"build", "fetch"}
    BY DEF R!Onward
  <2>3. CASE R!FetchPage(q)
    BY <1>5, <2>1, <2>2, <2>3 DEF R!FetchPage
  <2>4. CASE R!FetchCardSales(q)
    <3>1. R!Onward \/ (reading' = "failed" /\ page' = page)
      BY <2>4 DEF R!FetchCardSales
    <3>2. QED
      BY <1>5, <2>2, <3>1
  <2>5. QED
    BY <1>3, <2>3, <2>4
<1>8. sums' \in {"whole", "short"}
  BY <1>3 DEF R!FetchPage, R!FetchCardSales, R!CardSums, ReportTyped
<1>7. Sourced(got')
  <2>1. CASE R!FetchPage(q)
    <3>1. got' = got \/ \E r \in R!Replies(q) : got' = got \o r.rows \o R!TotalOnce(q)
      BY <2>1 DEF R!FetchPage
    <3>2. ASSUME NEW r \in R!Replies(q)
          PROVE  Sourced(got \o r.rows \o R!TotalOnce(q))
      <4>1. Sourced(r.rows) /\ Sourced(R!TotalOnce(q))
        BY <1>2, <1>5, RepliesAreSourced
      <4>2. Sourced(got \o r.rows)
        BY <1>5, <4>1, BothAreSourced
      <4>3. QED
        BY <4>1, <4>2, BothAreSourced
    <3>3. QED
      BY <1>5, <3>1, <3>2
  <2>2. CASE R!FetchCardSales(q)
    <3> DEFINE of(line) == {e \in R!Matching(q) : e.line = line}
               card == R!OfLine(q, "card")
               agency == R!OfLine(q, "agency")
    <3>1. got' = got \/ \E reply \in R!CardReplies(card, agency) : got' = got \o reply.card \o reply.agency
      BY <2>2 DEF R!FetchCardSales
    <3>2. \A line : IsFiniteSet(of(line))
      <4>1. \A line : of(line) \in SUBSET ledger
        BY DEF R!Matching, R!Found
      <4> HIDE DEF of
      <4>2. QED
        BY <1>5, <4>1, BooksAssumption, FS_Subset
    <3> HIDE DEF of
    <3>3. Sourced(card) /\ Sourced(agency)
      BY <1>2, <3>2, RowsAreSourced DEF R!OfLine, of
    <3> HIDE DEF card, agency
    <3>4. ASSUME NEW reply \in R!CardReplies(card, agency)
          PROVE  Sourced(got \o reply.card \o reply.agency)
      <4>1. /\ reply.card \in {card, R!Short(card)}
            /\ reply.agency \in {agency, R!Short(agency), <<>>}
        BY DEF R!CardReplies
      <4>2. Sourced(R!Short(card)) /\ Sourced(R!Short(agency))
        BY <3>3, TailIsSourced, NothingIsSourced DEF R!Short
      <4>3. Sourced(reply.card) /\ Sourced(reply.agency)
        BY <3>3, <4>1, <4>2, NothingIsSourced
      <4>4. Sourced(got \o reply.card)
        BY <1>5, <4>3, BothAreSourced
      <4>5. QED
        BY <4>3, <4>4, BothAreSourced
    <3>5. QED
      BY <1>5, <3>1, <3>4
  <2>3. QED
    BY <1>3, <2>1, <2>2
<1>9. QED
  BY <1>4, <1>6, <1>7, <1>8 DEF ReportTyped

\* They are at every step.
LEMMA ReportsStay == QueueIsTaken /\ ReportTyped /\ [R!Next]_(R!vars) => ReportTyped'
<1> SUFFICES ASSUME QueueIsTaken, ReportTyped, [R!Next]_(R!vars)
             PROVE  ReportTyped'
  OBVIOUS
<1>1. ASSUME NEW c \in Reading, R!Begin(c) PROVE ReportTyped'
  <2>1. command' = [of |-> c, period |-> R!Period(c)] \/ command' = command
    BY <1>1 DEF R!Begin
  <2>2. command' = R!NoCommand \/ command'.of \in Reading
    BY <2>1 DEF ReportTyped
  <2>3. UNCHANGED <<ledger, nights, page, got, sums>> /\ reading' \in {"fetch", "rejected"}
    BY <1>1 DEF R!Begin
  <2>4. QED
    BY <2>2, <2>3 DEF ReportTyped
<1>2. CASE R!Fetch
  BY <1>2, FetchTyped
<1>3. CASE R!Fail
  BY <1>3 DEF R!Fail, ReportTyped
<1>4. CASE R!Build
  <2>1. UNCHANGED <<ledger, nights, command, page, sums>> /\ reading' = "done" /\ got' = <<>>
    BY <1>4 DEF R!Build
  <2>2. QED
    BY <2>1, NothingIsSourced DEF ReportTyped
<1>5. CASE R!Midnight
  <2>1. UNCHANGED <<ledger, command, page, got, sums, reading>> /\ nights < MaxNights /\ nights' = nights + 1
    BY <1>5 DEF R!Midnight
  <2>2. nights' \in 0 .. MaxNights
    BY <2>1, LimitsAssumption DEF ReportTyped
  <2>3. QED
    BY <2>1, <2>2 DEF ReportTyped
<1>6. CASE UNCHANGED R!vars
  BY <1>6 DEF R!vars, ReportTyped
<1>7. QED
  BY <1>1, <1>2, <1>3, <1>4, <1>5, <1>6 DEF R!Next

\* They are before there is one.
LEMMA ReportsStart == R!Init => ReportTyped
<1> SUFFICES ASSUME R!Init
             PROVE  ReportTyped
  OBVIOUS
<1>1. 0 \in 0 .. MaxNights /\ 1 \in 1 .. MaxPages
  BY LimitsAssumption
<1>2. QED
  BY <1>1, NothingIsSourced DEF R!Init, ReportTyped

\* The types of a reading command.
LEMMA ReportsAreTyped == R!Spec => []R!TypeOK
<1>1. QueueIsTaken /\ ReportTyped => R!TypeOK
  <2> SUFFICES ASSUME QueueIsTaken, ReportTyped
               PROVE  R!TypeOK
    OBVIOUS
  <2>1. reading = "fetch" => queue # <<>>
    BY DEF QueueIsTaken
  <2>2. \A i \in DOMAIN got : got[i].source \in R!Columns \cup R!Breakdowns \cup {"registry"}
    <3>1. PICK T : IsOf(got, T)
      BY DEF ReportTyped, Sourced
    <3>2. \A i \in DOMAIN got : got[i] \in T
      BY <3>1 DEF IsOf
    <3>3. QED
      BY <3>1, <3>2 DEF IsOf, AreSourced, Sources
  <2>3. QED
    BY <2>1, <2>2 DEF QueueIsTaken, ReportTyped, R!TypeOK
<1>2. QED
  BY <1>1, ReadingStarts, ReadingKeeps, ReportsStart, ReportsStay, PTL DEF R!Spec

-----------------------------------------------------------------------------
(***************************************************************************)
(* What was read: every row                                                *)
(***************************************************************************)
\* The rows of HomeTax for a query on day t, and the totals that come with them.
All(books, q, t) == R!RowsAbout(q, R!Found(books, q, t))

TotalAt(books, total, q, t) ==
    R!BreakdownOf(total, q, R!Found(books, [q EXCEPT !.deduction = R!Counts(total)], t))

Totals(books, q, t) ==
    IF q.source = "cash_purchase"
    THEN <<TotalAt(books, "eligible_total", q, t), TotalAt(books, "deductible_total", q, t)>>
    ELSE <<>>

OfLineAt(books, q, t, line) == R!RowsAbout(q, {e \in R!Found(books, q, t) : e.line = line})

\* Each row once and in order, and the totals once, between two pages.
IsList(s, books, q, t) ==
    LET rows == All(books, q, t) IN
    \E i \in 0 .. Len(rows) :
        s = SubSeq(rows, 1, i) \o Totals(books, q, t) \o SubSeq(rows, i + 1, Len(rows))

\* Less of a list: without a row, or nothing.
Less(list) == {R!Short(list), <<>>}

\* Both lists, unless a complete summary agrees with what there is of the agency's.
IsCardList(s, books, q, t) ==
    LET agency == OfLineAt(books, q, t, "agency") IN
    \/ s = OfLineAt(books, q, t, "card") \o agency
    \/ \E part \in Less(agency) : /\ s = OfLineAt(books, q, t, "card") \o part
                                 /\ R!Agrees(R!Figures(agency), R!Figures(part))

\* A complete answer.
IsAnswer(s, books, q, t) ==
    IF q.source = "card_sales" THEN IsCardList(s, books, q, t) ELSE IsList(s, books, q, t)

\* What n pages, and not the last, have brought of a list by days.
IsBegun(s, books, q, t, n) ==
    LET rows == All(books, q, t) IN
    /\ q.source \notin {"card_sales", "cash_sales"} /\ ~q.whole
    /\ n * PageSize < Len(rows)
    /\ s = SubSeq(rows, 1, PageSize) \o Totals(books, q, t)
             \o SubSeq(rows, PageSize + 1, n * PageSize)

\* What there is of the answer to a query when page n is asked for.
IsPart(s, books, q, t, n) ==
    \/ n = 1 /\ s = <<>>
    \/ n > 1 /\ IsBegun(s, books, q, t, n - 1)

\* Sequences of rows, one after the other.
LEMMA SourcedJoin ==
    ASSUME NEW a, NEW b, NEW c, Sourced(a), Sourced(b), Sourced(c)
    PROVE  /\ (a \o b) \o c = a \o (b \o c)
           /\ a \o <<>> = a /\ <<>> \o a = a
<1>1. PICK S, T, U : IsOf(a, S) /\ IsOf(b, T) /\ IsOf(c, U)
  BY DEF Sourced
<1> DEFINE V == S \cup T \cup U
<1>2. a \in Seq(V) /\ b \in Seq(V) /\ c \in Seq(V)
  BY <1>1 DEF IsOf
<1> HIDE DEF V
<1>3. QED
  BY <1>2, ConcatAssociative, ConcatEmptySeq

\* Whatever the query, its rows are finitely many and of known sources.
LEMMA AllSourced ==
    ASSUME NEW books, IsFiniteSet(books), NEW q, q.source \in Sources, NEW t
    PROVE  /\ Sourced(All(books, q, t)) /\ Sourced(Totals(books, q, t))
           /\ \A line : Sourced(OfLineAt(books, q, t, line))
<1> DEFINE of(line) == {e \in R!Found(books, q, t) : e.line = line}
<1>1. R!Found(books, q, t) \in SUBSET books /\ \A line : of(line) \in SUBSET books
  BY DEF R!Found
<1> HIDE DEF of
<1>2. IsFiniteSet(R!Found(books, q, t)) /\ \A line : IsFiniteSet(of(line))
  BY <1>1, FS_Subset
<1>3. Sourced(All(books, q, t)) /\ \A line : Sourced(R!RowsAbout(q, of(line)))
  BY <1>2, RowsAreSourced DEF All
<1>4. Sourced(Totals(books, q, t))
  <2> PICK a, b : a = TotalAt(books, "eligible_total", q, t) /\ b = TotalAt(books, "deductible_total", q, t)
    OBVIOUS
  <2>1. a.source \in Sources /\ b.source \in Sources
    BY DEF TotalAt, R!BreakdownOf, R!Breakdowns, Sources
  <2>2. Sourced(<<a, b>>)
    BY <2>1, TwoAreSourced
  <2>3. Totals(books, q, t) = <<a, b>> \/ Totals(books, q, t) = <<>>
    BY DEF Totals
  <2>4. QED
    BY <2>2, <2>3, NothingIsSourced
<1>5. QED
  BY <1>3, <1>4 DEF OfLineAt, of

\* The books do not change for a period that is over.
LEMMA FoundLater ==
    ASSUME NEW books \in Ledgers, NEW q, q.to \in Nat, NEW t \in Nat, NEW u \in Nat,
           q.to <= t \/ q.source = "registry", t <= u
    PROVE  R!Found(books, q, t) = R!Found(books, q, u)
<1>1. CASE q.to <= t
  <2>1. R!Earliest(q.to, t) = q.to /\ R!Earliest(q.to, u) = q.to
    BY <1>1 DEF R!Earliest
  <2>2. QED
    BY <2>1 DEF R!Found
<1>2. CASE q.source = "registry"
  <2>1. R!LinesOf(q.source) = {"registry"}
    BY <1>2 DEF R!LinesOf
  <2>2. \A e \in books : e.line = "registry" => e.day = 0
    BY BooksAssumption
  <2>3. 0 <= R!Earliest(q.to, t) /\ 0 <= R!Earliest(q.to, u)
    BY DEF R!Earliest
  <2>4. \A e \in books : e.line = "registry" =>
            e.day <= R!Earliest(q.to, t) /\ e.day <= R!Earliest(q.to, u)
    BY <2>2, <2>3
  <2>5. QED
    BY <2>1, <2>4 DEF R!Found
<1>3. QED
  BY <1>1, <1>2

\* Neither then does what has been read of one.
LEMMA BegunLater ==
    ASSUME NEW q \in [source : Sources, from : Nat, to : Nat, deduction : R!Deductions, whole : BOOLEAN],
           NEW books \in Ledgers, NEW t \in Nat, NEW u \in Nat,
           q.to <= t \/ q.source = "registry", t <= u, NEW s, NEW n
    PROVE  IsBegun(s, books, q, t, n) => IsBegun(s, books, q, u, n)
<1> DEFINE o(total) == [q EXCEPT !.deduction = R!Counts(total)]
<1>1. q.to \in Nat /\ \A total : o(total).to = q.to /\ o(total).source = q.source
  OBVIOUS
<1> HIDE DEF o
<1>2. /\ R!Found(books, q, t) = R!Found(books, q, u)
      /\ \A total : R!Found(books, o(total), t) = R!Found(books, o(total), u)
  BY <1>1, FoundLater
<1>3. \A total : TotalAt(books, total, q, t) = TotalAt(books, total, q, u)
  BY <1>2 DEF TotalAt, o
<1>4. All(books, q, t) = All(books, q, u) /\ Totals(books, q, t) = Totals(books, q, u)
  BY <1>2, <1>3 DEF All, Totals
<1>5. QED
  BY <1>4 DEF IsBegun

\* The numbers of the rows of a page.
LEMMA PageSizes ==
    ASSUME NEW n \in Nat \ {0}
    PROVE  /\ PageSize \in Nat \ {0}
           /\ (n - 1) * PageSize \in Nat /\ n * PageSize = (n - 1) * PageSize + PageSize
           /\ n = 1 => (n - 1) * PageSize = 0
           /\ n > 1 => n - 1 \in Nat \ {0} /\ (n - 1) * PageSize >= PageSize
<1>1. PageSize \in Nat \ {0}
  BY LimitsAssumption
<1>2. n > 1 => (n - 1) * PageSize >= PageSize
  <2> SUFFICES ASSUME n > 1 PROVE (n - 1) * PageSize >= PageSize
    OBVIOUS
  <2>1. n - 2 \in Nat /\ (n - 1) * PageSize = (n - 2) * PageSize + PageSize
    BY <1>1
  <2>2. (n - 2) * PageSize \in Nat
    BY <1>1, <2>1
  <2>3. QED
    BY <1>1, <2>1, <2>2
<1>3. QED
  BY <1>1, <1>2

\* A page of a list, by the numbers of its rows.
LEMMA PageLength ==
    ASSUME NEW rows, Sourced(rows), NEW n \in Nat \ {0}
    PROVE  LET a == (n - 1) * PageSize
               left == Len(rows) - a
           IN /\ R!PageOf(rows, n) = SubSeq(rows, a + 1, R!Earliest(n * PageSize, Len(rows)))
              /\ Len(R!PageOf(rows, n)) = IF left < 0 THEN 0 ELSE R!Earliest(PageSize, left)
<1> DEFINE a == (n - 1) * PageSize
           b == n * PageSize
           z == R!Earliest(b, Len(rows))
<1>1. PICK T : IsOf(rows, T)
  BY DEF Sourced
<1>2. rows \in Seq(T) /\ Len(rows) \in Nat /\ a \in Nat /\ b = a + PageSize /\ PageSize \in Nat \ {0}
  <2>1. rows \in Seq(T) /\ Len(rows) \in Nat
    BY <1>1 DEF IsOf
  <2>2. a \in Nat /\ b = a + PageSize /\ PageSize \in Nat \ {0}
    BY PageSizes
  <2>3. QED
    BY <2>1, <2>2
<1>3. R!PageOf(rows, n) = SubSeq(rows, a + 1, z)
  BY DEF R!PageOf
<1> HIDE DEF a, b
<1>4. z \in Int /\ z <= Len(rows) /\ (z = b \/ z = Len(rows)) /\ z <= b
  BY <1>2 DEF R!Earliest
<1> HIDE DEF z
<1>5. \A i \in a + 1 .. z : rows[i] \in T
  BY <1>2, <1>4
<1>6. Len(SubSeq(rows, a + 1, z)) = IF a + 1 <= z THEN z - (a + 1) + 1 ELSE 0
  BY <1>2, <1>4, <1>5, SubSeqProperties
<1>7. Len(SubSeq(rows, a + 1, z)) =
          IF Len(rows) - a < 0 THEN 0 ELSE R!Earliest(PageSize, Len(rows) - a)
  BY <1>2, <1>4, <1>6 DEF R!Earliest
<1>8. QED
  BY <1>3, <1>7 DEF a, b, z

\* A reply that passes the checks is the page that was asked for, in full: another page
\* has another number, and one from which a row is missing has too few
\* (financials.py:76-89). Only the sums of a year have no count.
LEMMA RightReply ==
    ASSUME ledger \in Ledgers, page \in Nat \ {0}, NEW q \in Taken,
           NEW r \in R!Replies(q), R!Checked(q, r),
           R!HasCount(q) \/ r.rows = R!RightRows(q)
    PROVE  r.rows = R!RightRows(q) /\ r.total = Len(R!Rows(q))
<1> DEFINE right == R!RightRows(q)
           rows == R!Rows(q)
<1>1. \A p, some : /\ R!Reply(q, p, some).rows = some /\ R!Reply(q, p, some).page = p
                   /\ R!Reply(q, p, some).total = Len(rows)
  BY DEF R!Reply
<1>2. \/ r = R!Reply(q, page, right)
      \/ r = R!Reply(q, page + 1, R!PageOf(rows, page + 1))
      \/ right # <<>> /\ r = R!Reply(q, page, Tail(right))
  BY DEF R!Replies
<1>3. r.page = page /\ r.total = Len(rows)
  <2>1. r.page = page
    BY DEF R!Checked
  <2>2. QED
    BY <1>1, <1>2, <2>1
<1>4. r.rows = right \/ (right # <<>> /\ r.rows = Tail(right))
  <2>1. r # R!Reply(q, page + 1, R!PageOf(rows, page + 1))
    <3>1. R!Reply(q, page + 1, R!PageOf(rows, page + 1)).page = page + 1
      BY <1>1
    <3> HIDE DEF rows
    <3>2. QED
      BY <1>3, <3>1
  <2>2. r = R!Reply(q, page, right) => r.rows = right
    BY <1>1
  <2>3. r = R!Reply(q, page, Tail(right)) => r.rows = Tail(right)
    BY <1>1
  <2> HIDE DEF rows, right
  <2>4. QED
    BY <1>2, <2>1, <2>2, <2>3
<1>5. Sourced(rows)
  <2>1. IsFiniteSet(ledger) /\ q.source \in Sources
    BY BooksAssumption DEF Taken
  <2>2. rows = All(ledger, q, today)
    BY DEF R!Rows, R!Matching, All
  <2>3. QED
    BY <2>1, <2>2, AllSourced
<1>6. ASSUME R!HasCount(q) PROVE Len(r.rows) = Len(right) /\ Sourced(right)
  <2>1. CASE q.whole
    <3>1. right = rows /\ Len(r.rows) = r.total
      BY <1>6, <2>1 DEF R!RightRows, R!Checked
    <3>2. QED
      BY <1>3, <1>5, <3>1
  <2>2. CASE ~q.whole
    <3> DEFINE left == Len(rows) - (page - 1) * PageSize
    <3>1. right = R!PageOf(rows, page)
      BY <2>2 DEF R!RightRows
    <3>2. Len(r.rows) = IF left < 0 THEN 0 ELSE R!Earliest(PageSize, left)
      BY <1>3, <1>6, <2>2 DEF R!Checked
    <3> HIDE DEF rows, right
    <3>3. Len(R!PageOf(rows, page)) = IF left < 0 THEN 0 ELSE R!Earliest(PageSize, left)
      BY <1>5, PageLength
    <3>4. page > 0
      OBVIOUS
    <3>5. Sourced(right)
      BY <1>5, <3>1, <3>4, PageIsSourced
    <3>6. QED
      BY <3>1, <3>2, <3>3, <3>5
  <2>3. QED
    BY <2>1, <2>2
<1>7. ASSUME R!HasCount(q), right # <<>> PROVE Len(Tail(right)) # Len(right)
  <2>1. PICK T : right \in Seq(T)
    BY <1>6, <1>7 DEF Sourced, IsOf
  <2> HIDE DEF right
  <2>2. QED
    BY <1>7, <2>1
<1>8. QED
  BY <1>3, <1>4, <1>6, <1>7

\* The first page, and the total with it.
LEMMA FirstPage ==
    ASSUME NEW rows, Sourced(rows), NEW total, Sourced(total)
    PROVE  LET some == (<<>> \o R!PageOf(rows, 1)) \o total
               list(i) == SubSeq(rows, 1, i) \o total
           IN /\ PageSize < Len(rows) => some = list(PageSize) \o SubSeq(rows, PageSize + 1, PageSize)
              /\ ~(PageSize < Len(rows)) =>
                     some = list(Len(rows)) \o SubSeq(rows, Len(rows) + 1, Len(rows))
<1> DEFINE z == R!Earliest(PageSize, Len(rows))
           first == SubSeq(rows, 1, z)
<1>1. PageSize \in Nat \ {0} /\ 1 \in Nat \ {0}
  BY LimitsAssumption
<1>2. PICK T : IsOf(rows, T)
  BY DEF Sourced
<1>3. rows \in Seq(T) /\ Len(rows) \in Nat
  BY <1>2 DEF IsOf
<1>4. R!PageOf(rows, 1) = first
  <2>1. R!PageOf(rows, 1) = SubSeq(rows, (1 - 1) * PageSize + 1, R!Earliest(1 * PageSize, Len(rows)))
    BY DEF R!PageOf
  <2>2. (1 - 1) * PageSize + 1 = 1 /\ 1 * PageSize = PageSize
    BY <1>1
  <2>3. QED
    BY <2>1, <2>2
<1>5. z = IF PageSize < Len(rows) THEN PageSize ELSE Len(rows)
  BY <1>1, <1>3 DEF R!Earliest
<1>6. Sourced(first)
  <2>1. 1 > 0
    OBVIOUS
  <2>2. QED
    BY <1>1, <1>4, <2>1, PageIsSourced
<1> HIDE DEF z
<1>7. SubSeq(rows, z + 1, z) = <<>>
  <2>1. z \in Int /\ z < z + 1 /\ z + 1 \in Int
    BY <1>1, <1>3, <1>5
  <2>2. QED
    BY <2>1, SubSeqEmpty
<1> HIDE DEF first
<1>8. Sourced(first \o total)
  BY <1>6, BothAreSourced
<1>9. (<<>> \o first) \o total = (first \o total) \o <<>>
  BY <1>6, <1>8, SourcedJoin, NothingIsSourced
<1>10. (<<>> \o R!PageOf(rows, 1)) \o total = (first \o total) \o SubSeq(rows, z + 1, z)
  BY <1>4, <1>7, <1>9
<1>11. QED
  BY <1>5, <1>10 DEF first

\* A piece of a list is of the same sources.
LEMMA PieceIsSourced ==
    ASSUME NEW rows, Sourced(rows), NEW i \in Int, NEW j \in Int, 1 <= i, j <= Len(rows)
    PROVE  Sourced(SubSeq(rows, i, j))
<1>1. PICK T : IsOf(rows, T)
  BY DEF Sourced
<1>2. rows \in Seq(T) /\ Len(rows) \in Nat
  BY <1>1 DEF IsOf
<1>3. \A k \in i .. j : rows[k] \in T
  BY <1>2
<1>4. SubSeq(rows, i, j) \in Seq(T)
  BY <1>3, SubSeqProperties
<1>5. IsOf(SubSeq(rows, i, j), T)
  BY <1>1, <1>4 DEF IsOf
<1>6. QED
  BY <1>5 DEF Sourced

\* A later page goes on where the ones before it have ended.
LEMMA LaterPage ==
    ASSUME NEW rows, Sourced(rows), NEW total, Sourced(total),
           NEW n \in Nat \ {0}, n > 1, (n - 1) * PageSize < Len(rows)
    PROVE  LET list(i) == SubSeq(rows, 1, PageSize) \o total \o SubSeq(rows, PageSize + 1, i)
           IN list((n - 1) * PageSize) \o R!PageOf(rows, n)
                 = list(R!Earliest(n * PageSize, Len(rows)))
<1> DEFINE a == (n - 1) * PageSize
           b == n * PageSize
           z == R!Earliest(b, Len(rows))
           head == SubSeq(rows, 1, PageSize) \o total
           middle == SubSeq(rows, PageSize + 1, a)
           page_ == SubSeq(rows, a + 1, z)
<1>1. PICK T : IsOf(rows, T)
  BY DEF Sourced
<1>2. rows \in Seq(T) /\ Len(rows) \in Nat
  BY <1>1 DEF IsOf
<1>3. a \in Nat /\ b = a + PageSize /\ PageSize \in Nat \ {0} /\ a >= PageSize
  BY PageSizes
<1>4. R!PageOf(rows, n) = page_
  BY DEF R!PageOf
<1>5. a < Len(rows)
  OBVIOUS
<1> HIDE DEF a, b
<1>6. z \in Nat /\ a <= z /\ z <= Len(rows)
  BY <1>2, <1>3, <1>5 DEF R!Earliest
<1> HIDE DEF z
<1>7. middle \o page_ = SubSeq(rows, PageSize + 1, z)
  <2>1. PageSize + 1 \in 1 .. Len(rows) + 1 /\ a \in (PageSize + 1) - 1 .. Len(rows) /\ z \in a .. Len(rows)
    BY <1>2, <1>3, <1>5, <1>6
  <2>2. QED
    BY <1>2, <2>1, ConcatAdjacentSubSeq
<1>8. Sourced(middle) /\ Sourced(page_) /\ Sourced(SubSeq(rows, 1, PageSize))
  BY <1>2, <1>3, <1>5, <1>6, PieceIsSourced
<1> HIDE DEF middle, page_
<1>9. Sourced(head)
  BY <1>8, BothAreSourced
<1> HIDE DEF head
<1>10. (head \o middle) \o page_ = head \o (middle \o page_)
  <2>1. Sourced(head) /\ Sourced(middle) /\ Sourced(page_)
    BY <1>8, <1>9
  <2>2. QED
    BY ONLY <2>1, SourcedJoin
<1>11. (head \o middle) \o R!PageOf(rows, n) = head \o SubSeq(rows, PageSize + 1, z)
  BY <1>4, <1>7, <1>10
<1>12. QED
  BY <1>11 DEF head, middle, z, a, b

\* With the next page, there is more of the answer, or all of it.
LEMMA PageAnswers ==
    ASSUME ledger \in Ledgers, R!IsDay(today), page \in Nat \ {0},
           NEW q \in Taken, q.source # "card_sales",
           NEW s, IsPart(s, ledger, q, today, page),
           NEW r \in R!Replies(q), R!Checked(q, r),
           R!HasCount(q) \/ r.rows = R!RightRows(q)
    PROVE  LET more == (s \o r.rows) \o R!TotalOnce(q) IN
           /\ ~R!HasNext(q, r) => IsAnswer(more, ledger, q, today)
           /\ R!HasNext(q, r) => IsPart(more, ledger, q, today, page + 1)
<1> DEFINE rows == All(ledger, q, today)
           total == Totals(ledger, q, today)
           more == (s \o r.rows) \o R!TotalOnce(q)
<1>1. IsFiniteSet(ledger) /\ q.source \in Sources
  BY BooksAssumption DEF Taken
<1>2. Sourced(rows) /\ Sourced(total)
  BY <1>1, AllSourced
<1>3. rows = R!Rows(q)
  BY DEF R!Rows, R!Matching, All
<1>4. r.rows = R!RightRows(q) /\ r.total = Len(R!Rows(q))
  BY RightReply
<1>5. R!TotalOnce(q) = IF page = 1 THEN total ELSE <<>>
  BY DEF R!TotalOnce, R!BreakdownsOf, R!Breakdown, R!Matching, Totals, TotalAt
<1>6. IsAnswer(more, ledger, q, today) <=> IsList(more, ledger, q, today)
  <2> HIDE DEF more
  <2>1. QED
    BY DEF IsAnswer
<1>7. R!HasNext(q, r) <=> ~q.whole /\ page * PageSize < Len(rows)
  <2>1. r.total = Len(rows)
    BY <1>3, <1>4
  <2>2. R!HasNext(q, r) <=> ~q.whole /\ page * PageSize < r.total
    BY DEF R!HasNext
  <2> HIDE DEF rows
  <2>3. page * PageSize < r.total <=> page * PageSize < Len(rows)
    BY <2>1
  <2>4. QED
    BY <2>2, <2>3, Zenon
<1>8. (page = 1 /\ s = <<>>) \/ (page > 1 /\ IsBegun(s, ledger, q, today, page - 1))
  BY DEF IsPart
<1>9. Len(rows) \in Nat /\ PageSize \in Nat \ {0}
  BY <1>2, LimitsAssumption DEF Sourced, IsOf
<1>10. ASSUME NEW i \in 0 .. Len(rows),
              more = SubSeq(rows, 1, i) \o total \o SubSeq(rows, i + 1, Len(rows))
       PROVE  IsList(more, ledger, q, today)
  BY <1>10 DEF IsList
<1>11. ASSUME R!HasNext(q, r),
              more = SubSeq(rows, 1, PageSize) \o total \o SubSeq(rows, PageSize + 1, page * PageSize)
       PROVE  IsPart(more, ledger, q, today, page + 1)
  <2>1. q.source \notin {"card_sales", "cash_sales"} /\ ~q.whole
    BY <1>7, <1>11 DEF Taken
  <2>2. (page + 1) - 1 = page /\ page + 1 > 1
    OBVIOUS
  <2> HIDE DEF rows, total, more
  <2>3. IsBegun(more, ledger, q, today, page)
    BY <1>7, <1>11, <2>1 DEF IsBegun, rows, total
  <2>4. QED
    BY <2>2, <2>3 DEF IsPart
<1>12. CASE q.whole
  <2>1. page = 1 /\ s = <<>>
    BY <1>8, <1>12 DEF IsBegun
  <2>2. more = (<<>> \o rows) \o total
    BY <1>3, <1>4, <1>5, <1>12, <2>1 DEF R!RightRows
  <2> HIDE DEF rows, total, more
  <2>3. SubSeq(rows, 1, Len(rows)) = rows
    BY <1>2, SubSeqFull DEF Sourced, IsOf
  <2>4. SubSeq(rows, Len(rows) + 1, Len(rows)) = <<>>
    <3>1. Len(rows) \in Int /\ Len(rows) + 1 \in Int /\ Len(rows) < Len(rows) + 1
      BY <1>9
    <3>2. QED
      BY <3>1, SubSeqEmpty
  <2>5. Sourced(rows \o total)
    BY <1>2, BothAreSourced
  <2>6. (<<>> \o rows) \o total = (rows \o total) \o <<>>
    BY ONLY <1>2, <2>5, SourcedJoin, NothingIsSourced
  <2>7. more = (SubSeq(rows, 1, Len(rows)) \o total) \o SubSeq(rows, Len(rows) + 1, Len(rows))
    BY <2>2, <2>3, <2>4, <2>6
  <2>8. Len(rows) \in 0 .. Len(rows) /\ ~R!HasNext(q, r)
    BY <1>7, <1>9, <1>12
  <2>9. IsList(more, ledger, q, today)
    BY <1>10, <2>7, <2>8
  <2>10. QED
    BY <1>6, <2>8, <2>9 DEF more
<1>13. CASE ~q.whole /\ page = 1
  <2>1. more = (<<>> \o R!PageOf(rows, 1)) \o total
    BY <1>3, <1>4, <1>5, <1>8, <1>13 DEF R!RightRows
  <2> HIDE DEF rows, total, more
  <2>2. /\ PageSize < Len(rows) =>
             more = SubSeq(rows, 1, PageSize) \o total \o SubSeq(rows, PageSize + 1, PageSize)
        /\ ~(PageSize < Len(rows)) =>
             more = SubSeq(rows, 1, Len(rows)) \o total \o SubSeq(rows, Len(rows) + 1, Len(rows))
    BY <1>2, <2>1, FirstPage
  <2>3. page * PageSize = PageSize
    BY <1>9, <1>13
  <2>4. R!HasNext(q, r) <=> PageSize < Len(rows)
    BY <1>7, <1>13, <2>3
  <2>5. R!HasNext(q, r) => IsPart(more, ledger, q, today, page + 1)
    BY <1>11, <2>2, <2>3, <2>4
  <2>6. Len(rows) \in 0 .. Len(rows)
    BY <1>9
  <2>7. ~R!HasNext(q, r) => IsList(more, ledger, q, today)
    BY <1>10, <2>2, <2>4, <2>6
  <2>8. QED
    BY <1>6, <2>5, <2>7 DEF more
<1>14. CASE ~q.whole /\ page > 1
  <2> DEFINE list(i) == SubSeq(rows, 1, PageSize) \o total \o SubSeq(rows, PageSize + 1, i)
             z == R!Earliest(page * PageSize, Len(rows))
  <2>1. s = list((page - 1) * PageSize) /\ (page - 1) * PageSize < Len(rows)
    <3>1. IsBegun(s, ledger, q, today, page - 1)
      BY <1>8, <1>14
    <3>2. QED
      BY <3>1 DEF IsBegun
  <2>2. r.rows = R!PageOf(rows, page)
    BY <1>3, <1>4, <1>14 DEF R!RightRows
  <2>3. list((page - 1) * PageSize) \o R!PageOf(rows, page) = list(z)
    <3> HIDE DEF rows, total
    <3>1. QED
      BY <1>2, <1>14, <2>1, LaterPage
  <2>4. Sourced(list(z))
    <3>1. page > 0
      OBVIOUS
    <3> HIDE DEF rows, total
    <3>2. Sourced(R!PageOf(rows, page)) /\ Sourced(list((page - 1) * PageSize))
      <4>1. Sourced(R!PageOf(rows, page))
        BY <1>2, <3>1, PageIsSourced
      <4>2. (page - 1) * PageSize \in Nat /\ PageSize <= Len(rows)
        <5>1. (page - 1) * PageSize \in Nat /\ (page - 1) * PageSize >= PageSize
          BY <1>14, PageSizes
        <5>2. QED
          BY <1>9, <2>1, <5>1
      <4>3. /\ Sourced(SubSeq(rows, 1, PageSize))
            /\ Sourced(SubSeq(rows, PageSize + 1, (page - 1) * PageSize))
        BY <1>2, <1>9, <2>1, <4>2, PieceIsSourced
      <4>4. QED
        BY <1>2, <4>1, <4>3, BothAreSourced
    <3> HIDE DEF list, z
    <3>3. Sourced(list((page - 1) * PageSize) \o R!PageOf(rows, page))
      BY ONLY <3>2, BothAreSourced
    <3>4. QED
      BY <2>3, <3>3
  <2>5. more = list(z) \o <<>>
    <3> HIDE DEF list, z, rows, total
    <3>1. s \o r.rows = list(z)
      BY <2>1, <2>2, <2>3
    <3>2. R!TotalOnce(q) = <<>>
      BY <1>5, <1>14
    <3>3. QED
      BY <3>1, <3>2
  <2> HIDE DEF rows, total, more, list
  <2>6. more = list(z)
    BY <2>4, <2>5, SourcedJoin
  <2>7. page * PageSize \in Nat /\ PageSize < Len(rows)
    <3>1. (page - 1) * PageSize >= PageSize /\ (page - 1) * PageSize \in Nat
      BY <1>14, PageSizes
    <3>2. QED
      BY <1>9, <2>1, <3>1
  <2>8. z = IF page * PageSize < Len(rows) THEN page * PageSize ELSE Len(rows)
    BY <1>9, <2>7 DEF R!Earliest
  <2>9. R!HasNext(q, r) => IsPart(more, ledger, q, today, page + 1)
    BY <1>7, <1>11, <2>6, <2>8 DEF list
  <2>10. PageSize \in 0 .. Len(rows)
    BY <1>9, <2>7
  <2>11. ~R!HasNext(q, r) => more = list(Len(rows))
    BY <1>7, <1>14, <2>6, <2>8
  <2>12. ~R!HasNext(q, r) => IsList(more, ledger, q, today)
    BY <1>10, <2>10, <2>11 DEF list
  <2>13. QED
    BY <1>6, <2>9, <2>12 DEF more
<1>15. QED
  BY <1>8, <1>12, <1>13, <1>14

\* What is taken of a reply, if no sum was left out unseen.
IsCardReply(q, card, agency, reply) ==
    /\ card = R!OfLine(q, "card") /\ agency = R!OfLine(q, "agency")
    /\ reply \in R!CardReplies(card, agency)
    /\ R!Agrees(reply.summary, R!Figures(reply.agency))
    /\ R!CardSums(reply, card, agency) = "whole"

\* Two lists of rows that make an answer.
IsInFull(q, a, b) ==
    Sourced(a) /\ Sourced(b) /\ IsAnswer(a \o b, ledger, q, today) /\ Sourced(a \o b)

\* The lists of card sales, of the merchant and of its agency; what is left out of the
\* agency's disagrees with the summary of it (financials.py:700-760).
LEMMA CardAnswers ==
    ASSUME ledger \in Ledgers, NEW q \in Taken, q.source = "card_sales",
           NEW card, NEW agency, NEW reply, IsCardReply(q, card, agency, reply)
    PROVE  IsInFull(q, reply.card, reply.agency)
<1>0. /\ card = R!OfLine(q, "card") /\ agency = R!OfLine(q, "agency")
      /\ reply \in R!CardReplies(card, agency)
      /\ R!Agrees(reply.summary, R!Figures(reply.agency))
      /\ R!CardSums(reply, card, agency) = "whole"
  BY DEF IsCardReply
<1>1. card = OfLineAt(ledger, q, today, "card") /\ agency = OfLineAt(ledger, q, today, "agency")
  BY <1>0 DEF R!OfLine, R!Matching, OfLineAt
<1>2. IsFiniteSet(ledger) /\ q.source \in Sources
  BY BooksAssumption DEF Taken
<1>3. Sourced(card) /\ Sourced(agency)
  <2>1. \A line : Sourced(OfLineAt(ledger, q, today, line))
    BY <1>2, AllSourced
  <2>2. QED
    BY <1>1, <2>1
<1>4. reply.card = card /\ (reply.agency = agency \/ reply.summary = R!Figures(agency))
  BY <1>0 DEF R!CardSums
<1>5. \A a : IsCardList(a, ledger, q, today) => IsAnswer(a, ledger, q, today)
  BY DEF IsAnswer
<1> PICK part : part = reply.agency
  OBVIOUS
<1>6. part = agency \/ part \in Less(agency)
  <2>1. reply.agency \in {agency, R!Short(agency), <<>>}
    BY <1>0 DEF R!CardReplies
  <2>2. QED
    BY <2>1 DEF Less
<1>7. Sourced(part)
  <2>1. Sourced(R!Short(agency))
    BY <1>3, TailIsSourced, NothingIsSourced DEF R!Short
  <2>2. QED
    BY <1>3, <1>6, <2>1, NothingIsSourced DEF Less
<1>8. IsCardList(card \o part, ledger, q, today)
  <2>1. CASE part = agency
    BY <1>1, <2>1 DEF IsCardList
  <2>2. CASE part # agency
    <3>1. part \in Less(agency) /\ R!Agrees(R!Figures(agency), R!Figures(part))
      BY <1>0, <1>4, <1>6, <2>2
    <3>2. QED
      BY <1>1, <3>1 DEF IsCardList
  <2>3. QED
    BY <2>1, <2>2
<1>9. Sourced(card \o part)
  BY <1>3, <1>7, BothAreSourced
<1>10. QED
  BY <1>3, <1>4, <1>5, <1>7, <1>8, <1>9 DEF IsInFull

DaysOf(from, to) == {t \in from .. to : R!IsDay(t)}

\* The rows are the answers to these queries, one after the other, each a complete one
\* of some day from the end of the period to today.
Gathered(asked, rows, books, from, to) ==
    \E upto :
        /\ upto[0] = <<>> /\ upto[Len(asked)] = rows
        /\ \A i \in 1 .. Len(asked) : \E t \in DaysOf(from, to) : \E a :
              IsAnswer(a, books, asked[i], t) /\ upto[i] = upto[i - 1] \o a

\* One more answer.
LEMMA GatherOn ==
    ASSUME NEW S, NEW asked \in Seq(S), NEW q \in S, NEW books, NEW from \in Nat, NEW to \in Nat,
           from <= to, R!IsDay(to), NEW rows, Gathered(asked, rows, books, from, to),
           NEW a, IsAnswer(a, books, q, to)
    PROVE  Gathered(Append(asked, q), rows \o a, books, from, to)
<1> DEFINE n == Len(asked)
           on == Append(asked, q)
<1>1. n \in Nat /\ Len(on) = n + 1 /\ on[n + 1] = q /\ \A i \in 1 .. n : on[i] = asked[i]
  BY AppendProperties
<1>2. PICK upto : /\ upto[0] = <<>> /\ upto[n] = rows
                  /\ \A i \in 1 .. n : \E t \in DaysOf(from, to) : \E b :
                        IsAnswer(b, books, asked[i], t) /\ upto[i] = upto[i - 1] \o b
  BY DEF Gathered
<1> DEFINE more == [i \in 0 .. n + 1 |-> IF i = n + 1 THEN rows \o a ELSE upto[i]]
<1> HIDE DEF n, on
<1>3. more[0] = <<>> /\ more[n + 1] = rows \o a /\ \A i \in 0 .. n : more[i] = upto[i]
  BY <1>1, <1>2
<1> HIDE DEF more
<1>4. ASSUME NEW i \in 1 .. n + 1
      PROVE  \E t \in DaysOf(from, to) : \E b : IsAnswer(b, books, on[i], t) /\ more[i] = more[i - 1] \o b
  <2>1. CASE i = n + 1
    <3>1. on[i] = q /\ more[i] = rows \o a /\ i - 1 = n
      BY <1>1, <1>3, <2>1
    <3>2. more[i - 1] = rows
      BY <1>1, <1>2, <1>3, <3>1
    <3>3. to \in DaysOf(from, to)
      BY DEF DaysOf
    <3>4. QED
      BY <3>1, <3>2, <3>3
  <2>2. CASE i # n + 1
    <3>1. i \in 1 .. n /\ i \in 0 .. n /\ i - 1 \in 0 .. n
      BY <1>1, <2>2
    <3>2. on[i] = asked[i] /\ more[i] = upto[i] /\ more[i - 1] = upto[i - 1]
      BY <1>1, <1>3, <3>1
    <3>3. \E t \in DaysOf(from, to) : \E b : IsAnswer(b, books, asked[i], t) /\ upto[i] = upto[i - 1] \o b
      BY <1>2, <3>1
    <3>4. QED
      BY <3>2, <3>3
  <2>3. QED
    BY <2>1, <2>2
<1>5. QED
  <2>1. more[0] = <<>> /\ more[Len(on)] = rows \o a
    BY <1>1, <1>3
  <2>2. \A i \in 1 .. Len(on) : \E t \in DaysOf(from, to) : \E b :
            IsAnswer(b, books, on[i], t) /\ more[i] = more[i - 1] \o b
    BY <1>1, <1>4
  <2>3. Gathered(on, rows \o a, books, from, to)
    BY ONLY <2>1, <2>2 DEF Gathered
  <2>4. QED
    BY <2>3 DEF on

\* The next day there are more days to choose from.
LEMMA GatherLater ==
    ASSUME NEW asked, NEW rows, NEW books, NEW from \in Nat, NEW to \in Nat, NEW later \in Nat,
           to <= later, Gathered(asked, rows, books, from, to)
    PROVE  Gathered(asked, rows, books, from, later)
<1>1. DaysOf(from, to) \subseteq DaysOf(from, later)
  BY DEF DaysOf
<1>2. PICK upto : /\ upto[0] = <<>> /\ upto[Len(asked)] = rows
                  /\ \A i \in 1 .. Len(asked) : \E t \in DaysOf(from, to) : \E a :
                        IsAnswer(a, books, asked[i], t) /\ upto[i] = upto[i - 1] \o a
  BY DEF Gathered
<1>3. \A i \in 1 .. Len(asked) : \E t \in DaysOf(from, later) : \E a :
          IsAnswer(a, books, asked[i], t) /\ upto[i] = upto[i - 1] \o a
  BY <1>1, <1>2
<1>4. QED
  BY <1>2, <1>3 DEF Gathered

Queries == [source : Sources, from : Nat, to : Nat, deduction : R!Deductions, whole : BOOLEAN]

\* What was asked and answered, and the part of an answer that has come.
ReadUpTo(asked, rows, part) ==
    /\ asked \in Seq(Queries) /\ asked \o queue = R!WorkOver(command.of, command.period)
    /\ Gathered(asked, rows, ledger, command.period[2], today)
    /\ Sourced(rows) /\ Sourced(part) /\ got = rows \o part

ReadRight ==
    /\ reading = "idle" => got = <<>> /\ page = 1
    /\ reading \in {"fetch", "build"} => command.period[2] \in Nat /\ command.period[2] <= today
    /\ reading = "fetch" /\ sums = "whole" =>
           \E asked, rows, part : /\ ReadUpTo(asked, rows, part)
                                  /\ IsPart(part, ledger, Head(queue), today, page)
    /\ reading = "build" /\ sums = "whole" =>
           \E asked, rows : queue = <<>> /\ ReadUpTo(asked, rows, <<>>)

\* A period ends today at the latest, however long its half-year or year.
Years == 0 .. 2100
Halves == 1 .. 2
HalfEnd(y, h, d) == R!Earliest(R!LastDay(100 * y + 6 * h), d)
YearEnd(y, d) == R!Earliest(10000 * y + 1231, d)
Until(e, d) == e \in Nat /\ e <= d

\* Either ends today or earlier.
LEMMA EndOfPeriod ==
    ASSUME NEW y \in Years, NEW d \in Nat
    PROVE  Until(YearEnd(y, d), d) /\ \A h \in Halves : Until(HalfEnd(y, h, d), d)
<1>1. ASSUME NEW h \in Halves PROVE R!LastDay(100 * y + 6 * h) \in Nat
  <2> DEFINE k == 100 * y + 6 * h
  <2>1. k \in Nat
    BY DEF Years, Halves
  <2> HIDE DEF k
  <2>2. QED
    BY <2>1, DaysOfMonth DEF R!LastDay, k
<1>2. \A e \in Nat : Until(R!Earliest(e, d), d)
  BY DEF R!Earliest, Until
<1>3. 10000 * y + 1231 \in Nat
  BY DEF Years
<1>4. QED
  BY <1>1, <1>2, <1>3 DEF YearEnd, HalfEnd

\* A command begins with nothing read, and its period does not end after today.
LEMMA BeginReads ==
    ASSUME QueueIsTaken, ReadRight, NEW c \in Reading, R!Begin(c)
    PROVE  ReadRight'
<1>1. R!IsDay(today) /\ today \in Nat /\ reading = "idle" /\ got = <<>> /\ page = 1
  BY DayParts DEF QueueIsTaken, R!Begin, ReadRight
<1>2. CASE ~R!Acceptable(c)
  BY <1>1, <1>2 DEF R!Begin, ReadRight
<1>3. CASE R!Acceptable(c)
  <2> PICK p : p = R!Period(c)
    OBVIOUS
  <2>1. /\ command' = [of |-> c, period |-> p] /\ queue' = R!Work(c) /\ reading' = "fetch"
        /\ UNCHANGED <<ledger, today, page, got, sums>>
    BY <1>3 DEF R!Begin
  <2>2. p[2] \in Nat /\ p[2] <= today
    <3>1. CASE c.kind \in {"list", "summary"}
      <4>1. CASE c.from = R!Ytd
        BY <1>1, <3>1, <4>1 DEF R!Period
      <4>2. CASE c.from # R!Ytd
        <5>1. p = <<c.from, c.to>>
          BY <3>1, <4>2 DEF R!Period
        <5>2. R!IsDay(c.to)
          BY <3>1, <4>2, ReadingAssumption
        <5>3. p[2] <= today
          BY <1>3, <3>1 DEF R!Acceptable
        <5>4. QED
          BY <5>1, <5>2, <5>3 DEF R!IsDay
      <4>3. QED
        BY <4>1, <4>2
    <3>2. CASE c.kind = "vat"
      <4>1. c.year \in Years /\ c.half \in Halves
        BY <3>2, ReadingAssumption DEF Years, Halves
      <4>2. p[2] = HalfEnd(c.year, c.half, today)
        BY <3>2 DEF R!Period, HalfEnd
      <4>3. Until(HalfEnd(c.year, c.half, today), today)
        BY <1>1, <4>1, EndOfPeriod
      <4>4. QED
        BY <4>2, <4>3 DEF Until
    <3>3. CASE c.kind = "registry"
      BY <1>1, <3>3 DEF R!Period
    <3>4. CASE c.kind \notin {"list", "summary", "vat", "registry"}
      <4>1. c.year \in Years
        <5>1. CASE c.kind = "card_sales"
          BY <5>1, ReadingAssumption DEF Years
        <5>2. CASE c.kind # "card_sales"
          BY <3>4, <5>2, ReadingAssumption DEF Years
        <5>3. QED
          BY <5>1, <5>2
      <4>2. p[2] = YearEnd(c.year, today)
        BY <3>4 DEF R!Period, YearEnd
      <4>3. Until(YearEnd(c.year, today), today)
        BY <1>1, <4>1, EndOfPeriod
      <4>4. QED
        BY <4>2, <4>3 DEF Until
    <3>5. QED
      BY <3>1, <3>2, <3>3, <3>4
  <2>3. command'.of = c /\ command'.period = p
    BY <2>1
  <2>4. R!Work(c) = R!WorkOver(c, p) /\ R!Work(c) \in Seq(Taken)
    BY <1>1, <1>3, WorkTaken DEF R!Work
  <2>5. <<>> \o R!Work(c) = R!Work(c)
    BY <2>4, ConcatEmptySeq
  <2>6. Gathered(<<>>, <<>>, ledger, p[2], today)
    <3> DEFINE upto == [i \in {0} |-> <<>>]
    <3>1. upto[0] = <<>> /\ upto[Len(<<>>)] = <<>> /\ 1 .. Len(<<>>) = {}
      OBVIOUS
    <3> HIDE DEF upto
    <3>2. QED
      BY <3>1 DEF Gathered
  <2>7. ReadUpTo(<<>>, <<>>, <<>>)'
    <3>1. <<>> \in Seq(Queries) /\ got' = <<>> \o <<>>
      BY <1>1, <2>1, ConcatEmptySeq
    <3>2. <<>> \o queue' = R!WorkOver(c, p)
      BY <2>1, <2>4, <2>5
    <3>4. Gathered(<<>>, <<>>, ledger', p[2], today')
      BY <2>1, <2>6
    <3>5. QED
      BY <2>3, <3>1, <3>2, <3>4, NothingIsSourced DEF ReadUpTo
  <2>8. IsPart(<<>>, ledger, Head(queue), today, page)'
    BY <1>1, <2>1 DEF IsPart
  <2>9. QED
    BY <1>1, <2>1, <2>2, <2>3, <2>7, <2>8 DEF ReadRight
<1>4. QED
  BY <1>2, <1>3

\* An answer is complete: the next query is made, or the report.
LEMMA AnswerReads ==
    ASSUME QueueIsTaken, reading = "fetch", R!Onward, UNCHANGED <<ledger, today, command>>,
           command.period[2] \in Nat, command.period[2] <= today,
           NEW asked, NEW rows, NEW part, ReadUpTo(asked, rows, part),
           NEW answer, IsAnswer(answer, ledger, Head(queue), today), Sourced(answer),
           got' = rows \o answer
    PROVE  ReadRight'
<1> PICK q : q = Head(queue)
  OBVIOUS
<1> PICK on : on = Append(asked, q)
  OBVIOUS
<1> PICK more : more = rows \o answer
  OBVIOUS
<1> DEFINE work == R!WorkOver(command.of, command.period)
<1>1. today \in Nat /\ queue \in Seq(Taken) /\ Len(queue) > 0
  BY DayParts DEF QueueIsTaken
<1>2. queue \in Seq(Queries) /\ q \in Queries /\ Tail(queue) \in Seq(Queries)
  <2>1. queue \in Seq(Queries)
    <3>1. Taken \subseteq Queries
      BY DEF Taken, Queries
    <3>2. QED
      BY <1>1, <3>1, SeqMonotonic
  <2>2. queue # <<>>
    BY <1>1
  <2>3. QED
    BY <2>1, <2>2, HeadTailProperties
<1>3. asked \in Seq(Queries) /\ asked \o queue = work
  BY DEF ReadUpTo
<1>4. on \in Seq(Queries) /\ on \o Tail(queue) = work
  <2>1. on \in Seq(Queries) /\ on = asked \o <<q>> /\ <<q>> \in Seq(Queries)
    BY <1>2, <1>3, AppendProperties, AppendIsConcat
  <2>2. <<q>> \o Tail(queue) = queue
    BY <1>1, <1>2
  <2>3. (asked \o <<q>>) \o Tail(queue) = asked \o (<<q>> \o Tail(queue))
    BY <1>2, <1>3, <2>1, ConcatAssociative
  <2>4. QED
    BY <1>3, <2>1, <2>2, <2>3
<1>5. Gathered(on, more, ledger, command.period[2], today)
  <2>1. Gathered(asked, rows, ledger, command.period[2], today)
    BY DEF ReadUpTo
  <2>2. PICK from \in Nat : from = command.period[2]
    OBVIOUS
  <2>3. Gathered(asked, rows, ledger, from, today) /\ from <= today
    BY <2>1, <2>2
  <2>4. /\ R!IsDay(today) /\ IsAnswer(answer, ledger, q, today)
        /\ on = Append(asked, q) /\ more = rows \o answer
    BY DEF QueueIsTaken
  <2>5. Gathered(on, more, ledger, from, today)
    BY ONLY <1>1, <1>2, <1>3, <2>2, <2>3, <2>4, GatherOn
  <2>6. QED
    BY <2>2, <2>5
<1>6. Sourced(more) /\ more \o <<>> = more
  <2>1. Sourced(rows) /\ Sourced(answer)
    BY DEF ReadUpTo
  <2>2. Sourced(more)
    BY <2>1, BothAreSourced
  <2>3. QED
    BY <2>2, SourcedJoin, NothingIsSourced
<1>7. /\ queue' = Tail(queue) /\ page' = 1
      /\ reading' = IF Len(queue) = 1 THEN "build" ELSE "fetch"
  BY DEF R!Onward
<1>8. reading' = "build" => queue' = <<>>
  <2>1. Len(Tail(queue)) = Len(queue) - 1 /\ Tail(queue) \in Seq(Queries)
    BY <1>1, <1>2
  <2>2. Len(queue) = 1 => Len(Tail(queue)) = 0
    BY <2>1
  <2>3. Len(queue) = 1 => Tail(queue) = <<>>
    BY ONLY <2>1, <2>2, EmptySeq
  <2>4. QED
    BY <1>7, <2>3
<1>9. got' = more
  OBVIOUS
<1>10. ReadUpTo(on, more, <<>>)'
  <2>1. on \o queue' = R!WorkOver(command'.of, command'.period)
    <3>1. on \o queue' = work
      BY <1>4, <1>7
    <3>2. command' = command
      OBVIOUS
    <3>3. QED
      BY ONLY <3>1, <3>2
  <2>2. Gathered(on, more, ledger', command'.period[2], today')
    BY <1>5
  <2>3. QED
    BY <1>4, <1>6, <1>9, <2>1, <2>2, NothingIsSourced DEF ReadUpTo
<1>11. IsPart(<<>>, ledger, Head(queue), today, page)'
  BY <1>7 DEF IsPart
<1>12. reading' # "idle"
  BY <1>7
<1>13. QED
  BY <1>8, <1>10, <1>11, <1>12 DEF ReadRight

\* A page brings the answer on, or completes it; card sales come at once. Otherwise the
\* command fails.
LEMMA WholeReads ==
    ASSUME QueueIsTaken, ReportTyped, ReadRight, R!Fetch, sums' = "whole"
    PROVE  ReadRight'
<1> PICK q : q = Head(queue)
  OBVIOUS
<1>1. /\ reading = "fetch" /\ queue \in Seq(Taken) /\ Len(queue) > 0
      /\ R!IsDay(today) /\ today \in Nat /\ ledger \in Ledgers
      /\ page \in 1 .. MaxPages /\ page \in Nat \ {0}
  BY DayParts, LimitsAssumption DEF R!Fetch, QueueIsTaken, ReportTyped
<1>2. q \in Taken
  BY <1>1
<1>3. R!ValidQuery(q) /\ q.source \in Sources
  BY <1>2 DEF Taken
<1>4. R!FetchPage(q) \/ R!FetchCardSales(q)
  BY <1>3 DEF R!Fetch
<1>5. UNCHANGED <<ledger, today, command>>
  BY <1>4 DEF R!FetchPage, R!FetchCardSales
<1>6. command.period[2] \in Nat /\ command.period[2] <= today
  BY <1>1 DEF ReadRight
<1>0. sums = "whole"
  BY <1>4 DEF R!FetchPage, R!FetchCardSales, R!CardSums
<1>7. PICK asked, rows, part : ReadUpTo(asked, rows, part) /\ IsPart(part, ledger, q, today, page)
  BY <1>0, <1>1 DEF ReadRight
<1>8. Sourced(rows) /\ Sourced(part) /\ got = rows \o part
  BY <1>7 DEF ReadUpTo
<1>9. ASSUME reading' = "failed" PROVE ReadRight'
  BY <1>9 DEF ReadRight
<1>10. ASSUME R!Onward, NEW answer, IsAnswer(answer, ledger, q, today), Sourced(answer),
              got' = rows \o answer
       PROVE  ReadRight'
  BY <1>1, <1>5, <1>6, <1>7, <1>10, AnswerReads
<1>11. CASE R!FetchPage(q)
  <2>1. q.source # "card_sales"
    BY <1>11 DEF R!FetchPage
  <2>2. reading' = "failed" \/ \E r \in R!Replies(q) :
            /\ R!Checked(q, r) /\ got' = (got \o r.rows) \o R!TotalOnce(q)
            /\ R!HasCount(q) \/ r.rows = R!RightRows(q)
            /\ \/ ~R!HasNext(q, r) /\ R!Onward
               \/ R!HasNext(q, r) /\ page' = page + 1 /\ UNCHANGED <<reading, queue>>
    BY <1>11 DEF R!FetchPage
  <2>3. ASSUME NEW r \in R!Replies(q), R!Checked(q, r),
               got' = (got \o r.rows) \o R!TotalOnce(q),
               R!HasCount(q) \/ r.rows = R!RightRows(q),
               \/ ~R!HasNext(q, r) /\ R!Onward
               \/ R!HasNext(q, r) /\ page' = page + 1 /\ UNCHANGED <<reading, queue>>
        PROVE  ReadRight'
    <3> PICK more : more = (part \o r.rows) \o R!TotalOnce(q)
      OBVIOUS
    <3>1. Sourced(r.rows) /\ Sourced(R!TotalOnce(q))
      BY <1>1, <1>3, RepliesAreSourced
    <3>2. Sourced(more) /\ got' = rows \o more
      <4> PICK a, b : a = r.rows /\ b = R!TotalOnce(q)
        OBVIOUS
      <4>1. Sourced(rows) /\ Sourced(part) /\ Sourced(a) /\ Sourced(b)
        BY <1>8, <3>1
      <4>2. Sourced(part \o a) /\ Sourced((part \o a) \o b)
        BY ONLY <4>1, BothAreSourced
      <4>3. (rows \o part) \o a = rows \o (part \o a)
        BY ONLY <4>1, SourcedJoin
      <4>4. (rows \o (part \o a)) \o b = rows \o ((part \o a) \o b)
        <5>1. PICK d : d = part \o a
          OBVIOUS
        <5>2. Sourced(rows) /\ Sourced(d) /\ Sourced(b)
          BY ONLY <4>1, <4>2, <5>1
        <5>3. (rows \o d) \o b = rows \o (d \o b)
          BY ONLY <5>2, SourcedJoin
        <5>4. QED
          BY ONLY <5>1, <5>3
      <4>5. got' = ((rows \o part) \o a) \o b
        BY <1>8, <2>3
      <4>6. more = (part \o a) \o b
        OBVIOUS
      <4>7. QED
        BY ONLY <4>2, <4>3, <4>4, <4>5, <4>6
    <3>3. /\ ~R!HasNext(q, r) => IsAnswer(more, ledger, q, today)
          /\ R!HasNext(q, r) => IsPart(more, ledger, q, today, page + 1)
      BY <1>1, <1>2, <1>7, <2>1, <2>3, PageAnswers
    <3>4. CASE ~R!HasNext(q, r) /\ R!Onward
      BY <1>10, <3>2, <3>3, <3>4
    <3>5. CASE R!HasNext(q, r) /\ page' = page + 1 /\ UNCHANGED <<reading, queue>>
      <4>1. ReadUpTo(asked, rows, more)'
        BY <1>5, <1>7, <3>2, <3>5 DEF ReadUpTo
      <4>2. Head(queue') = q /\ reading' = "fetch"
        BY <1>1, <3>5
      <4>3. IsPart(more, ledger', Head(queue'), today', page')
        BY <1>5, <3>3, <3>5, <4>2
      <4>4. command'.period[2] \in Nat /\ command'.period[2] <= today'
        BY <1>5, <1>6
      <4>5. QED
        BY <4>1, <4>2, <4>3, <4>4 DEF ReadRight
    <3>6. QED
      BY <2>3, <3>4, <3>5
  <2>4. QED
    BY <1>9, <2>2, <2>3
<1>12. CASE R!FetchCardSales(q)
  <2> PICK card, agency : card = R!OfLine(q, "card") /\ agency = R!OfLine(q, "agency")
    OBVIOUS
  <2>1. q.source = "card_sales"
    BY <1>12 DEF R!FetchCardSales
  <2>2. reading' = "failed" \/ \E reply \in R!CardReplies(card, agency) :
            /\ R!Agrees(reply.summary, R!Figures(reply.agency)) /\ R!Onward
            /\ got' = (got \o reply.card) \o reply.agency
            /\ sums' = R!CardSums(reply, card, agency)
    BY <1>12 DEF R!FetchCardSales
  <2>3. part = <<>> /\ got = rows
    <3>1. part = <<>>
      BY <1>7, <2>1 DEF IsPart, IsBegun
    <3>2. QED
      BY <1>8, <3>1, SourcedJoin, NothingIsSourced
  <2>4. ASSUME NEW reply \in R!CardReplies(card, agency),
               R!Agrees(reply.summary, R!Figures(reply.agency)), R!Onward,
               got' = (got \o reply.card) \o reply.agency,
               sums' = R!CardSums(reply, card, agency)
        PROVE  ReadRight'
    <3>1. R!CardSums(reply, card, agency) = "whole"
      BY <2>4
    <3> PICK b, c : b = reply.card /\ c = reply.agency
      OBVIOUS
    <3>2. IsCardReply(q, card, agency, reply)
      BY <2>4, <3>1 DEF IsCardReply
    <3>3. IsInFull(q, reply.card, reply.agency)
      BY <1>1, <1>2, <2>1, <3>2, CardAnswers
    <3>4. Sourced(b) /\ Sourced(c) /\ IsAnswer(b \o c, ledger, q, today) /\ Sourced(b \o c)
      BY <3>3 DEF IsInFull
    <3>5. (rows \o b) \o c = rows \o (b \o c)
      <4>1. Sourced(rows) /\ Sourced(b) /\ Sourced(c)
        BY <1>8, <3>4
      <4>2. QED
        BY ONLY <4>1, SourcedJoin
    <3>6. got' = rows \o (b \o c)
      BY <2>3, <2>4, <3>5
    <3>7. QED
      BY <1>10, <2>4, <3>4, <3>6
  <2>5. QED
    BY <1>9, <2>2, <2>4
<1>13. QED
  BY <1>4, <1>11, <1>12

\* Once HomeTax has left out a sum of a year, nothing is said of what was read.
LEMMA FetchReads ==
    ASSUME QueueIsTaken, ReportTyped, ReadRight, R!Fetch
    PROVE  ReadRight'
<1>1. CASE sums' = "whole"
  BY <1>1, WholeReads
<1>2. CASE sums' # "whole"
  <2> PICK q : q = Head(queue)
    OBVIOUS
  <2>1. reading = "fetch" /\ q \in Taken
    BY DEF R!Fetch, QueueIsTaken
  <2>2. R!FetchPage(q) \/ R!FetchCardSales(q)
    BY <2>1 DEF R!Fetch, Taken
  <2>3. UNCHANGED <<today, command>> /\ reading' # "idle"
    BY <2>1, <2>2 DEF R!FetchPage, R!FetchCardSales, R!Onward
  <2>4. QED
    BY <1>2, <2>1, <2>3 DEF ReadRight
<1>3. QED
  BY <1>1, <1>2

\* What a query found stays true: its period is over. Only the sums of a year may still
\* change, and they come in one answer.
LEMMA MidnightReads ==
    ASSUME QueueIsTaken, ReportTyped, ReadRight, R!Midnight
    PROVE  ReadRight'
<1> PICK day : day = today
  OBVIOUS
<1>1. /\ today' = R!NextDay(today)
      /\ UNCHANGED <<ledger, command, queue, page, got, sums, reading>>
  BY DEF R!Midnight
<1>2. today \in Nat /\ today' \in Nat /\ today <= today' /\ R!IsDay(today)
  BY <1>1, NextDayIsLater, DayParts DEF QueueIsTaken
<1>3. ASSUME NEW asked, NEW rows, NEW part, ReadUpTo(asked, rows, part),
             command.period[2] \in Nat
      PROVE  ReadUpTo(asked, rows, part)'
  <2>1. PICK from \in Nat : from = command.period[2]
    BY <1>3
  <2>2. Gathered(asked, rows, ledger, from, today)
    BY <1>3, <2>1 DEF ReadUpTo
  <2>3. Gathered(asked, rows, ledger, from, today')
    BY ONLY <1>2, <2>2, GatherLater
  <2>4. Gathered(asked, rows, ledger', command'.period[2], today')
    BY <1>1, <2>1, <2>3
  <2>5. QED
    BY <1>1, <1>3, <2>4 DEF ReadUpTo
<1>4. ASSUME reading = "fetch", NEW part, IsPart(part, ledger, Head(queue), today, page)
      PROVE  IsPart(part, ledger, Head(queue), today, page)'
  <2> PICK q : q = Head(queue)
    OBVIOUS
  <2>1. q \in Taken
    BY <1>4 DEF QueueIsTaken
  <2>2. q \in Queries /\ R!ValidQuery(q)
    BY <2>1 DEF Taken, Queries
  <2>3. ASSUME NEW n, IsBegun(part, ledger, q, today, n)
        PROVE  IsBegun(part, ledger, q, today', n)
    <3>1. q.source \notin {"card_sales", "cash_sales"} /\ ledger \in Ledgers
      BY <2>3 DEF IsBegun, ReportTyped
    <3>2. q.to \in Nat /\ q.from \in Nat
      BY <2>2 DEF Queries
    <3>3. CASE q.source = "registry"
      BY <1>2, <2>2, <2>3, <3>1, <3>2, <3>3, BegunLater DEF Queries
    <3>4. CASE q.source # "registry"
      <4> DEFINE end == R!SameDay(q.from, 3)
      <4>1. q.to <= R!Earliest(today, end)
        BY <2>2, <3>1, <3>4 DEF R!ValidQuery, R!ValidPeriod
      <4>2. end \in Int
        BY <3>2, SameDayIsNumber
      <4> HIDE DEF end
      <4>3. q.to <= today
        BY <1>2, <3>2, <4>1, <4>2 DEF R!Earliest
      <4>4. QED
        BY <1>2, <2>2, <2>3, <3>1, <3>2, <4>3, BegunLater DEF Queries
    <3>5. QED
      BY <3>3, <3>4
  <2>4. IsPart(part, ledger, q, today, page)
    BY <1>4
  <2>5. IsPart(part, ledger, q, today', page)
    BY <2>3, <2>4 DEF IsPart
  <2>6. QED
    BY <1>1, <2>5
<1>5. QED
  <2>1. reading' = "idle" => got' = <<>> /\ page' = 1
    BY <1>1 DEF ReadRight
  <2>2. reading' \in {"fetch", "build"} => command'.period[2] \in Nat /\ command'.period[2] <= today'
    BY <1>1, <1>2 DEF ReadRight
  <2>3. ASSUME reading' = "fetch", sums' = "whole"
        PROVE  \E asked, rows, part : (/\ ReadUpTo(asked, rows, part)
                                       /\ IsPart(part, ledger, Head(queue), today, page))'
    BY <1>1, <1>3, <1>4, <2>3 DEF ReadRight
  <2>4. ASSUME reading' = "build", sums' = "whole"
        PROVE  \E asked, rows : (queue = <<>> /\ ReadUpTo(asked, rows, <<>>))'
    BY <1>1, <1>3, <2>4 DEF ReadRight
  <2>5. QED
    BY <2>1, <2>2, <2>3, <2>4 DEF ReadRight

\* What has been read stays right at every step.
LEMMA ReadingGoesOn == QueueIsTaken /\ ReportTyped /\ ReadRight /\ [R!Next]_(R!vars) => ReadRight'
<1> SUFFICES ASSUME QueueIsTaken, ReportTyped, ReadRight, [R!Next]_(R!vars)
             PROVE  ReadRight'
  OBVIOUS
<1>1. ASSUME NEW c \in Reading, R!Begin(c) PROVE ReadRight'
  BY <1>1, BeginReads
<1>2. CASE R!Fetch
  BY <1>2, FetchReads
<1>3. CASE R!Fail
  BY <1>3 DEF R!Fail, ReadRight
<1>4. CASE R!Build
  BY <1>4 DEF R!Build, ReadRight
<1>5. CASE R!Midnight
  BY <1>5, MidnightReads
<1>6. CASE UNCHANGED R!vars
  BY <1>6 DEF R!vars, ReadRight, ReadUpTo
<1>7. QED
  BY <1>1, <1>2, <1>3, <1>4, <1>5, <1>6 DEF R!Next

\* cli.py:565-713, 846-900, financials.py:76-89: when a report is made, every
\* query of the command has been answered in full and in the order it was asked: each row
\* once, from however many pages, each total once; but HomeTax may leave out a sum of a
\* year, which has no count.
Complete ==
    reading = "build" /\ sums = "whole" =>
        Gathered(R!WorkOver(command.of, command.period), got, ledger, command.period[2], today)

\* So a report is made of complete answers.
LEMMA ReadInFull == ReadRight => Complete
<1> SUFFICES ASSUME ReadRight, reading = "build", sums = "whole"
             PROVE  Gathered(R!WorkOver(command.of, command.period), got, ledger,
                             command.period[2], today)
  BY DEF Complete
<1>1. PICK asked, rows : queue = <<>> /\ ReadUpTo(asked, rows, <<>>)
  BY DEF ReadRight
<1>2. asked \in Seq(Queries) /\ asked \o <<>> = R!WorkOver(command.of, command.period)
  BY <1>1 DEF ReadUpTo
<1>3. asked = R!WorkOver(command.of, command.period)
  BY <1>2, ConcatEmptySeq
<1>4. Sourced(rows) /\ got = rows \o <<>>
  BY <1>1 DEF ReadUpTo
<1>5. got = rows
  BY <1>4, SourcedJoin, NothingIsSourced
<1>6. QED
  BY <1>1, <1>3, <1>5 DEF ReadUpTo

\* The same for one reading command.
LEMMA ReadingIsComplete == R!Spec => []Complete
<1>1. R!Init => ReadRight
  BY DEF R!Init, ReadRight
<1>2. QED
  BY <1>1, ReadInFull, ReadingStarts, ReadingKeeps, ReportsStart, ReportsStay, ReadingGoesOn, PTL
  DEF R!Spec

-----------------------------------------------------------------------------
(***************************************************************************)
(* Sums and lists of a finite set                                          *)
(*                                                                         *)
(* SumFunction folds a set that CHOOSE takes apart: it exists and does not *)
(* depend on the order.  FS_Induction takes an operator, so Induction says *)
(* the same of a set.                                                      *)
(***************************************************************************)
\* A set of numbers that has one, has a least.
LEMMA LeastNumber ==
    ASSUME NEW T \in SUBSET Nat, T # {}
    PROVE  \E m \in T : \A n \in T : m <= n
<1> DEFINE less == {r \in Nat \X Nat : r[1] < r[2]}
<1>1. IsWellFoundedOn(less, Nat)
  BY NatLessThanWellFounded DEF OpToRel
<1>2. PICK m \in T : \A n \in T : ~(<<n, m>> \in less)
  BY <1>1, WFMin
<1>3. ASSUME NEW n \in T PROVE m <= n
  <2>1. m \in Nat /\ n \in Nat
    OBVIOUS
  <2>2. ~(n < m)
    BY <1>2, <2>1
  <2>3. QED
    BY <2>1, <2>2
<1>4. QED
  BY <1>3

\* A set of sets that holds {} and what one more element makes of its members holds
\* every finite set: FS_Induction, of a set.
LEMMA Induction ==
    ASSUME NEW S, IsFiniteSet(S), NEW G, {} \in G,
           \A T \in SUBSET S : \A x \in S \ T : T \in G => T \cup {x} \in G
    PROVE  S \in G
<1> SUFFICES ASSUME S \notin G PROVE FALSE
  OBVIOUS
<1> DEFINE B == {T \in SUBSET S : T \notin G}
<1>1. B \subseteq FiniteSubsetsOf(S) /\ S \in B
  BY FS_Subset DEF FiniteSubsetsOf
<1>2. IsWellFoundedOn(StrictSubsetOrdering(S), FiniteSubsetsOf(S))
  BY FS_StrictSubsetOrderingWellFounded
<1>3. PICK T \in B : \A U \in B : ~(<<U, T>> \in StrictSubsetOrdering(S))
  BY <1>1, <1>2, WFMin
<1>4. PICK x \in T : TRUE
  BY <1>3
<1>5. /\ T \ {x} \in SUBSET S /\ x \in S \ (T \ {x}) /\ (T \ {x}) \cup {x} = T
      /\ <<T \ {x}, T>> \in StrictSubsetOrdering(S)
  BY <1>4 DEF StrictSubsetOrdering
<1>6. T \ {x} \in G
  BY <1>3, <1>5
<1>7. QED
  BY <1>3, <1>5, <1>6

\* What CHOOSE picks: FoldSet and FoldFunction take the elements in this order.
Pick(s) == CHOOSE x \in s : TRUE

\* What folds: a value for every subset, from that of one element less.
Folds(g, D, base, h) ==
    \A s \in SUBSET D : g[s] = IF s = {} THEN base ELSE h[<<s, g[s \ {Pick(s)}]>>]

\* Subsets of at most n elements.
Small(D, n) == {s \in SUBSET D : Cardinality(s) <= n}

\* Such a function exists: from subsets of at most n elements to those of n + 1.
LEMMA FoldExists ==
    ASSUME NEW D, IsFiniteSet(D), NEW V, NEW base \in V, NEW h,
           \A s \in SUBSET D : \A v \in V : s # {} => h[<<s, v>>] \in V
    PROVE  \E g \in [SUBSET D -> V] : Folds(g, D, base, h)
<1> DEFINE Good(n, g) ==
              /\ g \in [Small(D, n) -> V]
              /\ \A s \in Small(D, n) : g[s] = IF s = {} THEN base ELSE h[<<s, g[s \ {Pick(s)}]>>]
           Bad == {n \in Nat : ~\E g : Good(n, g)}
<1>1. \A s \in SUBSET D : /\ IsFiniteSet(s) /\ Cardinality(s) \in Nat
                          /\ s = {} <=> Cardinality(s) = 0
                          /\ s # {} => /\ Pick(s) \in s /\ s \ {Pick(s)} \in SUBSET D
                                       /\ Cardinality(s \ {Pick(s)}) = Cardinality(s) - 1
  BY FS_Subset, FS_CardinalityType, FS_EmptySet, FS_RemoveElement DEF Pick
<1>2. 0 \notin Bad
  <2> DEFINE g == [s \in Small(D, 0) |-> base]
  <2>1. ASSUME NEW s \in Small(D, 0) PROVE s = {}
    <3>1. s \in SUBSET D /\ Cardinality(s) <= 0
      BY DEF Small
    <3>2. Cardinality(s) \in Nat
      BY <1>1, <3>1
    <3>4. Cardinality(s) = 0
      BY <3>1, <3>2
    <3>3. QED
      BY <1>1, <3>1, <3>4
  <2>2. Good(0, g)
    BY <2>1
  <2>3. QED
    BY <2>2
<1>3. ASSUME NEW n \in Nat, n \notin Bad
      PROVE  n + 1 \notin Bad
  <2>1. PICK g : Good(n, g)
    BY <1>3
  <2> DEFINE k == [s \in Small(D, n + 1) |-> IF s = {} THEN base ELSE h[<<s, g[s \ {Pick(s)}]>>]]
  <2>2. ASSUME NEW s \in Small(D, n + 1), s # {} PROVE s \ {Pick(s)} \in Small(D, n)
    <3>1. s \in SUBSET D /\ Cardinality(s) <= n + 1 /\ Cardinality(s) \in Nat
      BY <1>1 DEF Small
    <3>2. s \ {Pick(s)} \in SUBSET D /\ Cardinality(s \ {Pick(s)}) = Cardinality(s) - 1
      BY <1>1, <2>2, <3>1
    <3>3. Cardinality(s) - 1 <= n
      BY <3>1
    <3>4. QED
      BY <3>2, <3>3 DEF Small
  <2>3. ASSUME NEW s \in Small(D, n) PROVE s \in Small(D, n + 1)
    <3>1. s \in SUBSET D /\ Cardinality(s) <= n /\ Cardinality(s) \in Nat
      BY <1>1 DEF Small
    <3>2. QED
      BY <3>1 DEF Small
  <2>4. \A s \in Small(D, n) : g[s] = k[s]
    BY <2>1, <2>3
  <2>5. k \in [Small(D, n + 1) -> V]
    <3>1. ASSUME NEW s \in Small(D, n + 1), s # {}
          PROVE  h[<<s, g[s \ {Pick(s)}]>>] \in V
      <4>1. g[s \ {Pick(s)}] \in V /\ s \in SUBSET D
        BY <2>1, <2>2, <3>1 DEF Small
      <4>2. QED
        BY <3>1, <4>1
    <3>2. QED
      BY <3>1
  <2>6. \A s \in Small(D, n + 1) : k[s] = IF s = {} THEN base ELSE h[<<s, k[s \ {Pick(s)}]>>]
    <3>1. ASSUME NEW s \in Small(D, n + 1), s # {}
          PROVE  k[s] = h[<<s, k[s \ {Pick(s)}]>>]
      <4>1. g[s \ {Pick(s)}] = k[s \ {Pick(s)}]
        BY <2>2, <2>4, <3>1
      <4>2. k[s] = h[<<s, g[s \ {Pick(s)}]>>]
        BY <3>1
      <4>3. QED
        BY <4>1, <4>2
    <3>2. ASSUME NEW s \in Small(D, n + 1), s = {}
          PROVE  k[s] = base
      BY <3>2
    <3>3. QED
      BY <3>1, <3>2
  <2>7. Good(n + 1, k)
    BY <2>5, <2>6
  <2>8. QED
    BY <2>7
<1>4. Bad = {}
  <2>1. SUFFICES ASSUME Bad # {} PROVE FALSE
    OBVIOUS
  <2>2. PICK m \in Bad : \A n \in Bad : m <= n
    BY <2>1, LeastNumber
  <2>3. m \in Nat /\ m # 0
    BY <1>2, <2>2
  <2>4. m - 1 \in Nat /\ (m - 1) + 1 = m /\ ~(m <= m - 1)
    BY <2>3
  <2>6. m - 1 \notin Bad
    BY <2>2, <2>4
  <2>5. QED
    BY <1>3, <2>2, <2>4, <2>6
<1>5. PICK g : Good(Cardinality(D), g)
  BY <1>1, <1>4
<1>6. Small(D, Cardinality(D)) = SUBSET D
  BY FS_Subset DEF Small
<1>7. QED
  BY <1>5, <1>6 DEF Folds

\* Folds over a set, and a subset of it, alike.
Alike(f, D, h, g, E, i, V, base) ==
    /\ Folds(f, D, base, h) /\ Folds(g, E, base, i)
    /\ IsFiniteSet(D) /\ E \in SUBSET D /\ g \in [SUBSET E -> V]
    /\ \A s \in SUBSET E : \A v \in V : s # {} => i[<<s, v>>] = h[<<s, v>>]

\* There is one such function.
LEMMA FoldsAgree ==
    ASSUME NEW D, NEW E, NEW V, NEW base, NEW h, NEW i, NEW f, NEW g,
           Alike(f, D, h, g, E, i, V, base)
    PROVE  f[E] = g[E]
<1> DEFINE Bad == {n \in Nat : \E s \in SUBSET E : Cardinality(s) = n /\ f[s] # g[s]}
<1> USE DEF Alike
<1>1. \A s \in SUBSET E : /\ Cardinality(s) \in Nat
                          /\ s # {} => /\ s \ {Pick(s)} \in SUBSET E
                                       /\ Cardinality(s \ {Pick(s)}) < Cardinality(s)
  BY FS_Subset, FS_CardinalityType, FS_RemoveElement DEF Pick
<1>2. ASSUME Bad # {}
      PROVE  FALSE
  <2>1. PICK m \in Bad : \A n \in Bad : m <= n
    BY <1>2, LeastNumber
  <2>2. PICK s \in SUBSET E : Cardinality(s) = m /\ f[s] # g[s]
    BY <2>1
  <2>3. s \in SUBSET D
    OBVIOUS
  <2>4. s # {}
    BY <2>2, <2>3 DEF Folds
  <2> DEFINE r == s \ {Pick(s)}
  <2>5. r \in SUBSET E /\ r \in SUBSET D /\ Cardinality(r) \in Nat /\ Cardinality(r) < m
    BY <1>1, <2>2, <2>4
  <2>6. f[r] = g[r] /\ g[r] \in V
    BY <2>1, <2>5 DEF Folds
  <2>7. f[s] = h[<<s, f[r]>>] /\ g[s] = i[<<s, g[r]>>]
    BY <2>3, <2>4 DEF Folds
  <2>8. QED
    BY <2>2, <2>4, <2>6, <2>7 
<1>3. QED
  BY <1>1, <1>2

\* How a sum goes on.
Step(f, D) == [p \in (SUBSET D) \X Int |-> f[Pick(p[1])] + p[2]]

\* SumFunction is such a fold.
LEMMA SumFolds ==
    ASSUME NEW D, IsFiniteSet(D), NEW f \in [D -> Int]
    PROVE  \E g \in [SUBSET D -> Int] : Folds(g, D, 0, Step(f, D)) /\ SumFunction(f) = g[D]
<1> DEFINE h == Step(f, D)
           F(g) == [s \in SUBSET D |-> IF s = {} THEN 0 ELSE f[Pick(s)] + g[s \ {Pick(s)}]]
           iter == CHOOSE g : g = F(g)
<1>1. \A s \in SUBSET D : s # {} => Pick(s) \in s /\ s \ {Pick(s)} \in SUBSET D
  BY DEF Pick
<1>2. ASSUME NEW s \in SUBSET D, s # {}, NEW v \in Int
      PROVE  h[<<s, v>>] = f[Pick(s)] + v /\ h[<<s, v>>] \in Int
  <2>1. f[Pick(s)] \in Int
    BY <1>1, <1>2
  <2>2. h[<<s, v>>] = f[Pick(s)] + v
    BY DEF Step
  <2>3. QED
    BY <2>1, <2>2
<1>3. PICK g \in [SUBSET D -> Int] : Folds(g, D, 0, h)
  <2>1. \A s \in SUBSET D : \A v \in Int : s # {} => h[<<s, v>>] \in Int
    BY <1>2
  <2>2. 0 \in Int
    OBVIOUS
  <2> HIDE DEF h
  <2>3. \E g \in [SUBSET D -> Int] : Folds(g, D, 0, h)
    BY ONLY <2>1, <2>2, IsFiniteSet(D), FoldExists, Zenon
  <2>4. QED
    BY <2>3
<1>4. g = F(g)
  <2>1. ASSUME NEW s \in SUBSET D
        PROVE  g[s] = IF s = {} THEN 0 ELSE f[Pick(s)] + g[s \ {Pick(s)}]
    <3>1. CASE s = {}
      BY <1>3, <3>1 DEF Folds
    <3>2. CASE s # {}
      <4>1. g[s \ {Pick(s)}] \in Int
        BY <1>1, <3>2
      <4>2. g[s] = h[<<s, g[s \ {Pick(s)}]>>]
        BY <1>3, <3>2 DEF Folds
      <4>3. QED
        BY <1>2, <3>2, <4>1, <4>2
    <3>3. QED
      BY <3>1, <3>2
  <2>2. QED
    BY <2>1
<1>5. iter = F(iter)
  BY <1>4
<1>6. SumFunction(f) = iter[D]
  <2>1. DOMAIN f = D
    OBVIOUS
  <2>2. QED
    BY <2>1 DEF SumFunction, SumFunctionOnSet, FoldFunctionOnSet, MapThenFoldSet, Pick
<1> HIDE DEF iter
<1> DEFINE step == [p \in (SUBSET D) \X (Int \cup {iter[s] : s \in SUBSET D}) |-> f[Pick(p[1])] + p[2]]
<1>7. Folds(iter, D, 0, step)
  <2>1. ASSUME NEW s \in SUBSET D
        PROVE  iter[s] = IF s = {} THEN 0 ELSE step[<<s, iter[s \ {Pick(s)}]>>]
    <3>1. iter[s] = IF s = {} THEN 0 ELSE f[Pick(s)] + iter[s \ {Pick(s)}]
      BY <1>5
    <3>2. CASE s # {}
      <4>1. s \ {Pick(s)} \in SUBSET D
        BY <1>1, <3>2
      <4>2. step[<<s, iter[s \ {Pick(s)}]>>] = f[Pick(s)] + iter[s \ {Pick(s)}]
        BY <4>1
      <4>3. QED
        BY <3>1, <3>2, <4>2
    <3>3. QED
      BY <3>1, <3>2
  <2>2. QED
    BY <2>1 DEF Folds
<1>8. iter[D] = g[D]
  <2>1. \A s \in SUBSET D : \A v \in Int : s # {} => h[<<s, v>>] = step[<<s, v>>]
    BY <1>2
  <2> HIDE DEF h, step
  <2>2. Alike(iter, D, step, g, D, h, Int, 0)
    BY <1>3, <1>7, <2>1 DEF Alike
  <2>3. QED
    BY ONLY <2>2, FoldsAgree
<1>9. QED
  BY <1>3, <1>6, <1>8

-----------------------------------------------------------------------------
\* A sum of numbers is a number.
LEMMA SumTyped ==
    ASSUME NEW D, IsFiniteSet(D), NEW f \in [D -> Int]
    PROVE  SumFunction(f) \in Int
<1>1. PICK g \in [SUBSET D -> Int] : SumFunction(f) = g[D]
  BY SumFolds
<1>2. QED
  BY <1>1

\* No number has the sum 0.
LEMMA SumNone ==
    ASSUME NEW f \in [{} -> Int]
    PROVE  SumFunction(f) = 0
<1>1. IsFiniteSet({})
  BY FS_EmptySet
<1>2. PICK g \in [SUBSET {} -> Int] : Folds(g, {}, 0, Step(f, {})) /\ SumFunction(f) = g[{}]
  BY <1>1, SumFolds
<1>3. QED
  BY <1>2 DEF Folds

\* The fold begins with what is picked.
LEMMA SumPicked ==
    ASSUME NEW D, IsFiniteSet(D), D # {}, NEW f \in [D -> Int]
    PROVE  SumFunction(f) = f[Pick(D)] + SumFunction([x \in D \ {Pick(D)} |-> f[x]])
<1> DEFINE c == Pick(D)
           E == D \ {c}
           i == [x \in E |-> f[x]]
<1>1. c \in D /\ E \in SUBSET D /\ IsFiniteSet(E) /\ i \in [E -> Int]
  BY FS_Subset DEF Pick
<1>2. PICK g \in [SUBSET D -> Int] : Folds(g, D, 0, Step(f, D)) /\ SumFunction(f) = g[D]
  BY SumFolds
<1>3. PICK k \in [SUBSET E -> Int] : Folds(k, E, 0, Step(i, E)) /\ SumFunction(i) = k[E]
  <2> HIDE DEF E, i
  <2>1. QED
    BY <1>1, SumFolds
<1>4. ASSUME NEW s \in SUBSET E, NEW v \in Int, s # {}
      PROVE  Step(i, E)[<<s, v>>] = Step(f, D)[<<s, v>>]
  <2>1. Pick(s) \in E /\ s \in SUBSET D
    BY <1>4 DEF Pick
  <2>2. i[Pick(s)] = f[Pick(s)]
    BY <2>1
  <2> HIDE DEF E, i
  <2>3. Step(i, E)[<<s, v>>] = i[Pick(s)] + v /\ Step(f, D)[<<s, v>>] = f[Pick(s)] + v
    BY <2>1 DEF Step
  <2>4. QED
    BY <2>2, <2>3
<1>5. g[E] = k[E]
  <2> HIDE DEF E, i
  <2>1. Alike(g, D, Step(f, D), k, E, Step(i, E), Int, 0)
    BY <1>1, <1>2, <1>3, <1>4 DEF Alike
  <2>2. QED
    BY ONLY <2>1, FoldsAgree
<1>6. g[D] = Step(f, D)[<<D, g[E]>>]
  BY <1>2 DEF Folds
<1>7. Step(f, D)[<<D, g[E]>>] = f[c] + g[E]
  <2>1. D \in SUBSET D /\ g[E] \in Int
    BY <1>1
  <2> HIDE DEF E
  <2>2. QED
    BY <2>1 DEF Step
<1>8. QED
  BY <1>2, <1>3, <1>5, <1>6, <1>7

\* The sum of a part of the numbers.
SumOf(f, T) == SumFunction([x \in T |-> f[x]])

\* It may begin with any.
LEMMA SumMore ==
    ASSUME NEW D, IsFiniteSet(D), NEW x, x \notin D, NEW f \in [D \cup {x} -> Int]
    PROVE  SumFunction(f) = f[x] + SumOf(f, D)
<1> DEFINE E == D \cup {x}
           At(T) == SumFunction([y \in T |-> f[y]])
           Bad == {n \in Nat : \E T \in SUBSET E : \E z \in T :
                      Cardinality(T) = n /\ At(T) # f[z] + At(T \ {z})}
<1>1. \A T \in SUBSET E : /\ IsFiniteSet(T) /\ Cardinality(T) \in Nat
                          /\ \A z \in T : Cardinality(T \ {z}) = Cardinality(T) - 1
  BY FS_Subset, FS_CardinalityType, FS_RemoveElement, FS_AddElement
<1>2. ASSUME NEW T \in SUBSET E
      PROVE  At(T) \in Int /\ \A y \in T : f[y] \in Int
  <2>1. [y \in T |-> f[y]] \in [T -> Int]
    OBVIOUS
  <2>2. QED
    BY <1>1, <2>1, SumTyped
<1>3. ASSUME NEW T \in SUBSET E, T # {}
      PROVE  Pick(T) \in T /\ At(T) = f[Pick(T)] + At(T \ {Pick(T)})
  <2> DEFINE g == [y \in T |-> f[y]]
  <2>1. g \in [T -> Int] /\ Pick(T) \in T /\ IsFiniteSet(T)
    BY <1>1, <1>3 DEF Pick
  <2>2. g[Pick(T)] = f[Pick(T)] /\ [y \in T \ {Pick(T)} |-> g[y]] = [y \in T \ {Pick(T)} |-> f[y]]
    BY <2>1
  <2> HIDE DEF g
  <2>3. SumFunction(g) = g[Pick(T)] + SumFunction([y \in T \ {Pick(T)} |-> g[y]])
    BY <1>3, <2>1, SumPicked
  <2>4. QED
    BY <2>1, <2>2, <2>3 DEF g
<1> HIDE DEF At
<1>4. ASSUME Bad # {}
      PROVE  FALSE
  <2>1. PICK n \in Bad : \A m \in Bad : n <= m
    BY <1>4, LeastNumber
  <2>2. PICK T \in SUBSET E : \E z \in T : Cardinality(T) = n /\ At(T) # f[z] + At(T \ {z})
    BY <2>1
  <2>3. PICK z \in T : Cardinality(T) = n /\ At(T) # f[z] + At(T \ {z})
    BY <2>2
  <2> DEFINE c == Pick(T)
  <2>4. c \in T /\ At(T) = f[c] + At(T \ {c})
    BY <1>3, <2>3
  <2>5. c # z
    BY <2>3, <2>4
  <2> DEFINE U == T \ {c}
             W == T \ {z}
  <2>6. U \in SUBSET E /\ W \in SUBSET E /\ z \in U /\ c \in W /\ U \ {z} = W \ {c}
    BY <2>4, <2>5
  <2>7. ASSUME NEW V \in SUBSET E, Cardinality(V) = n - 1, NEW y \in V
        PROVE  At(V) = f[y] + At(V \ {y})
    <3>1. n - 1 \notin Bad
      BY <2>1
    <3>2. n - 1 \in Nat
      BY <1>1, <2>7
    <3>3. QED
      BY <2>7, <3>1, <3>2
  <2>8. Cardinality(U) = n - 1 /\ Cardinality(W) = n - 1
    BY <1>1, <2>3, <2>4
  <2>9. At(U) = f[z] + At(U \ {z}) /\ At(W) = f[c] + At(U \ {z})
    <3> HIDE DEF U, W
    <3>1. QED
      BY <2>6, <2>7, <2>8
  <2>10. At(U) \in Int /\ At(W) \in Int /\ At(U \ {z}) \in Int /\ f[c] \in Int /\ f[z] \in Int
    <3>1. U \ {z} \in SUBSET E
      BY <2>6
    <3>2. QED
      BY <1>2, <2>6, <3>1
  <2>11. QED
    BY <2>3, <2>4, <2>9, <2>10
<1>5. At(E) = f[x] + At(E \ {x})
  <2>1. E \in SUBSET E /\ x \in E /\ Cardinality(E) \in Nat
    <3>1. IsFiniteSet(E)
      BY FS_AddElement
    <3>2. QED
      BY <3>1, FS_CardinalityType
  <2> HIDE DEF E
  <2>2. Cardinality(E) \notin Bad
    BY <1>4
  <2>3. QED
    BY <2>1, <2>2
<1>6. E \ {x} = D /\ f = [y \in E |-> f[y]]
  OBVIOUS
<1>7. QED
  BY <1>5, <1>6 DEF At, SumOf

\* Finitely many of them.
AreNumbers(f, T) == IsFiniteSet(T) /\ \A x \in T : f[x] \in Int

\* It is a number.
LEMMA TotalTyped == ASSUME NEW f, NEW T, AreNumbers(f, T) PROVE SumOf(f, T) \in Int
<1> DEFINE g == [x \in T |-> f[x]]
<1>1. g \in [T -> Int] /\ IsFiniteSet(T)
  BY DEF AreNumbers
<1> HIDE DEF g
<1>2. SumFunction(g) \in Int
  BY <1>1, SumTyped
<1>3. QED
  BY <1>2 DEF g, SumOf

\* No number.
LEMMA TotalNone == ASSUME NEW f PROVE SumOf(f, {}) = 0
<1> DEFINE g == [x \in {} |-> f[x]]
<1>1. g \in [{} -> Int]
  OBVIOUS
<1> HIDE DEF g
<1>2. SumFunction(g) = 0
  BY <1>1, SumNone
<1>3. QED
  BY <1>2 DEF g, SumOf

\* One number more.
LEMMA TotalNext ==
    ASSUME NEW f, NEW T, NEW x, x \notin T, AreNumbers(f, T), f[x] \in Int
    PROVE  SumOf(f, T \cup {x}) = f[x] + SumOf(f, T)
<1> DEFINE g == [y \in T \cup {x} |-> f[y]]
<1>1. g \in [T \cup {x} -> Int] /\ g[x] = f[x]
  BY DEF AreNumbers
<1>4. SumOf(g, T) = SumOf(f, T)
  <2>1. [y \in T |-> g[y]] = [y \in T |-> f[y]]
    OBVIOUS
  <2>2. QED
    BY <2>1 DEF SumOf
<1>2. IsFiniteSet(T) /\ x \notin T
  BY DEF AreNumbers
<1> HIDE DEF g
<1>3. SumFunction(g) = g[x] + SumOf(g, T)
  BY ONLY <1>1, <1>2, SumMore
<1>5. QED
  BY <1>1, <1>3, <1>4 DEF g, SumOf

\* The same numbers.
LEMMA TotalSame == ASSUME NEW f, NEW g, NEW T, \A x \in T : f[x] = g[x] PROVE SumOf(f, T) = SumOf(g, T)
<1>1. [x \in T |-> f[x]] = [x \in T |-> g[x]]
  OBVIOUS
<1>2. QED
  BY <1>1 DEF SumOf

\* A part of them.
LEMMA PartNumbers ==
    ASSUME NEW f, NEW T, AreNumbers(f, T), NEW U \in SUBSET T
    PROVE  AreNumbers(f, U)
  BY FS_Subset DEF AreNumbers

\* A number that is more by v.
LEMMA TotalChange ==
    ASSUME NEW K, NEW k \in K, NEW v \in Int, NEW g, NEW j, AreNumbers(g, K), AreNumbers(j, K),
           j[k] = g[k] + v, \A l \in K \ {k} : j[l] = g[l]
    PROVE  SumOf(j, K) = SumOf(g, K) + v
<1> DEFINE D == K \ {k}
<1>1. D \in SUBSET K /\ k \notin D /\ D \cup {k} = K /\ g[k] \in Int /\ j[k] \in Int
  BY DEF AreNumbers
<1>2. AreNumbers(g, D) /\ AreNumbers(j, D)
  BY <1>1, PartNumbers
<1>3. SumOf(j, D) = SumOf(g, D)
  BY TotalSame
<1> HIDE DEF D
<1>4. SumOf(g, K) = g[k] + SumOf(g, D) /\ SumOf(j, K) = j[k] + SumOf(j, D)
  BY <1>1, <1>2, TotalNext
<1>5. SumOf(g, D) \in Int
  BY <1>2, TotalTyped
<1>6. QED
  BY <1>1, <1>3, <1>4, <1>5

\* Nothings.
LEMMA TotalZero ==
    ASSUME NEW D, IsFiniteSet(D), NEW f, \A x \in D : f[x] = 0
    PROVE  SumOf(f, D) = 0
<1> DEFINE G == {T \in SUBSET D : SumOf(f, T) = 0}
<1>1. {} \in G
  BY TotalNone
<1>2. ASSUME NEW T \in SUBSET D, NEW x \in D \ T, T \in G
      PROVE  T \cup {x} \in G
  <2>1. AreNumbers(f, T) /\ f[x] = 0 /\ x \notin T
    BY FS_Subset DEF AreNumbers
  <2>2. SumOf(f, T \cup {x}) = 0
    BY <1>2, <2>1, TotalNext
  <2>3. QED
    BY <2>2
<1> HIDE DEF G
<1>3. D \in G
  BY <1>1, <1>2, Induction
<1>4. QED
  BY <1>3 DEF G

\* The numbers that have a key are added up, and the sums of all keys.
Having(E, h, k) == {e \in E : h[e] = k}
\* The sums by key.
ByKey(f, E, h, K) == [k \in K |-> SumOf(f, Having(E, h, k))]

\* It does not matter whether the numbers are added up by key first.
LEMMA TotalByKey ==
    ASSUME NEW E, NEW K, IsFiniteSet(K), NEW f, AreNumbers(f, E), NEW h, \A e \in E : h[e] \in K
    PROVE  AreNumbers(ByKey(f, E, h, K), K) /\ SumOf(f, E) = SumOf(ByKey(f, E, h, K), K)
<1> DEFINE G == {T \in SUBSET E : SumOf(f, T) = SumOf(ByKey(f, T, h, K), K)}
<1>1. ASSUME NEW T \in SUBSET E
      PROVE  /\ AreNumbers(f, T) /\ AreNumbers(ByKey(f, T, h, K), K)
             /\ \A k \in K : ByKey(f, T, h, K)[k] = SumOf(f, Having(T, h, k))
  <2>1. ASSUME NEW k \in K
        PROVE  SumOf(f, Having(T, h, k)) \in Int
    <3>1. Having(T, h, k) \in SUBSET E
      BY DEF Having
    <3>2. QED
      BY <3>1, PartNumbers, TotalTyped
  <2>2. QED
    BY <2>1, PartNumbers DEF AreNumbers, ByKey
<1>2. {} \in G
  <2>1. \A k \in K : Having({}, h, k) = {}
    BY DEF Having
  <2>2. \A k \in K : ByKey(f, {}, h, K)[k] = 0
    BY <2>1, TotalNone DEF ByKey
  <2>3. QED
    BY <2>2, TotalNone, TotalZero
<1>3. ASSUME NEW T \in SUBSET E, NEW x \in E \ T, T \in G
      PROVE  T \cup {x} \in G
  <2> DEFINE U == T \cup {x}
             k == h[x]
             g == ByKey(f, T, h, K)
             j == ByKey(f, U, h, K)
  <2>1. k \in K /\ f[x] \in Int /\ U \in SUBSET E /\ x \notin T
    BY DEF AreNumbers
  <2>2. Having(U, h, k) = Having(T, h, k) \cup {x} /\ x \notin Having(T, h, k)
    BY <2>1 DEF Having
  <2>3. \A l \in K \ {k} : Having(U, h, l) = Having(T, h, l)
    BY DEF Having
  <2>4. Having(T, h, k) \in SUBSET E
    BY DEF Having
  <2>5. SumOf(f, Having(U, h, k)) = f[x] + SumOf(f, Having(T, h, k))
    BY <2>1, <2>2, <2>4, PartNumbers, TotalNext
  <2>6. SumOf(f, U) = f[x] + SumOf(f, T)
    BY <1>1, <2>1, TotalNext
  <2>7. AreNumbers(g, K) /\ AreNumbers(j, K)
    BY <1>1, <2>1
  <2>8. g[k] = SumOf(f, Having(T, h, k)) /\ j[k] = SumOf(f, Having(U, h, k)) /\ g[k] \in Int
    BY <1>1, <2>1, <2>7 DEF AreNumbers
  <2>9. \A l \in K \ {k} : j[l] = g[l]
    BY <1>1, <2>1, <2>3
  <2> HIDE DEF k, g, j, U
  <2>10. j[k] = g[k] + f[x]
    BY <2>1, <2>5, <2>8
  <2>11. SumOf(j, K) = SumOf(g, K) + f[x]
    BY <2>1, <2>7, <2>9, <2>10, TotalChange
  <2>12. SumOf(f, T) = SumOf(g, K) /\ SumOf(g, K) \in Int
    BY <1>3, <2>7, TotalTyped DEF g
  <2>13. SumOf(f, U) = SumOf(j, K)
    BY <2>1, <2>6, <2>11, <2>12
  <2>14. QED
    BY <2>1, <2>13 DEF U, j
<1>4. E \in G
  <2>1. IsFiniteSet(E)
    BY DEF AreNumbers
  <2> HIDE DEF G
  <2>2. QED
    BY <1>2, <1>3, <2>1, Induction
<1>5. QED
  BY <1>1, <1>4

\* One number.
LEMMA TotalOne == ASSUME NEW f, NEW x, f[x] \in Int PROVE SumOf(f, {x}) = f[x]
<1>1. {} \cup {x} = {x} /\ x \notin {} /\ AreNumbers(f, {})
  BY FS_EmptySet DEF AreNumbers
<1>2. SumOf(f, {} \cup {x}) = f[x] + SumOf(f, {})
  BY <1>1, TotalNext
<1>3. QED
  BY <1>1, <1>2, TotalNone

\* Two sums.
LEMMA TotalJoin ==
    ASSUME NEW f, NEW C, NEW D, AreNumbers(f, C), AreNumbers(f, D), C \cap D = {}
    PROVE  AreNumbers(f, C \cup D) /\ SumOf(f, C \cup D) = SumOf(f, C) + SumOf(f, D)
<1> DEFINE G == {T \in SUBSET D : SumOf(f, C \cup T) = SumOf(f, C) + SumOf(f, T)}
<1>1. \A T \in SUBSET D : /\ AreNumbers(f, T) /\ AreNumbers(f, C \cup T)
                          /\ SumOf(f, T) \in Int /\ SumOf(f, C) \in Int
  <2>1. ASSUME NEW T \in SUBSET D
        PROVE  AreNumbers(f, T) /\ AreNumbers(f, C \cup T)
    BY PartNumbers, FS_Union DEF AreNumbers
  <2>2. QED
    BY <2>1, TotalTyped
<1>2. {} \in G
  <2>1. C \cup {} = C /\ {} \in SUBSET D
    OBVIOUS
  <2>2. QED
    BY <1>1, <2>1, TotalNone
<1>3. ASSUME NEW T \in SUBSET D, NEW x \in D \ T, T \in G
      PROVE  T \cup {x} \in G
  <2>1. x \notin T /\ x \notin C \cup T /\ f[x] \in Int /\ C \cup (T \cup {x}) = (C \cup T) \cup {x}
    BY DEF AreNumbers
  <2>2. SumOf(f, T \cup {x}) = f[x] + SumOf(f, T)
    BY <1>1, <2>1, TotalNext
  <2>3. SumOf(f, (C \cup T) \cup {x}) = f[x] + SumOf(f, C \cup T)
    BY <1>1, <2>1, TotalNext
  <2>4. SumOf(f, C \cup (T \cup {x})) = SumOf(f, C) + SumOf(f, T \cup {x})
    <3>1. SumOf(f, C \cup T) = SumOf(f, C) + SumOf(f, T)
      BY <1>3
    <3>2. SumOf(f, T) \in Int /\ SumOf(f, C) \in Int
      BY <1>1
    <3>3. SumOf(f, (C \cup T) \cup {x}) = SumOf(f, C) + SumOf(f, T \cup {x})
      BY ONLY <2>1, <2>2, <2>3, <3>1, <3>2
    <3>4. QED
      BY <2>1, <3>3
  <2>5. QED
    BY <2>4
<1>4. D \in G
  <2>1. IsFiniteSet(D)
    BY DEF AreNumbers
  <2> HIDE DEF G
  <2>2. QED
    BY <1>2, <1>3, <2>1, Induction
<1>5. QED
  BY <1>1, <1>4

\* What is left out may as well count as nothing.
LEMMA TotalWhere ==
    ASSUME NEW E, NEW P \in SUBSET E, NEW f, AreNumbers(f, P), IsFiniteSet(E),
           NEW w, \A e \in E : w[e] = IF e \in P THEN f[e] ELSE 0
    PROVE  AreNumbers(w, E) /\ SumOf(f, P) = SumOf(w, E)
<1> DEFINE D == E \ P
<1>1. P \cup D = E /\ P \cap D = {} /\ IsFiniteSet(D)
  BY FS_Subset
<1>2. AreNumbers(w, P) /\ AreNumbers(w, D) /\ SumOf(w, P) = SumOf(f, P)
  <2>1. \A x \in P : w[x] = f[x]
    OBVIOUS
  <2>2. QED
    BY <1>1, <2>1, TotalSame DEF AreNumbers
<1>3. SumOf(w, D) = 0
  BY <1>1, TotalZero
<1> HIDE DEF D
<1>4. SumOf(w, E) = SumOf(w, P) + SumOf(w, D) /\ AreNumbers(w, E)
  BY <1>1, <1>2, TotalJoin
<1>5. QED
  BY <1>2, <1>3, <1>4, TotalTyped

\* How many there are.
LEMMA TotalOnes ==
    ASSUME NEW E, IsFiniteSet(E), NEW f, \A x \in E : f[x] = 1
    PROVE  SumOf(f, E) = Cardinality(E)
<1> DEFINE G == {T \in SUBSET E : SumOf(f, T) = Cardinality(T)}
<1>1. {} \in G
  BY TotalNone, FS_EmptySet
<1>2. ASSUME NEW T \in SUBSET E, NEW x \in E \ T, T \in G
      PROVE  T \cup {x} \in G
  <2>1. AreNumbers(f, T) /\ f[x] = 1 /\ x \notin T
    BY FS_Subset DEF AreNumbers
  <2>2. SumOf(f, T \cup {x}) = 1 + SumOf(f, T)
    BY <2>1, TotalNext
  <2>3. Cardinality(T \cup {x}) = Cardinality(T) + 1 /\ Cardinality(T) \in Nat
    BY <2>1, FS_AddElement, FS_CardinalityType DEF AreNumbers
  <2>4. QED
    BY <1>2, <2>2, <2>3
<1> HIDE DEF G
<1>3. E \in G
  BY <1>1, <1>2, Induction
<1>4. QED
  BY <1>3 DEF G

\* In another order, under other names.
Renames(h, E, K) ==
    /\ \A e \in E : h[e] \in K
    /\ \A k \in K : \E e \in E : h[e] = k
    /\ \A d, e \in E : h[d] = h[e] => d = e

\* It does not matter what the numbers are called.
LEMMA TotalRenamed ==
    ASSUME NEW E, IsFiniteSet(E), NEW K, NEW f, AreNumbers(f, K), NEW h, Renames(h, E, K),
           NEW g, \A e \in E : g[e] = f[h[e]]
    PROVE  AreNumbers(g, E) /\ SumOf(g, E) = SumOf(f, K)
<1> USE DEF Renames
<1>1. AreNumbers(g, E) /\ IsFiniteSet(K)
  BY DEF AreNumbers
<1>2. ASSUME NEW k \in K
      PROVE  SumOf(g, Having(E, h, k)) = f[k]
  <2>1. PICK x \in E : h[x] = k
    OBVIOUS
  <2>2. Having(E, h, k) = {x} /\ g[x] = f[k] /\ g[x] \in Int
    BY <1>1, <2>1 DEF Having, AreNumbers
  <2>3. QED
    BY <2>2, TotalOne
<1>3. \A k \in K : ByKey(g, E, h, K)[k] = f[k]
  BY <1>2 DEF ByKey
<1>4. SumOf(g, E) = SumOf(ByKey(g, E, h, K), K)
  BY <1>1, TotalByKey
<1>5. QED
  BY <1>1, <1>3, <1>4, TotalSame

\* Some more than nothing, and none less.
LEMMA TotalPositive ==
    ASSUME NEW D, IsFiniteSet(D), NEW f, \A x \in D : f[x] \in Nat
    PROVE  SumOf(f, D) \in Nat /\ (SumOf(f, D) = 0 <=> \A x \in D : f[x] = 0)
<1> DEFINE G == {T \in SUBSET D : SumOf(f, T) \in Nat /\ (SumOf(f, T) = 0 => \A x \in T : f[x] = 0)}
<1>1. {} \in G
  BY TotalNone
<1>2. ASSUME NEW T \in SUBSET D, NEW x \in D \ T, T \in G
      PROVE  T \cup {x} \in G
  <2>1. AreNumbers(f, T) /\ f[x] \in Nat /\ x \notin T
    BY FS_Subset DEF AreNumbers
  <2>2. SumOf(f, T \cup {x}) = f[x] + SumOf(f, T)
    BY <2>1, TotalNext
  <2>3. QED
    BY <1>2, <2>1, <2>2
<1>3. D \in G
  <2> HIDE DEF G
  <2>1. QED
    BY <1>1, <1>2, Induction
<1>4. QED
  BY <1>3, TotalZero

-----------------------------------------------------------------------------
\* A set in whatever order.
Lists(o, S) ==
    /\ o \in Seq(S) /\ Len(o) = Cardinality(S)
    /\ \A x \in S : \E i \in 1 .. Len(o) : o[i] = x
    /\ \A i, j \in 1 .. Len(o) : o[i] = o[j] => i = j

\* One element more.
LEMMA ListsMore ==
    ASSUME NEW S, IsFiniteSet(S), NEW x \in S, NEW o, Lists(o, S \ {x})
    PROVE  Lists(Append(o, x), S)
<1> DEFINE T == S \ {x}
           p == Append(o, x)
<1>1. IsFiniteSet(T) /\ Cardinality(T) \in Nat /\ Cardinality(S) = Cardinality(T) + 1 /\ x \notin T
  BY FS_Subset, FS_RemoveElement, FS_CardinalityType
<1>2. o \in Seq(S) /\ Len(o) = Cardinality(T) /\ \A i \in 1 .. Len(o) : o[i] \in T
  BY DEF Lists
<1>3. /\ p \in Seq(S) /\ Len(p) = Len(o) + 1
      /\ p[Len(o) + 1] = x /\ \A i \in 1 .. Len(o) : p[i] = o[i]
  <2>1. x \in S /\ o \in Seq(S)
    BY <1>2
  <2>2. /\ Append(o, x) \in Seq(S) /\ Len(Append(o, x)) = Len(o) + 1
        /\ Append(o, x)[Len(o) + 1] = x
        /\ \A i \in 1 .. Len(o) : Append(o, x)[i] = o[i]
    BY ONLY <2>1, AppendProperties
  <2>3. QED
    BY <2>2
<1>4. \A y \in T : \E i \in 1 .. Len(o) : o[i] = y
  BY DEF Lists
<1>5. \A i, j \in 1 .. Len(o) : o[i] = o[j] => i = j
  BY DEF Lists
<1> HIDE DEF p
<1>6. \A y \in S : \E i \in 1 .. Len(p) : p[i] = y
  <2>1. ASSUME NEW y \in S
        PROVE  \E i \in 1 .. Len(p) : p[i] = y
    <3>1. CASE y = x
      <4>1. Len(o) + 1 \in 1 .. Len(p)
        BY <1>1, <1>2, <1>3
      <4>2. QED
        BY <1>3, <3>1, <4>1
    <3>2. CASE y # x
      <4>1. PICK i \in 1 .. Len(o) : o[i] = y
        BY <1>4, <3>2
      <4>2. i \in Nat /\ 1 <= i /\ i <= Len(o) /\ Len(o) \in Nat
        BY <1>1, <1>2, <4>1
      <4>4. i \in 1 .. Len(p)
        BY <1>3, <4>2
      <4>5. p[i] = y
        BY <1>3, <4>1
      <4>3. QED
        BY <4>4, <4>5
    <3>3. QED
      BY <3>1, <3>2
  <2>2. QED
    BY <2>1
<1>7. \A i, j \in 1 .. Len(p) : p[i] = p[j] => i = j
  <2>1. ASSUME NEW i \in 1 .. Len(p), NEW j \in 1 .. Len(p), p[i] = p[j]
        PROVE  i = j
    <3>1. Len(o) \in Nat
      BY <1>1, <1>2
    <3>2. \A k \in 1 .. Len(p) : k \in 1 .. Len(o) \/ k = Len(o) + 1
      BY <1>3, <3>1
    <3>3. \A k \in 1 .. Len(o) : p[k] # x
      BY <1>1, <1>2, <1>3
    <3>4. QED
      BY <1>3, <1>5, <2>1, <3>2, <3>3
  <2>2. QED
    BY <2>1
<1>8. Len(p) = Cardinality(S)
  BY <1>1, <1>2, <1>3
<1>9. Lists(p, S)
  BY <1>3, <1>6, <1>7, <1>8 DEF Lists
<1>10. QED
  BY <1>9 DEF p

\* How a list goes on.
Appended(D) == [p \in (SUBSET D) \X Seq(D) |-> Append(p[2], Pick(p[1]))]

\* A fold that appends makes such a list.
LEMMA FoldLists ==
    ASSUME NEW D, IsFiniteSet(D)
    PROVE  Lists(FoldSet(LAMBDA x, s : Append(s, x), <<>>, D), D)
<1> DEFINE h == Appended(D)
           F(g) == [s \in SUBSET D |-> IF s = {} THEN <<>> ELSE Append(g[s \ {Pick(s)}], Pick(s))]
           iter == CHOOSE g : g = F(g)
<1>1. \A s \in SUBSET D : s # {} => Pick(s) \in s /\ Pick(s) \in D /\ s \ {Pick(s)} \in SUBSET D
  BY DEF Pick
<1>2. ASSUME NEW s \in SUBSET D, s # {}, NEW v \in Seq(D)
      PROVE  h[<<s, v>>] = Append(v, Pick(s)) /\ h[<<s, v>>] \in Seq(D)
  <2>1. Pick(s) \in D
    BY <1>1, <1>2
  <2>2. h[<<s, v>>] = Append(v, Pick(s))
    BY DEF Appended
  <2>3. QED
    BY <2>1, <2>2
<1>3. PICK g \in [SUBSET D -> Seq(D)] : Folds(g, D, <<>>, h)
  <2>1. \A s \in SUBSET D : \A v \in Seq(D) : s # {} => h[<<s, v>>] \in Seq(D)
    BY <1>2
  <2>2. <<>> \in Seq(D)
    OBVIOUS
  <2> HIDE DEF h
  <2>3. \E g \in [SUBSET D -> Seq(D)] : Folds(g, D, <<>>, h)
    BY ONLY <2>1, <2>2, IsFiniteSet(D), FoldExists, Zenon
  <2>4. QED
    BY <2>3
<1>4. g = F(g)
  <2>1. ASSUME NEW s \in SUBSET D
        PROVE  g[s] = IF s = {} THEN <<>> ELSE Append(g[s \ {Pick(s)}], Pick(s))
    <3>1. CASE s = {}
      BY <1>3, <3>1 DEF Folds
    <3>2. CASE s # {}
      <4>1. g[s \ {Pick(s)}] \in Seq(D)
        BY <1>1, <3>2
      <4>2. g[s] = h[<<s, g[s \ {Pick(s)}]>>]
        BY <1>3, <3>2 DEF Folds
      <4>3. QED
        BY <1>2, <3>2, <4>1, <4>2
    <3>3. QED
      BY <3>1, <3>2
  <2>2. QED
    BY <2>1
<1>5. iter = F(iter)
  BY <1>4
<1>6. FoldSet(LAMBDA x, s : Append(s, x), <<>>, D) = iter[D]
  BY DEF FoldSet, MapThenFoldSet, Pick
<1> HIDE DEF iter
<1>7. \A s \in SUBSET D : iter[s] = IF s = {} THEN <<>> ELSE Append(iter[s \ {Pick(s)}], Pick(s))
  BY <1>5
<1> DEFINE Bad == {n \in Nat : \E s \in SUBSET D : Cardinality(s) = n /\ ~Lists(iter[s], s)}
<1>8. \A s \in SUBSET D : IsFiniteSet(s) /\ Cardinality(s) \in Nat
  BY FS_Subset, FS_CardinalityType
<1>9. ASSUME Bad # {} PROVE FALSE
  <2>1. PICK n \in Bad : \A m \in Bad : n <= m
    BY <1>9, LeastNumber
  <2>2. PICK s \in SUBSET D : Cardinality(s) = n /\ ~Lists(iter[s], s)
    BY <2>1
  <2>3. CASE s = {}
    <3>1. iter[s] = <<>> /\ Cardinality(s) = 0
      BY <1>7, <2>3, FS_EmptySet
    <3>2. QED
      BY <2>2, <2>3, <3>1 DEF Lists
  <2>4. CASE s # {}
    <3> DEFINE x == Pick(s)
    <3>1. x \in s /\ s \ {x} \in SUBSET D /\ iter[s] = Append(iter[s \ {x}], x)
      BY <1>1, <1>7, <2>4
    <3> HIDE DEF x
    <3>7. IsFiniteSet(s) /\ Cardinality(s \ {x}) \in Nat
      BY <1>8, <3>1
    <3>8. Cardinality(s \ {x}) = Cardinality(s) - 1
      BY <3>1, <3>7, FS_RemoveElement
    <3>2. Cardinality(s \ {x}) = n - 1 /\ n - 1 \in Nat
      BY <2>2, <3>7, <3>8
    <3>3. ~(n <= n - 1)
      BY <3>2
    <3>4. Lists(iter[s \ {x}], s \ {x})
      BY <2>1, <3>1, <3>2, <3>3
    <3>5. Lists(iter[s], s)
      BY <1>8, <3>1, <3>4, ListsMore
    <3>6. QED
      BY <2>2, <3>5
  <2>5. QED
    BY <2>3, <2>4
<1>10. D \in SUBSET D
  OBVIOUS
<1>11. QED
  BY <1>6, <1>8, <1>9, <1>10

-----------------------------------------------------------------------------
(***************************************************************************)
(* What rows add up to                                                     *)
(*                                                                         *)
(* A choice is a figure of the rows of a source, of some months and some   *)
(* parties. What the rows of an answer are worth in a choice is what the   *)
(* entries behind them are: a row is a sum over the entries with its key,  *)
(* which are all in the choice or all out of it.                           *)
(***************************************************************************)
\* The sum that the report makes, under the name that the module gives it.
LEMMA SameSum == ASSUME NEW f PROVE R!SumFunction(f) = SumFunction(f)
  BY DEF SumFunction, SumFunctionOnSet, FoldFunctionOnSet, MapThenFoldSet,
         R!SumFunction, R!SumFunctionOnSet, R!FoldFunctionOnSet, R!MapThenFoldSet

\* A field of each.
Field(E, field) == [e \in E |-> e[field]]

\* A sum of a field.
LEMMA SumIsTotal ==
    ASSUME NEW E, NEW field
    PROVE  R!Sum(E, field) = SumOf(Field(E, field), E)
<1>1. [x \in E |-> Field(E, field)[x]] = [e \in E |-> e[field]]
  BY DEF Field
<1>2. QED
  BY <1>1, SameSum DEF R!Sum, SumOf

\* Rows come in some order, each once.
LEMMA InOrderLists ==
    ASSUME NEW S, IsFiniteSet(S)
    PROVE  Lists(R!InOrder(S), S)
<1>1. R!InOrder(S) = FoldSet(LAMBDA x, s : Append(s, x), <<>>, S)
  BY DEF R!InOrder, R!FoldSet, R!MapThenFoldSet, FoldSet, MapThenFoldSet
<1>2. QED
  BY <1>1, FoldLists

\* The rows that the books can give.
RowsOf(books) ==
    [source : Sources, line : {e.line : e \in books} \cup {"cash_purchase"},
     party : {e.party : e \in books} \cup {""},
     count : Nat, month : Int, total : Int, tax : Int]

\* The sum of what the rows of a list are worth.
Worth(s, w) == SumOf([i \in DOMAIN s |-> w[s[i]]], DOMAIN s)

\* Each row is worth a number.
IsWorth(w, T) == \A r \in T : w[r] \in Int

\* Finitely many rows are worth a number.
LEMMA WorthTyped ==
    ASSUME NEW T, NEW w, IsWorth(w, T), NEW s \in Seq(T)
    PROVE  /\ DOMAIN s = 1 .. Len(s) /\ IsFiniteSet(DOMAIN s)
           /\ AreNumbers([i \in DOMAIN s |-> w[s[i]]], DOMAIN s)
           /\ Worth(s, w) \in Int
<1> DEFINE f == [i \in DOMAIN s |-> w[s[i]]]
<1>1. DOMAIN s = 1 .. Len(s) /\ Len(s) \in Nat /\ \A i \in DOMAIN s : s[i] \in T
  OBVIOUS
<1>2. IsFiniteSet(1 .. Len(s))
  BY <1>1, FS_Interval
<1>3. AreNumbers(f, DOMAIN s)
  BY <1>1, <1>2 DEF AreNumbers, IsWorth
<1>4. QED
  BY <1>1, <1>2, <1>3, TotalTyped DEF Worth

\* No row.
LEMMA WorthNone == ASSUME NEW w PROVE Worth(<<>>, w) = 0
<1>1. DOMAIN <<>> = {}
  OBVIOUS
<1>2. QED
  BY <1>1, TotalNone DEF Worth

\* Two lists.
LEMMA WorthJoin ==
    ASSUME NEW T, NEW w, IsWorth(w, T), NEW s \in Seq(T), NEW u \in Seq(T)
    PROVE  s \o u \in Seq(T) /\ Worth(s \o u, w) = Worth(s, w) + Worth(u, w)
<1> DEFINE v == s \o u
           f == [i \in DOMAIN v |-> w[v[i]]]
           g == [i \in DOMAIN s |-> w[s[i]]]
           h == [i \in DOMAIN u |-> w[u[i]]]
           C == 1 .. Len(s)
           D == (Len(s) + 1) .. (Len(s) + Len(u))
           move == [i \in D |-> i - Len(s)]
<1>1. /\ v \in Seq(T) /\ Len(v) = Len(s) + Len(u) /\ Len(s) \in Nat /\ Len(u) \in Nat
      /\ \A i \in C : v[i] = s[i]
      /\ \A i \in D : v[i] = u[i - Len(s)]
  <2>1. /\ v \in Seq(T) /\ Len(v) = Len(s) + Len(u) /\ Len(s) \in Nat /\ Len(u) \in Nat
        /\ \A i \in 1 .. Len(s) + Len(u) : v[i] = IF i <= Len(s) THEN s[i] ELSE u[i - Len(s)]
    BY ConcatProperties
  <2> HIDE DEF v
  <2>2. QED
    BY <2>1
<1> HIDE DEF v
<1>2. /\ AreNumbers(f, DOMAIN v) /\ DOMAIN v = 1 .. Len(v) /\ DOMAIN s = C
      /\ AreNumbers(h, DOMAIN u) /\ DOMAIN u = 1 .. Len(u)
  BY <1>1, WorthTyped
<1>3. C \cup D = DOMAIN v /\ C \cap D = {}
  BY <1>1, <1>2
<1>4. AreNumbers(f, C) /\ AreNumbers(f, D)
  BY <1>2, <1>3, PartNumbers
<1>9. /\ \A i \in C : f[i] = g[i]
      /\ \A i \in D : move[i] \in DOMAIN u /\ f[i] = h[move[i]]
      /\ \A k \in DOMAIN u : k + Len(s) \in D /\ move[k + Len(s)] = k
      /\ \A i, j \in D : move[i] = move[j] => i = j
  <2>1. \A i \in C : f[i] = g[i]
    BY <1>1, <1>2, <1>3
  <2>2. \A i \in D : move[i] \in DOMAIN u /\ f[i] = h[move[i]]
    BY <1>1, <1>2, <1>3
  <2>3. /\ \A k \in DOMAIN u : k + Len(s) \in D /\ move[k + Len(s)] = k
        /\ \A i, j \in D : move[i] = move[j] => i = j
    BY <1>1, <1>2
  <2>4. QED
    BY <2>1, <2>2, <2>3
<1> HIDE DEF C, D, f, g, h, move
<1>5. SumOf(f, DOMAIN v) = SumOf(f, C) + SumOf(f, D)
  <2>1. SumOf(f, C \cup D) = SumOf(f, C) + SumOf(f, D)
    BY <1>3, <1>4, TotalJoin
  <2>2. QED
    BY <1>3, <2>1
<1>6. SumOf(f, C) = SumOf(g, C)
  BY <1>9, TotalSame
<1>7. SumOf(f, D) = SumOf(h, DOMAIN u)
  <2>1. IsFiniteSet(D)
    BY <1>4 DEF AreNumbers
  <2>2. Renames(move, D, DOMAIN u) /\ \A i \in D : f[i] = h[move[i]]
    <3>1. \A k \in DOMAIN u : \E i \in D : move[i] = k
      BY <1>9
    <3>2. QED
      BY <1>9, <3>1 DEF Renames
  <2>3. QED
    BY <1>2, <2>1, <2>2, TotalRenamed
<1>8. QED
  BY <1>1, <1>2, <1>5, <1>6, <1>7 DEF Worth, f, g, h, v

\* What an entry counts for in a field of a row.
Figs == {"total", "tax", "count"}
\* Besides, how many rows there are.
AllFigs == Figs \cup {"rows"}
\* What an entry counts for.
Amounts(E, field) == [e \in E |-> IF field \in {"count", "rows"} THEN 1 ELSE e[field]]

\* The month of the row that an entry is in.
RowMonth(q, e) == R!MonthKey(IF q.source = "cash_purchase" THEN q.from ELSE e.day)

\* Books are finite, with numbers and days (BooksAssumption).
LEMMA BookFacts ==
    ASSUME NEW books \in Ledgers, NEW E \in SUBSET books
    PROVE  /\ IsFiniteSet(E)
           /\ \A e \in E : e.total \in Int /\ e.tax \in Int /\ e.day \in Nat
           /\ \A e \in E : e.line # "registry" => R!IsDay(e.day)
           /\ \A e \in E : e.line = "registry" => e.day = 0
           /\ \A field \in AllFigs : AreNumbers(Amounts(books, field), E)
<1>1. IsFiniteSet(E)
  BY BooksAssumption, FS_Subset
<1>2. ASSUME NEW e \in E
      PROVE  /\ e.total \in Int /\ e.tax \in Int
             /\ IF e.line = "registry" THEN e.day = 0 ELSE R!IsDay(e.day)
  <2>1. e \in books
    OBVIOUS
  <2>2. {e.total, e.tax} \subseteq Int /\ IF e.line = "registry" THEN e.day = 0 ELSE R!IsDay(e.day)
    BY <2>1, BooksAssumption
  <2>3. QED
    BY <2>2
<1>3. \A e \in E : e.day \in Nat
  BY <1>2, DayParts
<1>4. ASSUME NEW field \in AllFigs
      PROVE  AreNumbers(Amounts(books, field), E)
  <2>1. ASSUME NEW e \in E
        PROVE  Amounts(books, field)[e] \in Int
    <3>1. Amounts(books, field)[e] = IF field \in {"count", "rows"} THEN 1 ELSE e[field]
      BY DEF Amounts
    <3>2. CASE field = "total"
      BY <1>2, <3>1, <3>2
    <3>3. CASE field = "tax"
      BY <1>2, <3>1, <3>3
    <3>4. CASE field \in {"count", "rows"}
      BY <3>1, <3>4
    <3>5. QED
      BY <3>2, <3>3, <3>4 DEF AllFigs, Figs
  <2>2. QED
    BY <1>1, <2>1 DEF AreNumbers
<1>5. QED
  BY <1>1, <1>2, <1>3, <1>4

\* A row about some entries.
LEMMA RowFacts ==
    ASSUME NEW books \in Ledgers, NEW q, q.source \in Sources, q.from \in Nat,
           NEW E \in SUBSET books, E # {}
    PROVE  /\ R!Row(q, E) \in RowsOf(books)
           /\ R!Row(q, E).source = q.source
           /\ \A field \in Figs : R!Row(q, E)[field] = SumOf(Amounts(books, field), E)
           /\ \E e \in E : R!Row(q, E).party = e.party /\ R!Row(q, E).month = RowMonth(q, e)
<1> PICK e : e = CHOOSE x \in E : TRUE
  OBVIOUS
<1> PICK r : r = R!Row(q, E)
  OBVIOUS
<1> PICK month : month = RowMonth(q, e)
  OBVIOUS
<1>1. e \in E
  OBVIOUS
<1>2. r = [source |-> q.source, line |-> e.line, party |-> e.party, count |-> R!Cardinality(E),
           month |-> month, total |-> R!Sum(E, "total"), tax |-> R!Sum(E, "tax")]
  BY DEF R!Row, RowMonth
<1>3. R!Cardinality(E) = SumOf(Amounts(books, "count"), E) /\ R!Cardinality(E) \in Nat
  <2>1. IsFiniteSet(E)
    BY BookFacts
  <2>2. \A x \in E : Amounts(books, "count")[x] = 1
    BY DEF Amounts
  <2>3. QED
    BY <2>1, <2>2, TotalOnes, SameCardinality, FS_CardinalityType
<1>4. ASSUME NEW field \in {"total", "tax"}
      PROVE  R!Sum(E, field) = SumOf(Amounts(books, field), E) /\ R!Sum(E, field) \in Int
  <2>1. \A x \in E : Field(E, field)[x] = Amounts(books, field)[x]
    BY DEF Field, Amounts
  <2>2. AreNumbers(Amounts(books, field), E)
    BY BookFacts DEF AllFigs, Figs
  <2>3. QED
    BY <2>1, <2>2, SumIsTotal, TotalSame, TotalTyped
<1>5. month \in Int
  <2>1. e.day \in Nat
    BY <1>1, BookFacts
  <2>2. PICK d \in Nat : d = IF q.source = "cash_purchase" THEN q.from ELSE e.day
    BY <2>1
  <2>3. month = R!MonthKey(d)
    BY <2>2 DEF RowMonth
  <2>4. QED
    BY <2>3 DEF R!MonthKey
<1>6. e.line \in {x.line : x \in books} /\ e.party \in {x.party : x \in books}
  BY <1>1
<1>7. r \in RowsOf(books)
  <2>1. PICK line, name, n, x, y : /\ line = e.line /\ name = e.party /\ n = R!Cardinality(E)
                                   /\ x = R!Sum(E, "total") /\ y = R!Sum(E, "tax")
    OBVIOUS
  <2>2. /\ line \in {b.line : b \in books} \cup {"cash_purchase"}
        /\ name \in {b.party : b \in books} \cup {""}
        /\ n \in Nat /\ x \in Int /\ y \in Int
    BY <1>3, <1>4, <1>6, <2>1
  <2>3. r = [source |-> q.source, line |-> line, party |-> name, count |-> n,
             month |-> month, total |-> x, tax |-> y]
    BY <1>2, <2>1
  <2>4. QED
    BY ONLY q.source \in Sources, <1>5, <2>2, <2>3 DEF RowsOf
<1>8. r.source = q.source /\ r.party = e.party /\ r.month = month
  BY <1>2
<1>9. ASSUME NEW field \in Figs
      PROVE  r[field] = SumOf(Amounts(books, field), E)
  BY <1>2, <1>3, <1>4 DEF Figs
<1>10. QED
  BY <1>1, <1>7, <1>8, <1>9

\* The entries of a row are of one month, and of one party unless the row is a sum of
\* a month.
LEMMA KeyFacts ==
    ASSUME NEW q, NEW E, NEW k \in R!Keys(q, E)
    PROVE  /\ R!WithKey(q, E, k) \in SUBSET E /\ R!WithKey(q, E, k) # {}
           /\ \A d, e \in R!WithKey(q, E, k) :
                 /\ RowMonth(q, d) = RowMonth(q, e)
                 /\ q.source \notin {"card_sales", "cash_sales"} => d.party = e.party
<1>1. R!WithKey(q, E, k) \in SUBSET E /\ R!WithKey(q, E, k) # {}
  BY DEF R!WithKey, R!Keys
<1>2. \A e \in R!WithKey(q, E, k) : R!Key(q, e) = k
  BY DEF R!WithKey
<1>3. ASSUME NEW d \in R!WithKey(q, E, k), NEW e \in R!WithKey(q, E, k)
      PROVE  /\ RowMonth(q, d) = RowMonth(q, e)
             /\ q.source \notin {"card_sales", "cash_sales"} => d.party = e.party
  <2>1. R!Key(q, d) = R!Key(q, e)
    BY <1>2
  <2>2. CASE q.source = "cash_purchase"
    BY <2>1, <2>2 DEF R!Key, RowMonth
  <2>3. CASE q.source \in {"card_sales", "cash_sales"}
    <3>1. /\ R!Key(q, d) = <<R!MonthKey(d.day), d.line>>
          /\ R!Key(q, e) = <<R!MonthKey(e.day), e.line>>
      BY <2>3 DEF R!Key
    <3>2. R!MonthKey(d.day) = R!MonthKey(e.day)
      <4>1. PICK j, k1, l, m : /\ j = R!MonthKey(d.day) /\ k1 = d.line
                               /\ l = R!MonthKey(e.day) /\ m = e.line
        OBVIOUS
      <4>2. <<j, k1>> = <<l, m>>
        BY <2>1, <3>1, <4>1
      <4>3. j = l
        BY ONLY <4>2
      <4>4. QED
        BY <4>1, <4>3
    <3>3. QED
      BY <2>3, <3>2 DEF RowMonth
  <2>4. CASE q.source \notin {"cash_purchase", "card_sales", "cash_sales"}
    <3>1. R!Key(q, d) = d /\ R!Key(q, e) = e
      BY <2>4 DEF R!Key
    <3>2. QED
      BY <2>1, <3>1
  <2>5. QED
    BY <2>2, <2>3, <2>4
<1>4. QED
  BY <1>1, <1>3

\* If each row is worth what its entries are, the rows are.
LEMMA RowsWorth ==
    ASSUME NEW books \in Ledgers, NEW q, q.source \in Sources, q.from \in Nat,
           NEW E \in SUBSET books, NEW w, IsWorth(w, RowsOf(books)), NEW v, AreNumbers(v, E),
           \A k \in R!Keys(q, E) :
               w[R!Row(q, R!WithKey(q, E, k))] = SumOf(v, R!WithKey(q, E, k))
    PROVE  /\ R!RowsAbout(q, E) \in Seq(RowsOf(books))
           /\ Worth(R!RowsAbout(q, E), w) = SumOf(v, E)
           /\ R!RowsAbout(q, E) = <<>> => E = {}
<1> PICK K : K = R!Keys(q, E)
  OBVIOUS
<1> PICK o : o = R!InOrder(K)
  OBVIOUS
<1> PICK rows : rows = R!RowsAbout(q, E)
  OBVIOUS
<1> DEFINE h == [e \in E |-> R!Key(q, e)]
           byKey == ByKey(v, E, h, K)
           f == [i \in DOMAIN rows |-> w[rows[i]]]
<1>1. IsFiniteSet(E) /\ IsFiniteSet(K)
  <2>1. IsFiniteSet(E)
    BY BookFacts
  <2>2. h \in Surjection(E, K)
    BY DEF Surjection, R!Keys
  <2> HIDE DEF h
  <2>3. QED
    BY <2>1, <2>2, FS_Surjection
<1>2. Lists(o, K) /\ Cardinality(K) \in Nat
  BY <1>1, InOrderLists, FS_CardinalityType
<1>3. rows = [i \in 1 .. Cardinality(K) |-> R!Row(q, R!WithKey(q, E, o[i]))]
  BY SameCardinality DEF R!RowsAbout
<1>4. \A i \in 1 .. Cardinality(K) : o[i] \in K
  BY <1>2 DEF Lists
<1>5. \A k \in K : R!Row(q, R!WithKey(q, E, k)) \in RowsOf(books)
  <2>1. ASSUME NEW k \in K
        PROVE  R!Row(q, R!WithKey(q, E, k)) \in RowsOf(books)
    <3>1. R!WithKey(q, E, k) \in SUBSET books /\ R!WithKey(q, E, k) # {}
      BY KeyFacts
    <3>2. QED
      BY <3>1, RowFacts
  <2>2. QED
    BY <2>1
<1>6. rows \in Seq(RowsOf(books)) /\ Len(rows) = Cardinality(K) /\ DOMAIN rows = 1 .. Cardinality(K)
  BY <1>2, <1>3, <1>4, <1>5
<1>7. ASSUME NEW k \in K
      PROVE  byKey[k] = w[R!Row(q, R!WithKey(q, E, k))]
  <2>1. Having(E, h, k) = R!WithKey(q, E, k)
    BY DEF Having, R!WithKey
  <2>2. byKey[k] = SumOf(v, R!WithKey(q, E, k))
    BY <2>1 DEF ByKey
  <2>3. QED
    BY <2>2
<1>8. AreNumbers(byKey, K) /\ SumOf(v, E) = SumOf(byKey, K)
  <2>1. \A e \in E : h[e] \in K
    BY DEF R!Keys
  <2> HIDE DEF h
  <2>2. QED
    BY <1>1, <2>1, TotalByKey
<1>9. SumOf(f, DOMAIN rows) = SumOf(byKey, K)
  <2>1. Renames(o, DOMAIN rows, K)
    BY <1>2, <1>4, <1>6 DEF Renames, Lists
  <2>2. \A i \in DOMAIN rows : f[i] = byKey[o[i]]
    <3> HIDE DEF byKey
    <3>1. QED
      BY <1>3, <1>4, <1>6, <1>7
  <2>3. IsFiniteSet(DOMAIN rows)
    BY <1>2, <1>6, FS_Interval
  <2> HIDE DEF f, byKey
  <2>4. QED
    BY <1>8, <2>1, <2>2, <2>3, TotalRenamed
<1>10. rows = <<>> => E = {}
  <2>1. rows = <<>> => Cardinality(K) = 0
    BY <1>2, <1>6
  <2>2. Cardinality(K) = 0 => K = {}
    BY <1>1, FS_EmptySet
  <2>3. K = {} => E = {}
    BY DEF R!Keys
  <2>4. QED
    BY <2>1, <2>2, <2>3
<1>11. QED
  BY <1>6, <1>8, <1>9, <1>10 DEF Worth

\* What is taken of rows, and of entries: a figure of those of a source, of some months
\* and some parties.
AllNames(books) == {e.party : e \in books} \cup {""}

\* Which choices make sense: rows are entries only of the lists of invoices; other rows,
\* as sums of a month, are of no party of their own.
IsChoice(books, src, ks, ps, field) ==
    /\ field \in AllFigs
    /\ field = "rows" => src \in {"sales", "purchases"}
    /\ src \in {"sales", "purchases"} \/ AllNames(books) \subseteq ps

\* What a row counts for in a choice.
Weight(books, src, ks, ps, field) ==
    [r \in RowsOf(books) |->
        IF r.source = src /\ r.month \in ks /\ r.party \in ps
        THEN (IF field = "rows" THEN 1 ELSE r[field]) ELSE 0]

\* The entries that it counts.
Chosen(E, q, src, ks, ps) ==
    {e \in E : q.source = src /\ RowMonth(q, e) \in ks /\ e.party \in ps}

\* That is a number.
LEMMA WeightTyped ==
    ASSUME NEW books, NEW src, NEW ks, NEW ps, NEW field, IsChoice(books, src, ks, ps, field)
    PROVE  IsWorth(Weight(books, src, ks, ps, field), RowsOf(books))
<1>1. ASSUME NEW r \in RowsOf(books), NEW f \in Figs
      PROVE  r[f] \in Int
  <2>1. PICK S, L, P : r \in [source : S, line : L, party : P, count : Nat, month : Int,
                              total : Int, tax : Int]
    BY DEF RowsOf
  <2>2. r.total \in Int /\ r.tax \in Int /\ r.count \in Nat
    BY ONLY <2>1
  <2>3. QED
    BY <2>2 DEF Figs
<1>2. field = "rows" \/ field \in Figs
  BY DEF IsChoice, AllFigs
<1>3. QED
  BY <1>1, <1>2 DEF IsWorth, Weight

\* A row is worth what its entries are.
LEMMA RowWorth ==
    ASSUME NEW books \in Ledgers, NEW q, q.source \in Sources, q.from \in Nat,
           NEW E \in SUBSET books, NEW k \in R!Keys(q, E),
           NEW src, NEW ks, NEW ps, NEW field, IsChoice(books, src, ks, ps, field),
           NEW v, \A e \in E : v[e] = IF e \in Chosen(E, q, src, ks, ps)
                                      THEN Amounts(books, field)[e] ELSE 0
    PROVE  Weight(books, src, ks, ps, field)[R!Row(q, R!WithKey(q, E, k))]
             = SumOf(v, R!WithKey(q, E, k))
<1> PICK F : F = R!WithKey(q, E, k)
  OBVIOUS
<1> PICK r : r = R!Row(q, F)
  OBVIOUS
<1> PICK amounts : amounts = Amounts(books, field)
  OBVIOUS
<1>1. /\ F \in SUBSET E /\ F \in SUBSET books /\ F # {}
      /\ \A d, e \in F : /\ RowMonth(q, d) = RowMonth(q, e)
                         /\ q.source \notin {"card_sales", "cash_sales"} => d.party = e.party
  BY KeyFacts
<1>2. PICK e \in F : r.party = e.party /\ r.month = RowMonth(q, e)
  BY <1>1, RowFacts
<1>3. r \in RowsOf(books) /\ r.source = q.source /\ \A f \in Figs : r[f] = SumOf(Amounts(books, f), F)
  BY <1>1, RowFacts
<1>4. IsFiniteSet(F) /\ AreNumbers(amounts, F)
  BY <1>1, BookFacts DEF IsChoice
<1> DEFINE cond == q.source = src /\ RowMonth(q, e) \in ks /\ e.party \in ps
<1>5. ASSUME NEW d \in F
      PROVE  v[d] = IF cond THEN amounts[d] ELSE 0
  <2>1. d \in E /\ RowMonth(q, d) = RowMonth(q, e)
    BY <1>1, <1>2
  <2>2. q.source = src => (d.party \in ps <=> e.party \in ps)
    <3>1. CASE src \in {"sales", "purchases"}
      BY <1>1, <1>2, <3>1
    <3>2. CASE src \notin {"sales", "purchases"}
      BY <1>1, <1>2, <3>2 DEF IsChoice, AllNames
    <3>3. QED
      BY <3>1, <3>2
  <2>3. d \in Chosen(E, q, src, ks, ps) <=> cond
    BY <2>1, <2>2 DEF Chosen
  <2>4. QED
    BY <2>1, <2>3
<1>6. Weight(books, src, ks, ps, field)[r] = IF cond THEN (IF field = "rows" THEN 1 ELSE r[field]) ELSE 0
  BY <1>2, <1>3 DEF Weight
<1>7. CASE ~cond
  <2>1. SumOf(v, F) = 0
    BY <1>4, <1>5, <1>7, TotalZero
  <2>2. QED
    BY <1>6, <1>7, <2>1
<1>8. CASE cond
  <2>1. SumOf(v, F) = SumOf(amounts, F)
    BY <1>5, <1>8, TotalSame
  <2>2. CASE field \in Figs
    <3>1. field # "rows"
      BY <2>2 DEF Figs
    <3>2. QED
      BY <1>3, <1>6, <1>8, <2>1, <2>2, <3>1
  <2>3. CASE field = "rows"
    <3>1. q.source \in {"sales", "purchases"}
      BY <1>8, <2>3 DEF IsChoice
    <3>2. \A d \in F : R!Key(q, d) = d /\ R!Key(q, d) = k
      BY <3>1 DEF R!Key, R!WithKey
    <3>3. F = {e}
      BY <1>2, <3>2
    <3>4. amounts[e] = 1
      BY <1>1, <2>3 DEF Amounts
    <3>5. SumOf(amounts, F) = 1
      BY <3>3, <3>4, TotalOne
    <3>6. QED
      BY <1>6, <1>8, <2>1, <2>3, <3>5
  <2>4. QED
    BY <2>2, <2>3 DEF IsChoice, AllFigs
<1>9. QED
  BY <1>7, <1>8

\* So are the rows about some entries, what these are.
LEMMA RowsCount ==
    ASSUME NEW books \in Ledgers, NEW q, q.source \in Sources, q.from \in Nat,
           NEW E \in SUBSET books,
           NEW src, NEW ks, NEW ps, NEW field, IsChoice(books, src, ks, ps, field)
    PROVE  /\ R!RowsAbout(q, E) \in Seq(RowsOf(books))
           /\ Worth(R!RowsAbout(q, E), Weight(books, src, ks, ps, field))
                = SumOf(Amounts(books, field), Chosen(E, q, src, ks, ps))
           /\ R!RowsAbout(q, E) = <<>> => E = {}
<1> PICK amounts : amounts = Amounts(books, field)
  OBVIOUS
<1> PICK w : w = Weight(books, src, ks, ps, field)
  OBVIOUS
<1> PICK C : C = Chosen(E, q, src, ks, ps)
  OBVIOUS
<1>1. PICK v : v = [e \in E |-> IF e \in C THEN amounts[e] ELSE 0]
  OBVIOUS
<1>2. C \in SUBSET E /\ IsFiniteSet(E) /\ AreNumbers(amounts, C)
  <2>1. C \in SUBSET E
    BY DEF Chosen
  <2>2. QED
    BY <2>1, BookFacts DEF IsChoice
<1>3. \A e \in E : v[e] = IF e \in C THEN amounts[e] ELSE 0
  BY <1>1
<1>4. AreNumbers(v, E) /\ SumOf(amounts, C) = SumOf(v, E)
  BY ONLY <1>2, <1>3, TotalWhere
<1>5. \A k \in R!Keys(q, E) : w[R!Row(q, R!WithKey(q, E, k))] = SumOf(v, R!WithKey(q, E, k))
  BY <1>3, RowWorth
<1>6. IsWorth(w, RowsOf(books))
  BY WeightTyped
<1>7. QED
  BY <1>4, <1>5, <1>6, RowsWorth

\* What an answer counts of the entries: a total of cash purchases, those that it names.
Behind(src) == IF src \in R!Breakdowns THEN "cash_purchase" ELSE src
\* A total is that of the query for the ones that it names.
Asking(q, src) == IF src \in R!Breakdowns THEN [q EXCEPT !.deduction = R!Counts(src)] ELSE q
\* The entries that an answer to a query counts.
Counted(books, q, t, src, ks, ps) == Chosen(R!Found(books, Asking(q, src), t), q, Behind(src), ks, ps)

\* One row.
LEMMA WorthOne ==
    ASSUME NEW T, NEW w, IsWorth(w, T), NEW r \in T
    PROVE  <<r>> \in Seq(T) /\ Worth(<<r>>, w) = w[r]
<1> DEFINE f == [i \in DOMAIN <<r>> |-> w[<<r>>[i]]]
<1>1. DOMAIN <<r>> = {1} /\ f[1] = w[r] /\ w[r] \in Int /\ <<r>> \in Seq(T)
  BY DEF IsWorth
<1> HIDE DEF f
<1>2. SumOf(f, {1}) = w[r]
  BY <1>1, TotalOne
<1>3. QED
  BY <1>1, <1>2 DEF Worth, f

\* A list in two pieces.
LEMMA Pieces ==
    ASSUME NEW T, NEW s \in Seq(T), NEW i \in 0 .. Len(s)
    PROVE  /\ SubSeq(s, 1, i) \in Seq(T) /\ SubSeq(s, i + 1, Len(s)) \in Seq(T)
           /\ SubSeq(s, 1, i) \o SubSeq(s, i + 1, Len(s)) = s
<1>0. Len(s) \in Nat /\ i \in Nat /\ i <= Len(s) /\ \A n \in 1 .. Len(s) : s[n] \in T
  OBVIOUS
<1>1. SubSeq(s, 1, i) \in Seq(T) /\ SubSeq(s, i + 1, Len(s)) \in Seq(T)
  <2>1. (\A n \in 1 .. i : s[n] \in T) /\ (\A n \in i + 1 .. Len(s) : s[n] \in T)
    BY <1>0
  <2>2. 1 \in Int /\ i \in Int /\ i + 1 \in Int /\ Len(s) \in Int
    BY <1>0
  <2>3. QED
    BY ONLY <2>1, <2>2, SubSeqProperties
<1>2. SubSeq(s, 1, i) \o SubSeq(s, i + 1, Len(s)) = SubSeq(s, 1, Len(s))
  <2>1. 1 \in 1 .. Len(s) + 1 /\ i \in 1 - 1 .. Len(s) /\ Len(s) \in i .. Len(s)
    BY <1>0
  <2>2. QED
    BY ONLY s \in Seq(T), <2>1, ConcatAdjacentSubSeq
<1>3. SubSeq(s, 1, Len(s)) = s
  BY SubSeqFull
<1>4. QED
  BY <1>1, <1>2, <1>3

\* A reply is of the source that was asked for.
LEMMA RowsHaveSource ==
    ASSUME NEW q, NEW E
    PROVE  \A i \in DOMAIN R!RowsAbout(q, E) : R!RowsAbout(q, E)[i].source = q.source
<1> PICK order : order = R!InOrder(R!Keys(q, E))
  OBVIOUS
<1> DEFINE row(i) == R!Row(q, R!WithKey(q, E, order[i]))
<1>1. R!RowsAbout(q, E) = [i \in 1 .. R!Cardinality(R!Keys(q, E)) |-> row(i)]
  BY DEF R!RowsAbout
<1>2. \A i : row(i).source = q.source
  BY DEF R!Row
<1> HIDE DEF row
<1>3. QED
  BY <1>1, <1>2

\* One of the totals that come with the pages.
LEMMA TotalWorth ==
    ASSUME NEW books \in Ledgers, NEW q \in Queries, q.source = "cash_purchase", NEW t,
           NEW total \in R!Breakdowns,
           NEW src, NEW ks, NEW ps, NEW field, IsChoice(books, src, ks, ps, field)
    PROVE  /\ <<TotalAt(books, total, q, t)>> \in Seq(RowsOf(books))
           /\ Worth(<<TotalAt(books, total, q, t)>>, Weight(books, src, ks, ps, field))
                = IF src = total
                  THEN SumOf(Amounts(books, field), Counted(books, q, t, src, ks, ps)) ELSE 0
<1> PICK w : w = Weight(books, src, ks, ps, field)
  OBVIOUS
<1> PICK amounts : amounts = Amounts(books, field)
  OBVIOUS
<1> PICK C : C = Counted(books, q, t, src, ks, ps)
  OBVIOUS
<1> PICK G : G = R!Found(books, [q EXCEPT !.deduction = R!Counts(total)], t)
  OBVIOUS
<1> PICK b : b = TotalAt(books, total, q, t)
  OBVIOUS
<1>1. IsWorth(w, RowsOf(books)) /\ b = R!BreakdownOf(total, q, G)
  BY WeightTyped DEF TotalAt
<1>2. G \in SUBSET books
  BY DEF R!Found
<1>3. PICK n, x, y, m : /\ n = R!Cardinality(G) /\ x = R!Sum(G, "total") /\ y = R!Sum(G, "tax")
                        /\ m = R!MonthKey(q.from)
  OBVIOUS
<1>4. b = [source |-> total, line |-> "cash_purchase", party |-> "", count |-> n,
           month |-> m, total |-> x, tax |-> y]
  BY <1>1, <1>3 DEF R!BreakdownOf
<1>5. n = SumOf(Amounts(books, "count"), G) /\ n \in Nat
  <2>1. IsFiniteSet(G)
    BY <1>2, BookFacts
  <2>2. \A e \in G : Amounts(books, "count")[e] = 1
    BY <1>2 DEF Amounts
  <2>3. QED
    BY <1>3, <2>1, <2>2, TotalOnes, SameCardinality, FS_CardinalityType
<1>6. ASSUME NEW f \in {"total", "tax"}
      PROVE  R!Sum(G, f) = SumOf(Amounts(books, f), G) /\ R!Sum(G, f) \in Int
  <2>1. \A e \in G : Field(G, f)[e] = Amounts(books, f)[e]
    BY <1>2 DEF Field, Amounts
  <2>2. AreNumbers(Amounts(books, f), G)
    BY <1>2, BookFacts DEF AllFigs, Figs
  <2>3. R!Sum(G, f) = SumOf(Field(G, f), G)
    BY ONLY SumIsTotal
  <2>4. SumOf(Field(G, f), G) = SumOf(Amounts(books, f), G)
    BY ONLY <2>1, TotalSame
  <2>5. QED
    BY ONLY <2>2, <2>3, <2>4, TotalTyped
<1>7. m \in Int
  <2>1. q.from \in Nat
    BY DEF Queries
  <2>2. QED
    BY <1>3, <2>1 DEF R!MonthKey
<1>8. b \in RowsOf(books)
  <2>1. x \in Int /\ y \in Int
    BY <1>3, <1>6
  <2>2. total \in Sources
    BY DEF Sources
  <2>3. QED
    BY ONLY <1>4, <1>5, <1>7, <2>1, <2>2 DEF RowsOf
<1>9. <<b>> \in Seq(RowsOf(books)) /\ Worth(<<b>>, w) = w[b]
  BY <1>1, <1>8, WorthOne
<1>10. b.source = total /\ b.month = m /\ b.party = ""
  BY ONLY <1>4
<1>11. CASE src # total
  BY <1>1, <1>8, <1>9, <1>10, <1>11 DEF Weight
<1>12. CASE src = total
  <2>1. field \in Figs /\ AllNames(books) \subseteq ps /\ field # "rows"
    BY <1>12 DEF IsChoice, AllFigs, Figs, R!Breakdowns
  <2>2. w[b] = IF m \in ks THEN b[field] ELSE 0
    BY <1>8, <1>10, <1>12, <2>1 DEF Weight, AllNames
  <2>3. b[field] = SumOf(amounts, G)
    <3>1. b.count = n /\ b.total = x /\ b.tax = y
      BY ONLY <1>4
    <3>2. x = SumOf(Amounts(books, "total"), G) /\ y = SumOf(Amounts(books, "tax"), G)
      BY <1>3, <1>6
    <3>3. field \in {"total", "tax", "count"}
      BY <2>1 DEF Figs
    <3>4. QED
      BY ONLY <1>5, <3>1, <3>2, <3>3, amounts = Amounts(books, field)
  <2>4. C = IF m \in ks THEN G ELSE {}
    <3>1. \A e \in G : RowMonth(q, e) = m /\ e.party \in ps
      BY <1>2, <1>3, <2>1 DEF RowMonth, AllNames
    <3>2. C = {e \in G : RowMonth(q, e) \in ks /\ e.party \in ps}
      BY <1>12 DEF Counted, Chosen, Behind, Asking
    <3>3. QED
      BY <3>1, <3>2
  <2>5. SumOf(amounts, {}) = 0
    BY TotalNone
  <2>6. QED
    BY <1>1, <1>9, <1>12, <2>2, <2>3, <2>4, <2>5
<1>13. QED
  BY <1>11, <1>12

\* Two rows in a list.
LEMMA TwoRows ==
    ASSUME NEW T, NEW a, NEW b, <<a>> \in Seq(T), <<b>> \in Seq(T)
    PROVE  <<a>> \o <<b>> = <<a, b>>
<1>1. a \in T /\ b \in T
  <2>1. <<a>>[1] = a /\ <<b>>[1] = b /\ 1 \in 1 .. Len(<<a>>) /\ 1 \in 1 .. Len(<<b>>)
    OBVIOUS
  <2>2. QED
    BY <2>1, ElementOfSeq
<1> PICK s, u, v : s = <<a>> /\ u = <<b>> /\ v = <<a, b>>
  OBVIOUS
<1>3. /\ Len(s) = 1 /\ Len(u) = 1 /\ Len(v) = 2 /\ v \in Seq(T) /\ s \in Seq(T) /\ u \in Seq(T)
      /\ s[1] = a /\ u[1] = b /\ v[1] = a /\ v[2] = b
  BY <1>1
<1> PICK x : x = s \o u
  OBVIOUS
<1>4. x \in Seq(T) /\ Len(x) = 2 /\ x[1] = v[1] /\ x[2] = v[2]
  <2>1. /\ s \o u \in Seq(T) /\ Len(s \o u) = 1 + 1
        /\ \A i \in 1 .. 1 + 1 : (s \o u)[i] = IF i <= 1 THEN s[i] ELSE u[i - 1]
    BY <1>3, ConcatProperties
  <2>2. (s \o u)[1] = v[1]
    BY <1>3, <2>1
  <2>3. (s \o u)[2] = v[2]
    BY <1>3, <2>1
  <2>4. QED
    BY <2>1, <2>2, <2>3
<1>5. x \in Seq(T) /\ v \in Seq(T) /\ Len(x) = Len(v) /\ \A i \in 1 .. Len(x) : x[i] = v[i]
  <2>1. ASSUME NEW i \in 1 .. 2
        PROVE  x[i] = v[i]
    <3>1. i = 1 \/ i = 2
      OBVIOUS
    <3>2. QED
      BY <1>4, <3>1
  <2>2. Len(x) = 2 /\ Len(v) = 2 /\ x \in Seq(T) /\ v \in Seq(T)
    BY <1>3, <1>4
  <2>3. QED
    BY <2>1, <2>2
<1>6. x = v
  BY ONLY <1>5, SeqEqual
<1>7. QED
  BY <1>6

\* The totals that come with the pages.
LEMMA TotalsWorth ==
    ASSUME NEW books \in Ledgers, NEW q \in Queries, NEW t,
           NEW src, NEW ks, NEW ps, NEW field, IsChoice(books, src, ks, ps, field)
    PROVE  /\ Totals(books, q, t) \in Seq(RowsOf(books))
           /\ Worth(Totals(books, q, t), Weight(books, src, ks, ps, field))
                = IF src \in R!Breakdowns
                  THEN SumOf(Amounts(books, field), Counted(books, q, t, src, ks, ps)) ELSE 0
<1> PICK T : T = RowsOf(books)
  OBVIOUS
<1> PICK w : w = Weight(books, src, ks, ps, field)
  OBVIOUS
<1> PICK sum : sum = SumOf(Amounts(books, field), Counted(books, q, t, src, ks, ps))
  OBVIOUS
<1>1. IsWorth(w, T)
  BY WeightTyped
<1>2. CASE q.source # "cash_purchase"
  <2>1. Totals(books, q, t) = <<>>
    BY <1>2 DEF Totals
  <2>2. src \in R!Breakdowns => Counted(books, q, t, src, ks, ps) = {}
    BY <1>2 DEF Counted, Chosen, Behind
  <2>3. SumOf(Amounts(books, field), {}) = 0
    BY TotalNone
  <2>4. <<>> \in Seq(T) /\ Worth(<<>>, w) = 0
    BY WorthNone
  <2>5. QED
    BY <2>1, <2>2, <2>3, <2>4
<1>3. CASE q.source = "cash_purchase"
  <2> PICK a, b : a = TotalAt(books, "eligible_total", q, t) /\ b = TotalAt(books, "deductible_total", q, t)
    OBVIOUS
  <2>1. Totals(books, q, t) = <<a, b>>
    BY <1>3 DEF Totals
  <2>2. \A total \in R!Breakdowns :
           /\ <<TotalAt(books, total, q, t)>> \in Seq(T)
           /\ Worth(<<TotalAt(books, total, q, t)>>, w) = IF src = total THEN sum ELSE 0
    BY <1>3, TotalWorth
  <2>3. R!Breakdowns = {"eligible_total", "deductible_total"}
    BY DEF R!Breakdowns
  <2>4. /\ <<a>> \in Seq(T) /\ <<b>> \in Seq(T)
        /\ Worth(<<a>>, w) = IF src = "eligible_total" THEN sum ELSE 0
        /\ Worth(<<b>>, w) = IF src = "deductible_total" THEN sum ELSE 0
    BY <2>2, <2>3
  <2>5. PICK c, d : c = <<a>> /\ d = <<b>>
    OBVIOUS
  <2>0. c \o d = <<a, b>>
    BY <2>4, <2>5, TwoRows
  <2>6. c \in Seq(T) /\ d \in Seq(T)
    BY <2>4, <2>5
  <2>7. c \o d \in Seq(T) /\ Worth(c \o d, w) = Worth(c, w) + Worth(d, w)
    BY ONLY <1>1, <2>6, WorthJoin
  <2>8. /\ Worth(c, w) = IF src = "eligible_total" THEN sum ELSE 0
        /\ Worth(d, w) = IF src = "deductible_total" THEN sum ELSE 0
        /\ Worth(c, w) \in Int /\ Worth(d, w) \in Int
    <3>1. Worth(c, w) \in Int /\ Worth(d, w) \in Int
      BY ONLY <1>1, <2>6, WorthTyped
    <3>2. QED
      BY <2>4, <2>5, <3>1
  <2>9. Worth(c, w) + Worth(d, w) = IF src \in R!Breakdowns THEN sum ELSE 0
    <3>1. "eligible_total" # "deductible_total"
      OBVIOUS
    <3>2. QED
      BY ONLY <2>3, <2>8, <3>1
  <2>10. Worth(Totals(books, q, t), w) = IF src \in R!Breakdowns THEN sum ELSE 0
    BY <2>0, <2>1, <2>7, <2>9
  <2>11. QED
    BY <2>0, <2>1, <2>7, <2>10
<1>4. QED
  BY <1>2, <1>3

\* A list and the total that came between.
LEMMA ListWorth ==
    ASSUME NEW books \in Ledgers, NEW q \in Queries, q.source \notin R!Breakdowns, NEW t,
           NEW src, NEW ks, NEW ps, NEW field, IsChoice(books, src, ks, ps, field),
           NEW a, IsList(a, books, q, t)
    PROVE  /\ a \in Seq(RowsOf(books))
           /\ Worth(a, Weight(books, src, ks, ps, field))
                = SumOf(Amounts(books, field), Counted(books, q, t, src, ks, ps))
<1> PICK w : w = Weight(books, src, ks, ps, field)
  OBVIOUS
<1> PICK amounts : amounts = Amounts(books, field)
  OBVIOUS
<1> PICK T : T = RowsOf(books)
  OBVIOUS
<1> PICK F : F = R!Found(books, q, t)
  OBVIOUS
<1> PICK rows : rows = All(books, q, t)
  OBVIOUS
<1> PICK total : total = Totals(books, q, t)
  OBVIOUS
<1>1. IsWorth(w, T)
  BY WeightTyped
<1>2. F \in SUBSET books /\ q.source \in Sources /\ q.from \in Nat
  BY DEF R!Found, Queries
<1>3. rows \in Seq(T) /\ Worth(rows, w) = SumOf(amounts, Chosen(F, q, src, ks, ps))
  BY <1>2, RowsCount DEF All
<1>4. /\ total \in Seq(T)
      /\ Worth(total, w) = IF src \in R!Breakdowns
                           THEN SumOf(amounts, Counted(books, q, t, src, ks, ps)) ELSE 0
  BY TotalsWorth
<1>5. PICK i \in 0 .. Len(rows) :
        a = (SubSeq(rows, 1, i) \o total) \o SubSeq(rows, i + 1, Len(rows))
  BY DEF IsList
<1>6. PICK b, c : b = SubSeq(rows, 1, i) /\ c = SubSeq(rows, i + 1, Len(rows))
  OBVIOUS
<1>7. b \in Seq(T) /\ c \in Seq(T) /\ b \o c = rows
  BY ONLY <1>3, <1>5, <1>6, Pieces
<1>8. Worth(rows, w) = Worth(b, w) + Worth(c, w)
  BY ONLY <1>1, <1>7, WorthJoin
<1>9. b \o total \in Seq(T) /\ Worth(b \o total, w) = Worth(b, w) + Worth(total, w)
  BY ONLY <1>1, <1>4, <1>7, WorthJoin
<1>10. a \in Seq(T) /\ Worth(a, w) = Worth(b \o total, w) + Worth(c, w)
  <2>1. PICK d : d = b \o total
    OBVIOUS
  <2>2. d \in Seq(T) /\ a = d \o c
    BY <1>5, <1>6, <1>9, <2>1
  <2>3. QED
    BY ONLY <1>1, <1>7, <2>1, <2>2, WorthJoin
<1>11. Worth(b, w) \in Int /\ Worth(c, w) \in Int /\ Worth(total, w) \in Int
  BY ONLY <1>1, <1>4, <1>7, WorthTyped
<1>12. Worth(a, w) = Worth(rows, w) + Worth(total, w)
  BY ONLY <1>8, <1>9, <1>10, <1>11
<1>13. CASE src \notin R!Breakdowns
  <2>1. Counted(books, q, t, src, ks, ps) = Chosen(F, q, src, ks, ps)
    BY <1>13 DEF Counted, Behind, Asking
  <2>2. Worth(rows, w) \in Int
    BY ONLY <1>8, <1>11
  <2>3. QED
    BY <1>3, <1>4, <1>10, <1>12, <1>13, <2>1, <2>2
<1>14. CASE src \in R!Breakdowns
  <2>1. Chosen(F, q, src, ks, ps) = {}
    BY <1>14 DEF Chosen
  <2>2. SumOf(amounts, {}) = 0
    BY TotalNone
  <2>3. Worth(rows, w) = 0
    BY <1>3, <2>1, <2>2
  <2>4. QED
    BY <1>4, <1>10, <1>11, <1>12, <1>14, <2>3
<1>15. QED
  BY <1>13, <1>14

\* What a summary counts of some rows of a source.
LEMMA FiguresCount ==
    ASSUME NEW books, NEW source, NEW rows \in Seq(RowsOf(books)),
           \A i \in DOMAIN rows : rows[i].source = source
    PROVE  R!Figures(rows)[1] = Worth(rows, Weight(books, source, Int, AllNames(books), "count"))
<1> PICK all_ : all_ = AllNames(books)
  OBVIOUS
<1> PICK w : w = Weight(books, source, Int, all_, "count")
  OBVIOUS
<1> DEFINE f == [i \in DOMAIN rows |-> rows[i].count]
           g == [i \in DOMAIN rows |-> w[rows[i]]]
<1>1. ASSUME NEW i \in DOMAIN rows
      PROVE  g[i] = f[i]
  <2>1. PICK r \in RowsOf(books) : r = rows[i] /\ r.source = source
    OBVIOUS
  <2>2. r.month \in Int /\ r.party \in all_
    <3>1. PICK S, L : r \in [source : S, line : L, party : all_, count : Nat, month : Int,
                             total : Int, tax : Int]
      BY DEF RowsOf, AllNames
    <3>2. QED
      BY ONLY <3>1
  <2>3. w[r] = r.count
    BY <2>1, <2>2 DEF Weight
  <2>4. QED
    BY <2>1, <2>3
<1>2. [i \in DOMAIN rows |-> g[i]] = f
  BY <1>1
<1>3. SumOf(g, DOMAIN rows) = SumFunction(f)
  <2> HIDE DEF f, g
  <2>1. QED
    BY <1>2 DEF SumOf
<1>4. R!Figures(rows)[1] = R!SumFunction(f)
  BY DEF R!Figures
<1>5. QED
  BY <1>3, <1>4, SameSum DEF Worth

\* Each row is about some entry.
LEMMA RowsHaveCounts ==
    ASSUME NEW books \in Ledgers, NEW q, NEW E \in SUBSET books
    PROVE  \A i \in DOMAIN R!RowsAbout(q, E) : R!RowsAbout(q, E)[i].count \in Nat \ {0}
<1> PICK K : K = R!Keys(q, E)
  OBVIOUS
<1> PICK o : o = R!InOrder(K)
  OBVIOUS
<1> DEFINE row(i) == R!Row(q, R!WithKey(q, E, o[i]))
<1>1. IsFiniteSet(E) /\ IsFiniteSet(K)
  <2> DEFINE h == [e \in E |-> R!Key(q, e)]
  <2>1. IsFiniteSet(E)
    BY BookFacts
  <2>2. h \in Surjection(E, K)
    BY DEF Surjection, R!Keys
  <2> HIDE DEF h
  <2>3. QED
    BY <2>1, <2>2, FS_Surjection
<1>2. R!RowsAbout(q, E) = [i \in 1 .. Cardinality(K) |-> row(i)]
  BY SameCardinality DEF R!RowsAbout
<1>3. Lists(o, K) /\ Cardinality(K) \in Nat
  BY <1>1, InOrderLists, FS_CardinalityType
<1>4. ASSUME NEW i \in 1 .. Cardinality(K)
      PROVE  row(i).count \in Nat \ {0}
  <2> PICK F : F = R!WithKey(q, E, o[i])
    OBVIOUS
  <2>1. o[i] \in K
    BY <1>3 DEF Lists
  <2>2. F \in SUBSET E /\ F # {}
    BY <2>1, KeyFacts
  <2>3. IsFiniteSet(F)
    BY <1>1, <2>2, FS_Subset
  <2>4. Cardinality(F) \in Nat /\ Cardinality(F) # 0
    BY <2>2, <2>3, FS_CardinalityType, FS_EmptySet
  <2>5. row(i).count = Cardinality(F)
    BY SameCardinality DEF R!Row
  <2>6. QED
    BY <2>4, <2>5
<1> HIDE DEF row
<1>5. QED
  BY <1>2, <1>4

\* A list of rows of which a summary says the same as of a shorter one has none.
LEMMA SummaryCounts ==
    ASSUME NEW books \in Ledgers, NEW q \in Queries, NEW E \in SUBSET books,
           NEW part \in Less(R!RowsAbout(q, E)),
           R!Agrees(R!Figures(R!RowsAbout(q, E)), R!Figures(part))
    PROVE  R!RowsAbout(q, E) = <<>> /\ part = <<>>
<1> PICK rows : rows = R!RowsAbout(q, E)
  OBVIOUS
<1> PICK T : T = RowsOf(books)
  OBVIOUS
<1> PICK w : w = Weight(books, q.source, Int, AllNames(books), "count")
  OBVIOUS
<1>1. q.source \in Sources /\ q.from \in Nat
  BY DEF Queries
<1>2. IsChoice(books, q.source, Int, AllNames(books), "count")
  BY DEF IsChoice, AllFigs, Figs
<1>3. rows \in Seq(T) /\ IsWorth(w, T)
  BY <1>1, <1>2, RowsCount, WeightTyped
<1>4. \A i \in DOMAIN rows : rows[i].source = q.source /\ rows[i].count \in Nat \ {0}
  BY RowsHaveSource, RowsHaveCounts
<1>5. ASSUME NEW s \in Seq(T), \A i \in DOMAIN s : s[i].source = q.source
      PROVE  R!Figures(s)[1] = Worth(s, w)
  BY <1>5, FiguresCount
<1>6. R!Figures(rows)[1] = Worth(rows, w)
  BY <1>3, <1>4, <1>5
<1>7. \A i \in DOMAIN rows : w[rows[i]] = rows[i].count
  <2>1. ASSUME NEW i \in DOMAIN rows PROVE w[rows[i]] = rows[i].count
    <3>1. PICK r \in T : r = rows[i] /\ r.source = q.source
      BY <1>3, <1>4
    <3>2. r.month \in Int /\ r.party \in AllNames(books)
      <4>1. PICK S, L, P : /\ P = AllNames(books)
                           /\ r \in [source : S, line : L, party : P, count : Nat, month : Int,
                                     total : Int, tax : Int]
        BY DEF RowsOf, AllNames
      <4>2. QED
        BY ONLY <4>1
    <3>3. w[r] = r.count
      BY <3>1, <3>2 DEF Weight
    <3>4. QED
      BY <3>1, <3>3
  <2>2. QED
    BY <2>1
<1>8. R!Figures(<<>>)[1] = 0
  <2> PICK none : none = <<>>
    OBVIOUS
  <2>1. none \in Seq(T) /\ \A i \in DOMAIN none : none[i].source = q.source
    OBVIOUS
  <2>2. R!Figures(none)[1] = Worth(none, w)
    BY <1>5, <2>1
  <2>3. QED
    BY <2>2, WorthNone
<1>9. R!Figures(rows)[1] = 0 \/ R!Figures(rows)[1] = R!Figures(part)[1]
  <2>1. R!Figures(rows) = <<0, 0>> \/ R!Figures(rows) = R!Figures(part)
    BY DEF R!Agrees
  <2>2. <<0, 0>>[1] = 0
    OBVIOUS
  <2>3. QED
    BY <2>1, <2>2
<1>10. ASSUME rows # <<>>
       PROVE  FALSE
  <2>1. PICK r, rest : r = rows[1] /\ rest = Tail(rows)
    OBVIOUS
  <2> PICK one : one = <<r>>
    OBVIOUS
  <2>2. r \in T /\ one \in Seq(T) /\ rest \in Seq(T) /\ one \o rest = rows
    <3>1. Len(rows) \in Nat /\ Len(rows) # 0 /\ r \in T
      BY <1>3, <1>10, <2>1
    <3>2. rest = SubSeq(rows, 1 + 1, Len(rows))
      BY <1>3, <1>10, <2>1, TailIsSubSeq
    <3>3. SubSeq(rows, 1, 1) = one
      <4> PICK s : s = SubSeq(rows, 1, 1)
        OBVIOUS
      <4>1. s \in Seq(T) /\ Len(s) = 1 /\ s[1] = rows[1]
        BY <1>3, <3>1
      <4>2. one \in Seq(T) /\ Len(one) = 1 /\ one[1] = rows[1]
        BY <2>1, <3>1
      <4>3. Len(s) = Len(one) /\ \A i \in 1 .. Len(s) : s[i] = one[i]
        BY <4>1, <4>2
      <4>4. s = one
        BY ONLY <4>1, <4>2, <4>3, SeqEqual
      <4>5. QED
        BY <4>4
    <3>4. 1 \in 0 .. Len(rows)
      BY <3>1
    <3>5. rest \in Seq(T) /\ one \o rest = rows
      BY <1>3, <3>2, <3>3, <3>4, Pieces
    <3>6. QED
      BY <3>1, <3>5
  <2>3. Worth(one, w) = w[r]
    BY <1>3, <2>2, WorthOne
  <2>4. Worth(rows, w) = w[r] + Worth(rest, w) /\ Worth(rest, w) \in Int
    <3>1. Worth(one \o rest, w) = Worth(one, w) + Worth(rest, w)
      <4>1. IsWorth(w, T) /\ one \in Seq(T) /\ rest \in Seq(T)
        BY <1>3, <2>2
      <4>2. QED
        BY ONLY <4>1, WorthJoin
    <3>2. Worth(rest, w) \in Int
      BY ONLY <1>3, <2>2, WorthTyped
    <3>3. QED
      BY <2>2, <2>3, <3>1, <3>2
  <2>5. 1 \in DOMAIN rows /\ DOMAIN rows = 1 .. Len(rows)
    BY <1>3, <1>10
  <2>6. w[r] \in Nat \ {0}
    BY <1>4, <1>7, <2>1, <2>5
  <2>7. \A i \in DOMAIN rest : rest[i].source = q.source
    BY <1>3, <1>4, <1>10, <2>1
  <2>8. R!Figures(rest)[1] = Worth(rest, w)
    BY <1>5, <2>2, <2>7
  <2>9. Worth(rest, w) >= 0
    <3>1. \A i \in DOMAIN rest : w[rest[i]] \in Nat
      BY <1>3, <1>4, <1>7, <1>10, <2>1
    <3> DEFINE g == [i \in DOMAIN rest |-> w[rest[i]]]
    <3>2. IsFiniteSet(DOMAIN rest) /\ \A i \in DOMAIN rest : g[i] \in Nat
      BY <1>3, <2>2, <3>1, WorthTyped
    <3> HIDE DEF g
    <3>3. SumOf(g, DOMAIN rest) \in Nat
      BY <3>2, TotalPositive
    <3>4. QED
      BY <3>3 DEF Worth, g
  <2>10. part = rest \/ part = <<>>
    BY <1>10, <2>1 DEF Less, R!Short
  <2>11. QED
    BY <1>6, <1>8, <1>9, <2>4, <2>6, <2>8, <2>9, <2>10
<1>11. QED
  BY <1>10 DEF Less, R!Short

\* Card sales: the list of the agency may be absent, but not if it has rows.
LEMMA CardsWorth ==
    ASSUME NEW books \in Ledgers, NEW q \in Queries, q.source = "card_sales", NEW t,
           NEW src, NEW ks, NEW ps, NEW field, IsChoice(books, src, ks, ps, field),
           NEW a, IsCardList(a, books, q, t)
    PROVE  /\ a \in Seq(RowsOf(books))
           /\ Worth(a, Weight(books, src, ks, ps, field))
                = SumOf(Amounts(books, field), Counted(books, q, t, src, ks, ps))
<1> PICK w : w = Weight(books, src, ks, ps, field)
  OBVIOUS
<1> PICK amounts : amounts = Amounts(books, field)
  OBVIOUS
<1> PICK T : T = RowsOf(books)
  OBVIOUS
<1> PICK F : F = R!Found(books, q, t)
  OBVIOUS
<1> PICK cards, agency : cards = {e \in F : e.line = "card"} /\ agency = {e \in F : e.line = "agency"}
  OBVIOUS
<1> PICK b, c : b = R!RowsAbout(q, cards) /\ c = R!RowsAbout(q, agency)
  OBVIOUS
<1> PICK C, D : C = Chosen(cards, q, src, ks, ps) /\ D = Chosen(agency, q, src, ks, ps)
  OBVIOUS
<1>1. IsWorth(w, T)
  BY WeightTyped
<1>2. /\ F \in SUBSET books /\ q.source \in Sources /\ q.from \in Nat
      /\ cards \in SUBSET books /\ agency \in SUBSET books
  BY DEF R!Found, Queries
<1>3. b \in Seq(T) /\ Worth(b, w) = SumOf(amounts, C)
  BY <1>2, RowsCount
<1>4. c \in Seq(T) /\ Worth(c, w) = SumOf(amounts, D)
  BY <1>2, RowsCount
<1>5. AreNumbers(amounts, C) /\ AreNumbers(amounts, D)
  <2>1. C \in SUBSET books /\ D \in SUBSET books
    BY <1>2 DEF Chosen
  <2>2. field \in AllFigs
    BY DEF IsChoice
  <2>3. QED
    BY <2>1, <2>2, BookFacts
<1>6. C \cap D = {}
  BY DEF Chosen
<1>7. C \cup D = Counted(books, q, t, src, ks, ps)
  <2>1. F = cards \cup agency
    BY DEF R!Found, R!LinesOf
  <2>2. CASE src \notin R!Breakdowns
    BY <2>1, <2>2 DEF Counted, Chosen, Behind, Asking
  <2>3. CASE src \in R!Breakdowns
    BY <2>3 DEF Counted, Chosen, Behind, R!Breakdowns
  <2>4. QED
    BY <2>2, <2>3
<1>8. SumOf(amounts, Counted(books, q, t, src, ks, ps)) = SumOf(amounts, C) + SumOf(amounts, D)
  <2>1. SumOf(amounts, C \cup D) = SumOf(amounts, C) + SumOf(amounts, D)
    BY ONLY <1>5, <1>6, TotalJoin
  <2>2. QED
    BY <1>7, <2>1
<1>9. b \o c \in Seq(T) /\ Worth(b \o c, w) = Worth(b, w) + Worth(c, w)
  BY ONLY <1>1, <1>3, <1>4, WorthJoin
<1>10. CASE a = b \o c
  BY <1>3, <1>4, <1>8, <1>9, <1>10
<1>11. ASSUME NEW part \in Less(c), a = b \o part, R!Agrees(R!Figures(c), R!Figures(part))
       PROVE  a \in Seq(T) /\ Worth(a, w) = SumOf(amounts, Counted(books, q, t, src, ks, ps))
  <2>1. c = <<>> /\ part = <<>>
    BY <1>2, <1>11, SummaryCounts
  <2>2. Worth(<<>>, w) = 0
    BY WorthNone
  <2>3. SumOf(amounts, D) = 0
    BY <1>4, <2>1, <2>2
  <2>4. a = b
    BY <1>3, <1>11, <2>1, ConcatEmptySeq
  <2>5. SumOf(amounts, C) \in Int
    BY <1>5, TotalTyped
  <2>6. QED
    BY <1>3, <1>8, <2>3, <2>4, <2>5
<1>12. b = OfLineAt(books, q, t, "card") /\ c = OfLineAt(books, q, t, "agency")
  BY DEF OfLineAt
<1>13. a = b \o c \/ \E part \in Less(c) : a = b \o part /\ R!Agrees(R!Figures(c), R!Figures(part))
  BY <1>12 DEF IsCardList
<1>14. QED
  BY <1>10, <1>11, <1>13

\* financials.py:399-770: a complete answer to any query counts what the entries count
\* that HomeTax has for it on that day, in every figure, by month and by party, whatever
\* its rows are sums of.
THEOREM AnswerWorth ==
    ASSUME NEW books \in Ledgers, NEW q \in Queries, q.source \notin R!Breakdowns, NEW t,
           NEW src, NEW ks, NEW ps, NEW field, IsChoice(books, src, ks, ps, field),
           NEW a, IsAnswer(a, books, q, t)
    PROVE  /\ a \in Seq(RowsOf(books))
           /\ Worth(a, Weight(books, src, ks, ps, field))
                = SumOf(Amounts(books, field), Counted(books, q, t, src, ks, ps))
<1>1. CASE q.source = "card_sales"
  BY <1>1, CardsWorth DEF IsAnswer
<1>2. CASE q.source # "card_sales"
  BY <1>2, ListWorth DEF IsAnswer
<1>3. QED
  BY <1>1, <1>2

-----------------------------------------------------------------------------
(***************************************************************************)
(* All answers together                                                    *)
(*                                                                         *)
(* What the collected rows are worth is what the entries are that some     *)
(* query counts, if no two queries count the same entry.                   *)
(***************************************************************************)
\* The answers, the days they are of, and what has come after each.
AreAnswers(qs, rows, books, when, answer, upto) ==
    /\ upto[0] = <<>> /\ upto[Len(qs)] = rows
    /\ \A i \in 1 .. Len(qs) : /\ IsAnswer(answer[i], books, qs[i], when[i])
                               /\ upto[i] = upto[i - 1] \o answer[i]

\* No command asks for a total.
Asked(qs) == qs \in Seq(Queries) /\ \A i \in 1 .. Len(qs) : qs[i].source \notin R!Breakdowns

\* What has been gathered is the answers one after another.
LEMMA GatheredAnswers ==
    ASSUME NEW qs, NEW rows, NEW books, NEW from, NEW to, Gathered(qs, rows, books, from, to)
    PROVE  \E when, answer, upto :
              /\ \A i \in 1 .. Len(qs) : when[i] \in DaysOf(from, to)
              /\ AreAnswers(qs, rows, books, when, answer, upto)
<1>1. PICK upto :
        /\ upto[0] = <<>> /\ upto[Len(qs)] = rows
        /\ \A i \in 1 .. Len(qs) : \E t \in DaysOf(from, to) : \E a :
              IsAnswer(a, books, qs[i], t) /\ upto[i] = upto[i - 1] \o a
  BY DEF Gathered
<1>2. PICK when : when = [i \in 1 .. Len(qs) |->
          CHOOSE t \in DaysOf(from, to) : \E a :
              IsAnswer(a, books, qs[i], t) /\ upto[i] = upto[i - 1] \o a]
  OBVIOUS
<1>3. PICK answer : answer = [i \in 1 .. Len(qs) |->
          CHOOSE a : IsAnswer(a, books, qs[i], when[i]) /\ upto[i] = upto[i - 1] \o a]
  OBVIOUS
<1>4. ASSUME NEW i \in 1 .. Len(qs)
      PROVE  /\ when[i] \in DaysOf(from, to)
             /\ IsAnswer(answer[i], books, qs[i], when[i]) /\ upto[i] = upto[i - 1] \o answer[i]
  <2>1. \E t \in DaysOf(from, to) : \E a :
            IsAnswer(a, books, qs[i], t) /\ upto[i] = upto[i - 1] \o a
    BY <1>1
  <2>2. /\ when[i] \in DaysOf(from, to)
        /\ \E a : IsAnswer(a, books, qs[i], when[i]) /\ upto[i] = upto[i - 1] \o a
    BY <1>2, <2>1
  <2>3. IsAnswer(answer[i], books, qs[i], when[i]) /\ upto[i] = upto[i - 1] \o answer[i]
    BY <1>3, <2>2
  <2>4. QED
    BY <2>2, <2>3
<1>5. AreAnswers(qs, rows, books, when, answer, upto)
  BY <1>1, <1>4 DEF AreAnswers
<1>6. QED
  BY <1>4, <1>5

\* What is counted of the entries by each query.
Parts(qs, books, when, src, ks, ps) ==
    [i \in 1 .. Len(qs) |-> Counted(books, qs[i], when[i], src, ks, ps)]

\* What is true of none, and after one more answer if before, is true of all.
LEMMA AllAnswers ==
    ASSUME NEW n \in Nat, NEW G, 0 \in G, \A i \in 1 .. n : i - 1 \in G => i \in G
    PROVE  n \in G
<1> DEFINE T == (0 .. n) \ G
<1>1. SUFFICES ASSUME n \notin G PROVE FALSE
  OBVIOUS
<1>2. T \in SUBSET Nat /\ T # {}
  BY <1>1
<1>3. PICK m \in T : \A j \in T : m <= j
  BY <1>2, LeastNumber
<1>4. m \in 1 .. n /\ m \notin G
  BY <1>3
<1>5. m - 1 \in 0 .. n /\ m - 1 < m
  BY <1>4
<1>6. m - 1 \in G
  BY <1>3, <1>5
<1>7. QED
  BY <1>4, <1>6

\* Parts that have none in common.
ArePartsOf(P, I, E) ==
    /\ \A i \in I : P[i] \in SUBSET E
    /\ \A e \in E : \E i \in I : e \in P[i]
    /\ \A i, j \in I : \A e : e \in P[i] /\ e \in P[j] => i = j

\* The sums of the parts.
SumOfPart(f, P, I) == [i \in I |-> SumOf(f, P[i])]

\* It does not matter whether the numbers are added up by parts first.
LEMMA TotalOfParts ==
    ASSUME NEW f, NEW I, IsFiniteSet(I), NEW E, AreNumbers(f, E), NEW P, ArePartsOf(P, I, E)
    PROVE  SumOf(SumOfPart(f, P, I), I) = SumOf(f, E)
<1> DEFINE h == [e \in E |-> CHOOSE i \in I : e \in P[i]]
           g == [i \in I |-> SumOf(f, P[i])]
<1>1. \A e \in E : h[e] \in I /\ e \in P[h[e]]
  BY DEF ArePartsOf
<1> HIDE DEF h
<1>2. \A i \in I : Having(E, h, i) = P[i]
  BY <1>1 DEF Having, ArePartsOf
<1>3. SumOf(f, E) = SumOf(ByKey(f, E, h, I), I)
  BY <1>1, TotalByKey
<1>4. \A i \in I : ByKey(f, E, h, I)[i] = g[i]
  BY <1>2 DEF ByKey
<1> HIDE DEF g
<1>5. SumOf(ByKey(f, E, h, I), I) = SumOf(g, I)
  BY <1>4, TotalSame
<1>6. QED
  BY <1>3, <1>5 DEF g, SumOfPart

\* All rows together are worth the entries that some query counts, if no two count the
\* same.
LEMMA AnswersWorth ==
    ASSUME NEW books \in Ledgers, NEW qs, Asked(qs), NEW rows, NEW when, NEW answer, NEW upto,
           AreAnswers(qs, rows, books, when, answer, upto),
           NEW src, NEW ks, NEW ps, NEW field, IsChoice(books, src, ks, ps, field),
           NEW E \in SUBSET books, ArePartsOf(Parts(qs, books, when, src, ks, ps), 1 .. Len(qs), E)
    PROVE  /\ rows \in Seq(RowsOf(books))
           /\ Worth(rows, Weight(books, src, ks, ps, field)) = SumOf(Amounts(books, field), E)
<1> PICK w : w = Weight(books, src, ks, ps, field)
  OBVIOUS
<1> PICK amounts : amounts = Amounts(books, field)
  OBVIOUS
<1> PICK T : T = RowsOf(books)
  OBVIOUS
<1> PICK n : n = Len(qs)
  OBVIOUS
<1>1. PICK P : P = Parts(qs, books, when, src, ks, ps)
  OBVIOUS
<1>2. PICK g : g = [i \in 1 .. n |-> SumOf(amounts, P[i])]
  OBVIOUS
<1>3. n \in Nat /\ IsWorth(w, T) /\ \A i \in 1 .. n : qs[i] \in Queries /\ qs[i].source \notin R!Breakdowns
  BY WeightTyped DEF Asked
<1>4. \A i \in 1 .. n : P[i] = Counted(books, qs[i], when[i], src, ks, ps)
  BY <1>1 DEF Parts
<1>5. ASSUME NEW i \in 1 .. n
      PROVE  answer[i] \in Seq(T) /\ Worth(answer[i], w) = g[i]
  <2>1. IsAnswer(answer[i], books, qs[i], when[i])
    BY DEF AreAnswers
  <2>2. answer[i] \in Seq(T) /\ Worth(answer[i], w) = SumOf(amounts, P[i])
    BY <1>3, <1>4, <2>1, AnswerWorth
  <2>3. QED
    BY <1>2, <2>2
<1>6. \A i \in 1 .. n : P[i] \in SUBSET books
  BY <1>4 DEF Counted, Chosen, R!Found
<1>7. ASSUME NEW S \in SUBSET books PROVE AreNumbers(amounts, S)
  <2>1. field \in AllFigs
    BY DEF IsChoice
  <2>2. QED
    BY <2>1, BookFacts
<1>8. \A i \in 1 .. n : g[i] \in Int
  BY <1>2, <1>6, <1>7, TotalTyped
<1> DEFINE G == {i \in 0 .. n : upto[i] \in Seq(T) /\ Worth(upto[i], w) = SumOf(g, 1 .. i)}
<1>9. 0 \in G
  <2>1. upto[0] = <<>> /\ 1 .. 0 = {} /\ 0 \in 0 .. n
    BY <1>3 DEF AreAnswers
  <2>2. <<>> \in Seq(T) /\ Worth(<<>>, w) = 0 /\ SumOf(g, {}) = 0
    BY WorthNone, TotalNone
  <2>3. QED
    BY <2>1, <2>2
<1>10. ASSUME NEW i \in 1 .. n, i - 1 \in G
       PROVE  i \in G
  <2>1. PICK m : m = i - 1
    OBVIOUS
  <2>2. i \in 0 .. n /\ 1 .. i = 1 .. m \cup {i} /\ i \notin 1 .. m /\ m \in Nat
    BY <1>3, <2>1
  <2>3. upto[m] \in Seq(T) /\ Worth(upto[m], w) = SumOf(g, 1 .. m)
    BY <1>10, <2>1
  <2>4. upto[i] = upto[m] \o answer[i]
    BY <2>1 DEF AreAnswers
  <2>5. upto[i] \in Seq(T) /\ Worth(upto[i], w) = Worth(upto[m], w) + Worth(answer[i], w)
    <3>1. PICK s, u : s = upto[m] /\ u = answer[i]
      OBVIOUS
    <3>2. s \in Seq(T) /\ u \in Seq(T)
      BY <1>5, <2>3, <3>1
    <3>3. s \o u \in Seq(T) /\ Worth(s \o u, w) = Worth(s, w) + Worth(u, w)
      BY ONLY <1>3, <3>2, WorthJoin
    <3>4. QED
      BY <2>4, <3>1, <3>3
  <2>6. AreNumbers(g, 1 .. m)
    <3>1. IsFiniteSet(1 .. m)
      BY <2>2, FS_Interval
    <3>2. QED
      BY <1>3, <1>8, <2>1, <3>1 DEF AreNumbers
  <2>7. SumOf(g, 1 .. m \cup {i}) = g[i] + SumOf(g, 1 .. m)
    BY ONLY <2>2, <2>6, <1>8, i \in 1 .. n, TotalNext
  <2>8. g[i] \in Int /\ SumOf(g, 1 .. m) \in Int
    BY <1>8, <2>6, TotalTyped
  <2>9. SumOf(g, 1 .. i) = g[i] + SumOf(g, 1 .. m)
    BY <2>2, <2>7
  <2>10. Worth(upto[i], w) = SumOf(g, 1 .. m) + g[i]
    BY <1>5, <2>3, <2>5
  <2>11. Worth(upto[i], w) = SumOf(g, 1 .. i)
    BY ONLY <2>8, <2>9, <2>10
  <2>12. QED
    BY <2>2, <2>5, <2>11
<1>11. n \in G
  <2> HIDE DEF G
  <2>1. QED
    BY <1>3, <1>9, <1>10, AllAnswers
<1>12. rows \in Seq(T) /\ Worth(rows, w) = SumOf(g, 1 .. n)
  BY <1>11 DEF AreAnswers
<1>13. SumOf(g, 1 .. n) = SumOf(amounts, E)
  <2>1. IsFiniteSet(1 .. n)
    BY <1>3, FS_Interval
  <2>2. AreNumbers(amounts, E)
    BY <1>7
  <2>3. ArePartsOf(P, 1 .. n, E)
    BY <1>1
  <2>4. SumOf(SumOfPart(amounts, P, 1 .. n), 1 .. n) = SumOf(amounts, E)
    BY ONLY <2>1, <2>2, <2>3, TotalOfParts
  <2>5. QED
    BY <1>2, <2>4 DEF SumOfPart
<1>14. QED
  BY <1>12, <1>13

-----------------------------------------------------------------------------
(***************************************************************************)
(* Each entry in one query                                                 *)
(*                                                                         *)
(* A plan says which days and which entries (deductible or not) are asked  *)
(* for of each source; the queries of a command follow it, source by       *)
(* source.                                                                 *)
(***************************************************************************)
\* The days of the entries of a source.
DatesOf(src) == IF src = "registry" THEN {0} ELSE {d \in Nat : R!IsDay(d)}

\* A query covers a day.
Has(q, src, d) == q.source = src /\ q.from <= d /\ d <= q.to

\* Queries of a source that cut a period into parts.
AsksFor(qs, src, start, end, deduction) ==
    /\ \A i \in DOMAIN qs : qs[i].source = src => qs[i].deduction = deduction /\ qs[i].to <= end
    /\ \A d \in DatesOf(src) :
          (start <= d /\ d <= end) <=> \E i \in DOMAIN qs : Has(qs[i], src, d)
    /\ \A d \in DatesOf(src) : \A i, j \in DOMAIN qs :
          Has(qs[i], src, d) /\ Has(qs[j], src, d) => i = j

\* One query of a source, all of one, none.
Lone(qs, src) == \A i, j \in DOMAIN qs : qs[i].source = src /\ qs[j].source = src => i = j
\* All queries are of one source.
OnlyOf(qs, src) == \A i \in DOMAIN qs : qs[i].source = src
\* None is.
NoneOf(qs, src) == \A i \in DOMAIN qs : qs[i].source # src

\* Cash purchases by the month.
Monthly(qs) ==
    \A i \in DOMAIN qs : \A d \in DatesOf("cash_purchase") :
        Has(qs[i], "cash_purchase", d) => R!MonthKey(qs[i].from) = R!MonthKey(d)

\* The entries that there are.
Entries(books, src, deduction, start, end, t, ks, ps) ==
    {e \in books : /\ e.line \in R!LinesOf(src)
                   /\ start <= e.day /\ e.day <= end /\ e.day <= t
                   /\ R!Kept(e, deduction)
                   /\ R!MonthKey(e.day) \in ks /\ e.party \in ps}

\* The places of the queries in two lists.
LEMMA Places ==
    ASSUME NEW a \in Seq(Queries), NEW z \in Seq(Queries), NEW c, c = a \o z
    PROVE  /\ c \in Seq(Queries) /\ Len(a) \in Nat
           /\ DOMAIN a = 1 .. Len(a) /\ DOMAIN z = 1 .. Len(z) /\ Len(z) \in Nat
           /\ DOMAIN c = 1 .. (Len(a) + Len(z))
           /\ \A i \in DOMAIN a : i \in DOMAIN c /\ c[i] = a[i]
           /\ \A i \in DOMAIN z : Len(a) + i \in DOMAIN c /\ c[Len(a) + i] = z[i]
           /\ \A j \in DOMAIN c : j \in DOMAIN a \/ j - Len(a) \in DOMAIN z
<1>1. /\ c \in Seq(Queries) /\ Len(c) = Len(a) + Len(z)
      /\ \A i \in 1 .. Len(a) + Len(z) : c[i] = IF i <= Len(a) THEN a[i] ELSE z[i - Len(a)]
  BY ConcatProperties
<1>2. Len(a) \in Nat /\ Len(z) \in Nat
  OBVIOUS
<1>3. DOMAIN a = 1 .. Len(a) /\ DOMAIN z = 1 .. Len(z) /\ DOMAIN c = 1 .. Len(c)
  BY <1>1
<1>4. \A i \in 1 .. Len(a) : i \in DOMAIN c /\ c[i] = a[i]
  BY <1>1, <1>2, <1>3
<1>5. \A i \in 1 .. Len(z) : Len(a) + i \in DOMAIN c /\ c[Len(a) + i] = z[i]
  <2>1. ASSUME NEW i \in 1 .. Len(z) PROVE Len(a) + i \in DOMAIN c /\ c[Len(a) + i] = z[i]
    <3>1. Len(a) + i \in 1 .. Len(a) + Len(z) /\ ~(Len(a) + i <= Len(a)) /\ (Len(a) + i) - Len(a) = i
      BY <1>2
    <3>2. QED
      BY <1>1, <1>3, <3>1
  <2>2. QED
    BY <2>1
<1>6. \A j \in DOMAIN c : j \in 1 .. Len(a) \/ j - Len(a) \in 1 .. Len(z)
  BY <1>1, <1>2, <1>3
<1>7. QED
  BY <1>1, <1>2, <1>3, <1>4, <1>5, <1>6

\* Queries of another source after them do not matter.
LEMMA AskedBefore ==
    ASSUME NEW a \in Seq(Queries), NEW z \in Seq(Queries), NEW c, c = a \o z,
           NEW src, NoneOf(z, src)
    PROVE  /\ \A start, end, deduction : AsksFor(a, src, start, end, deduction) => AsksFor(c, src, start, end, deduction)
           /\ Lone(a, src) => Lone(c, src)
           /\ NoneOf(a, src) => NoneOf(c, src)
           /\ (src = "cash_purchase" /\ Monthly(a)) => Monthly(c)
<1>1. /\ \A i \in DOMAIN a : i \in DOMAIN c /\ c[i] = a[i]
      /\ \A j \in DOMAIN c : c[j].source = src => j \in DOMAIN a /\ c[j] = a[j]
  <2>1. /\ Len(a) \in Nat /\ Len(z) \in Nat
        /\ \A i \in DOMAIN a : i \in DOMAIN c /\ c[i] = a[i]
        /\ \A i \in DOMAIN z : Len(a) + i \in DOMAIN c /\ c[Len(a) + i] = z[i]
        /\ \A j \in DOMAIN c : j \in DOMAIN a \/ j - Len(a) \in DOMAIN z
        /\ DOMAIN c = 1 .. (Len(a) + Len(z))
    BY Places
  <2>2. ASSUME NEW j \in DOMAIN c, c[j].source = src PROVE j \in DOMAIN a
    <3>1. SUFFICES ASSUME j - Len(a) \in DOMAIN z PROVE FALSE
      BY <2>1
    <3>2. PICK i : i = j - Len(a)
      OBVIOUS
    <3>3. Len(a) + i = j
      BY <2>1, <3>2
    <3>4. c[j] = z[i]
      BY <2>1, <3>1, <3>2, <3>3
    <3>5. QED
      BY <2>2, <3>1, <3>2, <3>4 DEF NoneOf
  <2>3. QED
    BY <2>1, <2>2
<1>2. ASSUME NEW start, NEW end, NEW deduction, AsksFor(a, src, start, end, deduction)
      PROVE  AsksFor(c, src, start, end, deduction)
  BY <1>1, <1>2 DEF AsksFor, Has
<1>3. Lone(a, src) => Lone(c, src)
  BY <1>1 DEF Lone
<1>4. NoneOf(a, src) => NoneOf(c, src)
  BY <1>1 DEF NoneOf
<1>5. (src = "cash_purchase" /\ Monthly(a)) => Monthly(c)
  BY <1>1 DEF Monthly, Has
<1>6. QED
  BY <1>2, <1>3, <1>4, <1>5

\* Nor do queries of others before them.
LEMMA AskedAfter ==
    ASSUME NEW a \in Seq(Queries), NEW z \in Seq(Queries), NEW c, c = a \o z,
           NEW src, NoneOf(a, src)
    PROVE  /\ \A start, end, deduction : AsksFor(z, src, start, end, deduction) => AsksFor(c, src, start, end, deduction)
           /\ Lone(z, src) => Lone(c, src)
           /\ (src = "cash_purchase" /\ Monthly(z)) => Monthly(c)
<1> PICK n : n = Len(a)
  OBVIOUS
<1>1. /\ n \in Nat /\ \A i \in DOMAIN z : i \in Int /\ n + i \in DOMAIN c /\ c[n + i] = z[i]
      /\ \A j \in DOMAIN c : j \in Int
      /\ \A j \in DOMAIN c : c[j].source = src => j - n \in DOMAIN z /\ c[j] = z[j - n]
  <2>1. /\ Len(a) \in Nat /\ Len(z) \in Nat /\ DOMAIN z = 1 .. Len(z)
        /\ \A i \in DOMAIN a : i \in DOMAIN c /\ c[i] = a[i]
        /\ \A i \in DOMAIN z : Len(a) + i \in DOMAIN c /\ c[Len(a) + i] = z[i]
        /\ \A j \in DOMAIN c : j \in DOMAIN a \/ j - Len(a) \in DOMAIN z
        /\ DOMAIN c = 1 .. (Len(a) + Len(z))
    BY Places
  <2>2. ASSUME NEW j \in DOMAIN c, c[j].source = src PROVE j - n \in DOMAIN z
    <3>1. j \notin DOMAIN a
      BY <2>1, <2>2 DEF NoneOf
    <3>2. QED
      BY <2>1, <3>1
  <2>3. ASSUME NEW j \in DOMAIN c, j - n \in DOMAIN z PROVE c[j] = z[j - n]
    <3>1. n + (j - n) = j
      BY <2>1
    <3>2. QED
      BY <2>1, <2>3, <3>1
  <2>4. QED
    BY <2>1, <2>2, <2>3
<1>2. ASSUME NEW start, NEW end, NEW deduction, AsksFor(z, src, start, end, deduction)
      PROVE  AsksFor(c, src, start, end, deduction)
  <2>1. ASSUME NEW j \in DOMAIN c, c[j].source = src
        PROVE  c[j].deduction = deduction /\ c[j].to <= end
    BY <1>1, <1>2, <2>1 DEF AsksFor
  <2>2. ASSUME NEW d \in DatesOf(src)
        PROVE  (start <= d /\ d <= end) <=> \E j \in DOMAIN c : Has(c[j], src, d)
    <3>1. (start <= d /\ d <= end) <=> \E i \in DOMAIN z : Has(z[i], src, d)
      BY <1>2 DEF AsksFor
    <3>2. (\E i \in DOMAIN z : Has(z[i], src, d)) => \E j \in DOMAIN c : Has(c[j], src, d)
      BY <1>1
    <3>3. (\E j \in DOMAIN c : Has(c[j], src, d)) => \E i \in DOMAIN z : Has(z[i], src, d)
      BY <1>1 DEF Has
    <3>4. QED
      BY <3>1, <3>2, <3>3
  <2>3. ASSUME NEW d \in DatesOf(src), NEW i \in DOMAIN c, NEW j \in DOMAIN c,
               Has(c[i], src, d), Has(c[j], src, d)
        PROVE  i = j
    <3>1. /\ i - n \in DOMAIN z /\ c[i] = z[i - n]
          /\ j - n \in DOMAIN z /\ c[j] = z[j - n]
      BY <1>1, <2>3 DEF Has
    <3>2. i - n = j - n
      BY <1>2, <2>3, <3>1 DEF AsksFor
    <3>3. QED
      BY <1>1, <3>2
  <2>4. QED
    BY <2>1, <2>2, <2>3 DEF AsksFor
<1>3. ASSUME Lone(z, src)
      PROVE  Lone(c, src)
  <2>1. ASSUME NEW i \in DOMAIN c, NEW j \in DOMAIN c, c[i].source = src, c[j].source = src
        PROVE  i = j
    <3>1. /\ i - n \in DOMAIN z /\ c[i] = z[i - n]
          /\ j - n \in DOMAIN z /\ c[j] = z[j - n]
      BY <1>1, <2>1
    <3>2. i - n = j - n
      BY <1>3, <2>1, <3>1 DEF Lone
    <3>3. QED
      BY <1>1, <3>2
  <2>2. QED
    BY <2>1 DEF Lone
<1>4. ASSUME src = "cash_purchase", Monthly(z)
      PROVE  Monthly(c)
  BY <1>1, <1>4 DEF Monthly, Has
<1>5. QED
  BY <1>2, <1>3, <1>4

\* The queries of a source were answered on days from the end of them on, or one was,
\* on day t.
ReadOn(qs, when, src, t) ==
    \A i \in 1 .. Len(qs) : qs[i].source = src =>
        /\ when[i] \in Nat
        /\ \A d \in Nat : (d <= qs[i].to /\ d <= when[i]) <=> (d <= qs[i].to /\ d <= t)

\* The days of entries of a source.
LEMMA DatesOfEntries ==
    ASSUME NEW books \in Ledgers, NEW src \in R!Columns \cup {"registry"}, NEW e \in books,
           e.line \in R!LinesOf(src)
    PROVE  e.day \in DatesOf(src) /\ e.day \in Nat
<1>1. e.day \in Nat
  BY BookFacts
<1>2. CASE src = "registry"
  <2>1. e.line = "registry"
    BY <1>2 DEF R!LinesOf
  <2>2. e.day = 0
    BY <2>1, BookFacts
  <2>3. QED
    BY <1>1, <1>2, <2>2 DEF DatesOf
<1>3. CASE src # "registry"
  <2>1. e.line # "registry"
    BY <1>3 DEF R!LinesOf, R!Columns
  <2>2. R!IsDay(e.day)
    BY <2>1, BookFacts
  <2>3. QED
    BY <1>1, <1>3, <2>2 DEF DatesOf
<1>4. QED
  BY <1>2, <1>3

\* What the rows of a source say of some months, all unless the source says the month.
CanTell(qs, when, src, line, t, deduction, ks) ==
    /\ Asked(qs) /\ line = Behind(src) /\ line \in R!Columns \cup {"registry"}
    /\ ReadOn(qs, when, line, t)
    /\ \A i \in 1 .. Len(qs) : qs[i].source = line => Asking(qs[i], src).deduction = deduction
    /\ ks = Int \/ line # "cash_purchase" \/ Monthly(qs)

\* An entry is counted by the query that has its day.
Belongs(e, q, line, t, deduction, ks, ps) ==
    /\ e.line \in R!LinesOf(line) /\ Has(q, line, e.day) /\ e.day <= t
    /\ R!Kept(e, deduction)
    /\ R!MonthKey(e.day) \in ks /\ e.party \in ps

\* An entry is counted by the query that covers its day, whatever day it was made on.
LEMMA CountedOnce ==
    ASSUME NEW books \in Ledgers, NEW qs, NEW when, NEW src, NEW line, NEW t, NEW deduction, NEW ks,
           CanTell(qs, when, src, line, t, deduction, ks), NEW ps, NEW e \in books, NEW i \in 1 .. Len(qs)
    PROVE  e \in Counted(books, qs[i], when[i], src, ks, ps)
               <=> Belongs(e, qs[i], line, t, deduction, ks, ps)
<1>0. /\ Asked(qs) /\ line = Behind(src) /\ line \in R!Columns \cup {"registry"}
      /\ ReadOn(qs, when, line, t)
      /\ qs[i].source = line => Asking(qs[i], src).deduction = deduction
      /\ ks = Int \/ line # "cash_purchase" \/ Monthly(qs)
  BY DEF CanTell
<1> PICK q \in Queries : q = qs[i]
  BY <1>0 DEF Asked
<1> PICK o : o = Asking(q, src)
  OBVIOUS
<1> PICK u : u = when[i]
  OBVIOUS
<1>1. o.source = q.source /\ o.from = q.from /\ o.to = q.to /\ q.from \in Nat /\ q.to \in Nat
  BY DEF Asking, Queries
<1>2. e \in Counted(books, q, u, src, ks, ps) <=>
         /\ e.line \in R!LinesOf(q.source)
         /\ q.from <= e.day /\ e.day <= R!Earliest(q.to, u)
         /\ R!Kept(e, o.deduction)
         /\ q.source = line /\ RowMonth(q, e) \in ks /\ e.party \in ps
  BY <1>0, <1>1 DEF Counted, Chosen, R!Found
<1>3. CASE q.source # line
  BY <1>2, <1>3 DEF Has, Belongs
<1>4. CASE e.line \notin R!LinesOf(line)
  BY <1>2, <1>4 DEF Belongs
<1>5. CASE q.source = line /\ e.line \in R!LinesOf(line)
  <2>1. e.day \in DatesOf(line) /\ e.day \in Nat
    BY <1>0, <1>5, DatesOfEntries
  <2>2. o.deduction = deduction
    BY <1>0, <1>5
  <2>3. u \in Nat /\ ((e.day <= q.to /\ e.day <= u) <=> (e.day <= q.to /\ e.day <= t))
    BY <1>0, <1>5, <2>1 DEF ReadOn
  <2>4. e.day <= R!Earliest(q.to, u) <=> (e.day <= q.to /\ e.day <= u)
    BY <1>1, <2>1, <2>3 DEF R!Earliest
  <2>5. Has(q, line, e.day) => (RowMonth(q, e) \in ks <=> R!MonthKey(e.day) \in ks)
    <3>1. CASE line # "cash_purchase"
      BY <1>5, <3>1 DEF RowMonth
    <3>2. CASE line = "cash_purchase"
      <4>1. RowMonth(q, e) = R!MonthKey(q.from)
        BY <1>5, <3>2 DEF RowMonth
      <4>2. CASE ks = Int
        BY <1>1, <2>1, <4>1, <4>2 DEF R!MonthKey
      <4>3. CASE Monthly(qs)
        <5>1. i \in DOMAIN qs
          BY <1>0 DEF Asked
        <5>2. QED
          BY <2>1, <3>2, <4>1, <4>3, <5>1 DEF Monthly
      <4>4. QED
        BY <1>0, <3>2, <4>2, <4>3
    <3>3. QED
      BY <3>1, <3>2
  <2>6. Has(q, line, e.day) <=> (q.from <= e.day /\ e.day <= q.to)
    BY <1>5 DEF Has
  <2>7. R!Kept(e, o.deduction) <=> R!Kept(e, deduction)
    BY <2>2
  <2>8. QED
    BY <1>2, <1>5, <2>3, <2>4, <2>5, <2>6, <2>7 DEF Belongs
<1>6. QED
  BY <1>3, <1>4, <1>5

\* A total is that of the ones that it names, whatever was asked.
Which(src, asked) == IF src \in R!Breakdowns THEN R!Counts(src) ELSE asked

\* All rows of a source are worth what the entries of the period are.
LEMMA RowsWorthEntries ==
    ASSUME NEW books \in Ledgers, NEW qs, Asked(qs), NEW rows, NEW when, NEW answer, NEW upto,
           AreAnswers(qs, rows, books, when, answer, upto),
           NEW src, NEW line, line = Behind(src), line \in R!Columns \cup {"registry"},
           NEW start, NEW end, NEW asked, AsksFor(qs, line, start, end, asked),
           NEW t, ReadOn(qs, when, line, t),
           NEW deduction, deduction = Which(src, asked),
           NEW ks, ks = Int \/ line # "cash_purchase" \/ Monthly(qs), NEW ps, NEW field,
           IsChoice(books, src, ks, ps, field)
    PROVE  /\ rows \in Seq(RowsOf(books))
           /\ Worth(rows, Weight(books, src, ks, ps, field))
                = SumOf(Amounts(books, field), Entries(books, line, deduction, start, end, t, ks, ps))
<1> PICK E : E = Entries(books, line, deduction, start, end, t, ks, ps)
  OBVIOUS
<1>1. DOMAIN qs = 1 .. Len(qs) /\ \A i \in 1 .. Len(qs) : qs[i] \in Queries
  BY DEF Asked
<1>2. \A i \in 1 .. Len(qs) : qs[i].source = line => Asking(qs[i], src).deduction = deduction
  <2>1. ASSUME NEW i \in 1 .. Len(qs), qs[i].source = line
        PROVE  Asking(qs[i], src).deduction = deduction
    <3>1. qs[i].deduction = asked
      BY <1>1, <2>1 DEF AsksFor
    <3> PICK which : which = R!Counts(src)
      OBVIOUS
    <3>2. [qs[i] EXCEPT !.deduction = which].deduction = which
      BY <1>1 DEF Queries
    <3>3. QED
      BY <3>1, <3>2 DEF Asking, Which
  <2>2. QED
    BY <2>1
<1>3. \A e \in books : \A i \in 1 .. Len(qs) :
         e \in Counted(books, qs[i], when[i], src, ks, ps) <=> Belongs(e, qs[i], line, t, deduction, ks, ps)
  <2>1. CanTell(qs, when, src, line, t, deduction, ks)
    BY <1>2 DEF CanTell
  <2>2. QED
    BY <2>1, CountedOnce
<1>4. E \in SUBSET books
  BY DEF Entries
<1>5. ASSUME NEW e \in books
      PROVE  e \in E <=> \E i \in 1 .. Len(qs) : Belongs(e, qs[i], line, t, deduction, ks, ps)
  <2>1. e \in E <=> /\ e.line \in R!LinesOf(line)
                    /\ (start <= e.day /\ e.day <= end) /\ e.day <= t
                    /\ R!Kept(e, deduction)
                    /\ R!MonthKey(e.day) \in ks /\ e.party \in ps
    BY DEF Entries
  <2>2. e.line \in R!LinesOf(line) =>
           ((start <= e.day /\ e.day <= end) <=> \E i \in 1 .. Len(qs) : Has(qs[i], line, e.day))
    BY <1>1, DatesOfEntries DEF AsksFor
  <2>3. QED
    BY <2>1, <2>2 DEF Belongs
<1>6. ASSUME NEW i \in 1 .. Len(qs), NEW j \in 1 .. Len(qs), NEW e \in books,
             Belongs(e, qs[i], line, t, deduction, ks, ps), Belongs(e, qs[j], line, t, deduction, ks, ps)
      PROVE  i = j
  <2>1. e.line \in R!LinesOf(line) /\ Has(qs[i], line, e.day) /\ Has(qs[j], line, e.day)
    BY <1>6 DEF Belongs
  <2>2. e.day \in DatesOf(line)
    BY <2>1, DatesOfEntries
  <2>3. QED
    BY <1>1, <2>1, <2>2 DEF AsksFor
<1>7. ArePartsOf(Parts(qs, books, when, src, ks, ps), 1 .. Len(qs), E)
  <2> PICK P : P = Parts(qs, books, when, src, ks, ps)
    OBVIOUS
  <2>1. ASSUME NEW i \in 1 .. Len(qs), NEW e
        PROVE  e \in P[i] <=> e \in books /\ Belongs(e, qs[i], line, t, deduction, ks, ps)
    <3>1. P[i] = Counted(books, qs[i], when[i], src, ks, ps)
      BY DEF Parts
    <3>2. P[i] \in SUBSET books
      BY <3>1 DEF Counted, Chosen, R!Found
    <3>3. QED
      BY <1>3, <3>1, <3>2
  <2>2. \A i \in 1 .. Len(qs) : P[i] \in SUBSET E
    BY <1>5, <2>1
  <2>3. \A e \in E : \E i \in 1 .. Len(qs) : e \in P[i]
    BY <1>4, <1>5, <2>1
  <2>4. \A i, j \in 1 .. Len(qs) : \A e : e \in P[i] /\ e \in P[j] => i = j
    BY <1>6, <2>1
  <2>5. QED
    BY <2>2, <2>3, <2>4 DEF ArePartsOf
<1>8. /\ Asked(qs) /\ AreAnswers(qs, rows, books, when, answer, upto)
      /\ IsChoice(books, src, ks, ps, field) /\ books \in Ledgers
  OBVIOUS
<1>9. /\ rows \in Seq(RowsOf(books))
      /\ Worth(rows, Weight(books, src, ks, ps, field)) = SumOf(Amounts(books, field), E)
  BY ONLY <1>4, <1>7, <1>8, AnswersWorth
<1>10. QED
  BY <1>9

\* All of them, whether deductible or not.
Every == "all"
\* By pages.
Paged == FALSE
\* Of the card purchases, the VAT asks for the deductible ones alone (cli.py:866-870).
OfCards(c) == IF c.kind = "vat" THEN "deductible" ELSE Every

\* These are ways to ask.
LEMMA WaysToAsk == Every \in R!Deductions /\ Paged \in BOOLEAN /\ \A c : OfCards(c) \in R!Deductions
  BY DEF Every, Paged, OfCards, R!Deductions

\* What a client takes is a query.
LEMMA TakenAsked ==
    ASSUME NEW s \in Seq(Taken)
    PROVE  s \in Seq(Queries)
<1>1. Taken \subseteq Queries
  BY DEF Taken, Queries
<1>2. QED
  BY <1>1, SeqMonotonic

\* The spans of a period.
LEMMA SpansAsk ==
    ASSUME R!IsDay(today), NEW src \in Daily, NEW deduction \in R!Deductions, NEW whole \in BOOLEAN,
           NEW p, R!IsDay(p[1]), R!IsDay(p[2]), p[1] <= p[2], p[2] <= today
    PROVE  LET qs == R!Spans(src, p, deduction, whole) IN
           /\ qs \in Seq(Queries) /\ Len(qs) > 0
           /\ OnlyOf(qs, src) /\ AsksFor(qs, src, p[1], p[2], deduction)
<1> PICK start, end : start = p[1] /\ end = p[2]
  OBVIOUS
<1> PICK spans : spans = R!SplitPeriods(start, end)
  OBVIOUS
<1> PICK qs : qs = R!Spans(src, p, deduction, whole)
  OBVIOUS
<1>1. qs \in Seq(Queries) /\ Len(qs) > 0
  BY SpansTaken, TakenAsked
<1>2. qs = [i \in DOMAIN spans |-> R!Query(src, spans[i][1], spans[i][2], deduction, whole)]
  BY DEF R!Spans
<1>3. \A i \in DOMAIN qs : /\ i \in DOMAIN spans /\ qs[i].source = src /\ qs[i].deduction = deduction
                           /\ qs[i].from = spans[i][1] /\ qs[i].to = spans[i][2]
  BY <1>2 DEF R!Query
<1>4. DOMAIN qs = DOMAIN spans
  BY <1>2
<1>5. \A i \in DOMAIN spans : spans[i][2] <= end
  BY SpansFit DEF ShortPeriod
<1>6. ASSUME NEW d \in DatesOf(src)
      PROVE  /\ (start <= d /\ d <= end) <=> \E i \in DOMAIN spans : spans[i][1] <= d /\ d <= spans[i][2]
             /\ \A i, j \in DOMAIN spans :
                   (spans[i][1] <= d /\ d <= spans[i][2]) /\ (spans[j][1] <= d /\ d <= spans[j][2])
                       => i = j
  <2>1. R!IsDay(d)
    BY DEF DatesOf, Daily
  <2>2. R!IsDay(start) /\ R!IsDay(end) /\ start <= end
    OBVIOUS
  <2>3. QED
    BY <2>1, <2>2, SpansPartition
<1>7. OnlyOf(qs, src)
  BY <1>3 DEF OnlyOf
<1>8. AsksFor(qs, src, start, end, deduction)
  <2>1. \A i \in DOMAIN qs : qs[i].source = src => qs[i].deduction = deduction /\ qs[i].to <= end
    BY <1>3, <1>5
  <2>2. \A d \in DatesOf(src) :
           (start <= d /\ d <= end) <=> \E i \in DOMAIN qs : Has(qs[i], src, d)
    BY <1>3, <1>4, <1>6 DEF Has
  <2>3. \A d \in DatesOf(src) : \A i, j \in DOMAIN qs :
           Has(qs[i], src, d) /\ Has(qs[j], src, d) => i = j
    BY <1>3, <1>4, <1>6 DEF Has
  <2>4. QED
    BY <2>1, <2>2, <2>3 DEF AsksFor
<1>9. QED
  BY <1>1, <1>7, <1>8

\* The months of a period.
LEMMA CashMonthsAsk ==
    ASSUME R!IsDay(today), NEW start, NEW end, R!IsDay(start), R!IsDay(end), start <= end,
           end <= today, start % 100 = 1
    PROVE  LET qs == R!CashMonths(<<start, end>>) IN
           /\ qs \in Seq(Queries) /\ OnlyOf(qs, "cash_purchase") /\ Monthly(qs)
           /\ AsksFor(qs, "cash_purchase", start, end, Every)
<1> PICK p : p = <<start, end>>
  OBVIOUS
<1> PICK qs : qs = R!CashMonths(p)
  OBVIOUS
<1> PICK k : k = R!MonthKey(start)
  OBVIOUS
<1> PICK many : many = R!HowManyMonths(start, end)
  OBVIOUS
<1>0. p[1] = start /\ p[2] = end
  OBVIOUS
<1>1. qs \in Seq(Queries)
  BY <1>0, CashMonthsTaken, TakenAsked
<1> DEFINE month(i) == R!Later(k, i - 1)
           from(i) == 100 * month(i) + 1
           to(i) == R!Earliest(R!LastDay(month(i)), end)
<1>2. qs = [i \in 1 .. many |-> R!Query("cash_purchase", from(i), to(i), "all", FALSE)]
  BY <1>0 DEF R!CashMonths
<1>3. \A i \in 1 .. many : to(i) <= end
  BY MonthsFit DEF ShortPeriod
<1> HIDE DEF from, to
<1>4. DOMAIN qs = 1 .. many
  BY <1>2
<1>5. \A i \in DOMAIN qs : /\ qs[i].source = "cash_purchase" /\ qs[i].deduction = Every
                           /\ qs[i].from = from(i) /\ qs[i].to = to(i)
  BY <1>2 DEF R!Query, Every
<1>6. ASSUME NEW d \in DatesOf("cash_purchase")
      PROVE  /\ (start <= d /\ d <= end) <=> \E i \in DOMAIN qs : qs[i].from <= d /\ d <= qs[i].to
             /\ \A i, j \in DOMAIN qs :
                   (qs[i].from <= d /\ d <= qs[i].to) /\ (qs[j].from <= d /\ d <= qs[j].to)
                       => i = j
             /\ \A i \in DOMAIN qs : qs[i].from <= d /\ d <= qs[i].to =>
                    R!MonthKey(qs[i].from) = R!MonthKey(d)
  <2>1. R!IsDay(d)
    BY DEF DatesOf
  <2>2. R!IsDay(start) /\ start % 100 = 1 /\ R!IsDay(end) /\ start <= end /\ qs = R!CashMonths(<<start, end>>)
    OBVIOUS
  <2>3. QED
    BY ONLY <2>1, <2>2, CashMonthsPartition
<1>7. OnlyOf(qs, "cash_purchase")
  BY <1>5 DEF OnlyOf
<1>8. AsksFor(qs, "cash_purchase", start, end, Every)
  <2>1. \A i \in DOMAIN qs : qs[i].source = "cash_purchase" => qs[i].deduction = Every /\ qs[i].to <= end
    BY <1>3, <1>4, <1>5
  <2>2. \A d \in DatesOf("cash_purchase") :
           (start <= d /\ d <= end) <=> \E i \in DOMAIN qs : Has(qs[i], "cash_purchase", d)
    BY <1>5, <1>6 DEF Has
  <2>3. \A d \in DatesOf("cash_purchase") : \A i, j \in DOMAIN qs :
           Has(qs[i], "cash_purchase", d) /\ Has(qs[j], "cash_purchase", d) => i = j
    BY <1>6 DEF Has
  <2>4. QED
    BY <2>1, <2>2, <2>3 DEF AsksFor
<1>9. Monthly(qs)
  BY <1>6 DEF Monthly, Has
<1>10. QED
  BY <1>1, <1>7, <1>8, <1>9

\* One query.
LEMMA OneAsks ==
    ASSUME NEW q \in Queries, NEW s, s = <<q>>
    PROVE  /\ s \in Seq(Queries) /\ OnlyOf(s, q.source) /\ Lone(s, q.source)
           /\ AsksFor(s, q.source, q.from, q.to, q.deduction)
<1>1. s \in Seq(Queries) /\ DOMAIN s = {1} /\ s[1] = q
  OBVIOUS
<1>2. OnlyOf(s, q.source) /\ Lone(s, q.source)
  BY <1>1 DEF OnlyOf, Lone
<1>3. q.to <= q.to
  BY DEF Queries
<1>4. AsksFor(s, q.source, q.from, q.to, q.deduction)
  BY <1>1, <1>3 DEF AsksFor, Has
<1>5. QED
  BY <1>1, <1>2, <1>4

\* The parts of a list of queries, as a plan says: from, to and which.
IsPlanned(qs, src, plan) ==
    /\ AsksFor(qs, src, plan.from[src], plan.to[src], plan.deduction[src])
    /\ src \in {"card_sales", "cash_sales"} => Lone(qs, src)
    /\ src = "cash_purchase" => Monthly(qs)

\* A list of queries of one source as planned.
AsksAll(z, src, plan) == z \in Seq(Queries) /\ OnlyOf(z, src) /\ IsPlanned(z, src, plan)

\* A list of queries of several sources.
Planned(qs, S, plan) ==
    /\ qs \in Seq(Queries)
    /\ \A src \in S : IsPlanned(qs, src, plan)
    /\ \A src \in Sources \ S : NoneOf(qs, src)

\* One source.
LEMMA PlanOne ==
    ASSUME NEW z, NEW src \in Sources, NEW plan, AsksAll(z, src, plan)
    PROVE  Planned(z, {src}, plan)
  BY DEF Planned, OnlyOf, NoneOf, AsksAll

\* One list after another.
Joined(a, z) == a \o z

\* One source more.
LEMMA PlanMore ==
    ASSUME NEW a, NEW S, NEW plan, Planned(a, S, plan), NEW src \in Sources, src \notin S,
           NEW z, AsksAll(z, src, plan), NEW c, c = Joined(a, z), NEW T, T = S \cup {src}
    PROVE  Planned(c, T, plan)
<1>0. c = a \o z
  BY DEF Joined
<1>1. /\ a \in Seq(Queries) /\ z \in Seq(Queries)
      /\ \A b \in S : IsPlanned(a, b, plan)
      /\ \A b \in Sources \ S : NoneOf(a, b)
  BY DEF Planned, AsksAll
<1>2. c \in Seq(Queries)
  BY <1>0, <1>1, Places
<1>3. \A b : b # src => NoneOf(z, b)
  BY DEF OnlyOf, NoneOf, AsksAll
<1>4. ASSUME NEW b \in S PROVE IsPlanned(c, b, plan)
  <2> PICK from, to, deduction : from = plan.from[b] /\ to = plan.to[b] /\ deduction = plan.deduction[b]
    OBVIOUS
  <2>1. IsPlanned(a, b, plan) /\ NoneOf(z, b)
    BY <1>1, <1>3
  <2>2. /\ AsksFor(a, b, from, to, deduction)
        /\ b \in {"card_sales", "cash_sales"} => Lone(a, b)
        /\ b = "cash_purchase" => Monthly(a)
    BY <2>1 DEF IsPlanned
  <2>3. /\ AsksFor(a, b, from, to, deduction) => AsksFor(c, b, from, to, deduction)
        /\ Lone(a, b) => Lone(c, b)
        /\ (b = "cash_purchase" /\ Monthly(a)) => Monthly(c)
    <3>1. NoneOf(z, b)
      BY <2>1
    <3>2. QED
      BY ONLY <1>0, <1>1, <3>1, AskedBefore
  <2>4. QED
    BY <2>2, <2>3 DEF IsPlanned
<1>5. IsPlanned(c, src, plan)
  <2> PICK from, to, deduction : from = plan.from[src] /\ to = plan.to[src] /\ deduction = plan.deduction[src]
    OBVIOUS
  <2>1. NoneOf(a, src)
    BY <1>1
  <2>2. /\ AsksFor(z, src, from, to, deduction)
        /\ src \in {"card_sales", "cash_sales"} => Lone(z, src)
        /\ src = "cash_purchase" => Monthly(z)
    BY DEF IsPlanned, AsksAll
  <2>3. /\ AsksFor(z, src, from, to, deduction) => AsksFor(c, src, from, to, deduction)
        /\ Lone(z, src) => Lone(c, src)
        /\ (src = "cash_purchase" /\ Monthly(z)) => Monthly(c)
    BY ONLY <1>0, <1>1, <2>1, AskedAfter
  <2>4. QED
    BY <2>2, <2>3 DEF IsPlanned
<1>6. ASSUME NEW b \in Sources \ T PROVE NoneOf(c, b)
  <2>1. NoneOf(a, b) /\ NoneOf(z, b)
    BY <1>1, <1>3
  <2>2. QED
    BY ONLY <1>0, <1>1, <2>1, AskedBefore
<1>7. \A b \in T : IsPlanned(c, b, plan)
  BY <1>4, <1>5
<1>8. QED
  BY <1>2, <1>6, <1>7 DEF Planned

\* What the queries for a table ask for.
CardsEnd(p, y) == R!LastDay(100 * y + 3 * R!QuarterOf(p[2]))
\* The first of January.
YearFrom(y) == 10000 * y + 101
\* New Year's Eve.
YearTo(y) == 10000 * y + 1231

\* The plan of a table.
TablePlan(p, y, cards) ==
    [from |-> [src \in Sources |-> IF src = "cash_sales" THEN YearFrom(y) ELSE p[1]],
     to |-> [src \in Sources |-> IF src = "cash_sales" THEN YearTo(y)
                                 ELSE IF src = "card_sales" THEN CardsEnd(p, y) ELSE p[2]],
     deduction |-> [src \in Sources |-> IF src = "business_card" THEN cards ELSE Every]]

\* What it says of each source.
LEMMA TableDates ==
    ASSUME NEW p, NEW y, NEW cards, NEW plan, plan = TablePlan(p, y, cards), NEW src \in Sources
    PROVE  /\ src = "cash_sales" => plan.from[src] = YearFrom(y) /\ plan.to[src] = YearTo(y)
           /\ src # "cash_sales" => plan.from[src] = p[1]
           /\ src = "card_sales" => plan.to[src] = CardsEnd(p, y)
           /\ src \notin {"card_sales", "cash_sales"} => plan.to[src] = p[2]
           /\ src = "business_card" => plan.deduction[src] = cards
           /\ src # "business_card" => plan.deduction[src] = Every
  BY DEF TablePlan

\* The queries of the sums of a year.
LEMMA CardsAsk ==
    ASSUME R!IsDay(today), NEW y \in 2000 .. 2100, y <= R!Year(today), NEW p,
           OfYear(p, y), BeginsHalf(p, y), NEW plan, NEW cards, plan = TablePlan(p, y, cards)
    PROVE  AsksAll(R!CardSales(y, R!QuarterOf(p[1]), R!QuarterOf(p[2])), "card_sales", plan)
<1> PICK n, m : n = R!QuarterOf(p[1]) /\ m = R!QuarterOf(p[2])
  OBVIOUS
<1>0. R!IsDay(today)
  OBVIOUS
<1> PICK from, to : from = 10000 * y + 100 * (3 * n - 2) + 1 /\ to = R!LastDay(100 * y + 3 * m)
  OBVIOUS
<1>q. PICK q : q = YearQuery("card_sales", from, to)
  OBVIOUS
<1>1. PICK z : z = R!CardSales(y, n, m)
  OBVIOUS
<1>z. z = <<q>>
  BY <1>q, <1>1 DEF R!CardSales, YearQuery
<1>2. q \in Queries
  <2>1. HasBegun(y) /\ AreQuarters(n, m)
    BY DEF HasBegun, OfYear
  <2>2. R!CardSales(y, n, m) \in Seq(Taken)
    BY ONLY <1>0, <2>1, CardSalesTaken
  <2>3. z \in Seq(Queries)
    BY <1>1, <2>2, TakenAsked
  <2>4. z[1] = q /\ 1 \in DOMAIN z
    BY <1>z
  <2>5. QED
    BY ONLY <2>3, <2>4, ElementOfSeq
<1>3. from = p[1]
  <2>1. PICK f \in {1, 7} : p[1] = Date(y, f, 1)
    BY DEF BeginsHalf
  <2>2. R!MonthOf(Date(y, f, 1)) = f
    <3>1. y \in Nat /\ f \in 1 .. 12 /\ 100 * y + f \in Nat
      OBVIOUS
    <3>2. 1 \in 1 .. R!DaysIn(100 * y + f)
      BY <3>1, DaysOfMonth
    <3>3. QED
      BY ONLY <3>1, <3>2, Dates
  <2>3. n = (f - 1) \div 3 + 1
    <3>1. R!MonthOf(p[1]) = f
      BY <2>1, <2>2
    <3>2. n = (R!MonthOf(p[1]) - 1) \div 3 + 1
      BY DEF R!QuarterOf
    <3>3. QED
      BY <3>1, <3>2
  <2>4. 3 * n - 2 = f
    BY ONLY <2>1, <2>3
  <2>5. from = 10000 * y + 100 * f + 1
    BY <2>4
  <2>6. QED
    BY <2>1, <2>5 DEF Date
<1>4. to = CardsEnd(p, y)
  BY DEF CardsEnd
<1>5. q.source = "card_sales" /\ q.from = from /\ q.to = to /\ q.deduction = Every
  BY <1>q DEF R!Query, YearQuery, Every
<1>6. "card_sales" \in Sources /\ "card_sales" # "cash_sales" /\ "card_sales" # "business_card"
  BY DEF Sources, R!Columns
<1>7. plan.from["card_sales"] = from /\ plan.to["card_sales"] = to /\ plan.deduction["card_sales"] = Every
  <2>1. /\ plan.from["card_sales"] = p[1] /\ plan.to["card_sales"] = CardsEnd(p, y)
        /\ plan.deduction["card_sales"] = Every
    BY <1>6, TableDates
  <2>2. QED
    BY <1>3, <1>4, <2>1
<1>8. /\ z \in Seq(Queries) /\ OnlyOf(z, "card_sales") /\ Lone(z, "card_sales")
      /\ AsksFor(z, "card_sales", from, to, Every)
  BY ONLY <1>z, <1>2, <1>5, OneAsks
<1>9. AsksAll(z, "card_sales", plan)
  BY ONLY <1>7, <1>8 DEF AsksAll, IsPlanned
<1>10. QED
  BY <1>1, <1>9

\* The query of cash receipts is for the year.
LEMMA ReceiptsAsk ==
    ASSUME R!IsDay(today), NEW y \in 2000 .. 2100, y <= R!Year(today), NEW p,
           NEW plan, NEW cards, plan = TablePlan(p, y, cards)
    PROVE  AsksAll(R!CashSales(y), "cash_sales", plan)
<1>0. R!IsDay(today)
  OBVIOUS
<1> PICK from, to : from = YearFrom(y) /\ to = YearTo(y)
  OBVIOUS
<1>q. PICK q : q = YearQuery("cash_sales", from, to)
  OBVIOUS
<1>1. PICK z : z = R!CashSales(y)
  OBVIOUS
<1>z. z = <<q>>
  BY <1>q, <1>1 DEF R!CashSales, YearQuery, YearFrom, YearTo
<1>2. q \in Queries
  <2>1. HasBegun(y)
    BY DEF HasBegun
  <2>2. R!CashSales(y) \in Seq(Taken)
    BY ONLY <1>0, <2>1, CashSalesTaken
  <2>3. z \in Seq(Queries)
    BY <1>1, <2>2, TakenAsked
  <2>4. z[1] = q /\ Len(z) = 1
    BY <1>z
  <2>5. QED
    BY ONLY <2>3, <2>4
<1>5. q.source = "cash_sales" /\ q.from = from /\ q.to = to /\ q.deduction = Every
  BY <1>q DEF R!Query, YearQuery, Every
<1>6. "cash_sales" \in Sources /\ "cash_sales" # "business_card"
  BY DEF Sources, R!Columns
<1>7. plan.from["cash_sales"] = from /\ plan.to["cash_sales"] = to /\ plan.deduction["cash_sales"] = Every
  BY <1>6, TableDates
<1>8. /\ z \in Seq(Queries) /\ OnlyOf(z, "cash_sales") /\ Lone(z, "cash_sales")
      /\ AsksFor(z, "cash_sales", from, to, Every)
  BY ONLY <1>z, <1>2, <1>5, OneAsks
<1>9. AsksAll(z, "cash_sales", plan)
  BY ONLY <1>7, <1>8 DEF AsksAll, IsPlanned
<1>10. QED
  BY <1>1, <1>9

\* Those of a list by days.
LEMMA DailyAsk ==
    ASSUME R!IsDay(today), NEW p, R!IsDay(p[1]), R!IsDay(p[2]), p[1] <= p[2], p[2] <= today,
           NEW src \in Daily, NEW deduction \in R!Deductions, NEW whole \in BOOLEAN,
           src # "cash_purchase", NEW plan,
           plan.from[src] = p[1], plan.to[src] = p[2], plan.deduction[src] = deduction
    PROVE  AsksAll(R!Spans(src, p, deduction, whole), src, plan)
<1> PICK qs : qs = R!Spans(src, p, deduction, whole)
  OBVIOUS
<1>1. qs \in Seq(Queries) /\ OnlyOf(qs, src) /\ AsksFor(qs, src, p[1], p[2], deduction)
  BY SpansAsk
<1>2. src \notin {"card_sales", "cash_sales"}
  BY DEF Daily
<1>3. QED
  BY <1>1, <1>2 DEF AsksAll, IsPlanned

\* Cash purchases by the month.
LEMMA MonthsAsk ==
    ASSUME R!IsDay(today), NEW y \in 2000 .. 2100, NEW p,
           OfYear(p, y), BeginsHalf(p, y), p[2] <= today,
           NEW plan, NEW cards, plan = TablePlan(p, y, cards)
    PROVE  AsksAll(R!CashMonths(p), "cash_purchase", plan)
<1> PICK start, end : start = p[1] /\ end = p[2]
  OBVIOUS
<1> PICK cash : cash = R!CashMonths(p)
  OBVIOUS
<1>0. R!IsDay(today)
  OBVIOUS
<1>1. start % 100 = 1
  <2>1. PICK f \in {1, 7} : start = Date(y, f, 1)
    BY DEF BeginsHalf
  <2>2. start = 100 * (100 * y + f) + 1 /\ 100 * y + f \in Nat
    BY <2>1 DEF Date
  <2>3. QED
    BY <2>2
<1>2. cash = R!CashMonths(<<start, end>>)
  BY DEF R!CashMonths
<1>3. R!IsDay(start) /\ R!IsDay(end) /\ start <= end /\ end <= today
  BY DEF OfYear
<1>4. /\ cash \in Seq(Queries) /\ OnlyOf(cash, "cash_purchase") /\ Monthly(cash)
      /\ AsksFor(cash, "cash_purchase", start, end, Every)
  BY ONLY <1>0, <1>1, <1>2, <1>3, CashMonthsAsk
<1>5. "cash_purchase" \in Sources /\ "cash_purchase" # "business_card"
      /\ "cash_purchase" # "card_sales" /\ "cash_purchase" # "cash_sales"
  BY DEF Sources, R!Columns
<1>6. /\ plan.from["cash_purchase"] = start /\ plan.to["cash_purchase"] = end
      /\ plan.deduction["cash_purchase"] = Every
  BY <1>5, TableDates
<1>7. QED
  BY <1>4, <1>5, <1>6 DEF AsksAll, IsPlanned

\* The queries for a table, in order.
LEMMA TableWork ==
    ASSUME NEW c, NEW p,
           c.kind \notin {"list", "summary", "registry", "card_sales", "cash_sales", "counterparty"}
    PROVE  R!WorkOver(c, p) =
             Joined(Joined(Joined(Joined(Joined(R!Spans("sales", p, Every, Paged),
                                                R!Spans("purchases", p, Every, Paged)),
                                         R!CardSales(c.year, R!QuarterOf(p[1]), R!QuarterOf(p[2]))),
                                  R!CashSales(c.year)),
                           R!Spans("business_card", p, OfCards(c), Paged)),
                    R!CashMonths(p))
  BY DEF R!WorkOver, Every, Paged, OfCards, Joined

\* All queries of a table.
LEMMA TableAsks ==
    ASSUME R!IsDay(today), NEW c, c.kind \in {"revenue", "vat"},
           NEW y \in 2000 .. 2100, y = c.year, y <= R!Year(today), NEW p,
           OfYear(p, y), BeginsHalf(p, y), p[2] <= today,
           NEW plan, plan = TablePlan(p, y, OfCards(c))
    PROVE  Planned(R!WorkOver(c, p), R!Columns, plan)
<1> DEFINE sales == R!Spans("sales", p, Every, Paged)
           purchases == R!Spans("purchases", p, Every, Paged)
           bought == R!Spans("business_card", p, OfCards(c), Paged)
           cards == R!CardSales(c.year, R!QuarterOf(p[1]), R!QuarterOf(p[2]))
           receipts == R!CashSales(c.year)
           cash == R!CashMonths(p)
           q2 == Joined(sales, purchases)
           q3 == Joined(q2, cards)
           q4 == Joined(q3, receipts)
           q5 == Joined(q4, bought)
           q6 == Joined(q5, cash)
<1>1. R!WorkOver(c, p) = q6
  <2>1. c.kind \notin {"list", "summary", "registry", "card_sales", "cash_sales", "counterparty"}
    OBVIOUS
  <2>2. QED
    BY ONLY <2>1, TableWork
<1>2. /\ R!IsDay(p[1]) /\ R!IsDay(p[2]) /\ p[1] <= p[2] /\ p[2] <= today
      /\ R!IsDay(today) /\ Every \in R!Deductions /\ OfCards(c) \in R!Deductions
      /\ Paged \in BOOLEAN
  BY WaysToAsk DEF OfYear
<1>3. \A src \in Sources :
        /\ src \notin {"card_sales", "cash_sales"} => plan.from[src] = p[1] /\ plan.to[src] = p[2]
        /\ plan.deduction[src] = IF src = "business_card" THEN OfCards(c) ELSE Every
  BY TableDates
<1>4. "sales" \in Sources /\ "purchases" \in Sources /\ "business_card" \in Sources
  BY DEF Sources, R!Columns
<1>5. "sales" \in Daily /\ "purchases" \in Daily /\ "business_card" \in Daily
  BY DEF Daily
<1>6. AsksAll(sales, "sales", plan)
  <2>1. plan.from["sales"] = p[1] /\ plan.to["sales"] = p[2] /\ plan.deduction["sales"] = Every
    BY <1>3, <1>4
  <2>2. QED
    BY <1>2, <1>5, <2>1, DailyAsk
<1>7. AsksAll(purchases, "purchases", plan)
  <2>1. plan.from["purchases"] = p[1] /\ plan.to["purchases"] = p[2] /\ plan.deduction["purchases"] = Every
    BY <1>3, <1>4
  <2>2. QED
    BY <1>2, <1>5, <2>1, DailyAsk
<1>8. AsksAll(bought, "business_card", plan)
  <2>1. /\ plan.from["business_card"] = p[1] /\ plan.to["business_card"] = p[2]
        /\ plan.deduction["business_card"] = OfCards(c)
    BY <1>3, <1>4
  <2>2. QED
    BY <1>2, <1>5, <2>1, DailyAsk
<1>9. /\ AsksAll(cards, "card_sales", plan) /\ AsksAll(receipts, "cash_sales", plan)
      /\ AsksAll(cash, "cash_purchase", plan)
  BY CardsAsk, ReceiptsAsk, MonthsAsk
<1> HIDE DEF sales, purchases, bought, cards, receipts, cash, q2, q3, q4, q5, q6
<1>10. \A src \in R!Columns : src \in Sources
  BY DEF Sources
<1>11. Planned(sales, {"sales"}, plan)
  BY <1>4, <1>6, PlanOne
<1>12. Planned(q2, {"sales", "purchases"}, plan)
  <2>1. "purchases" \in Sources /\ "purchases" \notin {"sales"}
    BY DEF Sources, R!Columns
  <2>2. {"sales", "purchases"} = {"sales"} \cup {"purchases"}
    OBVIOUS
  <2>3. q2 = Joined(sales, purchases)
    BY DEF q2
  <2>4. QED
    BY ONLY <2>1, <2>2, <2>3, <1>7, <1>11, PlanMore
<1>13. Planned(q3, {"sales", "purchases", "card_sales"}, plan)
  <2>1. "card_sales" \in Sources /\ "card_sales" \notin {"sales", "purchases"}
    BY DEF Sources, R!Columns
  <2>2. {"sales", "purchases", "card_sales"} = {"sales", "purchases"} \cup {"card_sales"}
    OBVIOUS
  <2>3. q3 = Joined(q2, cards)
    BY DEF q3
  <2>4. QED
    BY ONLY <2>1, <2>2, <2>3, <1>9, <1>12, PlanMore
<1>14. Planned(q4, {"sales", "purchases", "card_sales", "cash_sales"}, plan)
  <2>1. "cash_sales" \in Sources /\ "cash_sales" \notin {"sales", "purchases", "card_sales"}
    BY DEF Sources, R!Columns
  <2>2. {"sales", "purchases", "card_sales", "cash_sales"} = {"sales", "purchases", "card_sales"} \cup {"cash_sales"}
    OBVIOUS
  <2>3. q4 = Joined(q3, receipts)
    BY DEF q4
  <2>4. QED
    BY ONLY <2>1, <2>2, <2>3, <1>9, <1>13, PlanMore
<1>15. Planned(q5, {"sales", "purchases", "card_sales", "cash_sales", "business_card"}, plan)
  <2>1. "business_card" \in Sources /\ "business_card" \notin {"sales", "purchases", "card_sales", "cash_sales"}
    BY DEF Sources, R!Columns
  <2>2. {"sales", "purchases", "card_sales", "cash_sales", "business_card"} = {"sales", "purchases", "card_sales", "cash_sales"} \cup {"business_card"}
    OBVIOUS
  <2>3. q5 = Joined(q4, bought)
    BY DEF q5
  <2>4. QED
    BY ONLY <2>1, <2>2, <2>3, <1>8, <1>14, PlanMore
<1>16. Planned(q6, {"sales", "purchases", "card_sales", "cash_sales", "business_card", "cash_purchase"}, plan)
  <2>1. "cash_purchase" \in Sources /\ "cash_purchase" \notin {"sales", "purchases", "card_sales", "cash_sales", "business_card"}
    BY DEF Sources, R!Columns
  <2>2. {"sales", "purchases", "card_sales", "cash_sales", "business_card", "cash_purchase"} = {"sales", "purchases", "card_sales", "cash_sales", "business_card"} \cup {"cash_purchase"}
    OBVIOUS
  <2>3. q6 = Joined(q5, cash)
    BY DEF q6
  <2>4. QED
    BY ONLY <2>1, <2>2, <2>3, <1>9, <1>15, PlanMore
<1>17. R!Columns = {"sales", "purchases", "card_sales", "cash_sales", "business_card", "cash_purchase"}
  BY DEF R!Columns
<1>18. QED
  BY <1>1, <1>16, <1>17

-----------------------------------------------------------------------------
(***************************************************************************)
(* What a report adds up                                                   *)
(***************************************************************************)
\* Places of rows of a source, of some months and parties.
Those(rows, src, ks, ps) ==
    {i \in DOMAIN rows : rows[i].source = src /\ rows[i].month \in ks /\ rows[i].party \in ps}

\* What they are worth, counted.
LEMMA ThoseWorth ==
    ASSUME NEW books, NEW src, NEW ks, NEW ps, NEW field, IsChoice(books, src, ks, ps, field),
           NEW rows \in Seq(RowsOf(books)), NEW f,
           \A i \in Those(rows, src, ks, ps) : f[i] = IF field = "rows" THEN 1 ELSE rows[i][field]
    PROVE  /\ IsFiniteSet(Those(rows, src, ks, ps))
           /\ SumOf(f, Those(rows, src, ks, ps)) = Worth(rows, Weight(books, src, ks, ps, field))
           /\ AreNumbers(f, Those(rows, src, ks, ps))
<1> PICK w : w = Weight(books, src, ks, ps, field)
  OBVIOUS
<1> PICK I : I = Those(rows, src, ks, ps)
  OBVIOUS
<1> PICK D : D = DOMAIN rows
  OBVIOUS
<1> PICK v : v = [i \in D |-> w[rows[i]]]
  OBVIOUS
<1>1. IsWorth(w, RowsOf(books))
  BY WeightTyped
<1>2. IsFiniteSet(D) /\ AreNumbers(v, D) /\ Worth(rows, w) = SumOf(v, D)
  BY <1>1, WorthTyped DEF Worth
<1>3. I \in SUBSET D /\ \A i \in D : rows[i] \in RowsOf(books)
  BY DEF Those
<1>4. \A i \in D : v[i] = IF i \in I THEN f[i] ELSE 0
  <2> SUFFICES ASSUME NEW i \in D PROVE v[i] = IF i \in I THEN f[i] ELSE 0
    OBVIOUS
  <2> PICK r : r = rows[i]
    OBVIOUS
  <2>1. v[i] = w[r] /\ r \in RowsOf(books)
    BY <1>3
  <2>2. w[r] = IF r.source = src /\ r.month \in ks /\ r.party \in ps
               THEN (IF field = "rows" THEN 1 ELSE r[field]) ELSE 0
    BY <2>1 DEF Weight
  <2>3. i \in I <=> (r.source = src /\ r.month \in ks /\ r.party \in ps)
    BY DEF Those
  <2>4. i \in I => f[i] = IF field = "rows" THEN 1 ELSE r[field]
    OBVIOUS
  <2>5. QED
    BY ONLY <2>1, <2>2, <2>3, <2>4
<1>5. AreNumbers(f, I)
  <2>1. IsFiniteSet(I)
    BY <1>2, <1>3, FS_Subset
  <2>2. \A i \in I : f[i] \in Int
    BY ONLY <1>2, <1>3, <1>4 DEF AreNumbers
  <2>3. QED
    BY <2>1, <2>2 DEF AreNumbers
<1>6. SumOf(f, I) = SumOf(v, D)
  BY ONLY <1>2, <1>3, <1>4, <1>5, TotalWhere
<1>7. QED
  BY <1>2, <1>5, <1>6 DEF AreNumbers

\* A figure of them.
LEMMA FigureWorth ==
    ASSUME NEW books, NEW src, NEW ks, NEW ps, NEW field \in Figs, IsChoice(books, src, ks, ps, field),
           got \in Seq(RowsOf(books))
    PROVE  R!SumGot(Those(got, src, ks, ps), field) = Worth(got, Weight(books, src, ks, ps, field))
<1> PICK I : I = Those(got, src, ks, ps)
  OBVIOUS
<1> PICK f : f = [i \in I |-> got[i][field]]
  OBVIOUS
<1>1. field # "rows"
  BY DEF Figs
<1>2. SumOf(f, I) = Worth(got, Weight(books, src, ks, ps, field))
  BY <1>1, ThoseWorth
<1>3. SumOf(f, I) = R!SumGot(I, field)
  <2>1. [i \in I |-> f[i]] = f
    OBVIOUS
  <2>2. QED
    BY <2>1, SameSum DEF R!SumGot, SumOf
<1>4. QED
  BY <1>2, <1>3

\* The number of them.
LEMMA NumberWorth ==
    ASSUME NEW books, NEW src, NEW ks, NEW ps, IsChoice(books, src, ks, ps, "rows"),
           got \in Seq(RowsOf(books))
    PROVE  /\ IsFiniteSet(Those(got, src, ks, ps))
           /\ Cardinality(Those(got, src, ks, ps)) = Worth(got, Weight(books, src, ks, ps, "rows"))
<1> PICK I : I = Those(got, src, ks, ps)
  OBVIOUS
<1> PICK f : f = [i \in I |-> 1]
  OBVIOUS
<1>2. IsFiniteSet(I) /\ SumOf(f, I) = Worth(got, Weight(books, src, ks, ps, "rows"))
  BY ThoseWorth
<1>3. SumOf(f, I) = Cardinality(I)
  BY <1>2, TotalOnes
<1>4. QED
  BY <1>2, <1>3

\* The days on which a query was made are those on which a command may have read.
LEMMA DaysRead ==
    ASSUME command.period[2] \in Nat, R!IsDay(command.period[2]), R!IsDay(today),
           NEW t \in DaysOf(command.period[2], today)
    PROVE  t \in R!Days
<1> PICK end : end = command.period[2]
  OBVIOUS
<1>1. R!IsDay(t) /\ end <= t /\ t <= today /\ R!IsDay(end) /\ R!IsDay(today) /\ end \in Nat
  BY DayParts DEF DaysOf
<1>2. R!MonthKey(t) \in R!MonthKeys(end, today) /\ t % 100 \in 1 .. 31
  <2>1. R!MonthKey(end) <= R!MonthKey(t) /\ R!MonthKey(t) <= R!MonthKey(today)
    BY <1>1, DayOrder
  <2>2. IsMonth(R!MonthKey(t)) /\ t % 100 \in 1 .. 31 /\ IsMonth(R!MonthKey(end)) /\ IsMonth(R!MonthKey(today))
    BY <1>1, DayParts
  <2>3. QED
    BY <2>1, <2>2 DEF R!MonthKeys, IsMonth
<1>3. t = 100 * R!MonthKey(t) + (t % 100)
  BY <1>1, DayParts
<1> PICK k, n : k = R!MonthKey(t) /\ n = t % 100
  OBVIOUS
<1>4. t \in {100 * l + m : l \in R!MonthKeys(end, today), m \in 1 .. 31}
  <2>1. k \in R!MonthKeys(end, today) /\ n \in 1 .. 31 /\ t = 100 * k + n
    BY <1>2, <1>3
  <2>2. QED
    BY <2>1
<1>5. QED
  BY <1>1, <1>4 DEF R!Days

\* Queries of a source that are answered when their period is over.
LEMMA ReadDaily ==
    ASSUME NEW qs \in Seq(Queries), NEW src, NEW start, NEW end \in Nat, NEW deduction,
           AsksFor(qs, src, start, end, deduction), NEW to, NEW when,
           \A i \in 1 .. Len(qs) : when[i] \in DaysOf(end, to)
    PROVE  ReadOn(qs, when, src, end)
<1> SUFFICES ASSUME NEW i \in 1 .. Len(qs), qs[i].source = src
             PROVE  /\ when[i] \in Nat
                    /\ \A d \in Nat : (d <= qs[i].to /\ d <= when[i]) <=> (d <= qs[i].to /\ d <= end)
  BY DEF ReadOn
<1>1. DOMAIN qs = 1 .. Len(qs) /\ qs[i] \in Queries
  OBVIOUS
<1>2. qs[i].to <= end
  BY <1>1 DEF AsksFor
<1>3. qs[i].to \in Nat
  BY <1>1 DEF Queries
<1>4. when[i] \in Nat /\ end <= when[i]
  <2>1. when[i] \in DaysOf(end, to)
    OBVIOUS
  <2>2. R!IsDay(when[i]) /\ end <= when[i]
    BY <2>1 DEF DaysOf
  <2>3. QED
    BY <2>2, DayParts
<1>5. QED
  BY <1>2, <1>3, <1>4

\* One query of a source.
LEMMA ReadLone ==
    ASSUME NEW qs \in Seq(Queries), NEW src, NEW start, NEW end, NEW deduction,
           AsksFor(qs, src, start, end, deduction), Lone(qs, src),
           NEW d \in DatesOf(src), start <= d, d <= end, NEW from, NEW to, NEW when,
           \A i \in 1 .. Len(qs) : when[i] \in DaysOf(from, to)
    PROVE  \E t \in DaysOf(from, to) : ReadOn(qs, when, src, t)
<1>1. DOMAIN qs = 1 .. Len(qs)
  OBVIOUS
<1>2. PICK i \in DOMAIN qs : Has(qs[i], src, d)
  BY DEF AsksFor
<1>3. qs[i].source = src /\ when[i] \in DaysOf(from, to)
  BY <1>1, <1>2 DEF Has
<1>4. \A j \in DOMAIN qs : qs[j].source = src => j = i
  BY <1>2, <1>3 DEF Lone
<1>5. when[i] \in Nat
  <2>1. R!IsDay(when[i])
    BY <1>3 DEF DaysOf
  <2>2. QED
    BY <2>1, DayParts
<1>6. ReadOn(qs, when, src, when[i])
  BY <1>1, <1>4, <1>5 DEF ReadOn
<1>7. QED
  BY <1>3, <1>6

\* The tax in an amount, rounded up.
LEMMA TaxRoundsUp ==
    ASSUME NEW x \in Int
    PROVE  R!IncludedTax(x) = (x + 10) \div 11
<1> PICK q, r : q = x \div 11 /\ r = x % 11
  OBVIOUS
<1>1. q \in Int /\ r \in 0 .. 10 /\ x = 11 * q + r
  OBVIOUS
<1>2. (x * 10) \div 11 = 10 * q + (10 * r) \div 11
  <2>1. x * 10 = 11 * (10 * q) + 10 * r
    BY <1>1
  <2>2. QED
    BY <1>1, <2>1
<1>3. (x + 10) \div 11 = q + (r + 10) \div 11
  BY <1>1
<1>4. r - (10 * r) \div 11 = (r + 10) \div 11
  BY <1>1
<1>5. QED
  BY <1>1, <1>2, <1>3, <1>4 DEF R!IncludedTax

\* The entries of the months of a period are of the period; if it ends today, of days
\* that the sums of the year count.
LEMMA DaysOfPeriod ==
    ASSUME NEW y \in 2000 .. 2100, NEW p, OfYear(p, y), BeginsHalf(p, y),
           NEW d, R!IsDay(d), R!MonthKey(d) \in R!MonthKeys(p[1], p[2])
    PROVE  /\ p[1] <= d /\ d <= CardsEnd(p, y)
           /\ YearFrom(y) <= d /\ d <= YearTo(y)
<1> PICK k : k = R!MonthKey(d)
  OBVIOUS
<1> PICK n : n = R!MonthOf(p[2])
  OBVIOUS
<1>0. R!IsDay(p[1]) /\ R!IsDay(p[2]) /\ R!Year(p[2]) = y
  BY DEF OfYear
<1>1. d \in Nat /\ k \in Nat /\ d = 100 * k + (d % 100) /\ d % 100 \in 1 .. 31 /\ IsMonth(k)
  BY DayParts DEF IsMonth
<1>2. PICK f \in {1, 7} : p[1] = 100 * (100 * y + f) + 1
  BY DEF BeginsHalf, Date
<1>3. R!MonthKey(p[1]) = 100 * y + f
  BY <1>2 DEF R!MonthKey
<1>4. R!MonthKey(p[2]) = 100 * y + n /\ n \in 1 .. 12
  <2>1. /\ IsMonth(R!MonthKey(p[2])) /\ R!Year(p[2]) = R!MonthKey(p[2]) \div 100
        /\ R!MonthOf(p[2]) = R!MonthKey(p[2]) % 100
    BY <1>0, DayParts
  <2>2. QED
    BY <1>0, <2>1, Division DEF IsMonth
<1>5. 100 * y + f <= k /\ k <= 100 * y + n
  BY <1>3, <1>4 DEF R!MonthKeys
<1>6. p[1] <= d /\ YearFrom(y) <= d /\ d <= YearTo(y)
  BY <1>1, <1>2, <1>4, <1>5 DEF YearFrom, YearTo
<1>7. d <= CardsEnd(p, y)
  <2> PICK m : m = 100 * y + 3 * R!QuarterOf(p[2])
    OBVIOUS
  <2>1. R!QuarterOf(p[2]) = (n - 1) \div 3 + 1
    BY DEF R!QuarterOf
  <2>2. IsMonth(m) /\ k <= m
    <3> PICK z : z = 3 * R!QuarterOf(p[2])
      OBVIOUS
    <3>1. z \in n .. 12
      <4>1. z = 3 * ((n - 1) \div 3 + 1)
        BY <2>1
      <4>2. QED
        BY ONLY <1>4, <4>1
    <3>2. m = 100 * y + z /\ y \in Nat
      OBVIOUS
    <3>3. QED
      BY ONLY <1>1, <1>4, <1>5, <3>1, <3>2 DEF IsMonth
  <2>3. Index(k) <= Index(m)
    BY <1>1, <2>2, MonthOrder
  <2>4. d <= R!LastDay(m)
    BY <2>2, <2>3, MonthBounds
  <2>5. QED
    BY <2>4 DEF CardsEnd
<1>8. QED
  BY <1>6, <1>7

\* What was planned has been read, each source on a day.
ReadsPlan(qs, S, plan, books, rows, when, answer, upto, day) ==
    /\ Planned(qs, S, plan) /\ S \cap R!Breakdowns = {}
    /\ AreAnswers(qs, rows, books, when, answer, upto)
    /\ \A src \in S : ReadOn(qs, when, src, day[src])

\* The rows of a source add up to its entries.
LEMMA FiguresAreRight ==
    ASSUME NEW books \in Ledgers, NEW qs, NEW S \in SUBSET (R!Columns \cup {"registry"}), NEW plan,
           NEW when, NEW answer, NEW upto, NEW day,
           ReadsPlan(qs, S, plan, books, got, when, answer, upto, day),
           NEW src, NEW line \in S, line = Behind(src),
           NEW deduction, deduction = Which(src, plan.deduction[line]),
           NEW ks, ks = Int \/ line # "cash_purchase" \/ "cash_purchase" \in S,
           NEW ps, NEW field, IsChoice(books, src, ks, ps, field)
    PROVE  /\ got \in Seq(RowsOf(books))
           /\ LET should == SumOf(Amounts(books, field),
                                  Entries(books, line, deduction, plan.from[line], plan.to[line], day[line], ks, ps))
              IN /\ field \in Figs => R!SumGot(Those(got, src, ks, ps), field) = should
                 /\ field = "rows" => /\ Cardinality(Those(got, src, ks, ps)) = should
                                      /\ IsFiniteSet(Those(got, src, ks, ps))
<1> PICK start, end, asked : start = plan.from[line] /\ end = plan.to[line] /\ asked = plan.deduction[line]
  OBVIOUS
<1> PICK t : t = day[line]
  OBVIOUS
<1> PICK rows : rows = got
  OBVIOUS
<1> PICK E : E = Entries(books, line, deduction, start, end, t, ks, ps)
  OBVIOUS
<1>1. Planned(qs, S, plan) /\ S \cap R!Breakdowns = {} /\ line \in S
  BY DEF ReadsPlan
<1>2. IsPlanned(qs, line, plan)
  BY <1>1 DEF Planned
<1>3. Asked(qs)
  <2>1. \A total \in R!Breakdowns : NoneOf(qs, total)
    BY <1>1 DEF Planned, Sources
  <2>2. qs \in Seq(Queries)
    BY <1>1 DEF Planned
  <2>3. QED
    BY <2>1, <2>2 DEF Asked, NoneOf
<1>4. AreAnswers(qs, rows, books, when, answer, upto) /\ ReadOn(qs, when, line, t)
  BY DEF ReadsPlan
<1>5. AsksFor(qs, line, start, end, asked)
  BY <1>2 DEF IsPlanned
<1>6. ks = Int \/ line # "cash_purchase" \/ Monthly(qs)
  BY <1>2 DEF IsPlanned
<1>7. /\ books \in Ledgers /\ line = Behind(src) /\ line \in R!Columns \cup {"registry"}
      /\ deduction = Which(src, asked)
      /\ IsChoice(books, src, ks, ps, field)
  OBVIOUS
<1>8. /\ rows \in Seq(RowsOf(books))
      /\ Worth(rows, Weight(books, src, ks, ps, field)) = SumOf(Amounts(books, field), E)
  <2>1. E = Entries(books, line, deduction, start, end, t, ks, ps)
    OBVIOUS
  <2>2. QED
    BY ONLY <1>3, <1>4, <1>5, <1>6, <1>7, <2>1, RowsWorthEntries
<1>9. field \in Figs => R!SumGot(Those(got, src, ks, ps), field) = SumOf(Amounts(books, field), E)
  BY <1>7, <1>8, FigureWorth
<1>10. field = "rows" => /\ Cardinality(Those(got, src, ks, ps)) = SumOf(Amounts(books, field), E)
                         /\ IsFiniteSet(Those(got, src, ks, ps))
  BY <1>7, <1>8, NumberWorth
<1>11. QED
  BY <1>8, <1>9, <1>10

\* The sum of a field is that of the amounts.
LEMMA SumIsAmounts ==
    ASSUME NEW books \in Ledgers, NEW E \in SUBSET books, NEW field \in {"total", "tax"}
    PROVE  R!Sum(E, field) = SumOf(Amounts(books, field), E) /\ R!Sum(E, field) \in Int
<1>1. \A e \in E : Field(E, field)[e] = Amounts(books, field)[e]
  BY DEF Field, Amounts
<1>2. SumOf(Field(E, field), E) = SumOf(Amounts(books, field), E)
  BY <1>1, TotalSame
<1>3. AreNumbers(Amounts(books, field), E)
  BY BookFacts DEF AllFigs, Figs
<1>4. QED
  BY <1>2, <1>3, SumIsTotal, TotalTyped

\* The day until which a table counts the entries of a source.
CountsUntil(day, p) == \A s \in Daily : day[s] = p[2]

\* The parties of the books.
LEMMA NamesOf == ASSUME NEW books, NEW e \in books PROVE e.party \in AllNames(books)
  BY DEF AllNames

\* A month alone.
Alone(k) == {k}

\* The entries of a month that were asked for are all of the period and the month.
OfMonth(e, s, k, start, t, deduction) ==
    /\ e.line \in R!LinesOf(s) /\ start <= e.day /\ e.day <= t
    /\ R!Kept(e, deduction)
    /\ R!MonthKey(e.day) = k

\* A month of a table of a year, as planned and read.
IsMonthOf(books, p, y, cards, plan, day, s, k) ==
    /\ books \in Ledgers /\ y \in 2000 .. 2100 /\ OfYear(p, y) /\ BeginsHalf(p, y)
    /\ plan = TablePlan(p, y, cards) /\ CountsUntil(day, p)
    /\ s \in R!Columns /\ k \in R!MonthKeys(p[1], p[2])

\* Such are the entries of a month that were asked for.
LEMMA EntriesOfMonth ==
    ASSUME NEW books, NEW p, NEW y, NEW cards, NEW plan, NEW day, NEW s, NEW k,
           IsMonthOf(books, p, y, cards, plan, day, s, k), NEW deduction, NEW e \in books
    PROVE  e \in Entries(books, s, deduction, plan.from[s], plan.to[s], day[s], Alone(k), AllNames(books))
              <=> OfMonth(e, s, k, p[1], day[s], deduction)
<1> /\ books \in Ledgers /\ y \in 2000 .. 2100 /\ OfYear(p, y) /\ BeginsHalf(p, y)
    /\ plan = TablePlan(p, y, cards) /\ CountsUntil(day, p)
    /\ s \in R!Columns /\ k \in R!MonthKeys(p[1], p[2])
  BY DEF IsMonthOf
<1> PICK from, to, t, d : from = plan.from[s] /\ to = plan.to[s] /\ t = day[s] /\ d = e.day
  OBVIOUS
<1>1. e \in Entries(books, s, deduction, from, to, t, Alone(k), AllNames(books)) <=>
              /\ e.line \in R!LinesOf(s) /\ from <= d /\ d <= to /\ d <= t
              /\ R!Kept(e, deduction)
              /\ R!MonthKey(d) = k
  <2> PICK ks, ps : ks = Alone(k) /\ ps = AllNames(books)
    OBVIOUS
  <2>1. e.party \in ps /\ (R!MonthKey(d) \in ks <=> R!MonthKey(d) = k)
    <3>1. e.party \in AllNames(books)
      BY NamesOf
    <3>2. R!MonthKey(d) \in Alone(k) <=> R!MonthKey(d) = k
      BY DEF Alone
    <3>3. QED
      BY <3>1, <3>2
  <2>2. e \in Entries(books, s, deduction, from, to, t, ks, ps) <=>
              /\ e.line \in R!LinesOf(s) /\ from <= d /\ d <= to /\ d <= t
              /\ R!Kept(e, deduction)
              /\ R!MonthKey(d) \in ks /\ e.party \in ps
    BY DEF Entries
  <2>3. QED
    BY <2>1, <2>2
<1>2. s \in Sources
  BY DEF Sources
<1>3. ASSUME e.line \in R!LinesOf(s), R!MonthKey(d) = k
      PROVE  (from <= d /\ d <= to /\ d <= t) <=> (p[1] <= d /\ d <= t)
  <2>1. R!IsDay(d)
    <3>1. e.day \in DatesOf(s)
      BY <1>3, DatesOfEntries
    <3>2. s # "registry"
      BY DEF R!Columns
    <3>3. QED
      BY <3>1, <3>2 DEF DatesOf
  <2>2. p[1] <= d /\ d <= CardsEnd(p, y) /\ YearFrom(y) <= d /\ d <= YearTo(y)
    BY <1>3, <2>1, DaysOfPeriod
  <2>3. CASE s = "cash_sales"
    <3>1. from = YearFrom(y) /\ to = YearTo(y)
      BY <1>2, <2>3, TableDates
    <3>2. QED
      BY ONLY <2>2, <3>1
  <2>4. CASE s = "card_sales"
    <3>1. from = p[1] /\ to = CardsEnd(p, y)
      BY <1>2, <2>4, TableDates
    <3>2. QED
      BY ONLY <2>2, <3>1
  <2>5. CASE s \notin {"card_sales", "cash_sales"}
    <3>1. from = p[1] /\ to = p[2]
      BY <1>2, <2>5, TableDates
    <3>2. t = p[2]
      BY <2>5 DEF CountsUntil, Daily, R!Columns
    <3>3. QED
      BY ONLY <3>1, <3>2
  <2>6. QED
    BY <2>3, <2>4, <2>5
<1>4. QED
  BY <1>1, <1>3 DEF OfMonth

-----------------------------------------------------------------------------
(***************************************************************************)
(* Tables                                                                  *)
(*                                                                         *)
(* The rows of a source and a month add up to its entries, so the cells,   *)
(* sides and differences of a table do.                                    *)
(***************************************************************************)
\* The rows of a month are those of a source, of whatever party.
LEMMA RowsOfMonth ==
    ASSUME NEW books, got \in Seq(RowsOf(books)), NEW src, NEW k
    PROVE  {i \in R!Collected(src) : got[i].month = k} = Those(got, src, Alone(k), AllNames(books))
<1>1. \A i \in DOMAIN got : got[i].party \in AllNames(books)
  <2>1. \A r \in RowsOf(books) : r.party \in AllNames(books)
    BY DEF RowsOf, AllNames
  <2>2. \A i \in DOMAIN got : got[i] \in RowsOf(books)
    OBVIOUS
  <2>3. QED
    BY <2>1, <2>2
<1>2. \A m : m \in Alone(k) <=> m = k
  BY DEF Alone
<1>3. QED
  BY <1>1, <1>2 DEF R!Collected, Those

\* What a table is made of: the queries of its period, answered.
IsTable(c, y, books, qs, plan, when, answer, upto, day) ==
    /\ books \in Ledgers /\ c.kind \in {"revenue", "vat"} /\ y \in 2000 .. 2100
    /\ OfYear(command.period, y) /\ BeginsHalf(command.period, y)
    /\ plan = TablePlan(command.period, y, OfCards(c))
    /\ CountsUntil(day, command.period)
    /\ ReadsPlan(qs, R!Columns, plan, books, got, when, answer, upto, day)

\* Which entries of a source a table counts, and whose rows.
Deductible(c, s) ==
    IF c.kind = "vat" /\ s \in {"business_card", "cash_purchase"} THEN "deductible" ELSE "all"
\* Whose rows it adds up.
RowsFor(c, s) == IF c.kind = "vat" /\ s = "cash_purchase" THEN "deductible_total" ELSE s

\* The plan asks for these: the deductible total comes with every cash purchase.
LEMMA DeductibleOnes ==
    ASSUME NEW c, NEW p, NEW y, NEW plan, plan = TablePlan(p, y, OfCards(c)), NEW s \in R!Columns
    PROVE  /\ Which(RowsFor(c, s), plan.deduction[s]) = Deductible(c, s)
           /\ Behind(RowsFor(c, s)) = s
<1>1. s \in Sources /\ s \notin R!Breakdowns
  BY DEF Sources, R!Columns, R!Breakdowns
<1>2. Behind(RowsFor(c, s)) = s
  BY <1>1 DEF Behind, RowsFor, R!Breakdowns
<1> PICK asked : asked = plan.deduction[s]
  OBVIOUS
<1>3. CASE s = "business_card"
  <2>1. asked = OfCards(c)
    BY <1>1, <1>3, TableDates
  <2>2. RowsFor(c, s) = s /\ s \notin R!Breakdowns
    BY <1>3 DEF RowsFor, R!Breakdowns
  <2>3. Which(s, asked) = asked
    BY <2>2 DEF Which
  <2>4. Deductible(c, s) = OfCards(c)
    BY <1>3 DEF Deductible, OfCards, Every
  <2>5. QED
    BY <1>2, <2>1, <2>2, <2>3, <2>4
<1>4. CASE s # "business_card"
  <2>1. asked = Every
    BY <1>1, <1>4, TableDates
  <2>2. CASE c.kind = "vat" /\ s = "cash_purchase"
    <3>1. RowsFor(c, s) = "deductible_total" /\ Deductible(c, s) = "deductible"
      BY <2>2 DEF RowsFor, Deductible
    <3>2. Which("deductible_total", asked) = "deductible"
      BY DEF Which, R!Breakdowns, R!Counts
    <3>3. QED
      BY <1>2, <3>1, <3>2
  <2>3. CASE ~(c.kind = "vat" /\ s = "cash_purchase")
    <3>1. RowsFor(c, s) = s
      BY <2>3 DEF RowsFor
    <3>2. Deductible(c, s) = Every
      BY <1>4, <2>3 DEF Deductible, Every
    <3>3. Which(s, asked) = asked
      BY <1>1 DEF Which
    <3>4. QED
      BY <1>2, <2>1, <3>1, <3>2, <3>3
  <2>4. QED
    BY <2>2, <2>3
<1>5. QED
  BY <1>3, <1>4

\* The rows of a source and a month add up to its entries.
LEMMA MonthIsRight ==
    ASSUME NEW c, NEW y, NEW qs, NEW plan, NEW when, NEW answer, NEW upto, NEW day,
           IsTable(c, y, ledger, qs, plan, when, answer, upto, day),
           NEW s \in R!Columns, NEW k \in R!MonthKeys(command.period[1], command.period[2]),
           NEW field \in {"total", "tax"}
    PROVE  LET E == {e \in R!InLedger(R!LinesOf(s), command.period[1], day[s], Deductible(c, s)) :
                        R!MonthKey(e.day) = k}
           IN /\ R!SumGot({i \in R!Collected(RowsFor(c, s)) : got[i].month = k}, field) = R!Sum(E, field)
              /\ R!Sum(E, field) \in Int
<1> PICK books : books = ledger
  OBVIOUS
<1> PICK p : p = command.period
  OBVIOUS
<1> PICK src : src = RowsFor(c, s)
  OBVIOUS
<1> PICK ks, ps : ks = Alone(k) /\ ps = AllNames(books)
  OBVIOUS
<1> PICK deduction : deduction = Deductible(c, s)
  OBVIOUS
<1> DEFINE E == {e \in R!InLedger(R!LinesOf(s), p[1], day[s], deduction) : R!MonthKey(e.day) = k}
<1> DEFINE F == Entries(books, s, deduction, plan.from[s], plan.to[s], day[s], ks, ps)
<1>1. /\ books \in Ledgers /\ y \in 2000 .. 2100 /\ OfYear(p, y) /\ BeginsHalf(p, y)
      /\ plan = TablePlan(p, y, OfCards(c)) /\ CountsUntil(day, p)
      /\ ReadsPlan(qs, R!Columns, plan, books, got, when, answer, upto, day)
  BY DEF IsTable
<1>2. deduction = Which(src, plan.deduction[s]) /\ Behind(src) = s
  BY <1>1, DeductibleOnes
<1> HIDE DEF E, F
<1>3. \A e \in books : e \in F <=> OfMonth(e, s, k, p[1], day[s], deduction)
  <2>1. F = Entries(books, s, deduction, plan.from[s], plan.to[s], day[s], Alone(k), AllNames(books))
    BY DEF F
  <2> PICK cards : cards = OfCards(c)
    OBVIOUS
  <2>2. IsMonthOf(books, p, y, cards, plan, day, s, k)
    BY <1>1 DEF IsMonthOf
  <2>3. \A e \in books : e \in Entries(books, s, deduction, plan.from[s], plan.to[s], day[s], Alone(k), AllNames(books))
                             <=> OfMonth(e, s, k, p[1], day[s], deduction)
    BY ONLY <2>2, EntriesOfMonth
  <2>4. QED
    BY <2>1, <2>3
<1>4. E = F
  <2>1. F \in SUBSET books
    BY DEF F, Entries
  <2>2. E = {e \in books : OfMonth(e, s, k, p[1], day[s], deduction)}
    BY DEF E, R!InLedger, OfMonth
  <2>3. QED
    BY <1>3, <2>1, <2>2
<1>5. IsChoice(books, src, ks, ps, field)
  BY DEF IsChoice, AllFigs, Figs
<1>6. got \in Seq(RowsOf(books)) /\ R!SumGot(Those(got, src, ks, ps), field) = SumOf(Amounts(books, field), F)
  <2>1. /\ R!Columns \in SUBSET (R!Columns \cup {"registry"})
        /\ ks = Int \/ s # "cash_purchase" \/ "cash_purchase" \in R!Columns
        /\ s \in R!Columns /\ field \in Figs
    BY DEF R!Columns, Figs
  <2>2. QED
    BY <1>1, <1>2, <1>5, <2>1, FiguresAreRight DEF F
<1>7. {i \in R!Collected(src) : got[i].month = k} = Those(got, src, ks, ps)
  BY <1>6, RowsOfMonth
<1>8. R!Sum(F, field) = SumOf(Amounts(books, field), F) /\ R!Sum(F, field) \in Int
  <2>1. F \in SUBSET books
    BY DEF F, Entries
  <2>2. QED
    BY <1>1, <2>1, SumIsAmounts
<1>9. QED
  BY <1>4, <1>6, <1>7, <1>8 DEF E

\* A table says of a source and a month what it should.
LEMMA CellIsRight ==
    ASSUME NEW c, NEW y, NEW qs, NEW plan, NEW when, NEW answer, NEW upto, NEW day,
           IsTable(c, y, ledger, qs, plan, when, answer, upto, day),
           NEW s \in R!Columns, NEW k \in R!MonthKeys(command.period[1], command.period[2])
    PROVE  R!MonthlyTotal(c.kind, s, k) = R!ShouldBe(c.kind, s, k, day[s])
<1> DEFINE E == {e \in R!InLedger(R!LinesOf(s), command.period[1], day[s], Deductible(c, s)) :
                    R!MonthKey(e.day) = k}
           I == {i \in R!Collected(RowsFor(c, s)) : got[i].month = k}
<1>1. \A field \in {"total", "tax"} : R!SumGot(I, field) = R!Sum(E, field) /\ R!Sum(E, field) \in Int
  BY MonthIsRight
<1>2. R!MonthlyTotal(c.kind, s, k) =
          CASE c.kind # "vat" -> R!SumGot(I, "total")
            [] c.kind = "vat" /\ s = "card_sales" -> R!IncludedTax(R!SumGot(I, "total"))
            [] OTHER -> R!SumGot(I, "tax")
  BY DEF R!MonthlyTotal, RowsFor
<1>3. R!ShouldBe(c.kind, s, k, day[s]) =
          CASE c.kind # "vat" -> R!Sum(E, "total")
            [] c.kind = "vat" /\ s = "card_sales" -> (R!Sum(E, "total") + 10) \div 11
            [] OTHER -> R!Sum(E, "tax")
  BY DEF R!ShouldBe, Deductible
<1> HIDE DEF E, I
<1> PICK total, tax : total = R!Sum(E, "total") /\ tax = R!Sum(E, "tax")
  OBVIOUS
<1>4. R!SumGot(I, "total") = total /\ R!SumGot(I, "tax") = tax /\ total \in Int
  BY <1>1
<1>5. CASE c.kind # "vat"
  BY <1>2, <1>3, <1>4, <1>5
<1>6. CASE c.kind = "vat" /\ s = "card_sales"
  <2>1. R!MonthlyTotal(c.kind, s, k) = R!IncludedTax(total)
    BY <1>2, <1>4, <1>6
  <2>2. R!ShouldBe(c.kind, s, k, day[s]) = (total + 10) \div 11
    BY <1>3, <1>6
  <2>3. QED
    BY <1>4, <2>1, <2>2, TaxRoundsUp
<1>7. CASE c.kind = "vat" /\ s # "card_sales"
  BY <1>2, <1>3, <1>4, <1>7
<1>8. QED
  BY <1>5, <1>6, <1>7

\* What a column of a table should say of a source.
ColumnSays(column, c, M, day) ==
    /\ \A s \in R!Columns : column.cell[s] = R!Cell(c, M, s, day)
    /\ column.net = R!Side(c, M, R!SaleColumns, day) - R!Side(c, M, R!Columns \ R!SaleColumns, day)

\* _side adds up what monthly_totals says.
LEMMA SidesAreRight ==
    ASSUME NEW c, NEW y, NEW qs, NEW plan, NEW when, NEW answer, NEW upto, NEW day,
           IsTable(c, y, ledger, qs, plan, when, answer, upto, day),
           NEW M \in SUBSET R!MonthKeys(command.period[1], command.period[2])
    PROVE  ColumnSays(R!Sides(c.kind, M), c, M, day)
<1> DEFINE cell == [s \in R!Columns |-> R!SumFunction([k \in M |-> R!MonthlyTotal(c.kind, s, k)])]
           total(side) == R!SumFunction([s \in side |-> cell[s]])
<1>1. R!Sides(c.kind, M) =
         [cell |-> cell, sales |-> total(R!SaleColumns), purchases |-> total(R!Columns \ R!SaleColumns),
          net |-> total(R!SaleColumns) - total(R!Columns \ R!SaleColumns)]
  BY DEF R!Sides
<1>2. \A s \in R!Columns : cell[s] = R!Cell(c, M, s, day)
  <2> TAKE s \in R!Columns
  <2>1. \A k \in M : R!MonthlyTotal(c.kind, s, k) = R!ShouldBe(c.kind, s, k, day[s])
    BY CellIsRight
  <2>2. [k \in M |-> R!MonthlyTotal(c.kind, s, k)] = [k \in M |-> R!ShouldBe(c.kind, s, k, day[s])]
    BY <2>1
  <2>3. cell[s] = R!SumFunction([k \in M |-> R!MonthlyTotal(c.kind, s, k)])
    OBVIOUS
  <2>4. QED
    BY <2>2, <2>3 DEF R!Cell
<1> HIDE DEF cell
<1>3. \A S \in SUBSET R!Columns : total(S) = R!Side(c, M, S, day)
  <2> TAKE S \in SUBSET R!Columns
  <2>1. [s \in S |-> cell[s]] = [s \in S |-> R!Cell(c, M, s, day)]
    BY <1>2
  <2>2. QED
    BY <2>1 DEF R!Side
<1> HIDE DEF total
<1>4. R!SaleColumns \in SUBSET R!Columns /\ R!Columns \ R!SaleColumns \in SUBSET R!Columns
  BY DEF R!SaleColumns, R!Columns
<1>5. /\ R!Sides(c.kind, M).cell = cell
      /\ R!Sides(c.kind, M).net = total(R!SaleColumns) - total(R!Columns \ R!SaleColumns)
  BY <1>1
<1>6. /\ total(R!SaleColumns) = R!Side(c, M, R!SaleColumns, day)
      /\ total(R!Columns \ R!SaleColumns) = R!Side(c, M, R!Columns \ R!SaleColumns, day)
  BY <1>3, <1>4
<1>7. QED
  BY <1>2, <1>5, <1>6 DEF ColumnSays

\* A report of columns.
TableSays(table, c, day) == \A M \in DOMAIN table : ColumnSays(table[M], c, M, day)

\* Each column of a table says what it should.
LEMMA TableIsSaid ==
    ASSUME NEW c, NEW y, NEW qs, NEW plan, NEW when, NEW answer, NEW upto, NEW day,
           IsTable(c, y, ledger, qs, plan, when, answer, upto, day),
           NEW table,
           table = [M \in R!TableOf(c.kind, R!MonthKeys(command.period[1], command.period[2]))
                      |-> R!Sides(c.kind, M)]
    PROVE  TableSays(table, c, day)
<1>1. \A months : \A M \in R!TableOf(c.kind, months) : M \in SUBSET months
  BY DEF R!TableOf
<1> PICK months : months = R!MonthKeys(command.period[1], command.period[2])
  OBVIOUS
<1>2. ASSUME NEW M \in DOMAIN table PROVE ColumnSays(table[M], c, M, day)
  <2>1. M \in R!TableOf(c.kind, months) /\ table[M] = R!Sides(c.kind, M)
    BY <1>2
  <2>2. M \in SUBSET R!MonthKeys(command.period[1], command.period[2])
    BY <1>1, <2>1
  <2>3. ColumnSays(R!Sides(c.kind, M), c, M, day)
    BY <2>2, SidesAreRight
  <2>4. QED
    BY <2>1, <2>3
<1>3. QED
  BY <1>2 DEF TableSays

\* A table stays right while the ledger and the command stay, and with more days to
\* choose from.
LEMMA ShouldStay ==
    ASSUME UNCHANGED <<ledger, command>>
    PROVE  /\ \A c, M, s, day : R!Cell(c, M, s, day)' = R!Cell(c, M, s, day)
           /\ \A c, M, S, day : R!Side(c, M, S, day)' = R!Side(c, M, S, day)
<1>1. \A lines, from, to, deduction : R!InLedger(lines, from, to, deduction)' = R!InLedger(lines, from, to, deduction)
  BY DEF R!InLedger
<1>2. \A kind, s, k, t : R!ShouldBe(kind, s, k, t)' = R!ShouldBe(kind, s, k, t)
  <2> TAKE kind, s, k, t
  <2>1. command'.period = command.period
    OBVIOUS
  <2>2. QED
    BY <1>1, <2>1 DEF R!ShouldBe
<1>3. \A c, M, s, day : R!Cell(c, M, s, day)' = R!Cell(c, M, s, day)
  <2> TAKE c, M, s, day
  <2>1. [k \in M |-> R!ShouldBe(c.kind, s, k, day[s])'] = [k \in M |-> R!ShouldBe(c.kind, s, k, day[s])]
    BY <1>2
  <2>2. QED
    BY <2>1 DEF R!Cell
<1>4. \A c, M, S, day : R!Side(c, M, S, day)' = R!Side(c, M, S, day)
  <2> TAKE c, M, S, day
  <2>1. [s \in S |-> R!Cell(c, M, s, day)'] = [s \in S |-> R!Cell(c, M, s, day)]
    BY <1>3
  <2>2. QED
    BY <2>1 DEF R!Side
<1>5. QED
  BY <1>3, <1>4

\* A table is right on some days.
LEMMA TableRight ==
    ASSUME NEW c
    PROVE  R!TableIsRight(c) <=> \E t, u \in R!Days : TableSays(report, c, R!DaysUntil(t, u))
BY DEF R!TableIsRight, TableSays, ColumnSays

\* What is true of the next table makes it right.
LEMMA TableRightNext ==
    ASSUME UNCHANGED <<ledger, command>>, NEW c, NEW t, t \in R!Days', NEW u, u \in R!Days',
           TableSays(report', c, R!DaysUntil(t, u))
    PROVE  R!TableIsRight(c)'
<1>1. /\ \A M, s, day : R!Cell(c, M, s, day)' = R!Cell(c, M, s, day)
      /\ \A M, S, day : R!Side(c, M, S, day)' = R!Side(c, M, S, day)
  BY ShouldStay
<1> PICK day : day = R!DaysUntil(t, u)
  OBVIOUS
<1>2. R!DaysUntil(t, u)' = day
  <2>1. command'.period = command.period
    OBVIOUS
  <2>2. QED
    BY <2>1 DEF R!DaysUntil
<1> PICK table : table = report'
  OBVIOUS
<1>3. \A M \in DOMAIN table :
          /\ \A s \in R!Columns : table[M].cell[s] = R!Cell(c, M, s, day)'
          /\ table[M].net = R!Side(c, M, R!SaleColumns, day)'
                              - R!Side(c, M, R!Columns \ R!SaleColumns, day)'
  BY <1>1 DEF TableSays, ColumnSays
<1>4. QED
  BY <1>2, <1>3 DEF R!TableIsRight

-----------------------------------------------------------------------------
(***************************************************************************)
(* A table that is printed                                                 *)
(***************************************************************************)
\* All queries of a command have been answered.
IsRead(c, qs) ==
    /\ ledger \in Ledgers /\ R!IsDay(today)
    /\ qs = R!WorkOver(c, command.period)
    /\ Gathered(qs, got, ledger, command.period[2], today)

\* The period of a command is of its year.
InYear(c) ==
    /\ c.year \in 2000 .. 2100
    /\ FitsYear(command.period, c.year) /\ BeginsHalf(command.period, c.year)

\* The first day of a period is one of its year.
LEMMA FirstOfPeriod ==
    ASSUME NEW y \in 2000 .. 2100, NEW p, OfYear(p, y), BeginsHalf(p, y)
    PROVE  /\ p[1] \in DatesOf("card_sales") /\ p[1] \in DatesOf("cash_sales")
           /\ p[1] <= CardsEnd(p, y) /\ YearFrom(y) <= p[1] /\ p[1] <= YearTo(y)
           /\ p[2] \in Nat /\ R!IsDay(p[2])
<1>1. R!IsDay(p[1]) /\ R!IsDay(p[2]) /\ p[1] <= p[2]
  BY DEF OfYear
<1> PICK k, l : k = R!MonthKey(p[1]) /\ l = R!MonthKey(p[2])
  OBVIOUS
<1>2. k <= l /\ IsMonth(k) /\ IsMonth(l) /\ p[1] \in Nat /\ p[2] \in Nat
  BY <1>1, DayParts, DayOrder
<1>3. k \in R!MonthKeys(p[1], p[2])
  BY <1>2 DEF R!MonthKeys, IsMonth
<1>4. p[1] <= CardsEnd(p, y) /\ YearFrom(y) <= p[1] /\ p[1] <= YearTo(y)
  BY <1>1, <1>3, DaysOfPeriod
<1>5. p[1] \in DatesOf("card_sales") /\ p[1] \in DatesOf("cash_sales")
  BY <1>1, <1>2 DEF DatesOf
<1>6. QED
  BY <1>1, <1>2, <1>4, <1>5

\* The queries of a table have been answered on days of which each counts.
LEMMA TableIsRead ==
    ASSUME NEW c, c.kind \in {"revenue", "vat"}, NEW qs, IsRead(c, qs), InYear(c)
    PROVE  \E t, u \in R!Days : \E plan, when, answer, upto :
              IsTable(c, c.year, ledger, qs, plan, when, answer, upto, R!DaysUntil(t, u))
<1> PICK y : y = c.year
  OBVIOUS
<1> PICK p : p = command.period
  OBVIOUS
<1>1. y \in 2000 .. 2100 /\ OfYear(p, y) /\ BeginsHalf(p, y) /\ p[2] <= today /\ y <= R!Year(today)
  BY DEF InYear, FitsYear
<1> PICK plan : plan = TablePlan(p, y, OfCards(c))
  OBVIOUS
<1>2. Planned(qs, R!Columns, plan)
  BY <1>1, TableAsks DEF IsRead
<1>3. Gathered(qs, got, ledger, p[2], today)
  BY DEF IsRead
<1>4. PICK when, answer, upto :
          /\ \A i \in 1 .. Len(qs) : when[i] \in DaysOf(p[2], today)
          /\ AreAnswers(qs, got, ledger, when, answer, upto)
  BY <1>3, GatheredAnswers
<1>5. qs \in Seq(Queries) /\ \A src \in R!Columns : IsPlanned(qs, src, plan)
  BY <1>2 DEF Planned
<1>6. /\ p[1] \in DatesOf("card_sales") /\ p[1] \in DatesOf("cash_sales")
      /\ p[1] <= CardsEnd(p, y) /\ YearFrom(y) <= p[1] /\ p[1] <= YearTo(y)
      /\ p[2] \in Nat /\ R!IsDay(p[2])
  BY <1>1, FirstOfPeriod
<1>7. "card_sales" \in R!Columns /\ "cash_sales" \in R!Columns /\ R!Columns \in SUBSET Sources
  BY DEF R!Columns, Sources
<1> PICK deduction : deduction = Every
  OBVIOUS
<1>8. PICK t \in DaysOf(p[2], today) : ReadOn(qs, when, "card_sales", t)
  <2>1. IsPlanned(qs, "card_sales", plan)
    BY <1>5, <1>7
  <2> PICK start, end, which : /\ start = plan.from["card_sales"] /\ end = plan.to["card_sales"]
                               /\ which = plan.deduction["card_sales"]
    OBVIOUS
  <2>2. start = p[1] /\ end = CardsEnd(p, y)
    BY <1>7, TableDates
  <2>3. AsksFor(qs, "card_sales", start, end, which) /\ Lone(qs, "card_sales")
    BY <2>1 DEF IsPlanned
  <2>4. start <= p[1] /\ p[1] <= end
    <3>1. p[1] \in Nat
      BY <1>1, DayParts DEF OfYear
    <3>2. QED
      BY <1>6, <2>2, <3>1
  <2>5. QED
    BY <1>4, <1>5, <1>6, <2>3, <2>4, ReadLone
<1>9. PICK u \in DaysOf(p[2], today) : ReadOn(qs, when, "cash_sales", u)
  <2>1. IsPlanned(qs, "cash_sales", plan)
    BY <1>5, <1>7
  <2> PICK start, end, which : /\ start = plan.from["cash_sales"] /\ end = plan.to["cash_sales"]
                               /\ which = plan.deduction["cash_sales"]
    OBVIOUS
  <2>2. start = YearFrom(y) /\ end = YearTo(y)
    BY <1>7, TableDates
  <2>3. AsksFor(qs, "cash_sales", start, end, which) /\ Lone(qs, "cash_sales")
    BY <2>1 DEF IsPlanned
  <2>4. start <= p[1] /\ p[1] <= end
    BY <1>6, <2>2
  <2>5. QED
    BY <1>4, <1>5, <1>6, <2>3, <2>4, ReadLone
<1> PICK day : day = R!DaysUntil(t, u)
  OBVIOUS
<1>10. day["card_sales"] = t /\ day["cash_sales"] = u /\ \A s \in Daily : day[s] = p[2]
  BY DEF R!DaysUntil, Daily, R!Columns
<1>11. \A s \in R!Columns : ReadOn(qs, when, s, day[s])
  <2> TAKE s \in R!Columns
  <2>1. CASE s \in Daily
    <3>1. IsPlanned(qs, s, plan)
      BY <1>5
    <3> PICK start, end, which : /\ start = plan.from[s] /\ end = plan.to[s] /\ which = plan.deduction[s]
      OBVIOUS
    <3>2. end = p[2]
      <4>1. s \notin {"card_sales", "cash_sales"} /\ s \in Sources
        BY <1>7, <2>1 DEF Daily
      <4>2. QED
        BY <4>1, TableDates
    <3>3. AsksFor(qs, s, start, end, which)
      BY <3>1 DEF IsPlanned
    <3>4. ReadOn(qs, when, s, end)
      BY <1>4, <1>5, <1>6, <3>2, <3>3, ReadDaily
    <3>5. QED
      BY <1>10, <2>1, <3>2, <3>4
  <2>2. CASE s = "card_sales"
    BY <1>8, <1>10, <2>2
  <2>3. CASE s = "cash_sales"
    BY <1>9, <1>10, <2>3
  <2>4. QED
    BY <2>1, <2>2, <2>3 DEF Daily, R!Columns
<1>12. t \in R!Days /\ u \in R!Days
  BY <1>6, <1>8, <1>9, DaysRead DEF IsRead
<1>13. R!Columns \cap R!Breakdowns = {}
  BY DEF R!Columns, R!Breakdowns
<1>14. ReadsPlan(qs, R!Columns, plan, ledger, got, when, answer, upto, day)
  BY <1>2, <1>4, <1>11, <1>13 DEF ReadsPlan
<1>15. IsTable(c, y, ledger, qs, plan, when, answer, upto, day)
  <2>1. CountsUntil(day, p)
    BY <1>10 DEF CountsUntil
  <2>2. ledger \in Ledgers
    BY DEF IsRead
  <2>3. QED
    BY <1>1, <1>14, <2>1, <2>2 DEF IsTable
<1>16. QED
  BY <1>12, <1>15

\* A table that is printed is right.
LEMMA BuildsTable ==
    ASSUME NEW c, c = command.of, c.kind \in {"revenue", "vat"}, NEW qs, IsRead(c, qs), InYear(c),
           R!Build
    PROVE  R!TableIsRight(c)'
<1>1. PICK t \in R!Days, u \in R!Days : \E plan, when, answer, upto :
          IsTable(c, c.year, ledger, qs, plan, when, answer, upto, R!DaysUntil(t, u))
  BY TableIsRead
<1>7. PICK plan, when, answer, upto :
          IsTable(c, c.year, ledger, qs, plan, when, answer, upto, R!DaysUntil(t, u))
  BY <1>1
<1>2. report' = [M \in R!TableOf(c.kind, R!MonthKeys(command.period[1], command.period[2]))
                      |-> R!Sides(c.kind, M)]
  BY DEF R!Build
<1>3. TableSays(report', c, R!DaysUntil(t, u))
  <2> PICK y, day, table : y = c.year /\ day = R!DaysUntil(t, u) /\ table = report'
    OBVIOUS
  <2>1. IsTable(c, y, ledger, qs, plan, when, answer, upto, day)
    BY <1>7
  <2>2. QED
    BY <1>2, <2>1, TableIsSaid
<1>4. UNCHANGED <<ledger, command, today>>
  BY DEF R!Build
<1>5. t \in R!Days' /\ u \in R!Days'
  <2>1. R!Days' = R!Days
    BY <1>4 DEF R!Days
  <2>2. QED
    BY <2>1
<1>6. QED
  BY <1>3, <1>4, <1>5, TableRightNext

-----------------------------------------------------------------------------
(***************************************************************************)
(* Counterparties                                                          *)
(*                                                                         *)
(* Invoices come one to a row, so rows of a counterparty can be counted,   *)
(* and the months in which it is active.                                   *)
(***************************************************************************)
\* The two directions of a report by counterparty.
Sided == {"sales", "purchases"}
\* The one of that name.
Named(n) == {n}

\* The entries of a counterparty in some months of a period.
OfParty(books, d, p, ks, n) ==
    {e \in books : /\ e.line = d /\ p[1] <= e.day /\ e.day <= p[2]
                   /\ R!MonthKey(e.day) \in ks /\ e.party = n}

\* What has been read for a report by counterparty.
IsBusiness(books, p, qs, plan, when, answer, upto, day) ==
    /\ books \in Ledgers /\ \A d \in Sided : day[d] = p[2]
    /\ \A d \in Sided : plan.from[d] = p[1] /\ plan.to[d] = p[2] /\ plan.deduction[d] = Every
    /\ ReadsPlan(qs, Sided, plan, books, got, when, answer, upto, day)

\* These are the entries that were asked for.
LEMMA EntriesOfParty ==
    ASSUME NEW books, NEW d \in Sided, NEW p, NEW ks, NEW n, NEW deduction, deduction = Every
    PROVE  Entries(books, d, deduction, p[1], p[2], p[2], ks, Named(n)) = OfParty(books, d, p, ks, n)
<1>1. R!LinesOf(d) = {d}
  BY DEF R!LinesOf, Sided
<1>2. \A e : e.line \in R!LinesOf(d) <=> e.line = d
  BY <1>1
<1>3. \A e : e.party \in Named(n) <=> e.party = n
  BY DEF Named
<1>4. \A e : R!Kept(e, deduction)
  BY DEF Every, R!Kept
<1>5. QED
  BY <1>2, <1>3, <1>4 DEF Entries, OfParty

\* A counterparty has as many rows as entries, with the same total.
LEMMA PartyRows ==
    ASSUME NEW books, NEW p, NEW qs, NEW plan, NEW when, NEW answer, NEW upto, NEW day,
           IsBusiness(books, p, qs, plan, when, answer, upto, day),
           NEW d \in Sided, NEW ks, NEW n
    PROVE  LET rows == Those(got, d, ks, Named(n))
               of == OfParty(books, d, p, ks, n)
           IN /\ IsFiniteSet(rows) /\ IsFiniteSet(of)
              /\ Cardinality(rows) = Cardinality(of)
              /\ R!SumGot(rows, "total") = R!Sum(of, "total")
<1> PICK ps, rows, of : /\ ps = Named(n) /\ rows = Those(got, d, ks, ps)
                        /\ of = OfParty(books, d, p, ks, n)
  OBVIOUS
<1> PICK deduction : deduction = plan.deduction[d]
  OBVIOUS
<1>1. /\ books \in Ledgers /\ day[d] = p[2] /\ plan.from[d] = p[1] /\ plan.to[d] = p[2]
      /\ deduction = Every
      /\ ReadsPlan(qs, Sided, plan, books, got, when, answer, upto, day)
  BY DEF IsBusiness
<1>2. Entries(books, d, deduction, plan.from[d], plan.to[d], day[d], ks, ps) = of
  BY <1>1, EntriesOfParty
<1>3. deduction = Which(d, plan.deduction[d]) /\ d = Behind(d) /\ d \in {"sales", "purchases"}
  BY DEF Which, Behind, Sided, R!Breakdowns
<1>4. \A field \in AllFigs : IsChoice(books, d, ks, ps, field)
  BY <1>3 DEF IsChoice
<1>5. Sided \in SUBSET (R!Columns \cup {"registry"}) /\ d # "cash_purchase"
  BY DEF R!Columns, Sided
<1>6. \A field \in AllFigs :
        LET should == SumOf(Amounts(books, field), of) IN
        /\ field \in Figs => R!SumGot(Those(got, d, ks, ps), field) = should
        /\ field = "rows" => /\ Cardinality(Those(got, d, ks, ps)) = should
                             /\ IsFiniteSet(Those(got, d, ks, ps))
  <2> TAKE field \in AllFigs
  <2>1. IsChoice(books, d, ks, ps, field)
    BY <1>4
  <2>2. ks = Int \/ d # "cash_purchase" \/ "cash_purchase" \in Sided
    BY <1>5
  <2>3. LET should == SumOf(Amounts(books, field),
                            Entries(books, d, deduction, plan.from[d], plan.to[d], day[d], ks, ps))
        IN /\ field \in Figs => R!SumGot(Those(got, d, ks, ps), field) = should
           /\ field = "rows" => /\ Cardinality(Those(got, d, ks, ps)) = should
                                /\ IsFiniteSet(Those(got, d, ks, ps))
    BY <1>1, <1>3, <1>5, <2>1, <2>2, FiguresAreRight
  <2>4. QED
    BY <1>2, <2>3
<1>7. "total" \in Figs /\ "total" \in AllFigs /\ "rows" \in AllFigs
  BY DEF Figs, AllFigs
<1>8. of \in SUBSET books
  BY DEF OfParty
<1>9. IsFiniteSet(of)
  BY <1>1, <1>8, BookFacts
<1>10. SumOf(Amounts(books, "rows"), of) = Cardinality(of)
  <2>1. \A e \in of : Amounts(books, "rows")[e] = 1
    BY <1>8 DEF Amounts
  <2>2. QED
    BY <1>9, <2>1, TotalOnes
<1>11. R!Sum(of, "total") = SumOf(Amounts(books, "total"), of)
  BY <1>1, <1>8, SumIsAmounts
<1>12. QED
  BY <1>6, <1>7, <1>9, <1>10, <1>11

\* Three of a set of numbers.
LEMMA ThreeOf ==
    ASSUME NEW T \in SUBSET Int, IsFiniteSet(T)
    PROVE  Cardinality(T) >= 3 <=> \E j, k, l \in T : j < k /\ k < l
<1>1. Cardinality(T) \in Nat
  BY FS_CardinalityType
<1>2. ASSUME NEW j \in T, NEW k \in T, NEW l \in T, j < k, k < l
      PROVE  Cardinality(T) >= 3
  <2>1. l \notin {} /\ IsFiniteSet({}) /\ Cardinality({}) = 0
    BY FS_EmptySet
  <2> PICK A, B : A = {l} /\ B = {k, l}
    OBVIOUS
  <2>2. IsFiniteSet(A) /\ Cardinality(A) = 1
    BY FS_Singleton
  <2>3. k \notin A /\ A \cup {k} = B
    BY <1>2
  <2>4. IsFiniteSet(B) /\ Cardinality(B) = 2
    <3>1. IsFiniteSet(A \cup {k}) /\ Cardinality(A \cup {k}) = Cardinality(A) + 1
      BY <2>2, <2>3, FS_AddElement
    <3>2. QED
      BY <2>2, <2>3, <3>1
  <2>5. j \notin B /\ B \cup {j} \in SUBSET T
    BY <1>2
  <2>6. Cardinality(B \cup {j}) = 3
    BY <2>4, <2>5, FS_AddElement
  <2>7. Cardinality(B \cup {j}) <= Cardinality(T)
    BY <2>5, FS_Subset
  <2>8. QED
    BY <1>1, <2>6, <2>7
<1>3. ASSUME Cardinality(T) >= 3
      PROVE  \E j, k, l \in T : j < k /\ k < l
  <2>1. T # {}
    BY <1>3, FS_EmptySet
  <2>2. PICK x \in T : TRUE
    BY <2>1
  <2> PICK U : U = T \ {x}
    OBVIOUS
  <2>3. IsFiniteSet(U) /\ Cardinality(U) = Cardinality(T) - 1
    BY <2>2, FS_RemoveElement
  <2>4. Cardinality(U) # 0
    BY <1>1, <1>3, <2>3
  <2>5. PICK z \in U : TRUE
    BY <2>4, FS_EmptySet
  <2> PICK V : V = U \ {z}
    OBVIOUS
  <2>6. IsFiniteSet(V) /\ Cardinality(V) = Cardinality(U) - 1
    BY <2>3, <2>5, FS_RemoveElement
  <2>7. Cardinality(V) # 0
    BY <1>1, <1>3, <2>3, <2>6
  <2>8. PICK w \in V : TRUE
    BY <2>7, FS_EmptySet
  <2>9. x \in T /\ z \in T /\ w \in T /\ x # z /\ x # w /\ z # w
    BY <2>2, <2>5, <2>8
  <2>10. x \in Int /\ z \in Int /\ w \in Int
    BY <2>9
  <2>11. \/ (x < z /\ z < w) \/ (x < w /\ w < z)
         \/ (z < x /\ x < w) \/ (z < w /\ w < x)
         \/ (w < x /\ x < z) \/ (w < z /\ z < x)
    BY ONLY <2>9, <2>10
  <2>12. QED
    BY <2>9, <2>11
<1>4. QED
  BY <1>2, <1>3

\* The months of some rows.
MonthsGot(I) == {got[i].month : i \in I}
\* The months of some entries.
MonthsIn(E) == {R!MonthKey(e.day) : e \in E}

\* They are finitely many.
LEMMA FiniteMonths ==
    ASSUME NEW E, IsFiniteSet(E)
    PROVE  IsFiniteSet(MonthsIn(E))
<1> DEFINE h == [e \in E |-> R!MonthKey(e.day)]
<1>1. h \in Surjection(E, MonthsIn(E))
  BY DEF Surjection, MonthsIn
<1>2. QED
  BY <1>1, FS_Surjection

\* The months in which a counterparty has rows are those in which it has entries.
LEMMA PartyMonths ==
    ASSUME NEW books, NEW p, NEW qs, NEW plan, NEW when, NEW answer, NEW upto, NEW day,
           IsBusiness(books, p, qs, plan, when, answer, upto, day),
           NEW d \in Sided, NEW ks, NEW n
    PROVE  LET rows == Those(got, d, ks, Named(n))
               of == OfParty(books, d, p, ks, n)
           IN /\ MonthsGot(rows) = MonthsIn(of)
              /\ rows = {} <=> of = {}
<1> PICK rows, of : rows = Those(got, d, ks, Named(n)) /\ of = OfParty(books, d, p, ks, n)
  OBVIOUS
<1>1. \A ms : Those(got, d, ms, Named(n)) = {} <=> OfParty(books, d, p, ms, n) = {}
  <2> TAKE ms
  <2> PICK A, B : A = Those(got, d, ms, Named(n)) /\ B = OfParty(books, d, p, ms, n)
    OBVIOUS
  <2>1. IsFiniteSet(A) /\ IsFiniteSet(B) /\ Cardinality(A) = Cardinality(B)
    BY PartyRows
  <2>2. (Cardinality(A) = 0 <=> A = {}) /\ (Cardinality(B) = 0 <=> B = {})
    BY <2>1, FS_EmptySet
  <2>3. QED
    BY <2>1, <2>2
<1>2. \A k : /\ (\E i \in rows : got[i].month = k) <=> (k \in ks /\ Those(got, d, Alone(k), Named(n)) # {})
             /\ (\E e \in of : R!MonthKey(e.day) = k) <=> (k \in ks /\ OfParty(books, d, p, Alone(k), n) # {})
  BY DEF Those, OfParty, Alone
<1>3. \A k : (\E i \in rows : got[i].month = k) <=> (\E e \in of : R!MonthKey(e.day) = k)
  BY <1>1, <1>2
<1>4. MonthsGot(rows) = MonthsIn(of)
  BY <1>3 DEF MonthsGot, MonthsIn
<1>5. rows = {} <=> of = {}
  BY <1>1
<1>6. QED
  BY <1>4, <1>5

\* The entries of a period are of its months.
LEMMA PartyEntries ==
    ASSUME NEW books \in Ledgers, books = ledger, NEW p, p = command.period,
           R!IsDay(p[1]), R!IsDay(p[2]), NEW d \in Sided, NEW n,
           NEW months, months = R!MonthKeys(p[1], p[2])
    PROVE  OfParty(books, d, p, months, n) = {e \in R!Invoices(d) : e.party = n}
<1>1. \A e \in books : (e.line = d /\ p[1] <= e.day /\ e.day <= p[2]) => R!MonthKey(e.day) \in months
  <2> SUFFICES ASSUME NEW e \in books, e.line = d, p[1] <= e.day, e.day <= p[2]
               PROVE  R!MonthKey(e.day) \in months
    OBVIOUS
  <2>1. e.line # "registry"
    BY DEF Sided
  <2>2. R!IsDay(e.day)
    BY <2>1, BookFacts
  <2>3. R!MonthKey(p[1]) <= R!MonthKey(e.day) /\ R!MonthKey(e.day) <= R!MonthKey(p[2])
    BY <2>2, DayOrder
  <2>4. IsMonth(R!MonthKey(e.day)) /\ IsMonth(R!MonthKey(p[1])) /\ IsMonth(R!MonthKey(p[2]))
    BY <2>2, DayParts
  <2> PICK k, l, m : k = R!MonthKey(p[1]) /\ l = R!MonthKey(e.day) /\ m = R!MonthKey(p[2])
    OBVIOUS
  <2>5. l \in {j \in k .. m : j % 100 \in 1 .. 12}
    BY <2>3, <2>4 DEF IsMonth
  <2>6. QED
    BY <2>5 DEF R!MonthKeys
<1>2. \A e : e \in R!Invoices(d) <=> e \in books /\ e.line = d /\ p[1] <= e.day /\ e.day <= p[2]
  BY DEF R!Invoices, R!InLedger, R!LinesOf, R!Kept, Sided
<1>3. QED
  BY <1>1, <1>2 DEF OfParty

\* build_counterparty_report says of each counterparty what the ledger does.
LEMMA CounterpartiesRight ==
    ASSUME NEW p, p = command.period, R!IsDay(p[1]), R!IsDay(p[2]),
           NEW qs, NEW plan, NEW when, NEW answer, NEW upto, NEW day,
           IsBusiness(ledger, p, qs, plan, when, answer, upto, day), NEW d \in Sided
    PROVE  R!CounterpartiesSay(d, R!Counterparties(d, R!MonthKeys(p[1], p[2])))
<1> PICK books : books = ledger
  OBVIOUS
<1> PICK months : months = R!MonthKeys(p[1], p[2])
  OBVIOUS
<1> DEFINE E == R!Invoices(d)
           of(n) == {e \in E : e.party = n}
           rows == {i \in R!Collected(d) : got[i].month \in months}
           rowsOf(n) == {i \in rows : got[i].party = n}
           list == R!Counterparties(d, months)
<1>1. books \in Ledgers
  BY DEF IsBusiness
<1>2. \A n : of(n) = OfParty(books, d, p, months, n)
  <2> TAKE n
  <2>1. QED
    BY <1>1, PartyEntries
<1>3. \A n : rowsOf(n) = Those(got, d, months, Named(n))
  BY DEF R!Collected, Those, Named
<1>4. \A n : /\ IsFiniteSet(of(n)) /\ IsFiniteSet(rowsOf(n))
             /\ Cardinality(rowsOf(n)) = Cardinality(of(n))
             /\ R!SumGot(rowsOf(n), "total") = R!Sum(of(n), "total")
             /\ MonthsGot(rowsOf(n)) = MonthsIn(of(n))
             /\ rowsOf(n) = {} <=> of(n) = {}
  <2> TAKE n
  <2> PICK A, B : A = rowsOf(n) /\ B = of(n)
    OBVIOUS
  <2>1. A = Those(got, d, months, Named(n)) /\ B = OfParty(books, d, p, months, n)
    BY <1>2, <1>3
  <2>2. IsBusiness(books, p, qs, plan, when, answer, upto, day)
    OBVIOUS
  <2> HIDE DEF rowsOf, of
  <2>3. /\ IsFiniteSet(A) /\ IsFiniteSet(B) /\ Cardinality(A) = Cardinality(B)
        /\ R!SumGot(A, "total") = R!Sum(B, "total")
    BY <2>1, <2>2, PartyRows
  <2>4. /\ MonthsGot(A) = MonthsIn(B)
        /\ A = {} <=> B = {}
    BY <2>1, <2>2, PartyMonths
  <2>5. QED
    BY <2>3, <2>4
<1>5. list = [n \in {got[i].party : i \in rows} |->
                [count |-> R!Cardinality(rowsOf(n)), total |-> R!SumGot(rowsOf(n), "total"),
                 active |-> R!Cardinality(MonthsGot(rowsOf(n))),
                 recurring |-> R!Cardinality(MonthsGot(rowsOf(n))) >= 3]]
  BY DEF R!Counterparties, MonthsGot
<1>6. DOMAIN list = {e.party : e \in E}
  <2>1. \A n : /\ (n \in {got[i].party : i \in rows} <=> rowsOf(n) # {})
               /\ (n \in {e.party : e \in E} <=> of(n) # {})
    OBVIOUS
  <2> HIDE DEF rows, E, rowsOf, of, list
  <2>2. {got[i].party : i \in rows} = {e.party : e \in E}
    BY <1>4, <2>1
  <2>3. QED
    BY <1>5, <2>2
<1>7. ASSUME NEW n \in DOMAIN list
      PROVE  /\ list[n].count = R!Cardinality(of(n))
             /\ list[n].total = R!Sum(of(n), "total")
             /\ list[n].recurring <=>
                   \E j, k, l \in MonthsIn(of(n)) : j < k /\ k < l
  <2> DEFINE active == MonthsIn(of(n))
  <2>1. of(n) \in SUBSET books
    BY DEF R!Invoices, R!InLedger
  <2>2. active \in SUBSET Int /\ IsFiniteSet(active)
    <3>1. \A e \in of(n) : e.day \in Nat
      BY <1>1, <2>1, BookFacts
    <3>2. \A x \in Nat : R!MonthKey(x) \in Int
      BY Division DEF R!MonthKey
    <3>3. IsFiniteSet(active)
      BY <1>4, FiniteMonths
    <3>4. QED
      BY <3>1, <3>2, <3>3 DEF MonthsIn
  <2>3. Cardinality(active) >= 3 <=> \E j, k, l \in active : j < k /\ k < l
    BY <2>2, ThreeOf
  <2> HIDE DEF rowsOf, of, rows, list
  <2>4. /\ list[n].count = R!Cardinality(rowsOf(n)) /\ list[n].total = R!SumGot(rowsOf(n), "total")
        /\ list[n].recurring <=> R!Cardinality(MonthsGot(rowsOf(n))) >= 3
    BY <1>5
  <2>5. MonthsGot(rowsOf(n)) = active
    BY <1>4
  <2> HIDE DEF active
  <2>6. R!Cardinality(active) = Cardinality(active) /\ R!Cardinality(rowsOf(n)) = Cardinality(rowsOf(n))
        /\ R!Cardinality(of(n)) = Cardinality(of(n))
    BY SameCardinality
  <2>7. QED
    BY <1>4, <2>3, <2>4, <2>5, <2>6 DEF active
<1>8. QED
  <2> HIDE DEF list
  <2>1. R!CounterpartiesSay(d, list)
    BY <1>6, <1>7 DEF R!CounterpartiesSay, MonthsIn
  <2>2. QED
    BY <2>1 DEF list

\* All queries of a report by counterparty.
LEMMA SidesAsk ==
    ASSUME R!IsDay(today), NEW c, c.kind = "counterparty",
           NEW p, R!IsDay(p[1]), R!IsDay(p[2]), p[1] <= p[2], p[2] <= today,
           NEW plan, \A d \in Sided : plan.from[d] = p[1] /\ plan.to[d] = p[2] /\ plan.deduction[d] = Every
    PROVE  Planned(R!WorkOver(c, p), Sided, plan)
<1> PICK sales, purchases : /\ sales = R!Spans("sales", p, Every, Paged)
                            /\ purchases = R!Spans("purchases", p, Every, Paged)
  OBVIOUS
<1>1. R!WorkOver(c, p) = Joined(sales, purchases)
  BY DEF R!WorkOver, Joined, Every, Paged
<1>2. "sales" \in Daily /\ "purchases" \in Daily /\ "sales" \in Sources /\ "purchases" \in Sources
      /\ "sales" \in Sided /\ "purchases" \in Sided /\ "sales" # "cash_purchase"
      /\ "purchases" # "cash_purchase"
  BY DEF Daily, Sources, R!Columns, Sided
<1>3. AsksAll(sales, "sales", plan) /\ AsksAll(purchases, "purchases", plan)
  <2>1. Every \in R!Deductions /\ Paged \in BOOLEAN
    BY WaysToAsk
  <2>2. QED
    BY <1>2, <2>1, DailyAsk
<1>4. Planned(sales, {"sales"}, plan)
  BY <1>2, <1>3, PlanOne
<1>5. "purchases" \notin {"sales"} /\ Sided = {"sales"} \cup {"purchases"}
  BY DEF Sided
<1>6. QED
  BY <1>1, <1>2, <1>3, <1>4, <1>5, PlanMore

\* A report by counterparty that is printed is right.
LEMMA BuildsCounterparties ==
    ASSUME NEW c, c = command.of, c.kind = "counterparty", NEW qs, IsRead(c, qs), InYear(c), R!Build
    PROVE  R!CounterpartiesAreRight'
<1> PICK p : p = command.period
  OBVIOUS
<1>1. /\ R!IsDay(p[1]) /\ R!IsDay(p[2]) /\ p[1] <= p[2] /\ p[2] <= today /\ R!IsDay(today)
      /\ ledger \in Ledgers
  BY DEF InYear, FitsYear, OfYear, IsRead
<1> DEFINE plan == [from |-> [d \in Sided |-> p[1]], to |-> [d \in Sided |-> p[2]],
                    deduction |-> [d \in Sided |-> Every]]
           day == [d \in Sided |-> p[2]]
<1>2. \A d \in Sided : /\ plan.from[d] = p[1] /\ plan.to[d] = p[2] /\ plan.deduction[d] = Every
                       /\ day[d] = p[2]
  OBVIOUS
<1> HIDE DEF plan, day
<1>3. Planned(qs, Sided, plan) /\ qs \in Seq(Queries)
  BY <1>1, <1>2, SidesAsk DEF IsRead, Planned
<1>4. Gathered(qs, got, ledger, p[2], today)
  BY DEF IsRead
<1>5. PICK when, answer, upto :
          /\ \A i \in 1 .. Len(qs) : when[i] \in DaysOf(p[2], today)
          /\ AreAnswers(qs, got, ledger, when, answer, upto)
  BY <1>4, GatheredAnswers
<1>6. \A s \in Sided : ReadOn(qs, when, s, day[s])
  <2> TAKE s \in Sided
  <2> PICK start, end, which : /\ start = plan.from[s] /\ end = plan.to[s] /\ which = plan.deduction[s]
    OBVIOUS
  <2>1. AsksFor(qs, s, start, end, which)
    BY <1>3 DEF Planned, IsPlanned
  <2>2. end = p[2] /\ end \in Nat
    BY <1>1, <1>2, DayParts
  <2>3. ReadOn(qs, when, s, end)
    BY <1>3, <1>5, <2>1, <2>2, ReadDaily
  <2>4. QED
    BY <1>2, <2>2, <2>3
<1>7. Sided \cap R!Breakdowns = {}
  BY DEF Sided, R!Breakdowns
<1>8. ReadsPlan(qs, Sided, plan, ledger, got, when, answer, upto, day)
  BY <1>3, <1>5, <1>6, <1>7 DEF ReadsPlan
<1>9. IsBusiness(ledger, p, qs, plan, when, answer, upto, day)
  BY <1>1, <1>2, <1>8 DEF IsBusiness
<1>10. \A d \in Sided : R!CounterpartiesSay(d, R!Counterparties(d, R!MonthKeys(p[1], p[2])))
  <2> TAKE d \in Sided
  <2>1. QED
    BY <1>1, <1>9, CounterpartiesRight
<1>11. report' = [d \in Sided |-> R!Counterparties(d, R!MonthKeys(p[1], p[2]))]
  BY DEF R!Build, Sided
<1>12. UNCHANGED <<ledger, command>>
  BY DEF R!Build
<1>13. \A d \in Sided : \A list : R!CounterpartiesSay(d, list)' = R!CounterpartiesSay(d, list)
  <2> TAKE d \in Sided
  <2> TAKE list
  <2>1. R!Invoices(d)' = R!Invoices(d)
    BY <1>12 DEF R!Invoices, R!InLedger
  <2>2. QED
    BY <2>1 DEF R!CounterpartiesSay
<1>14. \A d \in Sided : R!CounterpartiesSay(d, report'[d])
  BY <1>10, <1>11
<1>15. QED
  <2>1. \A d \in Sided : R!CounterpartiesSay(d, report[d])'
    <3> TAKE d \in Sided
    <3> PICK list : list = report'[d]
      OBVIOUS
    <3>1. R!CounterpartiesSay(d, list)'
      BY <1>13, <1>14
    <3>2. QED
      BY <3>1 DEF R!CounterpartiesSay
  <2>2. QED
    BY <2>1 DEF R!CounterpartiesAreRight, Sided

-----------------------------------------------------------------------------
(***************************************************************************)
(* Totals                                                                  *)
(*                                                                         *)
(* Lists, summaries, the registry and the sums of a year ask one source.   *)
(***************************************************************************)
\* Rows all of which are of a source, or of which one is.
AllOf(rows, src) == \A i \in DOMAIN rows : rows[i].source = src
\* One of them is.
SomeOf(rows, src) == \E i \in DOMAIN rows : rows[i].source = src

\* Two lists.
LEMMA JoinedRows ==
    ASSUME NEW T, NEW a \in Seq(T), NEW b \in Seq(T), NEW src
    PROVE  /\ AllOf(a, src) /\ AllOf(b, src) => AllOf(a \o b, src)
           /\ SomeOf(a, src) \/ SomeOf(b, src) => SomeOf(a \o b, src)
<1>1. /\ a \o b \in Seq(T) /\ Len(a \o b) = Len(a) + Len(b) /\ Len(a) \in Nat /\ Len(b) \in Nat
      /\ DOMAIN a = 1 .. Len(a) /\ DOMAIN b = 1 .. Len(b) /\ DOMAIN (a \o b) = 1 .. (Len(a) + Len(b))
      /\ \A i \in 1 .. (Len(a) + Len(b)) :
            (a \o b)[i] = IF i <= Len(a) THEN a[i] ELSE b[i - Len(a)]
  OBVIOUS
<1> PICK c : c = a \o b
  OBVIOUS
<1>2. ASSUME AllOf(a, src), AllOf(b, src), NEW i \in 1 .. (Len(a) + Len(b)) PROVE c[i].source = src
  <2>1. CASE i <= Len(a)
    <3>1. i \in DOMAIN a /\ c[i] = a[i]
      BY <1>1, <2>1
    <3>2. QED
      BY <1>2, <3>1 DEF AllOf
  <2>2. CASE ~(i <= Len(a))
    <3>1. i - Len(a) \in DOMAIN b /\ c[i] = b[i - Len(a)]
      BY <1>1, <2>2
    <3>2. QED
      BY <1>2, <3>1 DEF AllOf
  <2>3. QED
    BY <2>1, <2>2
<1>3. ASSUME NEW i \in DOMAIN a, a[i].source = src PROVE i \in DOMAIN c /\ c[i].source = src
  BY <1>1, <1>3
<1>4. ASSUME NEW i \in DOMAIN b, b[i].source = src
      PROVE  Len(a) + i \in DOMAIN c /\ c[Len(a) + i].source = src
  <2>1. Len(a) + i \in 1 .. (Len(a) + Len(b)) /\ ~(Len(a) + i <= Len(a)) /\ Len(a) + i - Len(a) = i
    BY <1>1
  <2>2. c[Len(a) + i] = b[i]
    BY <1>1, <2>1
  <2>3. QED
    BY <1>1, <1>4, <2>1, <2>2
<1>5. AllOf(a, src) /\ AllOf(b, src) => AllOf(c, src)
  BY <1>1, <1>2 DEF AllOf
<1>6. SomeOf(a, src) \/ SomeOf(b, src) => SomeOf(c, src)
  BY <1>3, <1>4 DEF SomeOf
<1>7. QED
  BY <1>5, <1>6

\* An answer is of the source that was asked for; to that of cash purchases, a total
\* belongs.
LEMMA AnswerRows ==
    ASSUME NEW books \in Ledgers, NEW q \in Queries, NEW t, NEW a, IsAnswer(a, books, q, t)
    PROVE  /\ q.source # "cash_purchase" => AllOf(a, q.source)
           /\ q.source = "cash_purchase" => SomeOf(a, "eligible_total")
<1> PICK T : T = RowsOf(books)
  OBVIOUS
<1>1. q.source \in Sources /\ q.from \in Nat /\ IsFiniteSet(books)
  BY BooksAssumption DEF Queries
<1>2. \A E \in SUBSET books : R!RowsAbout(q, E) \in Seq(T) /\ AllOf(R!RowsAbout(q, E), q.source)
  <2> TAKE E \in SUBSET books
  <2>1. AllOf(R!RowsAbout(q, E), q.source)
    BY RowsHaveSource DEF AllOf
  <2>2. IsChoice(books, "sales", Int, {}, "total")
    BY DEF IsChoice, AllFigs, Figs
  <2>3. R!RowsAbout(q, E) \in Seq(T)
    BY <1>1, <2>2, RowsCount
  <2>4. QED
    BY <2>1, <2>3
<1>3. CASE q.source = "card_sales"
  <2> PICK card, agency : card = OfLineAt(books, q, t, "card") /\ agency = OfLineAt(books, q, t, "agency")
    OBVIOUS
  <2>1. \A line : OfLineAt(books, q, t, line) \in Seq(T) /\ AllOf(OfLineAt(books, q, t, line), q.source)
    <3> TAKE line
    <3> PICK E : E = {e \in R!Found(books, q, t) : e.line = line}
      OBVIOUS
    <3>1. E \in SUBSET books
      BY DEF R!Found
    <3>2. OfLineAt(books, q, t, line) = R!RowsAbout(q, E)
      BY DEF OfLineAt
    <3>3. QED
      BY <1>2, <3>1, <3>2
  <2>2. card \in Seq(T) /\ agency \in Seq(T) /\ AllOf(card, q.source) /\ AllOf(agency, q.source)
    BY <2>1
  <2>3. <<>> \in Seq(T) /\ AllOf(<<>>, q.source)
    BY DEF AllOf
  <2> PICK rest : rest = R!Short(agency)
    OBVIOUS
  <2>4. rest \in Seq(T) /\ AllOf(rest, q.source)
    <3>1. CASE agency = <<>>
      BY <2>3, <3>1 DEF R!Short
    <3>2. CASE agency # <<>>
      <4>1. rest = Tail(agency)
        BY <3>2 DEF R!Short
      <4>2. rest \in Seq(T) /\ \A i \in DOMAIN rest : i + 1 \in DOMAIN agency /\ rest[i] = agency[i + 1]
        <5>1. agency \in Seq(T) /\ agency # <<>>
          BY <2>2, <3>2
        <5>2. /\ Tail(agency) \in Seq(T) /\ Len(Tail(agency)) = Len(agency) - 1
              /\ \A i \in 1 .. Len(Tail(agency)) : Tail(agency)[i] = agency[i + 1]
          BY <5>1, HeadTailProperties
        <5>3. DOMAIN agency = 1 .. Len(agency) /\ Len(agency) \in Nat
          BY <5>1
        <5>4. DOMAIN rest = 1 .. Len(agency) - 1
          BY <4>1, <5>2
        <5>5. QED
          BY <4>1, <5>2, <5>3, <5>4
      <4>3. QED
        BY <2>2, <4>2 DEF AllOf
    <3>3. QED
      BY <3>1, <3>2
  <2>5. PICK part \in {agency, rest, <<>>} : a = card \o part
    BY <1>3 DEF IsAnswer, IsCardList, Less
  <2>6. part \in Seq(T) /\ AllOf(part, q.source)
    BY <2>2, <2>3, <2>4
  <2>7. AllOf(card \o part, q.source)
    BY <2>2, <2>6, JoinedRows
  <2>8. QED
    BY <1>3, <2>5, <2>7
<1>4. CASE q.source # "card_sales"
  <2> PICK rows, totals : rows = All(books, q, t) /\ totals = Totals(books, q, t)
    OBVIOUS
  <2>1. PICK i \in 0 .. Len(rows) :
           a = SubSeq(rows, 1, i) \o totals \o SubSeq(rows, i + 1, Len(rows))
    BY <1>4 DEF IsAnswer, IsList
  <2>2. rows \in Seq(T) /\ AllOf(rows, q.source)
    <3> PICK E : E = R!Found(books, q, t)
      OBVIOUS
    <3>1. E \in SUBSET books
      BY DEF R!Found
    <3>2. rows = R!RowsAbout(q, E)
      BY DEF All
    <3>3. QED
      BY <1>2, <3>1, <3>2
  <2> PICK b, c : b = SubSeq(rows, 1, i) /\ c = SubSeq(rows, i + 1, Len(rows))
    OBVIOUS
  <2>3. b \in Seq(T) /\ c \in Seq(T)
    BY <2>2, Pieces
  <2>4. AllOf(b, q.source) /\ AllOf(c, q.source)
    <3>1. Len(rows) \in Nat /\ DOMAIN rows = 1 .. Len(rows)
      BY <2>2
    <3>2. \A j \in DOMAIN b : \E k \in DOMAIN rows : b[j] = rows[k]
      <4>1. DOMAIN b = 1 .. i /\ \A j \in 1 .. i : b[j] = rows[j]
        BY <2>2, <3>1
      <4>2. QED
        BY <3>1, <4>1
    <3>3. \A j \in DOMAIN c : \E k \in DOMAIN rows : c[j] = rows[k]
      <4>1. DOMAIN c = 1 .. (Len(rows) - i) /\ \A j \in 1 .. (Len(rows) - i) : c[j] = rows[i + j]
        BY <2>2, <3>1
      <4>2. \A j \in 1 .. (Len(rows) - i) : i + j \in DOMAIN rows
        BY <3>1
      <4>3. QED
        BY <4>1, <4>2
    <3>4. QED
      BY <2>2, <3>2, <3>3 DEF AllOf
  <2>5. totals \in Seq(T)
    <3>1. IsChoice(books, "sales", Int, {}, "total")
      BY DEF IsChoice, AllFigs, Figs
    <3>2. QED
      BY <3>1, TotalsWorth
  <2>6. CASE q.source # "cash_purchase"
    <3>1. AllOf(totals, q.source)
      BY <2>6 DEF Totals, AllOf
    <3> PICK u : u = b \o totals
      OBVIOUS
    <3>2. u \in Seq(T)
      BY <2>3, <2>5
    <3>5. AllOf(u, q.source)
      BY <2>3, <2>4, <2>5, <3>1, JoinedRows
    <3>3. AllOf(u \o c, q.source)
      BY <2>3, <2>4, <3>2, <3>5, JoinedRows
    <3>4. QED
      BY <2>1, <2>6, <3>3
  <2>7. CASE q.source = "cash_purchase"
    <3>1. SomeOf(totals, "eligible_total")
      <4> PICK row, other : /\ row = TotalAt(books, "eligible_total", q, t)
                            /\ other = TotalAt(books, "deductible_total", q, t)
        OBVIOUS
      <4>1. totals = <<row, other>>
        BY <2>7 DEF Totals
      <4>2. row.source = "eligible_total"
        BY DEF TotalAt, R!BreakdownOf
      <4>3. totals[1] = row /\ 1 \in DOMAIN totals
        BY <4>1
      <4>4. QED
        BY <4>2, <4>3 DEF SomeOf
    <3> PICK u : u = b \o totals
      OBVIOUS
    <3>2. u \in Seq(T)
      BY <2>3, <2>5
    <3>5. SomeOf(u, "eligible_total")
      BY <2>3, <2>5, <3>1, JoinedRows
    <3>3. SomeOf(u \o c, "eligible_total")
      BY <2>3, <3>2, <3>5, JoinedRows
    <3>4. QED
      BY <2>1, <2>7, <3>3
  <2>8. QED
    BY <2>6, <2>7
<1>5. QED
  BY <1>3, <1>4

\* The answers to queries of one source.
IsSingle(books, qs, line, when, answer, upto) ==
    /\ books \in Ledgers /\ qs \in Seq(Queries) /\ Len(qs) > 0 /\ OnlyOf(qs, line)
    /\ line \in R!Columns \cup {"registry"}
    /\ AreAnswers(qs, got, books, when, answer, upto)

\* All rows are of the source, or the total is among them.
LEMMA RowsOfOne ==
    ASSUME NEW books, NEW qs, NEW line, NEW when, NEW answer, NEW upto,
           IsSingle(books, qs, line, when, answer, upto)
    PROVE  /\ line # "cash_purchase" => AllOf(got, line)
           /\ line = "cash_purchase" => SomeOf(got, "eligible_total")
<1> PICK T, n : T = RowsOf(books) /\ n = Len(qs)
  OBVIOUS
<1>1. /\ books \in Ledgers /\ qs \in Seq(Queries) /\ n \in Nat /\ n > 0 /\ DOMAIN qs = 1 .. n
      /\ OnlyOf(qs, line) /\ line \notin R!Breakdowns
      /\ AreAnswers(qs, got, books, when, answer, upto)
  BY DEF IsSingle, R!Columns, R!Breakdowns
<1>2. \A i \in 1 .. n : qs[i] \in Queries /\ qs[i].source = line
  BY <1>1 DEF OnlyOf
<1>3. /\ upto[0] = <<>> /\ upto[n] = got
      /\ \A i \in 1 .. n : IsAnswer(answer[i], books, qs[i], when[i]) /\ upto[i] = upto[i - 1] \o answer[i]
  BY <1>1 DEF AreAnswers
<1>4. \A i \in 1 .. n : /\ answer[i] \in Seq(T)
                        /\ line # "cash_purchase" => AllOf(answer[i], line)
                        /\ line = "cash_purchase" => SomeOf(answer[i], "eligible_total")
  <2> TAKE i \in 1 .. n
  <2> PICK q, a, t : q = qs[i] /\ a = answer[i] /\ t = when[i]
    OBVIOUS
  <2>1. q \in Queries /\ q.source = line /\ IsAnswer(a, books, q, t)
    BY <1>2, <1>3
  <2>2. IsChoice(books, "sales", Int, {}, "total")
    BY DEF IsChoice, AllFigs, Figs
  <2>3. a \in Seq(T)
    BY <1>1, <2>1, <2>2, AnswerWorth
  <2>4. /\ line # "cash_purchase" => AllOf(a, line)
        /\ line = "cash_purchase" => SomeOf(a, "eligible_total")
    BY <1>1, <2>1, AnswerRows
  <2>5. QED
    BY <2>3, <2>4
<1> DEFINE Goes(i) == /\ upto[i] \in Seq(T)
                      /\ line # "cash_purchase" => AllOf(upto[i], line)
                      /\ (line = "cash_purchase" /\ i > 0) => SomeOf(upto[i], "eligible_total")
           G == {i \in 0 .. n : Goes(i)}
<1>5. 0 \in G
  <2> PICK s : s = upto[0]
    OBVIOUS
  <2>1. s = <<>>
    BY <1>3
  <2>2. s \in Seq(T) /\ AllOf(s, line) /\ 0 \in 0 .. n /\ ~(0 > 0)
    BY <1>1, <2>1 DEF AllOf
  <2>3. Goes(0)
    BY <2>2
  <2>4. QED
    BY <2>2, <2>3
<1>6. \A i \in 1 .. n : i - 1 \in G => i \in G
  <2> SUFFICES ASSUME NEW i \in 1 .. n, Goes(i - 1) PROVE Goes(i)
    OBVIOUS
  <2> PICK s, a, u : s = upto[i - 1] /\ a = answer[i] /\ u = s \o a
    OBVIOUS
  <2>1. upto[i] = u /\ s \in Seq(T) /\ a \in Seq(T)
    BY <1>3, <1>4
  <2>2. u \in Seq(T)
    BY <2>1
  <2>3. line # "cash_purchase" => AllOf(u, line)
    BY <1>4, <2>1, JoinedRows
  <2>4. line = "cash_purchase" => SomeOf(u, "eligible_total")
    BY <1>4, <2>1, JoinedRows
  <2>5. QED
    BY <2>1, <2>2, <2>3, <2>4
<1> HIDE DEF G
<1>7. n \in G
  BY <1>1, <1>5, <1>6, AllAnswers
<1>8. QED
  BY <1>1, <1>3, <1>7 DEF G

\* The rows that are added up: the total of cash purchases, or all.
Figured == IF R!Collected("eligible_total") # {} THEN R!Collected("eligible_total") ELSE DOMAIN got
\* Whose rows these are.
TotalOf(line) == IF line = "cash_purchase" THEN "eligible_total" ELSE line

\* They are all rows of that source.
LEMMA FiguresOfOne ==
    ASSUME NEW books, NEW qs, NEW line, NEW when, NEW answer, NEW upto,
           IsSingle(books, qs, line, when, answer, upto), got \in Seq(RowsOf(books))
    PROVE  Figured = Those(got, TotalOf(line), Int, AllNames(books))
<1>1. \A i \in DOMAIN got : got[i].party \in AllNames(books) /\ got[i].month \in Int
  <2>1. \A r \in RowsOf(books) : r.party \in AllNames(books) /\ r.month \in Int
    BY DEF RowsOf, AllNames
  <2>2. \A i \in DOMAIN got : got[i] \in RowsOf(books)
    OBVIOUS
  <2>3. QED
    BY <2>1, <2>2
<1>2. \A src : Those(got, src, Int, AllNames(books)) = {i \in DOMAIN got : got[i].source = src}
  BY <1>1 DEF Those
<1>3. CASE line = "cash_purchase"
  <2>1. SomeOf(got, "eligible_total")
    BY <1>3, RowsOfOne
  <2>2. Figured = {i \in DOMAIN got : got[i].source = "eligible_total"}
    BY <2>1 DEF Figured, R!Collected, SomeOf
  <2>3. QED
    BY <1>2, <1>3, <2>2 DEF TotalOf
<1>4. CASE line # "cash_purchase"
  <2>1. AllOf(got, line) /\ line \notin R!Breakdowns
    BY <1>4, RowsOfOne DEF IsSingle, R!Columns, R!Breakdowns
  <2>2. Figured = DOMAIN got
    BY <2>1 DEF Figured, R!Collected, AllOf
  <2>3. QED
    BY <1>2, <1>4, <2>1, <2>2 DEF TotalOf, AllOf
<1>5. QED
  BY <1>3, <1>4

\* What is added up of the answers to queries of one source.
LEMMA SumsOfOne ==
    ASSUME NEW books, NEW qs, NEW line, NEW when, NEW answer, NEW upto,
           IsSingle(books, qs, line, when, answer, upto),
           NEW from, NEW to, NEW asked, AsksFor(qs, line, from, to, asked),
           NEW t, ReadOn(qs, when, line, t),
           NEW deduction, deduction = Which(TotalOf(line), asked), NEW E,
           E = Entries(books, line, deduction, from, to, t, Int, AllNames(books))
    PROVE  /\ R!SumGot(Figured, "total") = R!Sum(E, "total")
           /\ R!SumGot(Figured, "tax") = R!Sum(E, "tax")
           /\ R!SumGot(Figured, "count") = Cardinality(E)
<1> PICK src, ks, ps : src = TotalOf(line) /\ ks = Int /\ ps = AllNames(books)
  OBVIOUS
<1>1. /\ books \in Ledgers /\ qs \in Seq(Queries) /\ OnlyOf(qs, line) /\ line \notin R!Breakdowns
      /\ line \in R!Columns \cup {"registry"}
      /\ AreAnswers(qs, got, books, when, answer, upto)
  BY DEF IsSingle, R!Columns, R!Breakdowns
<1>2. Asked(qs)
  BY <1>1 DEF Asked, OnlyOf
<1>3. line = Behind(src)
  BY <1>1 DEF Behind, TotalOf, R!Breakdowns
<1>4. \A field \in Figs : IsChoice(books, src, ks, ps, field)
  BY DEF IsChoice, Figs, AllFigs
<1>5. \A field \in Figs : /\ got \in Seq(RowsOf(books))
                          /\ Worth(got, Weight(books, src, ks, ps, field)) = SumOf(Amounts(books, field), E)
  <2> TAKE field \in Figs
  <2>1. IsChoice(books, src, ks, ps, field)
    BY <1>4
  <2>2. ks = Int \/ line # "cash_purchase" \/ Monthly(qs)
    OBVIOUS
  <2>3. E = Entries(books, line, deduction, from, to, t, ks, ps)
    OBVIOUS
  <2>4. deduction = Which(src, asked)
    OBVIOUS
  <2>5. /\ got \in Seq(RowsOf(books))
        /\ Worth(got, Weight(books, src, ks, ps, field))
             = SumOf(Amounts(books, field), Entries(books, line, deduction, from, to, t, ks, ps))
    BY <1>1, <1>2, <1>3, <2>1, <2>2, <2>4, RowsWorthEntries
  <2>6. QED
    BY <2>3, <2>5
<1>6. "total" \in Figs /\ "tax" \in Figs /\ "count" \in Figs
  BY DEF Figs
<1>7. got \in Seq(RowsOf(books))
  BY <1>5, <1>6
<1>8. \A field \in Figs : R!SumGot(Figured, field) = SumOf(Amounts(books, field), E)
  <2> TAKE field \in Figs
  <2>1. R!SumGot(Those(got, src, ks, ps), field) = Worth(got, Weight(books, src, ks, ps, field))
    BY <1>4, <1>7, FigureWorth
  <2>2. Figured = Those(got, src, ks, ps)
    BY <1>7, FiguresOfOne
  <2>3. QED
    BY <1>5, <2>1, <2>2
<1>9. E \in SUBSET books
  BY DEF Entries
<1>10. SumOf(Amounts(books, "count"), E) = Cardinality(E)
  <2>1. IsFiniteSet(E)
    BY <1>1, <1>9, BookFacts
  <2>2. \A e \in E : Amounts(books, "count")[e] = 1
    BY <1>9 DEF Amounts
  <2>3. QED
    BY <2>1, <2>2, TotalOnes
<1>11. /\ R!Sum(E, "total") = SumOf(Amounts(books, "total"), E)
       /\ R!Sum(E, "tax") = SumOf(Amounts(books, "tax"), E)
  BY <1>1, <1>9, SumIsAmounts
<1>12. QED
  BY <1>6, <1>8, <1>10, <1>11

\* The entries until a day.
LEMMA ListedEntries ==
    ASSUME ledger \in Ledgers, NEW line, NEW from, NEW to \in Int, NEW t \in Int, NEW deduction
    PROVE  Entries(ledger, line, deduction, from, to, t, Int, AllNames(ledger))
             = R!InLedger(R!LinesOf(line), from, R!Earliest(t, to), deduction)
<1>1. \A e \in ledger : e.day \in Nat /\ R!MonthKey(e.day) \in Int /\ e.party \in AllNames(ledger)
  <2> TAKE e \in ledger
  <2>1. e.day \in Nat
    BY BookFacts
  <2>2. \A x \in Nat : R!MonthKey(x) \in Int
    BY Division DEF R!MonthKey
  <2>3. QED
    BY <2>1, <2>2, NamesOf
<1>2. \A d \in Nat : (d <= to /\ d <= t) <=> d <= R!Earliest(t, to)
  BY DEF R!Earliest
<1>3. \A e \in ledger : e \in Entries(ledger, line, deduction, from, to, t, Int, AllNames(ledger))
                          <=> e \in R!InLedger(R!LinesOf(line), from, R!Earliest(t, to), deduction)
  BY <1>1, <1>2 DEF Entries, R!InLedger
<1>4. QED
  BY <1>3 DEF Entries, R!InLedger

\* What is added up is that of the entries until day t.
SaysTotals(c, t) ==
    /\ R!SumGot(Figured, "total") = R!Sum(R!ListedUntil(c, t), "total")
    /\ R!SumGot(Figured, "tax") = R!Sum(R!ListedUntil(c, t), "tax")
    /\ R!SumGot(Figured, "count") = Cardinality(R!ListedUntil(c, t))

\* The queries of one source, and what they say.
IsOneSource(c, qs, line, from, to, asked) ==
    /\ qs \in Seq(Queries) /\ Len(qs) > 0 /\ OnlyOf(qs, line)
    /\ line \in R!Columns \cup {"registry"} /\ AsksFor(qs, line, from, to, asked)
    /\ from \in Int /\ to \in Nat
    /\ line = R!SourceOf(c) /\ from = R!SpanOf(c)[1] /\ to = R!SpanOf(c)[2]
    /\ R!DeductionOf(c) = Which(TotalOf(line), asked)

\* What is added up of them is right, if they were read until day t.
LEMMA OneSourceSays ==
    ASSUME NEW c, NEW qs, NEW line, NEW from, NEW to, NEW asked,
           IsOneSource(c, qs, line, from, to, asked), ledger \in Ledgers,
           NEW when, NEW answer, NEW upto, AreAnswers(qs, got, ledger, when, answer, upto),
           NEW t \in Int, ReadOn(qs, when, line, t)
    PROVE  SaysTotals(c, t)
<1> PICK books, deduction : books = ledger /\ deduction = R!DeductionOf(c)
  OBVIOUS
<1> PICK E : E = Entries(books, line, deduction, from, to, t, Int, AllNames(books))
  OBVIOUS
<1>1. /\ line = R!SourceOf(c) /\ from = R!SpanOf(c)[1] /\ to = R!SpanOf(c)[2]
      /\ deduction = Which(TotalOf(line), asked) /\ AsksFor(qs, line, from, to, asked)
      /\ from \in Int /\ to \in Int
  BY DEF IsOneSource
<1>2. IsSingle(books, qs, line, when, answer, upto)
  BY DEF IsOneSource, IsSingle
<1>3. E = R!ListedUntil(c, t)
  <2>1. E = R!InLedger(R!LinesOf(line), from, R!Earliest(t, to), deduction)
    BY <1>1, ListedEntries
  <2>2. QED
    BY <1>1, <2>1 DEF R!ListedUntil
<1>4. /\ R!SumGot(Figured, "total") = R!Sum(E, "total")
      /\ R!SumGot(Figured, "tax") = R!Sum(E, "tax")
      /\ R!SumGot(Figured, "count") = Cardinality(E)
  BY <1>1, <1>2, SumsOfOne
<1>5. QED
  BY <1>3, <1>4 DEF SaysTotals

\* A list may be of the deductible ones, or of the others; a summary has no pages.
Filters(c) == IF c.kind = "list" THEN c.deduction ELSE "all"
\* Which has no pages.
IsWhole(c) == c.kind = "summary"

\* A list and a summary ask one source.
LEMMA DailyIsOneSource ==
    ASSUME NEW c, c.kind \in {"list", "summary"}, c.source \in Daily,
           c.kind = "list" => c.deduction \in R!Deductions, R!IsDay(today),
           NEW p, p = command.period, R!IsDay(p[1]), R!IsDay(p[2]), p[1] <= p[2], p[2] <= today,
           NEW qs, qs = R!WorkOver(c, p)
    PROVE  IsOneSource(c, qs, c.source, p[1], p[2], Filters(c))
<1> PICK line, from, to : line = c.source /\ from = p[1] /\ to = p[2]
  OBVIOUS
<1>1. qs = R!Spans(line, p, Filters(c), IsWhole(c))
  <2>1. CASE c.kind = "list"
    <3>1. Filters(c) = c.deduction /\ IsWhole(c) = FALSE
      BY <2>1 DEF Filters, IsWhole
    <3>2. R!WorkOver(c, p) = R!Spans(line, p, c.deduction, FALSE)
      BY <2>1 DEF R!WorkOver
    <3>3. QED
      BY <3>1, <3>2
  <2>2. CASE c.kind = "summary"
    <3>1. Filters(c) = "all" /\ IsWhole(c) = TRUE
      BY <2>2 DEF Filters, IsWhole
    <3>2. R!WorkOver(c, p) = R!Spans(line, p, "all", TRUE)
      BY <2>2 DEF R!WorkOver
    <3>3. QED
      BY <3>1, <3>2
  <2>3. QED
    BY <2>1, <2>2
<1>2. Filters(c) \in R!Deductions /\ IsWhole(c) \in BOOLEAN
  BY DEF Filters, IsWhole, R!Deductions
<1>3. /\ qs \in Seq(Queries) /\ Len(qs) > 0
      /\ OnlyOf(qs, line) /\ AsksFor(qs, line, from, to, Filters(c))
  BY <1>1, <1>2, SpansAsk
<1>4. line \in R!Columns \cup {"registry"}
  BY DEF Daily, R!Columns
<1>5. from \in Int /\ to \in Nat
  BY DayParts
<1>6. R!SourceOf(c) = line /\ R!SpanOf(c) = p
  BY DEF R!SourceOf, R!SpanOf, R!IsDaily
<1>7. R!DeductionOf(c) = Which(TotalOf(line), Filters(c))
  <2>1. CASE line = "cash_purchase"
    <3>1. R!DeductionOf(c) = "eligible"
      BY <1>6, <2>1 DEF R!DeductionOf
    <3>2. Which(TotalOf(line), Filters(c)) = "eligible"
      BY <2>1 DEF Which, TotalOf, R!Breakdowns, R!Counts
    <3>3. QED
      BY <3>1, <3>2
  <2>2. CASE line # "cash_purchase"
    <3>1. R!DeductionOf(c) = Filters(c)
      BY <1>6, <2>2 DEF R!DeductionOf, Filters
    <3>2. Which(TotalOf(line), Filters(c)) = Filters(c)
      BY <2>2 DEF Which, TotalOf, Daily, R!Breakdowns
    <3>3. QED
      BY <3>1, <3>2
  <2>3. QED
    BY <2>1, <2>2
<1>8. QED
  BY <1>3, <1>4, <1>5, <1>6, <1>7 DEF IsOneSource

\* One query for the registry, one for the sums of a year.
RegistryQuery == R!Query("registry", 0, R!Forever, "all", FALSE)
\* One query.
Only(q) == <<q>>

\* What these queries are.
LEMMA LoneRecords ==
    /\ RegistryQuery \in Queries /\ RegistryQuery.source = "registry" /\ RegistryQuery.deduction = Every
    /\ RegistryQuery.from = 0 /\ RegistryQuery.to \in Nat
    /\ \A source \in Sources : \A from, to \in Nat :
          /\ YearQuery(source, from, to) \in Queries
          /\ YearQuery(source, from, to).source = source /\ YearQuery(source, from, to).deduction = Every
          /\ YearQuery(source, from, to).from = from /\ YearQuery(source, from, to).to = to
<1>1. RegistryQuery \in Queries /\ RegistryQuery.source = "registry" /\ RegistryQuery.deduction = Every
      /\ RegistryQuery.from = 0 /\ RegistryQuery.to \in Nat
  BY DEF RegistryQuery, R!Query, R!Forever, Queries, Every, Sources, R!Deductions
<1>2. ASSUME NEW source \in Sources, NEW from \in Nat, NEW to \in Nat
      PROVE  /\ YearQuery(source, from, to) \in Queries
             /\ YearQuery(source, from, to).source = source /\ YearQuery(source, from, to).deduction = Every
             /\ YearQuery(source, from, to).from = from /\ YearQuery(source, from, to).to = to
  BY DEF YearQuery, R!Query, Queries, Every, R!Deductions
<1>3. QED
  BY <1>1, <1>2

\* The only query of a command.
IsLone(c, q) ==
    /\ q \in Queries /\ q.source = c.kind /\ q.deduction = Every
    /\ \A p : R!WorkOver(c, p) = Only(q)
    /\ \E d \in DatesOf(c.kind) : q.from <= d /\ d <= q.to

\* The registry.
LEMMA RegistryIsLone ==
    ASSUME NEW c, c.kind = "registry"
    PROVE  IsLone(c, RegistryQuery)
<1>1. \A p : R!WorkOver(c, p) = Only(RegistryQuery)
  BY DEF R!WorkOver, Only, RegistryQuery
<1>2. 0 \in DatesOf(c.kind)
  BY DEF DatesOf
<1> PICK q : q = RegistryQuery
  OBVIOUS
<1>3. q \in Queries /\ q.source = c.kind /\ q.deduction = Every /\ q.from = 0 /\ q.to \in Nat
  BY LoneRecords
<1>4. q.from <= 0 /\ 0 <= q.to
  BY <1>3
<1>5. QED
  BY <1>1, <1>2, <1>3, <1>4 DEF IsLone

\* Card sales of some quarters.
LEMMA CardsAreLone ==
    ASSUME NEW c, c.kind = "card_sales", NEW y \in Nat, y = c.year,
           NEW n \in 1 .. 4, n = c.first, NEW m \in 1 .. 4, m = c.last, n <= m
    PROVE  \E q : IsLone(c, q)
<1> PICK from, to : from = 10000 * y + 100 * (3 * n - 2) + 1 /\ to = R!LastDay(100 * y + 3 * m)
  OBVIOUS
<1>0. PICK q : q = YearQuery("card_sales", from, to)
  OBVIOUS
<1>1. \A p : R!WorkOver(c, p) = Only(q)
  <2>1. R!CardSales(y, n, m) = Only(q)
    BY <1>0 DEF R!CardSales, Only, YearQuery
  <2>2. \A p : R!WorkOver(c, p) = R!CardSales(c.year, c.first, c.last)
    BY DEF R!WorkOver
  <2>3. QED
    BY <2>1, <2>2
<1>2. R!IsDay(from) /\ from \in Nat
  <2> PICK f : f = 3 * n - 2
    OBVIOUS
  <2>1. y \in Nat /\ f \in 1 .. 12 /\ 100 * y + f \in Nat
    OBVIOUS
  <2>2. 1 \in 1 .. R!DaysIn(100 * y + f)
    <3> PICK k : k = 100 * y + f
      OBVIOUS
    <3>1. R!DaysIn(k) \in 28 .. 31
      BY <2>1, DaysOfMonth
    <3>2. QED
      BY <3>1
  <2>3. R!IsDay(Date(y, f, 1))
    BY ONLY <2>1, <2>2, Dates
  <2>4. from = Date(y, f, 1)
    BY DEF Date
  <2>5. QED
    BY <2>3, <2>4, DayParts
<1>3. to \in Nat /\ from <= to
  <2> PICK k : k = 100 * y + 3 * m
    OBVIOUS
  <2>1. k \in Nat
    OBVIOUS
  <2>2. to = R!LastDay(k)
    OBVIOUS
  <2>3. R!DaysIn(k) \in 28 .. 31 /\ to \in Nat /\ to = 100 * k + R!DaysIn(k)
    BY <2>1, <2>2, DaysOfMonth
  <2>4. to >= 100 * k + 28
    BY <2>1, <2>3
  <2>5. QED
    BY <2>3, <2>4
<1>4. "card_sales" \in Sources
  BY DEF Sources, R!Columns
<1>5. q \in Queries /\ q.source = "card_sales" /\ q.from = from /\ q.to = to /\ q.deduction = Every
  BY ONLY <1>0, <1>2, <1>3, <1>4, LoneRecords
<1>6. from \in DatesOf(c.kind) /\ from <= from
  BY <1>2 DEF DatesOf
<1>7. IsLone(c, q)
  BY <1>1, <1>3, <1>5, <1>6 DEF IsLone
<1>8. QED
  BY <1>7

\* Cash receipts of a year.
LEMMA ReceiptsAreLone ==
    ASSUME NEW c, c.kind = "cash_sales", NEW y \in Nat, y = c.year
    PROVE  \E q : IsLone(c, q)
<1> PICK from, to : from = 10000 * y + 101 /\ to = 10000 * y + 1231
  OBVIOUS
<1>0. PICK q : q = YearQuery("cash_sales", from, to)
  OBVIOUS
<1>1. \A p : R!WorkOver(c, p) = Only(q)
  <2>1. R!CashSales(y) = Only(q)
    BY <1>0 DEF R!CashSales, Only, YearQuery
  <2>2. \A p : R!WorkOver(c, p) = R!CashSales(c.year)
    BY DEF R!WorkOver
  <2>3. QED
    BY <2>1, <2>2
<1>2. R!IsDay(from) /\ from \in Nat
  <2> PICK f : f = 1
    OBVIOUS
  <2>1. y \in Nat /\ f \in 1 .. 12 /\ 100 * y + f \in Nat
    OBVIOUS
  <2>2. 1 \in 1 .. R!DaysIn(100 * y + f)
    <3> PICK k : k = 100 * y + f
      OBVIOUS
    <3>1. R!DaysIn(k) \in 28 .. 31
      BY <2>1, DaysOfMonth
    <3>2. QED
      BY <3>1
  <2>3. R!IsDay(Date(y, f, 1))
    BY ONLY <2>1, <2>2, Dates
  <2>4. from = Date(y, f, 1)
    BY DEF Date
  <2>5. QED
    BY <2>3, <2>4, DayParts
<1>3. to \in Nat /\ from <= to
  OBVIOUS
<1>4. "cash_sales" \in Sources
  BY DEF Sources, R!Columns
<1>5. q \in Queries /\ q.source = "cash_sales" /\ q.from = from /\ q.to = to /\ q.deduction = Every
  BY ONLY <1>0, <1>2, <1>3, <1>4, LoneRecords
<1>6. from \in DatesOf(c.kind) /\ from <= from
  BY <1>2 DEF DatesOf
<1>7. IsLone(c, q)
  BY <1>1, <1>3, <1>5, <1>6 DEF IsLone
<1>8. QED
  BY <1>7

\* A year of a command is a number.
LEMMA YearIsNumber ==
    ASSUME NEW y \in Years
    PROVE  y \in Nat
BY DEF Years

\* So the registry and the sums of a year are asked for in one query.
LEMMA LoneQuery ==
    ASSUME NEW c \in Reading, c.kind \in {"registry", "card_sales", "cash_sales"},
           c.kind = "card_sales" => c.first <= c.last
    PROVE  \E q : IsLone(c, q)
<1>0. c.kind = "card_sales" => c.first <= c.last
  OBVIOUS
<1>1. CASE c.kind = "registry"
  BY <1>1, RegistryIsLone
<1>2. CASE c.kind = "card_sales"
  <2>1. c.year \in Years /\ c.first \in 1 .. 4 /\ c.last \in 1 .. 4
    BY <1>2, ReadingAssumption DEF Years
  <2>2. c.year \in Nat
    BY ONLY <2>1, YearIsNumber
  <2>4. c.first <= c.last
    BY ONLY <1>2, <1>0
  <2>3. QED
    BY ONLY <1>2, <2>1, <2>2, <2>4, CardsAreLone
<1>3. CASE c.kind = "cash_sales"
  <2>1. c.year \in Years
    BY <1>3, ReadingAssumption DEF Years
  <2>2. c.year \in Nat
    BY ONLY <2>1, YearIsNumber
  <2>3. QED
    BY ONLY <1>3, <2>2, ReceiptsAreLone
<1>4. QED
  BY <1>1, <1>2, <1>3

\* One query asks one source.
LEMMA LoneIsOneSource ==
    ASSUME NEW c, c.kind \in {"registry", "card_sales", "cash_sales"},
           NEW q, IsLone(c, q), NEW qs, qs = R!WorkOver(c, command.period),
           NEW line, line = c.kind, NEW from, from = q.from, NEW to, to = q.to
    PROVE  IsOneSource(c, qs, line, from, to, Every) /\ Lone(qs, line)
<1>0. q \in Queries /\ q.source = line /\ q.deduction = Every /\ qs = Only(q)
  BY DEF IsLone
<1> PICK asked : asked = q.deduction
  OBVIOUS
<1>1. /\ qs \in Seq(Queries) /\ OnlyOf(qs, line) /\ Lone(qs, line)
      /\ AsksFor(qs, line, from, to, asked)
  <2>1. qs = <<q>>
    BY <1>0 DEF Only
  <2>2. QED
    BY <1>0, <2>1, OneAsks
<1>2. Len(qs) > 0 /\ qs[1] = q
  BY <1>0 DEF Only
<1>3. from \in Int /\ to \in Nat
  BY <1>0 DEF Queries
<1>4. line \in R!Columns \cup {"registry"}
  BY DEF R!Columns
<1>5. ~R!IsDaily(c) /\ R!SourceOf(c) = line
  BY DEF R!IsDaily, R!SourceOf
<1>6. from = R!SpanOf(c)[1] /\ to = R!SpanOf(c)[2]
  BY <1>2, <1>5 DEF R!SpanOf
<1>7. R!DeductionOf(c) = Which(TotalOf(line), asked)
  <2>1. R!DeductionOf(c) = "all"
    BY <1>5 DEF R!DeductionOf, R!IsDaily
  <2>2. Which(TotalOf(line), asked) = asked
    BY DEF Which, TotalOf, R!Breakdowns
  <2>3. asked = "all"
    BY <1>0 DEF Every
  <2>4. QED
    BY <2>1, <2>2, <2>3
<1>8. IsOneSource(c, qs, line, from, to, asked)
  BY <1>1, <1>2, <1>3, <1>4, <1>5, <1>6, <1>7 DEF IsOneSource
<1>9. QED
  BY <1>0, <1>1, <1>8

\* A command has a period that is not in the future, and that its kind can have.
PeriodFits(c) ==
    LET p == command.period IN
    /\ c \in Reading
    /\ R!IsDay(p[2]) /\ p[2] <= today
    /\ c.kind \in {"list", "summary"} => R!IsDay(p[1]) /\ p[1] <= p[2]
    /\ c.kind \in {"revenue", "counterparty", "vat"} => InYear(c)
    /\ c.kind = "card_sales" => c.first <= c.last

\* The commands whose report is one total.
Totalled == {"list", "summary", "registry", "card_sales", "cash_sales"}

\* A list or a summary by days is read until the end of its period, the registry or the
\* sums of a year on a day.
LEMMA TotalsAreRead ==
    ASSUME NEW c, c.kind \in Totalled, NEW qs, IsRead(c, qs), PeriodFits(c)
    PROVE  \E t : /\ IF R!IsDaily(c) THEN t = command.period[2] ELSE t \in R!Days
                  /\ SaysTotals(c, t)
<1> PICK p : p = command.period
  OBVIOUS
<1>1. /\ c \in Reading /\ R!IsDay(p[2]) /\ p[2] <= today /\ ledger \in Ledgers /\ R!IsDay(today)
      /\ qs = R!WorkOver(c, p) /\ Gathered(qs, got, ledger, p[2], today)
  BY DEF PeriodFits, IsRead
<1>2. p[2] \in Nat
  BY <1>1, DayParts
<1>3. PICK when, answer, upto :
          /\ \A i \in 1 .. Len(qs) : when[i] \in DaysOf(p[2], today)
          /\ AreAnswers(qs, got, ledger, when, answer, upto)
  BY <1>1, GatheredAnswers
<1>4. CASE c.kind \in {"list", "summary"}
  <2>1. R!IsDay(p[1]) /\ p[1] <= p[2]
    BY <1>4 DEF PeriodFits
  <2>2. c.source \in Daily /\ (c.kind = "list" => c.deduction \in R!Deductions)
    BY <1>1, <1>4, ReadingAssumption DEF Daily, R!Deductions
  <2> PICK line, from, to : line = c.source /\ from = p[1] /\ to = p[2]
    OBVIOUS
  <2>3. IsOneSource(c, qs, line, from, to, Filters(c))
    BY <1>1, <1>4, <2>1, <2>2, DailyIsOneSource
  <2> PICK asked : asked = Filters(c)
    BY DEF Filters
  <2>4. IsOneSource(c, qs, line, from, to, asked)
    BY <2>3
  <2>5. qs \in Seq(Queries) /\ AsksFor(qs, line, from, to, asked) /\ to \in Nat
    BY <2>4 DEF IsOneSource
  <2>6. ReadOn(qs, when, line, to)
    BY <1>3, <2>5, ReadDaily
  <2>7. to \in Int
    BY <2>5
  <2>8. SaysTotals(c, to)
    BY <1>1, <1>3, <2>4, <2>6, <2>7, OneSourceSays
  <2>9. QED
    BY <1>4, <2>8 DEF R!IsDaily
<1>5. CASE c.kind \in {"registry", "card_sales", "cash_sales"}
  <2>1. c.kind = "card_sales" => c.first <= c.last
    BY DEF PeriodFits
  <2>2. PICK q : IsLone(c, q)
    BY <1>1, <1>5, <2>1, LoneQuery
  <2>3. q \in Queries /\ q.source = c.kind /\ q.deduction = Every /\ qs = Only(q)
    BY <1>1, <2>2 DEF IsLone
  <2> PICK line, from, to : line = c.kind /\ from = q.from /\ to = q.to
    OBVIOUS
  <2>4. PICK d \in DatesOf(line) : from <= d /\ d <= to
    BY <2>2 DEF IsLone
  <2>5. IsOneSource(c, qs, line, from, to, Every) /\ Lone(qs, line)
    <3>1. qs = R!WorkOver(c, command.period)
      BY DEF IsRead
    <3>2. QED
      BY <1>5, <2>2, <3>1, LoneIsOneSource
  <2>6. qs \in Seq(Queries) /\ AsksFor(qs, line, from, to, Every)
    BY <2>5 DEF IsOneSource
  <2>7. PICK t \in DaysOf(p[2], today) : ReadOn(qs, when, line, t)
    BY <1>3, <2>4, <2>5, <2>6, ReadLone
  <2>8. t \in R!Days
    BY <1>1, <1>2, DaysRead
  <2>9. t \in Int
    BY DEF DaysOf
  <2>10. SaysTotals(c, t)
    BY <1>1, <1>3, <2>5, <2>7, <2>9, OneSourceSays
  <2>11. QED
    BY <1>5, <2>8, <2>10 DEF R!IsDaily
<1>6. QED
  BY <1>4, <1>5 DEF Totalled

\* What is listed until a day stays while the ledger and the command stay.
LEMMA ListedStays ==
    ASSUME UNCHANGED <<ledger, command>>
    PROVE  \A c, t : R!ListedUntil(c, t)' = R!ListedUntil(c, t)
<1> TAKE c, t
<1>1. R!SpanOf(c)' = R!SpanOf(c)
  <2>1. command'.period = command.period
    OBVIOUS
  <2>2. QED
    BY <2>1 DEF R!SpanOf
<1>2. QED
  BY <1>1 DEF R!ListedUntil, R!InLedger

\* A total that is printed is right.
LEMMA BuildsTotals ==
    ASSUME NEW c, c = command.of, c.kind \in Totalled, NEW qs, IsRead(c, qs), PeriodFits(c),
           R!Build
    PROVE  R!TotalsAreRight(c)'
<1>1. PICK t : /\ IF R!IsDaily(c) THEN t = command.period[2] ELSE t \in R!Days
               /\ SaysTotals(c, t)
  BY TotalsAreRead
<1>2. UNCHANGED <<ledger, command, today>>
  BY DEF R!Build
<1>3. t \in IF R!IsDaily(c) THEN {command.period[2]} ELSE R!Days
  BY <1>1
<1>4. R!Days' = R!Days /\ command'.period[2] = command.period[2]
  BY <1>2 DEF R!Days
<1>5. c.kind \notin {"revenue", "vat"} /\ c.kind # "counterparty"
  BY DEF Totalled
<1>6. report' = [total |-> R!SumGot(Figured, "total"), tax |-> R!SumGot(Figured, "tax"),
                 count |-> R!SumGot(Figured, "count")]
  BY <1>5 DEF R!Build, Figured
<1> PICK E : E = R!ListedUntil(c, t)
  OBVIOUS
<1>7. E = R!ListedUntil(c, t)'
  BY <1>2, ListedStays
<1>8. R!Cardinality(E) = Cardinality(E)
  BY SameCardinality
<1>9. report' = [total |-> R!Sum(E, "total"), tax |-> R!Sum(E, "tax"), count |-> R!Cardinality(E)]
  BY <1>1, <1>6, <1>8 DEF SaysTotals
<1>10. QED
  BY <1>3, <1>4, <1>7, <1>9 DEF R!TotalsAreRight

-----------------------------------------------------------------------------
(***************************************************************************)
(* Every report                                                            *)
(***************************************************************************)
\* The same of the command, once there is one.
PeriodIsRight ==
    reading \in {"fetch", "build", "done"} => \A c : c = command.of => PeriodFits(c)

\* A period that has come has come the next day.
LEMMA FitsLater ==
    ASSUME NEW c, PeriodFits(c), UNCHANGED command, R!IsDay(today), R!IsDay(today'), today <= today'
    PROVE  PeriodFits(c)'
<1> PICK p, t, u : p = command.period /\ t = today /\ u = today'
  OBVIOUS
<1>1. command'.period = p
  OBVIOUS
<1>2. /\ c \in Reading /\ R!IsDay(p[2]) /\ p[2] <= t
      /\ c.kind \in {"list", "summary"} => R!IsDay(p[1]) /\ p[1] <= p[2]
      /\ c.kind \in {"revenue", "counterparty", "vat"} => InYear(c)
      /\ c.kind = "card_sales" => c.first <= c.last
  BY DEF PeriodFits
<1>3. p[2] \in Nat /\ t \in Nat /\ u \in Nat
  BY <1>2, DayParts
<1>4. p[2] <= u
  BY <1>2, <1>3
<1>5. ASSUME InYear(c) PROVE InYear(c)'
  <2>1. c.year \in 2000 .. 2100 /\ OfYear(p, c.year) /\ p[2] <= t /\ c.year <= R!Year(t)
        /\ BeginsHalf(p, c.year)
    BY <1>5 DEF InYear, FitsYear
  <2>2. PICK y \in 2000 .. 2100 : y = c.year
    BY <2>1
  <2>3. R!Year(t) \in Nat /\ R!Year(u) \in Nat /\ R!Year(t) <= R!Year(u)
    BY DayParts, DayOrder
  <2>4. y <= R!Year(u)
    <3> PICK v, w : v = R!Year(t) /\ w = R!Year(u)
      OBVIOUS
    <3>1. y <= v
      BY <2>1, <2>2
    <3>2. QED
      BY <2>3, <3>1
  <2>5. FitsYear(p, y)'
    BY <1>4, <2>1, <2>2, <2>4 DEF FitsYear
  <2>6. y \in 2000 .. 2100 /\ BeginsHalf(p, y)
    BY <2>1, <2>2
  <2>7. QED
    BY <1>1, <2>2, <2>5, <2>6 DEF InYear
<1>6. QED
  BY <1>1, <1>2, <1>4, <1>5 DEF PeriodFits

\* A command begins with such a period.
LEMMA BeginFits ==
    ASSUME R!IsDay(today), NEW c \in Reading, R!Acceptable(c), R!Begin(c)
    PROVE  command'.of = c /\ PeriodFits(c)'
<1> PICK p : p = R!Period(c)
  OBVIOUS
<1>1. command' = [of |-> c, period |-> p] /\ today' = today
  BY DEF R!Begin
<1>2. command'.of = c /\ command'.period = p
  BY <1>1
<1>3. today \in Nat
  BY DayParts
<1>4. c.kind \in {"list", "summary"} => R!IsDay(p[1]) /\ p[1] <= p[2] /\ R!IsDay(p[2]) /\ p[2] <= today
  BY DailyPeriod
<1>5. c.kind \in {"revenue", "counterparty", "vat"}
        => c.year \in 2000 .. 2100 /\ FitsYear(p, c.year) /\ BeginsHalf(p, c.year)
  BY YearPeriod
<1>6. c.kind = "card_sales" => c.first <= c.last
  BY DEF R!Acceptable
<1>7. R!IsDay(p[2]) /\ p[2] <= today
  <2>1. CASE c.kind \in {"list", "summary"}
    BY <1>4, <2>1
  <2>2. CASE c.kind \in {"revenue", "counterparty", "vat"}
    BY <1>5, <2>2 DEF FitsYear, OfYear
  <2>3. CASE c.kind = "registry"
    BY <1>3, <2>3 DEF R!Period
  <2>4. CASE c.kind \in {"card_sales", "cash_sales"}
    <3>1. c.year \in Years
      <4>1. CASE c.kind = "card_sales"
        BY <4>1, ReadingAssumption DEF Years
      <4>2. CASE c.kind = "cash_sales"
        BY <4>2, ReadingAssumption DEF Years
      <4>3. QED
        BY <2>4, <4>1, <4>2
    <3> PICK y : y = c.year
      OBVIOUS
    <3>2. y \in Nat
      BY <3>1, YearIsNumber
    <3> PICK d : d = 10000 * y + 1231
      OBVIOUS
    <3>3. R!IsDay(d) /\ d \in Nat
      <4> PICK k : k = 100 * y + 12
        OBVIOUS
      <4>1. k \in Nat /\ k % 100 = 12
        BY <3>2
      <4>2. R!DaysIn(k) = 31
        BY <4>1 DEF R!DaysIn
      <4>3. R!IsDay(Date(y, 12, 31))
        BY <3>2, <4>2, Dates
      <4>4. d = Date(y, 12, 31)
        BY <3>2 DEF Date
      <4>5. QED
        BY <4>3, <4>4, DayParts
    <3>4. p[2] = R!Earliest(d, today)
      BY <2>4 DEF R!Period
    <3>5. QED
      BY <1>3, <3>3, <3>4 DEF R!Earliest
  <2>5. c.kind \in {"list", "summary", "revenue", "counterparty", "vat", "registry",
                    "card_sales", "cash_sales"}
    BY ReadingAssumption
  <2>6. QED
    BY <2>1, <2>2, <2>3, <2>4, <2>5
<1>8. c.kind \in {"revenue", "counterparty", "vat"} => InYear(c)'
  <2> SUFFICES ASSUME c.kind \in {"revenue", "counterparty", "vat"} PROVE InYear(c)'
    OBVIOUS
  <2>1. c.year \in 2000 .. 2100 /\ FitsYear(p, c.year) /\ BeginsHalf(p, c.year)
    BY <1>5
  <2>2. FitsYear(p, c.year)'
    BY <1>1, <2>1 DEF FitsYear
  <2>3. QED
    BY <1>2, <2>1, <2>2 DEF InYear
<1>9. PeriodFits(c)'
  <2>1. R!IsDay(p[2]) /\ p[2] <= today'
    BY <1>1, <1>7
  <2>2. /\ c.kind \in {"list", "summary"} => R!IsDay(p[1]) /\ p[1] <= p[2]
        /\ c.kind = "card_sales" => c.first <= c.last
    BY <1>4, <1>6
  <2>3. command'.period = p
    BY <1>2
  <2>4. /\ R!IsDay(command'.period[2]) /\ command'.period[2] <= today'
        /\ c.kind \in {"list", "summary"}
             => R!IsDay(command'.period[1]) /\ command'.period[1] <= command'.period[2]
    BY ONLY <2>1, <2>2, <2>3
  <2>5. QED
    BY <2>2, <2>4, <1>8 DEF PeriodFits
<1>10. QED
  BY <1>2, <1>9

\* The period of a command is right when it begins, and stays.
LEMMA PeriodStays == QueueIsTaken /\ PeriodIsRight /\ [R!Next]_(R!vars) => PeriodIsRight'
<1> SUFFICES ASSUME QueueIsTaken, PeriodIsRight, [R!Next]_(R!vars)
             PROVE  PeriodIsRight'
  OBVIOUS
<1>1. R!IsDay(today) /\ today \in Nat
  BY DayParts DEF QueueIsTaken
<1>2. ASSUME NEW c \in Reading, R!Begin(c) PROVE PeriodIsRight'
  <2>1. CASE R!Acceptable(c)
    <3>1. command'.of = c /\ PeriodFits(c)'
      BY <1>1, <1>2, <2>1, BeginFits
    <3>2. QED
      BY <3>1 DEF PeriodIsRight
  <2>2. CASE ~R!Acceptable(c)
    <3>1. reading' = "rejected"
      BY <1>2, <2>2 DEF R!Begin
    <3>2. QED
      BY <3>1 DEF PeriodIsRight
  <2>3. QED
    BY <2>1, <2>2
<1>3. ASSUME UNCHANGED command, R!IsDay(today'), today <= today',
             reading' \in {"fetch", "build", "done"} => reading \in {"fetch", "build", "done"}
      PROVE  PeriodIsRight'
  <2> SUFFICES ASSUME reading' \in {"fetch", "build", "done"}, NEW c, c = command'.of
               PROVE  PeriodFits(c)'
    BY DEF PeriodIsRight
  <2>1. PeriodFits(c)
    BY <1>3 DEF PeriodIsRight
  <2>2. QED
    BY <1>1, <1>3, <2>1, FitsLater
<1>4. CASE R!Fetch
  <2>1. UNCHANGED <<command, today>> /\ reading = "fetch"
    BY <1>4 DEF R!Fetch, R!FetchPage, R!FetchCardSales
  <2>2. QED
    BY <1>1, <1>3, <2>1
<1>5. CASE R!Fail
  BY <1>5 DEF R!Fail, PeriodIsRight
<1>6. CASE R!Build
  <2>1. UNCHANGED <<command, today>> /\ reading = "build"
    BY <1>6 DEF R!Build
  <2>2. QED
    BY <1>1, <1>3, <2>1
<1>7. CASE R!Midnight
  <2>1. UNCHANGED <<command, reading>> /\ today' = R!NextDay(today)
    BY <1>7 DEF R!Midnight
  <2>2. R!IsDay(today') /\ today < today' /\ today' \in Nat
    BY <1>1, <2>1, NextDayIsLater, DayParts
  <2>3. today <= today'
    BY <1>1, <2>2
  <2>4. QED
    BY <1>3, <2>1, <2>2, <2>3
<1>8. CASE UNCHANGED R!vars
  <2>1. UNCHANGED <<command, today, reading>>
    BY <1>8 DEF R!vars
  <2>2. QED
    BY <1>1, <1>3, <2>1
<1>9. QED
  BY <1>2, <1>4, <1>5, <1>6, <1>7, <1>8 DEF R!Next

\* What is right stays so while the ledger and the report stay: the days from which a
\* table or a total may be grow.
LEMMA DaysGrow ==
    ASSUME UNCHANGED command, R!IsDay(today), R!IsDay(today'), today <= today'
    PROVE  R!Days \subseteq R!Days'
<1> PICK p, t, u : p = command.period /\ t = today /\ u = today'
  OBVIOUS
<1>1. command'.period = p
  OBVIOUS
<1>2. t \in Nat /\ u \in Nat /\ R!MonthKey(t) \in Nat /\ R!MonthKey(u) \in Nat
  BY DayParts DEF IsMonth
<1>3. R!MonthKey(t) <= R!MonthKey(u)
  BY DayOrder
<1>4. R!MonthKeys(p[2], t) \subseteq R!MonthKeys(p[2], u)
  <2> PICK k, l : k = R!MonthKey(t) /\ l = R!MonthKey(u)
    OBVIOUS
  <2> PICK j : j = R!MonthKey(p[2])
    OBVIOUS
  <2>1. j .. k \subseteq j .. l
    BY <1>2, <1>3
  <2>2. QED
    BY <2>1 DEF R!MonthKeys
<1>5. R!Days = {d \in {100 * k + n : k \in R!MonthKeys(p[2], t), n \in 1 .. 31} :
                    R!IsDay(d) /\ p[2] <= d /\ d <= t}
  BY DEF R!Days
<1>6. R!Days' = {d \in {100 * k + n : k \in R!MonthKeys(p[2], u), n \in 1 .. 31} :
                    R!IsDay(d) /\ p[2] <= d /\ d <= u}
  BY <1>1 DEF R!Days
<1> SUFFICES ASSUME NEW d \in R!Days PROVE d \in R!Days'
  OBVIOUS
<1>7. R!IsDay(d) /\ p[2] <= d /\ d <= t
  BY <1>5
<1>8. d \in Nat
  BY <1>7, DayParts
<1>9. d <= u
  BY <1>2, <1>7, <1>8
<1>10. PICK k \in R!MonthKeys(p[2], t), n \in 1 .. 31 : d = 100 * k + n
  BY <1>5
<1>11. k \in R!MonthKeys(p[2], u)
  BY <1>4
<1>12. QED
  BY <1>6, <1>7, <1>9, <1>10, <1>11

\* A report that is built is right.
LEMMA BuildsRight ==
    QueueIsTaken /\ ReportTyped /\ ReadRight /\ PeriodIsRight /\ R!Build => R!ReportIsRight'
<1> SUFFICES ASSUME QueueIsTaken, ReportTyped, ReadRight, PeriodIsRight, R!Build
             PROVE  R!ReportIsRight'
  OBVIOUS
<1> PICK c : c = command.of
  OBVIOUS
<1>0. CASE sums # "whole"
  <2>1. sums' # "whole"
    BY <1>0 DEF R!Build
  <2>2. QED
    BY <2>1 DEF R!ReportIsRight
<1> SUFFICES ASSUME sums = "whole" PROVE R!ReportIsRight'
  BY <1>0
<1>1. reading = "build" /\ reading' = "done" /\ UNCHANGED command
  BY DEF R!Build
<1>2. PeriodFits(c)
  BY <1>1 DEF PeriodIsRight
<1>3. c \in Reading /\ command'.of = c
  BY <1>1, <1>2 DEF PeriodFits
<1> PICK qs : qs = R!WorkOver(c, command.period)
  OBVIOUS
<1>4. IsRead(c, qs)
  <2>1. Gathered(R!WorkOver(command.of, command.period), got, ledger, command.period[2], today)
    BY <1>1, ReadInFull DEF Complete
  <2>2. R!WorkOver(command.of, command.period) = qs
    OBVIOUS
  <2>3. Gathered(qs, got, ledger, command.period[2], today)
    BY <2>1, <2>2
  <2>4. QED
    BY <2>3 DEF IsRead, QueueIsTaken, ReportTyped
<1>5. CASE c.kind \in {"revenue", "vat"}
  <2>1. InYear(c)
    BY <1>2, <1>5 DEF PeriodFits
  <2>2. R!TableIsRight(c)'
    BY <1>4, <1>5, <2>1, BuildsTable
  <2>3. QED
    BY <1>3, <1>5, <2>2 DEF R!ReportIsRight
<1>6. CASE c.kind = "counterparty"
  <2>1. InYear(c)
    BY <1>2, <1>6 DEF PeriodFits
  <2>2. R!CounterpartiesAreRight'
    BY <1>4, <1>6, <2>1, BuildsCounterparties
  <2>3. QED
    BY <1>3, <1>6, <2>2 DEF R!ReportIsRight
<1>7. CASE c.kind \in Totalled
  <2>1. R!TotalsAreRight(c)'
    BY <1>2, <1>4, <1>7, BuildsTotals
  <2>2. c.kind \notin {"revenue", "vat"} /\ c.kind # "counterparty"
    BY <1>7 DEF Totalled
  <2>3. QED
    BY <1>3, <2>1, <2>2 DEF R!ReportIsRight
<1>8. QED
  BY <1>3, <1>5, <1>6, <1>7, ReadingAssumption DEF Totalled

\* A report that is right stays so, also the next day: there are only more days of
\* which it may be.
LEMMA ReportStays ==
    ASSUME R!ReportIsRight, UNCHANGED <<ledger, command, sums, reading, report>>,
           R!IsDay(today), R!IsDay(today'), today <= today'
    PROVE  R!ReportIsRight'
<1> SUFFICES ASSUME reading = "done", sums = "whole" PROVE R!ReportIsRight'
  BY DEF R!ReportIsRight
<1> PICK c : c = command.of
  OBVIOUS
<1>1. command'.of = c /\ reading' = "done"
  OBVIOUS
<1>2. R!Days \subseteq R!Days'
  BY DaysGrow
<1>3. CASE c.kind \in {"revenue", "vat"}
  <2>1. R!TableIsRight(c)
    BY <1>3 DEF R!ReportIsRight
  <2>2. PICK t, u \in R!Days : TableSays(report, c, R!DaysUntil(t, u))
    BY <2>1, TableRight
  <2>3. t \in R!Days' /\ u \in R!Days' /\ TableSays(report', c, R!DaysUntil(t, u))
    BY <1>2, <2>2
  <2>4. R!TableIsRight(c)'
    BY <2>3, TableRightNext
  <2>5. QED
    BY <1>1, <1>3, <2>4 DEF R!ReportIsRight
<1>4. CASE c.kind = "counterparty"
  <2>1. R!CounterpartiesAreRight
    BY <1>4 DEF R!ReportIsRight
  <2>2. R!CounterpartiesAreRight'
    <3> SUFFICES ASSUME NEW d \in Sided PROVE R!CounterpartiesSay(d, report[d])'
      BY DEF R!CounterpartiesAreRight, Sided
    <3> PICK list : list = report[d]
      OBVIOUS
    <3>1. R!CounterpartiesSay(d, list)
      BY <2>1 DEF R!CounterpartiesAreRight, Sided
    <3>2. R!Invoices(d)' = R!Invoices(d) /\ report'[d] = list
      BY DEF R!Invoices, R!InLedger
    <3>3. QED
      BY <3>1, <3>2 DEF R!CounterpartiesSay
  <2>3. QED
    BY <1>1, <1>4, <2>2 DEF R!ReportIsRight
<1>5. CASE c.kind \notin {"revenue", "vat"} /\ c.kind # "counterparty"
  <2>1. R!TotalsAreRight(c)
    BY <1>5 DEF R!ReportIsRight
  <2>2. \A t : R!ListedUntil(c, t)' = R!ListedUntil(c, t)
    BY ListedStays
  <2>3. R!TotalsAreRight(c)'
    <3>1. PICK t \in (IF R!IsDaily(c) THEN {command.period[2]} ELSE R!Days) :
             report = [total |-> R!Sum(R!ListedUntil(c, t), "total"),
                       tax |-> R!Sum(R!ListedUntil(c, t), "tax"),
                       count |-> R!Cardinality(R!ListedUntil(c, t))]
      BY <2>1 DEF R!TotalsAreRight
    <3> PICK E : E = R!ListedUntil(c, t)
      OBVIOUS
    <3>2. R!ListedUntil(c, t)' = E
      BY <2>2
    <3>3. t \in (IF R!IsDaily(c) THEN {command'.period[2]} ELSE R!Days')
      BY <1>2
    <3>4. report' = [total |-> R!Sum(E, "total"), tax |-> R!Sum(E, "tax"),
                     count |-> R!Cardinality(E)]
      BY <3>1
    <3>5. QED
      BY <3>2, <3>3, <3>4 DEF R!TotalsAreRight
  <2>4. QED
    BY <1>1, <1>5, <2>3 DEF R!ReportIsRight
<1>6. QED
  BY <1>3, <1>4, <1>5

\* Every step of a reading command keeps what it has printed, or prints what is right.
LEMMA RightNext ==
    QueueIsTaken /\ ReportTyped /\ ReadRight /\ PeriodIsRight /\ R!ReportIsRight /\ [R!Next]_(R!vars)
      => R!ReportIsRight'
<1> SUFFICES ASSUME QueueIsTaken, ReportTyped, ReadRight, PeriodIsRight, R!ReportIsRight,
                    [R!Next]_(R!vars)
             PROVE  R!ReportIsRight'
  OBVIOUS
<1>1. R!IsDay(today) /\ today \in Nat
  BY DayParts DEF QueueIsTaken
<1>2. ASSUME reading' # "done" PROVE R!ReportIsRight'
  BY <1>2 DEF R!ReportIsRight
<1>3. ASSUME NEW c \in Reading, R!Begin(c) PROVE reading' # "done"
  BY <1>3 DEF R!Begin
<1>4. CASE R!Fetch
  <2>1. reading = "fetch"
    BY <1>4 DEF R!Fetch
  <2>2. reading' # "done"
    BY <1>4, <2>1 DEF R!Fetch, R!FetchPage, R!FetchCardSales, R!Onward
  <2>3. QED
    BY <1>2, <2>2
<1>5. CASE R!Fail
  BY <1>2, <1>5 DEF R!Fail
<1>6. CASE R!Build
  BY <1>6, BuildsRight
<1>7. CASE R!Midnight
  <2>1. UNCHANGED <<ledger, command, sums, reading, report>> /\ today' = R!NextDay(today)
    BY <1>7 DEF R!Midnight
  <2>2. R!IsDay(today') /\ today < today' /\ today' \in Nat
    BY <1>1, <2>1, NextDayIsLater, DayParts
  <2>3. today <= today'
    BY <1>1, <2>2
  <2>4. QED
    BY <1>1, <2>1, <2>2, <2>3, ReportStays
<1>8. CASE UNCHANGED R!vars
  <2>1. UNCHANGED <<ledger, command, sums, reading, report, today>>
    BY <1>8 DEF R!vars
  <2>2. R!IsDay(today') /\ today <= today'
    BY <1>1, <2>1
  <2>3. QED
    BY <1>1, <2>1, <2>2, ReportStays
<1>9. QED
  BY <1>2, <1>3, <1>4, <1>5, <1>6, <1>7, <1>8 DEF R!Next

\* The same for one reading command.
LEMMA ReportsAreRight == R!Spec => []R!ReportIsRight
<1>1. R!Init => ReadRight /\ PeriodIsRight /\ R!ReportIsRight
  BY DEF R!Init, ReadRight, PeriodIsRight, R!ReportIsRight
<1>2. QED
  BY <1>1, ReadingStarts, ReadingKeeps, ReportsStart, ReportsStay, ReadingGoesOn, PeriodStays,
     RightNext, PTL
  DEF R!Spec

-----------------------------------------------------------------------------
(***************************************************************************)
(* A client: one of the two                                                *)
(***************************************************************************)
\* A client does to documents what InvoiceDocuments allows, whatever else it is for
\* (cli.py:1187-1230).
THEOREM ClientWrites == ClientSpec => Spec
<1>1. ClientInit => Init
  BY DEF ClientInit
<1>2. [ClientNext]_all => [Next]_vars
  <2> SUFFICES ASSUME [ClientNext]_all
               PROVE  Next \/ UNCHANGED vars
    OBVIOUS
  <2>1. CASE Report
    BY <2>1 DEF Report
  <2>2. CASE WriteInvoice
    BY <2>2 DEF WriteInvoice, Next
  <2>3. CASE ListInvoices
    BY <2>3 DEF ListInvoices, Next
  <2>4. CASE UNCHANGED all
    BY <2>4 DEF all
  <2>5. QED
    BY <2>1, <2>2, <2>3, <2>4 DEF ClientNext
<1>3. QED
  BY <1>1, <1>2, PTL DEF ClientSpec, Spec

\* A client reads as Reports says, whatever else it is for (cli.py:803-940).
THEOREM ClientReports == ClientSpec => R!Spec
<1>1. ClientInit => R!Init
  BY DEF ClientInit
<1>2. [ClientNext]_all => [R!Next]_(R!vars)
  <2> SUFFICES ASSUME [ClientNext]_all
               PROVE  R!Next \/ UNCHANGED R!vars
    OBVIOUS
  <2>1. CASE Report
    BY <2>1 DEF Report
  <2>2. CASE WriteInvoice
    BY <2>2 DEF WriteInvoice, reports, R!vars
  <2>3. CASE ListInvoices
    BY <2>3 DEF ListInvoices, reports, R!vars
  <2>4. CASE UNCHANGED all
    BY <2>4 DEF all, reports, R!vars
  <2>5. QED
    BY <2>1, <2>2, <2>3, <2>4 DEF ClientNext
<1>3. QED
  BY <1>1, <1>2, PTL DEF ClientSpec, R!Spec

\* cli.py:316-380, 889-917: no query of a command is refused as invalid, for any
\* period and day, and if days pass while the command reads.
THEOREM EveryQueryAcceptedHolds == ClientSpec => []EveryQueryAccepted
<1>1. QueueIsTaken => EveryQueryAccepted
  BY DEF QueueIsTaken, EveryQueryAccepted, R!EveryQueryAccepted
<1>2. QED
  BY <1>1, ClientReports, ReadingIsTaken, PTL

\* cli.py:565-713, 846-900, financials.py:76-89: a report is made of every
\* row that HomeTax has for the queries of the command, once each, however many pages
\* they came on and if days pass while the command reads; but what HomeTax leaves out of
\* the sums of a year, which have no count, is missing.
THEOREM EveryRowIsRead == ClientSpec => []Complete
  BY ClientReports, ReadingIsComplete, PTL

\* issuance_backend.py:268-309, 886-925: a client that also lists and reports signs what
\* was previewed, and a write that completes has settled the original.
THEOREM ClientSettles == ClientSpec => [](SignedIsPreviewed /\ CompleteIsSettled)
  BY ClientWrites, SignedIsPreviewedHolds, CompleteIsSettledHolds, PTL

\* Documents, rows and what remains to be asked are of their types in every client.
THEOREM ClientTypeOKHolds == ClientSpec => []ClientTypeOK
  BY ClientWrites, ClientReports, WritesAreTyped, ReportsAreTyped, PTL DEF ClientTypeOK

\* cli.py:565-1108, revenue.py:29-229: a report that is printed says what the ledger says,
\* for any ledger, period and page size, and if days pass while the command reads: each
\* entry of the period is in it once, in its month and on its side.
THEOREM ReportIsRightHolds == ClientSpec => []ReportIsRight
<1>1. R!ReportIsRight => ReportIsRight
  BY DEF ReportIsRight
<1>2. QED
  BY <1>1, ClientReports, ReportsAreRight, PTL
==============================================================================
