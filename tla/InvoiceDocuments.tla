--------------------------- MODULE InvoiceDocuments ---------------------------
(***************************************************************************)
(* The documents of one write (issuance_backend.py): what preview_issue,   *)
(* preview_correct and preview_cancel derive from a request and an         *)
(* original invoice, and what issue compares on the way from HomeTax's XML *)
(* to the invoices in its register.  InvoiceOperations has the same steps  *)
(* with the journal around them and a version for the content.             *)
(*                                                                         *)
(* HomeTax may make other documents than it was asked for, register others *)
(* than were signed, some or none, and answer late or in any order.        *)
(***************************************************************************)
EXTENDS Integers, Sequences, FiniteSets, SequencesExt

CONSTANTS
    Numbers,      \* approval numbers (etan)
    NoNumber,
    NoDocument,
    Registers,    \* what may be registered at the start
    Requests,     \* what a user may ask for
    Parties,      \* states of the registered data of the recipient
    MaxChanges    \* bound: how often that data changes

VARIABLES
    register,     \* register[n]: the invoice with number n at HomeTax
    party,        \* the data of the recipient now
    changes,
    references,   \* references[n]: the direction in which n was listed
    at,           \* the await of the operation, or how it ended
    prepared,     \* the preview
    wire,         \* invoice_wire_encoding
    trust,        \* invoice_signed_info_trust_web
    made,         \* the documents of the C04 answer
    sent,         \* the C05 request is on its way
    checked,      \* how many documents were read back
    signed        \* history: the documents that were signed

vars == <<register, party, changes, references, at, prepared, wire, trust, made, sent, checked, signed>>
world == <<register, party, changes, references>>

Directions == {"sales", "purchases"}
Reasons == {"none", "01", "04", "06"}
Encodings == {"raw", "base64", "signedinfo"}

\* Amounts are supply amounts; the tax goes the same way.
Total(lines) == MapThenSumSet(LAMBDA i : lines[i], DOMAIN lines)
Abs(n) == IF n < 0 THEN -n ELSE n

\* A request says the operation, the dates and lines of a new document, and the
\* original and the reason of a correction or cancellation.
Document(supplier, who, written, lines, sum, reason, original) ==
    [supplier |-> supplier, party |-> who, written |-> written, supplied |-> written,
     lines |-> lines, sum |-> sum, reason |-> reason, original |-> original]

Fields == {"supplier", "party", "written", "supplied", "lines", "sum", "reason", "original"}

ASSUME RegistersAssumption ==
    /\ NoNumber \notin Numbers
    /\ \A f \in Registers : DOMAIN f = Numbers
    /\ \A f \in Registers, n \in Numbers :
          f[n] # NoDocument =>
              f[n].sum \in Int /\ f[n].reason \in Reasons /\ DOMAIN f[n] = Fields

ASSUME RequestsAssumption ==
    \A r \in Requests :
        /\ r.operation \in {"issue", "correct", "cancel"}
        /\ IF r.operation = "issue" THEN r.original = NoNumber
           ELSE r.original \in Numbers /\ r.reason \in Reasons \ {"none"}
        /\ Total(r.lines) \in Int

-----------------------------------------------------------------------------
(***************************************************************************)
(* Previews                                                                *)
(***************************************************************************)
\* _document; lines are not negative and their sum is positive.
Replacement(r, reason) ==
    Document("self", party, r.written, r.lines, Total(r.lines), reason, r.original)

\* _negative_document: all amounts become negative, also those that were.
Negative(d, written, supplied, n, reason) ==
    [d EXCEPT !.written = written, !.supplied = supplied, !.original = n, !.reason = reason,
              !.lines = [i \in DOMAIN d.lines |-> -Abs(d.lines[i])], !.sum = -Abs(d.sum)]

\* Mutated form: the sums of the lines are not compared.
ReadableAnyway(d) == d # NoDocument

\* _document_from_detail: the lines add up to the sum.
Readable(d) == d # NoDocument /\ Total(d.lines) = d.sum

\* _original_document: the client listed it as a sale, and it is an invoice of this
\* business with a positive sum which corrects no other.
Original(r) == register[r.original]
Correctable(d) ==
    Readable(d) /\ d.supplier = "self" /\ d.sum > 0 /\ d.reason = "none"

\* preview_correct, preview_cancel: a correction keeps the date; a contract is cancelled on that day or later, at a
\* date of its own; what was issued twice is cancelled at its date.
DateFits(r, d) ==
    IF r.reason = "04" THEN r.written >= d.written ELSE r.written = d.written

\* What the original has to be; what else a preview asks of it is in Preview.
Allowed(r) ==
    r.operation # "issue" =>
        /\ references[r.original] = "sales"
        /\ Correctable(Original(r)) /\ DateFits(r, Original(r))

Unlisted(r) == {n \in {r.original} \ {NoNumber} : references[n] = "none"}

\* The documents of a request.
Documents(r) ==
    LET d == Original(r) IN
    CASE r.operation = "issue" -> <<Replacement(r, "none")>>
      [] r.operation = "correct" ->
           <<Negative(d, d.written, d.supplied, r.original, "01"), Replacement(r, "01")>>
      [] r.operation = "cancel" /\ r.reason = "04" ->
           <<Negative(d, r.written, r.written, r.original, "04")>>
      [] OTHER -> <<Negative(d, d.written, d.supplied, r.original, r.reason)>>

NoPlan == [docs |-> <<>>]

Awaits == {"idle", "previewed", "refresh", "create", "commit", "readback"}
Ends == {"not_listed", "refused", "raised", "complete"}

TypeOK ==
    /\ \A n \in Numbers : register[n] # NoDocument =>
          register[n].sum \in Int /\ register[n].reason \in Reasons
    /\ party \in Parties
    /\ changes \in 0 .. MaxChanges
    /\ references \in [Numbers -> Directions \cup {"none"}]
    /\ at \in Awaits \cup Ends
    /\ at # "idle" => prepared.request \in Requests
    /\ \A i \in DOMAIN prepared.docs : prepared.docs[i].reason \in Reasons
    /\ wire \in Encodings /\ trust \in BOOLEAN /\ sent \in BOOLEAN
    /\ \A i \in DOMAIN made : made[i].number \in Numbers
    /\ at \in {"commit", "readback"} => Len(made) = Len(prepared.docs)
    /\ checked \in 0 .. Len(prepared.docs)

Init ==
    /\ register \in Registers
    /\ party \in Parties
    /\ changes = 0
    /\ references = [n \in Numbers |-> "none"]
    /\ at = "idle"
    /\ prepared = NoPlan
    /\ wire = "raw" /\ trust = FALSE
    /\ made = <<>> /\ sent = FALSE /\ checked = 0
    /\ signed = {}

\* invoices.list: a page of one direction is remembered (InvoiceQueries).
List(direction) ==
    /\ at = "idle"
    /\ references' =
         [n \in Numbers |->
            IF register[n] # NoDocument /\ (register[n].supplier = "self" <=> direction = "sales")
            THEN direction ELSE references[n]]
    /\ UNCHANGED <<register, party, changes, at, prepared, wire, trust, made, sent, checked, signed>>

\* Any request may be refused for what is not kept here: the login acts for a branch, the
\* recipient is not registered, the business may not issue on that day, HomeTax shows other
\* amounts than it listed, or does not answer.
Preview(r) ==
    /\ at = "idle"
    /\ \/ /\ Allowed(r)
          /\ at' = "previewed"
          /\ prepared' = [request |-> r, docs |-> Documents(r)]
       \/ /\ at' \in {"refused"} \cup {"not_listed" : n \in Unlisted(r)}
          /\ prepared' = [request |-> r, docs |-> <<>>]
    /\ UNCHANGED <<world, wire, trust, made, sent, checked, signed>>

-----------------------------------------------------------------------------
(***************************************************************************)
(* issue                                                                   *)
(***************************************************************************)
\* A correction is two documents, which signedinfo cannot sign. trust is only
\* possible with signedinfo.
Issue(encoding, trusting) ==
    /\ at = "previewed"
    /\ trusting => encoding = "signedinfo"
    /\ wire' = encoding
    /\ trust' = trusting
    /\ at' = IF encoding = "signedinfo" /\ Len(prepared.docs) # 1 THEN "raised" ELSE "refresh"
    /\ UNCHANGED <<world, prepared, made, sent, checked, signed>>

\* refresh makes the preview again and compares.
Refresh ==
    LET r == prepared.request IN
    /\ at = "refresh"
    /\ at' = IF Allowed(r) /\ Documents(r) = prepared.docs THEN "create" ELSE "raised"
    /\ UNCHANGED <<world, prepared, wire, trust, made, sent, checked, signed>>

Unused == {n \in Numbers : register[n] = NoDocument}
Other(d) == [d EXCEPT !.written = @ + 1]

\* What C04 may answer: XML documents, each with its own issue id, under a number.
\* The XML may be of other content or in another order, or one may be missing.
Answers(docs) ==
    LET shapes == {docs, Reverse(docs), <<Other(docs[1])>> \o Tail(docs), Tail(docs)}
    IN UNION {{[i \in DOMAIN s |-> [doc |-> s[i], id |-> ids[i], number |-> ns[i]]] :
                  ns \in [DOMAIN s -> Unused], ids \in [DOMAIN s -> Unused]} : s \in shapes}

\* _xml_response_documents and _assert_xml_matches_documents, one by one.
Matches(answer, docs) ==
    /\ DOMAIN answer = DOMAIN docs
    /\ \A i \in DOMAIN docs : answer[i].doc = docs[i] /\ answer[i].id = answer[i].number

\* Mutated form: a digest of anything is signed.
VerifiedBlindly(subject, answer) == TRUE

\* _signed_info_request, sign_signed_info: the digest is that of the XML that was
\* compared (or of a transfer XML that compares as well), unless the user trusts.
Verified(subject, answer) == trust \/ subject = answer[1].doc

\* The answer to C04 is compared, signed, and sent with C05, without an await.
Create ==
    /\ at = "create"
    /\ \E answer \in Answers(prepared.docs) :
          IF ~Matches(answer, prepared.docs)
          THEN at' = "raised" /\ UNCHANGED <<made, sent, signed>>
          ELSE \E subject \in {answer[1].doc, Other(answer[1].doc)} :
                  IF wire = "signedinfo" /\ ~Verified(subject, answer)
                  THEN at' = "raised" /\ UNCHANGED <<made, sent, signed>>
                  ELSE /\ at' = "commit"
                       /\ made' = answer
                       /\ sent' = TRUE
                       /\ signed' = signed \cup (IF wire = "signedinfo" THEN {subject}
                                                 ELSE {answer[i].doc : i \in DOMAIN answer})
    /\ UNCHANGED <<world, prepared, wire, trust, checked>>

\* HomeTax acts on C05, maybe after the call has failed: it registers all documents,
\* some or none, as they were made or otherwise.
Act ==
    /\ sent
    /\ sent' = FALSE
    /\ \E done \in SUBSET DOMAIN made, other \in SUBSET DOMAIN made :
          register' = [n \in Numbers |->
              IF \E i \in done : made[i].number = n
              THEN LET i == CHOOSE j \in done : made[j].number = n
                   IN IF i \in other THEN Other(made[i].doc) ELSE made[i].doc
              ELSE register[n]]
    /\ UNCHANGED <<party, changes, references, at, prepared, wire, trust, made, checked, signed>>

MadeNumbers == {made[i].number : i \in DOMAIN made}

\* _approval_numbers, and the comparison with the staged ones; the order is that of
\* the documents, not that of the answer.
Accepts(numbers) == Cardinality(numbers) = Len(made) /\ numbers = MadeNumbers

\* The answer to C05.
Committed ==
    /\ at = "commit" /\ ~sent
    /\ \E numbers \in SUBSET Numbers :
          at' = IF Accepts(numbers) THEN "readback" ELSE "raised"
    /\ UNCHANGED <<world, prepared, wire, trust, made, sent, checked, signed>>

\* _same_document.
Agrees(d, i) == Readable(d) /\ d = prepared.docs[i]

\* _verify_readback, one document after the other.
ReadBack ==
    LET i == checked + 1 IN
    /\ at = "readback"
    /\ IF ~Agrees(register[made[i].number], i) THEN at' = "raised" /\ UNCHANGED checked
       ELSE /\ checked' = i
            /\ at' = IF i = Len(prepared.docs) THEN "complete" ELSE at
    /\ UNCHANGED <<world, prepared, wire, trust, made, sent, signed>>

\* A request fails, is refused or not answered in time.
Fail ==
    /\ at \in {"refresh", "create", "commit", "readback"}
    /\ at' = "raised"
    /\ UNCHANGED <<world, prepared, wire, trust, made, sent, checked, signed>>

\* The recipient's data is changed.
Change ==
    /\ changes < MaxChanges
    /\ changes' = changes + 1
    /\ party' \in Parties \ {party}
    /\ UNCHANGED <<register, references, at, prepared, wire, trust, made, sent, checked, signed>>

Write ==
    \/ \E r \in Requests : Preview(r)
    \/ \E encoding \in Encodings, trusting \in BOOLEAN : Issue(encoding, trusting)
    \/ Refresh \/ Create \/ Act \/ Committed \/ ReadBack \/ Fail

Next ==
    \/ \E direction \in Directions : List(direction)
    \/ Write \/ Change

Spec == Init /\ [][Next]_vars

-----------------------------------------------------------------------------
\* issuance_backend.py:268-281, 886-925: only what the preview showed is signed,
\* whatever HomeTax makes of the request, unless the user told the client to trust
\* the digest of the web page.
SignedIsPreviewed == \A d \in signed : trust \/ d \in ToSet(prepared.docs)

\* issuance_backend.py:288-309, 408-435: when the numbers are given to the user, the
\* register has under each of them the document that was previewed, however late and
\* in whatever form HomeTax acted; and the first document of a correction, or the
\* cancellation, takes back the whole original, line for line in sum (also if some
\* lines of the original were negative: then the operation does not complete).
CompleteIsSettled ==
    at = "complete" =>
        /\ \A i \in DOMAIN prepared.docs : register[made[i].number] = prepared.docs[i]
        /\ prepared.request.operation # "issue" =>
              LET d == register[made[1].number]
                  o == Original(prepared.request)
              IN /\ d.original = prepared.request.original
                 /\ d.sum = -o.sum
                 /\ Total(d.lines) = -Total(o.lines)
===============================================================================
