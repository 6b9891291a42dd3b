--------------------------- MODULE InvoiceQueries ---------------------------
(***************************************************************************)
(* Reading tax invoices: TaxInvoiceClient of invoices.py (list, summary,   *)
(* detail) and the page loop of the command line (collect_pages of cli.py, *)
(* which invoices and revenue run on top of list).                         *)
(*                                                                         *)
(* HomeTax gives pages of a list that changes while it is read: rows       *)
(* appear at any place (a written date may lie in the past) and may leave. *)
(* The login may be switched to another business between any two requests. *)
(* One call runs at a time (the lock of the session), and each request may *)
(* fail.                                                                   *)
(***************************************************************************)
EXTENDS Naturals, FiniteSets, Sequences, SequencesExt

CONSTANTS
    Businesses,
    RowsOf,         \* RowsOf[b]: the approval numbers of b, listed or not
    NoBusiness,
    PageSize,       \* 50 in summary and in the command line
    MaxSummary,     \* MAX_SUMMARY_ROWS
    MaxPages,       \* MAX_PAGES_PER_QUERY
    MaxReferences,  \* MAX_DETAIL_REFERENCES
    MaxChanges      \* bound: changes of the lists and switches, by others

Rows == UNION {RowsOf[b] : b \in Businesses}

ASSUME RowsAssumption ==
    /\ NoBusiness \notin Businesses
    /\ \A b, c \in Businesses : b # c => RowsOf[b] \cap RowsOf[c] = {}

ASSUME SizesAssumption ==
    /\ {PageSize, MaxSummary, MaxPages, MaxReferences} \subseteq Nat \ {0}
    /\ MaxChanges \in Nat

VARIABLES
    book,        \* book[b]: the list of b at HomeTax
    scope,       \* the business the login acts for
    changes,     \* how often others changed one of the two
    business,    \* TaxInvoiceClient.business_tin
    references,  \* TaxInvoiceClient.references, the oldest first
    call,        \* the call under way
    answer,      \* what the last call gave out
    listed,      \* history: the list at the first page of the call,
    shrunk       \* ... and whether a row of it has gone since

vars == <<book, scope, changes, business, references, call, answer, listed, shrunk>>

Idle == [at |-> "idle"]
NoAnswer == [kind |-> "none"]

\* A list of distinct rows of S.
IsList(list, S) == list \in Seq(S) /\ IsInjective(list)

\* The calls that read pages, and the one that asks for an invoice.
Reads == [kind : {"list", "summary", "collect"}, at : {"business", "page"},
          page : Nat \ {0}, items : Seq(Rows), total : Nat]
Details == [kind : {"detail"}, at : {"business", "detail"}, row : Rows]

TypeOK ==
    /\ book \in [Businesses -> Seq(Rows)]
    /\ \A b \in Businesses : IsList(book[b], RowsOf[b])
    /\ scope \in Businesses
    /\ changes \in 0 .. MaxChanges
    /\ business \in Businesses \cup {NoBusiness}
    /\ IsList(references, Rows) /\ Len(references) <= MaxReferences
    /\ call \in {Idle} \cup Reads \cup Details
    /\ call \in Reads => (call.kind = "collect" => call.page <= MaxPages)
    /\ listed \in Seq(Rows)
    /\ shrunk \in BOOLEAN

Init ==
    /\ book \in [Businesses -> UNION {SetToSeqs(S) : S \in SUBSET Rows}]
    /\ \A b \in Businesses : IsList(book[b], RowsOf[b])
    /\ scope \in Businesses
    /\ changes = 0
    /\ business = NoBusiness
    /\ references = <<>>
    /\ call = Idle
    /\ answer = NoAnswer
    /\ listed = <<>>
    /\ shrunk = FALSE

-----------------------------------------------------------------------------
(***************************************************************************)
(* A page                                                                  *)
(***************************************************************************)
PageOf(list, n) ==
    SubSeq(list, (n - 1) * PageSize + 1, IF n * PageSize < Len(list) THEN n * PageSize ELSE Len(list))

HasNext(list, n) == n * PageSize < Len(list)

Without(refs, row) ==
    IF row \in ToSet(refs)
    THEN RemoveAt(refs, CHOOSE i \in 1 .. Len(refs) : refs[i] = row)
    ELSE refs

\* Mutated form: nothing is ever forgotten.
RememberedForever(refs, row) == Append(Without(refs, row), row)

\* move_to_end, and popitem(last=False) above the bound.
Remembered(refs, row) ==
    LET longer == Append(Without(refs, row), row) IN
    IF Len(longer) > MaxReferences THEN Tail(longer) ELSE longer

RememberAll(rows) ==
    LET after[n \in 0 .. Len(rows)] ==
            IF n = 0 THEN references ELSE Remembered(after[n - 1], rows[n])
    IN after[Len(rows)]

-----------------------------------------------------------------------------
(***************************************************************************)
(* _business, at the start of each call                                    *)
(***************************************************************************)
Call(kind, page) ==
    /\ call = Idle
    /\ kind # "list" => page = 1
    /\ call' = [kind |-> kind, at |-> "business", page |-> page, items |-> <<>>, total |-> 0]
    /\ answer' = NoAnswer
    /\ listed' = <<>>
    /\ shrunk' = FALSE
    /\ UNCHANGED <<book, scope, changes, business, references>>

\* INVOICE_NOT_LISTED otherwise.
Detail(row) ==
    /\ call = Idle
    /\ row \in ToSet(references)
    /\ call' = [kind |-> "detail", at |-> "business", row |-> row]
    /\ answer' = NoAnswer
    /\ UNCHANGED <<book, scope, changes, business, references, listed, shrunk>>

\* Mutated form: what was listed for another business is kept.
KeptReferences == references

\* References belong to one business and branch.
References == IF scope = business THEN references ELSE <<>>

Business ==
    /\ call # Idle /\ call.at = "business"
    /\ references' = References
    /\ business' = scope
    /\ IF call.kind # "detail"
       THEN call' = [call EXCEPT !.at = "page"]
       ELSE IF call.row \in ToSet(References)
       THEN call' = [call EXCEPT !.at = "detail"]
       ELSE call' = Idle
    /\ UNCHANGED <<book, scope, changes, answer, listed, shrunk>>

\* The request with the invoice and its owner; the reply is compared and shown.
DetailReply ==
    /\ call # Idle /\ call.at = "detail"
    /\ call' = Idle
    /\ answer' = [kind |-> "detail", row |-> call.row, tin |-> business]
    /\ UNCHANGED <<book, scope, changes, business, references, listed, shrunk>>

-----------------------------------------------------------------------------
(***************************************************************************)
(* Pages                                                                   *)
(***************************************************************************)
Items == call.items \o PageOf(book[business], call.page)

\* A page arrives, the rows of it are remembered, and the call goes on.
Arrived ==
    /\ call # Idle /\ call.at = "page"
    /\ references' = RememberAll(PageOf(book[business], call.page))
    /\ listed' = IF call.page = 1 THEN book[business] ELSE listed
    /\ shrunk' = IF call.page = 1 THEN FALSE ELSE shrunk
    /\ UNCHANGED <<book, scope, changes, business>>

Raise == call' = Idle /\ UNCHANGED answer

Give ==
    /\ call' = Idle
    /\ answer' = [kind |-> call.kind, items |-> Items, total |-> Len(book[business])]

Onward(at) ==
    /\ call' = [call EXCEPT !.at = at, !.page = @ + 1, !.items = Items,
                            !.total = Len(book[business])]
    /\ UNCHANGED answer

ListPage ==
    /\ Arrived
    /\ call.kind = "list"
    /\ Give

\* Mutated form: a longer list is read on.
SameTotal(total) == total >= call.total

\* INVOICE_LIST_CHANGED otherwise.
SameList(total) ==
    /\ total = call.total
    /\ ToSet(call.items) \cap ToSet(PageOf(book[business], call.page)) = {}

SummaryPage ==
    LET list == book[business] IN
    /\ Arrived
    /\ call.kind = "summary"
    /\ IF call.page = 1 /\ Len(list) > MaxSummary THEN Raise
       ELSE IF call.page > 1 /\ ~SameList(Len(list)) THEN Raise
       ELSE IF HasNext(list, call.page) THEN Onward("page")
       ELSE IF Len(Items) # Len(list) THEN Raise
       ELSE Give

\* collect_pages: each page is a list of its own, with its own _business.
CollectPage ==
    LET list == book[business] IN
    /\ Arrived
    /\ call.kind = "collect"
    /\ IF ~HasNext(list, call.page) THEN Give
       ELSE IF call.page = MaxPages THEN Raise
       ELSE Onward("business")

Fail ==
    /\ call # Idle
    /\ call' = Idle
    /\ UNCHANGED <<book, scope, changes, business, references, answer, listed,
                   shrunk>>

-----------------------------------------------------------------------------
(***************************************************************************)
(* HomeTax and others                                                      *)
(***************************************************************************)
Others ==
    /\ changes < MaxChanges
    /\ changes' = changes + 1
    /\ UNCHANGED <<business, references, call, answer, listed>>

Issued(b) ==
    /\ Others
    /\ \E row \in RowsOf[b] \ ToSet(book[b]), i \in 1 .. Len(book[b]) + 1 :
          book' = [book EXCEPT ![b] = InsertAt(@, i, row)]
    /\ UNCHANGED <<scope, shrunk>>

Gone(b) ==
    /\ Others
    /\ \E i \in 1 .. Len(book[b]) : book' = [book EXCEPT ![b] = RemoveAt(@, i)]
    /\ shrunk' = (shrunk \/ b = business)
    /\ UNCHANGED scope

Switch(b) ==
    /\ Others
    /\ scope # b
    /\ scope' = b
    /\ UNCHANGED <<book, shrunk>>

Next ==
    \/ \E kind \in {"list", "summary", "collect"}, page \in 1 .. MaxPages : Call(kind, page)
    \/ \E row \in Rows : Detail(row)
    \/ Business \/ DetailReply
    \/ ListPage \/ SummaryPage \/ CollectPage \/ Fail
    \/ \E b \in Businesses : Issued(b) \/ Gone(b) \/ Switch(b)

Spec == Init /\ [][Next]_vars

-----------------------------------------------------------------------------
Given(kind) == answer # NoAnswer /\ answer.kind = kind

\* invoices.py:389-402: a summary counts each invoice once and as many as HomeTax
\* says there are; and if invoices only came in while it was reading, it is the
\* list as it was at the first page, never a part of one list and a part of another.
SummaryIsRight ==
    Given("summary") =>
        /\ IsInjective(answer.items)
        /\ Len(answer.items) = answer.total
        /\ ~shrunk => answer.items = listed

\* invoices.py:243-246, 416-422: a detail is only asked for with the business in
\* whose list the invoice was shown, whatever the login was switched to since.
DetailIsOfTheLister == Given("detail") => answer.row \in RowsOf[answer.tin]

\* docs/FINANCIALS.md:111: the yearly total of revenue (collect_pages) is that of
\* summary: no invoice is in it twice.
CollectedOnce == Given("collect") => IsInjective(answer.items)
=============================================================================
