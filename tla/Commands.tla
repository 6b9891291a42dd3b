------------------------------- MODULE Commands -------------------------------
(***************************************************************************)
(* What a client of HomeTax is made for: one reading command of the        *)
(* command line (Reports), one writing command of it (invoice_operation of *)
(* cli.py, on InvoiceDocuments), or a session of the API, in which the     *)
(* user may list invoices before writing.  A process of the command line   *)
(* has a client of its own: what another one has listed, it has not.       *)
(***************************************************************************)
EXTENDS InvoiceDocuments

CONSTANTS Ledgers, Todays, Reading, PageSize, MaxPages, MaxNights

VARIABLES ledger, today, nights, command, queue, page, got, sums, reading, report
VARIABLE client     \* what it is for

R == INSTANCE Reports WITH Commands <- Reading, at <- reading

\* Commands have the arguments that the parser takes; YearQuery and CardSalesQuery
\* take no year after 2100.
ASSUME ReadingAssumption ==
    \A c \in Reading :
        \/ /\ c.kind \in {"list", "summary"}
           /\ c.source \in {"sales", "purchases", "business_card", "cash_purchase"}
           /\ c.from = R!Ytd \/ (R!IsDay(c.from) /\ R!IsDay(c.to))
           /\ c.kind = "list" => c.deduction \in {"all", "deductible", "non_deductible"}
        \/ c.kind \in {"revenue", "counterparty", "cash_sales"} /\ c.year \in 0 .. 2100
        \/ c.kind = "vat" /\ c.year \in 0 .. 2100 /\ c.half \in 1 .. 2
        \/ /\ c.kind = "card_sales" /\ c.year \in 0 .. 2100
           /\ c.first \in 1 .. 4 /\ c.last \in 1 .. 4
        \/ c.kind = "registry"

ASSUME BooksAssumption ==
    /\ \A l \in Ledgers :
          /\ IsFiniteSet(l)
          /\ \A e \in l : /\ {e.total, e.tax} \subseteq Int
                          /\ IF e.line = "registry" THEN e.day = 0 ELSE R!IsDay(e.day)
    /\ \A d \in Todays : R!IsDay(d)

ASSUME LimitsAssumption ==
    {PageSize, MaxPages} \subseteq Nat \ {0} /\ {MaxNights, MaxChanges} \subseteq Nat

reports == <<ledger, today, nights, command, queue, page, got, sums, reading, report>>
all == <<vars, reports, client>>

\* What a client does not look at may be anything.
ClientInit ==
    /\ client \in {"report", "write", "session"}
    /\ Init /\ R!Init
    /\ client = "report" => register = CHOOSE f \in Registers : TRUE
    /\ client = "report" => party = CHOOSE p \in Parties : TRUE
    /\ client # "report" => ledger = CHOOSE l \in Ledgers : TRUE
    /\ client # "report" => today = CHOOSE d \in Todays : TRUE

Report == client = "report" /\ R!Next /\ UNCHANGED <<vars, client>>

\* invoice_operation: a login, a preview and a submission.
WriteInvoice == client # "report" /\ (Write \/ Change) /\ UNCHANGED <<reports, client>>

ListInvoices ==
    /\ client = "session"
    /\ \E direction \in Directions : List(direction)
    /\ UNCHANGED <<reports, client>>

ClientNext == Report \/ WriteInvoice \/ ListInvoices

ClientSpec == ClientInit /\ [][ClientNext]_all

ClientTypeOK == TypeOK /\ R!TypeOK
ReportIsRight == R!ReportIsRight
EveryQueryAccepted == R!EveryQueryAccepted

\* README.md:177-178: the command line corrects and cancels an invoice by its number.
\* So it does not ask for a list first, which the same client can no longer make.
CliCorrects ==
    (client = "write" /\ at = "not_listed") => ~Correctable(Original(prepared.request))
=============================================================================
