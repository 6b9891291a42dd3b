------------------------------- MODULE Reports -------------------------------
(***************************************************************************)
(* The reading commands of the command line (cli.py): they cut a period    *)
(* into queries that HomeTax takes, read each page by page (invoices.py,   *)
(* financials.py) and add up what came (revenue.py): lists with totals,    *)
(* summaries, the yearly revenue, the VAT of a half-year, counterparties.  *)
(*                                                                         *)
(* Dates are numbers yyyymmdd, months yyyymm.  While a command reads, the  *)
(* day may end.  The books of a day are complete when it begins: that a    *)
(* list changes between two pages is the subject of InvoiceQueries.        *)
(***************************************************************************)
EXTENDS Integers, FiniteSets, Sequences, SequencesExt

CONSTANTS
    Ledgers,     \* what HomeTax may have: sets of entries
    Todays,      \* days on which a command may start
    Commands,    \* commands with their arguments
    PageSize,    \* page_size, 50 rows
    MaxPages,    \* MAX_PAGES_PER_QUERY
    MaxNights    \* bound: how often midnight passes

VARIABLES
    ledger,      \* the entries at HomeTax, of any day
    today,       \* today in Korea
    nights,      \* how often midnight has passed
    command,     \* the command and its period
    queue,       \* queries still to make
    page,        \* the page to ask for
    got,         \* rows received
    sums,        \* "short": HomeTax left out a sum of a year, which no count belies
    at,
    report       \* what the command prints

vars == <<ledger, today, nights, command, queue, page, got, sums, at, report>>

-----------------------------------------------------------------------------
(***************************************************************************)
(* The calendar                                                            *)
(***************************************************************************)
Year(d) == d \div 10000
MonthOf(d) == (d \div 100) % 100

\* revenue.month_key, or the month of a month key.
MonthKey(d) == d \div 100

Leap(y) == y % 4 = 0 /\ (y % 100 # 0 \/ y % 400 = 0)

\* monthrange of a month key.
DaysIn(k) ==
    CASE k % 100 = 2 -> IF Leap(k \div 100) THEN 29 ELSE 28
      [] k % 100 \in {4, 6, 9, 11} -> 30
      [] OTHER -> 31

LastDay(k) == 100 * k + DaysIn(k)

\* The month key n months later.
Later(k, n) == LET m == (k % 100) - 1 + n IN 100 * (k \div 100 + m \div 12) + (m % 12) + 1

NextDay(d) == IF d = LastDay(MonthKey(d)) THEN 100 * Later(MonthKey(d), 1) + 1 ELSE d + 1
Earliest(d, e) == IF d < e THEN d ELSE e

\* A day n months later, or the end of that month.
SameDay(d, n) == LET k == Later(MonthKey(d), n) IN 100 * k + Earliest(d % 100, DaysIn(k))

IsDay(d) == d \in Nat /\ MonthOf(d) \in 1 .. 12 /\ d % 100 \in 1 .. DaysIn(MonthKey(d))

MonthKeys(start, end) ==
    {k \in MonthKey(start) .. MonthKey(end) : k % 100 \in 1 .. 12}

HowManyMonths(start, end) == 12 * (Year(end) - Year(start)) + MonthOf(end) - MonthOf(start) + 1

\* Spans that end with a month, the n-th one at the latest, and begin with a month
\* after the first.
SplitInto(n, start, end) ==
    LET month(i) == Later(MonthKey(start), n * i)
        first(i) == IF i = 1 THEN start ELSE 100 * month(i - 1) + 1
        last(i) == Earliest(LastDay(Later(MonthKey(start), n * i - 1)), end)
    IN [i \in 1 .. (HowManyMonths(start, end) + n - 1) \div n |-> <<first(i), last(i)>>]

\* Mutated form: MAX_MONTHS_PER_QUERY counts from the next month on.
SplitByFour(start, end) == SplitInto(4, start, end)

SplitPeriods(start, end) == SplitInto(3, start, end)

\* valid_period: at most three months, ending today or earlier.
ValidPeriod(from, to) == from <= to /\ to <= Earliest(today, SameDay(from, 3))

\* YearQuery, CardSalesQuery.
ValidYear(from, to) == Year(from) \in 2000 .. 2100 /\ Year(from) <= Year(today) /\ from <= to

-----------------------------------------------------------------------------
(***************************************************************************)
(* Entries, queries and rows                                               *)
(***************************************************************************)
Columns == {"sales", "card_sales", "cash_sales", "purchases", "business_card", "cash_purchase"}
SaleColumns == {"sales", "card_sales", "cash_sales"}

\* The lines of the ledger behind a source.
LinesOf(source) == IF source = "card_sales" THEN {"card", "agency"} ELSE {source}

\* Which entries of a purchase a query, or a total, is about: HomeTax calls those of
\* which the tax may be deducted eligible, and deductible those of which it is.
Deductions == {"all", "deductible", "non_deductible", "eligible"}

Kept(e, deduction) ==
    \/ deduction = "all"
    \/ deduction = "deductible" /\ e.deductible
    \/ deduction = "non_deductible" /\ ~e.deductible
    \/ deduction = "eligible" /\ e.eligible

\* whole: no pages.
Query(source, from, to, deduction, whole) ==
    [source |-> source, from |-> from, to |-> to, deduction |-> deduction, whole |-> whole]

ValidQuery(q) ==
    CASE q.source \in {"card_sales", "cash_sales"} -> ValidYear(q.from, q.to)
      [] q.source = "registry" -> TRUE
      [] OTHER -> ValidPeriod(q.from, q.to)

\* What HomeTax has for a query, of its books up to day t.
Found(books, q, t) ==
    {e \in books : /\ e.line \in LinesOf(q.source)
                   /\ q.from <= e.day /\ e.day <= Earliest(q.to, t)
                   /\ Kept(e, q.deduction)}

Matching(q) == Found(ledger, q, today)

\* A row of each kind of reply: an entry, the sum of a merchant, of a month and line.
Key(q, e) ==
    CASE q.source = "cash_purchase" -> e.party
      [] q.source \in {"card_sales", "cash_sales"} -> <<MonthKey(e.day), e.line>>
      [] OTHER -> e

Sum(E, field) == SumFunction([e \in E |-> e[field]])

\* A merchant's row has no date: it belongs to the month that was asked for.
Row(q, E) ==
    LET e == CHOOSE x \in E : TRUE IN
    [source |-> q.source, line |-> e.line, party |-> e.party, count |-> Cardinality(E),
     month |-> MonthKey(IF q.source = "cash_purchase" THEN q.from ELSE e.day),
     total |-> Sum(E, "total"), tax |-> Sum(E, "tax")]

Keys(q, E) == {Key(q, e) : e \in E}
WithKey(q, E, k) == {e \in E : Key(q, e) = k}

\* A set in whatever order.
InOrder(S) == FoldSet(LAMBDA x, s : Append(s, x), <<>>, S)

\* The rows about the entries E.
RowsAbout(q, E) ==
    LET order == InOrder(Keys(q, E))
    IN [i \in 1 .. Cardinality(Keys(q, E)) |-> Row(q, WithKey(q, E, order[i]))]

Rows(q) == RowsAbout(q, Matching(q))

\* _breakdown: each page of cash purchases carries totals of all, whatever the query's
\* filter: of the eligible ones (ddcTrgt) and of the deductible ones (ddc).
Breakdowns == {"eligible_total", "deductible_total"}
Counts(total) == IF total = "eligible_total" THEN "eligible" ELSE "deductible"

BreakdownOf(total, q, E) ==
    [source |-> total, line |-> "cash_purchase", party |-> "", count |-> Cardinality(E),
     month |-> MonthKey(q.from), total |-> Sum(E, "total"), tax |-> Sum(E, "tax")]

Breakdown(total, q) == BreakdownOf(total, q, Matching([q EXCEPT !.deduction = Counts(total)]))

BreakdownsOf(q) == <<Breakdown("eligible_total", q), Breakdown("deductible_total", q)>>

PageOf(rows, n) == SubSeq(rows, (n - 1) * PageSize + 1, Earliest(n * PageSize, Len(rows)))

-----------------------------------------------------------------------------
(***************************************************************************)
(* Commands                                                                *)
(***************************************************************************)
QuarterOf(d) == (MonthOf(d) - 1) \div 3 + 1
CardSales(year, first, last) ==
    <<Query("card_sales", 10000 * year + 100 * (3 * first - 2) + 1,
            LastDay(100 * year + 3 * last), "all", TRUE)>>
CashSales(year) == <<Query("cash_sales", 10000 * year + 101, 10000 * year + 1231, "all", TRUE)>>

\* The registry is asked for as it is, without dates: its entries are of day 0.
Forever == 99999999

\* fetch_invoices, fetch_business_cards.
Spans(source, period, deduction, whole) ==
    LET spans == SplitPeriods(period[1], period[2])
    IN [i \in DOMAIN spans |-> Query(source, spans[i][1], spans[i][2], deduction, whole)]

\* fetch_cash_purchase_months: the only way to monthly sums.
CashMonths(period) ==
    LET month(i) == Later(MonthKey(period[1]), i - 1)
    IN [i \in 1 .. HowManyMonths(period[1], period[2]) |->
           Query("cash_purchase", 100 * month(i) + 1, Earliest(LastDay(month(i)), period[2]),
                 "all", FALSE)]

Ytd == 0

\* parse_range, revenue_mode and year_range, parse_vat_period and vat_period; --ytd
\* is a range from the first of January to today.
Period(c) ==
    CASE c.kind \in {"list", "summary"} ->
           IF c.from = Ytd THEN <<10000 * Year(today) + 101, today>> ELSE <<c.from, c.to>>
      [] c.kind = "vat" ->
           <<10000 * c.year + 600 * c.half - 499,
             Earliest(LastDay(100 * c.year + 6 * c.half), today)>>
      [] c.kind = "registry" -> <<today, today>>
      [] OTHER -> <<10000 * c.year + 101, Earliest(10000 * c.year + 1231, today)>>

\* An order or a time that the command line refuses before it logs in.
Acceptable(c) ==
    LET p == Period(c) IN
    CASE c.kind \in {"list", "summary"} -> p[1] <= p[2] /\ p[2] <= today
      [] c.kind = "vat" -> c.year >= 2000 /\ p[1] <= today
      [] c.kind = "registry" -> TRUE
      [] c.kind = "card_sales" -> c.year \in 2000 .. Year(today) /\ c.first <= c.last
      [] OTHER -> c.year \in 2000 .. Year(today)

\* The queries of a command over a period.
WorkOver(c, p) ==
    CASE c.kind = "list" -> Spans(c.source, p, c.deduction, FALSE)
      [] c.kind = "summary" -> Spans(c.source, p, "all", TRUE)
      [] c.kind = "registry" -> <<Query("registry", 0, Forever, "all", FALSE)>>
      [] c.kind = "card_sales" -> CardSales(c.year, c.first, c.last)
      [] c.kind = "cash_sales" -> CashSales(c.year)
      [] c.kind = "counterparty" ->
           Spans("sales", p, "all", FALSE) \o Spans("purchases", p, "all", FALSE)
      [] OTHER ->
           Spans("sales", p, "all", FALSE) \o Spans("purchases", p, "all", FALSE)
             \o CardSales(c.year, QuarterOf(p[1]), QuarterOf(p[2])) \o CashSales(c.year)
             \o Spans("business_card", p, IF c.kind = "vat" THEN "deductible" ELSE "all", FALSE)
             \o CashMonths(p)

Work(c) == WorkOver(c, Period(c))

NoCommand == [kind |-> "none"]
NoReport == [none |-> 0]

TypeOK ==
    /\ ledger \in Ledgers
    /\ IsDay(today)
    /\ nights \in 0 .. MaxNights
    /\ command = NoCommand \/ command.of \in Commands
    /\ page \in 1 .. MaxPages
    /\ at \in {"idle", "fetch", "build", "rejected", "refused", "failed", "done"}
    /\ at = "fetch" => queue # <<>>
    /\ \A i \in DOMAIN got : got[i].source \in Columns \cup Breakdowns \cup {"registry"}
    /\ sums \in {"whole", "short"}

Init ==
    /\ ledger \in Ledgers
    /\ today \in Todays
    /\ nights = 0
    /\ command = NoCommand
    /\ queue = <<>> /\ page = 1 /\ got = <<>> /\ sums = "whole"
    /\ at = "idle"
    /\ report = NoReport

Begin(c) ==
    /\ at = "idle"
    /\ IF Acceptable(c)
       THEN /\ command' = [of |-> c, period |-> Period(c)]
            /\ queue' = Work(c)
            /\ at' = "fetch"
       ELSE at' = "rejected" /\ UNCHANGED <<command, queue>>
    /\ UNCHANGED <<ledger, today, nights, page, got, sums, report>>

-----------------------------------------------------------------------------
(***************************************************************************)
(* Reading                                                                 *)
(***************************************************************************)
Fail ==
    /\ at = "fetch"
    /\ at' = "failed"
    /\ UNCHANGED <<ledger, today, nights, command, queue, page, got, sums, report>>

\* What HomeTax may answer: the page, another one, or one from which a row is missing.
Reply(q, p, some) == [page |-> p, total |-> Len(Rows(q)), rows |-> some]

RightRows(q) == IF q.whole THEN Rows(q) ELSE PageOf(Rows(q), page)

Replies(q) ==
    LET right == RightRows(q)
    IN {Reply(q, page, right)} \cup
       (IF q.whole THEN {} ELSE {Reply(q, page + 1, PageOf(Rows(q), page + 1))}) \cup
       (IF right = <<>> THEN {} ELSE {Reply(q, page, Tail(right))})

\* The sums of a year have neither pages nor a count.
HasCount(q) == q.source # "cash_sales"

\* checked_page and checked_row_count; list and summary compare the same.
Checked(q, r) ==
    /\ r.page = page
    /\ HasCount(q) =>
          Len(r.rows) = IF q.whole THEN r.total
                        ELSE LET left == r.total - (page - 1) * PageSize
                             IN IF left < 0 THEN 0 ELSE Earliest(PageSize, left)

HasNext(q, r) == ~q.whole /\ page * PageSize < r.total

\* Mutated form: one query too many.
OnwardPastTheEnd ==
    /\ queue' = Tail(queue)
    /\ page' = 1
    /\ at' = IF queue = <<>> THEN "build" ELSE "fetch"

\* This query is done.
Onward ==
    /\ queue' = Tail(queue)
    /\ page' = 1
    /\ at' = IF Len(queue) = 1 THEN "build" ELSE "fetch"

\* Mutated form: the totals of the period are taken from every page.
TotalOnEachPage(q) == IF q.source = "cash_purchase" THEN BreakdownsOf(q) ELSE <<>>

\* The totals of the period are on every page, and are taken from the first.
TotalOnce(q) == IF q.source = "cash_purchase" /\ page = 1 THEN BreakdownsOf(q) ELSE <<>>

\* collect_pages and the loops like it.
FetchPage(q) ==
    /\ q.source # "card_sales"
    /\ \E r \in Replies(q) :
          IF ~Checked(q, r) THEN at' = "failed" /\ UNCHANGED <<queue, page, got, sums>>
          ELSE /\ got' = got \o r.rows \o TotalOnce(q)
               /\ sums' = IF HasCount(q) \/ r.rows = RightRows(q) THEN sums ELSE "short"
               /\ IF ~HasNext(q, r) THEN Onward
                  ELSE IF page = MaxPages THEN at' = "failed" /\ UNCHANGED <<queue, page>>
                  ELSE page' = page + 1 /\ UNCHANGED <<at, queue>>
    /\ UNCHANGED <<ledger, today, nights, command, report>>

\* The quarters' summary repeats the agency's sales; where it says something, the
\* agency's list has to say the same.
Agrees(summary, agency) == summary \in {<<0, 0>>, agency}

\* What a summary says of a list.
Figures(list) == <<SumFunction([i \in DOMAIN list |-> list[i].count]),
                   SumFunction([i \in DOMAIN list |-> list[i].total])>>

OfLine(q, line) == RowsAbout(q, {e \in Matching(q) : e.line = line})

Short(list) == IF list = <<>> THEN <<>> ELSE Tail(list)

\* HomeTax may leave out a sum of a list, the agency's list, or what the summary says of
\* it, all or in part.
CardReplies(card, agency) ==
    [card : {card, Short(card)}, agency : {agency, Short(agency), <<>>},
     summary : {<<0, 0>>, Figures(agency), Figures(Short(agency))}]

\* Only a summary that is complete belies an agency's list that is not.
CardSums(reply, card, agency) ==
    IF reply.card = card /\ (reply.agency = agency \/ reply.summary = Figures(agency))
    THEN sums ELSE "short"

\* card_sales: three lists with schemas of their own.
FetchCardSales(q) ==
    LET card == OfLine(q, "card")
        agency == OfLine(q, "agency")
    IN /\ q.source = "card_sales"
       /\ \E reply \in CardReplies(card, agency) :
             IF Agrees(reply.summary, Figures(reply.agency))
             THEN /\ got' = got \o reply.card \o reply.agency
                  /\ sums' = CardSums(reply, card, agency)
                  /\ Onward
             ELSE at' = "failed" /\ UNCHANGED <<queue, page, got, sums>>
       /\ UNCHANGED <<ledger, today, nights, command, report>>

\* The query is checked again when it is made, against the day it is by then.
Fetch ==
    /\ at = "fetch"
    /\ IF ValidQuery(Head(queue)) THEN FetchPage(Head(queue)) \/ FetchCardSales(Head(queue))
       ELSE /\ at' = "refused"
            /\ UNCHANGED <<ledger, today, nights, command, queue, page, got, sums, report>>

Midnight ==
    /\ nights < MaxNights
    /\ nights' = nights + 1
    /\ today' = NextDay(today)
    /\ UNCHANGED <<ledger, command, queue, page, got, sums, at, report>>

-----------------------------------------------------------------------------
(***************************************************************************)
(* Adding up (revenue.py)                                                  *)
(***************************************************************************)
\* Nothing is rounded up but the tax: the supply amount loses its fraction.
IncludedTax(amount) == amount - (amount * 10) \div 11

Collected(source) == {i \in DOMAIN got : got[i].source = source}
SumGot(I, field) == SumFunction([i \in I |-> got[i][field]])

\* monthly_totals, and what cmd_revenue and cmd_vat take of a row: the total, or the
\* tax. Card sales have no tax: it comes out of the sum of a month. The VAT of cash
\* purchases is the deductible total of the month.
MonthlyTotal(kind, source, k) ==
    LET of == IF kind = "vat" /\ source = "cash_purchase" THEN "deductible_total" ELSE source
        rows == {i \in Collected(of) : got[i].month = k}
    IN CASE kind # "vat" -> SumGot(rows, "total")
         [] kind = "vat" /\ source = "card_sales" -> IncludedTax(SumGot(rows, "total"))
         [] OTHER -> SumGot(rows, "tax")

\* _side, for the two sides and the difference. Other months than these are dropped:
\* the sums of a year may bring some.
Sides(kind, months) ==
    LET cell == [s \in Columns |-> SumFunction([k \in months |-> MonthlyTotal(kind, s, k)])]
        total(side) == SumFunction([s \in side |-> cell[s]])
    IN [cell |-> cell, sales |-> total(SaleColumns), purchases |-> total(Columns \ SaleColumns),
        net |-> total(SaleColumns) - total(Columns \ SaleColumns)]

\* The columns of a table, each a set of months: the months and the year; the quarters
\* of which a month has begun and the half-year.
TableOf(kind, months) ==
    {months} \cup (IF kind = "vat" THEN {{k \in months : QuarterOf(100 * k) = n} : n \in 1 .. 4} \ {{}}
                   ELSE {{k} : k \in months})

\* build_counterparty_report, for one direction.
Counterparties(direction, months) ==
    LET rows == {i \in Collected(direction) : got[i].month \in months}
        of(p) == {i \in rows : got[i].party = p}
        active(p) == {got[i].month : i \in of(p)}
    IN [p \in {got[i].party : i \in rows} |->
           [count |-> Cardinality(of(p)), total |-> SumGot(of(p), "total"),
            active |-> Cardinality(active(p)), recurring |-> Cardinality(active(p)) >= 3]]

\* The command prints its report; of cash purchases, the total of the eligible ones.
Build ==
    LET c == command.of
        months == MonthKeys(command.period[1], command.period[2])
        eligible == Collected("eligible_total")
        figures == IF eligible # {} THEN eligible ELSE DOMAIN got
    IN /\ at = "build"
       /\ at' = "done"
       /\ report' =
            CASE c.kind \in {"revenue", "vat"} -> [M \in TableOf(c.kind, months) |-> Sides(c.kind, M)]
              [] c.kind = "counterparty" ->
                   [d \in {"sales", "purchases"} |-> Counterparties(d, months)]
              [] OTHER -> [total |-> SumGot(figures, "total"), tax |-> SumGot(figures, "tax"),
                           count |-> SumGot(figures, "count")]
       /\ got' = <<>>
       /\ UNCHANGED <<ledger, today, nights, command, queue, page, sums>>

Next ==
    \/ \E c \in Commands : Begin(c)
    \/ Fetch \/ Fail \/ Build \/ Midnight

Spec == Init /\ [][Next]_vars

-----------------------------------------------------------------------------
\* cli.py:316-380, 889-917: no query that a command makes is refused as invalid:
\* whatever day a span begins on, at the end of February, of a year or of the period,
\* and if midnight passes between the command line's check and the client's.
EveryQueryAccepted == at # "refused"

\* What a table should say of a source in a month, by the ledger up to day t.
InLedger(lines, from, to, deduction) ==
    {e \in ledger : e.line \in lines /\ from <= e.day /\ e.day <= to /\ Kept(e, deduction)}

ShouldBe(kind, source, k, t) ==
    LET deduction == IF kind = "vat" /\ source \in {"business_card", "cash_purchase"}
                     THEN "deductible" ELSE "all"
        E == {e \in InLedger(LinesOf(source), command.period[1], t, deduction) : MonthKey(e.day) = k}
    IN CASE kind # "vat" -> Sum(E, "total")
         [] kind = "vat" /\ source = "card_sales" -> (Sum(E, "total") + 10) \div 11
         [] OTHER -> Sum(E, "tax")

\* The days on which a command may have read.
Days == {d \in {100 * k + n : k \in MonthKeys(command.period[2], today), n \in 1 .. 31} :
            IsDay(d) /\ command.period[2] <= d /\ d <= today}

\* The sums of a year may include days after the end of the period.
DaysUntil(t, u) ==
    [s \in Columns |-> CASE s = "card_sales" -> t [] s = "cash_sales" -> u
                         [] OTHER -> command.period[2]]

Cell(c, M, s, day) == SumFunction([k \in M |-> ShouldBe(c.kind, s, k, day[s])])
Side(c, M, S, day) == SumFunction([s \in S |-> Cell(c, M, s, day)])

TableIsRight(c) ==
    \E t, u \in Days : \A M \in DOMAIN report :
        LET day == DaysUntil(t, u)
        IN /\ \A s \in Columns : report[M].cell[s] = Cell(c, M, s, day)
           /\ report[M].net = Side(c, M, SaleColumns, day) - Side(c, M, Columns \ SaleColumns, day)

Invoices(direction) ==
    InLedger(LinesOf(direction), command.period[1], command.period[2], "all")

CounterpartiesSay(direction, list) ==
    LET E == Invoices(direction)
        of(p) == {e \in E : e.party = p}
        months(p) == {MonthKey(e.day) : e \in of(p)}
    IN /\ DOMAIN list = {e.party : e \in E}
       /\ \A p \in DOMAIN list :
            /\ list[p].count = Cardinality(of(p))
            /\ list[p].total = Sum(of(p), "total")
            /\ list[p].recurring <=> \E j, k, l \in months(p) : j < k /\ k < l

CounterpartiesAreRight ==
    \A d \in {"sales", "purchases"} : CounterpartiesSay(d, report[d])

\* What a list or a summary is of, from when to when. Cash purchases: whatever the filter
\* of the rows, the total is that of the eligible.
IsDaily(c) == c.kind \in {"list", "summary"}
SourceOf(c) == IF IsDaily(c) THEN c.source ELSE c.kind
DeductionOf(c) ==
    IF SourceOf(c) = "cash_purchase" THEN "eligible"
    ELSE IF c.kind = "list" THEN c.deduction ELSE "all"
SpanOf(c) ==
    LET q == WorkOver(c, command.period)[1]
    IN IF IsDaily(c) THEN command.period ELSE <<q.from, q.to>>

\* The entries until day t.
ListedUntil(c, t) ==
    InLedger(LinesOf(SourceOf(c)), SpanOf(c)[1], Earliest(t, SpanOf(c)[2]), DeductionOf(c))

TotalsAreRight(c) ==
    \E t \in IF IsDaily(c) THEN {command.period[2]} ELSE Days :
        LET E == ListedUntil(c, t)
        IN report = [total |-> Sum(E, "total"), tax |-> Sum(E, "tax"), count |-> Cardinality(E)]

\* cli.py:565-1108: a report that is printed says what the ledger says: each entry of
\* the period is in it once, in its month, and each total counts the entries that it
\* names, however the period is cut into queries and pages and whatever the ledger has
\* beyond it; a page or a summary that lacks a row leads to no report. Nothing can be
\* said of a report once HomeTax has left out a sum of a year, since cash sales and the
\* card companies' sales come without a count.
ReportIsRight ==
    at = "done" /\ sums = "whole" =>
        CASE command.of.kind \in {"revenue", "vat"} -> TableIsRight(command.of)
          [] command.of.kind = "counterparty" -> CounterpartiesAreRight
          [] OTHER -> TotalsAreRight(command.of)
=============================================================================
