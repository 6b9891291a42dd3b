------------------------------ MODULE MCCommands ------------------------------
(* Reports: books over a leap day, the ends of months and a year, with refunds,  *)
(* sums below ten won and more rows than MaxPages allows; days on which midnight *)
(* ends a month, a year, or neither. Documents: an original of each sort.        *)
EXTENDS Commands, TLC

CONSTANTS o1, f1, f2

\* Of a cost the tax may be deducted, or may be and is.
Cost(line, day, total, tax, party_, eligible, deductible) ==
    [line |-> line, day |-> day, total |-> total, tax |-> tax, party |-> party_,
     eligible |-> eligible, deductible |-> deductible]
Entry(line, day, total, tax, party_) == Cost(line, day, total, tax, party_, FALSE, FALSE)

Invoices ==
    {Entry("sales", 20231130, 110, 10, "a"), Entry("sales", 20240131, 220, 20, "a"),
     Entry("sales", 20240201, 330, 30, "b"), Entry("sales", 20240215, 11, 1, "b"),
     Entry("sales", 20240229, 44, 4, "a"), Entry("sales", 20240229, -44, -4, "b"),
     Entry("sales", 20240301, 55, 5, "a"), Entry("sales", 20241231, 66, 6, "a"),
     Entry("purchases", 20240229, 22, 2, "c")}
Crowd == {Entry("sales", 20240315, 1, 0, "d")}
MonthlySums ==
    {Entry("card", 20240131, 100, 0, ""), Entry("agency", 20240131, 7, 0, ""),
     Entry("agency", 20240301, 36, 0, ""), Entry("card", 20240229, -5, 0, ""),
     Entry("card", 20250101, 17, 0, ""), Entry("cash_sales", 20240229, 11, 1, ""),
     Entry("cash_sales", 20240301, 22, 2, "")}
Costs ==
    {Cost("business_card", 20240101, 33, 3, "c", TRUE, TRUE),
     Cost("business_card", 20240229, 12, 1, "c", FALSE, FALSE),
     Cost("cash_purchase", 20240131, 77, 7, "c", TRUE, TRUE),
     Cost("cash_purchase", 20240131, 88, 8, "d", TRUE, TRUE),
     Cost("cash_purchase", 20240131, 9, 1, "e", TRUE, FALSE),
     Cost("cash_purchase", 20240215, 5, 1, "d", FALSE, FALSE),
     Cost("cash_purchase", 20240301, 99, 9, "d", TRUE, TRUE),
     Entry("registry", 0, 1, 0, "r"), Entry("registry", 0, 1, 0, "s")}

MCLedgers ==
    {{}, Invoices, Invoices \cup Crowd, Invoices \cup MonthlySums \cup Costs, MonthlySums \cup Costs}

Turns == {20230831, 20230901, 20231129, 20231130, 20231201, 20231231, 20240101, 20240130, 20240131,
          20240201, 20240228, 20240229, 20240301, 20240331, 20240531, 20241231, 20250101}

MCReading ==
    {[kind |-> "list", source |-> "sales", from |-> f, to |-> t, deduction |-> "all"] :
        f \in Turns, t \in Turns}
    \cup {[kind |-> "list", source |-> s, from |-> 20240101, to |-> 20240229, deduction |-> o] :
             s \in {"business_card", "cash_purchase"}, o \in {"all", "deductible", "non_deductible"}}
    \cup {[kind |-> "list", source |-> "purchases", from |-> 0, to |-> 0, deduction |-> "all"]}
    \cup {[kind |-> "summary", source |-> "sales", from |-> f, to |-> 20240229] :
             f \in {20231130, 20231201}}
    \cup {[kind |-> k, year |-> y] :
             k \in {"revenue", "counterparty", "cash_sales"}, y \in {1999, 2023, 2024, 2025}}
    \cup {[kind |-> "vat", year |-> y, half |-> h] : y \in {2023, 2024}, h \in {1, 2}}
    \cup {[kind |-> "card_sales", year |-> 2024, first |-> q, last |-> r] :
             q \in {1, 2}, r \in {1, 4}}
    \cup {[kind |-> "registry"]}

Sort(supplier, lines, sum, reason) ==
    (o1 :> Document(supplier, "old", 5, lines, sum, reason, NoNumber))
        @@ (f1 :> NoDocument) @@ (f2 :> NoDocument)
MCRegisters ==
    {Sort("self", <<100>>, 100, "none"), Sort("self", <<100, -20>>, 80, "none"),
     Sort("self", <<100>>, 90, "none"), Sort("self", <<-100>>, -100, "04"),
     Sort("self", <<70>>, 70, "01"), Sort("other", <<100>>, 100, "none")}

MCRequests ==
    {[operation |-> "issue", written |-> 5, lines |-> <<70, 0>>, reason |-> "none",
      original |-> NoNumber]}
    \cup {[operation |-> "correct", written |-> d, lines |-> <<90>>, reason |-> "01",
           original |-> o1] : d \in {5, 6}}
    \cup {[operation |-> "cancel", written |-> d, lines |-> <<>>, reason |-> c,
           original |-> o1] : d \in {4, 5, 6}, c \in {"04", "06"}}
=============================================================================
