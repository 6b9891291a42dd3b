# HomeTax client: TLA+ specifications

The repository logs in to the Korean HomeTax portal, reads tax data, and -
this is the delicate part - issues, corrects and cancels electronic tax
invoices and edits the counterparty book, over an API that offers no
idempotency keys, no versions and no transactions. This directory models what
keeps those writes from happening twice, being misreported, or hitting a record
the user did not confirm; the sessions they run in, on the server and on the
command line; and the reports that add up what HomeTax says page by page.

## Inventory

| component (under `src/src/hometax_login`) | state it keeps | operations | hard behaviour |
|---|---|---|---|
| write journal, `write_journal.py` | SQLite tables `write_attempts`, `write_guards` | open / create / migrate, `begin`, `finish` | several processes, crashes between the transactions, old files |
| invoice operations, `invoice_operations.py` | previews (`plans`), journal rows | three previews, `submit` | four awaits, cancellation at each, late or half-executed requests |
| issuance backend, `issuance_backend.py` | none of its own; reads `references` | which original may be changed, the documents of a preview, the comparisons of `issue` | HomeTax makes, registers or shows something else than it was asked for |
| counterparty changes, `counterparty_changes.py`, `counterparty_backend.py` | previews (`plans`), journal rows, `last_scope` | three previews, `apply` | six awaits, each answer stale when the next request is sent; lost and late writes |
| session store, `sessions.py`, and its use in `api.py` | `items`, a lock per session | `add`, `lease`, `remove`, `prune`, `close`; reaper, time limits, shutdown | everything interleaves at awaits; cancellation |
| invoice queries, `invoices.py` | business scope, 500 detail references | `list`, `summary`, `detail`, `counterparties` | pages of a list that changes; scope switches |
| sessions and choice of a certificate, `local_session.py`, `cert_discovery.py`, `cli.py` | a session file per certificate and `config.toml` under `~/.hometax` | login, reuse, expiry, logout, `use`, `alias` | several processes on the same files, files written in place, renewed certificates |
| reports, `cli.py`, `revenue.py`, `financials.py` | none | splitting of periods, page loops, sums by month, side and counterparty, the VAT table | ends of months and years, leap days, midnight, refunds, page limits |
| protocol, `protocol.py` | cookies | `login`, `verify`, `_request`, `close` | time-outs |
| certificates and signing, `certificates.py`, `invoice_signing.py` | none | parse, decrypt, sign | none: pure functions |

They interact as follows. A request of the API leases a session from the store,
a command of the command line logs in or takes up a session file; either way it
owns a client. The client's invoice operations and counterparty changes hold
previews in memory, which die with the client; both claim the right to write
from the journal, which outlives everything, and talk to HomeTax, which nobody
controls. The reading commands use the same client. What each must guarantee is
in the section on properties.

## Modules

| module | models | state and actions |
|---|---|---|
| `WriteJournal` | `begin` and `finish` as atomic transactions | `status`, `target`, `payload`, `guards` are the columns; `BeginReply` and `FinishReply` follow the order of the checks and name every error code; `Begin` and `Finish` are the two steps that change a table |
| `JournalFile` | the rest of `write_journal.py`: the path checks, creation, migration and the transactions under `begin` and `finish`, by several callers | the four row variables, then `file` (the schema the path holds), `dirty` and `lock` (the commit under way), `at`, `created`, `call`, `error` of each caller; `started` is a history variable. SQLite is external |
| `OneShotWrites` | what the journal and the submit owe the user: each target is claimed, reached and settled at most once | abstract |
| `InvoiceOperations` | `submit` over the steps of `InvoiceBackend.issue`, with sessions, previews, journal and HomeTax | `plan` is `InvoiceOperations.plans`, `calls` the await each session's submit is at; `world` stands for the profile, counterparty and original at HomeTax; `wire`, `applied`, `staged` for the requests it received |
| `InvoiceDocuments` | the same steps for one write, with the documents instead of a version: `_original_document`, the previews' documents, `_verify_xml`, the digest checks, the readback | `register` is HomeTax's, `references` the client's; `prepared`, `made`, `signed`, `checked` the documents previewed, made, signed and read back; `wire` and `trust` the two settings |
| `CounterpartyChanges` | the previews and `apply` over `counterparty_backend.py`, with the books of several owners and logins that may switch | `plan`, `calls`, `wire` as before, a call at each of its awaits: the scope, the row (R06), the contacts (R07), and for a new number the scope again and the count (R04); `registry` the record in each owner's book, `scope` whom each login acts for; `disturbed` (edits by others) and `struck` (deletes of the program that went astray) are history variables |
| `SessionStore` | `sessions.py` and the tasks of `api.py` | `items`, `expired`, `client`, `lock` (an `asyncio.Lock` with its line of waiters), `task` (what each task does) |
| `InvoiceQueries` | `list`, `summary` and `detail` of `invoices.py`, and `collect_pages` of `cli.py`, over lists that change and logins that switch | `business` and `references` are the fields of the client, `call` the request it waits for, `answer` what the last call gave out; `book` and `scope` are HomeTax; `listed` and `shrunk` are history variables |
| `CliSessions` | the processes of the `hometax` command on one home directory | `disk` (the certificates), `config` and `file` are what is on disk, `lines` the lines with a fingerprint in the text of `config.toml`, also such as are not read, `proc` where each process is; `chosen` and `given` record what a user agreed to, `over` that a text was written over another |
| `Reports` | the reading commands: `split_periods`, the page loops, the checks of pages and totals, and what `revenue.py` makes of the rows | `ledger` and `today` are the world; `command`, `queue`, `page`, `got` the command under way, `sums` whether HomeTax has left out a sum of a year; `report` what it prints. A page of cash purchases brings two totals: of what is eligible for deduction, which the list prints, and of what is deductible, which the VAT takes. The expected report is defined from the ledger by quantification over it, not by the steps |
| `Commands` | one client: a reading command, a writing command, or a session of the API that may list before it writes | composes `Reports` and `InvoiceDocuments` |
| `*Proofs` | theorems, see below | |
| `MC*` | instances for TLC | |

`InvoiceOperations` and `CounterpartyChanges` contain `WriteJournal` by
`INSTANCE`: they use its operators for the journal's part of each step, and
their proof modules show that this part is a behaviour of `WriteJournal`
(`UsesTheJournal`). `JournalFile` implements `WriteJournal` (property
`Journal`): what its connections, migrations and crashes do to the committed
rows are steps of `begin` and `finish`. So the atomic journal the other modules
use is what the file provides. `InvoiceOperations` and `InvoiceDocuments` have
the same awaits: the first with the journal, other sessions and crashes around
them and a version in place of the documents, the second the other way round.

Operators commented as a mutated form are not part of the model: each is a
plausible mistake in one definition, listed in `PROJECT.json`, and the property
named there fails with it.

### Granularity

The code between two awaits is one step: it runs on one asyncio event loop, and
SQLite calls are synchronous. In `SessionStore` the lock of the store is never
held across an await, so it needs no state of its own. A crash is
`LoseSession`, possible at every step, also with a request on its way. In
`CliSessions` `Path.write_text` is two steps, as other processes may read the
file between truncation and text, and write it: a shorter text over a longer one
leaves the end of the longer one behind it. A process that dies is one that takes no
further step. In `CounterpartyChanges` a record is never read at once: each request
of a snapshot is a step, so the row and the contacts may be of different times.

### What is abstracted

* A preview's content is the request plus a version of the data at HomeTax
  (`InvoiceOperations`), or the record before and after (`CounterpartyChanges`);
  fingerprints are the values they are computed from (no collisions). In
  `InvoiceDocuments` it is the document, with supply amounts and dates, without
  the fields whose difference only makes a comparison fail.
* The checks of `submit` before the journal (certificate, wire encoding, digest
  given by the user) only refuse the call and change nothing; they are the
  user's not calling.
* The recipient's identifier of a business number does not change.
* In `SessionStore` a request with another owner's key behaves as one for an
  unknown session; the order in which sessions expire is free.
* In `CliSessions` what a command reads to choose its certificate it reads at one
  time; the menu and the search of directories are a choice among what is there. A
  text of `config.toml` is its lines, and a line that is cut is known by the end of its
  name that is left (`Ends`); cut within its value it is no TOML, and nothing that
  looks like TOML is assumed inside the paths and names of certificates.
* In `Reports` the books of a day are complete when it begins: lists that change
  between two pages are the subject of `InvoiceQueries`. HomeTax may answer with
  another page or leave out the first row of a list.
* In `InvoiceDocuments` a preview may be refused for any reason besides the original:
  a branch, an unregistered recipient, a business that may not issue.

## Runs

| run | question | bounds |
|---|---|---|
| `journal` | which attempts may be in the works beside each other, over an empty or migrated journal | three plans (the properties relate two, the third disturbs), every target and content they could share |
| `journal_file` | does the file implement the journal, is an attempt started once, does every call return | two callers, two plans for one new invoice; no file, a version 1 file with any rows, or a current one; no symmetry as liveness is checked |
| `invoice_submit` | is what is sent, recorded and told consistent, and does `submit` implement `OneShotWrites` | three plans, two sessions; two references with one content and a correction; one edit by others |
| `counterparty_apply` | is what is sent, recorded and told about a book consistent | two plans, sessions and owners; records that differ in their contacts, which are read after the row; two interferences at any await, so that a login can switch and switch back, or an edit come between row and contacts (2.5 million states) |
| `invoice_queries` | is a summary that of one list, and is a detail asked for with the right business | a business with four invoices and one with a single one, one row a page, at most three rows in a summary, two references; four changes by others |
| `revenue_pages` | does the page loop of the command line count each invoice once: a violation, see below | one change |
| `sessions` | who may use and who must close a client | four sessions, two places, three requests (a user, a waiter and a pruner) |
| `sessions_calm` | does everything end and get closed if nothing is cancelled | three sessions, two requests |
| `sessions_cancelled` | the same with the time limits: a violation, see below | three sessions, three requests |
| `cli_sessions` | whose cookies does a command work with, and what may the configuration say | two processes; a certificate, its renewal in the same directory, and one of another business that shares a session file with the first; the name `fingerprint` of the line in `[certificate]` and the end of it, both also usable for aliases (2,307,874 states) |
| `commands` | is a report the sum of the books, is every query one HomeTax takes, is what is signed and completed what was previewed | books around the ends of months, a leap day and a year, with refunds, purchases that are eligible but not deductible, and more rows than pages; periods between 17 turning days; an original of each sort |
| `cli_correct` | can the command line correct an invoice: a violation, see below | as above, one day |

Deadlock is not checked: plans, sessions and commands are used up, after which
the modelled system rests.

Bounds that are not in the code: `MaxEdits`, `MaxOutside` and `MaxChanges` bound
what others do at HomeTax, `MaxNights` how often midnight passes; the numbers of
plans, sessions, requests and processes bound the length of a history;
`Ledgers`, `Todays`, `Reading`, `Registers` and `Earlier` pick the books, days,
commands and files to start with. `MaxPreviews`, `Capacity`, `MaxLogins`,
`PageSize`, `MaxSummary`, `MaxPages` and `MaxReferences` are in the code and are
made small enough to be reached.

These are enough for what is asked: each exclusion relates two attempts, and a
third disturbs them; two sessions are needed for a race and a third would only
repeat one of them; one edit makes a preview stale before, between or after the
two refreshes; two switches return a login to where it was, and one edit between two
requests makes a snapshot of different times; four changes let a
row arrive, another leave and the login switch and switch back during one read;
two processes and a renewal let a file change under a reader. What holds for
larger instances is proved where a theorem says so.

### Fairness

Only `JournalFile` and `SessionStore` need it. `FairSpec` of `JournalFile` gives
weak fairness to the steps of each caller, for SQLite gives up the wait for a
lock after five seconds (`timeout=5`). In `SessionStore` the event loop runs
every task that can run, HomeTax answers or httpx gives up, and the reaper wakes
every 30 seconds; no task is ever forced to be cancelled, and nobody is forced
to send a request. The write operations are bounded by the 60 seconds of
`asyncio.timeout`; a liveness property of them would say no more than that.

### Disagreements found

`revenue_pages`: `collect_pages` and the loop of `cmd_invoices` in `cli.py` append
page after page and compare neither the total count nor the approval numbers
between pages, as `summary` does. An invoice that arrives while they read moves
the last row of a page to the next, where it is counted again. `docs/FINANCIALS.md:111`
equates the yearly total of `revenue` with that of `summary`, and
`docs/INVOICES.md:64` says such totals are refused. A change that leaves the count
alone is disclaimed in `docs/INVOICES.md:65`, so `SummaryIsRight` says nothing
about lists from which a row has gone.

`sessions_cancelled`: `prune` takes the expired sessions out of `items` and only
then waits for their locks and closes their clients. A task that is cancelled at
one of these awaits leaves the remaining clients open and unreachable. It happens
to a login whose 60 seconds run out while it prunes (after a slow
`client.login`, behind a request that still uses an expired session), and to the
reaper at shutdown. `tests/test_sessions.py:30` expects an expired session to be
closed. Without cancellation it is (`sessions_calm`, and proved).

`cli_correct`: a writing command logs in with a client of its own and never lists
anything, but only an original that the same client has listed can be corrected or
cancelled. `correct` and `cancel` of the command line always end with
`INVOICE_NOT_LISTED`, while `README.md:177` shows them as usable.

Seen while modelling and not the subject of a run:

* `_negative_document` makes every line of an original negative, so one with lines
  of both signs gets a document that does not add up. The readback refuses it, and
  the outcome stays unknown; `CompleteIsSettled` holds because of that refusal.
* With the setting `signedinfo` and two documents, `issue` raises after the request
  was marked as dispatched (`issuance_backend.py:254`): the outcome is recorded as
  unknown although nothing was sent.
* Two commands that rewrite `config.toml` at once can leave an alias that nobody gave:
  from aliases `a` and `bbb`, one removes `a`, the other adds `cccc`, both have opened
  the file, and behind the short text the long one leaves `b = "..."`, which
  `load_aliases` takes (`cert_discovery.py:191-206`).
* A delete whose login is switched between the last look at the scope and HomeTax's
  act deletes the number from another owner's book (`counterparty_backend.py:345`).
* Reports combine replies without checking that all are about one business
  (`financials.py:334` returns what the login acts for at that moment).
* Sums of card and cash sales are by month; if midnight passes into a new month
  while a command reads, they may include days after its period.

## Properties that matter

* One unresolved attempt per target, one live attempt per invoice, one
  unresolved invoice per content, none beside a legacy row: `OneOpenPerTarget`,
  `OneLivePerInvoice`, `OneOpenPerContent`, `LegacyBarsIssue`; and rows are final
  (`RowsAreFinal`).
* Of all callers that begin a plan one is told "started", with its row on disk;
  an object ready for use has a complete schema under it, whoever died while
  creating it: `StartedOnce`, `OpenedRight`, `Journal`.
* At most one dispatch per target through any history, and the same content only
  after the earlier one is settled: `OneDispatchPerTarget`,
  `SameContentSettledFirst`, `ImplementsOneShot`.
* Rejected means never sent; what is submitted is what was confirmed, and complete
  stands for all documents: `RejectedNeverSent`, `IssuedAsConfirmed`.
* What is signed is what the preview showed, unless the user trusts the digest of
  the web page; a completed correction or cancellation takes back the whole
  original: `SignedIsPreviewed`, `CompleteIsSettled`.
* A change of a counterparty lands on the record that was confirmed, in the book
  that was confirmed: `NoLostUpdate`, `CompleteIsOurs`. Two things are excluded, and
  each is a variable of the model. Races with edits on HomeTax screens
  (`disturbed`), which the documentation disclaims; they count from the row (R06)
  of the re-read on, as the contacts (R07) are read later. And a delete of the program
  itself that went astray into the book (`struck`): a delete names no owner, so if the
  login was switched after the last look at the scope, it takes the record of another
  book. `StrayOnlyAfterSwitch` says that nothing else makes a write go astray.
* The user is never told more than is known: `RepliesAreHonest`, of both writers.
* A client in use is open, a deleted session is not entered, one task closes
  each client, none is leaked unless a task is cancelled: `UsedIsOpen`,
  `NoLateUse`, `OneKeeper`, `CapacityRespected`, `ExpiredIsClosed`.
* A command works with cookies of the business of its certificate, whatever
  renews, expires, collides or is half written: `NoMixing`. The default certificate
  is one a user agreed to remember, and an alias stands for what a user gave it, as
  long as no text was written over another; then the end of a line may pass for an
  alias that nobody gave, but of a certificate that some user gave or chose:
  `ConfigWasWritten`.
* A summary is that of the list as it was, and a detail is asked for with the
  business that was shown it: `SummaryIsRight`, `DetailIsOfTheLister`.
* A report is the sum of the books over its period, or an error, as long as HomeTax
  leaves out no sum of a year, and each query it makes is one that HomeTax takes:
  `ReportIsRight`, `EveryQueryAccepted`. Pages come with a count, and a page that
  lacks a row is refused; cash sales and the card companies' sales of a year come
  without one, and a row that is missing there is missing in the report
  (`sums = "short"`, of which nothing is claimed).
* Every task and every journal call ends, and what expires is closed without a
  request: `EveryTaskEnds`, `EveryCallReturns`, `ExpiredGetsClosed`.

## What is proved

Every safety property of a passing run is a theorem, of
the form `Spec => []Property` (or an action property or a refinement), for every
value of the constants that meets the named assumptions.
The assumptions say that kinds of keys do not overlap (`KeysAssumption`,
`InvoiceKeysAssumption`, `OwnerKeysAssumption`, since the keys hash values of
different shape), what a request or a command names (`RequestsAssumption`,
`ReadingAssumption`: the arguments that the parser and the query models take, so no
year after 2100), that bounds and sizes are natural numbers (`BoundsAssumption`,
`LimitsAssumption`, `SizesAssumption`), what may be at HomeTax or on disk at the
start (`RegistersAssumption`, `BooksAssumption`: finite books of whole amounts on days of
the calendar, the registry without days, `EarlierAssumption`, `DomainAssumption`), that a renewed certificate is of
the same business and an invoice is in the list of one (`RenewalAssumption`,
`RowsAssumption`), and that the values that stand for nothing are no others
(`RecordsAssumption`, `TasksAssumption`, `CallersAssumption`). TLC evaluates each.

`WriteJournalProofs` proves `TypeOK` and every property of the `journal` run. Each theorem has
the shape Init, step, PTL; `OneLivePerInvoice` and `OneOpenPerTarget` are inductive
together with the typing of recorded targets, and `RowsAreFinal` follows from the
guard of `FinishReply`. Migrated journals are covered: `Init` is any table that
version 1 could have left.

`JournalFileProofs` proves the refinement `Journal`, `StartedOnce`, `OpenedRight` and
`TypeOK`. Only the holder of the write lock is between BEGIN IMMEDIATE and
its commit, so what `begin` or `finish` found is still so when it is stored
(`Locked`), and each commit is a step of `WriteJournal`. `ToldOnce` adds the
callers that have committed and are yet to learn of it. `Opened` follows the
file: of all callers one made it; a file without tables is either still in the
hands of its maker, or nobody will ever give it tables (`Bare`).

`InvoiceOperationsProofs` proves, in its first part, `RejectedNeverSent`,
`OneDispatchPerTarget` and `UsesTheJournal`. Neither of the first two is inductive: that a rejected attempt
was not sent depends on who may still send it. `IInv` adds what the code relies on:

* `RowsAreKnown`: a row of the journal has the target of its preview, also when
  the preview has expired or its session is lost;
* `CallsAreSound`: a running call has its attempt in flight, no other call works
  on it, and nothing was sent for it before the call reached `Stage`. So `Outcome`
  may say rejected before, and a lost session leaves the row in flight;
* `SentIsLive`: what was sent is in flight, unknown or complete;
* `OneLivePerTarget`: there is one such row per target, which is what `begin`
  checks with `unique_target`. With `SentIsLive` this is `OneDispatchPerTarget`.

There is one lemma per action; the actions of a running call are instances of two
lemmas, for a call that goes on (`CallGoesOn`) and one that ends (`CallEnds`), the
others of `PreviewsChange`.

Its second part proves `IssuedAsConfirmed`, `RepliesAreHonest`,
`SameContentSettledFirst`, the refinement of `OneShotWrites` and `TypeOK`. `OInv`, over
`IInv`, says what a call holds after its first refresh (`CallsAreFresh`), that
every request at HomeTax carries the confirmed documents (`RequestsAreSound`),
that complete stands for all of them (`CompleteIsSound`), that whoever was told
"not sent" can never be begun again (`TellsAreSound`), and that the guards of open
rows differ (`GuardsAreSound`). For the refinement a target's claim is its live
row (`ClaimsAreLive`).

`CounterpartyChangesProofs` proves `NoLostUpdate`, `CompleteIsOurs`,
`RepliesAreHonest`, `StrayOnlyAfterSwitch`, `UsesTheJournal` and `TypeOK`. The heart is
`Untouched`: from the end of the re-read to the moment the write lands, the record in
the confirmed book is what the preview showed, unless others changed it or a stray
delete took it. While the re-read is between row and contacts, `RowSeen` says that the
row it holds is still that of the book under the same exceptions, so the two requests
make one snapshot or the plan is among the disturbed. Both rest on the journal (one
open attempt for a counterparty), which in turn relies on a sent request never being
called rejected (`RowsAreSound`). `StrayOnlyAfterSwitch` needs `SentAtHome`: a login
acts for the confirmed owner from the sending on, until it is switched.

`InvoiceQueriesProofs` proves `SummaryIsRight`, `DetailIsOfTheLister` and `TypeOK`
for any lists, page sizes and changes. A summary compares no list, only counts: what
it has read is the beginning of the list it started with as long as no row of that
list has gone, a list that is still as long is then the same one, and a longer one
is refused (`SummaryIsOfOneList`, `SummarySoFar`). A detail is asked for with the
business of its lister because the references are dropped with the business
(`ReferencesAreOwn`). What a page does to the references is a loop over its rows;
facts about it are shown by taking the first row that breaks them, since every set
of numbers has a least element (`Least`, from the well-founded order of finite
sets). So these two need no induction theorem.

`CommandsProofs` treats a client as the composition it is. `ClientWrites` and
`ClientReports` show that a client, whatever else it is for, writes as
`InvoiceDocuments` and reads as `Reports` allows; what is proved of either alone then
holds in every client.

* Writes: `SignedIsPreviewed` and `CompleteIsSettled` (`ClientSettles`), for any
  register, requests and answers of HomeTax. The invariant follows the plan: its
  original is there and stays, since HomeTax acts on numbers that were not in use,
  and the register stands still once the client reads it back.
* Reading: `EveryQueryAccepted`. Lemmas about the calendar come first, over every
  month and leap year: months are ordered as their place on a line of months
  (`Index`, `MonthOrder`), the day after a day is a later day (`NextDayIsLater`), and
  a span that `split_periods` cuts is within three months of its first day
  (`ThreeMonths`, `SpansFit`). So each query of a command is one that HomeTax takes
  when it begins (`WorkTaken`); it is still one later, since days only pass
  (`StillTaken`), which is why midnight between two pages is harmless. Year and
  half-year commands need that a period that has begun has its year in the past or
  present.
* How a period is cut: every day of it, and no other, is in one of the spans of
  `split_periods`, and only in one (`SpansPartition`); over whole months the same
  holds of the queries for cash purchases, and each says the month of its days
  (`CashMonthsPartition`). `MonthBounds` turns days into months and `Thirds` numbers
  the three months of a span.
* What the page loop reads (`EveryRowIsRead`): when a report is made, what was
  collected is the answers to the queries of the command, in their order, each in
  full: every row once, though they came on pages, and the two totals of cash
  purchases once. A reply that passes `checked_page` and `checked_row_count` is the page asked
  for, with all its rows (`RightReply`), and a page goes on where the ones before it
  ended (`LaterPage`). The invariant, `ReadRight`, says which queries are answered,
  and that the rest of the rows are the beginning of the next answer (`IsPart`).
  Midnight does not disturb it: a list by days that is read page by page is of a
  period that is over (`BegunLater`); the sums of a year may still grow, but come in
  one reply. So an answer is of one day from the end of the period on, not always
  the day on which the command began; for a span the day makes no difference
  (`FoundLater`), nor for the registry of cards, which has no dates. One exception is
  stated rather than hidden: it holds while `sums` is "whole". The agency's card
  sales are covered when their summary is complete, since a list that agrees with it
  lacks nothing (`IsCardReply`, `IsInFull`, `CardAnswers`).
* What is printed (`ReportIsRight`), in four parts.
  - Sums: `SumFunction` folds a set in an order that `CHOOSE` picks. That this fold
    exists and that no order matters is an induction over finite sets, which the
    prover cannot take from the library, so `Induction` says it of a set of sets in
    place of a predicate, from the well-founded order of finite sets. Then follow sums
    by key, by parts, under other names (`TotalByKey`, `TotalOfParts`, `TotalRenamed`).
  - An answer counts what its entries count (`AnswerWorth`): rows are sums of the
    entries with a key, and figures are taken of rows by source, month and party,
    none of which separates entries of one row (`KeyFacts`, `RowWorth`). What may be
    missing of the agency's list has no entries, as its summary would count them
    (`SummaryCounts`, `RowsHaveCounts`).
  - The queries of a command are planned: from when to when, and of which purchases
    (all, deductible or eligible), for each source and each total (`Planned`, `TableAsks`, `SidesAsk`, `IsOneSource`),
    so an entry of the period is counted by one query and others by none
    (`CountedOnce`, `RowsWorthEntries`). Rows of cash purchases say no date, but each
    query for them is of one month (`Monthly`). The sums of a year may bring months
    and days that were not asked for: months are dropped, and entries of days after
    the period count until the day on which the query was made, which the property
    leaves open (`Days`).
  - The report makes of these rows what `ShouldBe` says (`CellIsRight`,
    `SidesAreRight`, `CounterpartiesRight`, `TotalsAreRead`); the tax in an amount
    of card sales is a division rounded up, also of a refund (`TaxRoundsUp`).
  The invariant adds `PeriodIsRight`: a command under way has a period that has
  begun, and is of its year. A report stays right after midnight, since there are
  only more days on which it may have been read (`ReportStays`).
* `ClientTypeOK`: every row that a command has collected comes from a list it asked
  for, through pages, sums by merchant and month, and replies that lack a row
  (`Sourced`).

`CliSessionsProofs` proves `TypeOK`, `NoMixing` and `ConfigWasWritten`. A whole session
file names the business whose cookies it holds, and a process has cookies of its
certificate's business at every step at which it works with them. The second
invariant, `WInv`, is about what processes hold of the configuration: it may have
been read long before another process wrote, and is written back over that, so
entries may be lost, but each was chosen by a user when it was first written. What a
text leaves behind when another is written over it is among `lines`, whose
certificates were all given or chosen; this bounds what an alias may become.

`SessionStoreProofs` proves `UsedIsOpen`, `OneKeeper`, `CapacityRespected`,
`NoLateUse`, and, for behaviours without cancellation, `ExpiredIsClosed`. `SInv` is
about who minds what: a session is listed, or minded by one task that will close
it or add it, or neither (`MindedOnce`). A user holds the lock of its session, which
whoever closes the client must hold too (`UsersHold`) - save a login, and nobody
can use what is not added yet (`LoginsAlone`).

The type invariant of `WriteJournal` is checked as a conjunct of those of
`JournalFile`, `InvoiceOperations` and `CounterpartyChanges`.

Only model-checked: liveness (`EveryTaskEnds`, `EveryCallReturns`,
`ExpiredGetsClosed`), which is out of the prover's reach. The type invariant of
`SessionStore` is not a run's property; `SessionStoreProofs` proves its own form.

## What is not modelled

* `certificates.py` and `invoice_signing.py`: decryption, parsing and XML
  signatures, pure functions with tests of their own. What their results are
  compared with is in `InvoiceDocuments`.
* The wire format of `protocol.py` and the parsing of replies: I/O whose failures
  are the failing steps of a call.
* The search of directories and the labels of a menu in `cert_discovery.py`, the
  argument parser and printing of `cli.py`, routing and body limits of `api.py`.
* File modes, symbolic links and damaged databases.
* An exception of `client.close` (`api.py:199`), which would end the reaper: it is
  listed as a hazard without a property. What a second logout in parallel leaves
  (`local_session.py:95`) is modelled, but no property is about it. Nothing in the
  repository says what should be so in either case.
* `scripts/`: developer helpers.

## Plan

Done: all parts that keep state, the composition of the commands of one client, and
proofs of every safety property that the passing runs check.

1. Divide `CommandsProofs`: its parts on the calendar, on sums and on writes do not
   depend on each other.
2. Model exceptions of `client.close` once the code says what they should leave.
