# Verification of Rozlicz Najem (npbeta-py)

Rozlicz Najem is a Django application in which Polish landlords settle utilities with their
tenants, keep the ledger of rent and fees, pay the lump-sum tax and correspond with tenants.
This directory holds TLA+ models of the parts that keep state and decide about money, mail and
access, the TLC configurations that check them on small instances, and proofs of their
invariants for every value of the constants.

Paths are relative to the repository; `views.py`, `models.py` and `forms.py` without a directory
are those of `src/apps/core/`.

## 1. The system

The program is one Django project, served by gunicorn with three workers (`src/Dockerfile`), one
Celery worker fed through Redis (`src/docker-compose*.yml`) and PostgreSQL. All state is in the
database, apart from the task queue. Three facts shape every model:

* `ATOMIC_REQUESTS` is off. A request autocommits each statement, so between what it reads and
  what it writes any other request may run. Only `confirm_fee` and `save_settlement` open a
  transaction, at READ COMMITTED.
* `ModelForm.save()` writes every column of the row it read, `save(update_fields=...)` only some.
* Django follows foreign keys on deletion (CASCADE, SET_NULL); PostgreSQL checks them at commit,
  so a write whose referenced row has vanished is an `IntegrityError` that undoes its transaction.

| Component | State | Operations | Interacts with |
|---|---|---|---|
| Settlement engine (`services/fees.py`) | readings, meter and fee prices, invoice amounts | enter, move, delete rows; `calculate_fees`, `save_settlement` | contracts, rooms, funds (reads); settlements (writes) |
| Settlement ledger (`views.py` 1113-1197, 2438-2495) | settlements, their tenants and items, ledger entries, item payments | save, delete, confirm as paid, edit entries, backfill script | engine, dashboards, funds |
| Rent and tax (`views.py` 1219-1298, 1965-1995, `services/tax.py`) | ledger entries, tax payments | confirm rent, edit entries, compute, pay and unpay tax | contracts, dashboards |
| Tenancies (`views.py` 1505-1713, `accounts/forms.py`) | contracts, invites, accounts | CRUD, renewal, hard stop, invite, sign-up, account deletion | mail, portal |
| Mail (`services/mailer.py`, `notifications.py`, `tasks.py`) | mail settings, task queue, audit log | queue, run a batch, send one, log | settlements, SMTP, Celery |
| Contribution funds (`services/funds.py`) | funds, rates, contributions, expenses | CRUD, balance from confirmed entries | ledger, engine |
| Meter pages (`services/counters.py`, `estimate.py`, `views.py` 1770-1850) | utilities, readings, prices, invoices | forms of many meters, `update_or_create`, matrix, estimate | engine |
| Dashboard, arrears, records, contracts, flats (`services/stats.py`, `forecast.py`, `views.py`) | none of their own | read-only pages | ledger, contracts, bills, tax |
| Accounts (`apps/accounts`, `views.py` 2010-2075) | users, sessions, links on their way | register, activate, resend, log in, time out, change settings | mail |
| Templates and broadcasts (`services/mailer.py` 200-320, `views.py` 2090-2260) | templates, audit log | seed, edit, restore, send | tenants, SMTP |
| Wishlist (`views.py` 2070-2100, `admin.py`) | wishes, messages | submit, set a status, reply | staff |
| Data migration (`management/commands/load_legacy.py`) | all tables, their sequences | flush, load, reset sequences, commit | the running site |
| Portal, mortgage, flats, rooms, notes | one table each, or none | read-only pages, CRUD | little |

What is hard in it: checks and writes of one request that another request separates
(`confirm_fee`, `confirm_rent`, sign-up, `update_or_create` without a unique constraint); stale
rows written back by forms; deletions that meet requests, scripts and batches in flight; e-mail
that cannot be taken back, sent before or after the row that records it; workers killed inside a
batch; boundary days of periods, stays, readings and prices, month lengths and rounding.
`PROJECT.json` lists these hazards one by one at the lines where they bite, with the properties
that catch them or the reason why none does.

What makes each part correct: a settlement charges what was used, once; a settled fee is
confirmed completely, a second time only by a request that could not see the first receipt, and
deletions never leave dangling or half-deleted money; tax of the months adds up to the tax of the
year; a tenant is linked only by an invite and stays linked, a stopped contract is reopened by
nothing but an edit opened before, a proposal shown as pending was sent; a task mails nobody twice
and leaves a trace of everything it did; a fund collects what was charged for it and its past
stands; pages that compute one thing in two ways agree; an account is activated by its link only
and a changed password comes back only from a row read before; an import that ends has skipped
orphans, all of them and no others, and one that is refused had one of a few reasons. Where the
code promises more than that, section 6 shows how it fails.

## 2. The modules

| Module | Models | Checked by | Proved in |
|---|---|---|---|
| `SettlementLedger` | confirmation of settlements and the fee side of the ledger | `MCSettlementLedger`, `Ledger_*.cfg` | `SettlementLedgerProofs` |
| `FeeReceipts` | what that confirmation promises, abstractly | refined by `SettlementLedger` | `SettlementLedgerProofs` |
| `SettlementFees` | the settlement engine and the tables it reads | `MCSettlementFees`, `Fees_Tilings.cfg` | `SettlementFeesProofs` |
| `TaxRates` | the brackets of `tax.py`, for `RentBook` and `Standing` | `MCBooks` | `BooksProofs` |
| `RentBook` | rent confirmation and the tax | `MCBooks`, `Rent_Funds.cfg` | `BooksProofs` |
| `FundPool` | contribution funds: terms, rates, what is charged and what is collected | `MCBooks`, `Rent_Funds.cfg` | `BooksProofs` |
| `Standing` | what arrears, records, forecast, dashboard, flats and tax table say on a day | `MCBooks`, `Standing_*.cfg` | `BooksProofs` |
| `Books` | `RentBook`, `FundPool` and `Standing` side by side | `MCBooks` | `BooksProofs` |
| `MeterBook` | utilities, readings, prices, invoices; meter matrix and estimates | `MCMeterBook`, `Meter_Book.cfg` | `MeterBookProofs` |
| `Tenancies` | contracts, renewals, invites, sign-up | `MCTenancies`, `Tenancy_Requests.cfg` | `TenanciesProofs` |
| `SettlementMail` | settlement e-mails and their audit trail | `MCSettlementMail`, `Mail_Batches.cfg` | `SettlementMailProofs` |
| `Accounts` | registration, activation, login, sessions, settings | `MCOffice`, `Office.cfg` | `OfficeProofs` |
| `Correspondence` | mail templates and broadcasts | `MCOffice`, `Office.cfg` | `OfficeProofs` |
| `Wishlist` | wishes, their status and replies | `MCOffice`, `Office.cfg` | `OfficeProofs` |
| `LegacyImport` | `load_legacy` beside a running site | `MCOffice`, `Office*.cfg` | `OfficeProofs` |
| `Office` | the four above side by side | `MCOffice` | `OfficeProofs` |
| `SumLemmas` | nothing: facts about sums over finite sets | - | itself |

In all of them a variable is a table (a set of rows, or a function from primary keys), and each
client has a `request` or `job` record: the locals of a view between two statements. A view that
reads and later writes is two or more actions that share this record, a `transaction.atomic`
block is one action, and a `Crash` or `Abort` action drops the record. An operator preceded by the
comment "Mutant" is a plausible bug in the definition after it. It takes part in no
specification: it records how a property would fail.

### SettlementLedger

`tenants`, `items`, `ledger` and `payments` are FeeCalculationTenant, FeeCalculationItem,
LedgerEntry and FeeItemPayment. `confirm_fee` is `ConfirmRead` (the tenant and whether an entry
exists), then `ConfirmRefused`, `ConfirmCommit` (the atomic block) or `ConfirmAbort` (the foreign
key fails because the settlement was deleted). `RecordUpdate` is `UpdateRead` and `UpdateWrite`;
an UPDATE of a row that is gone becomes an INSERT, as in Django. `_backfill_fundline.py` plans in
one action and inserts in another. Abstracted: amounts (a line is positive or not), record dates,
and the settlement's period, which is the month of its midpoint.

`FeeReceipts` is what this promises, for any number of requests in flight and both kinds of entry:
somebody pays a bill who looked and saw no receipt of it standing; a receipt can be voided (the
entry is deleted, or booked as rent), only a voided one is reinstated, by an edit that still holds
it; withdrawing a bill takes its receipts along, and a number is never used again. `KeepsReceipts`
is the refinement: a settled tenant is a bill, a fee entry linked to it a receipt, a request
past its check a look. Two variables that are not in the code serve it: `confirmed`, when each
receipt was issued and looked for, and `voided`. What the abstract specification says of two
receipts for one bill is `DoubleUnseen`. That there is only one, as the code's comment has it,
does not follow from it and is false (section 6).

### SettlementFees

A flat with one meter or one administrative fee (the engine charges each independently), its
readings, prices and invoice amounts, and the settlements computed from them. `SettleDay` is one
round of the loop of `calculate_fees`, with all queries of that day; edits of the owner come
between days, as READ COMMITTED allows. Money and usage are exact multiples of 1/`Unit` of the
smallest digit kept, and `Rounded` rounds half away from zero, as ROUND_HALF_UP does, where the
code rounds. Prices without a date are dated 0. The properties are about *tilings*: settlements
computed from one version of the tables whose periods follow on one another. A settlement that
an edit tore apart, or two for one day, are reachable, but no text says what they should charge.
Fund lines belong to `FundPool`, and the stored share of the month (`usage` of a fee) is left
out.

### RentBook, TaxRates

`TaxRates` is `monthly_tax`: two brackets and the rounding to whole zloty, so that a small income has
no tax and `compute_tax` has nothing to pay. `entries` are LedgerEntry rows with the month in which they were received, which the tax goes by,
and the month that they settle, which the confirmation goes by. `confirm_tax_payment` is four
actions: the sum over the year (`TaxBefore`), the sum over the month and the tax (`TaxMonth`), the
lookup (`TaxFind`) and the insert (`TaxInsert`) of `update_or_create`. A payment remembers in
`seen`, which is not in the code, the incomes it was computed from.

### FundPool

The balance of a fund is never stored: `fund_balance` adds up, for each fee entry of the flat, the
rate of its billing month, and the dated contributions and expenses. The settlement charged the
rate of the last day of its period, the backfill script that of the billing month it expects. A
line therefore remembers (in `book` and `day`, which are not in the code) what it was priced from.
`fund_edit` and `fund_rename` are two-step forms that write the whole row; the interleavings of
confirmations are those of `SettlementLedger`, so here each is one action. Of two rates with one
date the code may take either: `RateFor` and `Balance` are sets of outcomes.

### MeterBook

`add_reading` saves one meter after another; each is the lookup of `update_or_create`
(`UpdateReading`, `MissReading` or, with two rows there, `SubmitAbort`) and the insert
(`InsertReading`). Invoices have a unique constraint under theirs, so `InvoiceInsert` falls back on
the update. `MoveMeter` writes back a row, as `MeterUpdate` does, and leaves the readings with the
first flat. `Cell`, `PrevDay` and `ShownCost` are the matrix of `counters.py`; `Before`, `After` and
`CounterPrice` are what the engine reads off the same rows (the module's own translation of
`fees.py`); a day's cost is kept as use, length and price instead of their quotient.
`Estimate` is `estimate.py` with months of days.

### Standing

One module for the read-only pages, because each computes "who owes what" with queries of its own
and the properties compare them. Actions are the writes that these pages see, one per view, and
two midnights: arrears go by the date in UTC (`utc`), the records page by the local one (`today`),
and the local midnight comes first. Contracts that were deleted stay, as in the code. Rooms, not
flats, are the unit; the settled month of a bill is a number. A month owes tax when the tax of
its income, in whole zloty, is above 0 (`TaxOwed`). A receipt has the month it came in and the
month it is billed to: the dashboard and the tax table go by the first, the records page by the
second.

### Tenancies

`contracts`, `invites` and `accounts` are the tables. `mailed` and `code` remember what no table
holds: which proposals were e-mailed and to whom, the tenant or, in test mode, the owner
(`Recipient`), and which code an account signed up with. `contract_send_renewal` is the e-mail and
then the save, in test mode as well; sign-up is the check of the code and three saves
(account, invite, contract) without a transaction, the last of which puts the new account in the
place of whoever was linked; `DeleteAccount` sets the columns that name the account to NULL. The
end of a contract is moved by an edit, a hard stop and a confirmed renewal, the flag of the stop
is cleared by edits alone: `EndsStand` watches both, and a deletion too, and `LinkKept` who is linked.

### SettlementMail

`queue` holds task numbers, from which a worker takes a task before running it (Celery's default
acknowledgement). A batch keeps the settings it loaded with its first e-mail, since Django caches
`calc.owner.mail_settings`. `Send` is the SMTP server's acceptance and `LogSent` the audit row
after it; `LogFails` is the foreign key error after the settlement was deleted. A page that mails
one tenant runs the same code with task 0.

### Accounts

An address is a name and whether it is written in lower case (`exact`): the form looks for it in
whatever case, the unique constraint does not. A link is what its token is made of (account, password
hash, last login, time). `password` is the password that a hash is of, `hash` the stored hash itself:
hashing one password twice gives two. A login reads the account, replaces an md5 hash by one of the
password that was typed (`LoginUpgrade`, an UPDATE of that column alone, whatever it holds by
then), and opens a session with the hash in memory (`LoginFinish`); `Owners` is what the middleware
and `get_user` ask of a session. Settings forms write all columns of the user read at the start of
the request; the new password (`SavePassword`) and the hash in the session that stays logged in
(`RenewSession`) are two statements, and a process may die between them. Initially there is no
account, or one that `load_legacy` imported.

### Correspondence, Wishlist

A text is the default of a kind or the landlord's own. `ensure_default_templates` is a check and a
creation per kind, so that two first visits may create it twice; an edit writes the whole row, and
creates one that was deleted since it was read again; a restore writes only the text, over whatever
was saved. `TemplatesStand` says what is left: no other way to a second template or to a deleted
one. A broadcast takes its template and tenants when its task runs, and its audit row afterwards
may refer to a template that was deleted. A reply to a wish reads it, adds the message and may reopen it: three statements.

### LegacyImport

The old database is a set of rows with the primary keys that their columns name, some of which do
not exist, and users with their addresses, which are usernames and unique (`Clash`): of two old
users, of the superusers that a flush spares, and of who registers while the import runs. A run of the command is one transaction: flush, one action for each table, the reset of
the sequences and the commit. The site goes on: it adds users, and flats unless it must wait for
the transaction. `setval` is not undone with a transaction, so `seq` is a variable that `Undo` leaves.

### Office and Books

`Accounts`, `Correspondence`, `Wishlist` and `LegacyImport` meet in no row that a property tells
apart, nor do `FundPool`, `RentBook` and `Standing`. `Office` and `Books` put them side by side: a
behaviour is a behaviour of one of them, `part` says which, and the others stay at their initial
state. In `Books` the constant `Parts` says which of the three a run takes. `BooksApart` proves that a
behaviour of the books is one of each part, so theorems about a part hold of what the runs check;
those of `OfficeProofs` are about the composite itself.

## 3. What the runs check

| Run | Instance | What it shows |
|---|---|---|
| `ledger_concurrent` | 2 clients, 1 contract, 2 settlements, 2 entries, both kinds, 1 script | `LinksIntact`, `PaidInFull`, `OneFundLine`, `DoubleUnseen`, `SettlementsKeepMoney`, `LinkWrittenOnce` under every interleaving, and `FeeReceipts` is implemented (`KeepsReceipts`) |
| `double_confirm` | 2 clients, smallest tables | violation of `ConfirmedOnce`, see section 6 |
| `fees_tilings` | 2 tenants, 3 days in 2 months, 1 price at first, 1 edit, 2 settlements | `MetersCharged` (usage and money), `InvoiceCollected`, `SharedWithinPrice` for every cut into periods |
| `rent_and_funds` | 2 clients. Rent: 3 months of 2 years, 2 entries, 2 payments. Funds: 2 months of 2 days, 4 rows beside the fund's deletions | `RentInv`: types, and recorded payments add up to the year's tax. `ChargedIsCollected`, `FirstMonthCollects`, `HistoryStands`, `FormsKeepApart` |
| `meter_book` | 2 clients, 2 flats, 2 utilities, 3 days, 4 rows | `BookInv` (nothing orphaned, nothing double but by overlap or edit), `CellMatchesEngine`, `ColumnAddsUp`, `EstimateNotLower` |
| `standing` | 1 room, 3 months of 3 days over 2 years, 3 rows | `PagesAgree` (types, foreign keys, `ArrearsAreRows`, `BillsHaveOnePage`, `RoomsAgree`), `SumsAgree` (`ForecastSplits`, `RenewalPaysOnce`, `IncomeAgrees`, `TaxIsListed`), `DebtStands` |
| `arrears_unlisted` | the same, 1 row | violation of `ArrearsAreListed`, see section 6 |
| `income_headline` | the same, 1 row | violation of `HeadlineIsRecorded`, see section 6 |
| `tenancy_requests` | 2 clients, 2 contracts, 2 accounts, 1 invite, mail in and out of test mode | `ProposalWasMailed`, `LinkedByInvitation`, `NoGhostTenant`, `TenantUsedInvite`, `EndsStand`, `LinkKept` |
| `mail_batches` | 2 workers, 1 client, 2 tenants, 2 tasks, 2 e-mails, 1 kill | `TaskMailsOnce`, `MailsAccounted`, `StoppedBatchShows`, and `BatchEnds` under fairness |
| `office` | 2 clients; 1 address, 1 kind of template, 1 wish, a few old databases | `OfficeInv` (types, `BroadcastsLogged`, `NextIdFree`), `AccountsKept` (four conjuncts), `PasswordStands` (`OnlyHeldUndo`, `OthersLogOut`), `TemplatesStand` (`SeededOnce`, `EditedIsUsed`, `RestoresText`, `DeletedStay`), `FollowUpReopens`, `ImportRuns` (`SkipsOrphans`, `RefusalsListed`) |
| `orphans_skipped` | the import of the same alone | violation of `OrphansSkipped`, see section 6 |

A property that is a conjunction of named ones has one row here, and its parts have their own
comments in the module. Where a type invariant or an inductive invariant is in no row, a theorem of
section 4 states it.

Bounds, and why they suffice. Requests interact only through rows, and every lost update, double
check or dangling link needs one request between two statements of another: two clients reach
them. Two settlements of one contract distinguish the settlement from the contract as the key of
a confirmation; both kinds of entry are offered, since a fee booked as rent and back again is how
one client confirms twice. The second contract of `Tenancies` has no end (`Terms`): it is
there for links, invites and deletions, and the first for dates. In
`SettlementFees` three days are enough for a period, a stay, a reading interval and a month to begin or end strictly
inside one another; capacities 0, 1 and 3 are unknown, too small and large enough for
`tenants + 2`; the first month has one day more than the engine counts, like a leap February;
72 is divisible by every product of an interval's days and a number of sharers. `RentBook` uses
the real rates with the threshold scaled from 100 000 to 100: an amount of 90 stays below it
alone, two cross it together, and month 3 starts a new year; the month that an entry settles
(`Billings`) is one there, since the tax does not go by it, and two on the pages. These have
a threshold of 10 and amounts of 5, of which no tax is due, of two of them one zloty. In `SettlementMail` two tasks for one
settlement let batches overlap, two e-mails are those of one complete batch. In `FundPool` a fund
starts on the first or in the middle of a month, ends within it or never, and rates start in the
second month: before, on and after a period's last day and billing month. `MaxWrites` counts rows
written, one of which is the fund. In `MeterBook` three days give a row, the row below and a day
in between for another meter; four rows are two utilities and two readings, or one meter, two
readings and a price; from the second row on (`MaxOverlap`) requests no longer overlap, which
keeps two overlapping submits and cuts the rest. `Standing` has a month that ended, one that
began and a new year, contracts that start and end inside months, end on the day looked at, or
never; three rows are a contract, a renewal and an entry. In `office` two times are before and
after a link is too old, `MaxLinks` is one link on its way at a time, `MaxWrites` covers an account,
a login and a changed password; the old databases are a family of related rows complete, with
one of them missing, and with one that names a missing flat, two users of one address, and no user;
`Usernames` has the address of the old user and another, for who registers meanwhile; two runs of
the import let the second meet what the first left. Where clients are symmetric the runs without liveness use symmetry.

Deadlock is checked in the runs of `SettlementLedger`, `SettlementFees` and `SettlementMail`. The others really stop: once the days, the supply of keys or the rows that
may be written are used up and nothing is left to delete, nothing can happen.

Fairness: only `SettlementMail` states any. Celery workers are restarted whenever they stop
(`restart: unless-stopped`, `src/docker-compose.prod.yml`), so weak fairness on taking a task and
on each step of a batch is assumed for workers; nothing is assumed of owners, the SMTP server's
answer, or crashes. `BatchEnds` then says that each queued task is taken and comes to an end,
though not that it reached every tenant. Nowhere else does the code promise that something
happens: a request that dies is not repeated.

## 4. What is proved

With TLAPS, for any number of clients, contracts, users, settlements, workers and so on, without
the bounds of the runs (bounds are constants in `Nat`):

* `SettlementLedgerProofs`: `TypeCorrect`, `LedgerInvHolds`, `LinksStayIntact`,
  `ConfirmationIsAtomic`, `LinkIsWrittenOnce`, `MoneyIsKept`, `ImplementsReceipts`, `DoublesAreUnseen`,
  `BackfillAddsOneLine`. Referential integrity alone is not
  inductive: an edit holds a copy of a row and may write it back after its settlement was deleted.
  `LedgerInv` therefore covers the *copies*: stored rows and those that edits have read agree on
  the link unless the settlement is gone (`CopiesAgree`), serials are ahead of every key in use, and
  a copy is as paid as its row (`CopiesPaid`). `HistoryInv` adds that every fee entry and every copy
  that could become one has its receipt (`CopiesConfirmed`) and that a number is one receipt
  (`ReceiptsUnique`). From it each action is shown to be a step of `FeeReceipts` or a stutter, with any
  number of requests in flight; a copy written back after its entry was deleted or booked
  as rent is a receipt reinstated, which was voided before. That two receipts of one bill did not see
  one another (`PaidTwice`) is then proved of `FeeReceipts` and carried over. `BackfillAddsOneLine`
  alone assumes something, `OneBackfill`, one run of the script at a time: then a plan made earlier
  holds only tenants without a fund line.
* `TenanciesProofs`: `TypeCorrect`, `TenancyInvHolds`, `PendingWasProposed`, `TenantsWereInvited`,
  `NoGhosts`, `StopsAndDeletionsStand`, `LinksAreKept`, `TenantsUsedTheirInvite`.
  The invariant again speaks of all versions of a contract around, and of what each half-finished
  request relies on (`Underway`): an invite whose code was typed is never removed, and invites
  belong to contracts that exist. That a flag, a deletion or a link is undone by edits alone is a
  lemma for each action and then one for what an edit writes back. The last theorem needs a second invariant, `SpentInv`: a
  registration about to link has used its invite up, and so has every copy that names a tenant.
* `SettlementMailProofs`: `TypeCorrect`, `MailInvHolds`, `NoTenantMailedTwice`, `AuditTrail`,
  `BatchesProgress`, `StoppedBatchesShow`. A
  task is in the queue, at one agent, or over; what an agent still has to send, its task has not
  sent. The audit trail is a counting argument: each step adds at most one unlogged e-mail, and
  only a kill does. `BatchInv` says that as long as nothing was killed and its settlement exists, a task is
  in the queue, has a failure in the log, or each of its tenants is logged as sent or is left to the
  agent that has the task (`Progress`). A batch that stopped is in no queue and at no agent.
* `SettlementFeesProofs`: `TypeCorrect`, `InvoicesCollected`, `SharedFeesBounded`,
  `MetersConserved`. The properties compare a settlement with tables that later edits change, so they
  say nothing inductive. `Explained` says it of the version the settlement saw: each line, and what a
  half-done settlement has added up so far, is the sum over the days of the period so far of what
  the day costs each tenant who is there. From it, for settlements that tile a time: what they charge is the
  cost of the days they cover, half a digit for each line aside (`TilingCosts`), by exchanging the
  sum over lines with the sum over days. A day's cost is split without a remainder, for `Unit` is a
  multiple of every number that is divided by. An invoice then costs the same on each day of its
  month, a shared fee at most its price, and the days between two neighbouring readings cost the
  difference of their values, which telescopes.
* `BooksProofs`, funds: `TypeCorrect`, `PoolMatchesCharges`, `PoolHistory`, `FormsOnlyOverlap`,
  `FirstMonthIsCollected`. `LinesPriced` says of each line that its value is a rate in its book on
  its day. That rate is the rate of the billing month when no rate starts between the two days, by the lemma `RateHolds` on `Latest`
  alone. `PoolHistory` is about sums without computing one: the set that is summed is the same.
  `FirstMonthIsCollected` rests on the order of months (`MonthsInOrder`), for months of any length.
* `BooksProofs`, rent: `TaxesAddUp`. `RowsKept` adds to the types that keys are fresh and that a payment,
  and a request on its way to one, has the tax of the incomes it saw (`TaxesComputed`). The
  brackets of a year's months telescope (`BracketsMeet`): a month takes from the low bracket what
  those before it left. Rounding costs half a zloty for each payment.
* `BooksProofs`, pages: `PagesAlwaysAgree`, `SumsAlwaysAgree`, `DebtsStand`. The pages keep nothing of
  their own, so the invariant is only that rows are typed, finite in number and name no row
  that is gone (`PagesTyped`); that deletions of settlements unlink entries is what keeps it. From it
  every agreement of two pages follows by arithmetic on days and months of any length
  (`DaysAndMonths`, `StatusGrows`, `TwoRounded`, `ZlotyFromHalf`), or by grouping a sum (`MonthsByBar`). `DebtsStand`
  shows that it needs nothing but that the date in UTC never goes back.
* `MeterBookProofs`: `BookHoldsAlways`, `BookIsKept`, `MatrixShowsTheCharge`, `EstimatesNeverFall`,
  `MatrixColumnsAddUp`.
  `BookHolds` adds to the properties that keys are fresh and that an insert whose lookup found
  nothing would still find nothing, unless rows were inserted since and it is marked late
  (`MissesStand`). A cell is what the engine charges because no reading lies between its two and
  no price starts there. Estimates order rows by day and key, so that the last reading exists is
  an argument about well-founded orders on naturals. The uses of a column add up because those of
  its rows telescope (`SumTelescopes`); what they cost is not added up.
* `OfficeProofs`: `OfficeKept`, `AccountsAreKept`, `PasswordsAreKept`, `TemplatesAreKept`,
  `FollowUpsAreSeen`, `ImportsRun`. `AccountsInv` is about every version of a user's row, stored or held
  by a request: forms write back whole rows, so what holds of the table must hold of what forms
  read, and links must be made of accounts that still wait. That an old password comes back only from a
  row held by a form or a login (`HeldUndo`) follows, for numbers of passwords only grow otherwise. For replies, `ReadsStand` relates each half-done reply to its
  wish: a wish resolved now was resolved when the reply read it, or has been resolved since. For
  templates, `Seeding` says that those of the kind a visit is about to create were saved after it
  looked, and `ReturnsByEdit` that no action but an edit writes a row that is gone. For the import, `LoadedUpTo` says of the tables loaded so far that what finds its parents is
  there, and that nothing else is. If a row whose parents, and theirs, exist were skipped, take one
  of the first table with such a row: its parents were loaded, so it was too. A table is refused
  for a number or username that is taken (`TableRefused`), the whole for a foreign key (`EndRefused`): a
  row that was loaded without a parent lacks one that was not looked up, which is the flat of a part
  of a settlement.
* `SumLemmas`: the sums that the others need. What a sum is for a set with one more element is
  proved from the definition of the fold, and induction over natural numbers and over finite sets is
  stated with sets where the library has predicates (`EveryNatural`, `EverySubset`). From these: sums add,
  compare, scale, split into groups, exchange and telescope.

Assumptions are the named ASSUMEs of the modules: bounds are naturals; `None` is no row; scripts
are not called "settled"; months and years have a day at least and dates are days there are; tenants are
finitely many (`ContractsAssumption`); `Unit` is divisible by the numbers the engine divides by, which a
number of digits large enough is (`UnitAssumption`); the brackets' rates are naturals; rows of
an old database are finitely many and of its tables (`OfficeAssumption`). TLC evaluates them in the
runs. `OneBackfill` is a hypothesis of the theorem that names it.

Only model-checked: `BatchEnds`, which is liveness under fairness and outside the prover's
fragment. Every other property of a passing run is stated by a theorem; `double_confirm`,
`arrears_unlisted`, `income_headline` and `orphans_skipped` show what does not hold.

## 5. Reading the properties

* `DoubleUnseen`: two fee entries of one settled tenant are the work of a confirmation that looked
  before the earlier entry was there, or the earlier entry had been deleted or booked as rent for a
  while and an edit brought it back.
* `EndsStand`: "contract ended" is two facts. The flag of a hard stop, and a deletion, yield only to
  an edit form opened before; the last day may be moved on by a renewal that is confirmed late.
* `LinkKept`: a linked tenant may be replaced by somebody who registers with an invite to the same
  contract, or by the link an edit form read earlier, and by nothing else.
* `PasswordStands`: an old password comes back only with a row that was read before the change, of a
  settings form or of a login with an md5 hash; the other sessions of the account end in any case.
* `UsageConserved`: settlements that together run from the day after one reading to another
  charge the tenants exactly the difference of the two readings, up to half a digit for every
  line, wherever other readings, periods and stays begin and end.
* `PricedFromTheReading`: the same for money; a price dated on the first reading's day covers the
  whole interval, one dated on its last day none of it.
* `InvoiceCollected`: a month's invoice is charged to the grosz, also in a leap February.
* `SharedWithinPrice`: a shared fee never brings in more than its price (29/28 of it in a leap
  February) while there are no more tenants than beds. With more tenants than beds it does: the
  premise is needed, and `min(tenants + 2, capacity)` in `fees.py:176` is why.
* `YearTaxCollected`: payments for the months of a year add up to 8.5 % up to the threshold and
  12.5 % above, half a zloty off per payment at most, if no month's income is negative. With a
  negative correction after the threshold was passed it would not: `min(month_taxable,
  remaining_low)` gives the whole correction the low rate.
* `ChargedIsCollected`: the charge and the pool agree when the terms and rates have not changed
  since, the billing month is in the fund's window, and no rate starts between the priced day and
  the billing month. Each premise is needed: a rate from the first of the next month makes a bill
  in arrears charge the old rate and collect the new one, and the last bill of a fund that ended is
  charged and not collected.
* `CellMatchesEngine`: a cell of the meter matrix is what the engine charges, if no price starts
  between its two readings. With one it is not: the matrix counts a price from its own day, the
  engine from the day after.
* `ArrearsAreRows`: a rent in arrears is a row of the page the arrears link to if its contract has a
  start and an end. Without an end it is not (section 6).
* `IncomeAgrees`: the year to date of the dashboard, computed from days, adds up the bars of its chart,
  computed from months counted backwards, and these are the months the tax table lists for that year.
  With the records page, month by month, it does not agree (section 6).
* `TaxIsListed`: a completed month whose income comes to half a zloty at the low rate is unpaid until
  it is paid; an income of less than half a zloty at the high rate is never asked for.
* `RefusalsListed` names the reasons for which an import may fail: a part of a settlement that names a
  missing flat (section 6); a number or a username that a superuser spared by the flush, a row
  the site added meanwhile, or another row of the old database has; no user in it.

## 6. Where code and documentation disagree

Four runs have one property that TLC must find violated:

* `double_confirm`: `confirm_fee` promises that nothing is double-confirmed, but checks outside
  its transaction.
* `arrears_unlisted`: the arrears link each overdue rent to its month of the records, but that page
  lists contracts with an end only (`views.py:975-979`), so an open-ended one is not there.
* `income_headline`: the comment at `views.py:120-121` says that the dashboard's income and the
  records page have one source. The first goes by `record_date`, the second by `billing_period`: a
  rent that is paid early or late is in one month here and in another there.
* `orphans_skipped`: `load_legacy` says that it skips orphaned rows (line 17), but loads `duetens` and
  `duefees` by their settlement and tenant alone (lines 418, 438): one that names a missing flat
  fails at the commit, and with it the import.

Met while modelling, in the reach of a property that names the exception, and not given runs of
their own:

* Editing a confirmation to rent, confirming again and editing it back double-confirms a
  settlement with one client. Deleting a confirmed entry leaves its item payments behind, so
  confirming again duplicates them. The confirmed amount is summed from items read before the
  transaction, the item payments from those read in it.
* `confirm_rent` looks for the month in the URL and writes the month in the form: a month can
  be confirmed twice by one client.
* In test mode `send_email` sends to the owner (`mailer.py:258-274`), and `contract_send_renewal` marks
  the renewal as proposed (`views.py:1525-1527`): the contract says that the tenant was asked
  (`models.py:164`), and he was not. A running batch does not see that test mode was switched on.
* A hard stop sets the "final end" (`views.py:1605`), but a renewal proposed before it can still be
  confirmed after it and moves that end.
* Two registrations can use one invite, and the later one takes the contract over; an edit form
  opened before a registration takes its tenant off the contract again.
* A login with an md5 hash writes the password it was given over one that was changed while it was
  being checked, so the old password is back.
* Two first visits of the templates seed each of them twice; an edit saved after its template was
  deleted creates it again.
* The fund pool accrues the rate of the billing month while the settlement charged that of its
  last day; the meter matrix prices a day with another price than the engine.
* `README.md:77-78` has the import re-run with `--flush`. It is refused when a superuser that the
  flush spares, or somebody who registers while it runs, has the address of a user of the old
  database. An import that fails after the sequences were reset leaves them below rows in use.
* Deleting a flat is soft and leaves its contracts, which go on into forecast and arrears.

## 7. Not modelled

* Tenant portal, mortgage schedule: read-only pages that compute from rows and change none. Which
  contracts an account is linked to is in `Tenancies`.
* Flats, rooms, notes and owner profile: CRUD of one row per request with a soft delete; the other
  modules take flats, rooms and beds as constants.
* `seed_demo` writes fixed rows in one process; `export_golden_fixture` and `check_fee_parity` read.
* Templates, static files, migrations, admin registrations and deployment are presentation or
  declarations. From the deployment the models take the processes and what restarts them.
* Password hashing, the contents of tokens, and the role middleware, which redirects.
* The texts of e-mails, PDF and CSV exports, formatting.
* The torn settlement: `calculate_fees` may see two versions of the tables. It is reachable in
  `SettlementFees`, but no text says what it should charge, so no property is about it.

## 8. Plan

Done: all modules of section 2, in the order ledger, tenancies, mail, engine, rent and tax, funds,
meters, pages, accounts, correspondence, wishes, import.

Every safety and action property of the runs is proved. Left, most important first:

1. Shorter proofs: `Accounts` and `SettlementFees` share arguments about requests that hold rows
   with `SettlementLedger` and `Tenancies`, which one lemma on held versions could carry.
2. An abstract specification of the mail queue that hands each task out at most once, which
   `SettlementMail` would refine as `SettlementLedger` refines `FeeReceipts`.
3. `seed_demo` as a second writer of `LegacyImport`, if it is ever run beside a site in use.
