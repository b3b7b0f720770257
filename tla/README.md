# Verification of the construction management back end

TLA+ models of the parts of this FastAPI/SQLAlchemy application that decide
about money, quantities and approvals, TLC configurations that check them on
small instances, and TLAPS proofs for every instance. Line numbers refer to
`src/src/apps/<app>/...` unless said otherwise.

## 1. The system

One process serves HTTP requests; every handler builds a service object
(`FinanceService`, `ProgressService`, ...) on a database session of its own.
All state is in PostgreSQL. Components call each other only inside a request
(certification creates invoices, boq sends notifications) and otherwise share
tables. There is no queue, no scheduler and no background worker; mails are sent
while the transaction is open.

| Component | State | Operations | Must hold |
|---|---|---|---|
| Sessions (`core/database.py`) | a transaction per request | commit at the end of the handler, rollback on an exception | what a handler reads may be old when it is written |
| Finance: invoices | `invoices`, `payments` | create, submit, approve, reject, record_payment, check_overdue | row figures agree; no money without approval; paid means collected; not overpaid |
| Finance: expenses, change orders | `expenses`, `change_orders`, `payment_certificates` | create, submit, approve, reject | decided once |
| Progress entries | `progress_entries` | create (staff, portal), update, delete, submit, approve/reject | within what is assigned; decided entries are final |
| Certificates | `subcontractor_certificates` and items | create, update, delete, submit, approve (creates an invoice), mark_paid, revise | nothing certified twice; one invoice per certificate; paid means settled |
| BOQ | `budget_versions`, `boq_items` | create, copy, approve a version; create, update, delete, import items | one approved version; approved is frozen; totals are sums |
| Documents | `documents`, `document_revisions`, `document_approvals` | create, update, submit, revise, delete, add approver, decide | a rejection counts; complete consent counts |
| Procurement | `purchase_orders`, `po_items`, `grns`, `grn_items`; vendors, RFQs, quotations | create/submit/approve/reject an order, receive goods | no receipt is lost; goods on approved orders only; status tells receipts |
| Inventory | `stock_items`, `stock_transactions`, `material_requests` and items, warehouses | stock movements; create, submit, approve, reject, issue a material request | stock is its ledger; never negative; a request draws once |
| Projects | `projects`, sites, milestones, members | status transitions, milestone edits that recompute progress, codes, members | transitions of the table only; progress is the average of the milestones; one row per code and member |
| Quality | inspections, checklist items, NCRs, punch lists, incidents | score from answers, complete, reopen, close | score is that of the answers; dates agree with statuses |
| Subcontractors | subcontractors, contracts, work orders, assignments | edits, deletion, assignment of BOQ items | what a closed contract stops (Progress) |
| Compliance | compliance documents | create, edit, verify, refresh, remind | status agrees with the date; one reminder a day |
| Site operations | daily reports | create (one per site and day), edit, submit | one per day; final once submitted |
| Identity, tenancy, portal users | `users`, `subcontractor_users`, `refresh_tokens`, `tenants`, permissions | register, create, login, refresh, logout, change and reset passwords, deactivate, suspend | one account per e-mail; a given password is mailed, unless the mail fails unnoticed, and must be changed; one token of a login works |
| Approvals inbox | none | joins what is submitted with its project, counts it and lists the newest | what awaits a decision is counted in it |
| Notifications, comments | devices, portal notifications, comments | register a device; rows nobody decides from | one row per device |
| Dashboard, reports | none | reads | |

What is hard in this code:

- *Concurrency without locks.* Handlers read rows, test guards, compute in
  memory and write at the end; no `with_for_update`, no `version_id_col`, READ
  COMMITTED. SQLAlchemy writes only the columns that changed, so two handlers
  can each win half of a row. Nearly all uniqueness is check-then-insert.
- *Order of legal calls.* Drafts checked against tallies that do not count
  drafts, revisions that keep old approvals, receipts that name items of other
  orders, certificates approved in another order than computed.
- *Numbers.* Rounding to paisa in a row beside unrounded payments; quantities
  without a sign check; sums over items that hide a difference.
- *Rows locked while mails are sent.* A flush locks its row until the commit, and
  `send_email` calls SMTP in between, without a timeout.
- *Mails that fail.* `send_email` swallows every error and returns `False`, which no
  caller looks at; what the handler was about to store is stored all the same.
- *The calendar.* No job runs at midnight: statuses that depend on a date are
  right only on the day somebody asked for them.
- *Liveness* is promised in one place: a request that has begun ends
  (`RequestsEnd` in `Rollup`, where requests wait for each other's rows). Nothing
  calls `check_overdue`, and a request that fails is the client's to repeat.

## 2. Modules

| Module | Models | Abstract / detailed |
|---|---|---|
| `Session` | what a flush does to a column (`Flushed`) | used by all |
| `Invoicing` | invoices and payments, check_overdue | implements `Receivable` |
| `Receivable` | what finance promises of money owed | abstract |
| `InvoicingProofs` | theorems about `Invoicing` | |
| `Progress` | entries of one BOQ item under one contract, staff and portal | implements `WorkLog` |
| `WorkLog` | claimed, confirmed and withdrawn quantity | abstract |
| `Certification` | certificates of one contract, their invoices, payments on them | implements `Billing`; composes `WorkLog` as the environment and finance's `record_payment` |
| `Billing` | certified quantity and invoiced amount of a contract | abstract |
| `Budget` | budget versions and items of a project | |
| `Documents` | one document, its revisions and approvals | |
| `Procurement` | orders and receipts, with row locks | |
| `Inventory` | the stock of a material, material requests | |
| `Rollup` | a figure of a parent computed from children: progress of a project, score of an inspection, with row locks and mails | |
| `Registers` | one row per key: codes, members, daily reports, accounts, tenants, devices, ... | |
| `Workflows` | the life cycles of a project and of the items in it, and the approvals inbox that joins both | composes projects, finance, procurement, quality, site operations, subcontractors and approvals |
| `Compliance` | a compliance document against the calendar, with reminders | |
| `Accounts` | an account with its passwords, the mails about them and its sessions | |
| `ProgressProofs`, `CertificationProofs`, `BudgetProofs`, `ProcurementProofs`, `InventoryProofs` | theorems about the module they are named for | |
| `ComponentProofs` | theorems about `Accounts`, `Documents`, `Compliance`, `Registers`, `Workflows`, `Rollup` | |
| `AggregateTheorems` | sums, largest and smallest elements of any finite set | used by the proofs |
| `MC...` | TLC instances | |

### How state and actions correspond to the code

- **A request is a slot.** `txn[r]` is `NoTxn`, or a handler between its reads
  and its commit: the rows it has loaded and the rows it has assigned. A handler
  `op` is an action `Op(r, ...)` that reads, tests every guard and computes every
  assigned column in one step, followed by `Commit(r)` or `Rollback(r)`. Other
  requests step in between. The number of slots bounds the overlap; one slot is
  the program used by a single client, a request at a time.
- **The read step is atomic** because a handler's reads happen before its first
  write and what is read later of the same row is the same object in the session
  (identity map, `autoflush=False`). Where it is not so, the handler has more
  steps: `create_grn` in `Procurement` is a step per UPDATE, one for the sum and
  one for the commit; `action_approval` in `Documents` and
  `approve_budget_version` in `Budget` hold rows of their first flush; `Rollup`
  has a step for each write, the average and the mails; `Accounts` one for the
  flush with its mail.
- **Commit writes changed columns** (`Flushed`) over whatever is stored by then.
  An `UPDATE ... WHERE` or `SET x = x + y` is evaluated on the stored rows
  (`CheckOverdue`, `ReceiveLine`, the totals of `CommitItem`).
- **Rollback** stands for every exception, a lost connection, and the database
  cancelling one of two requests that wait for each other's rows. E-mail is in
  a model where something depends on it: a locked row (`Rollup`), a password
  (`Accounts`), a reminder (`Compliance`).
- **History variables** (`raced`, `crossed`, `stale`, `piled`, `overlap`,
  `missed`, `misdirected`, `foreign`, ...) record that a commit wrote over, or
  followed from, something that had changed since it was read, or that a call
  used its freedom in a way no guard looks at. They are computed from the
  interleaving, never from the property that mentions them. A strong property
  excused by one says precisely: *this is the only way it breaks*.
- `Flush`, `FlushRow`, `CommitStock` and `CommitLine` are the database's part
  of a commit. A definition marked "Faulty variant" is not part of any
  specification: it is a plausible bug, used to see that a property notices it.

Per module:

- **Invoicing.** Money is counted in thirds of a paisa so that rounding is real:
  `Round2` is `round(x, 2)`, totals are whole paisa, payments are not.
  `lapsed` is the calendar. Line items and dates are reduced to `Totals`.
- **Progress.** `Live` is the `deleted_at` filter, `CalcCumulative` the tally of
  submitted and approved entries. `open` stands for contract, subcontractor and
  project being active. The optional `version` of a PATCH is compared with the
  row just loaded and so never detects a race; the check that an entry is
  certified returns false for every entry whose status lets it be deleted.
- **Certification.** Certificates are numbered by creation. `qty` is
  `current_qty`, `prevQty` `previous_certified_qty`, `total`
  `total_certified_value`, `due` `amount_due`. The quantity done on the item
  comes from `WorkLog`, which `Progress` is shown to implement, so the two
  models together are the chain from site to payment.
- **Budget.** `txn` has three kinds of request: number a version, approve one,
  write an item. The totals of a version are represented by `total_amount`.
- **Documents.** `Outcome` is the decision over all approvals, `reviewed`
  remembers for which revision each was given.
- **Procurement.** `received` is the column, `listed` the sum of the GRN lines:
  the former is updated, the latter inserted. The status UPDATE that ends
  `create_grn` is part of `CommitGrn`. Orders without items are left out.
- **Inventory.** `stock` is the row, `ledger` the sum of the transactions.
  A material request has one item and a warehouse.
- **Rollup.** `figure` is `progress_percentage` of a project or `score` of an
  inspection, `child` the milestones or checklist items. A request that edits a
  child goes from `read` by `WriteChild`, `TakeAverage` and `WriteFigure` to
  `Commit`; the locks are those PostgreSQL takes for an UPDATE, and `WaitsFor`
  says whose a request needs for its next step. `drift` says that
  something that does not recalculate was the last to bear on the figure, or that
  a recalculation missed a child. `round` is `\div`; weights of milestones are
  read by nothing.
- **Registers.** All rows are of one key. `Listed` is what the SELECT of a
  handler finds, `Admits` the unique index where there is one, `seen` what a
  request found. Members are made inactive and taken up again, devices really
  deleted. `Unique` is read off the models; the index on devices spans tenants,
  the SELECT does not.
- **Workflows.** One project, one item of a kind chosen in `Init`; `marks` are
  the columns that are set once (`approved_by`, dates, `deleted_at`). `Allowed`
  is `STATUS_TRANSITIONS`. Kinds another module has in full are here up to the
  decision, for the inbox: `Pending` is the join of an item with its project,
  neither deleted, and `Counted` what `get_inbox` counts in `total`. The list it
  returns is cut to the newest `limit` of these (100, at most 500, no offset); with
  one item there is nothing to cut, and the model says nothing about who is
  listed. `Beside` bounds for which kinds the project moves as well:
  those the inbox counts; the handlers of the others never look at the project.
- **Compliance.** `today` is `date.today()`, midnight (`DayPasses`) falls between
  any two steps. `Kept` stands for a column a request leaves out of its UPDATE.
  `Remind` is the mail and the assignment after it, an iteration of the loop of
  `notify_expiring_docs` for this document. When the mail fails (`sent` is false)
  the date is set all the same, as `send_email` only returns `False`; an exception
  before the assignment, of a `SELECT` say, is logged and leaves the date alone: that
  is a `Commit` without `Remind`.
- **Accounts.** `password` says whose choice the stored hash is; `must` and
  `active` are the columns. `told` follows the mailed password: on its way with a
  request, stored, replaced. `Flush` includes the mail; it may fail, in which case
  `told` stays where it was, the request goes on, and `unsent` remembers after the
  commit that the stored password was never mailed. `hash` gives rows of equal tokens one value: tokens
  made in one second are equal. Other logins of the user have rows of their own
  and are not there.

## 3. Runs

| Run | Instance | Shows |
|---|---|---|
| `invoicing` | 1 invoice, 3 slots, totals of 2 and -1 paisa, amounts of 1/3, 1 and 2 paisa | figures agree in every interleaving; `Receivable` is implemented |
| `progress` | 2 entries, 2 slots, 2 days | decided is final; `WorkLog` is implemented |
| `certification` | 2 certificates, 2 invoices, 2 slots | one invoice each, settled when paid, totals carried along revisions agree with the sums; `Billing` is implemented: nothing certified twice, nothing invoiced beyond its value |
| `budget` | 2 versions, 2 items, 3 slots | the four properties, each up to its own kind of overlap |
| `documents` | 2 approvers, 1 revision, 2 slots | rejection and consent count in any order of calls |
| `procurement` | 2 orders, 3 items, 6 kinds of delivery, 2 slots | no receipt lost, goods on approved orders, status right |
| `inventory` | 1 material, 2 possible rows, 1 material request, quantities -1 and 1, 2 slots | stock is the ledger, never negative, drawn once |
| `rollup` | 2 children, 2 slots, percentages 0 and 100 | the figure is the average up to `drift`; nobody waits in a circle; every request ends |
| `registers` | 14 registers, 4 rows, 4 slots | one row per key |
| `workflows` | 1 project, 1 item of 18 kinds, 2 slots | settled stays, dates tell the status, what waits counts in the total of the inbox |
| `compliance` | 3 days, window of 1, 2 slots, mails sent or failed | status tells the date, no better by itself, one reminder a day |
| `accounts` | 4 kinds of account, 3 tokens, 2 slots, mails sent or failed | flag and password agree, the last mail to arrive does not hold a replaced password unless the mail of the stored one failed, one token works |

The bounds are enough for what the properties tell apart. Each involves a pair
of requests on one row or a pair of rows, so two slots show every conflict, and
a third one (`invoicing`, `budget`) a request that reads what the conflict left;
`registers` has as many slots as rows, all of which may pass the same SELECT.
`MaxReceived`, `MaxMoved`, `MaxRevision`, `MaxCerts`, `MaxInvoices`, `LastDay`,
`Tokens` and the sets of ids only cut the state space: they let every total be
reached and passed by one more step, a date be in the window, past and beyond,
and a login be renewed twice, within a second or not. `Requests` (and where they
are interchangeable entries, slots, approvers, rows, ids) are symmetric in the
runs that check safety alone, for which this is sound; `rollup` checks liveness
and has no symmetry. Deadlock is checked in `rollup`, where the system always has
something to do; the other runs come to rest in states in which ids or bounds
are used up, or everything is settled or deleted.

**Fairness.** `Rollup` assumes strong fairness of `Proceed(r)`, the next step of
a handler that has begun, the steps waiting for a row included: coroutines are
scheduled again, and PostgreSQL grants a row lock in the order of the queue, so
that a request is not overtaken for ever. It is strong because a waiting step is
enabled and disabled as others take the row. Nobody is bound to send a request
or to fail, and mail servers may keep a request for ever (SMTP has no timeout):
`RequestsEnd` is stated for runs in which they do not. It holds because every
handler writes children before the parent; a recalculation that locked the
children it reads, which looks like the obvious repair of the lost update, would
break it (mutant `WaitsForChildren`, which also breaks `LocksInOrder`, the safety
half: a lock has one holder and no set of requests waits in a circle).

### What contradicts the documentation

Each is in `PROJECT.json` under `findings`, with the line that says otherwise.
Most are the reason of a history variable, which excuses the property near it:

- two payments at once exceed the total (`raced`); `paid_amount` stays within it
  all the same (`BooksBalance`, proved), so that the row does not show it;
- drafts each within the assigned quantity are submitted and exceed it (`piled`);
- two approvals at once leave two budget versions approved
  (`OneApprovedUnlessCrossed` is what remains of "Only one");
- `create_grn` books on items of other orders (`misdirected`);
- submitted work is certified as approved work; `balance_due` of certificate
  invoices accumulates over the contract while `grand_total` does not; a new
  revision keeps old approvals; more stock goes out than came in; `check_overdue`
  has no caller (and compares a date column with a string);
- milestones created or deleted do not change the progress (`drift`);
- users who register can never log in; a refresh within a second of the last
  token makes the same one, after which logging out fails (`Accounts`);
- a temporary password whose mail failed is stored, and the response says it was
  sent; the last mail the user got then holds a replaced one (`unsent`);
- beyond 500 items (100 unless asked) the inbox counts what it lists to nobody
  (`ActiveIsCounted` is about `total`, not about the list);
- `record_transaction` through the router always fails on the type of `created_at` in
  its response and is rolled back. `Inventory` follows the service, where both
  outcomes are possible, so that it covers the program with that line repaired;
- reminders go to administrators only, and count as sent when the mail failed;
  renewing a license does not revive its document (`Compliance`);
- no budget version is ever in the inbox (`PendingBoq`), not even counted.

Invoices that certificates create start with `balance_due` different from
`grand_total - paid_amount`; they are not instances of `Invoicing`, where every
invoice is made by `create_invoice`, but of `Certification`.

## 4. Proofs

Every invariant and action property that a run checks is also a theorem, for
every value of the constants their assumptions admit: any number of requests in
flight, any number of rows, any amounts. So is the type invariant of every
component, and that `Invoicing` implements `Receivable`, `Progress` implements
`WorkLog` and `Certification` implements `Billing`. The one property that is
only model-checked is `RequestsEnd`: liveness is out of the prover's reach. What
it rests on, that no requests wait for each other in a circle, is proved
(`RolLocksInOrder`).

### The argument

No property is inductive as it stands, because a commit writes what some handler
computed long ago from rows that may have changed. Every inductive invariant
(`IInv`, or a prefixed `...Inv`) therefore has the same parts:

- the properties themselves and `TypeOK`;
- `TxnInv`: what is known of a request in flight. First, that it is what one of
  the handlers makes of the row it has loaded (`Effect`, `Handles`), which sums
  up all handlers of the component; second, how the row stored by now can differ
  from the row it has loaded, or what is known as long as a history variable does
  not say that they differ;
- what only one handler relies on and another one keeps (below).

The proof has one lemma for a request that only reads (`WorkIInv`), one for every
handler that shows what it puts in `txn`, and a `CommitIInv` with a case per kind
of request. TLC has found each invariant to hold on the instance of the run
before it was proved; the last column gives the distinct states of that check,
where it was not the run itself.

| Module | Theorems | What the invariant adds, and why | States |
|---|---|---|---|
| `InvoicingProofs` | the five invariants; `ImplementsReceivable` | the stored row is a later version of the loaded one: same total, approval not taken back, what is booked as paid is in the ledger; a commit then writes a sound combination of the two, as `paid` and `balance` change together or not at all | |
| `ProgressProofs` | `OnlyDraftsAreDeleted`, `DecisionsAreFinal`, `ImplementsWorkLog` | `DraftFits`: unless something has raced or piled up there is one draft at most and room for it, which makes `submit_progress`, which checks nothing, a `Claim` within what is assigned | 692,294 |
| `CertificationProofs` | `ImplementsBilling`, `InvoicedWithinContract`, `NothingCertifiedTwice`, `TotalsTrackQuantities`, `OneInvoiceEach`, `PaidCertificateIsSettled`, `ApprovedCertificateStands` | `Backed`, `Named`: certificate and invoice name each other; `Adds`: a certificate comes on top of what was certified before it, so that approving it keeps the sums if nothing has overtaken it; the id of a new invoice is nobody else's; `BillInv`: the net amount of a certificate is at most its quantity at the contract's rate, and what an approval has read was not deleted | 1,539,912 |
| `BudgetProofs` | `OneApproved`, `TotalsAreSums`, `NumbersAreConsecutive`, `ApprovedStaysFrozen` | while a request is `fresh`, the number it takes is the next, what it supersedes is what is approved, the total it writes is the sum of the items with its own | 1,286,052 |
| `ProcurementProofs` | `NoReceiptIsLost`, `OnlyApprovedComesIn`, `StatusIsReceipt` | receipts hold disjoint items (`LocksExclude`), and each item held has what is committed and what the lines of the receipt add to it so far (`GrnInv`) | 1,655,859 |
| `InventoryProofs` | `StockIsLedger`, `StockNeverNegative`, `RequestDrawnOnce`, `ApprovedIsIssued`, `StockItemIsUnique` | a movement writes what it has loaded plus its amount; the status of a material request has not gone back behind what was read of it; an empty issue finds nothing approved | 1,866,334 |
| `ComponentProofs`, `Doc...` | `RejectedIsNotApproved`, `ConsentApproves` | `DocRevisions`: no approval is for a revision still to come, which makes a new revision unapproved although `add_revision` keeps the approvals | 1,303,017 |
| `ComponentProofs`, `Cmp...` | `CmpStatusTellsDate`, `CmpOneReminderADay`, `CmpNoBetterByItself` | the status a request will leave behind tells the date on the day it was worked out, unless it is `stale`; a reminder mailed today is on record in the row or with the request that has sent it | 2,186,781 |
| `ComponentProofs`, Accounts | `GivenPasswordMustChange`, `LastMailOpens`, `OneTokenLives` | a request that is not late has read the flag as it is; who has mailed holds the row, so that its mail is the last one unless it failed; a request issues one token at most, in the place of one it revokes or as the first of its login | 1,331,768 |
| `ComponentProofs`, `Reg...` | `RegOneRow` | a unique index counts rows of any status, where a lookup counts the listed ones; an insert has found none | |
| `ComponentProofs`, `Wfl...` | `WflDatesTellStatus`, `WflActiveIsCounted`, `WflSettledStays` | per kind, which statuses a request can have read and which marks it adds; an active project is not deleted | 438,985 |
| `ComponentProofs`, `Rol...` | `RolFigureIsAverage`, `RolLocksInOrder` | as long as the average a request has taken is `fresh`, it is that of the children once its own is written; `RolLocksExclude`: a row has one holder; whoever holds a row somebody waits for has come further in its handler, so that in a circle the furthest would wait for one further still | 208,877 |

`AggregateTheorems` has the facts about `SumFunctionOnSet`, `Max` and `Min` these
proofs need: a sum over a finite set changes with one entry by the difference, is
monotone, splits along disjoint sets; the largest element is one. Induction over
finite sets takes an operator the provers cannot instantiate; the lemmas look at
a smallest subset they fail for instead (`SmallestSubset`), after showing that
the table of all partial sums exists (`SumTableExists`).

`ComponentProofs` extends `Accounts` and has `Documents`, `Compliance`,
`Registers`, `Workflows` and `Rollup` as instances; the prefix tells which one a
definition is about. An instance brings no assumptions along, so that theorems
about them begin with the assumptions of the component (`DocAssumptions`, ...),
which TLC evaluates on the component's own run.

Every `IInv => property` is immediate but for `OneTokenLives`, `RegOneRow` (from "any
two are equal" to a cardinality) and `WflActiveIsCounted`. Action properties follow
from `IInv` and one more lemma on the step (`StepStands`, `StepDecided`, ...).

### One request at a time

The properties excuse themselves with history variables: `raced`, `crossed`,
`stale`, ... That these stand for overlaps of requests and nothing else is proved
too. Under `OneClient` (there is one slot at most, so that a request ends before
the next begins) the invariant `AloneInv` says that what the request in flight
has read is still what is stored, and that the histories are empty; the property
follows without its excuse:

| Theorem | Holds without exception for a single client |
|---|---|
| `AloneAsPromised` (Budget) | one approved version, totals are sums, numbers 1, 2, 3, ... |
| `AloneCertificatesStand` | one invoice per certificate, paid is settled, approved stays |
| `AloneStockIsLedger` | stock is its ledger, one stock item, a request draws once |
| `AloneDecisionsAreFinal` | a deleted entry is a draft, a decided one never changes |
| `AloneStatusIsReceipt` | the status of an order tells what has come |
| `AloneInvoicesAgree` (Invoicing) | payments, row and status of every invoice agree, nothing voids `Receivable`; amounts of whole paisa, `check_overdue` between requests |
| `AloneSessionsHold` (Accounts) | flag and password agree, one token is live |
| `RegAloneOneRow` | one row per key, with a unique index or without |
| `WflAloneSettledStays` | settled stays settled, what waits in an active project counts in the total of the inbox |
| `DocAloneReviewsDecide` | rejection and complete consent count, until a PATCH sets the status; `add_approver` between requests |
| `CmpAloneReminders` | one reminder a day, unless a request fails behind its mail; only naming a status makes it better |
| `RolAloneRecalculates` | a recalculation that commits leaves the figure the average of the children |

`CheckOverdue` and `AddApprover` are steps without a slot, so that `OneClient`
alone lets them fall between the reads and the commit of the one request. The
theorems of `Invoicing` and `Documents` exclude that by a condition on the steps
(`[][CheckOverdue => Idle]_vars`: it acts when no request is open), which is what
one request at a time means for them. Midnight needs no such condition in
`CmpAloneReminders`: it may fall within a request. What `CmpNoMailLost` excludes there is a rollback
after the mail, with which a single client does remind twice a day. Rounding is not a matter of overlap at all:
`WholeAmountsStay` has `rounded` empty for any number of requests as long as
amounts are whole paisa, and with fractions of one a single client can void an
invoice.

What is left in the statements is what a single client can do by a legal sequence
of calls: a receipt that names items of another order (`misdirected`), a PATCH of
an inspection or a document (`patched`), assignments nobody looks up. Where the
list has no entry a single client is no protection: certificates overtake each
other in the order they are approved in (`overlap`), entries pile up as drafts
(`piled`), an approval may name the item of another material request
(`foreign`), and the figure of a parent drifts from its children by handlers that
do not recalculate (`drift`), until one that does is called.

### The chain from site to payment

Two refinements meet in one figure. `Progress` claims and confirms quantity as
`WorkLog` allows, within what is assigned. `Certification` has that `WorkLog` as
its environment and certifies and invoices as `Billing` allows: each quantity
once, each invoice at most its value (`ImplementsBilling`). What is collected on
these invoices is `PaidIsSettled` in `Certification`; `Receivable` is about the
invoices of `create_invoice` (section 3). `InvoicedWithinContract` sums it up: all invoices
of a contract together never exceed what is assigned at its rate, unless
certificates overtake each other or writes race. It follows from the promise and
not from the handlers: `BilledWithin` is an invariant of `Billing`, carried over by
the step that `ImplementsBilling` shows. That nothing is certified twice is part
of the promise (the run checks it there) and a theorem of its own
(`NothingCertifiedTwice`).

### Assumptions

They are declared where the constant is, and TLC evaluates them in every run.
Amounts, quantities and totals are integers of the sign the schemas enforce
(`TotalsAssumption`, `AmountsAssumption`, `QuantitiesAssumption`,
`MoneyAssumption`, `DeliveriesAssumption`; no sign for stock movements, item
amounts, receipts and percentages, which the code does not check). Rows that are
added up are finitely many (`SlotsAssumption`, `RowsAssumption`,
`ItemsAssumption`, `ChildrenAssumption`), as rows of a table are, and so are
refresh tokens, which are numbered (`TokensAssumption`). Bounds are numbers
(`BoundAssumption`, `CountsAssumption`, `DaysAssumption`). Retention is such that
money needs no rounding (`RetentionAssumption`). A value that stands for "none"
is none of the others (`NoTxnAssumption`, `NoneAssumption`, `NoOneAssumption`,
`KeptAssumption`, `RequestsAssumption`).

### What the proofs changed in the models

- `Settled` in `Workflows` was one `CASE` with overlapping guards (which row is
  asked about, which kind the item is), so that its value was TLC's choice of the
  first. Its value is determined now.
- Sums are `SumFunctionOnSet` everywhere, and finiteness of the rows they are
  taken over is an assumption, where TLC had it from the instance.

## 5. Not modelled

Listed with reasons in `PROJECT.json`.

- Permission checks are taken as given: every caller is allowed, every row is of
  one tenant.
- Dashboard, reports and the figures of the portal only read. Comments are rows
  only their authors read.
- Edits of columns nothing is decided from: `update_certificate` (deductions,
  remarks), `update_site`, `update_vendor`, `update_cost_code`, `update_profile`,
  settings of tenants, `create_payment_cert`, rate analyses.
- Handlers that cannot act: `respond_to_ncr` and `respond_to_punch_item` look for
  a `subcontractor_id` that nothing sets, `create_notification` of the portal has
  no caller, and nothing creates safety violations, observations or toolbox talks.
- Which of the counted items the approvals inbox lists: `items[:limit]` needs as many
  items as the limit to matter, and what it does then is a finding (section 3).
- The parsing of imported sheets, files, logging, rate limits, migrations.
- Sub-paisa amounts are in `Invoicing` alone, several items of a material request
  or quotation nowhere.

## 6. What is left

The models and the proofs about what the runs check are complete up to section 5
and to liveness. What would say more:

1. `InvoicedWithinContract` bounds what is invoiced by what is assigned. Bounding it
   by what `Progress` has confirmed needs the code to certify approved work only:
   `create_certificate` counts submitted entries, which may be rejected later
   (section 3), so the sharper statement is false of this code and is not made.
2. `RequestsEnd` from `RolLocksInOrder` and fairness: the last step, from no
   circle to progress, is liveness and stays with TLC.
