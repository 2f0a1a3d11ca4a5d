# Verification of dafater-backend

`dafater-backend` keeps the books of a trading business: purchase and sale documents, the
money log, loans of goods, warehouse costs, agents and trips, and the settlement of the
profit with a partner. It is a NestJS server over PostgreSQL through Prisma. Nearly every
rule of it spans several rows and several statements, and few handlers put all of their
statements in one transaction. The modules here say what those handlers do statement by
statement, what has to hold of the tables while requests overlap and stop half-way, and
prove the most important of it.

A reader needs one fact about the program throughout: **every `await` on the data base is a
commit of its own, unless it stands inside `$transaction`**, and a `$transaction` runs at
PostgreSQL's default READ COMMITTED level with no explicit lock. So a handler is a sequence
of atomic steps, and what it has read stays in local variables while other requests go on.

## 1. Inventory

| Component (src/src/...) | State | Operations | Interacts with | Hard behaviour | What makes it correct |
|---|---|---|---|---|---|
| `modules/settlement` | Partner, PartnerItem, PartnerPosting, PartnerCapitalMovement, PartnerPayment, price lists, vehicles and forced weeks; Party and Transaction rows that shadow them | choose and price items, post, delete a posting, move capital, pay, edit the partner, `syncLedger`; price lists, selected invoices and the share of a name by capital | reads invoices and deals; writes the money log; opened by overview and statement | the shadow is rebuilt from several readings, written later; postings number themselves; posted amounts freeze while documents are edited | a row of the account has a source; a posting is all or nothing; numbers differ; frozen means frozen; the account ends up exact; no day has two prices; the holder does not price the past |
| `modules/transactions`, `common/transfer-sync`, `common/transaction-cascade` | Transaction rows, their groupId | post the five shapes of entry, update, resolve, remove | every balance is a sum over these rows; audit undoes them | the other leg is repaired three commits after the edit | transfers keep both legs, legs agree, fees follow collections, the rate of a transfer survives edits |
| `modules/audit` | AuditLog | log around every handler, review, revert, undo, restore | writes rows of every module | undo deletes the one row that the log names; the log is written after the answer; a review compares what it read before it writes | undo removes an entry, not half of it; a rejection takes back its own change and nothing newer |
| `modules/loans` | Loan, LoanReturn and the Transaction of a return in money | create, return, remove; the money can be deleted elsewhere | money log, stock | remaining quantity is checked three commits before it is counted; roll-backs write counters that were read | counters stay within what was lent and agree with the returns; money goes with its return |
| `modules/warehouse-expenses` | WarehouseExpenseSchedule, WarehouseExpenseDue | create and remove schedules, `processDue` on every look, pay | money log | no cron: overlapping runs from old readings; `lastApplied` written in any order | every month that has come has its due, exactly one, paid at most once |
| `modules/discounts` | Discount, recurring dates | the same scheme with a date that advances by `setMonth` | money log | month ends, duplicates, failures in the middle | every date posts once |
| `modules/invoices`, `deals`, `returns`, `common/currency-guard` | documents, their ledger rows, numbers, commissions | create with a number, rebuild on update, set the commission, delete, return goods | settlement, stock, money log | a number taken meanwhile is retried; an update deletes the rows it finds and posts those of its version, a commission deletes by type; returns read what remains without a lock | an invoice has all the rows it posts; what is owed is its net; a commission survives updates; cash stays in its currency; never return more than was bought |
| `modules/forex`, `common/agent-rate`, `common/usd-fifo` | rows of the currency agent and their twins in the money log; layers of dollars | post, edit, delete, reprice after any rate changes; FIFO | money log, balances, clearance | pricing after the commit that changes a rate; rounding of layers | twins agree; prices are those of the last rate before; layers neither create nor lose dollars |
| `modules/driver-trips` | DriverTrip, DriverPayment, their Transaction rows | create with first payments, pay, arrive, weigh, edit, remove | money log, audit, manifests | pointers without a foreign key; charges posted in commits before the pointer | a payment and its entry come and go together; the client is charged what the trip says |
| `modules/manifests`, `common/manifest-trip-sync` | VehicleManifest, DriverTrip | each copies document, driver and vehicle to the other | trips, documents | eight handlers set off helpers, each reading and writing in commits of its own | sheet and ride agree |
| `modules/products` | Product, the rows that point at it | create, edit, merge, archive, remove with everything below | all documents | lines of seven tables move in one transaction; a removal takes three | no line, price or list is lost or doubled |
| `modules/parties` | Party | link, unlink, direct sales, archive, remove with paperwork | all documents | a removal in four commits; links are written on both sides | links are pairs; nothing names a party that is gone |
| `modules/charge-types`, `expense-categories` | lists of names | create or revive, rename, archive or delete | charges, money log | asks whether a name is used, then deletes | what uses a name keeps it |
| `modules/treasury`, `balances`, `common/usd-fifo` | none | statements, balances, movements, the value of dollars | read the money log | five screens compute one number in five ways; layers of dollars | they say the same |
| `modules/reports`, `common/vehicle-profit`, `common/activity` | activity and share stamped on a row | trade, shipping, summary, profit and loss, vehicles | read the money log, documents, vehicles, categories | which report an expense belongs to is decided when it is written, by rules of its own in every report | every amount once |
| `modules/finance`, `dashboard`, `assistant` | none | sums over the tables | read the money log | none (reading only) | sums agree with the rows |
| `modules/clearance`, `drivers`, `warehouses`, `orders`, `requests`, `reminders`, `adjustments`, `users`, `auth`, `config` | one table each | create, edit, archive, delete | referenced by the others | none of note, but for `clearance`, whose payments are in `AgentLedger` | referential rules of the schema |

`PROJECT.json` lists each of them with its status, and every place where the code is hard to
test, with the properties that watch over it.

## 2. Modules and how they correspond to the code

| Module | Models |
|---|---|
| `Settlement` | one partner on the fixed basis: `settlement.service.ts`, `settlement-items.repository.ts`, `settlement-ledger.repository.ts` |
| `PostingBook` | what postings promise, without requests or commits (abstract specification of the postings of `Settlement`) |
| `LedgerEntries` | `transactions.service.ts` and `.repository.ts`, `transfer-sync.ts`, `transaction-cascade.ts`, `audit.service.ts` (undo) |
| `Office` | what the modules below share: the requests, `None` |
| `LoanReturns` | `loans.service.ts`, `loans.repository.ts`, the roll-back of `transaction-cascade.ts` |
| `Invoices` | `invoices.repository.ts` (create, update, updateCommission, remove and what they call), `invoices.service.ts` (discount, remove), `returns.repository.ts` and `returns.service.ts`, `currency-guard.ts` |
| `AgentLedger` | `forex.service.ts` and `.repository.ts`, `agent-rate.ts`, `rateAtDate` of `usd-fifo.ts`; the entries they price or are mirrored by in `transactions.repository.ts` (update, remove) and `clearance.service.ts` (pay, updateMovement) |
| `MonthlyDues` | `warehouse-expenses.repository.ts` |
| `Discounts` | `discounts.repository.ts` |
| `Products` | `products.repository.ts`, `products.service.ts` |
| `Labels` | `charge-types` and `expense-categories` |
| `Reviews` | `audit.interceptor.ts`, `audit.service.ts`, `audit.repository.ts` |
| `DriverTrips` | `driver-trips.service.ts`, the payment of a driver in `transaction-cascade.ts`, the edit, removal and undo of its entries |
| `ManifestTrips` | `manifest-trip-sync.ts` and the handlers of `manifests` and `driver-trips` that run it |
| `Deals` | `deals.repository.ts`, `deals.service.ts` |
| `Parties` | `parties.repository.ts`, `parties.service.ts` but for the fields of a party |
| `Statements` | `balances`, the statements of `parties`, `treasury`, `usd-fifo.ts` |
| `CapitalShares` | the price lists of `settlement`, and a name settled by his capital |
| `Reports` | `reports.service.ts`, `vehicle-profit.ts`, `activity.ts`, the average cost in `balances`, `distributeCost` of `transactions.service.ts`, the vehicle of a charge |
| `MCOffice`, `MCUpkeep`, `MCDesk` | instances for TLC of modules that share no row: a behaviour is one of one of them (`part`), the others stay in an initial state. They hold the forms, and the symmetry of the sets of ids |
| `MCSettlement`, `MCSettlementSlices`, `MCLedgerEntries`, `MCMonthlyDues` | instances of one module |
| `SettlementProofs`, `LedgerEntriesProofs` | theorems about the module whose name they carry |
| `OfficeProofs` | theorems about `AgentLedger`, `LoanReturns`, `Invoices` and the types of `MCOffice` |
| `UpkeepProofs` | theorems about `MonthlyDues`, `Discounts`, `Labels`, `Products`, `Reviews` and the types of `MCUpkeep` |
| `RidesDealsProofs` | theorems about `DriverTrips`, `ManifestTrips` and `Deals` |
| `ScreensPricesProofs` | theorems about `Statements`, `Parties`, `CapitalShares` and `Reports` |
| `DeskProofs` | theorems about `MCDesk` as a whole, from those of the two modules before |
| `SumProofs` | lemmas these share: least elements of sets of naturals, sums over finite sets, their parts, multiples and groups, what `Append` does |

All of them are built the same way.

* The tables are functions from ids to columns, or to a row or `None`. An id is used once,
  as in the data base (cuid, autoincrement).
* `pc[r]` says which statement request `r` will run next, `mem[r]` what it has read. An
  action is one commit with everything it writes, `onDelete` rules of the schema included.
* `Refuse` (`LoanRefuse`, `RefuseList`, `RefuseReview`, ...) is a request that ends without writing: a check that throws, or a statement that
  fails on a missing or duplicate row. It stands for the early returns of the handlers, so
  its guard is the exact negation of theirs.
* `CutOff` (`LoanCutOff`, `TripCutOff`, `CutLog`, ...) is a request that stops between two of its commits: the process dies or the
  connection is lost. Nothing of it is retried; the program has no retry of whole requests.
* Amounts are small naturals, dates and names are model values. Formatting, wording,
  attachments, permissions and listing are left out.

**Settlement.** `Begin` is `access()`: the partner row is read once. `AddItems`,
`CheckUnposted`/`WriteRate`, `CheckUnposted`/`WriteRemove`, `PostList`/`PostNumber`/
`PostWrite`, `FindPosting`/`WriteUnpost`, `AddCapitalMovement`, `AddPayment`,
`FindMoney`/`WriteDelete`, `UpdatePartner`/`Reread` are the handlers up to the sync;
`ListItems`, `EnsureUpdate`, `EnsureCreate`/`EnsureLink`, `ReadSource`, `ReadExisting`,
`Apply` are `syncLedger`. `Apply` is one transaction of creates, updates and deletes: a
foreign key, a unique link or an update of a row that is gone undoes all of it.
`EditDocument` is the world outside: another module edits the invoice or deal, which
changes the amount an unposted item would have.

**LedgerEntries.** `Collect`, `CollectWithFee`, `ExpenseOnParty`, `PartyTransfer`,
`TreasuryTransfer`, `UnknownCollect` post (one transaction each). An edit is
`BeginUpdate`, `WriteUpdate`, then the repair of the other leg, `ReadOwn`, `ReadOthers`,
`WriteOthers`. `BeginResolve`, `WriteResolve`, `CreateFee` settle an unknown collection.
`BeginRemove`/`WriteRemove` delete an entry with its group; `BeginUndo`, `WriteUndo`,
`Unlog` undo a creation from the log.

**LoanReturns.** `BeginReturn` (checks), `PayReturn`, `RecordReturn`, `CountReturn` are
`returnLoan`; `BeginRemove` and `BeginDeleteMoney` start the roll-back of each return in
money, `CascadeRead`/`CascadeWrite` (which reads the loan before it writes it), and
`DeleteLoan` ends a removal.

**Invoices.** Here the statements of a handler stand in one `$transaction`, and what
matters is READ COMMITTED: a transaction sees, and deletes, what was committed when each of
its statements runs. So a row of the ledger carries the requests whose delete statement has
taken it (`Take`) and goes when one of them commits (`Left`) or is given back when it rolls
back (`Released`); inserts appear at the commit. `BeginCreateInvoice`, `ReadNumber`,
`InsertInvoice`, `RetryInvoice` are `create` with its attempts; `BeginUpdateInvoice`,
`ClearRows`, `RebuildInvoice` are `update`; `BeginCommission`, `ClearFees`,
`AwardCommission` are `updateCommission`; `BeginRemoveInvoice`, `RemoveInvoice` are
`remove` with its cascades. `BeginReturnGoods`, `InsertReturn`, `RemoveReturn` are the
returns. `RollBack` is a transaction that fails anywhere. `StrikeRow` is the deletion of one
ledger row from the money log, after which the properties about the rows of that invoice
say nothing until its next update (`struck`).

A form (`Versions`) has a total of items, of charges, a discount, what was paid, whether its
cash has another currency than its party (`foreign`; the model has one treasury per party
and currency, so money "in the same treasury" is money with the same `foreign`), whether it
is fake, and to whom the commission of its item is due. Sales and purchases are mirror
images; the model has the sale. A commission is one unit: whether it is there, and for whom,
is what can go wrong. Equal rows that share their fate are kept once, so doubled rows are
not told apart; see below for what overlap does to them.

**AgentLedger.** `AddMoney` is `egpIn` and `settle`, one transaction each. `BeginSupply`,
`ReadPriced`, `WriteAgentTx` are `usdOut`, and `BeginEdit`, `EditRow`, `ReadPriced`,
`WriteAgentTx` are `updateAgentTx`: what a transaction writes appears at its end, what it
reads is what was committed at the statement. `BeginDelete`, `Cascade`, `ReadRates`,
`ReadPriced`, `PriceRow`, `AllPriced` are `deleteAgentTx`, whose repricing comes after its
transaction, one commit a row. `BeginMove`/`PostMove` post a row that is priced (a transfer
between currencies, a collection or payment across them, a payment to a clearance office),
`BeginPayment`/`WritePayment` edit such a payment on the screen of clearance.
`BeginEntryEdit`, `WriteEntry`, `Mirror` are `update` of the money log, which writes the row
of the agent in a commit after its own. An entry has the amount that somebody typed and a
`second` one in the other currency; the direction of the exchange (times or divided by the
rate) is left out. `touched` and `disturbed` say where the code itself gives up agreement,
see the list at the end of section 3; they guard no action.

**MonthlyDues.** `Look`/`CreateSchedule`, `List`, `NextSchedule`, `UpsertDue`,
`MarkApplied`, `Processed` are `processDue` with the readings of its start; `BeginPay`,
`WritePay` are `payDue`. Time is counted in half months, so that a schedule can fall due
before or after the moment somebody looks.

**Discounts.** `CreatePlan`, `LookDiscounts`, then `StepDiscount` (list, next schedule, post,
mark) are the recurring discounts, `CreateDiscount` and `RemoveDiscount` those by hand. Days
are counted through and `MonthLength` says how long the months are, so that `setMonth` can
be what it is in JavaScript: a day that the month does not have runs into the next one, and
the next date is computed from there.

**Products, Labels, Parties.** Masters that others point at. Each has the handlers that look
first and write in later commits: a merge (`BeginMerge`, then one commit for all seven
tables), removals by mode (strict, cascade, archive), the revival of an archived name, the
link of two parties. The rows that point at them are `line`, `use` and `paperOf`, with the
`onDelete` rule of each kind.

**Reviews.** `BeginHandler`, `HandleRequest`, `WriteLog` are the interceptor around a handler:
it reads before, the handler writes, and the entry is written afterwards while nobody waits
(`CutLog` is the process that ends in between). `BeginReview`, `LookSince`, `RevertUpdate`,
`MarkReviewed` are a verdict; `BeginUndo`, then `DeleteCreated` or `RestoreEntity`,
`DeleteEntry` an undo. A record is a few fields and the set of rows that go with it.

**DriverTrips.** Every handler of `driver-trips.service.ts` as a sequence of commits: the
creation with its first payments, `addPayment`, `setArrival` with the charge for delay, the
difference of weight, `update`, `remove`, and the deletion, edit and undo of their entries on
the screens of the money log and of the log of changes. `tripMoney` is the part of the money
log that belongs to trips.

**ManifestTrips.** A request writes its row and leaves in `calls` the helpers it still has
to run, in the order its handler runs them; each call is one reading and one writing. Requests
come one at a time, and may be cut off between two calls. All documents are of the client
of the ride, so the check of the client in `linkDoc` is not in the model.

**Deals.** As `Invoices`: a row of the ledger carries the requests whose delete statement
has taken it. Here `update` reads the commission in the ledger before it deletes the rows,
because the deal has no column for it.

**Statements.** The log of movements is a sequence of rows; everything else is an operator
over it: `BalanceOf`, `Statement`, the statement of a client, `UsdFifo`, `AccountMovements`.
The loops that carry a balance from row to row are `Running`, a recursive function; the loop
over layers and demands is `Gaps`: where a demand comes to a layer, the difference of what is
still missing and of what is left, which goes on to the next layer or waits for the next
demand (`remaining` and `left` of `computeUsdFifo`, one of them 0 afterwards). The rows in order
are places of the log in the order of a key (`InOrder`). The actions post, redate
and delete rows, a commission on a document that is there included; what is checked is that
the screens agree.

**CapitalShares.** `BeginCreateList`, `BeginUpdateList` (the checks of the period and of who
writes), `WriteList`; the selection of invoices, their cartons and forced weeks; the
movements of capital. `Share` is the share of a name in one invoice, by the list that covers
its date, or starts last before it, or is forced on the line.

**Reports.** The state is what the reports read: documents, vehicles, categories, expenses
and shipping charges, written, linked, changed and deleted in any order. The reports are
operators: `TradeReport`, `ShippingSummary`, `Summary`, `ProfitLoss`, `VehicleProfit`.
Amounts are counted in parts of the money unit, `Unit` of them: a number that 100 and every
count of vehicles divides, so that percentages and shares of a freight are exact.

## 3. What is checked

| Run | Instance | What it shows |
|---|---|---|
| `settlement_all` | two slices of one instance. Posting: 2 overlapping requests, 2 items, 2 posting ids, documents that change all the while, to a value that is not known (0) and back. Serial: every handler, one request at a time, a partner without an account at first, items, a movement and a payment, two capitals | items are posted all or nothing (`PostingsNotEmpty`, `BookSpec`), under distinct numbers, never stranded under a deleted posting, and at amounts that stay fixed (`FrozenWhilePosted`); of requests one at a time the account is exactly the settlement after each (`ExactWhenSerial`) |
| `settlement_heals` | 2 overlapping requests over one item, one payment, two posting ids, one request cut off anywhere; fair | no row of the account outlives its source; once changes stop, opening the settlement makes the account exact for good (`EventuallyExact`) |
| `settlement_twoaccounts` | a partner without an account, two first requests | **violated**: each creates an account, rows linked to the one that loses block the other for ever |
| `ledger_concurrent` | 2 overlapping requests, transfers and unknown collections, cut off anywhere | a transfer never loses a leg (`PairsWhole`) |
| `ledger_serial` | one request at a time, every kind of entry, four rows, two dates, two rates | both legs agree, fees and collections go together, credit is cash (`EntriesAgree`), the rate is kept, an entry is resolved once |
| `ledger_undo` | one transfer, undo | **violated**: undoing a creation removes one leg |
| `office_all` | loans: 1 loan, 3 returns; invoices: 2 invoices, 2 returns, 3 versions (one with charges, discount, payment and the commission of an item; one of another party; one fake, with foreign cash); agents: 2 rows of an agent, 3 entries, two dates, rates and amounts; 2 requests that overlap or come one at a time, cuts and roll-backs | loans: counters within what was lent, always; of requests one at a time also the sums of the returns, money with its return, and after a cut never more counted than recorded (`ReturnsCounted`). Invoices: no interleaving leaves an invoice without a row it posts (`InvoicesPosted`); of requests one at a time what is owed is the net and the commission survives updates (`InvoicesBalance`), returns keep within the invoice unless it shrinks (`ReturnsKeepFitting`). Agents: a row of an agent agrees with its twin in the money log (`TwinsAgree`); of requests one at a time no twin is without its row and every priced row has the rate in force at its date and the amount it makes (`AgentRowsKept`) |
| `invoices_itemfees` | as above, invoices only | **violated**: setting the commission of an invoice deletes those of its items |
| `invoices_foreigncash` | 2 versions with foreign cash, one fake and one real | **violated**: a fake invoice with foreign cash, made real, posts it |
| `upkeep_all` | dues: 1 schedule, 2 months, one cut, fair; discounts: 1 schedule, 5 days in 4 months of which the first is longer; products: 2 and 2 lines of any kind; names: 3 rows, 2 names, 1 use; log: 2 records of different kinds, 3 entries; 2 requests that overlap or come one at a time | no month behind `lastApplied` lacks its due (`NoGaps`), paid means paid for (`PaidWithCash`), every month that has come gets its due (`EveryMonthDue`); no discount that is due is skipped, twice in a month, without its entry or, of runs one at a time, back after its deletion (`DiscountsPosted`); what uses a name keeps it (`LabelsKept`); a merge loses and doubles no line of goods, no price, no list (`MergeKeeps`); a rejection takes back its own change, no verdict is given twice, an undo leaves what the log says (`RevertSound`) |
| `dues_doublepay` | 1 schedule, 2 requests | **violated**: one due paid twice |
| `desk_all` | trips: 1 trip, 2 rows of the log; pairs: 2 sheets, 2 rides, 2 documents, 4 requests; deals: 2 deals, 3 forms; parties: 3 and 1 paper; statements: an account in dollars and one in pounds, 4 rows out of 8 postings, 2 dates, opened with a credit or a debt; shares: 2 suppliers, 2 lists, 2 days, 1 sale, 1 movement of capital; reports: 2 documents, 2 vehicles, 1 category, 1 expense or 1 charge; 2 requests, a cut | a payment of a driver and its entry come and go together (`PaymentsBacked`), the books of a trip agree with the money log (`TripBooksAgree`); a sheet and its ride agree (`PairsAgree`); a deal has its rows and keeps its commission (`DealsPosted`); links of parties are pairs and no paper names a party that is gone (`PartiesPaired`); every screen says the same of one account (`ScreensAgree`); no day has two prices (`PriceListsApart`), the holder does not price the past (`HolderKeepsPast`); the reports count every amount once and agree with each other (`TotalsAgree`) |

The five violations are disagreements between the code and what a comment or a check of it
says; `PROJECT.json` quotes both sides under "findings".

### Bounds and why they are enough

* *Parts.* The modules of `MCOffice`, `MCUpkeep` and `MCDesk` share no row, so their
  product says no more than each alone. They share the model values of a `.cfg`: `r1` is a
  request and, in `Reports`, a vehicle; `l1` a deal, and a document there.
* *Slices.* `MCSettlementSlices` takes out of the product of all handlers of the settlement
  those that overlap on postings, with documents worth two together, and those that come
  one at a time, whose documents have a value; the account tells them apart, and an action
  constraint keeps to them. What the slices leave out overlaps in `settlement_heals`.
* *Requests.* Two, where requests overlap. Every race in these handlers is between one that
  has read and one that writes in between; a third request can only repeat the second.
  The theorems hold for any number.
* *Ids.* Pools of rows (`Items`, `Rows`, `Ids`, `InvoiceIds`, `Postings`, `Accounts`, ...) are finite
  because an id is used once; a request that needs an id when the pool is empty ends. The
  pools are large enough for two documents to differ, for a posting to be deleted and a
  second one made, for a transfer beside a resolved collection with its fee (4 rows), and
  for a third return after two.
* *Amounts* `{1, 2}` tell two writes apart. An edit of a treasury transfer meets a rate
  other than one. *Capitals* `{0, 1}` make the opening balance change.
* *Time.* `Horizon = 1` gives two months, four half months: one that is missed, one that
  has come. `Limit` is the 240 of the code, which is never reached in the run; a limit below
  the horizon makes months go without a due.
  The unique number of a posting only matters when an item that was listed is not listed by
  the other request, which takes a document whose value is unknown meanwhile: hence
  `Quantities` with 0. Discounts count the days of four short months: `MonthLength` 2, 1, 1,
  1 has a last day that the following months do not have, which is what the 31st is.
* *Failures.* `MayFail` allows a cut anywhere, any number of times; `MaxCuts` bounds it to
  one, where liveness would be lost to cuts without end or a property counts them.
* *Documents.* Of two invoices and two returns three are made in a behaviour: two returns of
  one invoice, or two invoices and a return.
* *Loans, trips.* One: no action of a loan or a trip reads or writes a row of another.
* *Attempts.* `MaxAttempt = 1` of the four that follow the first: an attempt carries nothing
  to the next but its count.
* *Overlap.* In most modules a variable (`loanOverlap`, `docOverlap`, `tripOverlap`, ...) is fixed in the initial state: half of
  the behaviours have requests that overlap, half have requests that come one at a time.
  The properties that only hold of the latter say so (`LoansCalm`, `CalmDocs`,
  `CalmAgents`, `TripsCalm`, `CalmDeals`, ...). `MaxBegun`, `MaxAgentBegun`, `MaxTripBegun`,
  `MaxDealBegun` and their like bound how many requests may overlap one another in a
  behaviour, two to four; where they come one at a time there is no bound, but for the
  bounds on what is stored (`MaxTripRows`, `MaxLists`, `MaxLogged`, ...), and in `Products`,
  `ManifestTrips` (`MaxPairBegun = 4`). At most one invoice has a struck row at a time.

### Fairness

`FairSpec` assumes of each request that has begun that it goes on (weak fairness of its
steps: Node runs the continuation of an await that has been answered) and that the screen
that refreshes derived data is opened again and again (strong fairness of `Begin(r,
"overview")` and of `Look`). `UpkeepFairness` is the same for `MonthlyDues` where it is the part
that moves. The second is what the code itself relies on: it has no cron,
and says that dues appear, and the account follows, "as soon as it is opened"
(`settlement.service.ts:1280`, `warehouse-expenses.repository.ts:54`). Without it nothing
could be promised. No fairness is assumed of any change, and no handler is assumed to
succeed.

### What does not hold of requests that overlap

These properties were tried under overlap and fail; they are stated for requests one at a
time, or not at all, and are listed here because each is a race of the code that a reader
should know.

* A sync that read the settlement before a change writes the account after it; the account
  stays behind until somebody opens the settlement (`EventuallyExact` says that this
  repairs it).
* `setItemRate` looks at `postingId`, then writes: the rate of an item posted in between
  changes. Its amount does not. `removeItem` deletes an item posted in between; the posting
  may stay empty.
* Two edits of the two legs of a transfer can cross in their repairs and leave the legs
  with different amounts. A `resolve` that is cut off leaves a grouped collection without
  its fee; one that has read an older amount credits it; two of them resolve one collection.
* Two returns of the whole of a loan both pass the check (`loans.service.ts:55`) and together
  return more than was lent; the counters show one of them.
* A return in progress while its loan is removed leaves its money behind; a loan that is
  closed between the check and the deletion is deleted all the same.

* Two updates of one invoice that overlap each delete the rows that were there and each post
  theirs: the rows are doubled. The older of two commissions can come back, and two returns
  of one invoice together exceed it. `updateCommission` posts for a fake invoice as well, and
  keeps the party by name (`commissionTo`), so an update posts to whoever has that name then.

* A priced row keeps an old price when a deletion of a supply is cut off before its
  repricing (`forex.repository.ts:202`), but also, of requests one at a time, when a supply
  is deleted (`transactions.repository.ts:190`) or moved to another date (line 165) on the
  screen of the money log, when the date of the row itself is edited there, and when an
  agent is removed: none of these calls `repriceAgentRows`, which says that a price is
  calculated again when a rate is added, changed or deleted (`agent-rate.ts:24`). Without
  any rate left the rows stay as they are (line 27).
* A removed agent leaves the twins of its rows in the money log.
* An edit of a twin in the money log that overlaps an edit of the row of the agent leaves
  the two apart; two edits that give a treasury to one settlement make two twins.
* Two requests that write price lists both find the period free; only an equal first day is
  refused by a unique key.
* An entry written between the question whether its category is used and the deletion of the
  category loses it; a charge cannot, its key refuses.
* Overlapping or interrupted runs of the discounts can bring back a discount that was
  deleted: the run that had read an older `lastApplied` posts its date again.
* The older of two commissions of a deal can come back where an update overlaps
  `updateCommission`.
* An edit between the look of a review and its write is lost. Two requests for the party of
  direct sales make two.

### What does not hold although a comment says so

Besides the five findings, each of these is a definition of its module that TLC refutes, or
a difference met while modelling.

* *Products.* "Every line that points at a merged product moves" (`products.repository.ts:98`):
  the lines of the settlement (PartnerItem) are deleted by cascade with the product that was
  merged (`EveryLineMoves`), and freight that was posted on it stays without a product. A removal by cascade
  deletes adjustments and loans in commits of their own before it deletes the product, which
  a return or a price list still refuses; loans that went leave the money of their returns.
* *Parties.* Cascade means the records go "along with it" (`delete-mode.ts:5`), but
  invoices, deals and requests go first, and a row of another kind then refuses the party
  (`PartyGoesWhole`).
* *Reviews.* "If the field was changed again, taking it back would wipe the newer change, so
  we stop" (`audit.service.ts:60-61`): the code compares values, so a field that came back to
  the value of the rejected change counts as unchanged (`NewestChangeStands`). Undoing a
  deletion writes fewer rows than went with it (`UndoneWhole`).
* *Reports.* A fake invoice does not touch the reports (`schema.prisma:530`), but its charges
  are income of its vehicle (`FakeOutOfReports`). Freight, tea and commission in cash of a
  sale without a vehicle, and a deal without goods and vehicle, are in neither report; a
  discount beyond the goods is deducted nowhere; profit and loss counts no expense settled
  out of a custody, which trade does; a shared category is shown in full by the vehicle and
  in part by shipping; the deletion of a goods expense leaves it in the cost of the goods;
  freight on a product that is gone or an invoice turned fake is in no report. The properties
  leave these rows out by name (`Stranded`, `unspread`, ...).
* *ManifestTrips.* `manifest-trip-sync.ts:59` says that no existing link is touched, but pairing
  followed by the sync overwrites the document of a trip; the document of a ride that was
  paired by its vehicle does not reach a sheet that has none, which lines 179-181 promise. An edit
  of a sheet that names another driver and no phone (`manifests.dto.ts:44-45`) keeps the phone of the
  one before him; only the copy from the ride clears it (`PhonesEntered` leaves such edits out).
* *Deals.* `updateCommission` deletes the commissions of items too, as it does for invoices.
* *Discounts.* A schedule from the 31st skips short months, then stays on the day it has
  slipped to.
* *Statements.* Where an account in dollars is opened with a debt, its statement in pounds
  differs from the value of the cycle. The client's statement merges the legs of a document
  into its newest line (`parties.service.ts:208-222`) and keeps that line's balance: if a
  receipt lies between two legs, as with a deal that posts its freight after the cash that was taken with
  it, the lines no longer add up one by one (`Interrupted`), although the last balance is
  right; `StatementAdds` asks for it of the other statements. Rows of a settlement by capital are rounded one by
  one in the account and together in the statement.
* *CapitalShares.* The holder can price the past through a supplier that has no list yet.

## 4. What is proved

The theorems hold for every number of requests, ids and amounts: only the assumptions of
each module are used (`SettlementAssumption`, `OfficeAssumption`, `LoanAssumption`,
`InvoiceAssumption`, `DuesAssumption`, `LedgerAssumption`, `AgentAssumption`,
`TripAssumption`, `PartyAssumption`, `ShareAssumption`, `DealAssumption`, `LabelAssumption`,
`ProductAssumption`, `ReviewAssumption`, `DiscountAssumption`, `UpkeepAssumption`,
`SliceAssumption`, `PairAssumption`, `StatementAssumption`, `ReportAssumption`, `DeskAssumption`), which say
that amounts and prices are naturals, that months have days and periods are positive, that
every record has a kind, that a row which is posted is on one side and the rows of a document
are posted together, and that `None` is no value.

Each proof has the same shape: an invariant that says of the tables what the property needs,
and of every request what it knows at its place; a lemma that a request which moves, and
writes nothing that others rely on, leaves what the others know (`PartyMove`, `ShareMove`,
`DealMove`, `QuietMove`, ...); one lemma per action; and a theorem that collects them.

**`SettlementProofs`.** `IInv` strengthens the type invariant with what a request knows
while it is between two commits: a posted item has a posting that exists and a positive
frozen amount; a request about to post holds a list of positive amounts; a request about to
write an item or a source holds a key of the right table; a row of the account has a source
that is alive. The inductive step is one lemma per action. From it
`TypeCorrect`, `NoOrphanRows`, `NoStrandedItems`, `DistinctNumbers` and
`PostedAmountsFixed` (an action property) follow for every instance. `NoEmptyPostings` and
`PostingsImplementBook` (each step of `Settlement` is a step of `PostingBook` or leaves it
alone) are proved where `removeItem` is not among the handlers: with it they are false when
requests overlap, see above.

That the account is exact between requests (`ExactAlone`, and `ExactInSlice` in the terms of the
run) is true of requests one at a time that are not cut off. `SerialInv` says that there is one
account and its rows are in it; that as long as a request has changed nothing the account is
still exact; and how far its sync has come: what it was handed or has read of a source is what
is wanted now, what it has found is what is there, and the account it opened is the partner's
(`KnowsAlone`). From this follows that a lone sync is never refused: every row it wants to create
has its source and no other row (`AppliesAlone`), and a partner without an account finds one to
open (`RefusedAlone`), so that a request that has changed something always gets to its end.

**`OfficeProofs`, loans.** `CountersWithinLoan` alone is not inductive: the counters written
come from an older reading. The invariant adds that what was read was itself within the
loan, that the quantity of a loan never changes, and that the quantity returned was at most
what remained of the reading. Since a write replaces both counters by values from one
reading, it follows for any interleaving (`NeverOvercounted`).

`ReturnsCounted` compares the counters with sums over the returns, of requests one at a time
(`AlwaysCounted`). Between the commit that records a return and the one that counts it the
two differ, so the invariant (`LoanSerial`) says that the row which the request is about to
write fits the sums (`FitAhead`), and that without such a request the loan itself does
(`FitNow`). This needs that what a lone request has read is what is there (`Carries`), that
a return has its loan and, if it came as money, its entry (`ReturnRows`), and that money has
a return or a request that is about to record it (`MoneyKept`). After a cut only `<=` of the
counters remains, and that is what `LoanFits` says.

**`OfficeProofs`, invoices.** `InvoicesPosted` is not inductive: nothing in it says that a commit
deletes only what its own request will replace. `Rightful` does: a row is taken only by
requests that are about to commit a change of its very invoice, and, if this is a commission,
only when it is a commission. `DocKnows` adds that a request has looked up the invoice, version
and return it works on. `TakenStay`, `ReleasedStay` (taking hides no row), `CommitMove` (a
request that ends) and `QuietMove` (a request that only reads) carry the parts common to the
actions; what each action does to the rows is the step that is left (`PostedAlways`). The
commission of an item is not in it, and cannot be: `invoices_itemfees`.

`InvoicesBalance` and `ReturnsKeepFitting` speak of requests one at a time (`AlwaysBalanced`,
`ReturnsAlwaysFit`). An update takes the rows of an invoice in one commit and posts the new
ones in another, so the invariant (`DocSerial`) says for each invoice (`DocRows`) that the
goods, charges and commission in the ledger are those of the version it has, unless its
request is on the way from one to the other, and for each place of a handler what a lone
request knows there (`DocAlone`): all rows that are left of the invoice have been taken
before it rebuilds, the commission before it awards, and the return it is about to insert
still fits. That what is owed is the net is arithmetic of the discount
(`OwedOfVersion`) over sums of at most two rows; that a return adds its quantity, and a
removal takes it away, is `SumAdds`.

**`UpkeepProofs`, dues.** `NoGaps` needs that what a run has still to do, with what has its
due already, covers every month up to the one it will write (`Covered`): months only ever
gain a due while their schedule lives, so an old reading of `lastApplied` makes a run do
too much, never too little (`DuesSkipNothing`). `PaymentsCounted` ties the flag of a due to
its cash-out.

**`UpkeepProofs`, discounts.** The dates of a schedule are a recursive function over months,
and what it computes has to be shown first: dates are days, and a later start of the same
series is a part of it (`OccursBy`). As with the dues, `DoneTo` says that every date up to a
point is done or still on the list of the run (`RunKnows`). That no deleted discount comes
back (`NeverAgain`) holds of runs one at a time that are not cut off: nothing of a schedule
nobody works on lies after its `lastApplied`, and nothing of the one at hand after what is
left of it (`InTurn`).

**`UpkeepProofs`, names.** A charge keeps its type by its key, at all times; an entry keeps its
category only if nobody writes one between the question and the deletion. `LabelKnows` says
that of one request at a time a name about to be deleted is still without use.

**`UpkeepProofs`, products.** `MergeKeeps` is an action property: it speaks of the lines before and
after the one commit of a merge. `LinesKnown` (a line has its product), `LinesFit` and
`KeyedOnce` (a price list or a settlement names a product once) are what a merge needs to
neither lose a line nor make two of one.

**`UpkeepProofs`, reviews.** `RevertSound` speaks of the commits of a verdict and of an undo. What a
request carries is right however others run (`ReviewCarries`); that the log entry is still
pending, the record still at what the entry wrote, and a snapshot the one that was logged
(`ReviewHolds`) is so of one request at a time.

**`ScreensPricesProofs`, parties.** `LinksPaired` is the inductive form of the property: a link ends at a
party that is there, no two links end at one party, and, one request at a time, a party that
is linked to has no link. `LinkWritten` and `DropPartyRows` show it of the two
commits that write links, `PapersGone` that a removal leaves no paper that names the party.

**`ScreensPricesProofs`, price lists.** The checks of a writer (period free, allowed for who writes) read the
lists commits before the write; `ListKnows` says that one request at a time they still hold
then (`ListsAlwaysApart`). That the holder does not price the past (`PastAlwaysKept`) is an
action property from the same invariant. `PriceListsApart` is claimed one request at a time
only: see above.

**`RidesDealsProofs`, deals.** As for invoices: `LegRightful`, `DealKnows`, and `DealFull` for any interleaving;
one request at a time also that a deal has no other rows, and the commission it is to have
(`DealsAlwaysPosted`).

**`RidesDealsProofs`, sheets and rides.** `PairsAgree` speaks of a request that has ended. The invariant
(`PairsMeet`) says in every state of a sheet that has not parted from its only ride that they
agree already or that a call which will make them agree is still left: for the document that a
ride holds it, or `syncRides` of the sheet or `syncDoc` of the ride from the document that the sheet
still has is to come (`DocMet`); for driver and vehicle that they are alike, or a copy in either
direction is to come (`CopyMet`). The calls that are left matter only as a set, and what a helper
adds comes before what waits (`HelperRan`). A step that is not about a sheet leaves it as it was
(`BothStay`): its ride's row is the same, and a document that left a ride elsewhere has parted the two.
No two rides have one document (`OneHolder`) because both writers of it look first.
`PairsAlwaysAgree` assumes `PhonesEntered`: the code takes a driver without his phone, or a phone
without its driver, from whoever edits a sheet, and then leaves what was there. The other
conjuncts of `PairsAgree` do not use it, and the instance that is checked satisfies it.

**`SumProofs`.** Induction over data is out of the provers' reach where it needs an operator as
a parameter; a set of naturals that is not empty has a least element (`LeastOf`) does the
same with the set of counterexamples. With it, a sum over a finite set (`MapThenSumSet` of
the community modules, which picks elements one by one) is shown to be what one expects: the
same for functions that agree on the set (`SumSame`), a natural (`SumType`), 0 on the empty
set, and, with one more element, more by what the function is there (`SumAdds`), whatever
was picked.

**`LedgerEntriesProofs`.** What a request has read of a row may be old when it writes, but
part of it never changes while the row exists: the side and the group of a leg, the rate of
a transfer between treasuries (`Evolves`, an action invariant of every step). `Knows` says
of each request which part of its reading it relies on, and is kept by any step that lets
rows evolve. So an edit scales by the rate the row has always had (`RatesKept`), the repair
writes a debit to a debit, and a deletion that has read one leg of a group has read the
other. `LegsWhole` is proved where creations are not undone; the run `ledger_undo` shows
that it is false otherwise. `RatesKept` needs no such hypothesis.

That the two sides of every entry agree between requests (`AgreeAlone`), and that a collection is
resolved once (`ResolvedAlone`), is proved of requests one at a time (`Spec /\ []OneAtATime`), the
first also where none is cut off: the handlers repair the other side in later commits, so a cut
leaves it as it was. `SerialInv` says of the tables that a collection of a group has its fee
unless the request under way is about to create it (`FeesDue`), and that two legs agree unless
one of them is the leg that request has edited (`Ahead`); and of each place of a handler what a
lone request knows there (`KnowsAlone`): what it has read is what is there, the legs it has found
are all the others of the group, the row it will delete for an undo is no fee, since the log
names only first rows. An entry may be posted while such a request is under way: its
rows have uids and a group never used (`Adds`), so it touches nothing the request has read.
From this also follows that the repair of a leg is never refused (`RefuseAlone`). `ResolvedAlone`
holds with cuts too.

**`OfficeProofs`, agents.** `TwinsAgree` is not inductive: it does not say that nobody else
writes the entry an id was given out for, nor that repricing never meets a twin. The
invariant adds that an id that was given to a request (`Reserved`, `Making`) has no row yet
and is held by no other request (`Apart`); that a twin has the kind of its row, so that no
priced row is a twin (`RowKinds`, `TwinNotPriced`); that no two rows share a twin
(`DistinctTwins`); what a request may rely on of its older reading (`Sound`: the type of a
row never changes, its twin only when a settlement gets one); and what the screen of the
money log is about to mirror (`MirrorsAgree`), where requests come one at a time (`Single`).
`SoundKept` and `ApartKept` show that the reading of the other requests survives any step
that keeps types and kinds, `QuietMove`, `WriteMove` and `WriteAlone` put a step together,
and one lemma per action shows what is left (`TwinsAlways`).

`AgentRowsKept` is proved of requests one at a time (`Lone`). A deletion reprices in commits of
its own, so the rows fit the rates (`AllFit`) only while no request is on its way there
(`Repricing`); from its reading on, each priced row fits or has its quote on the list of the
request (`KnowsAt`, at `price`), and quotes stay good because pricing changes neither date nor
amount (`GoodQuote`). A supply reprices in its own transaction: the rates it has read are those of the
table once its row is written (`RatesWith`). An edit of a priced amount never prices again; that
its second amount still is what the rate makes is the division in `Rescaled`, which is exact
(`RescaledFits`) because no priced amount is zero or negative (`AllPaid`). No row is left
unpriced because some rate is in force at every date once there is one (`InForceThere`, by
`LeastOf`). The twins are in the same invariant (`AllRowed`), also in the middle of a request.

**`RidesDealsProofs`, trips.** The pointer of a payment is a plain number that no foreign key keeps;
what keeps it is that the log only grows, that a row that is deleted takes every payment that
points at it in the same commit (`DeletedStep`), that no row changes its kind (`MoneyStep`),
and that a payment is written in the commit of its entry (`AddedStep`). The invariant needs
of the readings of a request only that the trip and the row it holds are of the right type
and that the trip was made (`LocalsOK`, `Known`): no charge depends on an old reading being
true, so `PaymentsAlwaysBacked` holds however requests overlap.

The books of a trip (`TripBooksAgree`) hold one request at a time only, and not while a request
is between two of its commits: a charge is in the log before the trip points to it. The
invariant (`OneAtTime`) therefore says of every place of every handler that the books agree
with the row that the trip is *to have* there (`Want`): the fee that was computed and the
pointer that was made, the difference of weight that an edit of the log has yet to copy. Where
a request has written nothing by halves (`Settled`) that is the row it has. `Knows` adds what a
request needs of its older readings: that the pointers it read are the trip's, that what was
paid leaves room for what it pays, that the entries of a trip on its way out are all in its list.
Books are split into whose the rows are (`Own`), which holds of soiled trips too, and whether
their amounts agree (`Right`). One lemma per kind of commit says what it does to the books of a
trip, for any payments and any log (`PaidBooks`, `UnpaidBooks`, `DeletedBooks`, `EditedBooks`,
`MadeBooks`, put together in `ChargeBooks`), and one per action that it leads from `At` to `At`.
That the freight paid only falls when payments go needs a sum to be monotone (`AmountsFewer`,
from the lemmas of `SumProofs`).

**`ScreensPricesProofs`, reports.** The state has no request in progress, so the difficulty is
not in the interleaving but in what each report sums. `NothingTwice` and `ReportsAgree` need of
the state what no single row says (`ReportIInv`): that what is spread over the lines of a
purchase is the sum of the rows that spread it (`SpreadCounted`), until one of these is deleted
and the lines keep their part; that a deal is never fake, and a row that names a purchase is a
positive expense or one that spreads (`BillsKnown`, `CostsKnown`), whatever becomes of the
purchase later; that an expense on a vehicle is never of trade alone, since its activity was
decided when it was written and a vehicle is only ever taken from it. The rest is arithmetic of
finite sums, for any sets of rows: a shared expense goes in two parts that make it whole
(`PortionsAdd`), the rows of a report are split by activity and by goods (`ExpensesByActivity`,
`ExpensesByGoods`), a deal with a vehicle and one without are disjoint (`DealFreightAlwaysOnce`);
a charge is income of one vehicle (`ChargeOnce`); and the freight of a document, divided by its
vehicles and added over them, is the freight again (`FreightsOfVehicles`, a sum over groups,
exact by the choice of `Unit`).

**`ScreensPricesProofs`, statements.** What is needed of the log (`StatementIInv`) is that every
row has its columns (`StatementTypeCorrect`), that no row is on both sides, and that the rows
of a document stay together and on one day, but for the commission: a posting appends rows,
a removal keeps those at a set of places in their order (`RowsAtIs`, `KeptInOrder`). All the rest is
about the operators, for any such log.

*Running balances.* Where a sequence is sorted by a key that no two share, `InOrder` is the
sequence one expects (`OrderIs`: the k-th has k - 1 before it); `ByDateIs` says it of the log.
`RunningIs` replaces the recursion by its one step, for all places at once (`RunsExist`,
`RunsOnce`, with the least counterexample from `LeastOf`); then the balance after k rows is what
was opened and the sum of the first k (`RunIs`). A statement is a cut of the rows between two
places (`CutBetween`, `StatementIs`), so it adds up, and over all dates it ends with the sum of the
list (`AddsHold`, `ClosesWithBalance`). The client's lines are the last legs of the
documents (`ClientIs`); the legs of a document that is not interrupted are neighbours in
every statement (`StaysTogether`), so that its line has the sum of an interval (`ClientAdds`).
The lines of a treasury are such a cut too (`TreasuryAgrees`); that the feed of all has
every movement once is a sum over groups (`FeedAgrees`).

*Dollars.* With `cameIn` and `wentOut` the dollars before each layer and each demand, the gap of a
demand and a layer is the difference of the ends of two spans (`GapsAre`), so
a demand takes from a layer exactly the dollars that lie in both spans (`PourAt`,
`DollarsTaken`). Counted dollar by dollar, what a demand took is worth what its dollars were worth
when they came in (`DemandPriced`), what found no layer are the dollars that no layer has
(`DemandUnpriced`), and every dollar came in once (`OneSource`): the queue is first in, first
out (`InOrderHolds`). Summed the other way, by layers, it gives what is left, and that the
statement in pounds ends with its worth (`PoundsAgree`). The lemmas about layers and demands are
stated for any two sequences of naturals, before they are used of an account (`ColumnsAre`).

**`DeskProofs`, the desk.** A behaviour of `MCDesk` is one of each of its seven modules, the one that
moves and those that stay (`DeskParts`); so what is proved of a module holds in the
specification that TLC runs. `DeskTypeCorrect`, `TotalsAlwaysAgree` and `ScreensAlwaysAgree`
follow from it.

Some theorems state invariants that are parts of what a run checks: `DealTypeOK`,
`PartyTypeOK`, `ShareTypeOK`, `PairTypeOK`, `TripTypeOK`, `StatementTypeOK` and `ReportTypeOK` are parts of
`DeskTypeOK`, `AgentTypeOK` of `OfficeTypeOK`; `DeskTypeOK`, `OfficeTypeOK` and `UpkeepTypeOK` are theorems
themselves. `PairsWhole`,
`PostingsNotEmpty` and `BookSpec` are proved under a hypothesis about the handlers, `PairsAgree` under
one about what is entered, given above; the others as the runs check them.

Only model-checked: liveness (`EventuallyExact`, `EveryMonthDue`), which the provers cannot reach.
Every safety property of the passing runs is a theorem.

## 5. Not modelled, and the plan

Single-row editing (drivers, warehouses, orders, requests, reminders, adjustments, users,
the configuration), login, and the screens that only read and are covered by no other
(finance, dashboard, assistant, the portals) are left out: they keep no state between two
statements. Permissions, formatting, attachments, exports and lists are left out everywhere.

Of the components that are modelled in part: of the settlement, the conversion between its
two bases; of clearance, the expenses of customs, the cash clearance of two legs and its
moves; of invoices, the freight and tea of an item, and purchases, the mirror image of sales;
of returns, their number and their two rows; of balances, the stock by warehouse. Amounts in
the statements and the reports are whole numbers or parts of one that leave no remainder: what
rounding to two places does to long sums is not in the models.

What could follow, in this order:

1. The expenses of customs and cash clearance, as a part of `MCOffice`.
2. Conversion of a settlement between its bases, on top of `Settlement` and `CapitalShares`.

A module that shares no row with the others joins `MCOffice`, `MCUpkeep` or `MCDesk` as another
`part`: it EXTENDS `Office`, its names are its own, and the run gains its properties.
