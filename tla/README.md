# Verification of the expense-tracker backend

TLA+ models, TLC runs and TLAPS proofs kept beside the NestJS backend in `src/`. Paths below are
relative to the root of the repository checkout (`src/src/...` is the application code).
`PROJECT.json` lists runs, mutants, the map from definitions to lines, hazards and theorems.

## The system

One NestJS process (or several replicas) over Postgres through Prisma, with an optional Redis.
Every HTTP request, every Telegram update and every cron tick is an asynchronous handler: between two
of its `await`s any other handler may run and commit. Almost no handler holds a transaction from its
validation to its write. What can go wrong is therefore what happens between a read and the write it
justified, and what a handler leaves behind when a later step of it fails.

| Component | State | Operations | Interacts with | Hard behaviour |
|---|---|---|---|---|
| Inventory (`inventory/`) | products, append-only stock ledger, branches, balance per branch | create / update / delete product, movement, adjustment, transfer, create / delete branch | summary cache, profile access | validation outside the transaction, two denormalised counters, cascades |
| Payment comparisons (`payment-comparison/`) | comparison rows PENDING → CONVERTED, 24 h to live | compare, read, discard, convert with an Idempotency-Key, hourly cleanup | expenses, Exchange, lock of the cache | double taps, retries, expiry against claim, liveness of the cleanup |
| Budget periods (`common/utils/caracas-date.ts`, `active-budget-context.util.ts`) | none (pure) | period of a day, anchor, range of the board | everything that lists or creates movements | short months, cutoff on the boundary |
| Preferences and renewal (`me/me.service.ts`) | cycle, reference month, carryover | updatePreferences, rolloverMonth | expenses, incomes, BCV rate | midnight, double submission, a change of cycle against registrations, failure after the re-anchoring |
| Expenses and incomes (`me/`) | movements with amount, payment and anchor | create, pay, edit, delete, history | budget cycle, profiles, BCV rate, e-mail | the anchor is resolved before an await and written after it |
| Cache (`common/cache/`) | Redis keys or the memory of one process | get / set / del, lock, counters | inventory summary, profile list, throttler, cron | stale fills, lost deletions, expiry of a lock that is held |
| Profile collaborators (`profile-collaborators/`) | one invitation per profile and guest | invite, accept, reject, revoke, delete the profile | profile list | writes by id what it read some awaits ago; the lists of several users to delete |
| BCV rate (`bcv/`) | one row per day, three cache keys, one flight per day | rate of a day, latest rate | every amount in bolívares | weekend and outage fallbacks, midnight, two writers of a row |
| Authentication (`auth/`) | users, failed logins, unlock codes, reset links | register, login, Google login, unlock, reset, first password | e-mail, throttler | count and lock are two statements, codes and links used twice |
| OCR (`ocr/`) | monthly quota, worker of Tesseract, model of Ollama | parse an invoice | cache counters, Cloud Vision or Ollama | two engines side by side, either silent; quota checked and consumed apart |
| Telegram (`telegram/`) | link tokens, links, pending action per chat | link, unlink, register, edit, delete, buttons | expenses, incomes, inventory, cache | double taps, old buttons, a link that moves, a clear that fails |
| Exchange client, chat, e-mail, audit, configuration | none the rest depends on | | external services | out of scope, see below |

What makes each modelled component correct:

* **Inventory** – the stored stocks are the sums of the ledger; an oversell is bounded; the two rows
  of a transfer stay paired; cascades never touch ledger rows or live stock when handlers run one
  at a time; SKUs are unique.
* **Comparisons** – one expense at most; a converted row always has it; answers to retries agree; a converted
  row goes only with its expense or with a handler that read it before the conversion; expired rows go away even if
  nobody reads them.
* **Cache** – a stale entry has a named cause, and none lasts.
* **Budget** – periods tile the calendar; what is registered is listed, and stays listed until its period
  closes; a period's surplus is carried over once.
* **Telegram** – an amount is written once, and to an entry its sender may write; a cancelled amount never is; an
  expense goes only after its confirmation.
* **Collaborators** – an invitation follows its lifecycle; a cached profile list tells who has access.
* **BCV rate** – an answer not marked as a fallback is the rate of the day asked; one flight per day; a stored rate
  never goes back to an older one.
* **Authentication** – the limit of wrong passwords ends in the lock; codes and links do not pile up; a link sets one
  password, and nothing else replaces one, unless two handlers that set a password overlap.
* **OCR** – the quota is overrun by the handlers in flight at most; a cloud engine that fails or stays silent costs
  nothing Tesseract read, with two named exceptions; an amount written only in bolívares is not answered in dollars;
  every upload is answered or refused.

## Modules

```
IntegerSums ── Inventory ── InventoryAlone ┬─ MC_Inventory
                                           └─ InventoryProofs
PaymentComparison ┬─ MC_PaymentComparison             (PaymentComparison implements OneExpense)
                  └─ PaymentComparisonProofs
BudgetPeriod ┬─ BudgetCycle ┬─ MC_BudgetCycle ── MC_BudgetScenarios
             │              └─ BudgetProofs           (BudgetProofs extends BudgetWalk too)
             └─ BudgetWalk ── MC_BudgetWalk
CacheAside ── InventoryProofs                         (the summaries of the inventory are its cached reads)
Collaborators ── CollaboratorsProofs
TelegramChat ┬─ MC_TelegramChat          InvoiceText ── InvoiceOcr ┬─ MC_InvoiceOcr
             └─ TelegramChatProofs                                 └─ InvoiceOcrProofs
Account ┬─ MC_Account                    BcvRate ── BcvRateProofs
        └─ AccountProofs
```

A module extends the one at its left. `MC_Inventory` and `MC_BudgetScenarios` run two instances of their module in one:
`alone` and `shared` say which one a behaviour belongs to and never change, and `Scenario` restricts what is started.

* **Inventory.tla.** A handler of the inventory is a pair of actions: `...Check` reads and validates,
  `...Commit` is its Postgres transaction (one step: READ COMMITTED, but every statement of it is relative
  to the row it locks). `request[r]` holds what the handler carries from one to the other. `Abandon` is a
  client error or a crash in between. Cascades (`WithoutItem`, `WithoutBranch`) follow `schema.prisma`.
  **InventoryAlone.tla** adds `alone`, a mode that never changes: one handler at a time. It is what the two properties
  on deletions need, since nothing in the code keeps two handlers apart.
* **PaymentComparison.tla.** `request[r].phase` names the await a handler stands at: conversion is
  read, read again, context, claim-create-link (one transaction), and for a claim lost, read again and load.
  `Cleanup` is the cron job, `Tick` the clock. `sales` and `answers` are history: what was committed and
  what clients were told; `crossed` (handlers about to delete a row converted since they read it) and `late` (rows
  whose claim committed after they had expired) are history too. **OneExpense.tla** is the abstract promise; `Contract` maps rows to its `offered`
  and `open`.
* **CacheAside.tla.** The get – queries – set of a cached read against commit – del of a mutation, over
  Redis (errors lose a set or a del, the entry survives a restart) or over process memory. A value is the
  number of the last commit each query saw, so an entry that mixes two states is stale. One key: keys do not
  interact.
* **BudgetPeriod.tla.** The functions on dates as operators on day numbers, over a calendar given as the
  first day of each month (`FirstDay`): the roll over of `Date.UTC` is addition, and proofs hold for any
  month lengths. **BudgetWalk.tla** walks over the days of the calendar under one setting, and states what holds from
  each day to the next.
* **BudgetCycle.tla.** Users, preferences, expenses and incomes. A registration is `ResolveAnchor` …
  `WriteExpense` / `WriteIncome` with the BCV await in between. A preference handler is `ReadForUpdate` or
  `ReadForRollover`, then `Aggregate` (stale month) or `Reanchor` (cycle changed in an open period), then
  `Save` or `RefuseSave`. `Tick` is midnight in Caracas. History variables: `due` (expenses the board has to
  show), `closes` (periods closed), `crossed` (users with a change of cycle inside another handler). Amounts
  are 1 and the monthly income is constant: what the properties tell apart is what is counted, not how much it
  is. A calendar-mode preference keeps an unused cutoff day; the model has one calendar cycle. `Reference` and
  `Listing` are the anchor and the board as functions of cycle and day; the assumption of `MC_BudgetCycle` has them
  computed once.
* **TelegramChat.tla.** One chat. The webhook answers before it handles an update, so `request[r].phase` names the
  await a handler of it stands at: reading, answering, dispatching for a message; picked, deleting, updating,
  clarifying for a button; closing (about to clear what is pending), then editing, registering or saving. `pending`
  is the key of the cache, which a Redis error may hide, keep or lose. Old keyboards stay pressable; the
  confirmation of a deletion is pressed only where it was shown (`asked`). History: `fate` says what became of each
  amount typed, `raced` which amounts two handlers held at once or a failed clear left behind.

* **Collaborators.tla.** One profile, its guests and the cached list of each user. A handler reads, writes by id the
  row it read (`Found`: gone, it fails), and deletes the lists one by one; `overtaken` marks the handlers and lists whose
  subject another commit changed since they read it. `redis` chooses the cache: with it a deletion may be lost and a
  restart keeps the lists. A guest who accepts while `deleteProfile` runs keeps a stale list (`missed`).
* **BcvRate.tla.** A rate is the day it was published on, so a later one is larger. `getVesPerUsdForCalendarDay` is
  `Ask`, the two keys of the day, then its flight: `LiveAnswers` or `HistoricoAnswers`, `IngestRow`, `Upsert`,
  `CacheRow`, or the fallbacks. Other handlers of that day wait on the flight. `Publish` and `Midnight` are DolarApi and
  the clock; calls fail whenever they like.
* **InvoiceText.tla, InvoiceOcr.tla.** The first is what is read off a transcript and how two readings merge (amount,
  currency, date); a transcript is its quality, the lines that name money with their label and how they write the
  currency (`Notations`: the code reads them differently beside an amount, `Near`, and in the document, `Hint`), and a date.
  `InvoiceOcr` is `parseInvoice`: quota, worker of Tesseract, Vision or Ollama, and the answer. `Alone` and
  `Both` are the answers of InvoiceText as functions of the transcripts there are; the assumption of `MC_InvoiceOcr` has
  them computed once.
* **Account.tla.** One account, await by await. Codes and links are numbers in order of issue; an expired one is gone.
  History: `interrupted` (a restart fell between the count that reached the limit and the lock), `used` (links that have
  set a password) and `overtaken` (handlers about to set a password when another one set it).

Operators whose comment starts with *Mutant* are plausible bugs of the definition that follows them. No
specification uses them; `PROJECT.json` pairs each with a property it breaks.

## Runs

| Run | Question | Bounds | Result |
|---|---|---|---|
| `inventory` | Do the counters stay sums of the ledger under two interleaved handlers; with one at a time, is the ledger immutable and does no stock go with a branch? | 1 product, 2 branches; 2 handlers, quantity 1 and 4 rows, or 1 handler, quantity 2, `targetBranchId` sent and 3 rows | holds |
| `inventory_scopes` | "Stock nunca puede quedar negativo" (`stock-movement.service.ts:33`)? | 1 branch, 3 rows, **one** handler | violated |
| `comparison` | One expense, whatever taps, bodies and retries race; does the protocol implement `OneExpense`, keep converted rows, and clean up? | 2 comparisons, 2 expenses, 1 key with 2 bodies, 2 handlers, fair cleanup | holds |
| `cache` | Is every stale entry explained, and does none last? | 2 handlers, 2 queries, time to live 2, 3 commits | holds |
| `budget_calendar` | Do periods tile a real calendar, and do anchor and board agree? | every day of Jan 2027 – Mar 2028, cutoffs 1..31 and calendar mode | holds |
| `budget` | Does a change of cycle keep the open period on the board; is a surplus carried over once? | 3 days, calendar and cutoff day 2, 1 expense, carryover up to 3; 1 user and 2 handlers, or 2 users, 1 handler and 1 income | holds |
| `budget_surplus` | "El periodo que cierra es el anterior al activo" (`me.service.ts:759`)? | calendar mode, 1 user, 1 handler | violated |
| `telegram` | Is an amount written once, and only where its sender may write; does an expense go only after its confirmation? | 1 telephone whose link moves between 2 accounts, 2 incomes, 1 expense, 1 amount, 2 handlers | holds |
| `collaborators` | Does an invitation follow its lifecycle; do the cached lists tell who has access? | 1 guest, 2 handlers, 2 invitations created | holds |
| `bcv` | Is an exact answer of its day; is there one flight per day; does a stored rate never go back? | Friday, Saturday and Monday, starting on Saturday, 2 handlers | holds |
| `ocr` | Is the quota kept, is a silent cloud engine harmless, are bolívares told from dollars, is every upload answered or refused? | limit 1, 2 months, 2 handlers, 5 transcripts of Tesseract and 2 of the cloud or none, both engines, with and without Redis | holds |
| `account` | Does the limit end in the lock; what may replace a password; how many codes are valid? | 2 handlers, 2 passwords, lock at 3 wrong passwords (4 in the code), 2 attempts per code (5 in the code), 3 codes and 3 links | holds |

Why the bounds are enough. Two handlers are enough for every read–write race the code has: each handler
validates once and writes once, so a third adds only a longer queue. Two bodies under one key are the requests
that `SameRequest` has to tell apart; `OneExpenseHolds` and `AnswersAgreeHolds` are proved for any number of keys,
bodies and handlers. Two branches are the fewest for a transfer. Four ledger rows hold a
transfer, an entry and an exit. The short calendar of `MC_BudgetCycle` (months of three and four days) puts
the turns of the two cycles on the two nights of the run (cutoff day 2 on one, the calendar on the other), which would
take a month of real days; the real lengths are the business of
`budget_calendar`. One amount is enough in `telegram`, since the properties are about each amount by itself; a
second doubles what is typed and adds no way to use the first. Products are in the module and left out of its
instance, which they would make four times as large: their buttons and messages take the steps of the other kinds,
except that an answer to a pending question about one is dropped; the theorems of the chat include them.
`MaxCarryover` cuts the surpluses accepted at 3: one close adds 2 there at most, so that a surplus applied once more
without a close shows; alone, more than one income is carried over only where there is no expense (`Scenario`), which
halves the run: expenses only lower a surplus. `budget` needs a collaborator only
with one handler at a time: his change of cycle acts on the owner's rows at once. One guest is enough in
`collaborators`: rows and lists of two guests never meet, but for the deletion of the profile, and the proofs hold for
any number. The days of `bcv` are a Saturday without a rate between a Friday and a Monday; a third handler of a day
would only wait on the flight of the first. Limit 1 and two handlers are the fewest that overrun the quota of `ocr`, and a second month
the fewest that reset it. Three wrong passwords in `account` leave one between the first and the last. Deadlock is
not checked where ids, ledger rows or days run out.

Fairness. `comparison` assumes `WF(Cleanup)`: the job is a cron entry of every replica
(`comparison-cleanup.job.ts`), and its lock only makes a round skip. `cache` assumes that time passes and
that a handler that started ends: queries answer or fail, and the Redis client stops retrying
(`maxRetriesPerRequest`). `ocr` assumes that a handler that can go
on does: the calls to Redis and to the engines carry timers (`GiveUp` is the timer), Tesseract runs in the process and
its worker starts or fails to (`WorkerSettles`). Nothing is assumed of what the engines answer (`Transcribe`, `Probe`),
of the clients or of restarts. Two waits carry no timer of their own: `callChat` clears its timer when the headers are in
and before it reads the body (`ollama-glm-ocr.service.ts:328`), and `createWorker` downloads its language data;
there `EveryInvoiceAnswered` rests on the time limits of the HTTP client. An upload refused counts as answered. No other
property needs fairness.

### What the violations show

* `inventory_scopes` – an exit without branch is validated against the global stock only, one with a branch
  against the branch only. A global exit followed by a sale of the branch leaves the product negative, with no
  concurrency at all.
* `budget_surplus` – the surplus aggregates `referenceMonth = <day before the active period>`. In calendar mode
  that period is the one of cutoff day 1, so from the 2nd on the date is the 1st of the month that *begins*;
  with a cutoff it is the cutoff date, where nothing is anchored. Only a calendar renewal on the 1st looks at
  the month that closed.

Other behaviour that differs from what the repository says, met while modelling and without a run of its own; each is
a named exception of the property that would fail without it:

* `discard` deletes by id a row it read as PENDING (`payment-comparison.service.ts:128`); a conversion that commits in
  between loses its comparison, and its client's retry gets 404 while the expense exists. A purge that found the row
  expired does the same to a claim that took its date in time and commits late (`:318`). `ConversionKept` names both
  overlaps, and no other way to lose a converted row.
* A commit and its deletion that fall between a reader's queries and its `set` leave the older value for the whole
  time to live (`inventory-cache.util.ts:3` counts on the deletion). `StaleOnlyWhenOvertaken` names that reader.
* With Redis failing, the check of the quota of Vision reads nothing used, and what is counted goes to a memory it does
  not read (`google-vision-quota.service.ts`): `QuotaBounded` counts the checks that Redis answered.
* A short but legible transcript of Tesseract is dropped when the cloud engine was called and stayed silent;
  `TesseractGoesOnAlone` (`google-vision-ocr.service.ts:35`) names that case.
* With Ollama unreachable and its model not known yet, the look-up of the models throws outside the `try`
  (`ollama-glm-ocr.service.ts:64`): the upload is refused and what Tesseract read is lost, although the comment at lines
  55-56 says that the flow goes on with Tesseract alone. `TesseractGoesOnAlone` bounds the refusals to that look-up.
* Bolívares written `VES 2.000,00`, `Bg 123`, `10Bs` or by the rate of the central bank do not outweigh a `$` or `USD`
  elsewhere in the document (`invoice-money.util.ts:143-152`), though a `VES` beside the amount does: the amount answered
  is then that of the other line. `DollarsAreNoBolivars` says when dollars may be answered.
* Two overlapping resets with one link both succeed, the second over the first, against `schema.prisma:126` ("Token de un
  solo uso"); and a `setupPassword` overlapping a reset replaces the password it did not see
  (`auth.service.ts:473`, `:500`). `PasswordReplaced` excepts a handler so overtaken.
* Two codes that unlock may be in the table together (`OneValidPerHandler`), although `verifyAccountUnlock` accepts the
  newest only; "valid" means not expired and not withdrawn. Of two links, either works.
* A worker of Tesseract that failed to start stays in `workerPromise`: uploads are answered, with an error, until the
  process restarts.
* A live rate that arrives after midnight is stored under the day that ended (`crossed`), and the fallback to the last
  known rate prefers the cached latest one to a newer row.

`OpenExpensesListed` holds with exceptions that its comment names; each is listed under hazards with its line:
an expense may leave the board before its period closes when a change of cycle overlaps its registration or
another change, crosses midnight, is refused after re-anchoring, comes with the renewal or as the first
preference, or is made by a collaborator.

## Proofs

TLAPS proves the following for every value of the constants (the assumptions named in the modules; nothing else).

* **Inventory.** `IInv` adds to the types what a validation still guarantees when its handler writes
  (`RequestsSound`), that what was never created has no stock, and the oversell bound with what is still in flight
  counted in: a check adds its quantity to a sum the bound already allows, the commit moves it from flight to
  balance. `LedgerTotalHolds`, `BranchLedgerHolds`, `OversellBoundedHolds` and `TypeCorrect` follow. Sums are a
  recursive function; the lemmas on them, at the head of `InventoryProofs`, are what the induction needs.
  `TransfersPairedHolds` is inductive by itself once the rows have their types: a cascade takes the product of both rows
  of a pair or of none. `SkuUniqueHolds` rests on the unique index, not on the check before it.
  `MovementsImmutableHolds` and `BranchesDeletedEmptyHolds` are about `AloneSpec`, for any number of handlers of which
  one is in flight: `AloneInv` says that what a deletion counted still holds when it writes, which a second handler
  would break.
* **Comparisons.** `IInv`: a CONVERTED row has its own sale behind it, only CONVERTED rows name an expense, and a
  handler about to load one holds the sale of its own request. It gives `OneExpenseHolds`,
  `ConvertedHasExpenseHolds`, `AnswersAgreeHolds`, and `ContractImplemented`: every step maps to a step of
  `OneExpense` or to a stutter. `ConversionKeptHolds` needs `OverlapsInv`: a handler about to delete a row that is
  converted was crossed by the conversion, since it read it PENDING, and one about to purge by a late one, since it read
  it expired; so a look at the status dropped from `purgeIfExpired` or `discard` breaks it.
* **Budget periods.** For any increasing calendar and any positive cutoff day: the period of a day is the one
  between two consecutive cutoff days (`PeriodBetweenCutoffsHolds`), the next day is in it or opens the next one
  (`PeriodsFollowHolds`), and in every cycle what is registered is listed, until the reference month turns
  (`AnchorIsListedHolds`). The days are those whose neighbouring months are in the calendar. On `BudgetWalk` the three
  properties of its run follow (`PeriodsAreBetweenCutoffsHolds`, `PeriodsTileHolds`, `RegisteredIsListedHolds`).
* **Budget cycle.** `IInv` for any calendar, cycles, users, access, handlers and incomes (`CycleInvariant`); the
  `Scenario` that bounds the run plays no part. `OpenExpensesListed` is not inductive: it does not say what a handler
  will do next. `BoardInv` adds that an expense is with one registration, or with the row, or with a save that moved it
  (`ItemsApart`); that a handler not overtaken holds the cycle and the day it read (`HoldsCycle`); and that what a save
  has moved is anchored where its new cycle lists it (`MovedAreAnchored`), so that the board is right again when it
  saves. `SurplusOncePerClose` needs `CarryoverInv`: a carryover is covered by the periods closed, *less one* where the
  period is still to close — a preference whose month is stale, or a handler that has read it so — and the close that
  follows pays for it.
* **Telegram chat.** `IInv`: an amount not yet typed is nowhere; outside a race (`raced`) an amount is carried by one
  handler, or is pending and at most one handler, about to clear, holds it; once written or cancelled it is nowhere.
  `AmountAppliedOnce` alone is not inductive: it says nothing of where an amount still is. Nearly every step moves one
  handler to a row that carries what it carried before (`MoveStep`); what is left are typing, saving, clearing and
  writing. It gives `ChatTypes`, `AmountAppliedOnceHolds` and, with `DeletionsAsked`, `ExpensesDeletedConfirmedHolds`;
  `OwnEntriesOnlyHolds` needs the types only.

* **Collaborators.** `IInv`: what a handler read is true until a commit overtakes it, and the invitations go with the
  profile. Then a list that was filled without being overtaken was right, and only a commit whose handler still has to
  delete it makes it wrong (`ListedAsStoredHolds`). `LifecycleHolds` follows from the same invariant step by step.
* **Cached reads.** `ReadersInv` says that what a reader not overtaken has read is still the version there is; with it
  `StaleOnlyWhenOvertaken` is inductive, for any number of handlers, queries and commits and any time to live
  (`CacheInvariant`, `CacheTypesHold`, `StaleOnlyWhenOvertakenHolds`, in `InventoryProofs`).
* **BCV rate.** `IInv` says what keys, rows and handlers hold: rates of their own day, published ones. It gives
  `ExactIsOfTheDayHolds`, `OneFlightPerDayHolds` and `StoredNeverGoesBackHolds`. The last needs that a handler about to
  upsert, if no other write of the row overtook it, holds a rate no older than the stored one.
* **Account.** `IInv` adds to `LockedAtLimit` what the handlers that set a password hold and that an account that does
  not exist has only registrations in flight. It gives `LockedAtLimitHolds`, for any number of handlers, passwords and
  attempts. `PasswordReplacedHolds` rests on `LinksInv` besides: links that have set a password are gone, and a handler
  about to set one that nobody overtook holds a link nobody has used and the password it read. `OneValidPerHandlerHolds` rests on `TokensInv`: a handler about to add a code has
  withdrawn all there were, so codes and handlers about to add one together never exceed the handlers.
* **OCR.** `IInv` for any transcripts, limit, months and handlers. `AnswersInv`: a leg holds a transcript only when it is
  done, and an answer is made of what the legs hold; `TesseractGoesOnAloneHolds` follows with `RefusalsInv`: a refusal is
  of a leg that failed, and only Ollama's fails of the cloud's. `DollarsAreNoBolivarsHolds` then is about the parsing
  and the merge alone: an amount comes from a line that has it, whose notation is offered with it, and
  the document's hint is asked besides.
  `QuotaInv` counts the calls still to be counted (`Promised`) with those counted, since each of them found a unit left;
  `QuotaBoundedHolds` follows.

Model-checked only: liveness (`ExpiredGoes`, `Settles`, `EveryInvoiceAnswered`), which the provers do not reach. Every
other property of a passing run is a theorem; the runs show that its instances are not empty, and the mutants that the
code matters to it. `SkuUnique` is proved and not run. What no theorem says is that the functions of `BudgetPeriod` and
`InvoiceText` agree with the code beyond the definitions themselves: that is the reading of the mapped lines.

## Not modelled

* Data mapping: the Exchange client and contract, BCV conversion of amounts, pricing, DTO validation. Of the OCR, the
  regular expressions that recognise a line, merchants, items, the confidence score and the warm-up of the model.
* Chat, audit and e-mail: written without awaiting and never read back. Of the e-mail, what matters here is kept:
  codes and links that could not be sent are withdrawn.
* Access checks: who may call a handler is taken as checked; inputs are those the checks let through. Guards and the
  fixed window of the throttler are left out.
* The one-time codes that link Telegram (`telegram-link.service.ts:86`), the lock of the cleanup job, and the fallback of
  the cache to memory when Redis fails at start-up.
* Edits of a movement's title and amount, receipts, members and categories; renaming a branch; deleting a user, which no
  handler does.

## Plan

1. Done – inventory, comparisons with their contract, cached reads, budget periods, budget cycle, Telegram chat;
   collaborators with the profile list, BCV rate, OCR, authentication and lockout.
2. `TelegramLink`: the one-time codes, composed with the links of `TelegramChat`.
3. `CacheLock`: `tryAcquireLock` and the fixed-window counters; replace the abstraction in the cleanup job.
4. Proofs: done but for liveness. With `TelegramLink` and `CacheLock`, their invariants; a refinement that says of the
   lists of `Collaborators` what `CacheAside` says of one key.
