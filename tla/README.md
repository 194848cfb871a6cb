# TLA+ models of mikmongo

The repository holds two programs. *mikmongo* itself is the back office of an internet provider: customers, subscriptions
that exist both as database rows and as PPP secrets on MikroTik routers, monthly
invoices, payments, isolation of customers who do not pay, plus collectors that
stream router data into InfluxDB and Redis. It is a Go service over PostgreSQL,
Redis, RabbitMQ and RouterOS, in which HTTP requests, webhooks and cron jobs run
as goroutines against shared tables. *GSD* ("get shit done", `.opencode/get-shit-done/`)
is the JavaScript planning tool the project is developed with: a command line program,
`gsd-tools`, over Markdown and JSON files in `.planning/`, run by several coding agents at the
same time, each command in a process of its own.

Paths below are relative to `src/`; `lib/` is `.opencode/get-shit-done/bin/lib/`.

## 1. The systems

### mikmongo

| component | state | operations | what makes it correct |
|---|---|---|---|
| Payments (`internal/service/payment_service.go`) | invoices, payments, payment_allocations | Create, Confirm, Reject, Refund, SetGatewayInfo, webhooks, UploadProof | money is spent once; no invoice is overpaid; statuses follow the amounts; the last payment restores the customer |
| Subscriptions (`subscription_service.go`) | subscriptions row, PPP secret, Redis copy | Create, Get, Update, Activate, Isolate, Restore, Suspend, Terminate, Delete | the three places agree; an ended subscription has no access |
| Billing (`billing_service.go`, `internal/scheduler`) | invoices, sequence_counters | ProcessDailyBilling, ForceMonthlyBilling, CheckAndIsolateOverdue, reminders, Cancel | each month billed once; grace period kept; who paid is restored |
| Customers (`customer_service.go`) | customers.is_active | Activate/DeactivateAccount, bulk Suspend/Isolate/Restore/Terminate, CreateWithSubscription | no half-created customer |
| Cash book (`cash_management_service.go`) | cash_entries, petty_cash_funds | CreateEntry, RecordPaymentIncome, Approve, Reject, Delete, TopUpFund | a fund's balance is its top-ups minus its standing expenses |
| Agent invoices, hotspot sales, registrations | one table each | generate, review, pay, cancel; sell; approve, reject | one outcome per row; income recorded once |
| Collector (`pkg/mikrotik/collector`) | supervisors, pools, batch buffers | Start/Stop/Restart, Acquire/Release/Recycle, Write/flush | no lost batch, no use of a closed connection |
| Router client (`pkg/mikrotik/client`) | one async connection per router | Connect, reconnect, Close, GetOrConnect | one live connection, none after Close |
| Queue, sessions, rate limiter, bandwidth profiles | RabbitMQ, Redis, rows and router profiles | consume, refresh, count, CRUD | see the hazards in `PROJECT.json` |
| Notifications, reports, handlers, migrations | none of their own | I/O, SQL, mapping | not modelled |

How they interact. A confirmed payment writes the cash book and calls the customer
service, which restores subscriptions, each of which calls the router. The
isolation job reads invoices and calls the same subscription service. All of
them share PostgreSQL tables; only `PaymentService.Confirm`, `NextNumber` and the petty
cash debit use a transaction, and only the first two a row lock. Everywhere else an
operation reads a row, does something slow (often a router call) and then saves
the *whole* row it read.

What is hard: requests, webhooks and jobs that interleave between such a read and
its save; requests that die (client disconnect cancels the context, cron jobs have
timeouts of 5 or 10 minutes); router calls that fail or succeed without an answer; webhooks delivered twice or late; row locks taken in no fixed order; calendar edges.
`PROJECT.json` lists these hazards at the line where each bites.

### GSD

| component | state | operations | what makes it correct |
|---|---|---|---|
| STATE.md (`lib/state.cjs`) | the file, `STATE.md.lock` | update, patch, advance-plan, begin-phase, add-decision, add/resolve-blocker, record-*, update-progress | one writer at a time; nothing reported as written is lost; frontmatter and body tell the same status; nobody waits for ever |
| Phases (`lib/phase.cjs`, `lib/milestone.cjs`, lookups of `lib/core.cjs`) | headers of ROADMAP.md, directories of `phases/` and of the archives | phase add, insert, remove, complete, milestone complete, find-phase, validate consistency | headers and directories agree; executed work is never deleted or renamed onto; numbers are sequential |
| Manager and reports (`lib/init.cjs`, `lib/roadmap.cjs`, `lib/commands.cjs`) | none: inferred from files, their age and ticked boxes | init manager/progress/milestone-op, roadmap analyze/update-plan-progress, progress, stats | the milestone gets done; reports agree; what is complete stays so |
| Workstreams (`lib/workstream.cjs`) | flat files, workstream directories, the active pointer, archives | create with migration, set, complete, list, status, progress | a move that fails half way is undone; no file is lost |
| Configuration (`lib/config.cjs`, `loadConfig` of `lib/core.cjs`) | config.json | every command migrates it on load; config-set, config-new-project, health repair | concurrent rewrites invent and reset nothing |
| Health, frontmatter, templates, UAT, profiling, git, todos, hooks | files they print or create | checks, parsing, formatting | only the repairs are modelled |

How they interact. There is no server and no database: processes communicate through the files
alone. An agent reads a file, edits its copy and writes it back whole; only `writeStateMd` takes a
lock, and it takes it after the read. `phase complete` writes ROADMAP.md, REQUIREMENTS.md and
STATE.md in turn. The manager starts planners and executors, which it cannot see until they
write a file. `withPlanningLock` of `lib/core.cjs` exists and nothing calls it.

What is hard: two agents between a read and a write of one file; a file read between truncation
and write; processes killed between two file system calls; locks left behind; errors of
`renameSync` that are swallowed; a picture of running work drawn from file times.

## 2. Modules

| module | models | proofs | model checking |
|---|---|---|---|
| `PaymentLedger` | one customer's invoices and payments, statement by statement | `PaymentLedgerProofs` | `MCPaymentLedger` |
| `InvoiceAccounts` | what the ledger promises: settling is one atomic double entry | refinement in `PaymentLedgerProofs` | property `AccountsSpec` |
| `SubscriptionSync` | one subscription: row, router secret, cached copy | `SubscriptionSyncProofs` | `MCSubscriptionSync` |
| `BillingCycle` | a customer's subscriptions through the months | `BillingCycleProofs` | `MCBillingCycle` |
| `StateFile` | STATE.md, its lock file and the agents that rewrite it | `StateFileProofs` | `MCStateFile` |
| `PhaseTree` | phases as headers, directories and archives; one action per file system call | `PhaseTreeProofs` | `MCPhaseTree` |
| `PhaseManager` | the dashboard, the other reports, and the agents they start | `PhaseManagerProofs` | `MCPhaseManager` |
| `Workstreams`, `ConfigFile` | the workstream directories; config.json | through `Planning` | through `Planning` |
| `Planning` | the composition of the two, joined by `validate health --repair` | `PlanningProofs` | `MCPlanning` |
| `NaturalLemmas` | least and greatest elements of sets of numbers, sums over finite sets | used by the proofs of ledger, billing, phases and manager | |

Definitions named `Mut...` stand next to the definition they vary; each is that
definition with one plausible fault, and some property of a passing run must
notice it. They take no part in any specification.

### PaymentLedger

A *worker* is one request or webhook delivery. The tables are `inv`, `pay`, `alloc`
(`alloc[p][i] = 0`: no row) and `cash`; `lock` is the owner of each invoice row's `FOR
UPDATE` lock; the rest are the worker's Go locals. Confirm is a sequence of
steps: the fast check, the re-read in the transaction, the start of
`SELECT ... FOR UPDATE`, one step per row lock, the start of `CalculateAllocations`,
one step per allocation, the commit, the cash entry, one re-read per invoice,
and the restore. Writes of the transaction become visible at the commit
(PostgreSQL, read committed); a blocked row is read as it is when its lock is
granted. Two transactions that wait for each other are resolved by
`DeadlockVictim` (external: PostgreSQL's detector). `Abandon` is a cancelled
context or a dead process: inside the transaction it rolls back.
Reject, Refund and SetGatewayInfo are a read and, later, a Save of the row read, and so is
the payment's own row in Confirm. The history `overwritten` collects the payments on which such a Save
(`SaveRow`) replaced a row that another request had written since; nothing in the code prevents that, and what
the ledger promises of a payment it promises of the others.
A payment's money is a small number. `by` tells a user from a gateway: with a
gateway the cash entry names user 00000000-..., which no migration or seeder
creates, and the foreign key refuses it.

### SubscriptionSync

Every operation is: read, call the router, save, drop the cached copy. `secret` is
what the router has, with its profile; `UpdateSecret` enables because the code sends
`disabled=no` unless told otherwise and no caller tells it. `cache` holds what
`json.Marshal` keeps of a row (no password). A router call can fail with or without effect, a write or a call of Redis can fail, a worker can stop anywhere. Gorm's `Save` writes
every column, and revives a soft-deleted row through its upsert. The subscription
was created by this service, so its RouterOS id is stored and the lookup by name in
`resolvePPPSecretID` is not needed; plan and router are fixed to one router. Three histories name what
concurrency and failures do that the code does not prevent: `overtaken` (workers that hold a row another worker has
since written), `kept` (a cached copy that such a worker stored, or that a worker died or failed before dropping)
and `orphan` (a secret left by a Create that was cut off, lost the router's answer or failed to undo). The properties say that nothing else does.

### BillingCycle

`now` is a month and a day; `night` says whether tonight's billing job is due, running
or over. A job keeps the date it read at its start (`at`). `ProcessDailyBilling` is a
listing of the active subscriptions, a second listing of the isolated ones, and
per subscription: the checks, the number (its own transaction), the insert. The
isolation job reads the overdue invoices once and then visits them one by
one. Payments are one step here and a status change of one subscription is
one step; their insides are in the two other modules. `steady` and `owed` are history
variables for `MonthBilled`. `blind` collects the months a job went on to bill although they had been billed (any
error of the lookup in `GenerateInvoice` counts as "no invoice yet") or while another job was about to bill them;
`again[j]` the subscriptions isolated since request `j` listed those it is to restore. Time is counted in days because the isolation jobs
run at 01:00 and 02:00 and due dates are midnights: `now.After(due)` holds from the
due day on. Subscriptions start active; pending and terminated ones are never billed nor isolated by these
jobs, and their transitions are in SubscriptionSync.

### StateFile

The text is a record: the layout (`bold` fields or the template's plain ones), whether its
sections are there, the frontmatter's status, the body's Status and Plan fields, and the
entries of the Decisions and Blockers lists. `Read` is a command from its `readFileSync` to its
call of `writeStateMd`: guards (`Writes`), edit (`Edit`), frontmatter rebuild
(`syncStateFrontmatter`). Then come the attempts on the lock (`TakeLock`, `SeeLock`, `Steal`,
`LastResort`, `LockError`), the two halves of `writeFileSync` (`Truncate`, `Fill`, `FillFails`) and
`Unlock`. `Crash` kills a process anywhere, `AgeLock` lets ten seconds pass, and
`RemoveStatusLine` is an agent that edits the file by hand. The field patterns ignore case, so in the
plain layout `Status:` finds the frontmatter's key `status:` first (`ReplaceStatus`): the
command reports success and the rebuild throws the change away. `phase complete` alone writes whatever it
read, a torn file too (`wiped`).

### PhaseTree

A phase is an integer and a decimal part, a slug and, on disk, an identity and whether it holds a
SUMMARY. Commands of one user follow each other; executors write at any time and a command
can be killed between two calls (`Kill`). `roadmap` is the sequence of all headers; if `later`, the first `cut` of
them are in the section of the current milestone and the rest in that of a later one, as in
`templates/roadmap.md`. What reads through `extractCurrentMilestone` sees the places in `Current` (the next number of `phase
add`, `roadmap get-phase`, the milestone filter, `validate consistency`, the next phase of `phase complete`); `phase add`
appends at the end of the text, and the removal of a section ends at the next phase header wherever that is (`Severs`). `form` says whether the number was typed as ROADMAP.md
has it or padded, which decides whether the patterns match. `drift` is set by the commands
that may part ROADMAP.md from the disk. `RenumberHeaders` is the effect of the descending loop with
its global replace. The lookups (`PhasesList`, `findPhaseInternal`, `RoadmapGetPhase`,
`InitPhaseOp`) are operators, compared with each other by `DriftExplained`.

### PhaseManager

`project` is one of the given `Projects`: the numbers on each Depends on line (of this milestone or not), which phases have a
bare `PLAN.md`, the level of the phase headings, how many further headings and old directories other milestones have
left. `files[p]` is what a phase's directory holds, `tick` the boxes of ROADMAP.md, `active` the phases
with a file younger than five minutes. `DiskStatus`, `recommendedActions`, `hasDepRelationship` and
`filteredActions` are the computation of `init manager`; `Discuss`, `StartPlanner`,
`StartExecutor` carry out what it recommends and `Resume` what `progress` shows as current. The
agents are external, modelled by the files they write; `update-plan-progress` and
`phase complete` are a read and a later write of ROADMAP.md. The other reports are operators on
the same files, each with its own way to count: `verify phase-completeness` sees only `*-PLAN.md` (`Named`), `workstream
progress` divides by its own count of headings (`Headings`), `init milestone-op` goes by `Directories`.

### Planning: Workstreams and ConfigFile

`Workstreams` moves files one by one: every rename may fail (`MigrateFails`, `ArchiveFails`), the
rollback puts back one at a time and may fail itself (`unrolled`), and the command may be killed
anywhere (`killed`). `ConfigFile` has processes that read config.json, keep a copy and rewrite the file in two halves:
`loadConfig` with its two migrations (two writes, the second from the copy in memory), `ConfigSet`
and `setConfigValue`, `NewProject`, `RepairConfig`. The two share no file except through
`HealthRepair`, which regenerates STATE.md where the active workstream points and repairs the configuration.

## 3. Runs

Passing runs (all invariants and properties hold):

| run | instance | what it shows |
|---|---|---|
| `ledger_two` | 2 invoices of 2, 2 payments of 1 or 3, 2 workers, faults | concurrent confirmations neither overpay nor work on stale rows; `paid_amount` is the sum of the allocations; credits are final; the ledger implements `InvoiceAccounts` |
| `ledger_one` | 1 payment of 1 or 3, invoices of 0 and 2, 2 workers, 2 gateway invoices, faults | a payment gives what it holds and once, its status follows the documented machine, unless a stale Save overwrote it |
| `ledger_live` | 2 workers, no faults, fair | every Confirm transaction ends; whoever settles the last invoice goes on to restore |
| `sync_two` | 2 workers, router, database, Redis and crash faults | an ended subscription has no secret; orphan secrets, stale cached copies and revived subscriptions arise only as `orphan`, `kept` and `overtaken` say |
| `billing_cycle` | 2 subscriptions, months of 1 and 2 days, one job at a time, faults | whoever was in service for a month is billed for it; an isolation job without errors leaves no delinquent in service |
| `billing_two` | 1 subscription, a month of 2 days, 2 jobs that overlap with each other and with the world, faults | a month is billed once unless a job was `blind`; numbers are free; grace is kept; who paid is restored unless isolated `again` |
| `state_race` | 2 agents, 2 commands of any kind, 2 attempts on the lock, crashes, stale locks | one writer unless somebody went past the lock; no lock without a holder; `state json` and `state-snapshot` agree; a known status is forgotten only through a torn read; every command ends |
| `phases` | 2 planned phases, up to 4, with or without a later milestone and a phase in it, 2 names, 3 commands, kills | executed work survives; order is kept; headers, directories and lookups part only through the commands that set `drift` |
| `manager` | 3 projects (one milestone; the template's, whose first phase depends on a shipped one; two phases that depend on each other) of 2 phases of up to 2 plans, 2 agents, 1 death | reports agree in their verdicts and their percentages; the manager always has something to recommend, or a phase is partly executed or waits for one outside the milestone or after it; a complete phase stays so or becomes partly executed; the milestone gets done, or a partly executed phase is left without an executor, or all that is left waits for such a phase |
| `planning` | 2 workstreams, 3 files, 2 processes, 3 commands | no file lost and no project split by a move that failed; the setting in force is genuine |

Runs that show a disagreement between the code and what the repository says of it:

| run | what happens |
|---|---|
| `state_lost` | two agents add a decision at once; both read STATE.md before either has the lock, so a decision reported as added is overwritten |
| `phase_renumber` | removing a phase with two later ones gives both the removed number in ROADMAP.md |

What the models show besides: the exceptions the properties name. Each is something the code does not prevent, so each
property says what goes wrong and that nothing else does.

* mikmongo. Two confirmations of one payment pass the unlocked re-read and the second spends the
  money again on another invoice (`payment_service.go:134`); Reject overwrites a Confirm, and one gateway initiation
  another (`payment_service.go:311`) (`overwritten`). A Restore that read the row
  before Terminate saves it after: the subscription is active again (`subscription_service.go:463`, `overtaken`).
  A fill overtakes an invalidation and the stale copy lives for two minutes (`kept`). A month is billed twice when the nightly job and the manual
  trigger overlap, or by one job alone when its lookup fails (`billing_service.go:101`, `blind`). A customer
  who pays while the isolation job runs is isolated after the restore (`again`). Outside the properties: a webhook-confirmed payment has no
  cash entry, its foreign key fails (`cash_management_service.go:135`); updating a suspended subscription enables its
  secret (`secret.go:176`); an update through the cached copy empties the password (`subscription_handler.go:106`).
* GSD. In a ROADMAP.md with the section of a later milestone, `phase add` takes the number after the current milestone's last
  one and appends the phase to the end of the text, behind the later section (`lib/phase.cjs:339`, `:366`): `validate
  consistency` reports the directory and the next `phase add` gives the number again, whereas `workflows/add-phase.md:2`
  promises "the end of the current milestone". Removing the last phase of the current milestone takes the next one's
  heading with it (`lib/phase.cjs:543`). A phase that depends on a shipped phase, as in `templates/roadmap.md:173`, is never recommended:
  dependencies are looked up in the current milestone only (`lib/init.cjs:921`, `Waiting`). A SUMMARY written between the guard of `phase remove` and
  its deletion is deleted (`raced`). A rename onto an equal name ends renumbering or archiving
  half way and silently. A rollback that fails deletes what it could not put back (`unrolled`,
  `lib/workstream.cjs:59`, `:315`). A migration killed between two renames splits the project for good
  (`killed`). `partial` is in no branch of the recommendations (`lib/init.cjs:956`), so a phase whose
  executor died waits for the user. A phase is `planned` from its first PLAN file on, so an executor may start
  and tick the phase while its planner still writes; the phase is partly executed then, the exception `CompletionKept` allows. `phase complete` ticks whatever is
  on disk. `init milestone-op` counts a phase with one SUMMARY as completed (`lib/init.cjs:721`); `verify
  phase-completeness` calls a phase without plans complete, and one whose only open plan is a bare `PLAN.md` (`lib/verify.cjs:185`);
  `workstream progress` counts the headings of all milestones (`lib/workstream.cjs:405`). After a milestone was archived,
  plan-phase and execute-phase of a reused number find the shipped directory, init phase-op does not.

**Bounds.** Two workers are enough for every race here, since each is between one
read and one write of another request; two invoices are needed for opposite lock
orders and for a payment spread over invoices; amounts 1 and 3 against a total of 2 give part, exact (1+1) and excess payment. `MaxGateway` bounds gateway invoices
per payment, `MaxNumber` the invoice numbers drawn (2: exhaustion cuts off some behaviours, but each pair of
subscription and month is billed in some, and in `billing_two` the month twice). Month lengths 1 and 2 with billing days 1 and 2 make the
clamp bite in the first month only. `billing_cycle` lets payments, staff and midnight
act only between jobs (`Overlap = FALSE`), `billing_two` at any time. Symmetry (workers, payments, jobs, slugs, workstreams, processes) is used only in runs
without liveness.

In GSD a race is between one read and one write as well, so two agents or processes
suffice. `MaxTries` is 10 in the code; 2 reaches the last resort, and `state_lost` keeps 10. `MaxPlans` 2
tells the first plan from the last. Three commands on up to four phases reach a removal after an
insertion after an addition, in either milestone; two names make directories collide and differ. `MaxDeaths` 1: a
second death adds no new status of a phase. `MaxFiles` 4 covers the files of two new workstreams. Three planning
files show each order of success and failure of the moves.

**Deadlock.** Ledger runs may stop: all payments of the instance reach a final
status. `sync_two` may stop with an orphan secret that blocks its own Create.
The GSD runs stop when the bounded number of commands is used up or the milestone is done.
Elsewhere TLC checks for deadlock.

**Fairness** (`ledger_live`). Weak fairness of each worker's statements: the Go
scheduler and the database run what can run. Strong fairness of each row lock:
PostgreSQL queues lock requests, so a lock that is released again and again is
granted. Nothing is assumed of new requests, nor of clients.
`state_race`: weak fairness of each agent's next step, since the operating system runs a process
that has not been killed; the wait for the lock is a busy loop with a bounded number of rounds. `manager`: weak
fairness of carrying out a recommendation (the manager loops over dashboard and action), of each
living agent's work and of time (`Quiet`); none of deaths, research, or the user's `Resume`.

## 4. Proofs

TLAPS checks them for every value of the constants that satisfies the modules' named assumptions.
These ask that bounds are numbers, that tables and calendars are finite (`LedgerAssumption`,
`CycleAssumption`: a calendar has at least one month), and that the models' marks are no texts of the files
(`ContentAssumption`, `MarksAssumption`).

Every invariant and action property of the passing runs is a theorem (those of `Workstreams` and `ConfigFile` of their
composition `Planning`). Two theorems have a further hypothesis: `MonthsAreBilled` and `DelinquentsAreIsolated` assume
`OneJob` and `~Overlap`, as `billing_cycle` does, because both speak of what a job leaves behind when it is through, and staff, payments or
another job may change what it has listed before it gets there. All others hold for any
number of concurrent requests, jobs, agents and processes that fail and die anywhere; where that concurrency
breaks a promise, the property names the exception, mostly through a history variable, and the theorem says that there is no other.

*Ledger.* The inductive invariant is `LedgerInv`: types, `LocalsInOrder`,
`NeverOverpaid`, `StatusMatchesAmounts` and `PlanStaysValid`. `NeverOverpaid` is not
inductive: a commit adds `got`, so one must know that what was computed under the
locks still fits. `PlanStaysValid` says so, because a planned
invoice is locked by its planner and every writer of an invoice (another commit, a cancellation) needs the lock;
`LocalsInOrder` ties `got` and `todo` to the loop. There is one lemma per action.
From it: `TypeCorrect`, `NoInvoiceOverpaid`, `StatusFollowsAmounts`,
`LockedPlanIsFresh`, `CreditsNeverTakenBack` (an action property) and
`LedgerImplementsAccounts`: every step of the ledger is a step of `InvoiceAccounts` or
leaves invoices and allocations alone; only the commit is a `Settle`.

`PaidIsAllocated` compares `paid_amount` with a sum over the allocation rows. The sum is `SumFunction`, a
recursion over the subsets of a finite set that takes a `CHOOSE`n element first; `SumsExist` and
`SumsUnique` show that this recursion defines something, `SumSplit` that any element may come first,
`SumChange` what a change at one place does to the sum. Each argues by the smallest set for which it fails
(`MinimalSubset`; these lemmas are in `NaturalLemmas`). A commit changes one row per invoice, from 0 to what it credits.
`PaymentInv` adds, for any number of requests, that the row a request is about to save has passed its check (`RowIsChecked`),
that in the loop of `CalculateAllocations` what is planned and what is left
make up the payment (`PlanAddsUp`), and that an unconfirmed payment has no allocation row (`NothingGiven`). A Save either
replaces the very row that was checked, and then the step is legal, or the payment is `overwritten` from then on:
`PaymentsAreConserved`, `StatusesMoveLegally`.

*Subscription.* `TerminatedIsCutOff` needs to know that nothing can add a secret
once somebody has seen the end. `SyncInv` adds: before the row exists only its one Create is at work
(`OnlyCreateBefore`), and any copy, cached row or finished removal that shows the
end implies that the router has none (`EndIsSeenForGood`). No other
operation adds a secret, which is why a stale save after Terminate can
revive a row but never give an ended one access. `SyncTypeCorrect` and
`EndedIsCutOff` follow. `FailedCreateLeavesNothing` adds that a secret without a row belongs to a Create at
work or is an `orphan` (`SecretHasCreate`); `CacheStaysFresh` that what a miss is about to store is the row unless it was
overtaken, and that a stale copy is about to be dropped or was `kept` (`FreshOrDropped`);
`TerminatedForGood` that while the row says terminated only requests that were past the router before, and so are
`overtaken`, are still to write (`NoWriteAfterEnd`), as the secret is gone.

*Billing.* `DrawnNumbersAreFree` (`NumberInv` bounds every number by the counter) and `GraceIsRespected` hold for any
number of overlapping jobs, failing and dying anywhere; the second because an overdue invoice a job
has read was past its grace period then and time only goes on. `BillingIsIdempotent`: a job about to bill a month that is not
`blind` has found no invoice of it and is the only one about to make it (`IdempotentInv`). `PaidUpAreRestored`: whoever is still isolated
is on the request's list or has been isolated since (`RestoreInv`). `MonthsAreBilled` needs the calendar: `DaysBefore` (a recursive function) grows by a
month's length (`DaysCounted`), so a due date is after the day it was computed on, and each billing day falls on a day of
every month. `CycleInv` relates the nights gone by to what was billed, and, during a job, what was listed, visited and
still to visit to the tables.

*STATE.md.* `StateInv` is `TypeOK`, `LockHasHolder`, `HoldsLock` and `TextsSound`. `OneWriter` is
not inductive: one must know that the writer's name is in the lock file (`HoldsLock`, as long as nobody went past
it). `ReportsAgree` and `StatusKept` speak of the file, but every text in the file was in some
process's memory before, so `TextsSound` says the same of all the buffers. The lemmas
`NormalizeFacts`, `EditKnown` and `SyncSound` show that no command, whatever it read, makes an unsound text; then
there is a lemma for each group of actions (reading, locking, writing, ending, the surroundings). From it: `StateTypeCorrect`, `LockIsHeld`, `LockExcludes`,
`ReportsAlwaysAgree`, `StatusAlwaysKept`.

*Phases.* `TreeInv` gives each directory an identity of its own (`DiskTyped`), describes the rest of the command under way (`JobTyped`) and
says of executed work where it can be (`WorkKept`). A rename keeps identities, within `phases/` and
into an archive, and `PhaseRemoveDelete` deletes what its guard had seen: `ExecutedWorkIsKept`. The same
invariant gives `OrderIsKept`, since a step renumbers one directory, and by one. `DriftIsExplained` needs `DriftInv`: as long as nothing drifted, headers and directories agree (`Tidy`),
and during a command they differ by what that command has done and not yet written: a new directory (`Announced`), a
directory about to go (`Doomed`), a header about to go (`Removed`); `Orderly` says that the headers are in
order and no two are equal, hence every lookup finds one directory. All of it is said of the headers of the current milestone; the
commands that treat the text and the section differently set `drift` when there is a later one.

*Manager.* `ManagerInv` is `TypeOK` and what is known of each agent: the directory it works on exists,
an executor's list is of plans there are, who reports has written a SUMMARY (`AtWork`); nobody works on a phase shipped before
the tool kept track, and a text of ROADMAP.md read and not yet written back agrees with the file on those phases (`Apart`). `ReportsConsistent` then compares
the counts of files with the sets they count, and the percentages with the sums of these counts: they are rounded, so
that 100% says that at most one plan (or phase) in 200 is open, and with fewer than 200 that none is. `ManagerNotStuck` takes the unfinished phase with the least
number (`LeastNatural`): if it is planned, all the earlier phases it depends on are finished, so it is recommended or
waits for one that is not earlier (`Waiting`).

*Planning.* `FilesAreKept`: `FilesInv` says that during a move a file is where it came from or where it
goes to (`Moving`), so a rollback that succeeded leaves an empty directory to delete.
`OriginalsStayTogether`: `TogetherInv` says that between commands the original files are in one place,
the root, one workstream or the archive, and that during a command its source and its target together are
that place (`OnTheWay`).
`SettingsAreGenuine`: `ConfigInv` says that every text some process is about to write is genuine, not only
the one in the file; migration keeps the granularity in force. All hold for the composition: steps
of one component leave the other's variables alone.

*Model-checked only.* Liveness (`ConfirmEnds`, `LastPaymentRestores`, `CommandEnds`, `EventuallyDone`), since TLAPS
does not treat fairness. The inductive invariants were checked by TLC on the instances of section 3
before they were proved.

## 5. Left out

Within the modelled parts: UploadProof; wording and notices; amounts of invoices (proration, tax, late fees); reminders; allocation order (any order is explored, the comment of Confirm says by due date); `IsolateAllSubscriptions` and its siblings are one step per subscription.

GSD: of the text, everything no command reads back (progress bars, dates, session fields); custom phase
names and letter suffixes; the ROADMAP.md progress table; the `<details>` sections of shipped milestones and a ROADMAP.md in which the current version is not found (then the whole text
is current); a `---` line at its end, before which `phase add` puts its section; REQUIREMENTS.md; two concurrent
`workstream complete`; torn reads of ROADMAP.md; decimal phases as the place of an insertion;
settings other than the migrated one, the sub-repositories and the key that repair adds.

Not modelled. mikmongo: notifications, reports, HTTP mapping, RouterOS sentence
mapping, start-up, migrations, seeders have no state of their own; the cash book, agent invoices, hotspot sales,
registrations, collector, router client, bandwidth profiles, queue, sessions and rate limiter do, and
their hazards are known (check-then-act without a transaction, a channel closed twice, a
connection replaced while in use), but no module covers them yet. GSD: argument parsing, formatting,
templates, UAT and profiling output, git wrappers, todos, scaffolding, string filters and editor hooks: one step of I/O each.

## 6. Plan

Done: the ledger with its abstract specification, the subscription in its three places, the
billing cycle; STATE.md, the phases, the manager, workstreams and configuration of GSD. Proved: every
invariant and action property of the passing runs (section 4).

Next, in this order:

1. An abstract specification for STATE.md under its lock and for the phases (one atomic change
   per command that is not killed), implemented by `StateFile` and `PhaseTree`, with proofs.
2. `CashBook`, `AgentInvoices`, `Registration`: the same read-check-write shape with their income.
3. `Collector` (supervisor, pool, batch writer with an abstract "every item accepted before Stop is
   flushed once") and `RouterClient`.
4. GSD's REQUIREMENTS.md and todos, written from several commands without a lock.
