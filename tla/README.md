# JZ Investment OS in TLA+

A verification development for the Python program under `src/src/investment_os`:
TLA+ modules that model its concurrent and stateful parts, TLC configurations
that check them on small instances, and theorems about them proved with TLAPS.
`PROJECT.json` lists the components, the runs, what each definition translates
(`map`), the mutations each property is known to catch, the hazards, the findings
and the theorems.

Paths below are relative to `src/src/investment_os` unless they start with `src/`.

## 1. The system

A personal investment office that never trades by itself: research becomes
Evidence, a committee of LLM agents discusses it, deterministic code sizes and
vetoes, a human approves, and receipts of paper or manual execution are filed.
All durable state is in PostgreSQL, but for the file of credentials; processes (the API, the worker) keep none of
their own, so the hard behaviour is in transactions that interleave, in locks,
and in what is left when a process dies between two of them.

| component | state | operations | hard behaviour | correct when |
|---|---|---|---|---|
| Reliable job executor (`infrastructure/persistence/jobs.py`) | `task_run` rows, advisory locks | `execute`, `_record_failure` | two transactions per failing call with the lock released between them; crashes; lost commit answers | a key's writes are committed once, attempts are counted and bounded |
| Worker and schedule (`worker/main.py`, `infrastructure/runtime_scheduler.py`, `application/schedule.py`) | none but the rows above | poll, dispatch, restart | replay after failures, overlap of two workers, one job blocking others | order of reports, no look-ahead, one job per period, catching up |
| LLM budget (`application/llm_budget.py`, `infrastructure/llm_budget.py`) | policy, day and task ledgers, reservations, usage | save policy, reserve, reconcile | concurrent reservations, first row of a ledger, midnight, abandoned calls | the cap holds, the ledgers add up, nobody waits for ever |
| Model gateway (`infrastructure/openai_compatible_llm.py`, `application/llm_gateway.py`) | none | complete, test connection | timeout in any step around the budget | a call that is sent has reserved |
| Decision lifecycle (`domain/state_machines.py`, `domain/approval.py`, `application/approval_gate.py`) | a Decision's state, approval records | transitions, as-of reads | records out of order, half-open expiry, revocation | proceeds only under a live human approval, never against a veto |
| Decision journal (`infrastructure/decision_journal.py`, `domain/execution.py`) | decisions, approvals, receipts, append-only | append, read back | checks of one table while another grows | a receipt names an approval of the journal and is dated before its expiry |
| Outbox | `outbox_event` rows | add (publishing has no caller) | same transaction as the writes | see job executor |
| Thesis engine (`infrastructure/thesis_engine.py`) | a pointer and immutable versions | write, read as of | reads without a lock, unique indexes, compare-and-swap, times taken before the transaction | a linear chain, each version made from the one before it, as-of reads that agree with the pointer |
| Portfolio and catalog, CSV import (`infrastructure/catalog_portfolio.py`, `application/portfolio_*.py`) | positions with versions, import claims, instruments | manual write, preview, confirm | portfolio lock, inserts that wait for each other, a preview that goes stale, lost answers | an import applies once, in one step, and to what its user saw; no write is lost |
| Provider settings and secrets (`application/provider_settings.py`, `infrastructure/provider_settings.py`, `infrastructure/secrets.py`) | profiles, role assignments, settings, audit records; the secret file | save, assign, delete, test, fetch, resolve | read, store the credential, write the row in three separate steps; a file replaced as a whole | references hold, no credential is lost, the changes in the audit trail have no gap |
| Evidence ingestion (`infrastructure/evidence_ingestion.py`) | evidence, research artifacts | ingest one or a batch | concurrent duplicates, lost answers | a content is stored once, with its lineage |
| Agent runtime and committee (`application/agent_runtime.py`, `application/committee*.py`, `infrastructure/agent_observability_writer.py`) | runs of a session, committed sessions | freeze, run, repair, two rounds, persist | concurrency, failures of some runs, ingestion meanwhile | opinions rest on the frozen context; every session ends |
| Policy, risk, sizing, decision engine (`domain/*.py`, `application/decision_engine.py`) | none | pure functions | boundaries, pending exposure, blocked proposals | within every limit, nothing blocked buys, the way out is open |
| Instrument, thesis, strategy state machines (`domain/state_machines.py`) | none, the caller has it | transitions | long sequences of legal transitions | no gate can be gone round |
| Onboarding, watchlist, cash | single rows | read, write | none: the last write wins | - |
| Reports, settings, web | none | - | none of their own | - |

**How they interact.** The worker polls and dispatches jobs through the executor;
a job's handler writes its event and outbox rows into the executor's
transaction. Every model call of the agent runtime, and every connection test,
goes through the gateway, which reserves budget before it sends and reconciles
after the answer. A Decision is a pure value whose transitions take the approval
facts derived from the journal's records; a receipt names one of these records.
The committee reads Evidence as of one business time while more is being ingested,
and its runs resolve their model and credential through the provider settings. The
recommendation of the decision engine, the capacity of the portfolio and the sizing
rule lead to the action and size of a Decision.

## 2. Modules

| module | models | its state |
|---|---|---|
| `JobExecution` | `ReliableJobExecutor` and `TaskRunRepository` | `lock` (advisory locks), `taskRun` (committed rows), `effects` (commits of a handler's event and outbox rows), and for each executor `pc`, `call`, `draft` (the flushed, uncommitted row), `outcome` |
| `IdempotentJob` | the promise of ADR-0008, abstractly | `applied`, `tries` |
| `WorkerSchedule` | the poll of `RuntimeScheduleRunner` over a calendar | `closed` sessions, `poll` (jobs a poll has still to dispatch), and the state of `JobExecution`, which it instantiates with a worker as executor and a job as key |
| `LLMBudget` | `LLMBudgetService`, `SqlAlchemyLLMBudgetStore` and their use in the gateway | policy, ledgers and reservations; advisory and row locks; for each call `pc`, `asks`, `loaded`, `used`; the history `saved` |
| `ThesisVersions` | `SqlAlchemyThesisWriter.write` and the reads of `SqlAlchemyThesisReader`, for one instrument | the Thesis row (`thesis`), the committed `versions`, the clock; for each writer `pc`, `asks`, `seen`, `draft`, `reply` |
| `VersionChain` | the promise of PR-04, abstractly: an append-only history | `length`, `entries` |
| `DecisionLifecycle` | `transition_decision`, approval history, journal appends | business time, the Decision's action, gate and state, approval records and receipts; the history `passedGate` |
| `GovernanceGates` | the instrument, thesis and strategy machines | none: relations between states, given facts |
| `InvestmentRules` | CIO gates, bucket actions, capacity, sizing | none: functions |
| `DecisionGovernance` | the two above composed with `DecisionLifecycle` | that of `DecisionLifecycle` |
| `PortfolioBook` | positions by hand and by CSV import, their transactions and locks, the catalog | committed positions (`book`), claims (`imports`), `catalog`; for each caller `pc`, `call`, `seen`, and its transaction: `toLock`, `todo`, `staged`, `held`, `shared` |
| `AtomicImport` | what an import promises its user, abstractly | `holdings`, `applied` |
| `ProviderSettings` | `ProviderSettingsService`, its store and the secret file | committed `rows`, the `trail` of each row's audit records, the file (`stored`); for each request `pc`, `request`, `file` as read, `found` |
| `EvidenceStore` | `SqlAlchemyEvidenceIngestor.ingest` | `evidence`, `lineage`; for each fetch its `place` and `next` artifact; the answers `told` |
| `CommitteeSession` | `CommitteeRuntime.run_session`, `AgentRuntime.run`, `persist`, over `EvidenceStore` | the session's `phase`, `context`, `plan`, `rounds`; the `run` of each role; the committed `sessions` |
| `MC...` | small instances of each, for TLC | - |
| `..._proofs` | the theorems about each | - |

**Atomicity.** An action is what happens between two points at which another
transaction can be observed: taking a lock, loading a locked row, committing. The
statements between are one step, since PostgreSQL shows no uncommitted row. In
`JobExecution`, reading the row and flushing the new one (`StartRun`) are one
step under the lock, the commit (`RunCommits`) is another, and a rollback
releases the lock before the failure is recorded (`HandlerRaises`, then
`RecordStarts` or `RecordBusy`). In `LLMBudget` a transaction works with the row
it *loaded* and writes back values computed from it, as the ORM does; that the
loaded row is still current is a property and not a modelling decision.

**Mutated forms.** Definitions introduced as "mutated form of ..." are not part of
any specification. Each is a plausible bug in the definition that follows it, and
`PROJECT.json` names the property that catches it.

### JobExecution

`LockAcquired`/`LockBusy` are the non-waiting `pg_try_advisory_xact_lock`;
`RejectConflict`, `ReuseSuccess`, `ExhaustRetries` and `StartRun` are the four ways
on from the row that was read, in the code's order; `RunCommits` is the normal
end. `HandlerRaises` is not a fault: handlers may fail in every run. The faults a
run allows are chosen by the constant `Faults`: an `ApplicationError` of the
handler (re-raised, not recorded), a database error before the handler starts, a
commit whose answer is lost, a failing failure record, and the death of the
process (or the cancellation of the coroutine) at any point.

### WorkerSchedule

A calendar is a sequence of sessions, each with its week and month; the time of
day is abstracted to `closed`, the number of sessions that have closed. A poll
takes the last `MaxReplay` of them, and dispatches their jobs in the order
daily, weekly, monthly, quarterly. A result takes the poll to its next job, an
exception ends it, and with it the process, which the container restarts
(`restart: unless-stopped`). `ScheduledJob.idempotency_key` is the job name and
the session's close, so a job stands for its key, and its input hash is a
function of it. Dry runs return before the executor and are left out.

### LLMBudget

`reserve` is `LockDay`, `LockDaily`, then `SelectTask` or `MissTask` and `InsertTask`,
then `Reserve` or `RefuseOverBudget`; `reconcile` is `SettleDaily`, `SettleTask`,
`Reconcile`. The lock of the reservation row is left out, since only the call that
made it ever takes it. An amount has two dimensions, tokens and cost, compared and added
independently. `Abandon` is every way a call ends early: an exception, the
timeout of `BoundedLLMGateway`, a crash. Two inserts of one task row meet at its
primary key (`InsertTaskConflicts`): transactions of one day are serialised by
the advisory lock, so this is possible only for calls of one task on two days.

### DecisionLifecycle

The Decision's row is immutable and `transition_decision` is a pure function; the
model is the sequence of transitions a caller makes with the facts that
`approval_transition_context` derives from the journal at the time `now`. Facts
that the caller supplies (schema valid, data sufficient, price drift, input
drift, an execution recorded, review due) may have any value. Business time is a number.
`AppendExecution` is a receipt with the caller's own copy of its approval: the copy must be
valid at the receipt's time, and the journal holds a record with its actor, action
and expiry, but the time of the copy (`copiedAt`) is not compared. A record carries
the time its author gives it, in the past or present, so records may be appended
in another order than their times; records of one instant are ordered by id, as
the reader does.

### ThesisVersions

`Write` is the call and its time stamp, taken before the transaction; then
`MissThesis` and `CreateThesis`, or `RefuseStale`, `ReturnUnchanged` or `StartVersion`
after reading the Thesis and its current version; `InsertVersion`,
`AdvancePointer`, `Commit`. A writer that would insert a value another open
transaction has inserted into a unique index waits for the end of that one
(`Creating`, `Inserting`), as for a row it has updated (`Advancing`); then it goes on
or fails (`CreateConflicts`, `InsertConflicts`). `Fail` is every other way a write
ends without a commit: Evidence that is not available, a lost compare-and-swap, a
database error, a crash. In the repository only the thesis monitor writes; that
writers overlap is what the engine's unique indexes, row version and expected
hash are there for.

A content is what the Thesis says (`body`), the change reason, which is in the
hash and not in the comparison, and whether its claims list their Evidence in the
order in which the payload stores it (`sorted`), which is in the comparison and
not in the hash. Theses of different instruments share no row, so one instrument
is enough. Evaluating invalidation conditions is a pure function and not modelled.

### GovernanceGates, InvestmentRules, DecisionGovernance

Each machine is a relation between two states and a set of true facts; a guard of the
code is a fact that must be in the set. What counts is what a caller can *reach* when
some fact never comes true, so `HoldingsReached` and `ProposalsReached` are the
`Reachable` states of two relations, `HoldingMoves`, in which an instrument and its thesis
move in any order, and `ProposalMoves`. `InvestmentRules` measures
weights in shares; a request whose quantity is not what its weight comes to is refused
(`Reconciles`), so that for the ones that are sized weight and quantity are one number, held
in two fields. The scale of a target is kept as fractions, and every rounding is the code's.
`DecisionGovernance` evaluates the properties of these pure parts once for each
action and gate that `DecisionLifecycle` starts a Decision with (`Fresh`), over all
inputs in the bounds `Amounts` and `Lots`.

### PortfolioBook

`Preview` reads the positions; `Confirm` reads them again, refuses, or fixes what will
be written (`Written`, `Merged`: UPDATE adds to what the confirmation read);
`FindImportAudit` looks for the claim. `LockBatch` begins the batch: the portfolio's row,
the claim again, the snapshot. With a snapshot, the rows of the positions and of
their instruments are locked (`LockRow`), in an order the query does not fix;
`WriteRow` is one row, valid ones before conflicts; `CommitBatch` publishes all.
Recording by hand is `UpsertInstrument`, a transaction of its own, then
`LockPortfolio` and `CommitPosition`. An instrument that a transaction has inserted
makes other inserts of it wait. One that exists has its blank fields filled, an update whose
row lock stays until the commit (`Filled`): it keeps out other updates and
`FOR UPDATE`, and not references. A request carries the instruments it would fill (`fills`, any member
of `Fills`), and the contents of these fields are not modelled. A new position holds a
shared lock on the instrument it refers to; `WaitsFor` is who a transaction waits for, and `EndCircle` the
database ending one that waits for itself. That a circle is ended by the database,
and how rows are locked, is PostgreSQL's behaviour and marked external. `Abandon` is a
lost connection, a crash, or a user who does not confirm. Core and Tactical
buckets and their costs are one quantity.

### ProviderSettings

A save reads its profile and decides the reference (`SaveProfile`, `RefsFor`), stores
the credential (`ReadFile`, `WriteFile`), locks the row (`LockRow`) and writes it with its
audit record (`RecordChange`). What the database refuses is a guard of the
commit: a row created meanwhile, a name that is taken, a model that is still assigned,
an assigned model that is gone. `ModelForRole` and `ReadAssigned` resolve a
role, `FetchCredential` ends a test, a research fetch or a call. Tests and fetches append their
audit records (`TEST`, `SYNC`) to the same trail, without a look at the row and with nothing
as what was before (`RecordCheck`). A deletion's record says `DELETED`, the next creation starts
from nothing. A row that does not exist cannot be
locked, so two requests may both find it absent; its primary key decides. The process
that serves the API is one, as `src/Dockerfile` starts it (one `uvicorn`): the asyncio lock of the
secret file needs no more. `Names` stands for every other field of a row.

### EvidenceStore and CommitteeSession

`Look`, `Insert` and `CommitIngest` are one artifact in its transaction; an insert
waits for that of another transaction and is refused when it commits (`Waits`,
`Refuses`). A batch goes on to its next artifact and stops at the first error. Two
artifacts may have one content and differ in tier, which the hash leaves out.
`Freeze` takes what is available at a business time; each role of the round then
calls its model (`Answer`, up to two repairs), is given up (`GatewayFails`) or raises
(`Raises`, which fails the session and lets its siblings go on). What a model says is
data, any member of `Outputs` at any attempt. `PlanRoundTwo` calls the roles in
conflict and the Devil's Advocate; `Persist` checks all opinions against the context
again and writes every record of the session in one step.

## 3. Runs

| run | instance | shows |
|---|---|---|
| `JobThreeWorkers` | 3 executors, 1 key, 3 attempts (the code's limit), all faults | the safety of execution under every fault at once: a second commit of the writes does occur, a third does not |
| `JobOneWorker` | 1 executor, 2 keys, 2 inputs, 2 attempts; `ApplicationError`, lost records, crashes | the executor implements `IdempotentJob`; exactly-once for one worker |
| `JobConcurrentEffects` | 2 executors, 1 key, no fault | finding |
| `ScheduleTwoWorkers` | 2 workers, 2 sessions of a week that reaches into the next month (six jobs), window of 2, 1 attempt, lost answers and crashes | no look-ahead, the order of a session's jobs, oldest first |
| `ScheduleCatchesUp` | 2 sessions of one week, handlers failing twice of three times | liveness: the window is caught up |
| `BudgetCalls` | 2 calls, 2 tasks, 2 days, 2 policies, changed at any time | the cap, no lost update, ledgers that balance, the race for a task's first row over midnight; liveness: no deadlock and no endless wait |
| `DecisionApproved` | 3 approval records, 1 receipt, times 0..2, `BUY`, `REDUCE` and `EXIT`; weights 0, 1, 3 of 4, lots of 1 and 2, fractions of 0, 1 and 3 of 4 to reduce by, all facts of the machines | the approval gate; the rules that lead to it: limits, blocked proposals, indispensable gates, reductions without permission |
| `ThesisWriters` | 2 writers, 2 bodies, 1 reason, 2 versions, 2 instants, failures and lost answers at any point | the chain is linear and implements `VersionChain`, a write commits on what it read; liveness: writers that wait for each other end |
| `PortfolioImports` | 2 callers, 1 portfolio, 2 instruments, 3 sheets (one with a duplicate, one invalid), every policy, blank fields of one instrument filled or not, 3 calls; lost connections | imports implement `AtomicImport`, no write of a position is lost, nothing is overwritten unseen |
| `PortfolioCircles` | 2 callers, 2 portfolios, 2 instruments in opposite orders, new or with blank fields to fill, 3 calls | liveness: calls end although their transactions wait in circles |
| `ProviderSettings` | 2 requests, 2 models, 1 data profile, 2 roles, 2 names, 2 references, changes asked for until 2 are made, tests and fetches until 1 is recorded, resolutions at any time; failures at any point | references, credentials and audit trail hold |
| `ResearchCommittee` | 2 fetches, 3 artifacts with 2 contents, 2 specialists and the Devil's Advocate, 3 answers, 2 times | evidence once, opinions on their context, the protocol of the rounds; liveness: sessions and runs end |

**Bounds and why they are enough.** Two executors are the least that interfere, and
three the least where two are late at once.
`MaxAttempts = 3` is the worker's limit and the least at which writes are committed, reopened and
committed again within it; the two attempts of `JobOneWorker` are a first and a last one, and are exhausted. `ErrorBound` stops
database errors, which count attempts without looking at the limit, from making the state space infinite; the theorems hold for every value
of it. In `ScheduleTwoWorkers` a single attempt
already fails, is exhausted and ends polls; retries are in `ScheduleCatchesUp`. Two
calls have all pairs of steps that meet at a lock; each of their two worst cases
exceeds a limit in another dimension when reserved beside the other, and fits it
exactly after a settlement. Three approval records hold an approval, its
revocation and a renewed approval, in every order of arrival and with equal times;
times 0..2 have an instant before, at and after an expiry. `FailureBound` names the
last attempt in which a handler raises, without which nothing could be promised to
complete. Two versions are a Thesis that is created and one that is followed, each
contested by two writers: a third is written from a state like the second, and
`ThesisVersions_proofs` has no bound. Two instants (`MaxTime = 1`) let a stamp be
older than one taken later. `MaxVersions` stops new calls, never one that is under
way. In `PortfolioImports` three calls are an import, its repetition and a write by
hand, in every interleaving of two callers; two instruments let a sheet hold one
instrument that is there and one that is new, and its orders form a circle. Two requests in
`ProviderSettings` are the least that overlap; `MaxChanges` stops new changes, never one
that is under way nor a use, so three changes may be made: a profile that is
created and then changed and deleted, in either order, by requests that overlap; `MaxChecks` does the same
for tests and fetches, so two may be recorded, at any place among the changes. The committee's
two specialists are the least that disagree; the three answers are one that is no opinion, one
that stands on the PRIMARY tier alone and one that needs a second source, and the
first content stored with either tier decides which of them pass. The weights 0, 1 and 3
of 4 put every limit below, at and above what is held and pending; two lots
make roundings that differ. Runs with `SYMMETRY` check no liveness property.

**Deadlock** is checked in every run but four. In `PortfolioImports` and `PortfolioCircles`
the bound `MaxCalls` ends the requests, in `ProviderSettings` `MaxChanges` and `MaxChecks` the changes and checks, and in
`ResearchCommittee` nobody has to ingest anything more once the session has ended, so
these models may stop where the system would go on or rest; waiting for one another
is covered by `EveryCallEnds` and `SessionEnds`. Elsewhere calls that have all ended
stutter explicitly (`AllEnded` in `LLMBudget`, `Finished` in `ThesisVersions`), an executor
can always be invoked again, and a Decision's journal and time end with the owner's
next assessment, which is always possible.

**Fairness.** `WorkerSchedule` assumes weak fairness of four things: sessions close
as time passes; a coroutine whose await completes is resumed (a handler may fail
each time up to `FailureBound`, and no fault is ever owed); a poll goes on to its
next job; and the worker polls again, since `run_worker` is an endless loop, ended
only by an exception, upon which the container is restarted. `JobExecution` alone
has no liveness property. `LLMBudget` assumes that a transaction goes on when the lock it waits for
is free, and that the HTTP client gives up on a provider that does not answer,
for which it has a timeout; no answer is ever assumed. `ThesisVersions` assumes strong
fairness of each writer's steps: PostgreSQL wakes a transaction when the one it
waits for ends, and a writer that starts afresh needs a round trip for its read
before it can insert, so the one that was waiting is first. With weak fairness the
waiter could be overtaken for ever, by writers that fail each time. `PortfolioBook` assumes
(`LiveSpec`) that a request that has been sent is served: its transaction goes on when it
may, and the database ends a circle; nobody has to confirm a preview.
`CommitteeSession` assumes that a call of a model ends, for which the gateway has a
timeout, and that the event loop runs what is ready; nobody has to ingest or start a
session. `ProviderSettings` has no liveness property.

## 4. Proofs

TLAPS checks these for every value of the constants, under the assumptions named
in the modules (`MaxAttempts` positive, finitely many executors or calls, amounts of
naturals, lots that are not empty, and so on). Every invariant, every action property and every
refinement that a passing run checks has its theorem here; the assumptions some of
them need beyond those of their module are at the end of this section.

* **`JobExecution_proofs`.** `LockIsHeldInside` is inductive beside `TypeOK`. It alone
  does not give the rest: `JobInv` adds that an absent row has no effects, that an
  executor about to commit has a draft that is exactly one attempt past the
  committed row and, when running, within the limit and of an open row, and that one that marks a
  failure commits `FAILED`. It is preserved since only the holder of a key's lock
  writes its row, so every other executor's draft is of another key or not yet
  made. `JobSafe` (no lost attempt, success has writes, writes bounded, reports
  true; `NoAttemptIsLost` and `ReportsAreTrue` name two of its parts) and `ExhaustionFinal` follow for any number of executors and all faults.
  For a single executor with no database error outside its handler and no lost answer to a
  commit (`SingleWorker`), `OnceInv` adds that a row is succeeded exactly when its writes
  are committed and that an executor that tries works on an open row; at most one
  effect, finality of success and the refinement `ImplementsIdempotentJob` follow. Without that
  assumption they are false (`JobConcurrentEffects`, and the remark to it in section 5).
* **`WorkerSchedule_proofs`.** Forgetting polls and calendar, every step of the schedule
  is one of `JobExecution` (`ScheduleRunsExecutor`), so all that is proved there holds
  of the jobs of a calendar. `PredecessorsComplete` is not inductive by itself. `ReplayInv` adds
  what a poll knows: the call in flight is for the first job of its poll
  (`InFlightIsFirst`), a poll holds only jobs of sessions that have closed (`PollIsDue`),
  and what is ahead of it in its window and no longer in it has durable writes
  (`AheadIsDone`; this is where a result told to a poll must be a durable one).
  `ReplaysOldestFirst` follows too. That the jobs of one period are one job
  (`OneJobPerPeriod`) is about the calendar alone; with the bound on effects it gives
  `ReportsPerPeriod`: with the worker's limit of three attempts a period is reported at most
  twice. Twice does happen, with two workers, by the course of `JobConcurrentEffects`.
* **`LLMBudget_proofs`.** `LoadedInv` (a loaded row is current and its lock held, and a
  task whose row is locked to settle has one) makes writing back the loaded
  values the same as updating the row. With it, `CapInv` (the limits a call
  decides by are a saved policy's, and a usage that settles is within what was
  reserved) gives `CapHeld` for any number of calls and policies: a reservation adds
  what fits, settling never raises a total. `LedgersBalance` compares a ledger with a
  sum over a set of calls, a fold, which is a `CHOOSE` of a function by recursion. The
  section on sums shows that this function exists and is unique and that the order does not count,
  each by taking a least counterexample in the strict subset order (`LeastBadSet`), so
  that nothing is needed but `SumOfAdds` (a call more adds its amount) and `SumOfAgrees`.
  With `StatusKnown` (the reservation row of a call follows its place), each of the two
  commits moves one call's amount from one sum to another as it moves it in the
  ledger. `LedgersNeverNegative` is a consequence that no run states: what a settlement
  takes back was there.
* **`DecisionLifecycle_proofs`.** Type correctness, `VetoIsNotOverridden` and
  `ReceiptsNameAnApproval` (the record a receipt names approves, stays, and has not expired at the receipt's time) by induction; `ProceedsUnderLiveApproval` from the lemma that
  nothing ends the last record.
  The rules of `DecisionGovernance` follow from lemmas on the pure modules. `Reachable` is the least set that holds the
  start and is closed under the moves (`ReachableIsClosure`), so a gate is indispensable
  when some set of states holds the start, no move without its fact leaves it, and
  what the gate guards is outside: the products of a part of each machine
  (`GatesHold`). The way out is a path along listed edges, and what a
  reduction sells is bounded from both sides by its fraction and one lot (`ReductionOpen`). `SizingHolds`
  bounds the rounded size by the least of the limits for all weights, limits and lots; it
  needs division rounding down, and that the second of two increases meets the book with
  the first one pending.

* **`ThesisVersions_proofs`.** `ChainInv` strengthens `LinearHistory`: a draft is numbered
  one past a version that was current when it was read, and was made from it
  (`DraftsFollow`); one transaction at a time has created the row (`FirstAlone`); one
  has inserted a version (`HoldingAlone`), and that version follows the current one
  (`HoldingCurrent`). The crux is `InsertKeepsChain`: all numbers up to the current
  one are taken, a draft is at most one past it, and two inserted drafts would both
  be exactly one past it, which the index forbids. `LinearHistory`,
  `CommitsOnWhatItRead` and the refinement of `VersionChain` follow for any number of
  writers and histories of any length. A consequence is that the row version's
  compare-and-swap never decides anything: the unique index has.

* **`PortfolioBook_proofs`.** One transaction holds the row of a portfolio (`LockInv`). So
  what a batch has written stays the next version of what is committed
  (`StageInv`; it needs `KeptRows`, that a sheet writes an instrument once), and what
  the batch checked under the lock stays true until it commits: its claim is free and
  a guarded snapshot is what was confirmed (`BatchInv`). `EveryWriteIsAVersion`,
  `ImportedOnce` (the same sheet with the same policy is applied once) and, under
  the assumption that every confirmation carries its snapshot, `NeverSilentlyOverwrites`
  follow for any callers, portfolios and sheets. `ImportsAreAtomic`
  is the refinement of `AtomicImport` under the same assumption: `ImportInv` adds that
  what is staged of a sheet is what its rows give with the rows the confirmation read, no more
  and no less, and since a sheet that is applied names an instrument once and what was read is
  what is committed, the commit is `After` of the holdings for every instrument at once. Without that
  assumption `NeverSilentlyOverwrites` is false (section 5).
* **`ProviderSettings_proofs`.** `SecretInv`: a credential is in the file before any place
  from which its row can be written, and the one request between its read and its
  write of the file has read it as it is, so a replacement never drops an entry.
  `LockInv`: a row found `FOR UPDATE` stays as it was found. `TrailInv` adds the types of
  the records. A test or a fetch leaves what a trail replays to as it is (`Replayed`), a change makes it
  what it writes. A request that found no row has no lock, and the chain holds all the
  same since the primary key refuses it when a row has come (`CommitKeeps`).
* **`CommitteeSession_proofs`.** `StoreInv`: whoever is about to commit an artifact is the
  only one with its content, of which nothing is stored. `SessionInv` adds that results
  of the rounds are of the roles that were planned, that a run that failed has the
  `INSUFFICIENT_DATA` opinion, and that the frozen rows stay visible while evidence grows.
  `RecordOfTheProtocol` derives who was heard and what was disputed from the two
  rounds; `OpinionsRestOnTheContext` follows for any roles and any outputs.

**Proved under an assumption of its own.** `AtMostOneEffect`,
`ImplementsIdempotentJob` and finality of success: `SingleWorker`, one executor with no
database error outside its handler and no lost answer to a commit, as in `JobOneWorker`.
`NeverSilentlyOverwrites` and `ImplementsAtomicImport`: every confirmation carries the
snapshot (`Guards = {TRUE}`), as in `PortfolioImports`.

**Only model-checked.** Liveness, which needs `ENABLED` of fair steps: `CatchesUp`,
`EveryCallEnds` of `LLMBudget` and of `PortfolioBook`, `EveryWriteEnds`, `SessionEnds`.

## 5. Findings and remarks

**Finding.** A run that violates a property which a document of the repository states:
*exactly once* (`JobConcurrentEffects`, `infrastructure/persistence/jobs.py:134`).
A failing run releases its lock by rolling back and takes it again to record
the failure. If another worker completes the job in between, the record turns
the succeeded row into a failed one, and the next poll writes the report again.
A single worker can do the same: a database error while a succeeded job is
being replayed is recorded as a failed attempt of it.

What does hold despite it is worth as much: however often a row is
reopened, its writes are committed at most once for every two of its
`max_attempts` attempts (`EffectsWithinRetryLimit`), no caller is told of a success
that is not durable, and an exhausted key stays exhausted.

**Remarks.** What else was met while modelling. The first six violate a property
that is defined in its module and named in parentheses, with the instance; TLC finds each
at once when it is checked there. The others are read from the code.

1. A job that is out of attempts ends every poll before the jobs behind it
   (`infrastructure/runtime_scheduler.py:210`; `EveryDueJobIsAttempted` of
   `WorkerSchedule`, `ScheduleCatchesUp.cfg` with `FailureBound = 3`).
2. A receipt is appended under an approval that a later record has revoked: the
   transition checks revocation, the append of the receipt does not
   (`infrastructure/decision_journal.py:306`; `NoExecutionAfterRevocation` of
   `DecisionLifecycle`, `DecisionApproved.cfg`).
3. Times of thesis versions are taken before the transaction, so the last version may
   carry the earlier time, and reads as of a time return the one before it
   (`infrastructure/thesis_engine.py:176`; `ReadsAgree` of `ThesisVersions`,
   `ThesisWriters.cfg`).
4. A change of a thesis is decided with the order of Evidence references, storage
   sorts them: a content that lists them otherwise is a new version every time it is
   written (`application/thesis.py:120`; `NoEmptyVersion`, the same instance).
5. A confirmation may leave out `expected_positions_hash` (`CsvImportRequest` in
   `api/schemas.py`); with REPLACE it then overwrites positions that its user
   was never shown, against `application/portfolio_csv.py:3`
   (`NeverSilentlyOverwrites` of `PortfolioBook`, `PortfolioImports.cfg`
   with `Guards <- OnlyUnguarded`).
6. A receipt may be dated before the approval it names: the journal compares the actor, action
   and expiry of the caller's copy, not its time (`infrastructure/decision_journal.py:305`;
   `ReceiptsFollowTheirApproval` of `DecisionLifecycle`, `DecisionApproved.cfg`).
7. Of two workers, a job failure that meets a lock held by the other is not counted
   (`RecordBusy`), and the two may do this to each other for ever.
8. `LLMBudgetService.reserve` reads the policy before the transaction that reserves, so a
   call may be decided by a policy that has just been replaced: `CapHeld` speaks of limits
   that were ever saved. A provider that reports more input than the
   worst case leaves its call unreconciled: the reservation stays for good and the usage
   is not counted (`application/llm_budget.py:138`).
9. Provider settings: a save without a credential that overlaps one with a
   credential puts the old reference back; a save that overlaps a deletion
   recreates the row; a save that fails leaves its new credential in the file, and
   nothing calls `SecretStore.delete`.
10. Committee: a session that fails leaves the other runs of its round calling; only the
    Evidence of observations is compared with the context
    (`application/analysis_context.py:103`); a conflict of stances needs `POSITIVE` and
    `NEGATIVE`, while `src/INVESTMENT_OS_MASTER_SPEC.md:652` asks for two levels apart;
    nothing in the repository but its tests starts a session.
11. Evidence: the content hash leaves out tier and expiry, so a corrected artifact is
    answered as already stored; feature snapshots use the freshness of ingestion.
12. Journal: an approval is appended to a Decision in any state; two records of one
    instant are ordered by their ids, so an approval may follow a revocation of the same
    instant (`Precedes` in `DecisionLifecycle`); several receipts may each fill a Decision
    in full, and nothing adds them up.
13. Schedule: sessions older than `max_replay_sessions` are never dispatched; a calendar
    that is extended may end a period again that has been reported
    (`application/schedule.py:93`); two venues that close at one instant share their keys.
14. Rules: BUYABLE to HOLD looks at neither risk nor thesis again; a HOLD
    Decision may carry a bucket action that buys; sizing increases under a WEAKENING
    thesis, which the CIO gate does not let pass.
15. Sizing: a formula may name a `reduce_fraction` of zero (`domain/sizing.py:43`), with which a
    REDUCE sells nothing; and any request, EXIT too, is refused whose bucket quantity is not
    exactly weight times nav over price in 28 digits (`domain/sizing.py:93`), so that a
    reduction that needs no permission may still need its numbers corrected.
16. Audit: a role that is assigned again after a deletion has another id, so its records in the database
    are those of several entities; the model keeps them in one trail.

## 6. Not modelled, and what could follow

Rendering of reports, HTTP and parsing in the adapters, the web console, settings,
the upgrade path of migrations: no state of the system's own. The outbox has no
publisher. The watchlist, cash, onboarding and the creation of portfolios are
single-row writes in which the last writer wins and nothing else takes part.
Feature snapshots, the conditions that invalidate a thesis and the arithmetic of fill
quantities are pure functions of data no other rule reads.

What would add most from here:

1. The committee composed with `LLMBudget`: a session whose runs share a task's budget.
2. A calendar that grows while the worker runs.
