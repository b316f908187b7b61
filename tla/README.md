# BudgetOS in TLA+

A formal model of the budget approval, period closing and event delivery core of
BudgetOS: TLA+ modules translated from the TypeScript and SQL, TLC configurations that check
them on small instances, and TLAPS proofs for every instance. `src/` below is
the repository.

## 1. The system

BudgetOS is a monorepo: an API (`apps/api`, NestJS commands over Postgres),
workers (`apps/workers`: outbox publisher, event consumers, ingest, pacing,
exports, retention), a web client, a read-only MCP server and shared packages.
Everything a user does is a *command*: one function that opens one database
transaction (`withTenant`, READ COMMITTED, `packages/db/src/tenant.ts:26`),
locks the rows it decides on, checks, writes, and appends an audit row and an
outbox row. Components meet in the database: through rows they lock, through
the outbox (which the workers read), and in a few places through state read in
one transaction and used in another. Those places are where bugs live.

| Component | State | Operations | What makes it correct |
|---|---|---|---|
| Envelopes and versions (`modules/envelopes/commands`) | `envelope.status`, `current_version_id`, `draft_version_id`; `envelope_version.status` | draft, phasing, restore, submit, submit-draft | pointers and statuses of two tables agree; a draft is based on what is approved now; the approved version changes only by approval |
| Approval engine (`modules/approvals`) | `approval_request` with a frozen chain, current step, due date; `approval_decision` | approve, reject, request changes, external evidence, withdraw, escalate, reroute after a move | one open request per envelope; no step skipped; separation of duties; resolved requests stay; closed periods freeze requests; overdue steps escalate |
| Period closures (`modules/closures`, `db/src/closures.ts`) | `period_closure.status`, `closure_envelope.prior_status`, frozen figures | close (two transactions with a sink between them), restate, fail, abandon | LOCKED exactly while covered; the status from before the first closure comes back; frozen figures stay |
| Structural changes (`structure.ts`, `end-reintroduce.ts`, `change-dates.ts`) | the tree, lineage, bulk changes, held envelopes | move, split, merge, end, reintroduce, dates | no cycle, no deadlock, all-or-nothing bulk requests |
| Parent cap (`approve-version.ts`, trigger `check_parent_cap`) | approved amounts along the tree | approve, move | children never exceed their parent |
| Ingest and manual entry (`workers/ingest`, `modules/manual-entry`) | runs with leases, batches, facts | claim, flush, finish, sweep; submit, approve | no facts into closed periods; one run per source |
| Outbox, consumers, local runner (`db/src/outbox.ts`, `workers`) | `outbox`, `processed_event` | claim, publish, mark, handle, retry, dead-letter | each event applied once per consumer, eventually |
| Idempotency keys (`db/src/idempotency.ts`) | `idempotency_key` with a lease | claim, complete, release, sweep | a key runs its handler once; the answer replayed is the one that was given |
| Exports, pacing, notifications, search, roll-ups, retention, purge | jobs and derived rows | worker passes | derived state converges; leases release |
| Registry, naming, matching, experiments, targets, baselines, threads, views, auth, Slack commands | reference and per-user rows | single commands | local guards |
| Query planner, grid, timeline, UI, web, MCP, AI | none that is stored | compile, render | pure |

`PROJECT.json` lists every component with its status, and every hazard (what is
hard to test) at its line with the properties that cover it.

### What is hard here

* Two tables say the same thing twice: the envelope's pointers and status, and
  its versions' statuses, are written by a dozen commands.
* A request's chain is rewritten (escalation) under decisions that are filed by
  step number.
* A close is two transactions with slow I/O between them, and may be given up
  by somebody else meanwhile.
* Periods nest (month, quarter, year), so closures overlap on envelopes and
  must hand the saved status on to each other.
* READ COMMITTED: a statement that waited for a row lock sees that row anew,
  and everything else as of when it began.
* Loads read which periods are closed long before they write.
* An event has several consumers, each of which may fail, crash or be called
  twice, on two processes while a deployment swaps them.
* A load outlives the transaction that claimed it; whether its worker is alive
  is known from a lease only.
* A key's claim, its handler and the storing of the answer are transactions of
  their own, and another request may take the key over in between.
* A change to the tree locks a request, a parent and children one row at a time,
  and what it read before to find them may be old by then.
* A structural change is drafted at once and applied when it is approved; between
  the two the tree moves on, and other changes wait on the same budgets.

## 2. Modules

| Module | What it is |
|---|---|
| `EnvelopeApproval` | Envelopes, versions, requests, decisions, blocking threads, and closures as serial commands. One action per command; a command is one transaction that locks what it reads, so it is one step. |
| `BudgetLedger` | The abstract promise: approved versions only give way to their successors, retired ones never return, frozen envelopes stand still. `EnvelopeApproval` implements it. |
| `StructuralChange` | Changes to the tree and their requests: create, edit, submit, move, split, merge, end, reintroduce, dates, bulk edit, and the approval, refusal or return of each. Serial commands, with amounts and the parent cap. |
| `TreeLocks` | The same tree under its row locks, lock by lock: moves, decisions, submissions, date changes as transactions that overlap. |
| `SerialTree` | The abstract promise of the locks: moves, submissions and decisions one at a time, each on the tree that it changes. `TreeLocks` implements it. |
| `PeriodClosure` | Closing periods at the grain of statements: transactions that wait, snapshots, commit and rollback, the sink, and fact loads. |
| `IdempotencyKey` | One `Idempotency-Key` and any number of requests that carry it: claim, conflict, read, wait, run, complete, release, crash, lease, expiry, sweep. |
| `OutboxDelivery` | The outbox, the poll loop of a worker, and `handleOnce`: rows claimed in batches, families in turn, publish, back off, dead letter, crash, archived workspace. |
| `IngestRuns` | Composes it with the runs of one data source: queue, claim, load, end, lease, sweep and requeue. Its events travel through `OutboxDelivery`, its handler is one of the families. |
| `MC...` | One per checked module: the small instances. |
| `EnvelopeApprovalProofs` | Theorems about the tables of `EnvelopeApproval`, and about approval chains, escalation and separation of duties. |
| `EnvelopeFreezeProofs` | Theorems about closures and resolutions, and that `EnvelopeApproval` implements `BudgetLedger`. |
| `FunctionSums` | Lemmas about sums over finite sets: what the parent cap is about. |
| `StructuralChangeProofs` | Theorems about the tree and its requests. |
| `IdempotencyKeyProofs`, `TreeLocksProofs` | Theorems about these two modules. |
| `PeriodClosureProofs` | Theorems about closures in transactions, with and without overlap. |
| `IngestRunsProofs` | Theorems about delivery and about the life of ingest runs. |

### State and code

`EnvelopeApproval` has one variable per column, as a function of the row's id
(`estatus`, `current`, `draft` of `envelope`; `vStatus`, `vEnv`, `vAuthor`,
`vBase` of `envelope_version`; `rStatus`, `rVersion`, `rBy`, `rPolicy`,
`rChain`, `rStep` of `approval_request`; `decisions` is `approval_decision`). A
row that was not inserted yet has status `None`. `overdue[r]` is empty until the
`due_at` of r has passed and is then the set of the PENDING requests that were due
no later, r included: their order is all that the escalation job's scan (`orderBy
dueAt`, `take: 500`, here `ScanLimit`) tells apart.
`policy` stands for the frozen snapshot: its chain, `blockSelfApproval`,
`allowExternalEvidence`. Which policy matches a submission depends on amounts,
so any non-empty one may match; an admin's own change always matches the
built-in direct policy. Shared writes (`WriteDraftVersion`, `ApproveVersion`,
`CloseRequest`, `AdvanceIfComplete`) are operators named as the functions they
translate. `overruled` is history: the closures under which evidence approved a version
of one of their envelopes (finding 1). Such a closure does not freeze that envelope any
more (`Freezing`), in `BudgetLedger` neither (`Overrule`), and the status it saved tells
nothing of what came after it.

`StructuralChange` has the tree (`parent`, `successor` for lineage of kind
`continues`), per envelope its `status`, approved `amount`, `draft`, whether it has
`ended`, and its `span`, one of two nested date ranges; and per open request the
versions it applies, in which order, and what else it does: archive, create, end, move
the dates. A command is a transaction, and so one action; the approval's steps are
`EnvelopeApproval`'s, and only the last decision is here. `Approve` applies the
versions in an order that the code's sort allows (`Orders`), each under the parent
cap, or nothing. Children of a split exist as drafts from the request on, as in the
code. `addChild` (`structure-ui.ts`) is `Create`, then `Submit`.

`TreeLocks` keeps only what locks protect: `parent`, the approved `amount`, the open
request `asked`; and `treeLock`, `reqLock`, `envLock`, the advisory lock of the tree
and the row locks. A transaction (`pc`, `cmd`) makes its plain reads, locks its rows
in the order of its command (`todo` in the order of ids), checks, and commits;
between any two steps others go on, and it may end at any step without effect. A
move's check on the row version its client loaded is `stale`. `late` records who had
to lock a row outside of the set it had locked by id. A bulk decision is reduced to
one of its envelopes. The walk up the tree stops at
depth 64 in the code, which no instance reaches.

`PeriodClosure` keeps what is committed (`estatus`, `cStatus`, `prior`,
`report`, `facts`) apart from what an open transaction has read and written
(`txn`). `BeginStart` / `LockEnvelopes` / `CommitStart` are `startClose`;
`SinkAnswers` is the BigQuery write; `Finish` is the second transaction;
`BeginRelease` / `Unlock` / `CommitRelease` are `failClosure` and
`restateClosure`. `ReadClosed` / `WriteFacts` are an ingest run (two
transactions) or a manual entry's approval (one). Three variables are history. `before` is
the status an envelope last had while not LOCKED. `raced` are the envelopes on which two
closures met in one of the three ways that READ COMMITTED does not put in order (`Race`): a
start that locks an envelope under another start that waits for it; a start that locks one
under a release that waits to unlock it; and two releases by its only two holders.
`early[c]` are the loads that looked at the closed periods before c was committed and had
not ended when c counted.

`IdempotencyKey` has the one row (`row`: fingerprint, owner, state, answer, age) and
per request where it is in `withIdempotency` (`pc`) and what its client was told
(`heard`). Keys do not meet, so one is enough. `runs` is the set of handlers that
committed since the key was last forgotten, and `overrun` of the live requests that
the lease ran out under: the lease is longer than any transaction timeout, so these
are in `Slow`, whose handlers wait for something outside a transaction (`closePeriod`
and its sink). A handler is taken for one transaction.

`OutboxDelivery` has `published`, `attempts`, `dead` for the columns of
`outbox`, `processed` for `processed_event`, and per worker what it holds in
memory: `batch` (claimed, not begun), `row`, `todo` (families left), `failing`.
`applied` and `skipped` are history. Whether a failed row still backs off is a
choice made by each claim (`Claims`). `IngestRuns` has `rstatus` for
`ingest_run.status`, `retry` for the key `requeuedFrom` of its summary, `stale`
for a lease that is over, `loaded` for committed facts, and `stage` for how far
a worker is with the run it claimed. Every transaction is a step; a worker may
crash between any two. Topics without a subscriber (`ingest.failed`,
`workspace.changed`) are never claimed and are left out.

The modules cut the system by question. In `EnvelopeApproval` every command is one
step, so its properties are about what commands check and write and would not notice that
a row lock is missing: `TreeLocks` has the locks. Closures are commands like the others
there, so the freeze can be checked against the whole workflow;
`PeriodClosure` takes the workflow as one action (`Work`) and checks what overlapping
closure transactions do. `StructuralChange` takes each command as one step;
`TreeLocks` is why it may: its commits are a serial run (`ImplementsSerial`).

## 3. Runs

| Run | Bounds | What it shows |
|---|---|---|
| `approval_envelopes` | 2 envelopes, 2 versions, 1 request, 2 closures, 3 users | The tables agree, drafts are fresh, closures freeze and give back, and `BudgetLedger` is implemented. Two closures may cover the same or different envelopes in any order; one of the policies counts external evidence, which is all that may resolve a frozen request. |
| `approval_chain` | 1 envelope, 1 version, 2 requests, 4 users | The longest chain (two approvals by role, then finance, both escalating, with evidence, admin): no step is skipped, and none that should escalate is hidden from the job. One version is submitted twice through a return for changes. |
| `approval_escalation` | 2 envelopes, 2 requests, a scan of 1, two policies | Finding 2: a request that never escalates fills the job's scan. |
| `approval_evidence` | 1 of each, a policy that allows evidence | Finding 1: external evidence ignores a closed period. |
| `closure_nested` | 1 envelope, a month inside a quarter closed once each, 1 ingest run, 1 manual entry, all their transactions at a time | Any order of closes, sink failures, slow writers, abandonments, restatements, envelope edits and loads, overlapping: an envelope that was never raced over is LOCKED exactly while held, and gets its status back; no load that looks after a close enters its period, and each early one enters at most once; what was given up stays given up. |
| `closure_restored` | 2 envelopes, month and quarter, two transactions at a time | Finding 5: a close that waited for another records APPROVED for a draft. |
| `closure_overlap` | two transactions at a time | Finding 3: write skew of two releases. |
| `ingest_delivery` | 2 workers, 2 runs, 4 events, 2 faults (crashes, failures, archivings), 2 attempts | Each event is handled once per consumer, a published row was handled by all; one worker loads, its facts are announced; events settle and runs end (`FairSpec`). |
| `idempotency` | 4 requests, 2 bodies, 1 slow handler | One effect stands for a key, replays tell of it, and who waits is answered (`FairSpec`). |
| `tree_locks` | 4 envelopes, 3 transactions, 3 trees | No cycle, no outgrown parent, no deadlock among those that keep the order, and `SerialTree` is implemented. |
| `structural` | 5 envelopes (2 not created yet), 2 requests, 4 commands, 2 trees | What waits waits for one request; splits and merges keep totals; what was asked stays in place until decided; what fits as a whole is not refused on the way; new dates fit. |
| `structural_ended` | the same, 2 amounts | Finding 4: a bulk edit changes a budget that has ended. |

The bounds are small but each is where the question first becomes interesting:
an overwrite needs two versions, a stolen lock needs two closures on one
envelope, a double decision needs two users with one role, a rewritten chain
needs a step behind the escalated one; a retry that dies too needs two crashes,
a dead letter two failures; a key taken over twice, and a request of another body,
need four requests; a cycle of waits that is not a pair needs three transactions; a
change that goes stale needs four commands (ask, change the tree around it, which is
itself asked and approved, approve). `MaxTx` bounds how many closure and entry
transactions are open at once: in `closure_nested` all three that there are, in the two
runs that refute something two. A race over one envelope does not depend on the
other envelopes, so `closure_nested` has one; the proofs have any number of envelopes,
closures and loads. `MaxCommands`, `MaxEvents`, `MaxRuns`, `MaxFaults` bound counters in the
guards. `CHECK_DEADLOCK FALSE` is set because ids, commands or requests run out: rows
are never reused, so every finite instance ends.

Every property of a passing run has a mutant: a definition as a plausible bug
would have it (`Mut...`, beside the original), under which TLC finds the
property violated.

### Fairness

`FairSpec` of `EnvelopeApproval` assumes weak fairness of `DueDatePasses` (time) and
of `Escalate`, as the comment at `escalate-overdue.ts:8` has it: the pacing job runs
it every 15 minutes. In the code nothing calls it yet
(`docs/adr/0012-pacing-evaluator.md:44`), so the run asks what the job does once it
is called. No fairness is assumed of users.

`FairSpec` of `IngestRuns` assumes weak fairness of each worker's claim and of
its next step (a worker that crashes is restarted; a load comes to an end), of
leases running out, and of the sweeper, which runs in every turn of the loop.
Crashes, failures, archiving and the operator's replay of a dead letter carry
none, so `Settles` counts a dead letter as settled, and `RunsEnd` excepts a run
whose request is one.

`FairSpec` of `IdempotencyKey` assumes that a process that lives goes on: that who
waits polls again, reads what it conflicts with, and who runs ends; and that the
lease of one that is gone runs out. Crashes and failures carry none.

## 4. Findings

1. `external-evidence.ts:20` asks `assertOpen` but not `assertNotLocked`, so a
   request of a closed period is approved by recording evidence.
2. `escalate-overdue.ts:27`: the job takes the 500 oldest overdue PENDING requests and
   only then asks whether the step escalates. Requests that do not escalate stay in the
   scan; 500 of them, and no later one is ever escalated. `EscalatesAgain` shows that
   nothing else hides a request from the job.
3. `closures.ts:56`: two releases at once leave an envelope LOCKED for ever, and
   a release that waited for a close unlocks what the close covers.
4. `bulk/commit.ts:51`: a bulk edit does not ask `ended_at`, so it changes the approved
   amount of a budget that "is read-only" (`end-reintroduce.ts:17`).
5. `closures.ts:34`: of two nested closes that start together, the second waits for the
   envelope with a snapshot from before the first committed. It then sees LOCKED, finds no
   recorded status in that snapshot, and falls back to APPROVED, although "an envelope
   another closing or closed closure already locked keeps the status recorded there"
   (line 21). A draft comes back as approved.

Met on the way, and not counted as findings because no document says otherwise, because
another guard bears the load, or because a property of a passing run says how far it goes:

* `pipeline.ts:161`: the list of closed periods is as old as the run, so a run that started
  before a close flushes into the period after its figures were frozen, although holding
  statuses "keep facts out of the period" (`closures.ts:10`). `OnlyEarlyLoadsEnter` says
  that these loads, each at most once, are all that enter.
* After finding 1 the closure keeps the status it saved before. If another closure locks
  the envelope again, the first one, restated last, gives back PENDING although nothing
  waits any more. `StatusTellsWork` excepts envelopes that were overruled.
* `consumer.ts:47`: a row claimed before its workspace was archived is skipped, not kept.
* `OneLoader` rests on leases outliving live workers: neither a flush nor the end of
  a run asks for the run's status (`pipeline.ts:298`, `338`). With one process at a
  time (`--max-instances 1`, overlaps of seconds against a lease of 20 minutes) that
  holds.
* `idempotency.ts:113`, `118`: `release` and `complete` do not ask who owns the key, so a
  handler that outlives its lease releases its successor's. `EffectOnce` excepts
  keys that were overrun; the handlers of that length have guards of their own.
* Submissions, splits, merges and ends lock the envelope and then its parent, against
  the order of `structure.ts:39`, so a deadlock with a move remains possible: Postgres
  aborts one of them, with a 500. `NoDeadlockInOrder` is about those that keep the
  order. A bulk decision may reach the new parent of a moved envelope late, against
  `structure.ts:52`.
* `approvals.ts:41`: a join under `FOR UPDATE` gives no parent amount to a transaction
  that waited, and then the cap check is the trigger's alone. Locks that foreign keys
  take are left out.
* Splits and merges do not ask whether an envelope is held (`structure.ts:236`), so an
  older request for new dates may be applied while a split waits: the exception in
  `HeldStaysPut`. Running children are asked about when an end is requested, not when
  it is applied (`end-reintroduce.ts:98`), and not at all by split and merge.
* The lineage of a reintroduction stays when the request is refused
  (`end-reintroduce.ts:67`). The parts of a returned bulk request can be submitted one
  by one. Among equals the order of a bulk edit may refuse one whose total fits:
  `RequestFits` excepts it.

## 5. Proofs

The assumptions on the constants are that roles and policies are what the
database holds, that trees to start from are forests whose parents were created, that
`None` is no value, that there are finitely many users, closures and entries (an approval
count and the number of open transactions are cardinalities) and finitely many envelopes
(a cap is about a sum over children), and that the ingest handler is run for
requests of runs and not for loaded facts (`outbox-topics.ts`). Everything else about an instance is arbitrary: how many envelopes, versions,
requests, closures, transactions, what chains the policies have.

**Tables** (`EnvelopeApprovalProofs`: `TypeCorrect`, `PointersCorrect`,
`OpenRequestsCorrect`, `DraftsCorrect`). None of the three properties is
inductive by itself, and they need each other: that closing a request restores
the right pointer needs that its version is the draft of its envelope, which
needs that open requests and PENDING versions match, which needs that nobody
submits while one is open. The invariant `TablesInv` is their conjunction with
the types and with `RowsOK` (rows refer to rows that exist, and an opened
request stands on a step of its chain). Lemma `Shapes` first reduces the twenty
actions to seven shapes of writes and two of closures; one lemma per shape then
shows that the invariant is kept.

**Closures** (`EnvelopeFreezeProofs`: `ClosuresCorrect`, `StatusCorrect`,
`FreezeCorrect`, `ResolvedCorrect`). `FreezeInv` adds that an envelope's status, or the
one that every covering closure saved, is the one its pointers call for: this is why
whichever of the saved statuses is given back, it is right, and why a command
that finds an envelope not LOCKED knows that no closure freezes it. Policies may count
external evidence, as the seeded ones do. Approving on evidence under a closure (finding 1)
is then the one step that makes a covered envelope not LOCKED, so the invariant speaks of
the closures that freeze (`Freezing`), and of statuses where no closure was overruled. The
converse needs no exception: what is LOCKED is covered.

**Refinement** (`EnvelopeFreezeProofs`: `LedgerCorrect`). With the mapping of
`EnvelopeApproval!Ledger`, every step of the workflow is a step of the ledger or
leaves it alone. Evidence under a closure is `Overrule`.

**Chains** (`EnvelopeApprovalProofs`: `EligibleCorrect`, `EarnedCorrect`,
`EscalatesAgainCorrect`). Decisions are filed by step number while escalation renumbers
the steps behind the current one. The first two rest on `DecisionsReached` (a decision
is filed under a step its request has reached) and on lemma `ReachedStays` (the steps up
to the current one keep number and content). Lemma `Fates` says that every step
of the system starts a request, leaves it where it is, takes it one completed
step further, or escalates it; `EarnedStays` that an earned step stays earned. From
`Fates` also follows that a request whose step escalates is PENDING.

**Keys** (`IdempotencyKeyProofs`: `KeyTypeCorrect`, `OneEffect`,
`ReplaysTellEffects`, `StoredAnswersStand`). As long as no lease was overrun, who runs
owns the row, so there is one of them (`KeyInv`). That a stored answer stands needs no
such hypothesis; it follows from the guard of each statement that writes the row.

**Tree** (`TreeLocksProofs`: `TreeTypeCorrect`, `TreeStaysForest`, `SetsSuffice`,
`MovesHoldRequests`, `NoOrderedDeadlock`, `FamiliesStayInCap`). `TreeInv` says what each
transaction holds at each place of its program, and that what it has read of rows it holds is still true:
the forest then stays one because a move's walk is made under the tree lock. For the
deadlock, `OrderInv` says that who holds a request is past the tree, and that a
transaction in order waits for a row above all the rows it holds; in a set of
transactions that wait for each other, the one that waits for the greatest row would
wait for nobody. For the cap, who is about to commit an approval or a move has locked the
parent, and every other approval or move into that family would need the same lock: so the
room that was checked is still there, and the commit takes no more than that (`CapInv`).

**Refinement of the tree** (`TreeLocksProofs`: `CommitsAreSerial`). With the tables of
`TreeLocks` themselves as the mapping, every commit is a command of `SerialTree` and no
other step shows. Each guard of `SerialTree` is a check that was made earlier and still
holds: the walk, the request and the cap by the two invariants above, and `MoveStands`
(the parent a move leaves and the request it returns are those it has read, since whoever
writes them holds the tree or the envelope) for the rest.

**Structural changes** (`StructuralChangeProofs`). `StructureInv` is the types; the rows
(the parents form a forest of created rows, what was not created has nothing); who waits
for whom (`WaitInv`); and `RequestInv` of every open request. That says which sets a kind
of request has (`Shape`), and `Terms`: what a split or a merge asks for adds up to what
its budgets have *now*, they are still siblings, its new rows are still without an amount,
and new dates still repeat the approved amounts. So `Terms` is a statement about the
present, although the request was written long ago; it stays true because the versions of
the request are pending, and every command that writes an envelope's amount or place
asks for that (lemmas `RequestKept`, `QuietStep`). `OpenStep`, `ApplyStep`, `CloseStep`
and `QuietStep` are the four things that a command does to requests; one lemma per command
(`...Proposes`) shows that what it asks for has its shape and its terms, and `StepsOfNext`
sorts the commands by what they may write. From the invariant:

* `Typed`, `VersionWaitsForOne`: what its first and third parts say.
* `TreeStaysAcyclic`: a move's walk (`AboveIsClosed`, `MoveKeepsForest`); every other
  command places rows that are nobody's parents (`GraftKeepsForest`).
* `HeldBudgetsStayPut`, `EndedStaysPut`, `NewDatesFit`: by cases over the steps as
  `StepsOfNext` sorts them. The last one needs that `Stale` compares all that `planDates`
  read.
* `SplitsKeepTotals`: `Terms` at the time of the approval.
* `FittingRequestsPass`: for any order that the sort of `finalizeBulk` allows and any
  version in it, the cap check when its turn comes passes: the siblings before it have
  what they ask for, those behind it still have what they had, and the sort puts what is
  archived or ended first and then parents before their children (`LessIsAllowed`,
  `OrderTurns`, `TurnPasses`). Depths are well defined since
  the tree is a forest (`DepthsPositive`).

`FamiliesStayInCap`, `TreeStaysAcyclic` and `EndedStaysPut` are stated by no run: the
first follows from the refinement, step by step; the last is what is left of "an ended
budget is read-only", which finding 4 refutes.

**Sums** (`FunctionSums`). The library defines the sum over a set by a recursive function
on its subsets. `SumStep` is its defining equation; the rest (a term more or less, equal
terms, greater terms, unions, parts) follows by looking at a smallest set for which it
would be wrong, because the induction theorems, which take an operator, are out of the
provers' reach.

**Closures in transactions** (`PeriodClosureProofs`: `ClosureTypeCorrect`,
`GivenUpCorrect`, `LockedCorrect`, `RestoredCorrect`, `ReportCorrect`). `TxInv` says what
an open transaction has read and written, and in which status its closure stays until
it commits; the first two theorems follow. None of the five assumes that transactions do
not overlap, or that no load is under way.

For locks and statuses, `RaceInv` adds what can be said of an envelope that no race went
over: it is LOCKED exactly while held and every holder saved the right status (`Sound`),
and what an open transaction has read or written for it is what the tables still call for
(`Exact`). `Race` is just what makes this inductive: the situations in which one
transaction commits under another that has read what it changes. The runs
`closure_overlap` and `closure_restored` show that the plain properties are false there.

For the figures, `FiguresInv` adds that a load under way either looked before the close was
committed, and then is in `early`, or knows that the period is closed; a start that has
counted has every load that is under way in `early`. An entry reads and writes
in one transaction and a run in two, but a close may come between in both, so
`ReportCorrect` is about both alike: the figures of a closed period grow only by loads of
`early` that have ended. They do grow: section 4 has the run that started before the close.

**Delivery and runs** (`IngestRunsProofs`: `IngestTypeCorrect`, `HandledOnceCorrect`,
`PublishedCorrect`, `OneLoaderCorrect`, `AnnouncedCorrect`). In `DeliveryInv`, `WorkOK`
says that as long as no family of a worker's row has failed, each one is processed or
still to come, so who ends the row without a failure may publish it. In `LoadInv`, one
event requests each run, one run is open, and a worker in the pipeline (`LoadOK`) has a
dedupe row for its request, so no other worker entered with it, and a live lease, so
nobody sweeps its run. No hypothesis is added to the specification; that a lease runs
out only when nobody runs the pipeline is the guard of `LeaseExpires`.

Only model-checked: `Settles`, `RunsEnd` and `WaiterServed`, since liveness under fairness
is out of the prover's reach. Every other property of a passing run is the statement of a
theorem.

## 6. Not modelled

Currencies, phasing and dimension scopes; `allow_over_allocation`; closures over
structural changes; the import of budgets and allocation arithmetic; authentication;
what handlers other than ingest write; exports, retention and purge, pacing alerts,
notifications; anything that only reads or renders (the web client, grid, timeline,
query planner and generated code are most of the lines of the repository). The
PROJECT.json notes give the reason per component.

## 7. Plan

Done, with their proofs: `EnvelopeApproval`, `BudgetLedger`, `PeriodClosure`,
`OutboxDelivery` and `IngestRuns` for the poll loop, `IdempotencyKey`, `TreeLocks` and
`StructuralChange`. Left, in this order:

1. The Pub/Sub publisher, and a refinement to an abstract exactly-once applier.
2. Exports (a job with a lease, swept but never requeued), pacing alerts, retention
   and purge against open work.
3. Closures in `StructuralChange`; the batch statuses of manual entry.
