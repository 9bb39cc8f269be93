# Verification of the accessibility observatory

TLA+ models, TLC runs and TLAPS proofs for this repository: a control plane that leases accessibility
assessments of public web sites to worker machines, the runner that executes them, and the scanners, the
experimental model-driven assessor and the report tools around it. Paths are relative to the repository.

The verification follows the code, not its documents. Where a document, a comment or a test promises
something the code does not do, a run of its own shows the counterexample (section 6).

Contents: 1 the system - 2 the modules and the code - 3 the runs and their bounds - 4 fairness -
5 the proofs - 6 findings - 7 what is not modelled, and the plan - 8 running it.

## 1. The system

| component | code | state it keeps | operations | what is hard | what makes it correct |
|---|---|---|---|---|---|
| Run store | `cloudflare/src/d1-store.ts`, `leases.ts`, `migrations/` | rows of `runs` in D1: state, worker, lease token, expiry, attempt | single SQL statements: claim next, claim by id, renew, finish, cancel, create | statements of machines that believe they still hold a lease; the clock a statement uses was read before it was sent | one lease rules a run; a replaced lease can do nothing; attempts are counted; one leased run per host |
| Run state machine | `src/control-center/state.ts`, `contracts.ts` | the state of a run | `assertRunTransition` | the store never calls it: its table must hold by itself | runs move only along `allowed` |
| Control-plane handlers | `cloudflare/src/worker.ts` | D1 tables `run_events`, `audit_events`, `theatre_events`, `artifacts` | claim, heartbeat, event, theatre, artifact, complete, fail, cancel | handlers interleave at every `await`; an invocation may be dropped between two of them; checks are made before the write | writes re-test; the logs never contradict the row; what a client was told stays true |
| Artifact storage | `cloudflare/src/r2-artifacts.ts` | objects in R2 by digest | create-only put | two uploads of the same bytes; a drop between object and row | every row leads to bytes |
| Run requests and dispatch | `src/control-center/commands.ts`, `cloudflare/src/providers.ts`, `github.ts` | `runs` by idempotency key, `workflow_dispatches` | `requestRun`, `queueWithProvider`, `dispatchAssessmentRun` | the same key raced by several requests; GitHub starting a workflow and failing to say so | a key means one run; one call to GitHub at a time; a dispatched run is not dispatched again |
| Worker loop and runner | `scripts/nebuchadnezzar-worker.ts`, `scripts/control-center-runner.ts` | the process, its heartbeat timer, the scan it spawned, the output directory | poll, claim, renew, scan, upload, complete or fail | the heartbeat races the scan's end; calls and answers get lost; a second machine takes the run over while the first still scans | the outcome says what happened; a lost lease stops the scan; every run settles |
| Model budget | `src/experimental/adaptive/budget.ts` | `BudgetLedger`, a chain of promises | `BudgetedProvider.complete` | requests that overlap; a check before a wait and a reservation after it; calls that fail and were billed | the bill stays within the caps; a refusal is final; calls are spaced; the chain goes on after a rejection |
| Adaptive session, frontier, scheduler | `src/experimental/adaptive/executor.ts`, `frontier.ts`, `scheduler.ts` | steps, usage, denials, evidence; pages and obligations | one observe-decide-validate-execute turn; the ledger's updates; the next action | a wall timer or a cancellation in the middle of a turn; full ledgers and full denial records | the terminal status and the completion say what was really covered |
| Scout, scan, audit, journeys | `src/scout/`, `src/scan.ts`, `src/site/audit.ts`, `src/journeys/` | queue and visited set of a crawl; results of surfaces | crawl, probe, record | a page that fails halfway | bounds hold; a failed surface is not a clean one |
| Execution policy | `src/control-center/execution-policy.ts`, `src/network-policy.ts` | retry attempt | `backoffDecision` | the order of the caps | retries are bounded, delays kept |
| Theatre | `src/theatre/`, the feed in `control-center-runner.ts` and `worker.ts` | a file of events, an offset, rows, a stream cursor | ship, store, stream | batches whose answer was lost, streams that resume | every event is shown, in order |
| Publication and local approval | `src/report/publication.ts`, `local-approval.ts`, `local-integrity.ts` | report, candidates, approvals, export | request, record, export | files that change between two reads | only what was approved is exported |
| Promotion, watch, triage, evidence policy | `src/promotion/`, `src/watch/`, `src/triage/`, `src/evidence/` | none | functions of reports | partial evidence | no verdict without its evidence |
| Cohort, evaluation, learning, benchmark, onboarding, catalogue, provenance | `src/cohort/`, `src/evaluation/`, ... | files | batch jobs | a batch interrupted and resumed | nothing is lost or done twice |
| Authentication, containment, browser policy | `cloudflare/src/auth.ts`, `src/experimental/adaptive/containment.ts`, `policy.ts` | none | predicates | - | - |
| Worker installation | `ops/nebuchadnezzar/observatory-worker.sh` | checkouts, a link, the previous revision | install, rollback, disable | a step that fails | rollback goes to a revision that ran |
| Reports, population analysis, operator interface | `src/report/`, `cloudflare/src/population-analysis.ts`, `control-center/` | none | read-only views | - | - |

How they interact. An operator's request creates a run in the store (`POST /api/v1/runs`) and, for the
`github_actions` provider, starts a workflow through GitHub. Workers poll the control plane and claim a run,
the workflow claims the one it was started for. A claim returns a lease token; every later call of the runner
carries it. The runner spawns a scan as a child process, renews the lease from a timer beside it, uploads what
the scan left in its directory and records an outcome. The operator may cancel at any time; a lease that is not
renewed expires, and the run can then be claimed again until its attempts are used up. There are no locks: all
exclusion comes from the conditions in single SQL statements. The adaptive track is separate: it runs in one
process, and all model calls of a trial go through one `BudgetedProvider`.

## 2. The modules and the code

| module | models | state variables and the code |
|---|---|---|
| `RunStore` | the SQL of `d1-store.ts` as operators on a row or a table: `CLAIMABLE`, `HOST_IDLE`, `validLease`, and what each UPDATE writes | none |
| `RunLifecycle` | abstract: `allowed` in `state.ts` | `state` of each run |
| `RunLease` | the store as a state machine: one action per statement | `runs` the table, `clock`, `minted` the random lease tokens in the order they were stored, `grants` the claim responses ever given |
| `RunLeaseProofs` | theorems about `RunLease` | |
| `ControlPlane` | the handlers of `worker.ts`, one action per `await` | the variables of `RunLease`; `reqs` the invocations in flight and what they hold in local variables; `events`, `audit`, `theatre` the append-only tables; `artifacts`, `bucket`; `acks` the responses that arrived |
| `ControlPlaneProofs` | theorems about `ControlPlane`, the refinement of `RunLease` among them | |
| `Dispatch` | `POST /api/v1/runs` from the idempotency lookup to GitHub's answer | `stored` and `dispatches` the two tables by key, `workflows` what GitHub started, `reqs` |
| `DispatchProofs` | theorems about `Dispatch` | |
| `RunnerExecution` | the worker loop, the runner, its timer and its child | `row` the run seen through its lease, `stored` its artifacts, `machine` the process of each machine, `disk` its output directory |
| `RunnerExecutionProofs` | theorems about `RunnerExecution` | |
| `ModelBudget` | `BudgetedProvider` | `ledger`, `calls`, `refused`, `estimated`, `stopped` the `BudgetLedger`; `lastCall`; `reqs` the requests in the order of the chain; `billed` what the provider charged |
| `ModelBudgetProofs` | theorems about `ModelBudget` | |
| `Frontier` | `FrontierController`: the ledger of pages and probe obligations as operators from a ledger to a ledger, its bounds, the compact view, `classifyCompletion` | none |
| `FrontierScheduler` | `DeterministicScheduler.decide` and the rule table `frontier-rules.ts` as an operator | none |
| `AdaptiveSession` | `executor.ts`: one session, one action per await of `turn()` and two per file of a flush | `phase` the await, `step`, `calls`, `status`, `cause`, `proposal` the counters and fields of the executor; `page`, `surfaces`, `discovered` the tab and what was seen; `refused`, `browser` the stored denials; `evidence`, `candidates`, `trace`; `ledger`, `sched`; `turn` the locals of a turn; `disk` the three files and which of them are cut short, `result` |
| `AdaptiveSessionProofs` | theorems about `AdaptiveSession` | |
| `Promotion` | `promotion/gate.ts` and the entries of `catalogue/contracts.ts` as operators | none |
| `EvidencePolicy` | `decidePublication` and its predicates | none |
| `Publication` | the review (`request`, `record`) and the three export commands over files that others replace, and a probe's way through the gate | `disk`, `artifact`, `signers`, `authority` the inputs; `request`, `signature`, `store` the approval files; `out` the export; `entry`, `impl`, `gate` the probe; `pc`, `load`, `receipts`, `due`, `held`, `trusted` the commands' local variables |
| `PublicationProofs` | theorems about `Publication` | |
| `Journeys` | the four keyboard journeys of `journeys/engine.ts` as operators on a page's elements and its focus | none |
| `Scout` | seeds, crawl and sample of one site, and `NetworkPolicy` under every navigation | `web` what sites serve, `tries` and `pace` of the policy, `scout` the queue, pages and sitemaps |
| `SiteAudit` | the commands `audit`, `cohort`, `watch` and `learn` over output directories | `pc`, `cmd`, `audit` the running command; `disk`, `summary` the files; `change`, `learned` what WATCH and mining wrote; `scans`, `story` what really happened |
| `SiteAuditProofs` | theorems about `SiteAudit` | |
| `MC*` | the instances TLC checks | |

Composition and refinement. `RunLease` and `ControlPlane` share `RunStore`, so both read the SQL the same way.
`RunLease` implements `RunLifecycle` (`state` is the state column). `ControlPlane` implements `RunLease` with the
largest lag (`ImplementsLease`): whatever handlers do between awaits, the table changes only as single
statements may change it. This refinement is a theorem (`HandlersImplementLease`), and since
`RunLeaseProofs` holds for every lag, so is what follows from the two: of the table the handlers keep, attempts are
counted, a replaced lease stays dead and late calls are fenced out. `Dispatch` looks inside the handler that `ControlPlane` takes as one
INSERT. `AdaptiveSession` extends `FrontierScheduler`, which extends `Frontier`: session, scheduler and ledger are
checked together, since each judges by data another has clipped. `Publication` extends `EvidencePolicy` and that
`Promotion`. `SiteAudit` extends `Scout` and `Journeys`: an audit of a cohort is one machine from robots.txt to the
mined candidate. `RunnerExecution` sees one run through its lease and takes each call as atomic, which
`ImplementsLease` justifies.

Abstractions worth knowing.

- *Time* is one integer clock. A handler reads `new Date()` and then sends the statement that uses it, so a
  statement works with an instant of the past. `RunLease` bounds that lag by `MaxLag`; in `ControlPlane` it is
  whatever happened since the handler's last await. `RunnerExecution` keeps one bit of time, whether the lease
  is still live.
- *Tokens* are 32 random bytes in the code and their hash in the table. The model numbers them: a token never
  repeats.
- *Columns nothing reads back* (heartbeat time, start and completion times, stage, progress) are left out.
- *Documents* are a kind with bytes, and two may have the same bytes: the artifact's row is unique by run, kind
  and digest, its object by digest alone.
- *A dropped invocation* is one whose remaining statements never run; a lost response is one dropped at the end.
- *Event logs* are bags: appends of concurrent handlers carry no order.
- *GitHub*, *R2*, *the network* and *the model provider* are external and do whatever the code has to cope with:
  GitHub may start a workflow and fail to say so, a call may take effect and its answer be lost, the provider
  may underestimate, stay silent or fail and bill all the same.
- *A model session* sees a site of a few URLs, each with links and controls; a GET may be redirected, refused or
  fail. What a model proposes is any well-formed or malformed action over what it was shown. Counting of tokens
  and bytes is a nondeterministic end by budget; the history shown to the model is left out.
- *Reviews and exports.* A digest is its tagged argument (SHA-256 is taken to be injective). An artifact that is
  unbound, outside the evidence root or too large is `ABSENT`. The store is the set of its lines, whether one is
  garbage and whether the last lacks its newline. Ids and dates of requests are left out, as are aliases among the
  paths. Two recordings never run at the same time. A promotion happens before files change and exports start: an
  export reads neither the catalogue nor the implementation.
- *Sites.* URLs are numbers, a location in robots.txt, a sitemap or a page has a type (page, XML, PDF, other host,
  one that cannot be parsed). The classification and structural fingerprint of a page are part of what it serves.
  axe and the browser are modelled from outside: a scan sees results, a page reacts to Tab, Enter and focus().
  One process works in a directory at a time, and the files of one scan are written together.
- *Money* is an integer number of price units per token; the code uses floating-point numbers.
- Definitions whose comment says *mutated* are plausible mistakes of the code, one per property. They are used
  by no specification; each shows, put in the place of the definition it mutates, that the property can fail.

## 3. The runs and their bounds

| run | instance | distinct states | question | result |
|---|---|---|---|---|
| `lease_lag` | 3 runs (2 providers, 2 on one host, 2 revisions), 2 workers, 2 attempts, leases of 2 instants, clock to 4, statements up to 1 instant late | 165,364 | do the statements keep leases accounted for and fenced, do claims keep hosts exclusive and leave exhausted runs alone, and is the state machine implemented? | holds |
| `lease_stale_clock` | the same | - | does host exclusion survive a statement that is one instant late? | violated |
| `control_plane` | 2 runs on one host, one of each provider, 2 invocations in flight of 3 requests, 2 documents with the same bytes, 3 types of event, clock to 1 | 240,740 | do the handlers implement `RunLease`, and do logs, theatre, artifacts and responses agree with the table? | holds |
| `dispatch` | 1 key, 2 intents (one runs as a workflow), 3 invocations in flight of 4 | 89,833 | is a key one run, GitHub called one at a time, and a dispatch settled? | holds |
| `runner_loop` | 2 machines, 2 attempts, an event feed and an oversized report | 65,444 | is the outcome honest, does a lost lease stop the scan, does every run settle? | holds |
| `runner_slow_renewal` | the same, the first renewal may outlast a heartbeat interval | - | does a lost lease still stop the scan? | violated |
| `model_budget` | 3 requests of 2 sizes, caps of 2 calls, 4 input, 3 output, 9 money units, 2 instants of wall time | 38,004 | do the caps hold for the bill, is a stop final, are calls spaced, does every call settle? | holds |
| `session` | a site of 5 URLs; 6 sessions (scheduler with 9, 14 or 22 steps, model of 3 steps with the ledger, of 2 with a fault and of 4 without); ledgers of 4 pages, 5 states, 11 obligations; 2 stored refusals, 1 browser denial; 1 browser fault; each file emptied before it is written | 865,683 | do ledger, evidence, files, completion and status tell the same story, and does every session end? | holds |
| `session_selected` | the same | - | was every navigation that the funnel counts carried out? | violated |
| `publication` | 2 interchangeable reports, 3 candidate files, 1 artifact, 1 reviewer; 1 review, 1 export by any of 3 commands, 2 changes by others, or promotions of 4 steps | 586,764 | is what goes out what was approved, in that form, during that export; is trust in a probe earned? | holds |
| `audit` | 3 sites, the first and the third of one id, 2 directories, 2 commands of 4 settings, 2 mishaps, 3 pages, 2 sitemaps, 2 seeds, 2 surfaces of a kind, 5 site contents | 1,268,569 | do reports, summaries, changes and candidates say what the scans behind them saw, and are hosts asked at the policy's pace? | holds |
| `journey_safety` | one page with a menu button, one audit | - | do journeys act on safe targets only? | violated |

Why the bounds are enough.

- *Leases.* Two attempts are the least with a reclaim (attempt 2) and an exhausted run; leases of two instants
  on a clock to 4 let a run be claimed, renewed, expire, be reclaimed and expire for good. Two runs on one host
  under different providers is the case `HOST_IDLE` exists for; the third run separates hosts, revisions and
  ages, so that "oldest eligible" picks between two. The proofs cover every other size.
- *Handlers.* A property of two handlers needs two in flight; a third request is the claim whose token the two
  use. Clock 1 lets a lease expire between a check and a write. Of the events one is not audited (progress), one is
  under a name of its own (backoff), one under an outcome's (partial).
- *Dispatch.* Keys do not interact, so there is one. Three at once are needed for a retry of a failed dispatch to
  race a fresh request and a reader; four in total for a fourth to arrive after all that.
- *Runner.* Machines interact through the row alone: the holder and one that lost its lease are all there is.
  Two attempts again make a takeover and exhaustion. `events.jsonl` and one report tell apart what is listed,
  what is evidence and what is too large.
- *Budget.* Every cap can be the one that refuses a request (`CapsBite` in `MCModelBudget` is evaluated by the
  runs), and after a large request was refused a small one would fit.
- *Session.* The scheduler needs 22 turns to finish the site, 14 and 9 stop it in the middle; the ledger holds less
  than the site shows, so pages, states and obligations are each dropped in some run, and the compact view clips
  the ledger. In four turns a model can answer unknown, be refused, and answer unknown again before its final call.
  u3 may redirect to u2 and u2 to u4, the rest of an obligation's life is a refusal, a fault or an abort at any
  await. One fault is enough for "what was recorded when the action threw", which is a matter of a
  single turn; two sessions never share anything.
- *Publication.* A report that differs from the approved one, a candidate that differs from it in the claim, in the
  version or by speaking for its reviewer, a hypothesis, and an automated finding with a forged entry are all there.
  Two changes are a swap and the swap back, or a key withdrawn and a line forged. Four promotion steps are gate,
  review, edit and review of what was seen before the edit.
- *Audit.* Two sites are the least a family spans and a cohort can half fail, and the third shares the id and so the
  directory of the first; a mishap is a page that fails, a step after the scans that throws, a kill, an edit or an upgrade;
  two commands are what leaves files for
  a second one to trip over and what WATCH compares; three pages and two seeds make every limit of the crawl bite;
  the contents include redirects to the entry page and to another host, unparsable URLs, and a page that fails. The
  settings have a delay above the backoff's cap and one above the timeout of a fetch.

Counters capped by a guard: the clock (`MaxClock`), requests (`MaxRequests`), faults of a session (`maxFaults`), changes
by others, promotion steps, reviews and exports (`MaxEdits`, `MaxTrials`, `MaxRequests`, `MaxExports`), commands and
mishaps (`MaxCommands`, `MaxMishaps`). In `ModelBudget` the clock still
runs on while a request sleeps, so that no wake-up is cut off. `CHECK_DEADLOCK FALSE` is set in every run: a
run, a session or a command that has ended, used up its requests or reached the end of the clock may stop.

Every property of a passing run is matched with a mutated definition that TLC must find it violated under.

## 4. Fairness

- `RunLease` and `ControlPlane` are checked for safety only: nothing obliges anyone to send a request.
- `Dispatch`: weak fairness on each step of an invocation. The platform runs an invocation on unless it drops
  it, which is an action of its own; D1 and GitHub answer or fail. `DispatchSettles` says so: "or a request for
  this key was dropped".
- `RunnerExecution`: weak fairness on what a process does next, on its timer and its answers (`fetch` answers or
  throws), on the end of a scan that was sent SIGTERM, and on the expiry of a lease no machine knows. Not on the
  end of a scan by itself (a browser can hang; `EveryRunSettles` assumes in its premise that scans end), nor
  on the operator, reboots or any particular call succeeding.
- `ModelBudget`: weak fairness on each request's step and on time. `setTimeout` fires, and the adapter aborts a
  call that outlives its own timeout (`providers/mistral.ts:78`).
- `AdaptiveSession`: weak fairness on the steps the session takes by itself (recording, writing, closing), on the wall
  timer, and on an abort reaching what listens to the signal; and the scheduler, which computes its answer, does not
  leave a question open. Not on the browser nor on a model: `SessionSettles` holds although both stay silent. What it does
  assume is that closing the context and the browser returns (`executor.ts:607-608`), which no timer guards.
- `Publication` and `SiteAudit` are checked for safety only. Commands are one process each and stop at any error;
  that an audit ends needs fairness of every one of its steps, and TLC's check of it over a million states takes
  longer than the check of everything else.

## 5. The proofs

TLAPS proves these for every value of the constants, from the named assumptions about constants alone
(`StoreAssumption`, `LeaseAssumption`, `ControlAssumption`, `DispatchAssumption`, `RunnerAssumption`,
`BudgetAssumption`, `PublicationAssumption`, `SessionAssumption`, `SettingsAssumption`: types, bounds that are natural numbers, an attempt
budget of at least one, null values that are not values, and that a backoff doubled within its retries is a number, which
the provers cannot compute; `CandidateAssumption`: a candidate file has a record, and the references of an
assessment name a file by a path and a digest; `ContentsAssumption`: what sites serve has the types the models give it, with
finitely many results on a page and impacts ranked 1 to 5; and `CohortAssumption`, below).

`RunLeaseProofs`, for any runs, workers, hosts, lease lengths and any lag of statements behind their handlers:

| theorem | statement |
|---|---|
| `LeaseInvariant` | `LeaseInv` always holds |
| `LeaseTypes`, `LeaseColumns`, `AttemptsCounted`, `OneLeaseRules` | the invariants `TypeOK`, `LeaseShape`, `AttemptAccounting`, `LastLeaseRules` |
| `ReplacedLeaseStaysDead` | a token that is no longer in its row never returns to it |
| `LateCallsAreFenced` | `FencedOut`: no instant lets an earlier lease pass the test once a later one was granted |
| `ClaimsNeverOverlap` | `OnlyLateRenewalsOverlap`: from a state with at most one unexpired lease per host, only a renewal that executes past its own lease's expiry leads to one with two |
| `ExhaustionIsFinal` | `ExhaustedWaitsForOperator`: an exhausted run is never claimed again, and besides the operator only a call its last holder sent in time moves it |
| `StoreImplementsLifecycle` | `RunLease` implements `RunLifecycle` |

The argument. `AttemptAccounting` is not inductive: that a claim keeps within the budget needs `LeaseShape` (a
queued run has spent nothing, so `attempt + 1` is within it), and that a token never matches a second row needs
the tokens in rows and grants to be at most `minted` and distinct. `LeaseInv` is `TypeOK`, `LeaseShape`,
`AttemptAccounting`, `LastLeaseRules` and `GrantShape`, the part about tokens. Its preservation is one lemma for
a claim (`TakeKeepsInv`) and one for every statement that rewrites a row and either keeps the lease or drops
it (`RewriteKeepsInv`), which renewals, outcomes, cancellations and requests instantiate. Fencing then follows:
of two grants of a run the earlier attempt has another token than the row. `HostExclusive` itself is no
invariant, as `lease_stale_clock` shows, and nothing in the code bounds the lag to 0; what holds at any lag is that claims
are not to blame. A claim tests `HOST_IDLE` at an instant that is past, when every lease that is unexpired now was
unexpired too, so lateness makes it refuse more, never less. A renewal tests its own lease alone, and at a past
instant a lapsed lease passes: that step is `Revived`, which needs a lag of more than the time since the expiry. The same
bound limits what can still happen to an exhausted run.

`ControlPlaneProofs`, for any runs, workers, documents, lease lengths, any number of requests and of invocations in
flight:

| theorem | statement |
|---|---|
| `ControlInvariant` | `ControlInv` always holds |
| `ControlTypes` | `TypeOK` |
| `ArtifactsResolve` | `ArtifactBacked` |
| `AnswersAreKept` | `AcknowledgedHolds` |
| `AuditNeverLies` | `AuditAgreesWithRow`: endings agree with the row, and `partial` has a cause for each entry |
| `HandlersImplementLease` | `ImplementsLease` |

The argument. An answer is only as good as what its handler did some awaits earlier, so none of these is inductive.
`Holds` says for each await what an invocation carries and has written by then: whom it acts for (`Addressed`), the
lease its token was granted with (`Granted`), the event, audit entry and theatre line of its claim (`ClaimKept`), the
state it set (`EndKept`), the object and the row of its upload (`UploadKept`). The last three last because logs and
storage only grow and a final state is never left. The audit log is the delicate part, for its entry and the statement
it reports are two awaits: the entries written and those still owed by invocations in flight are distinct together
(`OwedOnce`) and agree with the row (`LogsAgree`), whence no outcome is logged twice when two of them overlap. That
holds of the endings no event shares a name with. `run.partial` is also what `worker.ts:246` writes for an event that the
runner reports (`control-center-runner.ts:153-156`) while the row is running, and then the row may end otherwise; what
holds of it is a count (`PartialsCounted`): the entries written and those still owed are no more than the partial
events reported, plus one once the row is partial.
`TokensCounted` (tokens and requests still to be served are no more than were issued) bounds tokens. The refinement
goes step by step: a statement's instant is the one its handler read, hence some instant not after the present one,
and a row that passes the WHERE is one the abstract statement allows; every other await leaves the table alone.

`DispatchProofs`, for any keys, intents, slots and number of requests:

| theorem | statement |
|---|---|
| `DispatchInvariant` | `DispatchInv` always holds |
| `DispatchTypes` | `TypeOK` |
| `OneRunPerKey` | `KeyMeansOneRun` |
| `OneCallAtATime` | `SingleFlight` |
| `EveryWorkflowCounted` | `WorkflowsAccounted` |

The argument. From the insert on, an invocation carries the intent that is stored (`RequestsAgree`), and of those that
hold `created` and have yet to log it there is one for each key (`OneClaim`), while nothing is logged
(`ClaimsAreLogged`, `LoggedOnce`). For GitHub, an invocation between taking the row over and recording the answer owns
a row in progress (`FlightOwns`), alone (`OneFlight`), and such a row has its caller or lost it to a drop
(`RowHasOwner`). While the call is still to come its attempt has no workflow (`CallsPending`), so the call adds one at
most for that attempt; and attempts and invocations that may yet make one are no more than requests
(`AttemptsCounted`).

`RunnerExecutionProofs`, for any machines, files, attempts and either reading of the first renewal:

| theorem | statement |
|---|---|
| `ExecutionInvariant` | `ExecutionInv` always holds |
| `RunnerTypes` | `TypeOK` |
| `HonestOutcomes` | `OutcomeIsHonest` |
| `OutcomesAreFinal` | no step changes a recorded outcome, what it was based on, or the artifacts stored under it |

The argument. `Agrees` relates a runner's place in its program to what is stored and to its scan: what it listed and
has no more to upload is stored or oversized, and a scan that was sent a signal makes it report a failure, since
nothing clears its lost lease before it judges the scan. Storage only grows, so the steps of other machines keep it.

`ModelBudgetProofs`, for any caps, prices, sizes, overshoot of the estimate and number of requests:

| theorem | statement |
|---|---|
| `BudgetInvariant` | `BudgetInv` always holds |
| `BudgetTypes` | `TypeOK`, with at most `maxCalls` calls |
| `BillStaysWithinBudget` | `BudgetHolds`: the bill is within the caps, beyond them goes only the error of the input estimate, of one call and of each call that reported no usage |
| `NothingSentAfterStop` | `StopIsFinal` |
| `CallsAreSpaced` | `CallsSpaced` |

The argument. `BudgetHolds` says nothing of a request that was checked and still sleeps. `BudgetInv` adds
`ChainOrdered` (all requests before one that has begun have settled), whence at most one is asleep or in flight
(`OneActive`); `AsleepFits` (what was checked before the sleep still holds, for nobody else moved the ledger);
and `InflightFits` (while a call is in flight the ledger is ahead of the bill by the whole reservation, so that
replacing it by the real usage keeps it ahead). The lemmas on `CostOf` say that it is linear and monotone.

`PublicationProofs`, for any files, candidates, people, validation records and bounds:

| theorem | statement |
|---|---|
| `TrustInvariant` | `TrustInv` always holds |
| `TrustIsEarned` | `TrustedIsEarned`: what is trusted for its current digests passed the gate and was approved by a person |
| `ApprovalsStayReadable` | `AcknowledgedIsReadable` |
| `PublicationInvariant` | `PublicationInv` always holds |
| `PublicationIsAuthorized` | `PublishedIsAuthorized` |
| `PublicationTypes` | `TypeOK` |

The argument. `TrustedIsEarned` speaks of current digests only; `TrustInv` says the same of the digests a trusted
entry's review names, whatever entry and implementation have become, and that an eligible gate result on file was
given for digests that passed. An edit keeps both; a decision that makes an entry trusted was applicable, and then
review, gate result and current digests agree (`DecisionsThatTrust`). `AcknowledgedIsReadable` is inductive by
itself: no step takes a line out of the store, and a recording extends it only after a newline.

`PublishedIsAuthorized` compares what goes out with the inputs read a second time. `PublicationInv` follows an export:
which step it is at, and what is empty until then (`Phases`); that all it relies on was on file at some moment since it
began (`SeenDuring`); that each line it holds was signed by the reviewer it names, with a key allowed during the export
(`HeldLinesHold`); and that the contexts it trusts speak for approvals of this report (`TrustedIsSound`), or the
reviews of its authority for signed ones and for probes that passed the gate (`AuthorityIsEarned`). Contexts hold
digests, and digests are injective: a record read the second time that has the digest of a context is the record that
was approved, whatever happened to the files in between.

`AdaptiveSessionProofs`, for any site, sessions, caps, bounds of ledger and view, and any cap of unknown actions:

| theorem | statement |
|---|---|
| `SessionAgrees` | `SessionInv` always holds |
| `CompletedOnlyWhenEarned` | `CompletedIsEarned` |
| `AbortReported` | a result of an aborted session has the cause of the abort for its status |
| `FinalFilesWhole` | a session that is over has a result, and its files hold all its evidence, its candidates and its ledger |
| `LedgerIsTrue` | `LedgerInv` always holds |
| `AdaptiveTypes` | `TypeOK` |
| `DiskResolves` | `DiskRefsResolve` |
| `LedgerMatchesEvidence` | `LedgerAgreesWithEvidence` |
| `CompletionIsHonest` | `CompleteCoversShown` |
| `SchedulerIsPatient` | `SchedulerNeverPremature` |

The argument. The count of unknown actions runs ahead of the trace by the turn under way, and stays behind it when an
action is refused. `Running` relates the two at each await (`Counted`, `Accepted`, `Refused`), and recording the turn
brings the trace up to the count (`AppendUnknown`, `AppendDenied`). `Flushing` and `Ended` carry the verdict or the
count that earned the status to `Close`, past aborts: nothing but an earned status, another one, or a cause, reaches
the phase `end`. `Flushed` follows the last flush file by file.

What the ledger says of the evidence is not inductive either, for between an action and its record in the ledger the two
differ, and an abort may leave a record the ledger never learns of. `LedgerInv` therefore says how many records the ledger
has learnt (`Learnt`) and of those alone that each executed obligation cites a probe of its page and subject, that the
open dialog names the click that opened it (`Filed`), and that inspected pages owe no semantics (`Inspected0`). While an
action runs, what the ledger knows of skip links and of the page is that of the page the action started on: it is why a
record learnt only at the end of the turn is filed under the right page (`Kept`). What a turn was shown is an obligation or
the ledger is marked as cut (`Covered`), which later steps keep because a ledger only grows (`Grows`): no page is renamed,
no executed obligation reopened, and a skip link is deferred only on pages without one. `ObserveOK`, `RecordAllOK` and
`DecideOK` show this of the three large operators. They fold over sequences; `FoldLeft` is a recursive choice over sets of
positions, and the section on folds shows once that such a fold has the value of a chain of single steps, by the well-foundedness of
the numbers in its set form, so that no induction over data is needed.

`writeFile` empties a file before it fills it, so a crash inside a flush leaves a file without JSON; `disk.begun` is the set of
files in that state. `DiskRefsResolve` claims what holds at a crash all the same: such a file is the one being written and no
other, unless an error or an abort ended the loop inside a flush (the last flush then writes every file again), and while
`evidence.json` and a file that cites it are both whole, what is cited is there. Between a record and its flush candidates and
ledger in memory cite what the disk does not have; `LedgerInv` follows which files are behind, in the order of `flush()`.

`SchedulerNeverPremature` compares what the scheduler decided from a clipped view of the frontier with what the controller
later makes of the whole ledger. `SchedInv` holds of scheduler sessions only. `Roaming`: nothing in the ledger is blocked, and
each of its pages is visited or was found and is one the session may go to. A blocked obligation needs a refusal that names a
page; the scheduler navigates only to an unvisited page of the ledger while surfaces are left, which `validate` does not
refuse. `Proposing`: when `complete` is proposed nothing of the ledger is pending, for the view clips what it lists but `remaining` counts
every pending obligation of the ledger; the ledger does not change after that, because the turn that finishes has no record left to tell
of. Then the controller finds neither pending nor blocked, and no cut (`NothingPendingCompletes`). The property asks for
completion accounting, for without it a session has no outcome, and `resolveCondition` does not demand it of a scheduler
(`executor.ts:83-91`).

`SiteAuditProofs`, for any sites, sharing ids or not, any commands, policies and delays a host asks for:

| theorem | statement |
|---|---|
| `RequestsArePaced` | `Paced` |
| `FilesTellTheirOrigin` | `SiteInv`, the inductive invariant of the files |
| `WatchFollowsTheScans` | `WatchIsHonest` |
| `AggregatesFollowTheScans` | `AggregatesAreHonest` |
| `AuditTypes` | `TypeOK` |

The arguments. `Paced` speaks of the last request; the next one depends on what the one before was answered. `PaceInv`
says of the navigation under way which attempt it is at, and that the backoff slept before it is at least what the host
asked for up to the cap (`BackoffBounds`). A request adds the policy's delay, a throttled answer sets the next backoff,
and each other step either leaves both alone (`QuietOK`), opens the next URL (`GotoOK`) or ends the command (`EndOK`).

Files carry the number of the command that wrote them. `SiteInv` ties each to the scans of that command: a report
quotes exactly what they saw (`Reports`, `ReportTrue`), a summary names only sites that saw a finding (`Summaries`). It
holds of files of any age because the scans of a command on a site are fixed once the site is left (`ProceedsHistory`,
`OthersKeptTheirScans`). While a command runs, the probe files of the surfaces scanned so far are its own, whatever else
the directory holds (`Filing`, `OneMoreProbe`): triage reads back those and no others. A site not yet come to has neither
scans nor a report of the command (`ToCome`), so that the books of a cohort have one line per key seen on a site that
passed (`Booked`), `n` entries for the first `n` sites (`Progress`), and each step adds at most one of either
(`SitePassesKeeps`, `SiteFailsKeeps`). What ends a command makes its summary final (`Finished`), until a later command
starts in its directory. WATCH then compares two reports of which each says what was seen, and `ComparedTrue` does the
rest; for mining, a family names at most the municipalities that saw the finding. Sites are told apart by their place in the cohort and directories by
id, for `CohortSchema` lets two sites have one id: they share a directory, and the later one overwrites what the earlier one left. A
report names the site it was made of, as its entry point does, and `Linked` says that the directory of a site that passed
holds a report of this command and of some site of that id; the books are kept from what the audit returned, so that families stay
right. `CohortAssumption` asks for at least one site and nothing else of ids. A step of an audit after its scans may throw as
the scans may (`AuditThrows`): the files before it stay and the site counts as an error.

`TypeOK` says more than types: discovery keeps its limits, each surface on file is a page that was seen, each finding has an
impact and counts. `TypeInv` is `Stages`, `Discovery` (the memory of the scout) and `FilesTyped` (files of any age). The
delicate part is `surface.json`: the representatives are the sample in the order of `Ahead`, each placed by the number of those before
it. `Ahead` is a strict total order on the sample, by the position of a page where two are alike (`AheadOrders`), so ranks are
an injection of the sample into as many numbers, and each number is taken (`RanksAreTaken`). Nodes are counted as a finite set,
and the worst of a finding's impacts exists since impacts have ranks.

`LeaseColumns` and `OneLeaseRules` prove invariants (`LeaseShape`, `LastLeaseRules`) that no run states: they are
steps towards the others, and the proofs cover them for every size.

Only model-checked: liveness (`DispatchSettles`, `LostLeaseStopsScan`, `EveryRunSettles`, `EveryCallSettles`,
`SessionSettles`), which is out of the prover's reach. Every invariant and every other action property the passing runs check is
the statement of a theorem. What recursive definitions compute for every input is out of reach as well: the folds are proved
through single steps, as said above, and `Journeys`, whose property is that of a finding, has no theorem.

## 6. Findings

1. `lease_stale_clock` - host exclusion depends on statements being prompt. Handlers read `now` before they send the
   statement that compares it with the expiry and writes `now + leaseSeconds` (`cloudflare/src/d1-store.ts:166-176`).
   A renewal that arrives after the expiry it still believes in revives its lease although another run of the
   host was claimed meanwhile; `cloudflare/migrations/0002_host_keys_and_runner_selftests.sql:1` promises "at most
   one leased run per canonical host across all providers".
2. `runner_slow_renewal` - the heartbeat timer starts before the first renewal is awaited
   (`scripts/control-center-runner.ts:119-123`). A heartbeat that fails meanwhile aborts the controller before
   `runCommand` listens to it (line 55), and an aborted signal never fires again: the scan spawned afterwards
   survives the loss of its lease. `cloudflare/README.md:123`: "the runner's next heartbeat fails and it stops
   the child process".
3. `session_selected` - an action that threw is traced as executed unless a denial was stored meanwhile
   (`src/experimental/adaptive/executor.ts:356`). A navigation that timed out, or that the browser policy blocked after
   its last stored denial (line 202), then counts as selected in `funnel.ts:75-76`, which
   `docs/experiments/FRONTIER_BENCHMARK.md:101` defines as "a navigation to the page that the executor carried out".
4. `journey_safety` - `isSafeActivationTarget` is asked of the control a journey starts from; the second Enter of the
   expandable journey (`src/journeys/engine.ts:138`) goes to whatever has the focus by then. A menu button that moves
   the focus to its first entry has that entry activated, a link or a submit button. `.github/SCANNER_GUIDE.md:141`:
   journeys "do not submit forms, follow external links or intentionally write server state".

Divergences met while reading that no run states:

- `run.partial` in the audit log does not say that a run is partial: `worker.ts:246` writes it for a reported event and
  `worker.ts:265` for an outcome, and nothing but the metadata tells them apart. No document says otherwise.
- A budget's wall clock is checked before the wait for the call interval and not after it (`budget.ts:79-83`), so a
  call can be sent up to `minCallIntervalMs` late; `docs/experiments/ADAPTIVE_MISTRAL.md:50-52` calls the limits hard.
- Any file but `runner.log` and `execution-policy.json` counts as evidence (`scripts/control-center-runner.ts:152`), and
  a scan writes `events.jsonl` before it reaches the site: a scan that saw nothing may be recorded `partial`
  (`docs/CONTROL_CENTER_ARCHITECTURE.md:39`: "when valid evidence exists").
- `src/site/audit.ts:96-101` never passes journey runs to `buildSiteReport`: the journeys of a site report are always
  empty, and so are the journey gaps mined from it (`.github/SCANNER_GUIDE.md:148`).
- A sitemap location that is relative or malformed, or whose path has a stray `%`, throws out of seed discovery
  (`links.ts:19`, `seeds.ts:65`) and ends the audit, although `scout.ts:118` calls seeds best-effort. A link label with
  a stray `%` drops the rest of its page's links (`scout.ts:104-112`).
- A delay of 10 s or more aborts every fetch of robots.txt and sitemaps: their timer runs during the wait
  (`seeds.ts:13-16`).
- A site whose entry page fails passes with no surfaces. Fingerprints are unique per kind, not in the sample
  (`scout.ts:154`): an entry page reached under two kinds is tested twice and its findings count as repeated.
- A surface that was not scanned again, or an upgraded scanner, shows as RESOLVED and NEW (`docs/ARCHITECTURE.md:642`);
  `compareSiteReports` does not ask whether both reports are of one site.
- Two sites of a cohort may have one id (`src/cohort/contracts.ts:15`): they share a directory, surfaces of both get the same
  names in it, and the entry of the first links the report of the second (`src/cohort/run.ts:36`, `:89`).
- `flush()` (`executor.ts:207-212`) overwrites its files in place, evidence first: a crash inside the write of
  `evidence.json` loses the records of the whole session that candidates and ledger on disk go on citing.
- Denials of the browser policy never block an obligation (`FRONTIER_BENCHMARK.md:41`), a page's own navigation may
  exceed `maxSurfaces` (`ADAPTIVE_HARNESS.md:75`), and a navigation does not clear the open dialog of the executor.
- A refused action does not reset the count of unknown actions (`executor.ts:340-346`), so a session that answered
  unknown, was refused, and answered unknown again ends as "two consecutive unknown actions" (line 359).
  `CompletedIsEarned` states what the code does: nothing but refusals came in between.

## 7. What is not modelled, and the plan

Not modelled: authentication and the address predicates of containment and the browser policy (decisions on one
request; a model takes their verdict); population analysis, the operator interface, the theatre and its feed, the
HTML of reports (read-only views: nothing is decided from them); the self-test (one sequential script over handlers
that are modelled); the comparison of arms, the funnel and live trials (reports over finished sessions); schema
checks of onboarding, benchmark and provenance files; `classify.ts` (text heuristics; a page carries its kind); axe and
the browser, whose outcomes are theirs; the install script, whose effects are systemd's and git's; two commands of the
report tools in one directory at the same time; WATCH on journeys, since reports carry none; and, under "fairness",
that an audit ends. In an audit a file is written in one step: a file cut short holds no JSON, whoever reads it back
throws, and that is `AuditThrows` or a `Crash`; the next command that writes it starts over. In a session `denials.json`, which
nothing cites, is written with `evidence.json`, and a failure of the last flush or of `result.json` (the call rejects and there is no
result) is left out. A cohort has at least one site.

The order of the project: the lease first, since everything else relies on it; what surrounds it from the inside out
(handlers, dispatch, runner); the budget, the one part that spends money; then the session that spends it, with
frontier and scheduler; then what leaves the house (publication, promotion); then what feeds it (audit, journeys,
watch, mining). The proofs followed the same order. What remains with TLC is liveness, for the bounds of the runs.

## 8. Running it

```
tlc -workers 2 -config lease_lag.cfg MCRunLease
tlc -workers 2 -config control_plane.cfg MCControlPlane
tlc -workers 2 -config dispatch.cfg MCDispatch
tlc -workers 2 -config runner_loop.cfg MCRunnerExecution
tlc -workers 2 -config model_budget.cfg MCModelBudget
tlc -workers 2 -config session.cfg MCAdaptiveSession
tlc -workers 2 -config publication.cfg MCPublication
tlc -workers 2 -config audit.cfg MCSiteAudit
tlapm RunLeaseProofs.tla
tlapm ControlPlaneProofs.tla
tlapm DispatchProofs.tla
tlapm RunnerExecutionProofs.tla
tlapm ModelBudgetProofs.tla
tlapm PublicationProofs.tla
tlapm AdaptiveSessionProofs.tla
tlapm SiteAuditProofs.tla
```

`lease_stale_clock`, `runner_slow_renewal` and `session_selected` use the same MC modules and `journey_safety` (with
`audit_journeys.cfg`) uses `MCSiteAudit`; each ends with a counterexample. `PROJECT.json` lists components, runs, mutants, the lines each definition stands for, findings,
hazards and theorems.
