# Verification of the advisory engine

TLA+ modules, TLC configurations and TLAPS proofs for the advisory proposal
service in this repository. Paths below are relative to the Python package
`src/` of the repository (`core/proposals/...`, `infrastructure/...`, `api/...`).

How to run, in this directory:

    tlc -workers 2 -config Lifecycle.cfg MC_ProposalLifecycle.tla
    tlapm ProposalLifecycleProofs.tla

`PROJECT.json` lists every run with its module and properties, the source lines
behind every definition, the mutation that breaks each property, the findings,
the hazards and the theorems.

## 1. The system

The service keeps advisory proposals for portfolios: it simulates a proposal,
stores it with its evidence, takes it through review, approval and client
consent, hands it to an execution system, and records what that system reports.
Around that it evaluates proposals against policy packs, keeps memos and AI
drafts that people review, edits proposals in workspaces, and realizes the
intents of an idea engine. It is a FastAPI application with synchronous routes,
so requests run concurrently in a thread pool, in several processes, over one
PostgreSQL database. There are no locks in the application: all coordination is
by keys, conditional updates and constraints in the database. External services
(portfolio data, risk, reports, AI, performance) are called over HTTP.

| Component | State it keeps | Operations and interactions | What makes it hard | What makes it correct |
|---|---|---|---|---|
| Workflow rules (`workflow_rules.py`) | none | tables from state and event to state | - | terminal states are final; consent precedes readiness |
| Lifecycle commands (`*_command.py`, `lifecycle_events.py`, `versions.py`, `execution_*.py`, `narrative_review.py`, `reporting.py`) | rows of a proposal | transition, approval, new version, handoff, update, review, report: read, decide, conditional write | races between read and write, retries under a key, late and repeated downstream reports, two-transaction version creation | the trail is a chain that ends in the state; one effect per key; versions immutable and numbered without gaps |
| Proposal repository (`infrastructure/proposals`) | records, versions, events, approvals, idempotency rows | transactions with a compare-and-set; upserts; insert or compare | partial commit, last writer wins | a lost compare-and-set leaves nothing |
| Read views (`execution_status.py`, `projections.py`, `*_read_*.py`) | none | project what is stored | events are listed by the times others supply | the status follows what happened |
| Proposal creation (`create_command.py`) | proposals and the key row | look up the key, simulate, one transaction | overlapping requests with one key | one proposal per key |
| Async operations (`async_*.py`, `service_async_operations.py`) | the operation row with status, attempts, lease | submit, run until terminal, recover at start, operator control | whole-row overwrites, crashes, leases, restarts, operators | bounded attempts, results that are the operation's own, termination |
| Memos (`memo_*.py`) | memos, memo events, key and reservation rows | create, review, request report or AI package | unique rows inserted by racing transactions; a reservation, an external call, then the event | one memo per version; one request per key; one report per key |
| Idea intake and realization (`idea_*.py`) | intakes, realizations, outcomes | claim, reconcile with a proposal, expire | compare-and-set on a version number, intents that share a proposal | the realization is what its history says; a proposal realizes one intent |
| Workspace (`core/workspace`) | draft sessions, saved versions | edit, evaluate, save, resume, hand off to a proposal | whole-session saves with no compare-and-set | saved versions stay numbered and distinct |
| Policy packs (`core/policy_packs`) | catalog, evaluations, audit events, keys | validate and activate versions; finalize, decide, report | whole snapshots loaded with several statements, changed and saved | events are never lost; maker and checker differ; reports follow a sign-off |
| Advisory copilot (`core/advisory_copilot`) | evidence packets, runs, reviews, slots of the AI service | project evidence, draft, refresh, review | copies written back over refreshed rows; retries; a pool of slots | a reviewed posture has a review by another and a draft; evidence is kept; slots return |
| Advisor cockpit (`core/advisor_cockpit`) | acknowledgements | project, acknowledge | keyed write | idempotent acknowledgement |
| Advisory engine (`core/advisory`, `core/common`, `core/advisory_engine.py` and others) | none | simulate: cash flows, trades, funding, rules, status; decide: suitability, gate, risk lens, decision summary | rounding, the order of intents, currencies that fund each other, trades that are dropped; four layers of checks that can each be off or degraded | a ready proposal carries all its trades and can be executed in order; it reaches the client only when every layer lets it |
| Record lifecycle, replay evidence, bank demo proof | none | pure classification and evidence | - | - |
| Integrations (`integrations`) | none | HTTP clients | slow or failing peers | - |
| API and runtime (`api`, `runtime`) | capability and principal configuration | routes, wiring, recovery at start | - | - |

The complete list with sources is under `components` in `PROJECT.json`, the
behaviours that are hard to test under `hazards`.

## 2. The modules

    Values                         None, the value of an absent column
    ProposalWorkflowRules          tables and rules (no state)
      ProposalAggregate            abstract: one proposal, one legal step at a time
      ProposalRepository           rows and transactions of one proposal
        ProposalLifecycle          commands of concurrent workers; implements ProposalAggregate
          ExecutionPosture         the execution status, projected from the trail
            MC_ProposalLifecycle   instances
          ProposalLifecycleProofs  inductive invariant, refinement, version numbers
            ProposalTrailProofs    keys, handoffs, outcomes, reports, approvals, consent, status
    ProposalCreate                 one key, its row and the proposals created under it
      AsyncOperations              runners, recovery, operators and synchronous requests
        MC_AsyncOperations         instances
        AsyncOperationsProofs
    SnapshotStore                  what saving a whole snapshot does to the tables
      PolicyCatalog                versions of a policy pack
      PolicyEvaluations            evaluations, decisions, report packages
        PolicyPackProofs           both of them
    ProposalMemos                  memos of a proposal
    AdvisoryCopilot                packets, runs, reviews, slots
      DocumentReviewProofs         both of them
    IdeaRealization                intakes and realizations
      IdeaRealizationProofs
    WorkspaceSessions              one workspace
      WorkspaceSessionsProofs
    AdvisorySimulation             one simulation, stage by stage
    AdvisoryDecision               suitability, gate and decision on a simulated proposal
      AdvisoryEngineProofs         both of them
    MC_Stores                      instances of the components that share nothing

### ProposalLifecycle

One proposal that has just been created. `Clients` are API workers, each with
one command in hand (`cmd[c]`). A command goes through the steps of the code,
and the steps of other workers run in between:

| Action | Code |
|---|---|
| `Receive` | the service takes `utc_now()` and calls the command function |
| `Load` | `load_proposal_command_read_model` reads the record |
| `Replay`, `Refuse` | `find_replayed_event` and the error answers |
| `BuildTransition`, `BuildApproval`, `BuildVersion`, `BuildHandoff`, `BuildUpdate`, `BuildReview`, `BuildReport` | the decision of each command and the rows it builds |
| `StoreVersion`, `LoseVersion` | `create_version`, a transaction of its own |
| `Commit`, `LoseCommit` | `transition_proposal`: compare-and-set on state and version, event, approval, foreign key |
| `Crash` | the process dies, or an earlier step raises |

What is abstracted:

- A request hash is the request. `hash_canonical_payload` is taken to be
  injective; hashes are compared only under one key.
- A transition or an approval carries a free reason or details, which may note an
  idempotency key without a request hash. Such an event is found under that key
  and answers any request (`RecordedKey`, `RecordedHash`, `MatchesReplay`), so the
  model sends commands that note a key. That free text could also name a hash of
  its own is left out.
- `execution_request_id` stands for the pair of request id and provider.
- Time is the number of events committed, so any two commands that run between
  two commits have equal timestamps, and a scan for the latest event may pick
  any of those with the greatest time. An update may bring a time of its own.
  The `generated_at` of a report answer counts as the server's clock.
- `BuildReview` and `BuildReport` read several tables; what they decide on can
  only grow (version rows) or is compared again at the commit (the record).
  Narrative contents and their review postures are left out, so a review or a
  report that the narrative would forbid may be taken in the model.
- A `related_version_no` that has no row stands for every such number; 0, which
  `or` treats as absent, is `None`.
- `last_event_at` and the content columns are left out, a version row is its
  identity.

`ExecutionPosture` adds no state: `LatestStatusEvents` and
`ExecutionStatusResponses` are what `build_execution_status_response` may answer.

### ProposalCreate and AsyncOperations

One idempotency key, one operation, several processes. `ProposalCreate` is the
key lookup and the creating transaction; `AsyncOperations` runs it from
background runs and from synchronous requests, which share the key. A worker is
the event loop of a process, which recovers before the process serves, or a
thread of its pool, which takes a request or a background task at a time.

| Action | Code |
|---|---|
| `Submit` | `accept_create_proposal_async_submission`: insert if absent, schedule |
| `SubmitUnanswered` | the insert commits, its answer is lost and nothing is scheduled |
| `SyncCreate` | `POST /advisory/proposals` under the same key |
| `LoadOperation`, `FailExhausted`, `BeginAttempt`, `StoreOutcome` | `run_async_operation_until_terminal`, one database access each |
| `LookUpKey`, `RaiseError`, `CommitCreate` | `create_proposal_command` |
| `StoreError` | the load, the begin, or the store of an outcome raises; the error leaves the runner and ends the task, or the start of the process, with the row written or not |
| `Crash`, `Start` | a process dies; the lifespan hook recovers once |
| `Tick` | a lease runs down (`lease_expires_in` is what is left of it) |
| `EvaluateQuarantine`, `Quarantine` | `quarantine_controlled_operation`: read and decide, then overwrite |

Every write of an operation replaces the whole row by the writer's copy, as
`update_operation` does. Only what the executor raises becomes an outcome: an
error of the runner's own accesses is caught by nobody, so an operation may stay
PENDING or RUNNING in a live process. Operators here have the control
capability; the decisions that write nothing are not actions.

### PolicyCatalog and PolicyEvaluations

Both stand on `SnapshotStore`. A command loads the tables with one SELECT each,
decides on the copy, and upserts every row of the copy in one transaction. The
first upsert of a save locks a row that every save locks, so savers queue
(`policyQueue`, `evalQueue`), and the event count that the WHERE clause compares
is that of the statement's snapshot, taken before the wait (`counted`).

| Action | Code |
|---|---|
| `LoadDefinitions` or `LoadRecords`, `LoadEvents` or `LoadEvalEvents` | the first two statements of `load_snapshot` (READ COMMITTED); the third is part of the step that decides on the copy |
| `ValidatePolicyPack`, `ActivatePolicyPack`, `ReplayPolicyCommand`, `RefusePolicyCommand` | `catalog_commands.py` on the copy |
| `StartSave`, `CommitSave`, `RollBackSave` | `save_snapshot` |
| `CheckEvaluation`, `EndAtCheck` | the reads and refusals before a decision, a report or AI evidence |
| `RequestPolicyReport` | the call of the report service |
| `RecordEvalEvent`, `ReplayEvalCommand`, `RefuseEvalCommand` | finalization, decision, report archive and AI evidence on the copy (`persistence_store.py`) |
| `PolicyWorkerDies`, `EvalWorkerDies` | a process dies; its transaction rolls back |

Whether an activation needs another actor than its validation depends on the
version (`MakerCheckerVersions`, `maker_checker_required` of the definition).

An evaluation id is the hash of the evidence, so two finalizations of one
evidence meet in one row. The index that would find the first one is not stored:
a second finalization under another key builds the record anew, with its own
maker and empty lists. Its event is numbered on from the loaded ones
(`NextEventId`) and then is the whole list of the copy (`EventsWith`). While the
first finalization is the only event such a save passes the count check and
commits; once anything else is recorded it rolls back. AI evidence adds an event
that no list of the record names (`ListedTypes`).

Evaluations of evidence without a legal entity are BLOCKED; they exist at the
start, since the server now fills the entity in. The request of one, sent again
under its key by its maker, is evaluated anew (`RepairsEntity`), and the key moves
to the new evaluation (`EvalKeysAdmitted`). Records are upserted in the order of
their `generated_at`, which no later upsert changes, so the blocked ones come
first (`BlockedAssumption`).

The requirements of an approval are taken as satisfied, and content hashes as
unchanged: the refusals they lead to write nothing.

`PackStaysActive` starts from a pack with one active version. Without one it is
false: a validation whose save counted the events before it waited may write the
first row of the catalog as it was, over an activation. Only the row that sorts
first in the whole catalog is exposed to this, and its pack
(`GLOBAL_PRIVATE_BANKING_BASELINE`, `catalog_reference_packs.py:21`) is seeded
active (`catalog.py:114`).

### ProposalMemos

| Action | Code |
|---|---|
| `AnswerByMemoKey`, `MemoKeyIsFree`, `LookUpMemo`, `MapMemoKey`, `CreateMemo`, `CreateMemoFails` | creation under an Idempotency-Key, one database access each |
| `CheckMemo`, `FindMemoEvent`, `ReserveMemoEvent`, `CallMemoService`, `AppendMemoEvent` | a review, report or commentary: check the memo, look for the event, reserve the key, call the service, append |

A memo is what it is unique by, its proposal version. Events are ordered by the
arrival of their requests, as `occurred_at` orders them.

### IdeaRealization

| Action | Code |
|---|---|
| `ClaimIntake`, `IntakeExpires` | the claim of an intake, a transaction; its expiry |
| `ReceiveReconciliation`, `LoadHistory`, `LoadProposal`, `Advance`, `AdvanceLost` | reconciliation: read realization and outcomes, read the proposal, decide, compare-and-set |
| `LinkableMoves` | the lifecycle moves a proposal meanwhile |

The fingerprint of an intake is injective. Proposals appear, and end in one of
`Endings`, as the lifecycle lets them.

### WorkspaceSessions

| Action | Code |
|---|---|
| `ReadSession`, `ReadVersions` | `get`: two statements |
| `Evaluate` | the evaluation, which takes long |
| `HandOffProposal`, `HandOffVersion`, `CreateForeignVersion` | the handoff creates a proposal or a version; others create versions too |
| `StoreSession` | `save`: the row and the saved versions are replaced by the copy |

Drafts are values; evidence is the draft it was captured for.

### AdvisoryCopilot

| Action | Code |
|---|---|
| `ReadPacket`, `WritePacket` | a packet is compared with the stored one and then upserted |
| `LoadPacket`, `ResolveReplay` | a request for a run: packet, key, stored run |
| `TakeSlot`, `AnswerPost`, `RetryPost` | the slots and attempts of the AI client |
| `PersistRun`, `InsertRun`, `RefreshRun` | a new run with its key, or a new draft for one that had no usable draft |
| `ReadRun`, `CheckReview`, `AppendReview`, `UpdateReviewedRun` | a review: four database accesses |

The draft of a run is told by the posture it was made with. The workers are the
threads of one process, which share the slots.

### AdvisorySimulation

A simulation is sequential: each action is one step of
`run_proposal_simulation`, the stages follow each other (`NextStage`).
`ReceiveSimulation` takes an input, `ApplyCashFlow` and `BuildTradeIntent` go
through the flows and trades, `ApplySell`, `FundCurrency` and `ApplyBuy` change
the copy of the portfolio and emit intents, `ReviewSimulation` gives the status.
Amounts are halves of a minor unit: the least precision in which rounding half
to even, up and down differ. Weights and totals are not computed: which of the
rules about them fail is an open choice, so what is shown holds for any answer.

`ReadyIsExecutable` is about what intents take, not about balances being
positive. With `block_negative_cash` off a withdrawal may leave a balance
negative, which a later FX intent restores in part; no FX or buy then takes from
a balance what is not there, and that is what the funding is for.
`BuysWaitForFunding` measures the cash before the first FX intent, as
`_target_currency_funding_need` does, and allows the half of a minor unit by
which the FX amount may be rounded down.

### AdvisoryDecision

What follows a simulation, in the order of `advisory_engine.py` and
`orchestration.py`: `ScanSuitability` (`compute_suitability_result`),
`DecideGate` (`evaluate_gate_decision`), `EnrichRisk`, where the risk service
answers or does not, and `SummarizeDecision`
(`build_proposal_decision_summary`). `ReceiveSimulated` takes the weights before
and after, the shelf, what is bought, the policy context, the options, the
severities of the rules that failed and the market data that is missing. Weights
are whole percents, so the tolerance of 0.0000001 is left out; products are not
cash. An issue is its key, dimension, severity and implication: reason texts,
sort orders and the material changes of the summary are left out. A blocking
approval is one of two types whatever it is for, so `blocking_until_approved` is
an operator on the type.

The property states two exceptions that the code has. A holding that had no
issuer or liquidity tier before the proposal and still has none is a persistent
issue of data quality: it asks for a `DATA_REMEDIATION` with
`blocking_until_approved`, which `decision_summary_models.py:45` describes as
"Whether this requirement blocks further progression", while gate and decision
status let the proposal go to the client. And an exposure that was over its
limit and grows stays persistent, also when its severity rises, so that only its
approval, not the status, asks for a review.

## 3. What the runs check

Runs that pass:

- `Lifecycle` (two workers, one of three scenarios). In the first, of six events
  and two versions, submissions, approvals, a refusal, cancellation, consent for
  a named version and new versions race. In the second, of four events, reviews
  and reports do, while versions are stored and published. The third, of seven
  events and one version, takes the shortest way to `EXECUTION_READY` under keys,
  with handoffs with and without a key, updates that repeat, contradict, predate
  and name a version, and an execution recorded by hand. Types; the trail is a
  chain that ends in the state; every version has its row and rows are
  immutable; a proposal is ready only after review and consent of its current
  version; approvals exist only with their events; terminal states are final;
  the version number follows the trail; reports name published versions; a key
  moves the proposal once; every update follows its handoff; execution has one
  outcome; `ImplementsAggregate`.
- `AsyncOperations` (two processes, one with two threads, one operator, two
  payloads, two attempts, one crash, one error of the store): bounded attempts,
  results that are the operation's own, and `RunsEnd`: a run that has begun ends
  unless a process dies or the store fails once more.
- `Stores`: every component of section 2 with a store of its own, one at a time.
  The initial state picks the component and the others stay as they start.
  Policy catalog: audit events are only added to, a key names one event, an
  activation was checked, by another actor where the version asks for it, the pack
  stays active.
  Evaluations: a record is what its trail says, nobody approves an evaluation
  that nobody else has finalized before, reports follow a sign-off, keys and
  events name each other. Memos: created once, one request per key,
  one report per key. Ideas: the realization follows its history, a proposal
  realizes one intent, a closed realization has the status of its proposal.
  Workspace: saved versions stay numbered and distinct. Copilot: reviewed
  postures have a review by another and a draft, evidence is kept, slots return.
  Simulation: a ready proposal carries all its trades, can be executed in order,
  and buys wait for the exchange that funds them. Decision: a proposal goes to
  the client only if no layer of checks holds it back (`ClientStatusIsEarned`,
  stated on weights, shelf and context, not on the issues that were found).

Runs that show a disagreement between the code and what its documents say (the
quotes and lines are under `findings`):

- `LifecycleStaleUpdate`: an update for an earlier version's handoff makes a new,
  unreviewed version ready for execution.
- `LifecycleDuplicateUpdate`: two overlapping deliveries of a partial update are
  both recorded.
- `LifecycleOtherVersion`: an update may name another version than the one handed
  over.
- `LifecycleOrphanVersion`: a stored but unpublished version is shown as current.
- `LifecyclePosture`: the status of an executed proposal stays `ACCEPTED`.
- `AsyncRestart`: a process restarted within the lease of its predecessor leaves
  the operation running for ever.
- `CreateTwice`: two overlapping creations under one key create two proposals, by
  two threads of one process.
- `PolicyStaleRecord`: a policy command that loads around the commit of another
  one writes an old record over the new one.
- `PolicySelfApproval`: after a second finalization by another maker the first
  maker approves the evaluation.

`ConsentForCurrentVersion` passes in `Lifecycle`, where no scenario has both
execution updates and new versions, and fails with both in `LifecycleStaleUpdate`;
section 4 says that this is the only way in which it can fail. `KeyMovesOnce`
states the exception the code has: an approval looks for its key among the
approvals only.

### Bounds

Two workers give every order of one command's steps around another's; the
compare-and-set is on one row, so a third worker adds no new kind of conflict
(the theorems hold for any number). Version numbers up to 2 are enough for a
version that is current, one that is stored and one that was replaced. Event
limits are long enough for the longest interesting trails. In the first scenario
a proposal is taken from draft to `EXECUTION_READY` in four events, and six leave
room for a new version and a move in it, or for a cancellation. From draft to
executed with a handoff takes six, and seven leave room for one more. Reviews and
reports repeat freely, so their scenario stops at four: the draft, a new version
and two annotations around it. When a trail is full, commands that have read the
proposal go on and meet what was committed last, and no other one reads it.
`MaxVersions` and `MaxEvents` are guards of `BuildVersion` and `InsertEvent`:
the code has no such limit. Workers are symmetric. Version ids are taken from a
pool of three, enough for two stored rows and two in hand; where the pool is
used up `BuildVersion` waits.

In `AsyncOperations` a process that starts after the submission recovers, so one
recovery meets a running process without any crash, and the one crash adds a
second recovery of what the dead process left. Two threads of one process are a
background run and a request, or two requests; the second process has its event
loop only, which recovers. One error of the store may hit any access, also after
the crash or before it. An operator decides on a quarantine while the second
process is down and not beside its recovery (`MC_Choices`); a decision that an
operator takes up and never ends writes nothing and is left out with it, so
`RunsEnd` is checked for decisions that end. Without that choice the run passes
too, on three times the states. Two attempts are a first and a last one. A lease of one tick separates expired from active, the only
difference the code makes.

In `Stores` a component has two workers and takes three to five requests
(`MaxPolicyCommands`, `MaxEvalCommands`, `MaxMemoRequests`, `MaxIdeaRequests`,
`MaxWorkspaceCommands`, `MaxCopilotCalls`): enough for two that overlap, one
before them that prepares what they contend for and one after them that meets
what they left. Three versions of a pack are one that is active and two that
contend to replace it; two evaluations tell a save of one from a save of the
other; one slot and two attempts of the AI service make a request wait in vain.
Of the evaluations the first is blocked and the second its repair.
What is sent is narrowed where it tells nothing new: the first evaluation command
finalizes for the first maker, or decides on the blocked evaluation, as nothing
else is there; the last one is an approval or a report, which others would have
to follow; a reconciliation names version 1
or the stored one, as any other number is refused at once; the last copilot call
comes where no packet is projected and brings none.
The simulations are a grid of cash, flows, quotes, trades and options over three
currencies, so that a currency can be funded by two others, and four
instruments, one of which has no price. The decisions are a grid over three
products, two of one issuer, with weights at a limit, just over it and over 1.25
times it, five shelves, contexts that lack client or mandate, and options with
each layer off; the severity of missing data varies where data is missing. `CHECK_DEADLOCK FALSE`: requests are
bounded, and a behaviour ends when all are answered.

Each run reaches its bounds, and every mutation in `PROJECT.json` is found
within them.

### Fairness

`FairSpec` of `AsyncOperations` assumes that a live event loop or thread goes on
with what it has begun (`WF` of `RunnerStep`), that the supervisor restarts a
dead process (`Start`), and that time passes (`Tick`). Nothing is assumed of
requests, operators, crashes or errors of the store: `StoreError` may come
instead of any access. External calls have timeouts in the code, so an attempt ends.
The other components have no liveness property: a command may always be
abandoned, and nobody is obliged to move a proposal.

## 4. What is proved

For every set of workers, keys, requests, times and every bound, from the named
assumptions of the modules. They are the types of the constants and that `None`
is none of the values it stands beside (`RowAssumption`, `PolicyAssumption`,
`EvalAssumption`, `DecisionAssumption` and others); that keys and update ids
differ; that a failed rule is a hard or a soft one; and, in `SimAssumption`,
that quantities and prices are positive. The first is validated by the request
models; the second is what market data has to promise, since `Price`
(`core/portfolio_models.py:123`) does not check it.

`ProposalLifecycleProofs`: `Spec => []LifecycleInv`, and from it `TypeCorrect`,
`HistoryCorrect`, `VersionRowsCorrect`, `TerminalFinal` and `RowsImmutable`.
The properties are not inductive by themselves: a commit preserves the chain of
states only if the event it writes starts in the state that the command read.
`LifecycleInv` therefore adds, for each command in flight, `CommandCoherent` (the
event in hand starts at the state read, and the phases determine what is held)
and `CommandBehind` (the version read is not greater than the current one, and a
command that has stored a row has it where its version number says). With the
compare-and-set, state and version read are those of the proposal at the commit.
There is one lemma per action.

`Refinement` (`Spec => ImplementsAggregate`), in the same module, adds that the
event in hand is legal from the state read (`LegalInv`, one lemma per command); a
commit then is one step of the abstract proposal and every other step leaves it
alone. `VersionNumbersCorrect` follows the version numbers along the trail.

`ProposalTrailProofs` proves what the trail says. Its basis is `ReadsAreBehind`:
`Rank` orders the states so that every move within a version is upward
(`Advances`) or leaves the state alone, so where the state and version a command
has read are the stored ones, no move came in between, and what the command
decided on the trail it read still holds of the trail it extends.

- `KeysMoveOnce` (`KeyMovesOnce`). An event carries the key and the hash of its
  request, from the decision on (`KeyInv`). A command has found its key free when
  it decides; `KeyFree` says of every command in flight that no moving event has
  its key, or that the proposal has advanced since the read, so that the
  compare-and-set fails. An approval looks among the approvals only, which is the
  exception that the property states.
- `UpdatesAnswer`, `OutcomeOnce`. The handoff that a command in flight answers is
  in the trail (`HeldUpdates`), and an outcome puts the proposal in a state that
  it does not leave (`OutcomesEnd`).
- `ReportsPublished`: the record's version is the last one that the trail
  published (`VersionIsPublished`), and trails only grow.
- `ApprovalsRecorded`: event and approval row are written by one commit.
- `ConsentUnlessStaleUpdate`, `ConsentCorrect`. `ConsentForCurrentVersion` is not
  an invariant of the code (`LifecycleStaleUpdate`). The first theorem says why:
  wherever it fails, the trail has an execution update in a version that nobody
  had handed over before it (`StaleUpdate`). The second gives it back wherever
  requests have no updates or no new versions. `ConsentInv` carries, besides, the
  approval that precedes consent (`ApprovedInVersion`) and that a version that was
  handed over is at least ready for execution (`HandedOver`).

So have the other safety properties of the runs that show a disagreement, but for
two: `UpdatesNameHandedVersion` and `SignOffsByOthers` fail for want of a
comparison, and a hypothesis that supplies it would say no more than the
property. For the others, the run shows that the code can break the property; the theorem gives the
property back under a hypothesis on the behaviour, and so says that nothing else
breaks it. The hypotheses are no guarantees of the code: they name what a repair
would have to exclude.

| Theorem | Property | Holds as long as |
|---|---|---|
| `UpdatesRecordedOnce` | `UpdateRecordedOnce` | no two workers hold decisions on one update at a time (`UpdatesApart`); a repeated delivery that comes later is answered, whatever became of the first |
| `NoOrphanUnlessAbandoned` | `NoOrphanVersion` | a worker that has stored a version commits it (`StoredVersionsCommit`): it does not die in between, and does not lose the second transaction |
| `ExecutedShownInOrder` | `ExecutedProposalShowsExecuted` | the times in the trail do not decrease (`TrailInTimeOrder`); an update that brings its own time, or a command that arrived before another and commits after it, breaks that |
| `OneProposalUnlessRace` | `CreatedOnce` | no two workers, of one process or of two, have found the key free and not yet created (`CreationsApart`), with any number of crashes, store errors, recoveries and retries |
| `RecordsListUnlessDisturbed` | `RecordListsItsEvents` | no other worker adds an event while one is between its two loads or waits to save (`SnapshotsUndisturbed`) |

The last hypothesis has two parts because there are two routes to a stale record.
Records loaded before an event of another worker, with the events after it, pass
the count of the save; and a save that took its count before it waited for
another one writes the record of before. Excluding the first alone is not enough.
The first three are in `ProposalTrailProofs`, the others in `AsyncOperationsProofs`
and `PolicyPackProofs`. Each rests on an inductive invariant of the behaviours
that meet the hypothesis: `HeldUpdatesNew` (the trail has not what is about to be
recorded), `RowsAheadAreHeld` (a row ahead of the
proposal is some worker's), `ExecutedLast` (nothing of the execution follows the
event that executed it), `FirstCreation` (who found the key free creates the
first proposal), and `ListsInv` (records
between the two loads list the stored trails, a copy lists its own, and the count
of a save that waits is still right).

`AsyncOperationsProofs`: `Spec => []AsyncInv`; from it `AsyncTypeCorrect`,
`AttemptsCorrect` and `SuccessCorrect`. Every write of the
operation replaces the row by a copy that may be out of date, so the properties
of the row rest on what the copies satisfy: each is of the same payload with a
counter within the limit (`CopyOK`), is below the limit when an attempt is about
to begin, has counted one while it executes, and carries a result that is its
own when it has succeeded (`RunOK`). `StoredOK` says the same of the row and
`KeyRowOK` of the key.

`PolicyPackProofs`, catalog: `PolicySpec => []CatalogInv`, for any set of versions
active at the start; from it `CatalogKeysUnique`, `CatalogMakerChecker` and
`CatalogTrailsKept`. A save writes a whole copy of the catalog, with rows and
trails that may be older than the stored ones, so `CatalogInv` ties each
worker's copy to the tables: an event of the copy is stored at the same position,
or it is the one event that this worker adds, which is the last of its version,
has the worker's key and, if an activation, was checked within the copy. What it
was checked against is stored, and saves keep it. `CatalogStaysActive` is proved from one active
version at the start (section 2): an activation supersedes and activates in one
save, and each copy in flight has an active version too (`ActiveInv`).

The same module, evaluations: `EvalSpec => []EvalInv`; from it
`EvaluationTrailsCorrect`, `EvaluationSignOffsChecked` and
`EvaluationReportsSignedOff`. A save writes a whole copy, so `EvalInv` says of a
trail that it starts with a finalization and that each sign-off and report stands
on an event before it (`TrailOK`, `Founded`), and of a copy that every event in
it is stored (`StoredCopy`), or else that it is one evaluation with the worker's
own last event: alone after a finalization, behind all the others after another
command (`OwnCopy`). A save then adds at most that event, and trails only grow.
The maker that an approval is compared with is the maker of some finalization in
the trail, not of the first; that and the sign-off before a report are found by
an earlier read, and are kept in the invariant as facts about the trail, which
no later save undoes.

`DocumentReviewProofs`, memos: `MemoSpec => []MemoInv`. A memo has exactly one creation
event and a version without one has none, a key row names a memo that exists,
and a worker that is past the reservation finds its own request there, because
reservations are added and never changed: every keyed event has its request
reserved. A package requested under a key has the request id of that key.

`IdeaRealizationProofs`: `IdeaSpec => []IdeaInv`. A realization is new, linked or
closed, and determines its history; no two realizations have one proposal; and
what a reconciliation in flight has read is what is stored or has a smaller
version, so after the compare-and-set it was the former. Terminal proposals do
not move, which ties a closing outcome to the state it was taken from.

`WorkspaceSessionsProofs`: `WorkspaceSpec => []WorkspaceInv`: the stored versions
and every copy in hand are numbered, with distinct ids of commands that have
come in, and the id of a save in flight is in nobody else's copy.

The same module, copilot: `CopilotSpec => []CopilotInv`. Rows
and copies of rows are drafts as they were made, or postures that a stored
review by another gave to a draft that was open for review; packets that are no
projections keep the content that runs in flight rely on; free slots and calls
in flight add up to the limit (a count over the workers, hence the assumption
that they are finite).

`AdvisoryEngineProofs`, simulation: `SimSpec => []SimInv`, for any number of
currencies, instruments, flows and trades; from it `ReadyCarriesAll`,
`ReadyExecutable` and `BuysFunded`. None of the three is inductive: they speak of
sums over the plan, while the code spends from a copy of the cash. `SimInv`
relates the two:

- `LedgerMatches`: the copy is the given cash plus what the intents of the plan
  have moved; `SpendingCovered`: an FX intent takes only what there is, and after
  a buy the balance is at least what the copy ends with, which a ready proposal
  has checked.
- `IdsAreGiven`, `IdsAreUnique`, `NeedsComeFirst`, `PlanInOrder`: where an
  intent's id comes from, and that the plan is flows, sells, FX and buys.
- `FundingInv`: a currency whose buys lack cash has an FX intent that brings what
  is missing, or is noted as unfunded; until its turn comes it is only sold.
  `BuysAreLinked`: a buy needs the FX intents of its currency, and none is made in
  an unfunded one.
- `TradesAccounted`: every trade passed is in the plan or was dropped for a reason
  that is noted; `ReadyMeans`: a `READY` status has none of these notes.

`SimInv` was checked on the instances of `Stores` before it was proved. Sums over
the plan are the prefix sums `Sums`, a recursive function; what the proof needs
of it (the sum of a longer plan, of equal plans) is shown by induction in the
form of sets, from the well-foundedness of the naturals, as the library's
induction theorems take an operator as parameter.

The same module, decision: `DecisionSpec => []DecisionInv`; from it
`ClientStatusEarned`. `DecisionInv` says that each layer's result is what its
function gives on the simulated proposal and the results before it; the theorem
then follows the functions backwards: the status that lets a proposal go to the
client excludes the gates that stop it, these exclude the failed rules and the
new high issues, and a limit broken anew is such an issue.

Model-checked only: liveness (`RunsEnd`, and `RestartSafe` in its violation run),
which like `ENABLED` is out of the prover's reach; and `EvalKeysNameTheirEvents`,
whose proof is in the plan. Every other invariant and action property of the
passing runs is the statement of a theorem, and the safety properties of the
violation runs, but for the two named above, that of one with a hypothesis.

## 5. What is not modelled

- Artifacts, narratives, alternatives, material changes, drift figures, memo
  contents and the rules that evaluate a policy pack: data computed once from a
  simulation and the evidence, with no state of their own. The gates and hash
  checks they lead to are refusals that write nothing.
- Context resolution, read views other than the execution status, the feed of
  signed outcomes.
- The path of `transition_proposal` without expected values (an upsert): every
  command passes both.
- Legacy replay of creations (`_is_matching_legacy_replay`) beyond "the same
  payload"; memo events from before the reservations; the repair of the legal
  entity in older intakes; replays of evaluation commands that match the
  request hashes of older releases.
- The async version executor, malformed payloads and the recovery batch limit.
- Simulation keys and cockpit acknowledgements: an upsert after a lookup, as in
  `ProposalCreate`.
- Copilot requests that the guardrails refuse before a call, retention.
- Evidence for demonstrations, reports on quality, HTTP clients, routing and
  configuration.

## 6. Plan

Done: the lifecycle with its repository, refinement, status and proofs; creation
and asynchronous operations; policy catalog and evaluations; memos; idea
realization; workspace; copilot; simulation; decision. Next, in order of what matters most
to the system:

1. Async version operations: `AsyncOperations` composed with the version command;
   the stale quarantine stated as a property.
2. Workspace: the second proposal after a lost link, stated against the handoff
   rule; handoff composed with `ProposalCreate`.
3. `AdvisoryDecision` composed with `AdvisorySimulation`: weights computed from
   its holdings and prices instead of given.
4. Simulation keys and cockpit acknowledgements.
5. Proofs: `EvalKeysNameTheirEvents`, what the new modules of this plan add, and the lemmas on snapshots
   that `CatalogInv` and `EvalInv` both use, stated once for `SnapshotStore`.
