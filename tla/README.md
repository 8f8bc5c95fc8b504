# A verification project for the architecture-discovery study programs

This directory holds TLA+ models of the programs under
`architecture_discovery/` that execute a study, train and evaluate its
candidates, pay for remote actions and release sealed results. TLC checks the
models on small instances. TLAPS proves the safety properties of eight of them for
every value of their constants: the engine, the scheduler, the event store, the
remote run, the action journal, the sealed release, the resumable training and the
native controllers.

Paths below are relative to `architecture_discovery/` unless they name a module.

## 1. The system

A study is a frozen plan of runs. `scripts/study_scientific_run.py` builds a
`SequentialAcceleratorScheduler` over the plan and loops: claim the next run,
execute it with an `ArtifactEmittingStudyEngine`, leave the claim. An engine
evaluates a seed candidate, then goes through a frozen number of proposal
opportunities: ask a provider (a language model) for a candidate, identify it,
train and evaluate it, close the opportunity with one outcome. After every
write of its state the engine hands the state to the event sink. When the
search is completed the sink freezes the run's index; sealed evaluation then
qualifies the candidates and confirms a release once.

Before that, the machinery is shaken down with paid actions on a remote
platform: a launcher on the workstation reserves run ids in a journal, starts
one CLI process, and a container takes the lease of the run id, runs the action
(a provider canary, a training, a resume, a verification) and publishes its
files under a manifest.

| Component | State | Operations | Talks to |
|---|---|---|---|
| Engine, `study/engine.py` | `run_state.json`, two create-only markers; in memory `RunState` and `BudgetLedger` | `execute`, `_load_or_initialize`, `_persist`, `_begin_opportunity`, `_advance_active_opportunity`, `_finish` | generator and evaluator (calls), sink (after each write) |
| Budget, `study/budget.py` | counters and ceilings | one recording method for each resource, `validate`, `from_dict` | owned by the engine |
| Scheduler, `study/scheduling.py` | `schedule_state.json`, the lease file | constructor, `claim_next`, `_RunClaim`, `authorize_infrastructure_resume`, `AcceleratorLease` | other processes, through the two files |
| Sink, `artifacts/study_sink.py` | none of its own: the transition keys in the store | `observe`, `_emit`, `freeze_final_index` | engine (called), store (scan, append, freeze) |
| Store, `artifacts/store.py` | sequence directories with attempt files, lock file, context file, frozen pointers, objects | `append`, `scan`, `freeze_index`, `load_frozen_index` | other processes, through a `flock` |
| Sealed layers, `sealed_eval/` | snapshots, qualification and confirmation records, release markers | `qualify`, `confirm_once`, the release gate | store, sink |
| Trainer, `common/trainer.py`, `training_worker.py`, `common/training_client.py` | output directory: metrics, checkpoints, attestation, summary; a lock per host | train, resume in place, resume a staged attempt | worker process, remote action |
| Remote run, `modal_app.py` | run directory on a Volume: lease context, artifacts, result, manifest | `_prepare_run`, `_execute_run`, publication, salvage, verifier, resume | child process, platform |
| Provider attempts, `common/provider_attempts.py` | an append-only ledger file under a `flock` | `create`, `record_call` | provider |
| Process groups, `common/process_control.py` | - | `terminate_process_group` | launcher, remote run |
| Journal and launcher, `modal_action_journal.py`, `scripts/launch_modal.py`, `scripts/recover_modal_action_journal.py`, `common/modal_action_lock.py` | create-only receipts of each attempt, a `flock` for the workspace | launch, scan, recover, seal | CLI process, remote run |
| Files, `study/serialization.py` | - | `atomic_write_json` (one atomic step), `create_json_exclusive` (name first, bytes later), `read_json` | all of the above |
| Adapters, `study/runtime_adapters.py` | receipts | `generate`, `_run` | provider and trainer |
| Research ledger and replication, `research_ledger/`, `replication/` | in-memory phase machines | updates, close, seal; attempts by seed | callers |
| Native controllers, `agents/greedy_autoresearch`, `agents/semantic_autoresearch`, `common/openevolve_runner.py`, `_adapter.py`, `_policy.py`, `common/architecture_dedup.py` | `lineage.jsonl` or `proposal_terminal_outcomes.jsonl`, registry of architectures, `semantic_archive.json`, `incumbent.ir.json`, the repository `accepted_lineage`, OpenEvolve's database | search loops of their own, beside the engine: select a parent, ask, claim the architecture, train, record, retain | provider, evaluator, worker processes |
| Everything else (`architecture_ir/`, `novelty/`, `mechanism/`, `containment/`, `reconstruction/`, `reporting/`, `analysis/`, `review/`, `baselines/`, readiness scripts) | none, or values only | pure computations and validations | - |

What is hard: any process may be killed between any two steps and is launched
again on the same files; several processes work on one directory without a
common lock around a whole operation; a read or a write raises half way; provider,
evaluator and platform fail, answer nonsense, or start an input twice; a process that is killed leaves a paid
child behind; the sink derives events after the fact, from states that may be
newer than the events it has lost; files created with `O_EXCL` are torn until
they are filled and nobody repairs them; a manifest must not be written for what
may still change. `PROJECT.json` lists the hazards with their lines and the
properties that cover them.

## 2. Modules

    BudgetLedger -- StudyEngine -- StudySink -- StudyEngineProofs, MCStudySink
                     |       |        :
      StudyProtocol <-       |        : its `log' is EventLog's
      (refined)              |        :
                     MCStudyEngine    :
                    EventLog <---- EventStore -- EventStoreProofs, MCEventStore
                    (refined)
    StudyScheduler -- StudySchedulerProofs, MCStudyScheduler
    OneShot <-------- SealedRelease -- SealedReleaseProofs, MCSealedRelease
    ResumableTraining -- ResumableTrainingProofs, MCResumableTraining
    NativeSearch -- NativeSearchProofs, MCNativeSearch
    ActionGate <----- ActionJournal -- ActionJournalProofs, MCActionJournal
                           :
                           : OneStartPerRun: one input for each run id
                           :
                      RemoteRun -- RemoteRunProofs, MCRemoteRun

`<--` is a refinement, `--` an EXTENDS, the dotted lines are assumptions of one
module that another one establishes (below).

* **BudgetLedger** (`study/budget.py`): the ledger as a record and one operator
  for each method. A method that may raise is two operators, `Can...` and the
  update. Resources that one call charges together are one counter (`tokens`,
  `training`), because they fail together.
* **StudyEngine** (`study/engine.py`): variables `disk` (`run_state.json`),
  `mem` (the live process), `markers`, `pc`, `result` (what the evaluator
  returned and is not recorded), `launches`; history variables `requests`
  (attempts that really left the process) and `trained` (training really
  consumed). One action for each stretch of code between two writes or two
  calls. `Persist` contains the validation, as in the code: a state that fails
  it is not written and the process stops. `Crash` kills the process; an
  exception that escapes (`BudgetExceeded`) is an action of its own
  (`UsageOverrun`, `ResultOverrun`).
* **StudyProtocol**: what a run promises to a reader of its records: seed first,
  one opportunity after the other, at least one and a bounded number of
  attempts, one outcome, completion after the last. The engine refines it by
  reading the four variables off `disk`.
* **StudyScheduler** (`study/scheduling.py`): processes with a program counter;
  every read, write, create and unlink of the two files is a step, and `seen` is
  the copy that a process read before it writes. Executing a run is one step.
  `Fails` is any read or write of the two files that raises, at most `MaxFaults`
  times, before or after the file was replaced (`atomic_write_json` synchronizes
  the directory afterwards): `_RunClaim` then gives the lease back in its
  `finally` and leaves the run active, `create_json_exclusive` leaves what it
  created, `acquire` removes a lease that it could not fill.
* **StudySink** (`artifacts/study_sink.py`): EXTENDS StudyEngine. `Expected` is
  the set of the events that `observe` derives from a whole state; `todo` is the
  part of it that is still to be emitted, one event a step (`Due`: the first in
  the order `Before`, which is the order in which `observe` calls `_emit`), so
  that a crash may fall between any two events, or between the write of the state
  and the first event. A set will do because no event is derived twice from one
  state. The engine goes on when `todo` is empty. `EngineMoves` is a step of
  StudyEngine together with the start of the observation; `EmitFails` is
  `StudyEventSinkError`. The freeze, the last of the events, is several steps:
  `IndexLoaded` when the pointer is there, otherwise `PointerCreated`
  (`O_EXCL`, without content) and `IndexFrozen` (filled); a crash between them
  leaves `pointer` torn, on which every later observation raises
  (`IndexUnreadable`), so that it never ends. The history variable `answers` holds what the provider
  really answered.
* **EventLog** and **EventStore** (`artifacts/store.py`): the append-only log
  with one index that is frozen over a prefix of it, and the store that
  implements both with directories of write-once attempt files, torn files, a
  lock that the kernel drops at a crash, and the pointer to the frozen index.
  `Accepted` and `Fatal` are `_scan_unlocked`.
* **OneShot** and **SealedRelease** (`sealed_eval/orchestration.py`,
  `confirmation.py`, `artifacts/study_sink.py`): callers without a common lock
  qualify the candidates of an authorization (`Snapshot`, `Judge`,
  `AppendQualification`), confirm a release (`Consume`, `FillMarker`, `Build`,
  `FillCompletion`, `WriteConfirmation`, `AppendConfirmation`) and freeze the
  index (`FreezeFinal`, `BuildIndex`, `Point`, `Seal`), file by file. OneShot is
  what they promise: one call spends a release, only that call may decide it,
  once, and the frozen index covers what was decided by then and never changes.
* **ResumableTraining** (`common/trainer.py`, `modal_app.py`): trainers on two
  output directories, a `source` trained in place and an `attempt` staged from a
  finished source. `Train`, `Log`, `Checkpoint`, `Keep` are the writes of one
  step in their order; `OpenResume` restores the latest checkpoint; `Attest`,
  `Refuse` and `Return` end a training; `Stage` fills the attempt with the
  retained checkpoint and the events up to it.
* **ActionGate** and **ActionJournal** (`scripts/launch_modal.py`,
  `modal_action_journal.py`, `scripts/recover_modal_action_journal.py`):
  the launcher from the lock to its receipt, the CLI process that outlives it,
  pids that are reused, boot sessions, the scanner as the operators `Codes`
  (blockers of an attempt), `ScanOK` and `GateClear`, the recovery with its
  repair and its three stages, and the seal. ActionGate is what the files are
  for: one action open at a time, none opened twice, none after the seal.
* **RemoteRun** (`modal_app.py`, `common/provider_attempts.py`): a container
  with its own copy of the run directory (`local`), what is committed
  (`volume`), the lease, the child with its ledger, publication and salvage,
  result, manifest and commit; the platform commits in the background,
  preempts, times out and shuts down. `Send` is the next opportunity of the
  harness, which makes one request for each (`asked`, at most `Limit`): the
  ledger bounds nothing. `Record` appends the record, or appends nothing
  and leaves a valid ledger (a record that is refused, a write that raises), or
  leaves a torn one; the harness goes on in each case, and `unwritten` counts the
  requests that have no record. `Unpublish` removes the batch or leaves any part
  of it, among them one file that is `cut`: the one whose write failed and which
  could not be unlinked.
* **NativeSearch** (`agents/`, `common/openevolve_*`): the native
  controllers: greedy with and without plateau moves, semantic, OpenEvolve. `kind` is the controller,
  `at` the place of each opportunity, `pool` its memory of candidates that may
  be parents, `ledger` its lineage (OpenEvolve: the terminal outcomes),
  `registry` the marker files of claimed architectures; `archive`, `incumbent`
  and `accepted` are the files it retains its choice in. `Ask` selects the
  parent, `Claim` is the rejection of a no-op or a duplicate and the claim,
  `Record`, `SaveArchive`, `TruncateIncumbent` and `SaveIncumbent` (the two halves
  of `shutil.copy2`, which is not atomic) and `Commit` are the writes in their
  order, `AddChild` is the main process of OpenEvolve, `Close` the summary. The
  library is external: several opportunities may be under way (`Ahead`), and a
  child may be lost (`LoseChild`).
* **StudyEngineProofs**, **StudySchedulerProofs**, **EventStoreProofs**,
  **RemoteRunProofs**, **SealedReleaseProofs**, **ResumableTrainingProofs**,
  **NativeSearchProofs**, **ActionJournalProofs**: the theorems (section 5).
  StudyEngineProofs holds those about StudySink, too.

How the modules fit together: StudySink runs StudyEngine's actions, and appends
to a log that behaves like EventLog, which EventStore implements. SealedRelease
appends to the same log in one step. RemoteRun assumes that a run id is given to
one input; that is `OneStartPerRun` of ActionJournal. ResumableTraining's attempt
may start when its source is final and successful, which is `Grounded` in
RemoteRun. StudyScheduler executes a run in one step; that a run which is
executed again goes on from its state is what StudyEngine shows.

Operators whose name has the form `Definition_Word`, preceded by a comment that
begins with "Mutant:", are wrong variants of the definition that follows. They
are used by no specification; they record a plausible bug that a property was
seen to find.

## 3. Runs

All bounds are constants: `MaxLaunches`, `MaxCrashes`, `MaxFailures`,
`MaxFaults`, `MaxRestarts`, `MaxBoots`, `MaxAuthorizations` and `MaxEvents` limit
the environment, the ceilings of the budget limit the rest.

| Run | Instance | Shows |
|---|---|---|
| `engine_crash` | 2 opportunities, 2 attempts each, 1 repair, 1 retry, token and training ceilings of 2, 2 launches, portfolio of 2 | Attempts are never replayed (`NeverReplayed`) nor forgotten (`RequestsAccounted`, a part of `RunInv`); the engine never writes a state that it later refuses (`NeverRejected`); parents, portfolio, incumbent, ledger and outcomes follow from what happened (`StateReconstructs`); unrecorded training is bounded (`TrainingAccounted`); the stored run only moves forward (`HistoryIsFinal`); it refines StudyProtocol (`ImplementsProtocol`); it ends, is quarantined by a torn marker, or dies of a ceiling (`RunSettles`); the invariant of the proofs holds (`RunInv`) |
| `scheduler_crash` | 2 campaign processes, 1 operator, 2 runs, 1 failure, 1 crash, 1 read or write that raises, 1 authorization | One run at a time, in frozen order, executed once; no lost update; an active run is covered by a lease whoever is killed, until a read or a write raises (`SchedulerInv`); the campaign completes, waits for an operator, or was stopped by what a process that was killed or raised left behind: a schedule without content, an active run, a lease (`CampaignProgresses`) |
| `sink_crash` | 2 opportunities of 3 attempts, 2 repairs, 1 retry, repeated answers, no rejection, 1 crash anywhere | The sink refuses a state only in the cases named (`RefusalExplained`); a logged response is that of its attempt, unless a crash cut off a repair (`ResponsesGrounded`); the log keeps causal order; a frozen index is complete (`CompletedMirrored`) and is reached, unless a crash tore a marker or the pointer, the sink refuses the state or the ledger has no room (`MirrorSettles`) |
| `store_crash` | 2 processes, 2 events, 2 crashes | The store implements the append-only log and its final index (`ImplementsLog`); acknowledged events stay, scans and frozen indexes are prefixes (`StoreInv`, the invariant of the proof); what a single crash costs (`OneCrashContained`): no scan ever fails after it; a torn context closes the store, but then no event was in it; a torn pointer bars the index, but then every event is whole |
| `journal_crash` | a canaries attempt over r1, r2 and a single attempt for r2 or r3; 2 boot sessions, 2 faults | One paid process at a time, one start for each run id, receipts and recoveries that say the truth of processes, the abstract gate; the lock is freed and a recovery that was begun can be ended |
| `remote_crash` | a run of each kind that stands alone and one that reads it: a resume or a verify of the run without a provider, a verify of the canary, a resume of the bounded run, which is refused; 2 requests, 1 preemption, 2 faults | The action of a run id starts once; manifests are true and final, and so are conclusions from a source's manifest; a run that may have leaked has no manifest; no request is uncounted but those whose append failed and the one in flight (`SpendIsBounded`), and none of a canary or of a bounded action that succeeded |
| `sealed_release` | 2 callers that may be killed anywhere and call again without bound, 1 authorization of 2 candidates, 2 releases of any of them | A confirmation rests on qualifications that precede it, agrees in all its records, and is in the frozen index when it was returned (`Confirmed`); releases are one-shot (`ImplementsOneShot`) |
| `training_crash` | 2 trainers, 4 steps, evaluation every step, checkpoint every other, 2 crashes, every ranking of the evaluations by scores 1..3 | A success names the best step of an uninterrupted training and keeps its checkpoint (`CrashInvisible`); a training that is launched again succeeds, unless a crash hit one of two points (`TrainingSettles`) |
| `search_kill` | each of the 4 kinds, 3 opportunities, 3 architectures besides the seed's, 2 cells (semantic), 2 scores, 2 opportunities ahead (OpenEvolve), a kill or a lost child anywhere | No architecture is trained twice, and a parent was trained, was eligible and precedes its child (`SearchInv`, a part of `LineageInv`, the invariant of the proof); the lineage alone explains archive, uses, incumbent and accepted head up to its last record, an incumbent is torn only when the last record is the one to retain, and cells are used fairly (`LineageExplainsState`); a reported result is complete and its best candidate does not depend on the order of the workers (`ResultIsTrue`) |
| `sink_lost` | 1 opportunity, 1 repair, 1 crash | **Violation**: an old response is logged as that of the next attempt |
| `journal_orphan` | as `journal_crash` | **Violation**: a rejection that the recovery should take and does not |
| `training_resume` | 10 steps, evaluations and checkpoints every 5 (the smoke profile), no crash | **Violation**: an attempt that does not improve on the retained best step fails |

Why the bounds are enough. Two opportunities are the least in which one depends
on another (parents, order, portfolio); two attempts the least with a retry or a
repair, three the least with two repairs; two launches put one crash at every
point, and every property about a crash relates the state before one crash to
the state after it. The scheduler's conflicts are between two processes, and an
operator is a third one. The store's rule of one forgiven torn file needs two
crashes to be exceeded. In the journal a roster of two ids is the least whose
publication can be partial, a shared id the least conflict; the second boot
session makes a pid of the first one meaningless, and two faults are a failure
and another one during its recovery. A remote run has its faults in publication
and in the removal of what was published, which are two; what one run reads of
another needs two runs. Four steps with two checkpoint intervals have a
checkpoint to resume from on either side of which the best step may lie. Three
opportunities of a native controller let a cell be founded, used and taken over
before it is used again, and let a worker overtake the one that was asked first.

`sink_crash` has no rejected candidate, whose closing leaves no event of its own;
invalid proposals and failures of the provider and of the evaluator close
opportunities as well as acceptances do, and the theorems of section 5 are about
every outcome.

`CHECK_DEADLOCK FALSE` is set where the system really stops: `journal_crash` and
`journal_orphan` (sealed or unreadable journal), `remote_crash` (every container
is gone), the training runs (both directories are finished), `search_kill` (a
controller ends, and none resumes). In the others a
stuck state would be an error.

### The violations

* `sink_lost`: it needs a budget with repairs, that is, at least two provider
  attempts in an opportunity, which `BudgetSpec` admits; the frozen pilot
  configuration has one attempt and never repairs. The log attributes a response
  to an attempt that was not answered yet; when the answer arrives, the sink
  refuses the state.
* `journal_orphan`: a launcher that fails between planning its reservations and
  publishing the first blocks the workspace for every later action, and the
  recovery that the README prescribes refuses it.
* `training_resume`: `best_checkpoint.pt` is not staged. If no step after the
  retained checkpoint beats the best one before it, every attempt fails.

### Other disagreements the models reach

No run of its own is spent on these; the models contain them and the properties
are stated around them.

* The scheduler's constructor compares the schedule that it read with the lease
  file as it is later (`study/scheduling.py:281`): when another process ends its
  claim in between, it reports a missing lease and asks for an operator's review
  while nothing is wrong. `AlarmIsTrue` of StudyScheduler says otherwise, and is
  violated when it is added to the invariants of `scheduler_crash`.
* `agents/greedy_autoresearch/program.md:19` tells to accept a child that passes
  the validity gate; the code accepts it only if it also has a better score
  (`Accepts`; `run.py:1093`), and so does its manifest.
* OpenEvolve's result is `completed` when every opportunity has a terminal
  outcome, which a worker writes; a child that the main process lost afterwards
  is not in its database, and its best program is the best of the others.
* `BudgetExceeded` is documented as raised before a ceiling is exceeded
  (`study/budget.py:14`). For training it is raised after; the overrun is in no
  ledger (`TrainingAccounted` bounds it).
* A second repair of an opportunity contradicts the event of the first
  (`artifacts/study_sink.py:399`): every later launch is refused by the sink
  (`RefusalExplained` names it).
* A `Popen` interrupted after the fork (`scripts/launch_modal.py:5587`) leaves a
  paid process that its terminal receipt denies; `lost` has these attempts, and
  `OneLiveAction` and `ReceiptsAreTrue` speak of the others.
* A trainer that waits on the lock of a training that succeeds resumes it, is
  refused, and overwrites the successful summary (`common/trainer.py:1611`).
* A source that was killed between an event and the checkpoint after it logs the
  event twice when it is resumed in place, and is no source for an attempt any
  more: `Stage` requires the exact roster. One that was killed before its first
  checkpoint or after its last can be neither trained nor resumed (`TooEarly`,
  `TooLate`).
* A crash in `qualify` after its snapshot spends the authorization without a
  judgment: the second snapshot is refused.
* A crash while the context or the pointer of a store is written leaves a torn
  file that nothing repairs: a store that cannot be opened
  (`artifacts/store.py:283`), or one that is never frozen (`store.py:595`).
  "Only one crash-truncated event attempt can be tolerated" (`store.py:438`) is
  about attempt files; `OneCrashContained` says what holds of all three.
* A read or a write that raises in `_RunClaim.__exit__`, or in `__enter__` after
  the schedule was replaced, gives the lease back and leaves the run active
  (`study/scheduling.py:208-235`). Every later process stops at the
  constructor's alarm, and there is no operation that clears the run:
  `StrandedIsFinal` (section 5).
* The greedy controller copies its incumbent with `shutil.copy2` (`run.py:1130`),
  and a kill in the middle leaves `incumbent.ir.json` truncated. No later process
  goes on from it, and the lineage says what it should hold.
* An incomplete recovery snapshot is never replaced; the attempt stays blocked.

## 4. Fairness

* Engine: weak fairness of the process' own steps and of the answers of its two
  services (`EngineStep`): the code waits for a call to return and has no other
  way to stop. Weak fairness of `Launch` while the run is not completed: the
  campaign loop claims an unfinished run again. No fairness of `Crash`.
* Scheduler: weak fairness of each process' steps and of starting a campaign
  process again; none of an operator, of failures or of crashes.
* Sink: weak fairness of the engine's and the sink's steps; a run is launched
  again while its index is not frozen.
* Journal: weak fairness of the steps of whoever holds the lock: the wait for
  the CLI and the termination of its group have deadlines. Strong fairness of
  `Recover`: an operator goes on calling it until it finds the lock free. None
  of the CLI, of kills, reboots, pids or the seal.
* Training: weak fairness of a trainer's steps and of launching a source that
  has not succeeded; strong fairness of the lock, which is free between any two
  of its holders (`flock` waits). None of crashes.

RemoteRun, SealedRelease and NativeSearch state no fairness: a container may be
given up by its platform, a failed call is repeated only if somebody asks for
it, and a native run that was killed is never continued.

## 5. Proofs

`StudyEngineProofs` proves every safety property that `engine_crash` checks, for
every value of the constants allowed by `BudgetAssumption` and `EngineAssumption`:

* `EngineTypes`: `Spec => []TypeOK`;
* `EngineInvariant`: `Spec => []EngineInv`;
* `AttemptsCounted`: `Spec => []RequestsAccounted`;
* `AttemptsOnce`: `Spec => NeverReplayed`;
* `StoredRunMovesForward`: `Spec => HistoryIsFinal`;
* `EngineIsAProtocol`: `Spec => ImplementsProtocol`;
* `RunInvariant`: `Spec => []RunInv`;
* `NeverLockedOut`: `Spec => []NeverRejected`;
* `RunReconstructs`: `Spec => []StateReconstructs`;
* `TrainingBounded`: `Spec => []TrainingAccounted`.

`EngineInv` is `StoredInv` and two parts that the refinement needs. In `StoredInv`,
that an attempt is new when it is sent depends on its number having been stored
before (`RequestIsNew`), which depends on the process working on what it stored
last (`MemoryIsStored`), and the types of the states that are written depend on
an evaluation having a candidate (`EvaluationHasCandidate`). The lemmas follow
the layers of the model: the ledger's operators keep the ledger's type, the
updates of a state keep the state's type, `Persist` of a typed state keeps the
invariant, and each action is an instance of these.

For the refinement the stored state must be valid (`StoredIsValid`), which it is
because `Persist` writes no other, and must not lag behind the place of the
process (`PlaceIsStored`): an opportunity is closed only after an attempt of it
was stored, also when the closing step follows a resume. `Owed` is what a step
must show (its part of the invariant, `Forward`, a step of the protocol or none).
A step that writes nothing and a write that is refused owe only their place
(`DiskKept`, `Refused`); a write is the seed or nothing (`ChargePersisted`),
`Open`, `Ask`, `Close` (`FinishPersisted`) or `Complete`.

`RunInv` is what the last three theorems follow from. That the engine never
refuses its own state on resume (`NeverRejected`) needs the validation, which
compares totals with sums over opportunities, to hold of every ledger the engine
builds, not only of those it checked (`LedgerIsSound`); the sums need the counters
of opportunities that are not open to be zero. That the terminal records tell the
stored run (`StateReconstructs`) needs what the open opportunity will put into its
record: a candidate that is its proposal, a proposal whose attempt was sent, no
evaluation before its place (`ActiveIsGrounded`). `WriteOwes` is what a write owes
of this. `CoursePersisted` says it of a write that keeps the opportunity open, which
changes no record; `FinishWritten` of the one that closes it, which adds a record
to sums, counts, the portfolio and the incumbent at once. `TrainingSlack`
strengthens the bound on unrecorded training: a process that is alive has not yet
lost the evaluation that its launch may lose, so that a crash moves one
`LargestUse` from the process to the launches; the `...Slack` lemmas balance it
for each step, a failed evaluation against the retry or the exhaustion it counts.
`LargestUse` is a `CHOOSE`; it exists because `TrainingUses` is finite, which
`EngineAssumption` states and the code has: an evaluation consumes between nothing
and a frozen number of steps. Sums are recursive functions, the
portfolio a fold over the records. That one more element changes them as it should
is an induction over data; the library's theorems for it cannot be used, so it is
made by hand: a set of counterexamples has a least one (`LeastNumber`,
`EveryNumber`).

The same module proves every safety property that `sink_crash` checks, for any
number of attempts, repairs, launches and crashes, with and without repeated
answers, of the engine composed with its sink:

* `LogInvariant`: `SinkSpec => []LogInv`;
* `ToldInOrder`: `SinkSpec => []CausallyOrdered`;
* `FrozenMirrors`: `SinkSpec => []CompletedMirrored`;
* `SinkInvariant`: `SinkSpec => []SinkInv`;
* `ResponsesAreGrounded`: `SinkSpec => []ResponsesGrounded`;
* `RefusalsExplained`: `SinkSpec => []RefusalExplained`;
* `ObservedEngineIsAProtocol`, `ObservedRunMovesForward`, `ObservedAttemptsOnce`:
  `SinkSpec => ImplementsProtocol`, `SinkSpec => HistoryIsFinal` and
  `SinkSpec => NeverReplayed`; the engine's promises survive that its sink may
  stop it after any write and refuse it on every later launch.

`LogInv` contains `RunInv`: the engine keeps its invariant although the sink may
stop it after any write (`RunKept`). The sink keeps no state of its own, so what
it will append has to be read off the run state and the log. `LogIsCalled` says
that every logged event is one that the stored state calls for, under a key that
no other has; `TodoIsMissing` that an observation owes exactly the rest;
`ToldBefore` that whatever is called for before a logged event has its key in the
log. With these, an event that is due comes after the whole log, which is the
causal order, and the freeze comes when every key is logged, which is the mirror.
Why they are kept: a write of the engine (`Moves`) never takes back an event that
stands whatever the log says (`Standing`), and what it adds comes after the
events of the state before it (`FreshIsLate`). A crash leaves `todo` behind, and
the log with a prefix of what was owed.

`SinkInv` adds what the events of answers need. They are the exception: the
attempt that `_observe_repairs` attributes a kept response to is looked up in the
log (`RepairedAttempt`), so the log decides what is called for. `AnswersAreKept`
says which answers the stored state works with, `BodiesAreTrue` what logged
responses and repairs say, and `RepairIsTold` that the response kept for the last
repair is logged, is pending for the attempt that brought it, was cut off by a
crash (`lost`), or waits behind an event that the sink refuses (`Blocked`). The
last case is what the first attempts at this invariant missed: a refusal drops
the rest of the observation, like a crash, but every later observation of the run
is refused at the same event, before it comes to the repair (`FailureBlocks`,
`BlockedAgain`). That a refusal has one of the three causes follows from
`LoggedAnswer`: an event that is not cut off agrees with the one answer of its
attempt, so that a conflict takes two attempts with the same text or two repairs.
`LogInv` and `SinkInv` were model-checked before they were proved, on all states
of an instance with one opportunity, two repairs and three launches; the bounds of
`sink_crash` are too large for them, so no run checks them.

`StudySchedulerProofs` proves, for any number of campaign processes, operators,
runs, failures, crashes and authorizations, every safety property that
`scheduler_crash` checks: `LeaseIsExclusive`, `NoLostUpdate`, `FilesAgree`,
`OrderIsFrozen`, `RunsExecutedOnce`, `CompletionIsFinal`, and the types. They
follow from `SchedulerInv`. `FilesAgree` says what the code guarantees of an
active run: it is covered by a lease, whoever is killed, as long as no read or
write raised. What becomes of a run that a process left active, by dying or by
raising, is `StrandedIsFinal`: the schedule never changes again. None of the
properties is inductive alone: that the lease is
exclusive says nothing of the time between its creation and the first read
under it, that no update is lost needs the lease to be exclusive *and* the
schedule file to be complete before anybody claims (`FileFirst`), and that a run
is executed once needs the executions counted against the status of the run
(`ExecutionCounted`). `Relies(p)` collects what a process depends on at the
place where it is. A step of another process either touches neither file, or is
made by the owner of the lease (`OwnerAlone`), or happens before the schedule
has its first content; in each case `Relies(p)` is kept.

`RemoteRunProofs` proves, for any number of runs of any kinds that read each
other in any way, any number of requests, preemptions and faults, every property
that `remote_crash` checks: `RunsStartOnce`, `ManifestsAreTrue`,
`ManifestsAreFinal`, `QuarantineIsKept`, `SpendIsCounted`. `RemoteInv` is a
conjunction of one invariant per concern: `LeaseInv` (what a container sees
under its lease is what is committed, or has no manifest yet), `FilesInv` (what
is there at each place of the run, and that a failed publication alone leaves a
file cut), `SpendInv` (what was sent is what was asked for, and is what was
recorded, what could not be, and the request in flight), `TruthInv` (a whole manifest is truthful),
`SourceInv` (what was seen of a source is what is committed of it, when it was
whole). They need each other: a manifest is final because no container that is
live afterwards holds another copy, which is `LeaseInv`; that what a resume saw
is still so needs manifests to be final. `StepMoves`, `StepWrites` and
`StepWorks` say once which run's state each step touches, so that a property of
one run is disturbed by steps of that run only; the steps are then taken in four
groups (leasing, running, publishing, ending) and the platform's.

`SealedReleaseProofs` proves, for any callers, authorizations, releases and
candidates, `SealedInvariant` (`SealedInv`), `ReleasesAreConfirmed` (`Confirmed`)
and the refinement `ReleasesAreOneShot` (`ImplementsOneShot`). A caller between
two files knows something of the files before (`QualifyInv`, `ConfirmInv`,
`FreezeInv`); it stays true because ledgers only grow, records are created once,
and a release has one spender whose job alone may decide it (`SpentBy`). For the
refinement each step is mapped to `Spend`, `Decide`, `Cover` or a stutter
(`StepShot`).

`EventStoreProofs` proves, for any processes, events and crashes, every property
that `store_crash` checks: `StoreInvariant`, `OneCrashIsContained` (from
`DamageInvariant`) and the refinement `StoreIsALog`. The accepted sequence is defined by a scan that breaks
off somewhere; `LastOpen` (only the last directory may be without an accepted
record) fixes where, and `CountOf` and the lemmas on the three ways to write
(a directory is made, a file is created torn, the torn file is filled) say what a
write does to the sequence: nothing, nothing, and one more event. `WriterInv` is
what the holder of the lock knows of the last directory meanwhile. `CrashInv`
counts what crashes leave: outside of the attempt a live writer is making there
is no unfinished attempt without a crash and at most one after one, and nobody
can write once there are two, because every scan refuses them. `DamageInv` adds
the two other files: nothing is in a store whose context is not whole, and a
single crash that tore the pointer tore no attempt. `OneCrashContained` follows,
and for the refinement each step is `Extend`, `Freeze` or a stutter.

`NativeSearchProofs` proves `SearchInvariant`, for any number of opportunities,
architectures, cells, scores and workers ahead. That no architecture is trained
twice (`TrainedOnce`) is stated of what is trained and what is claimed for
training, because two workers may be between claim and training at a time; what
is claimed is in the registry, and a claim adds what was not. That a parent
precedes its child (`ParentsAreTrained`) needs the pool to hold trained
candidates only (`PoolIsTrained`) and opportunities to be opened in order
(`OpenedInOrder`). `GoesOn` is what the steps after a training have in common.
`ReportsAreTrue` proves `ResultIsTrue` from `ResultInv`, which adds two parts: a
sequential controller ends an opportunity before it opens the next and has one
record of each (`TakenInTurn`), and the pool of a controller that keeps the best
holds the first of the best candidates, with one entry of each (`PoolHasBest`).

`LineageExplains` proves `LineageExplainsState` from `LineageInvariant`
(`LineageInv`). What a lineage keeps is a function of the lineage (`Kept`), and so
are the uses of a cell; the proof says once what one more record does to both:
it takes its cell or leaves what is kept as it was (`KeptAppended`), and it is one
more use of its parent's cell (`UsesAppended`). The invariant then has three
parts. `RecordsTellSearch`: records say what was proposed and judged, and each
parent was kept by the records before it. `PoolIsKept`: the memory is what is
kept, with the uses that the records and the opportunity in progress tell.
`FilesFollow`: archive, incumbent and accepted head are those of the lineage or,
while its last candidate is not retained yet, of the lineage without its last
record, and an incumbent that is being copied is that of the last record
(`Copying`). A candidate that founds a cell starts with no uses because a used cell
has an eligible record; one that takes a cell over keeps its uses
(`ConsideredKept`); that both leave the cells fairly used is `FairRecord`, that
choosing the least used cell does is `FairUse`. The decision of the greedy
controller is `KeptAppended` for the lineages of one cell (`AcceptsKept`).

`ResumableTrainingProofs` proves `TrainingInvariant` (`TrainingInv`),
`TrainingTypes` and `CrashesInvisible` (`CrashInvisible`), for any number of steps
and any intervals, any ranking of the evaluations, any trainers and crashes.
Every checkpoint holds the step that an uninterrupted training would have as its
best by then (`Retained`). The file of the best checkpoint is written before the
checkpoint that knows of it, and so it may be ahead of the trainer that resumes;
it is that of a training which came at least as far as the directory's last
checkpoint (`FileReaches`), and only the holder of the directory's lock writes
there (`AtWork`). When a training completes, both have come to the last step.

`ActionJournalProofs` proves, for any attempts, run ids, plans, boot sessions
and faults, every safety property that `journal_crash` checks:
`JournalInvariant`, `OneActionLives`, `RunsStartOnce`, `ReceiptsTellTheTruth` and
the refinement `JournalIsAGate`. `JournalInv` says what the place of a launcher
(`PlaceInv`), the receipts of an attempt (`ReceiptInv`) and its recovery
(`RecoveryInv`) say of its process; each attempt's part is disturbed by steps of
that attempt only (`Same`, `SameKeeps`). What ties attempts together is
`QuietInv`: past the gate, and from the beginning of the seal, every other attempt
is settled. `Codes` probes processes, and these end whenever they like; `CodesAre`
shows that for an attempt whose receipts are in order the answer is that of
`Settled`, which reads receipts only, so that no process can unsettle an attempt.
Two live processes would need a launcher past the gate while another attempt is
not settled. For the refinement each step is `Open`, `Settle`, `Seal` or a stutter
(`GateMoves`). `RunsStartOnce` is proved here for the launcher and in
`RemoteRunProofs` for the platform, which relies on it.

Assumed everywhere: the ASSUMEs of the module, which say that names differ and
that bounds are numbers.

Only model-checked: the liveness properties (`RunSettles`, `CampaignProgresses`,
`MirrorSettles`, `JournalProgresses`, `TrainingSettles`), which are out of the
prover's reach. Every other property of a passing run is stated by a theorem.

## 6. What is not modelled

* Payloads: scores, identifiers, timestamps, prompts, JSON codecs, path and
  symbolic-link checks, byte caps (a step that they can stop may fail), fields
  that are constant during a run.
* Power failure: a crash is the death of a process; what a completed write
  wrote is there afterwards. (RemoteRun has the loss of what a container did
  not commit.) An append to `lineage.jsonl` (`common/lineage_schema.py:57`) is one
  step, though a kill within it leaves a partial last line; nothing resumes from
  that file.
* The approval chain before a launch, the cohorts of a journal and the kinds of
  actions that share its steps; the exploratory pilot, which keeps no ledger of
  its requests; the cleanup snapshots that a recovery takes (it
  is complete or not); numerics of a training; the wall-time limit.
* Of OpenEvolve, which is not in this repository: islands, migration, eviction and
  the weights of parents (any eligible program may be a parent).
* The legacy accelerator schema of the budget.
* `PROJECT.json` lists the components without a module and the reason of each.

The map covers a small share of the lines. Most of the rest has no behaviour to
model: `scripts/record_modal_readiness.py`, `scripts/validate_engineering_canaries.py`,
`scripts/record_local_engineering_evidence.py`, `modal_boundary.py` and the larger
part of `modal_action_journal.py` compare fields of stored records with
literals and with each other, in straight-line functions without state. Where
such a validator decides something that a step depends on (a blocker of the
journal, a manifest that is refused, requests that are counted), the decision
is in the model and its lines are mapped. The other large part
(`architecture_ir/`, `novelty/`, `mechanism/`, `baselines/`, training numerics) is
tensor and graph computation whose inputs cannot be enumerated.

## 7. Plan

What would add most next, in this order:

1. That StudySink, whose log only grows, implements EventLog, so that StudyEngine,
   StudySink and EventStore are tied together by theorems.
2. The research ledger and replication, in memory and single-threaded.
