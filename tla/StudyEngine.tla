----------------------------- MODULE StudyEngine -----------------------------
(***************************************************************************)
(* CommonStudyEngine (study/engine.py): the resumable engine that carries  *)
(* one study run from its seed evaluation through a frozen number of       *)
(* proposal opportunities.                                                 *)
(*                                                                         *)
(* One process at a time executes the run; it may be killed between any    *)
(* two steps (Crash, which also stands for an exception the engine does    *)
(* not catch) and launched again.  What survives is run_state.json         *)
(* (`disk', replaced atomically) and the two create-only marker files.     *)
(* What the process holds in memory is `mem', and `result' is what the     *)
(* evaluator returned and the engine has not recorded yet.                 *)
(*                                                                         *)
(* pc says where the process stands:                                       *)
(*   prepare, marking   _prepare_directory                                 *)
(*   running            between two steps of execute()                     *)
(*   request, await     a provider attempt is persisted / was sent         *)
(*   seed, evaluate     the evaluator runs                                 *)
(*   record_seed, record  the evaluator's result is to be recorded         *)
(*   exited             execute() returned                                 *)
(*   down               no process (killed, or an exception escaped)       *)
(*   rejected           RunStateError or ValueError: the state is refused  *)
(*   quarantined        a marker file is unreadable                        *)
(*                                                                         *)
(* Abstracted: timestamps, state_revision, study and run identities and    *)
(* the remote metadata (constant during a run); scores; the accelerator    *)
(* lease, which the programs that run the engine leave to the scheduler    *)
(* (evaluation_lease_path=None).                                           *)
(***************************************************************************)
EXTENDS BudgetLedger, Sequences

CONSTANTS
    Sources,                  \* candidate sources a provider can answer with
    Seed,                     \* the initial candidate
    Garbage,                  \* response texts that parse to no candidate
    None,                     \* Python's None
    ParentPolicy,             \* "single" or "portfolio"
    PortfolioSize,
    TransitionOpportunities,  \* where the scheduled-transition policy applies
    Usages,                   \* token usages a response can report
    TrainingUses,             \* training one evaluation can consume
    RetryUses,                \* retries one evaluation can report
    EvaluationOutcomes,       \* outcomes an evaluation can have
    MaxLaunches               \* bound: how often the process is launched

ASSUME EngineAssumption ==
    /\ Seed \in Sources
    /\ Sources \cap Garbage = {}
    /\ None \notin Sources \cup Garbage \cup Outcomes
    /\ None \notin [outcome : Outcomes, training : Nat, retries : Nat]
    /\ ParentPolicy \in {"single", "portfolio"}
    /\ PortfolioSize \in Nat \ {0}
    /\ TransitionOpportunities \subseteq Nat
    /\ Usages \subseteq Nat \cup {Unknown}
    /\ TrainingUses \subseteq Nat /\ 0 \in TrainingUses
    /\ IsFiniteSet(TrainingUses)   \* its frozen number of steps bounds it
    /\ RetryUses \subseteq Nat
    /\ EvaluationOutcomes \subseteq Outcomes \ {"invalid"}
    /\ MaxLaunches \in Nat

VARIABLES
    markers,     \* run_spec.json and study_spec.json: absent, torn or whole
    disk,        \* run_state.json
    pc,
    mem,         \* RunState and BudgetLedger objects of the live process
    result,      \* the evaluator's result, not recorded yet
    launches,
    requests,    \* history: provider attempts <<opportunity, attempt>> sent
    trained      \* history: training the evaluator really consumed

vars == <<markers, disk, pc, mem, result, launches, requests, trained>>

-----------------------------------------------------------------------------
Texts == Sources \cup Garbage

NoOpportunity ==
    [ index |-> NoIndex, parents |-> <<>>, transition |-> FALSE,
      attempts |-> 0, repairs |-> 0, previous |-> None, proposal |-> None,
      candidate |-> None, evaluation |-> None ]

InitialState ==
    [ status |-> "running", incumbent |-> Seed, portfolio |-> <<Seed>>,
      seeded |-> FALSE, next |-> 1, active |-> NoOpportunity,
      terminal |-> <<>>, ledger |-> EmptyLedger ]

\* No run_state.json, or no process to hold a state.
NoState == [InitialState EXCEPT !.status = "absent"]

LastOf(s, k) == SubSeq(s, IF Len(s) > k THEN Len(s) - k + 1 ELSE 1, Len(s))

ParentsFrom(incumbent, portfolio) ==
    IF ParentPolicy = "single" THEN <<incumbent>>
                               ELSE LastOf(portfolio, PortfolioSize)

ExpectedParents(s) == ParentsFrom(s.incumbent, s.portfolio)

\* _validate_state, run before every write and after every load.
ValidState(s) ==
    /\ Len(s.terminal) = TerminalCount(s.ledger)
    /\ s.next = TerminalCount(s.ledger) + 1
    /\ s.active.index # NoIndex =>
         /\ s.active.parents = ExpectedParents(s)
         /\ s.active.transition = (s.active.index \in TransitionOpportunities)
         /\ s.active.attempts = s.ledger.attempts[s.active.index]
         /\ s.active.repairs = s.ledger.repairs[s.active.index]
    /\ s.active.index = s.ledger.active
    /\ s.status \in {"running", "completed"}
    /\ s.status = "completed" =>
         /\ TerminalCount(s.ledger) = ProposalOpportunities
         /\ s.ledger.active = NoIndex

\* _load_or_initialize accepts a stored state: BudgetLedger.from_dict, then
\* _validate_state.
Loadable(s) == ValidLedger(s.ledger) /\ ValidState(s)

\* Mutant: the next opportunity is not advanced.
Finish_KeepsNext(s, l, outcome, stage) ==
    [s EXCEPT !.ledger = FinishOpportunity(l, outcome),
              !.incumbent = IF outcome = "accepted" THEN s.active.candidate ELSE @,
              !.terminal = Append(@, [opportunity |-> s.active,
                                      outcome |-> outcome, stage |-> stage]),
              !.active = NoOpportunity]

\* Mutant: an accepted candidate joins the portfolio even when it is there.
Finish_Duplicates(s, l, outcome, stage) ==
    [s EXCEPT !.ledger = FinishOpportunity(l, outcome),
              !.incumbent = IF outcome = "accepted" THEN s.active.candidate ELSE @,
              !.portfolio = IF outcome = "accepted"
                              THEN Append(@, s.active.candidate) ELSE @,
              !.terminal = Append(@, [opportunity |-> s.active,
                                      outcome |-> outcome, stage |-> stage]),
              !.active = NoOpportunity,
              !.next = @ + 1]

\* _finish: the opportunity becomes a terminal record.
Finish(s, l, outcome, stage) ==
    LET a == s.active
        accepted == outcome = "accepted"
    IN [s EXCEPT
          !.ledger = FinishOpportunity(l, outcome),
          !.incumbent = IF accepted THEN a.candidate ELSE @,
          !.portfolio = IF accepted /\ a.candidate \notin Range(@)
                          THEN Append(@, a.candidate) ELSE @,
          !.terminal = Append(@, [opportunity |-> a, outcome |-> outcome,
                                  stage |-> stage]),
          !.active = NoOpportunity,
          !.next = @ + 1]

\* _persist: refuse an inconsistent state, else replace the file.
Persist(s, next) ==
    IF ValidState(s)
      THEN /\ disk' = s /\ mem' = s /\ pc' = next
      ELSE /\ disk' = disk /\ mem' = NoState /\ pc' = "rejected"

-----------------------------------------------------------------------------
Init ==
    /\ markers = [run_spec |-> "absent", study_spec |-> "absent"]
    /\ disk = NoState
    /\ pc = "down"
    /\ mem = NoState
    /\ result = None
    /\ launches = 0
    /\ requests = {}
    /\ trained = 0

ghosts == <<requests, trained>>

\* A process is started on the run directory.
Launch ==
    /\ pc \in {"down", "exited", "rejected", "quarantined"}
    /\ launches < MaxLaunches
    /\ launches' = launches + 1
    /\ pc' = "prepare"
    /\ mem' = NoState
    /\ UNCHANGED <<markers, disk, result, ghosts>>

\* The marker that _prepare_directory looks at next.
NextMarker == IF markers.run_spec # "whole" THEN "run_spec" ELSE "study_spec"

\* create_json_exclusive: the name exists before its bytes do.
CreateMarker ==
    /\ pc = "prepare"
    /\ markers[NextMarker] = "absent"
    /\ markers' = [markers EXCEPT ![NextMarker] = "torn"]
    /\ pc' = "marking"
    /\ UNCHANGED <<disk, mem, result, launches, ghosts>>

WriteMarker ==
    /\ pc = "marking"
    /\ markers' = [markers EXCEPT ![NextMarker] = "whole"]
    /\ pc' = "prepare"
    /\ UNCHANGED <<disk, mem, result, launches, ghosts>>

\* A torn marker is never replaced: read_json raises on it.
Quarantine ==
    /\ pc = "prepare"
    /\ markers[NextMarker] = "torn"
    /\ pc' = "quarantined"
    /\ UNCHANGED <<markers, disk, mem, result, launches, ghosts>>

Prepared == \A m \in DOMAIN markers : markers[m] = "whole"

\* Mutant: a launch ignores the run state it finds.
StartFresh_Always ==
    /\ pc = "prepare" /\ Prepared
    /\ Persist(InitialState, "running")
    /\ UNCHANGED <<markers, result, launches, ghosts>>

StartFresh ==
    /\ pc = "prepare" /\ Prepared
    /\ disk.status = "absent"
    /\ Persist(InitialState, "running")
    /\ UNCHANGED <<markers, result, launches, ghosts>>

Resume ==
    /\ pc = "prepare" /\ Prepared
    /\ disk.status # "absent"
    /\ IF Loadable(disk)
         THEN /\ mem' = disk
              /\ pc' = IF disk.status = "completed" THEN "exited" ELSE "running"
         ELSE /\ mem' = NoState /\ pc' = "rejected"
    /\ UNCHANGED <<markers, disk, result, launches, ghosts>>

-----------------------------------------------------------------------------
\* The process dies.  An evaluation in progress may have trained by then.
Crash ==
    /\ pc \in {"prepare", "marking", "running", "request", "await", "seed",
               "evaluate", "record_seed", "record"}
    /\ launches < MaxLaunches
    /\ pc' = "down"
    /\ mem' = NoState
    /\ result' = None
    /\ IF pc \in {"seed", "evaluate"}
         THEN \E u \in TrainingUses : trained' = trained + u
         ELSE trained' = trained
    /\ UNCHANGED <<markers, disk, launches, requests>>

-----------------------------------------------------------------------------
StartSeed ==
    /\ pc = "running" /\ ~mem.seeded
    /\ pc' = "seed"
    /\ UNCHANGED <<markers, disk, mem, result, launches, ghosts>>

\* evaluate_seed or evaluate_candidate returns.
EvaluatorReturns ==
    /\ pc \in {"seed", "evaluate"}
    /\ \E o \in EvaluationOutcomes, u \in TrainingUses, r \in RetryUses :
         /\ result' = [outcome |-> o, training |-> u, retries |-> r]
         /\ trained' = trained + u
    /\ pc' = IF pc = "seed" THEN "record_seed" ELSE "record"
    /\ UNCHANGED <<markers, disk, mem, launches, requests>>

RecordSeedResult ==
    /\ pc = "record_seed"
    /\ CanRecordSeed(mem.ledger, result.training, result.retries)
    /\ Persist([mem EXCEPT !.ledger = RecordSeed(@, result.training,
                                                 result.retries),
                           !.seeded = TRUE], "running")
    /\ result' = None
    /\ UNCHANGED <<markers, launches, ghosts>>

\* BudgetExceeded escapes execute(): what was recorded in memory is lost.
ResultOverrun ==
    /\ \/ /\ pc = "record_seed"
          /\ ~CanRecordSeed(mem.ledger, result.training, result.retries)
       \/ /\ pc = "record"
          /\ ~CanRecordEvaluation(mem.ledger, result.training, result.retries)
    /\ pc' = "down"
    /\ mem' = NoState
    /\ result' = None
    /\ UNCHANGED <<markers, disk, launches, ghosts>>

-----------------------------------------------------------------------------
Ready == pc = "running" /\ mem.seeded

Idle == Ready /\ mem.active.index = NoIndex

OpenOpportunity ==
    /\ Idle
    /\ TerminalCount(mem.ledger) < ProposalOpportunities
    /\ CanBegin(mem.ledger, mem.next)
    /\ Persist([mem EXCEPT
                  !.ledger = Begin(@, mem.next),
                  !.active = [NoOpportunity EXCEPT
                    !.index = mem.next,
                    !.parents = ExpectedParents(mem),
                    !.transition = mem.next \in TransitionOpportunities]],
               "running")
    /\ UNCHANGED <<markers, result, launches, ghosts>>

Proposing == Ready /\ mem.active.index # NoIndex /\ mem.active.proposal = None

\* Mutant: an opportunity that was never put to the provider can be exhausted.
AttemptsExhausted_Early ==
    /\ Proposing
    /\ Persist(Finish(mem, mem.ledger, "infrastructure_failure",
                      "provider_attempts_exhausted"), "running")
    /\ UNCHANGED <<markers, result, launches, ghosts>>

\* Reached by a resume only: the last attempt was persisted, its answer lost.
AttemptsExhausted ==
    /\ Proposing
    /\ mem.active.attempts >= ProviderAttempts
    /\ Persist(Finish(mem, mem.ledger, "infrastructure_failure",
                      "provider_attempts_exhausted"), "running")
    /\ UNCHANGED <<markers, result, launches, ghosts>>

\* Mutant: the consumed attempt is persisted with the answer only.
StartProviderAttempt_Late ==
    /\ Proposing
    /\ mem.active.attempts < ProviderAttempts
    /\ mem' = [mem EXCEPT !.ledger = StartAttempt(@), !.active.attempts = @ + 1]
    /\ pc' = "request"
    /\ UNCHANGED <<markers, disk, result, launches, ghosts>>

\* The attempt is consumed, and persisted, before the request is made.
StartProviderAttempt ==
    /\ Proposing
    /\ mem.active.attempts < ProviderAttempts
    /\ CanStartAttempt(mem.ledger)
    /\ Persist([mem EXCEPT !.ledger = StartAttempt(@),
                           !.active.attempts =
                             mem.ledger.attempts[mem.active.index] + 1],
               "request")
    /\ UNCHANGED <<markers, result, launches, ghosts>>

SendRequest ==
    /\ pc = "request"
    /\ requests' = requests \cup {<<mem.active.index, mem.active.attempts>>}
    /\ pc' = "await"
    /\ UNCHANGED <<markers, disk, mem, result, launches, trained>>

\* RetryableProviderError, with an attempt and a retry left.
ProviderRetry ==
    /\ pc = "await"
    /\ mem.active.attempts < ProviderAttempts
    /\ CanRetry(mem.ledger)
    /\ Persist([mem EXCEPT !.ledger = RecordRetry(@)], "running")
    /\ UNCHANGED <<markers, result, launches, ghosts>>

\* RetryableProviderError, with none left.
ProviderGivesUp ==
    /\ pc = "await"
    /\ \/ mem.active.attempts >= ProviderAttempts
       \/ ~CanRetry(mem.ledger)
    /\ Persist(Finish(mem, mem.ledger, "infrastructure_failure",
                      IF mem.active.attempts < ProviderAttempts
                        THEN "infrastructure_retry_budget_exhausted"
                        ELSE "provider_attempts_exhausted"), "running")
    /\ UNCHANGED <<markers, result, launches, ghosts>>

\* The provider answers with a candidate source.
AnswerParses(text, usage) ==
    /\ pc = "await"
    /\ text \in Sources
    /\ CanRecordUsage(mem.ledger, usage)
    /\ Persist([mem EXCEPT !.ledger = RecordUsage(@, usage),
                           !.active.proposal = text], "running")
    /\ UNCHANGED <<markers, result, launches, ghosts>>

\* No candidate in the answer: ask again for a repair, or keep it as it is.
AnswerUnparsed(text, usage) ==
    /\ pc = "await"
    /\ text \in Garbage
    /\ CanRecordUsage(mem.ledger, usage)
    /\ LET l == RecordParseFailure(RecordUsage(mem.ledger, usage))
       IN IF mem.active.attempts < ProviderAttempts /\ CanRepair(l)
            THEN Persist([mem EXCEPT !.ledger = RecordRepair(l),
                                     !.active.repairs = @ + 1,
                                     !.active.previous = text], "running")
            ELSE Persist([mem EXCEPT !.ledger = l,
                                     !.active.proposal = text], "running")
    /\ UNCHANGED <<markers, result, launches, ghosts>>

\* BudgetExceeded escapes from record_provider_usage.
UsageOverrun ==
    /\ pc = "await"
    /\ \E usage \in Usages : ~CanRecordUsage(mem.ledger, usage)
    /\ pc' = "down"
    /\ mem' = NoState
    /\ UNCHANGED <<markers, disk, result, launches, ghosts>>

-----------------------------------------------------------------------------
Answered == Ready /\ mem.active.index # NoIndex /\ mem.active.proposal # None

CloseUnparsed ==
    /\ Answered
    /\ mem.active.proposal \in Garbage
    /\ Persist(Finish(mem, mem.ledger, "invalid", "proposal_parse"), "running")
    /\ UNCHANGED <<markers, result, launches, ghosts>>

IdentifyCandidate ==
    /\ Answered
    /\ mem.active.proposal \in Sources
    /\ mem.active.candidate = None
    /\ Persist([mem EXCEPT !.ledger = RecordSource(@, mem.active.proposal),
                           !.active.candidate = mem.active.proposal],
               "running")
    /\ UNCHANGED <<markers, result, launches, ghosts>>

StartEvaluation ==
    /\ Answered
    /\ mem.active.candidate # None
    /\ mem.active.evaluation = None
    /\ pc' = "evaluate"
    /\ UNCHANGED <<markers, disk, mem, result, launches, ghosts>>

\* Mutant: a failed evaluation is retried without being charged.
EvaluatorFails_Uncharged ==
    /\ pc = "evaluate"
    /\ pc' = "running"
    /\ UNCHANGED <<markers, disk, mem, result, launches, ghosts>>

\* RetryableEvaluationError: it carries no resource usage.
EvaluatorFails ==
    /\ pc = "evaluate"
    /\ \E u \in TrainingUses : trained' = trained + u
    /\ IF CanRetry(mem.ledger)
         THEN Persist([mem EXCEPT !.ledger = RecordRetry(@)], "running")
         ELSE Persist(Finish(mem, mem.ledger, "infrastructure_failure",
                             "infrastructure_retry_budget_exhausted"),
                      "running")
    /\ UNCHANGED <<markers, result, launches, requests>>

RecordResult ==
    /\ pc = "record"
    /\ CanRecordEvaluation(mem.ledger, result.training, result.retries)
    /\ Persist([mem EXCEPT !.ledger = RecordEvaluation(@, result.training,
                                                       result.retries),
                           !.active.evaluation = result.outcome], "running")
    /\ result' = None
    /\ UNCHANGED <<markers, launches, ghosts>>

CloseEvaluated ==
    /\ Answered
    /\ mem.active.evaluation # None
    /\ Persist(Finish(mem, mem.ledger, mem.active.evaluation, "evaluation"),
               "running")
    /\ UNCHANGED <<markers, result, launches, ghosts>>

CompleteRun ==
    /\ Idle
    /\ TerminalCount(mem.ledger) >= ProposalOpportunities
    /\ Persist([mem EXCEPT !.status = "completed"], "exited")
    /\ UNCHANGED <<markers, result, launches, ghosts>>

\* The bound on launches is reached and no process is alive.
Terminated ==
    /\ pc \in {"down", "exited", "rejected", "quarantined"}
    /\ launches = MaxLaunches
    /\ UNCHANGED vars

-----------------------------------------------------------------------------
ProviderAnswers ==
    \E text \in Texts, usage \in Usages :
        AnswerParses(text, usage) \/ AnswerUnparsed(text, usage)

\* What the process does by itself, and what its two services answer.
EngineStep ==
    \/ CreateMarker \/ WriteMarker \/ Quarantine \/ StartFresh \/ Resume
    \/ StartSeed \/ EvaluatorReturns \/ RecordSeedResult \/ ResultOverrun
    \/ OpenOpportunity \/ AttemptsExhausted \/ StartProviderAttempt
    \/ SendRequest \/ ProviderRetry \/ ProviderGivesUp \/ ProviderAnswers
    \/ UsageOverrun \/ CloseUnparsed \/ IdentifyCandidate \/ StartEvaluation
    \/ EvaluatorFails \/ RecordResult \/ CloseEvaluated \/ CompleteRun

Next == Launch \/ Crash \/ EngineStep \/ Terminated

Spec == Init /\ [][Next]_vars

\* A live process keeps going, its services answer, and a process that died
\* is launched again.
FairSpec ==
    /\ Spec
    /\ WF_vars(EngineStep)
    /\ WF_vars(Launch /\ disk.status # "completed")

-----------------------------------------------------------------------------
ActiveType ==
    [ index : Opportunities \cup {NoIndex}, parents : Seq(Sources),
      transition : BOOLEAN, attempts : Nat, repairs : Nat,
      previous : Garbage \cup {None}, proposal : Texts \cup {None},
      candidate : Sources \cup {None}, evaluation : Outcomes \cup {None} ]

Stages == {"provider_attempts_exhausted", "infrastructure_retry_budget_exhausted",
           "proposal_parse", "evaluation"}

TerminalType == [opportunity : ActiveType, outcome : Outcomes, stage : Stages]

StateType ==
    [ status : {"absent", "running", "completed"}, incumbent : Sources,
      portfolio : Seq(Sources), seeded : BOOLEAN, next : Nat,
      active : ActiveType,
      terminal : Seq(TerminalType),
      ledger : LedgerType(Sources) ]

PcValues == {"prepare", "marking", "running", "request", "await", "seed",
             "evaluate", "record_seed", "record", "exited", "down",
             "rejected", "quarantined"}

\* Types of the variables.
TypeOK ==
    /\ markers \in [{"run_spec", "study_spec"} -> {"absent", "torn", "whole"}]
    /\ disk \in StateType
    /\ pc \in PcValues
    /\ mem \in StateType
    /\ result \in {None} \cup [outcome : Outcomes \ {"invalid"}, training : Nat,
                               retries : Nat]
    /\ launches \in Nat
    /\ requests \subseteq (Opportunities \X (1 .. ProviderAttempts))
    /\ trained \in Nat

\* "A process crash can retry the opportunity, but never replay this attempt"
\* (engine.py, _advance_active_opportunity): whatever is killed and resumed,
\* no provider attempt is sent twice.
NeverReplayed ==
    [][pc = "request" /\ pc' = "await" =>
         <<mem.active.index, mem.active.attempts>> \notin requests]_vars

\* Every request that left the process is in the stored ledger, so a resumed
\* process cannot under-count provider attempts.
RequestsAccounted ==
    \A r \in requests : r[2] <= disk.ledger.attempts[r[1]]

\* Where the process holds the run state.
Holding == {"running", "request", "await", "seed", "evaluate", "record_seed",
            "record"}

\* The process works on what it stored last, and starts from nothing only if
\* nothing was stored.
MemoryIsStored ==
    /\ pc \in Holding => mem = disk /\ disk.status # "absent"
    /\ disk.status = "absent" => requests = {}

\* The attempt about to be sent is counted, and is none of those sent before.
RequestIsNew ==
    pc = "request" =>
      /\ mem.active.index \in Opportunities
      /\ mem.active.attempts \in 1 .. ProviderAttempts
      /\ mem.active.attempts = mem.ledger.attempts[mem.active.index]
      /\ <<mem.active.index, mem.active.attempts>> \notin requests

\* Only a candidate is evaluated, and a result waits where it is recorded.
EvaluationHasCandidate ==
    /\ \A s \in {disk, mem} :
         s.active.evaluation # None => s.active.candidate # None
    /\ pc \in {"evaluate", "record"} => mem.active.candidate # None
    /\ pc \in {"record_seed", "record"} => result # None

\* The inductive invariant behind TypeOK, RequestsAccounted and NeverReplayed:
\* whatever the process is about to do next, it does on the stored state, and
\* what it is about to send has been counted there and not been sent before.
StoredInv ==
    /\ TypeOK
    /\ MemoryIsStored
    /\ RequestIsNew
    /\ RequestsAccounted
    /\ EvaluationHasCandidate

\* What was stored was valid when it was written, every opportunity but the
\* active one is closed, and an opportunity with a proposal has consumed an
\* attempt.
StoredIsValid ==
    /\ disk.status = "absent" => disk = NoState
    /\ disk.status # "absent" =>
         /\ ValidState(disk)
         /\ disk.ledger.proposals =
              Len(disk.terminal) + (IF disk.active.index = NoIndex THEN 0 ELSE 1)
         /\ disk.active.index \in {NoIndex, disk.ledger.proposals}
         /\ disk.active.proposal # None => disk.active.attempts > 0

\* How far the run has come when the process is at a place of the opportunity:
\* the run is not completed, the seed was evaluated, the opportunity is open,
\* an answer is awaited of a counted attempt, a proposal is evaluated.
PlaceIsStored ==
    /\ pc \in Holding => disk.status = "running"
    /\ pc \in {"request", "await", "evaluate", "record"} =>
         disk.seeded /\ disk.active.index # NoIndex
    /\ pc = "await" => disk.active.attempts > 0
    /\ pc \in {"evaluate", "record"} => disk.active.proposal # None

\* The inductive invariant behind HistoryIsFinal and ImplementsProtocol too.
EngineInv == StoredInv /\ StoredIsValid /\ PlaceIsStored

\* The engine never writes, and never finds on resume, a state its own
\* validation (_validate_state, BudgetLedger.validate) refuses: a run is never
\* locked out by its own state file.
NeverRejected ==
    /\ pc # "rejected"
    /\ disk.status # "absent" => Loadable(disk)

\* Portfolio and incumbent as the terminal records alone determine them.
PortfolioAfter(terminal) ==
    LET P[k \in 0 .. Len(terminal)] ==
          IF k = 0 THEN <<Seed>>
          ELSE LET c == terminal[k].opportunity.candidate
               IN IF terminal[k].outcome = "accepted" /\ c \notin Range(P[k - 1])
                    THEN Append(P[k - 1], c) ELSE P[k - 1]
    IN P

IncumbentAfter(terminal, k) ==
    LET A == {j \in 1 .. k : terminal[j].outcome = "accepted"}
    IN IF A = {} THEN Seed
       ELSE terminal[CHOOSE j \in A : \A i \in A : i <= j].opportunity.candidate

\* Every opportunity proposed from the parents that the opportunities before
\* it determine, whatever interruptions lay between them, and the stored
\* incumbent and portfolio are the ones the terminal records determine.
ParentsReconstruct ==
    LET t == disk.terminal
        P == PortfolioAfter(t)
    IN /\ \A i \in 1 .. Len(t) :
            t[i].opportunity.parents =
              ParentsFrom(IncumbentAfter(t, i - 1), P[i - 1])
       /\ disk.portfolio = P[Len(t)]
       /\ disk.incumbent = IncumbentAfter(t, Len(t))

InvalidCount(s) ==
    Cardinality({i \in 1 .. Len(s.terminal) : s.terminal[i].outcome = "invalid"})

\* The stored ledger agrees with the terminal records, which _validate_state
\* compares for the active opportunity only; and every unparsed response was
\* repaired or ended its opportunity as invalid.
LedgerReconstructs ==
    /\ \A i \in 1 .. Len(disk.terminal) :
         LET a == disk.terminal[i].opportunity
         IN /\ a.index = i
            /\ a.attempts = disk.ledger.attempts[i]
            /\ a.repairs = disk.ledger.repairs[i]
    /\ \A o \in Outcomes :
         disk.ledger.outcomes[o] =
           Cardinality({i \in 1 .. Len(disk.terminal) :
                          disk.terminal[i].outcome = o})
    /\ disk.ledger.parse_failures =
         disk.ledger.repairs_total + InvalidCount(disk)
           + (IF disk.active.proposal \in Garbage THEN 1 ELSE 0)

\* An outcome rests on what its opportunity went through: only an evaluated
\* candidate is accepted, rejected or a scientific failure, and an opportunity
\* without an evaluation is invalid or an infrastructure failure.
OutcomeGrounded ==
    \A i \in 1 .. Len(disk.terminal) :
      LET r == disk.terminal[i]
          a == r.opportunity
      IN /\ r.stage = "evaluation" <=> a.evaluation # None
         /\ a.evaluation # None => /\ a.evaluation = r.outcome
                                   /\ a.candidate = a.proposal
                                   /\ a.candidate \in disk.ledger.sources
         /\ a.evaluation = None =>
              r.outcome = IF r.stage = "proposal_parse"
                            THEN "invalid" ELSE "infrastructure_failure"
         /\ a.proposal # None => <<i, a.attempts>> \in requests

\* The stored run can be told again from its terminal records: its portfolio
\* and parents, its ledger and the ground of each outcome.
StateReconstructs == ParentsReconstruct /\ LedgerReconstructs /\ OutcomeGrounded

\* What one evaluation may consume at most.
LargestUse == CHOOSE u \in TrainingUses : \A v \in TrainingUses : v <= u

RetryExhaustions(s) ==
    Cardinality({i \in 1 .. Len(s.terminal) :
        s.terminal[i].stage = "infrastructure_retry_budget_exhausted"})

\* Training that the stored ledger misses is bounded: at most one evaluation
\* for each launch of the process, and one for each failed evaluation.
TrainingAccounted ==
    trained <= disk.ledger.training
      + LargestUse * (launches + disk.ledger.retries + RetryExhaustions(disk))

\* The stored ledger passes its validation, and nothing was counted for an
\* opportunity that is not open yet.
LedgerIsSound ==
    /\ disk.status # "absent" => ValidLedger(disk.ledger)
    /\ \A i \in Opportunities :
         i > disk.ledger.proposals =>
           disk.ledger.attempts[i] = 0 /\ disk.ledger.repairs[i] = 0

\* What the active opportunity went through, so far, and at each place.
ActiveIsGrounded ==
    LET a == disk.active IN
    /\ a.index = NoIndex => a = NoOpportunity
    /\ a.candidate # None =>
         a.candidate = a.proposal /\ a.candidate \in disk.ledger.sources
    /\ a.evaluation # "invalid"
    /\ a.proposal # None => <<a.index, a.attempts>> \in requests
    /\ pc \in {"request", "await"} => a.proposal = None
    /\ pc = "await" => <<a.index, a.attempts>> \in requests
    /\ pc \in {"evaluate", "record"} => a.evaluation = None

Alive == pc \in Holding \cup {"prepare", "marking"}
Recording == pc \in {"record_seed", "record"}

\* A process that is alive has not lost the evaluation its launch may lose.
TrainingSlack ==
    /\ Recording => result.training \in TrainingUses
    /\ trained + (IF Alive THEN LargestUse ELSE 0)
         <= disk.ledger.training + (IF Recording THEN result.training ELSE 0)
              + LargestUse * (launches + disk.ledger.retries + RetryExhaustions(disk))

\* The inductive invariant behind NeverRejected, StateReconstructs and
\* TrainingAccounted.
RunInv ==
    /\ EngineInv
    /\ pc # "rejected"
    /\ LedgerIsSound
    /\ ActiveIsGrounded
    /\ StateReconstructs
    /\ TrainingSlack

\* The run state t comes after the run state s of the same run: terminal
\* records stay, counters do not fall, a completed run does not change.
Forward(s, t) ==
    /\ Len(s.terminal) <= Len(t.terminal)
    /\ \A i \in 1 .. Len(s.terminal) : t.terminal[i] = s.terminal[i]
    /\ \A i \in Opportunities : s.ledger.attempts[i] <= t.ledger.attempts[i]
    /\ s.ledger.training <= t.ledger.training
    /\ s.ledger.retries <= t.ledger.retries
    /\ s.seeded => t.seeded
    /\ s.status = "completed" => t = s

\* The stored run only moves forward: terminal records are never changed or
\* dropped, no counter is rolled back by a crash or a resume, and a completed
\* run never changes again.
HistoryIsFinal == [][Forward(disk, disk')]_vars

\* A run state, read as StudyProtocol reads it.
PhaseOf(s) == IF s.status = "completed" THEN "completed"
              ELSE IF s.seeded THEN "searching" ELSE "unseeded"

OutcomesOf(s) == [i \in 1 .. Len(s.terminal) |-> s.terminal[i].outcome]

Protocol == INSTANCE StudyProtocol WITH
    phase <- PhaseOf(disk),
    opened <- disk.ledger.proposals,
    asked <- disk.ledger.attempts,
    outcomes <- OutcomesOf(disk)

\* Every write of the run state is a step of the protocol or none at all:
\* crashes, resumes, retries and repairs do not show in it.
ImplementsProtocol == Protocol!Spec

\* One more answer or evaluation may not fit under a ceiling.
NoRoom(l) ==
    \/ \E u \in Usages \ {Unknown} : l.tokens + u > TokenCeiling
    \/ \E u \in TrainingUses : l.training + u > TrainingCeiling
    \/ \E r \in RetryUses : l.retries + r > RetryCeiling

\* A run that keeps being launched after each of finitely many crashes ends:
\* it completes, or a crash while a marker file was being written has
\* quarantined its directory, or its last launch died of a ceiling that leaves
\* no room for one more answer or evaluation.
RunSettles ==
    <>[](\/ disk.status = "completed"
         \/ \E m \in DOMAIN markers : markers[m] = "torn"
         \/ pc = "down" /\ NoRoom(disk.ledger))

=============================================================================
