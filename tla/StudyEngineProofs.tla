-------------------------- MODULE StudyEngineProofs --------------------------
(***************************************************************************)
(* Proofs about StudyEngine, for every number of opportunities, attempts,  *)
(* launches and crashes, every ceiling and every set of sources:           *)
(*                                                                         *)
(*   EngineTypes           the type invariant                              *)
(*   AttemptsCounted       every request sent is in the stored ledger      *)
(*   AttemptsOnce          no provider attempt is sent twice               *)
(*   EngineInvariant       the inductive invariant of the engine           *)
(*   StoredRunMovesForward no crash or resume takes back what was stored   *)
(*   EngineIsAProtocol     every write is a step of StudyProtocol          *)
(*   RunInvariant          the inductive invariant of the whole run        *)
(*   NeverLockedOut        no stored run state fails its own validation    *)
(*   RunReconstructs       the terminal records tell the stored run        *)
(*   TrainingBounded       how much training the stored ledger can miss    *)
(*                                                                         *)
(* and about StudySink, the engine and its event sink:                     *)
(*                                                                         *)
(*   LogInvariant          the inductive invariant of the event log        *)
(*   ToldInOrder           the log tells the run in causal order           *)
(*   FrozenMirrors         a frozen index covers what the run state says   *)
(*   SinkInvariant         the inductive invariant of the answers, too     *)
(*   ResponsesAreGrounded  responses are told of the attempt that gave them*)
(*   RefusalsExplained     the three reasons for which a state is refused  *)
(*   ObservedEngineIsAProtocol, ObservedRunMovesForward,                   *)
(*   ObservedAttemptsOnce  what the engine promises holds under its sink   *)
(*                                                                         *)
(* The first three follow from StoredInv: the lemmas say what the ledger's *)
(* recording operators return, what a whole run state is made of, and what *)
(* one _persist leaves behind.  A step writes the run state through        *)
(* Persist or leaves it alone; the lemmas of the second part say what a    *)
(* write means to the protocol: nothing or the seed (ChargePersisted),     *)
(* Open, Ask, Close or Complete.  That a state which fails its validation  *)
(* is not written is used in every one of them.                            *)
(*                                                                         *)
(* The third part proves RunInv.  A write must leave the ledger valid, its *)
(* sums and counts those of the opportunities and terminal records, and a  *)
(* portfolio and incumbent that the records determine (WriteOwes); lemmas  *)
(* CoursePersisted and FinishWritten say so of the writes that keep the    *)
(* opportunity open and of the one that closes it, and the ...Slack lemmas *)
(* balance the training.  Sums, counts and portfolios are recursive or     *)
(* folds: what they do with one more element is proved from the least      *)
(* counterexample (LeastNumber, EveryNumber).                              *)
(*                                                                         *)
(* The fourth part is about the sink.  A sound state (Sound) goes through  *)
(* writes (Moves) that take nothing back of what it called for: an event   *)
(* that stands (Standing) stands for ever, and what a write newly calls    *)
(* for comes after what is logged (FreshIsLate).  So the log is called     *)
(* for, holds one event of a key, and everything before its last event is  *)
(* told: LogInv.  Only the events of answers (Tellings) depend on the log  *)
(* itself; they may conflict, and what comes after a conflict is blocked   *)
(* (BlockedBy).  ToldInv adds that a kept response is logged, about to be, *)
(* lost in a crash or blocked, and that what is logged of it is true.      *)
(***************************************************************************)
EXTENDS StudySink, SequenceTheorems, FiniteSetTheorems,
        WellFoundedInduction, TLAPS

Ledgers == LedgerType(Sources)

-----------------------------------------------------------------------------
\* Adding one to a counter of a family leaves a family of counters.
LEMMA Incremented ==
    ASSUME NEW S, NEW f \in [S -> Nat], NEW i
    PROVE  [f EXCEPT ![i] = f[i] + 1] \in [S -> Nat]
  <1>1. \A j \in S : f[j] + 1 \in Nat
    OBVIOUS
  <1> QED BY <1>1

\* record_seed_evaluation keeps the ledger's type and its provider attempts.
LEMMA RecordSeedType ==
    ASSUME NEW l \in Ledgers, NEW n \in Nat, NEW r \in Nat
    PROVE  /\ RecordSeed(l, n, r) \in Ledgers
           /\ RecordSeed(l, n, r).attempts = l.attempts
  <1> DEFINE e == l.seed_evaluations + 1
             t == l.training + n
             f == l.retries + r
  <1>1. e \in Nat /\ t \in Nat /\ f \in Nat
    BY DEF Ledgers, LedgerType
  <1>2. RecordSeed(l, n, r) =
          [l EXCEPT !.seed_evaluations = e, !.training = t, !.retries = f]
    BY DEF RecordSeed
  <1> HIDE DEF e, t, f
  <1> QED BY <1>1, <1>2 DEF Ledgers, LedgerType

\* So does record_evaluation.
LEMMA RecordEvaluationType ==
    ASSUME NEW l \in Ledgers, NEW n \in Nat, NEW r \in Nat
    PROVE  /\ RecordEvaluation(l, n, r) \in Ledgers
           /\ RecordEvaluation(l, n, r).attempts = l.attempts
  <1> DEFINE t == l.training + n
             f == l.retries + r
  <1>1. t \in Nat /\ f \in Nat
    BY DEF Ledgers, LedgerType
  <1>2. RecordEvaluation(l, n, r) = [l EXCEPT !.training = t, !.retries = f]
    BY DEF RecordEvaluation
  <1> HIDE DEF t, f
  <1> QED BY <1>1, <1>2 DEF Ledgers, LedgerType

\* So does begin_opportunity.
LEMMA BeginType ==
    ASSUME NEW l \in Ledgers, NEW i \in Opportunities
    PROVE  /\ Begin(l, i) \in Ledgers
           /\ Begin(l, i).attempts = l.attempts
  <1> DEFINE p == l.proposals + 1
  <1>1. p \in Nat
    BY DEF Ledgers, LedgerType
  <1>2. Begin(l, i) = [l EXCEPT !.proposals = p, !.active = i]
    BY DEF Begin
  <1> HIDE DEF p
  <1> QED BY <1>1, <1>2 DEF Ledgers, LedgerType

\* So does record_repair.
LEMMA RecordRepairType ==
    ASSUME NEW l \in Ledgers
    PROVE  /\ RecordRepair(l) \in Ledgers
           /\ RecordRepair(l).attempts = l.attempts
  <1> DEFINE p == l.repairs_total + 1
             q == [l.repairs EXCEPT ![l.active] = l.repairs[l.active] + 1]
  <1>0. l.repairs_total \in Nat /\ l.repairs \in [Opportunities -> Nat]
    BY DEF Ledgers, LedgerType
  <1>1. p \in Nat /\ q \in [Opportunities -> Nat]
    BY <1>0, Incremented
  <1>2. RecordRepair(l) = [l EXCEPT !.repairs_total = p, !.repairs = q]
    BY DEF RecordRepair, Ledgers, LedgerType
  <1> HIDE DEF p, q
  <1> QED BY <1>1, <1>2 DEF Ledgers, LedgerType

\* So does finish_opportunity.
LEMMA FinishOpportunityType ==
    ASSUME NEW l \in Ledgers, NEW o \in Outcomes
    PROVE  /\ FinishOpportunity(l, o) \in Ledgers
           /\ FinishOpportunity(l, o).attempts = l.attempts
  <1> DEFINE q == [l.outcomes EXCEPT ![o] = l.outcomes[o] + 1]
  <1>1. q \in [Outcomes -> Nat]
    BY DEF Ledgers, LedgerType
  <1>2. FinishOpportunity(l, o) = [l EXCEPT !.outcomes = q, !.active = NoIndex]
    BY DEF FinishOpportunity, Ledgers, LedgerType
  <1> HIDE DEF q
  <1> QED BY <1>1, <1>2 DEF Ledgers, LedgerType

\* start_provider_attempt counts one attempt, for the active opportunity only,
\* and never past the ceiling.
LEMMA StartAttemptType ==
    ASSUME NEW l \in Ledgers, CanStartAttempt(l)
    PROVE  /\ StartAttempt(l) \in Ledgers
           /\ l.active \in Opportunities
           /\ StartAttempt(l).active = l.active
           /\ StartAttempt(l).attempts[l.active] = l.attempts[l.active] + 1
           /\ StartAttempt(l).attempts[l.active] \in 1 .. ProviderAttempts
           /\ \A j \in Opportunities :
                StartAttempt(l).attempts[j] >= l.attempts[j]
  <1> DEFINE p == l.attempts_total + 1
             q == [l.attempts EXCEPT ![l.active] = l.attempts[l.active] + 1]
  <1>0. l.attempts_total \in Nat /\ l.attempts \in [Opportunities -> Nat]
    BY DEF Ledgers, LedgerType
  <1>1. p \in Nat /\ q \in [Opportunities -> Nat]
    BY <1>0, Incremented
  <1>2. /\ l.active \in Opportunities
        /\ l.attempts \in [Opportunities -> Nat]
        /\ l.attempts[l.active] < ProviderAttempts
    BY DEF CanStartAttempt, Ledgers, LedgerType
  <1>3. StartAttempt(l) = [l EXCEPT !.attempts_total = p, !.attempts = q]
    BY DEF StartAttempt, Ledgers, LedgerType
  <1>4. /\ q[l.active] = l.attempts[l.active] + 1
        /\ q[l.active] \in 1 .. ProviderAttempts
        /\ \A j \in Opportunities : q[j] >= l.attempts[j]
    BY <1>2, BudgetAssumption
  <1> HIDE DEF p, q
  <1>5. /\ StartAttempt(l) \in Ledgers
        /\ StartAttempt(l).attempts = q
        /\ StartAttempt(l).active = l.active
    BY <1>1, <1>3 DEF Ledgers, LedgerType
  <1> QED BY <1>2, <1>4, <1>5

\* So do the recording methods that touch one counter.
LEMMA RecordOneType ==
    ASSUME NEW l \in Ledgers, NEW source \in Sources,
           NEW usage \in Nat \cup {Unknown}
    PROVE  /\ RecordUsage(l, usage) \in Ledgers
           /\ RecordUsage(l, usage).attempts = l.attempts
           /\ RecordParseFailure(l) \in Ledgers
           /\ RecordParseFailure(l).attempts = l.attempts
           /\ RecordSource(l, source) \in Ledgers
           /\ RecordSource(l, source).attempts = l.attempts
           /\ RecordRetry(l) \in Ledgers
           /\ RecordRetry(l).attempts = l.attempts
  <1>1. /\ RecordUsage(l, usage) \in Ledgers
        /\ RecordUsage(l, usage).attempts = l.attempts
    BY DEF RecordUsage, Ledgers, LedgerType
  <1>2. /\ RecordParseFailure(l) \in Ledgers
        /\ RecordParseFailure(l).attempts = l.attempts
    BY DEF RecordParseFailure, Ledgers, LedgerType
  <1>3. /\ RecordSource(l, source) \in Ledgers
        /\ RecordSource(l, source).attempts = l.attempts
    BY DEF RecordSource, Ledgers, LedgerType
  <1>4. /\ RecordRetry(l) \in Ledgers
        /\ RecordRetry(l).attempts = l.attempts
    BY DEF RecordRetry, Ledgers, LedgerType
  <1> QED BY <1>1, <1>2, <1>3, <1>4

-----------------------------------------------------------------------------
LEMMA NoOpportunityType == NoOpportunity \in ActiveType
  BY EngineAssumption DEF NoOpportunity, ActiveType, NoIndex

LEMMA EmptyLedgerType == EmptyLedger \in Ledgers
  BY DEF EmptyLedger, Ledgers, LedgerType, NoIndex

LEMMA InitialTypes ==
    /\ InitialState \in StateType
    /\ NoState \in StateType
    /\ NoState.status = "absent"
    /\ InitialState.active.evaluation = None
    /\ NoState.active.evaluation = None
  <1>1. <<Seed>> \in Seq(Sources) /\ <<>> \in Seq(TerminalType)
    BY EngineAssumption
  <1>2. /\ InitialState \in StateType
        /\ InitialState.active = NoOpportunity
    BY <1>1, NoOpportunityType, EmptyLedgerType, EngineAssumption
    DEF InitialState, StateType, Ledgers
  <1>3. /\ NoState \in StateType
        /\ NoState.status = "absent"
        /\ NoState.active = NoOpportunity
    BY <1>2 DEF NoState, StateType
  <1> QED
    BY <1>2, <1>3 DEF NoOpportunity

LEMMA ParentsType ==
    ASSUME NEW s \in StateType
    PROVE  ExpectedParents(s) \in Seq(Sources)
  <1> DEFINE m == IF Len(s.portfolio) > PortfolioSize
                    THEN Len(s.portfolio) - PortfolioSize + 1 ELSE 1
  <1>1. s.portfolio \in Seq(Sources) /\ s.incumbent \in Sources
    BY DEF StateType
  <1>2. Len(s.portfolio) \in Nat /\ PortfolioSize \in Nat \ {0}
    BY <1>1, EngineAssumption, LenProperties
  <1>3. m \in 1 .. Len(s.portfolio) + 1
    BY <1>2
  <1>4. SubSeq(s.portfolio, m, Len(s.portfolio)) \in Seq(Sources)
    BY <1>1, <1>2, <1>3, SubSeqProperties
  <1>5. LastOf(s.portfolio, PortfolioSize) \in Seq(Sources)
    BY <1>4 DEF LastOf
  <1> QED BY <1>1, <1>5 DEF ExpectedParents, ParentsFrom

\* A run state with other values of the types of its fields is a run state.
LEMMA StateUpdated ==
    ASSUME NEW s \in StateType, NEW l \in Ledgers, NEW a \in ActiveType
    PROVE  /\ [s EXCEPT !.ledger = l, !.active = a] \in StateType
           /\ [s EXCEPT !.ledger = l] \in StateType
           /\ [s EXCEPT !.active = a] \in StateType
           /\ [s EXCEPT !.ledger = l, !.seeded = TRUE] \in StateType
           /\ [s EXCEPT !.status = "completed"] \in StateType
  BY DEF StateType, Ledgers

\* _finish yields a run state, and touches no counter of provider attempts.
LEMMA FinishTypes ==
    ASSUME NEW s \in StateType, NEW l \in Ledgers, NEW o \in Outcomes,
           NEW stage \in Stages,
           o = "accepted" => s.active.candidate # None
    PROVE  /\ Finish(s, l, o, stage) \in StateType
           /\ Finish(s, l, o, stage).ledger.attempts = l.attempts
           /\ Finish(s, l, o, stage).active.evaluation = None
  <1> DEFINE a == s.active
             record == [opportunity |-> a, outcome |-> o, stage |-> stage]
             incumbent == IF o = "accepted" THEN a.candidate ELSE s.incumbent
             portfolio == IF o = "accepted" /\ a.candidate \notin Range(s.portfolio)
                            THEN Append(s.portfolio, a.candidate)
                            ELSE s.portfolio
             terminal == Append(s.terminal, record)
             next == s.next + 1
  <1>1. /\ a \in ActiveType /\ s.incumbent \in Sources
        /\ s.portfolio \in Seq(Sources)
        /\ s.terminal \in Seq(TerminalType)
        /\ s.next \in Nat
    BY DEF StateType
  <1>2. o = "accepted" => a.candidate \in Sources
    BY <1>1 DEF ActiveType
  <1>3. incumbent \in Sources
    BY <1>1, <1>2
  <1>4. portfolio \in Seq(Sources)
    BY <1>1, <1>2, AppendProperties
  <1>5. terminal \in Seq(TerminalType)
    BY <1>1, AppendProperties DEF TerminalType
  <1>6. /\ FinishOpportunity(l, o) \in Ledgers
        /\ FinishOpportunity(l, o).attempts = l.attempts
    BY FinishOpportunityType
  <1>7. next \in Nat
    BY <1>1
  <1> DEFINE ledger == FinishOpportunity(l, o)
             c == [s EXCEPT !.ledger = ledger,
                            !.incumbent = incumbent, !.portfolio = portfolio,
                            !.terminal = terminal, !.active = NoOpportunity,
                            !.next = next]
  <1>8. Finish(s, l, o, stage) = c
    BY DEF Finish, StateType
  <1>9. ledger \in Ledgers /\ ledger.attempts = l.attempts
    BY <1>6
  <1> HIDE DEF incumbent, portfolio, terminal, record, next, ledger
  <1>10. c \in StateType /\ c.ledger = ledger /\ c.active = NoOpportunity
    BY <1>3, <1>4, <1>5, <1>7, <1>9, NoOpportunityType DEF StateType, Ledgers
  <1> HIDE DEF c
  <1> QED
    BY <1>8, <1>9, <1>10 DEF NoOpportunity

-----------------------------------------------------------------------------
\* The results an evaluation can leave to be recorded.
Results == [outcome : Outcomes \ {"invalid"}, training : Nat, retries : Nat]

\* One _persist of a well-formed state that drops no provider attempt keeps
\* the invariant, whether the state is written or refused.
LEMMA PersistKeeps ==
    ASSUME StoredInv, NEW s \in StateType, NEW to \in {"running", "exited"},
           Persist(s, to),
           \A i \in Opportunities :
             s.ledger.attempts[i] >= disk.ledger.attempts[i],
           s.active.evaluation # None => s.active.candidate # None,
           markers' = markers, launches' = launches, requests' = requests,
           trained' \in Nat, result' \in Results \cup {None}
    PROVE  StoredInv'
  <1> USE DEF StoredInv
  <1>1. CASE ValidState(s)
    <2>1. disk' = s /\ mem' = s /\ pc' = to /\ s.status # "absent"
      BY <1>1 DEF Persist, ValidState
    <2>2. TypeOK'
      BY <2>1 DEF TypeOK, PcValues, Results
    <2>3. MemoryIsStored' /\ RequestIsNew'
      BY <2>1 DEF MemoryIsStored, RequestIsNew
    <2>4. RequestsAccounted'
      <3> SUFFICES ASSUME NEW r \in requests
                   PROVE  r[2] <= s.ledger.attempts[r[1]]
        BY <2>1 DEF RequestsAccounted
      <3>1. r[1] \in Opportunities /\ r[2] \in Nat
        BY DEF TypeOK
      <3>2. r[2] <= disk.ledger.attempts[r[1]]
        BY DEF RequestsAccounted
      <3>3. /\ disk.ledger.attempts[r[1]] \in Nat
            /\ s.ledger.attempts[r[1]] \in Nat
        BY <3>1 DEF TypeOK, StateType, LedgerType
      <3> QED BY <3>1, <3>2, <3>3
    <2>5. EvaluationHasCandidate'
      BY <2>1 DEF EvaluationHasCandidate
    <2> QED BY <2>2, <2>3, <2>4, <2>5
  <1>2. CASE ~ValidState(s)
    BY <1>2, InitialTypes
       DEF Persist, TypeOK, PcValues, Results, MemoryIsStored, RequestIsNew,
           RequestsAccounted, Holding, EvaluationHasCandidate
  <1> QED BY <1>1, <1>2

-----------------------------------------------------------------------------
LEMMA StoredInvInit == Init => StoredInv
  <1> SUFFICES ASSUME Init PROVE StoredInv
    OBVIOUS
  <1> USE DEF Init
  <1>1. TypeOK
    BY InitialTypes DEF TypeOK, PcValues
  <1>2. MemoryIsStored /\ RequestIsNew /\ RequestsAccounted
    BY DEF MemoryIsStored, Holding, RequestIsNew, RequestsAccounted
  <1>3. EvaluationHasCandidate
    BY InitialTypes DEF EvaluationHasCandidate
  <1> QED BY <1>1, <1>2, <1>3 DEF StoredInv

\* What every step of a process that holds the state starts from.
LEMMA HeldState ==
    ASSUME StoredInv, pc \in Holding
    PROVE  /\ mem = disk
           /\ mem \in StateType /\ mem.ledger \in Ledgers
           /\ mem.active \in ActiveType
           /\ mem.active.evaluation # None => mem.active.candidate # None
           /\ \A i \in Opportunities : mem.ledger.attempts[i] \in Nat
           /\ trained \in Nat
           /\ result \in Results \cup {None}
  BY DEF StoredInv, MemoryIsStored, TypeOK, Results, StateType, Ledgers, LedgerType,
         EvaluationHasCandidate

\* The steps that do not write the run state keep the invariant.
LEMMA UnstoredKeeps ==
    ASSUME StoredInv,
           \/ Launch \/ CreateMarker \/ WriteMarker \/ Quarantine \/ Crash
           \/ StartSeed \/ EvaluatorReturns \/ ResultOverrun \/ UsageOverrun
           \/ StartEvaluation \/ Terminated
    PROVE  StoredInv'
  <1> USE DEF StoredInv
  <1>1. ASSUME disk' = disk, requests' = requests,
               mem' \in {mem, NoState}, pc' \in PcValues,
               pc' \in Holding => mem' = disk /\ disk.status # "absent",
               pc' # "request",
               pc' \in {"evaluate", "record"} => mem'.active.candidate # None,
               pc' \in {"record_seed", "record"} => result' # None,
               TypeOK'
        PROVE  StoredInv'
    BY <1>1, InitialTypes
       DEF MemoryIsStored, RequestIsNew, RequestsAccounted, EvaluationHasCandidate
  <1>2. CASE Launch
    BY <1>2, InitialTypes, <1>1 DEF Launch, ghosts, TypeOK, PcValues, Holding
  <1>3. CASE CreateMarker \/ WriteMarker \/ Quarantine
    BY <1>3, <1>1
       DEF CreateMarker, WriteMarker, Quarantine, TypeOK, NextMarker, ghosts, PcValues,
           Holding
  <1>4. CASE Crash
    BY <1>4, EngineAssumption, InitialTypes, <1>1 DEF Crash, TypeOK, PcValues, Holding
  <1>5. CASE StartSeed \/ StartEvaluation
    BY <1>5, <1>1
       DEF StartSeed, StartEvaluation, ghosts, TypeOK, PcValues, Answered, Ready,
           MemoryIsStored, Holding
  <1>6. CASE EvaluatorReturns
    <2>1. PICK o \in EvaluationOutcomes, u \in TrainingUses, r \in RetryUses :
            /\ result' = [outcome |-> o, training |-> u, retries |-> r]
            /\ trained' = trained + u
      BY <1>6 DEF EvaluatorReturns
    <2>2. o \in Outcomes \ {"invalid"} /\ u \in Nat /\ r \in Nat
      BY EngineAssumption
    <2>3. result' \in Results /\ trained' \in Nat
      BY <2>1, <2>2 DEF Results, TypeOK
    <2>4. result' # None
      BY <2>3, EngineAssumption DEF Results
    <2>5. TypeOK'
      BY <1>6, <2>3 DEF EvaluatorReturns, TypeOK, PcValues, Results
    <2> QED BY <1>1, <1>6, <2>4, <2>5
            DEF EvaluatorReturns, MemoryIsStored, EvaluationHasCandidate,
                Holding, PcValues
  <1>7. CASE ResultOverrun \/ UsageOverrun
    BY <1>7, InitialTypes, <1>1
       DEF ResultOverrun, UsageOverrun, ghosts, TypeOK, PcValues, Holding
  <1>8. CASE Terminated
    BY <1>8 DEF Terminated, vars, TypeOK, MemoryIsStored, RequestIsNew,
                RequestsAccounted, EvaluationHasCandidate
  <1> QED BY <1>2, <1>3, <1>4, <1>5, <1>6, <1>7, <1>8

-----------------------------------------------------------------------------
\* An opportunity that is closed keeps the invariant, whatever the ledger was
\* charged with before.
LEMMA FinishKeeps ==
    ASSUME StoredInv, pc \in Holding,
           NEW l \in Ledgers, NEW o \in Outcomes, NEW stage \in Stages,
           l.attempts = mem.ledger.attempts,
           o = "accepted" => mem.active.candidate # None,
           Persist(Finish(mem, l, o, stage), "running"),
           markers' = markers, launches' = launches, requests' = requests,
           trained' \in Nat, result' \in Results \cup {None}
    PROVE  StoredInv'
  <1> DEFINE s == Finish(mem, l, o, stage)
  <1>1. /\ s \in StateType
        /\ s.ledger.attempts = mem.ledger.attempts
        /\ s.active.evaluation = None
    BY FinishTypes, HeldState
  <1>2. Persist(s, "running")
    OBVIOUS
  <1> HIDE DEF s
  <1>3. \A i \in Opportunities :
          s.ledger.attempts[i] >= disk.ledger.attempts[i]
    BY <1>1, HeldState
  <1> QED BY <1>1, <1>2, <1>3, PersistKeeps

\* The ledger or the active opportunity is updated; no attempt is counted.
LEMMA UpdateKeeps ==
    ASSUME StoredInv, pc \in Holding,
           NEW s \in StateType, NEW to \in {"running", "exited"},
           s.ledger.attempts = mem.ledger.attempts,
           s.active.evaluation # None => s.active.candidate # None,
           Persist(s, to),
           markers' = markers, launches' = launches, requests' = requests,
           trained' \in Nat, result' \in Results \cup {None}
    PROVE  StoredInv'
  BY HeldState, PersistKeeps

LEMMA StartFreshKeeps ==
    ASSUME StoredInv, StartFresh
    PROVE  StoredInv'
  <1>1. /\ requests = {} /\ requests' = requests /\ trained' \in Nat
        /\ trained' = trained /\ markers' = markers /\ launches' = launches
        /\ result' = result /\ Persist(InitialState, "running")
    BY DEF StartFresh, ghosts, StoredInv, MemoryIsStored, TypeOK
  <1>2. CASE ValidState(InitialState)
    <2>1. disk' = InitialState /\ mem' = InitialState /\ pc' = "running"
      BY <1>1, <1>2 DEF Persist
    <2>2. InitialState.status # "absent"
      BY DEF InitialState
    <2>3. TypeOK'
      BY <1>1, <2>1, InitialTypes DEF StoredInv, TypeOK, PcValues
    <2>4. MemoryIsStored' /\ RequestIsNew' /\ RequestsAccounted'
      BY <1>1, <2>1, <2>2 DEF MemoryIsStored, RequestIsNew, RequestsAccounted
    <2>5. EvaluationHasCandidate'
      BY <2>1, InitialTypes DEF EvaluationHasCandidate
    <2> QED BY <2>3, <2>4, <2>5 DEF StoredInv
  <1>3. CASE ~ValidState(InitialState)
    BY <1>1, <1>3, InitialTypes
       DEF Persist, StoredInv, TypeOK, PcValues, MemoryIsStored, RequestIsNew,
           RequestsAccounted, Holding, EvaluationHasCandidate
  <1> QED BY <1>2, <1>3

LEMMA ResumeKeeps ==
    ASSUME StoredInv, Resume
    PROVE  StoredInv'
  <1> USE DEF StoredInv
  <1>1. /\ disk' = disk /\ requests' = requests /\ disk.status # "absent"
        /\ trained' = trained /\ markers' = markers /\ launches' = launches
        /\ result' = result
        /\ \/ mem' = disk /\ pc' \in {"exited", "running"}
           \/ mem' = NoState /\ pc' = "rejected"
    BY DEF Resume, ghosts
  <1>2. TypeOK'
    BY <1>1, InitialTypes DEF TypeOK, PcValues
  <1>3. MemoryIsStored' /\ RequestIsNew' /\ RequestsAccounted'
    BY <1>1 DEF MemoryIsStored, RequestIsNew, RequestsAccounted, Holding
  <1>4. EvaluationHasCandidate'
    BY <1>1, InitialTypes DEF EvaluationHasCandidate
  <1> QED BY <1>2, <1>3, <1>4

\* The attempt is counted in the state that is stored before it is sent.
LEMMA StartAttemptKeeps ==
    ASSUME StoredInv, StartProviderAttempt
    PROVE  StoredInv'
  <1> USE DEF StoredInv
  <1> DEFINE i == mem.active.index
             n == mem.ledger.attempts[mem.active.index] + 1
             l == StartAttempt(mem.ledger)
             a == [mem.active EXCEPT !.attempts = n]
             s == [mem EXCEPT !.ledger = l, !.active = a]
  <1>1. /\ pc = "running" /\ CanStartAttempt(mem.ledger)
        /\ mem.active.index # NoIndex /\ mem.active.attempts < ProviderAttempts
    BY DEF StartProviderAttempt, Proposing, Ready
  <1> HIDE DEF StoredInv
  <1>2. /\ mem = disk /\ mem \in StateType /\ mem.ledger \in Ledgers
        /\ mem.active \in ActiveType
        /\ mem.active.evaluation # None => mem.active.candidate # None
    BY <1>1, HeldState DEF Holding
  <1> USE DEF StoredInv
  <1>3. /\ l \in Ledgers /\ mem.ledger.active \in Opportunities
        /\ l.active = mem.ledger.active
        /\ l.attempts[l.active] = mem.ledger.attempts[l.active] + 1
        /\ l.attempts[l.active] \in 1 .. ProviderAttempts
        /\ \A j \in Opportunities : l.attempts[j] >= mem.ledger.attempts[j]
    BY <1>1, <1>2, StartAttemptType
  <1>4. n \in Nat
    <2>1. i \in Opportunities
      BY <1>1, <1>2 DEF ActiveType
    <2> QED BY <1>2, <2>1 DEF Ledgers, LedgerType
  <1>5. a \in ActiveType /\ a.index = i /\ a.attempts = n
        /\ (a.evaluation # None => a.candidate # None)
    BY <1>2, <1>4 DEF ActiveType
  <1>6. Persist(s, "request")
    BY <1>2 DEF StartProviderAttempt, StateType, ActiveType
  <1>7. /\ requests' = requests /\ trained' = trained /\ markers' = markers
        /\ launches' = launches /\ result' = result
    BY DEF StartProviderAttempt, ghosts
  <1> HIDE DEF l, a, n
  <1>8. s \in StateType /\ s.ledger = l /\ s.active = a
    BY <1>2, <1>3, <1>5 DEF StateType, Ledgers
  <1> HIDE DEF s
  <1>9. CASE ValidState(s)
    <2>1. disk' = s /\ mem' = s /\ pc' = "request"
      BY <1>6, <1>9 DEF Persist
    <2>2. /\ i = l.active /\ n = l.attempts[i] /\ s.status # "absent"
      BY <1>1, <1>5, <1>8, <1>9 DEF ValidState
    <2>3. \A r \in requests : /\ r[1] \in Opportunities /\ r[2] \in Nat
                               /\ r[2] <= mem.ledger.attempts[r[1]]
      BY <1>2 DEF TypeOK, RequestsAccounted
    <2>4. \A j \in Opportunities : /\ mem.ledger.attempts[j] \in Nat
                                    /\ l.attempts[j] \in Nat
      BY <1>2, <1>3 DEF Ledgers, LedgerType
    <2>5. <<i, n>> \notin requests
      <3> SUFFICES ASSUME <<i, n>> \in requests PROVE FALSE
        OBVIOUS
      <3>1. n <= mem.ledger.attempts[i]
        BY <2>3
      <3>2. n = mem.ledger.attempts[i] + 1
        BY <1>3, <2>2
      <3>3. mem.ledger.attempts[i] \in Nat
        BY <1>3, <2>2, <2>4
      <3> QED BY <3>1, <3>2, <3>3
    <2>6. TypeOK'
      BY <1>7, <1>8, <2>1 DEF TypeOK, PcValues
    <2>7. MemoryIsStored'
      BY <2>1, <2>2 DEF MemoryIsStored
    <2>8. RequestIsNew'
      BY <1>3, <1>5, <1>7, <1>8, <2>1, <2>2, <2>5 DEF RequestIsNew
    <2>9. RequestsAccounted'
      <3> SUFFICES ASSUME NEW r \in requests
                   PROVE  r[2] <= l.attempts[r[1]]
        BY <1>7, <1>8, <2>1 DEF RequestsAccounted
      <3> QED BY <1>3, <2>3, <2>4
    <2>10. EvaluationHasCandidate'
      BY <1>5, <1>8, <2>1 DEF EvaluationHasCandidate
    <2> QED BY <2>6, <2>7, <2>8, <2>9, <2>10
  <1>10. CASE ~ValidState(s)
    BY <1>6, <1>10, <1>7, InitialTypes
       DEF Persist, TypeOK, PcValues, MemoryIsStored, RequestIsNew, RequestsAccounted,
           Holding, EvaluationHasCandidate
  <1> QED BY <1>9, <1>10

\* The request that is sent was counted by the step before.
LEMMA SendRequestKeeps ==
    ASSUME StoredInv, SendRequest
    PROVE  StoredInv'
  <1> USE DEF StoredInv
  <1>1. /\ pc = "request" /\ pc' = "await" /\ mem' = mem /\ disk' = disk
        /\ requests' = requests \cup
                          {<<mem.active.index, mem.active.attempts>>}
        /\ trained' = trained /\ markers' = markers /\ launches' = launches
        /\ result' = result
    BY DEF SendRequest
  <1>2. mem = disk /\ disk.status # "absent"
    BY <1>1 DEF MemoryIsStored, Holding
  <1>3. TypeOK'
    BY <1>1 DEF TypeOK, PcValues, RequestIsNew
  <1>4. MemoryIsStored' /\ RequestIsNew'
    BY <1>1, <1>2 DEF MemoryIsStored, RequestIsNew
  <1>5. RequestsAccounted'
    BY <1>1, <1>2 DEF RequestIsNew, RequestsAccounted
  <1>6. EvaluationHasCandidate'
    BY <1>1 DEF EvaluationHasCandidate
  <1> QED BY <1>3, <1>4, <1>5, <1>6

-----------------------------------------------------------------------------
\* The remaining steps store a state that counts the attempts counted before.
LEMMA StoredKeeps ==
    ASSUME StoredInv, pc \in Holding,
           \/ RecordSeedResult \/ OpenOpportunity \/ AttemptsExhausted
           \/ ProviderRetry \/ ProviderGivesUp \/ ProviderAnswers
           \/ CloseUnparsed \/ IdentifyCandidate \/ EvaluatorFails
           \/ RecordResult \/ CloseEvaluated \/ CompleteRun
    PROVE  StoredInv'
  <1>0. /\ mem = disk /\ mem \in StateType /\ mem.ledger \in Ledgers
        /\ mem.active \in ActiveType
        /\ mem.active.evaluation # None => mem.active.candidate # None
        /\ trained \in Nat /\ result \in Results \cup {None}
    BY HeldState
  <1>1. CASE RecordSeedResult
    <2> DEFINE l == RecordSeed(mem.ledger, result.training, result.retries)
               s == [mem EXCEPT !.ledger = l, !.seeded = TRUE]
    <2>1. result \in Results
      BY <1>1, <1>0 DEF RecordSeedResult, StoredInv, EvaluationHasCandidate
    <2>2. l \in Ledgers /\ l.attempts = mem.ledger.attempts
      BY <1>0, <2>1, RecordSeedType DEF Results
    <2>3. Persist(s, "running")
      BY <1>1, <1>0 DEF RecordSeedResult, StateType
    <2>4. /\ markers' = markers /\ launches' = launches /\ requests' = requests
          /\ trained' = trained /\ result' = None
      BY <1>1 DEF RecordSeedResult, ghosts
    <2> HIDE DEF l
    <2>5. s \in StateType /\ s.ledger = l /\ s.active = mem.active
      BY <1>0, <2>2 DEF StateType, Ledgers
    <2> HIDE DEF s
    <2> QED BY <1>0, <2>2, <2>3, <2>4, <2>5, UpdateKeeps
  <1>2. CASE OpenOpportunity
    <2> DEFINE l == Begin(mem.ledger, mem.next)
               parents == ExpectedParents(mem)
               transition == mem.next \in TransitionOpportunities
               a == [NoOpportunity EXCEPT !.index = mem.next,
                                          !.parents = parents,
                                          !.transition = transition]
               s == [mem EXCEPT !.ledger = l, !.active = a]
    <2>1. mem.next \in Opportunities
      <3>1. mem.ledger.proposals \in Nat
        BY <1>0 DEF Ledgers, LedgerType
      <3>2. /\ mem.next = mem.ledger.proposals + 1
            /\ mem.ledger.proposals < ProposalOpportunities
        BY <1>2 DEF OpenOpportunity, CanBegin
      <3> QED BY <3>1, <3>2, BudgetAssumption DEF Opportunities
    <2>2. l \in Ledgers /\ l.attempts = mem.ledger.attempts
      BY <1>0, <2>1, BeginType
    <2>3. a \in ActiveType /\ a.evaluation = None
      <3>1. parents \in Seq(Sources) /\ transition \in BOOLEAN
        BY <1>0, ParentsType
      <3>2. NoOpportunity \in ActiveType /\ NoOpportunity.evaluation = None
        BY NoOpportunityType DEF NoOpportunity
      <3> HIDE DEF parents, transition
      <3> QED BY <2>1, <3>1, <3>2 DEF ActiveType
    <2>4. Persist(s, "running")
      BY <1>2, <1>0 DEF OpenOpportunity, StateType
    <2>5. /\ markers' = markers /\ launches' = launches /\ requests' = requests
          /\ trained' = trained /\ result' = result
      BY <1>2 DEF OpenOpportunity, ghosts
    <2> HIDE DEF l, a
    <2>6. s \in StateType /\ s.ledger = l /\ s.active = a
      BY <1>0, <2>2, <2>3 DEF StateType, Ledgers
    <2> HIDE DEF s
    <2> QED BY <1>0, <2>2, <2>3, <2>4, <2>5, <2>6, UpdateKeeps
  <1>3. CASE AttemptsExhausted
    BY <1>3, <1>0, FinishKeeps DEF AttemptsExhausted, ghosts, Outcomes, Stages
  <1>4. CASE ProviderRetry
    <2> DEFINE l == RecordRetry(mem.ledger)
               s == [mem EXCEPT !.ledger = l]
    <2>1. l \in Ledgers /\ l.attempts = mem.ledger.attempts
      BY <1>0, EngineAssumption, RecordOneType
    <2>2. Persist(s, "running")
      BY <1>4, <1>0 DEF ProviderRetry, StateType
    <2>3. /\ markers' = markers /\ launches' = launches /\ requests' = requests
          /\ trained' = trained /\ result' = result
      BY <1>4 DEF ProviderRetry, ghosts
    <2> HIDE DEF l
    <2>4. s \in StateType /\ s.ledger = l /\ s.active = mem.active
      BY <1>0, <2>1 DEF StateType, Ledgers
    <2> HIDE DEF s
    <2> QED BY <1>0, <2>1, <2>2, <2>3, <2>4, UpdateKeeps
  <1>5. CASE ProviderGivesUp
    <2> DEFINE stage == IF mem.active.attempts < ProviderAttempts
                          THEN "infrastructure_retry_budget_exhausted"
                          ELSE "provider_attempts_exhausted"
    <2>1. /\ Persist(Finish(mem, mem.ledger, "infrastructure_failure", stage),
                     "running")
          /\ markers' = markers /\ launches' = launches /\ requests' = requests
          /\ trained' = trained /\ result' = result
      BY <1>5 DEF ProviderGivesUp, ghosts
    <2>2. stage \in Stages /\ "infrastructure_failure" \in Outcomes
      BY DEF Stages, Outcomes
    <2> HIDE DEF stage
    <2> QED BY <1>0, <2>1, <2>2, FinishKeeps
  <1>6. CASE ProviderAnswers
    <2>1. PICK text \in Texts, usage \in Usages :
            AnswerParses(text, usage) \/ AnswerUnparsed(text, usage)
      BY <1>6 DEF ProviderAnswers
    <2>2. usage \in Nat \cup {Unknown}
      BY EngineAssumption
    <2>3. CASE AnswerParses(text, usage)
      <3> DEFINE l == RecordUsage(mem.ledger, usage)
                 a == [mem.active EXCEPT !.proposal = text]
                 s == [mem EXCEPT !.ledger = l, !.active = a]
      <3>1. l \in Ledgers /\ l.attempts = mem.ledger.attempts
        BY <1>0, <2>2, EngineAssumption, RecordOneType
      <3>2. /\ a \in ActiveType
            /\ a.evaluation # None => a.candidate # None
        BY <1>0 DEF ActiveType
      <3>3. Persist(s, "running")
        BY <1>0, <2>3 DEF AnswerParses, StateType
      <3>4. /\ markers' = markers /\ launches' = launches
            /\ requests' = requests /\ trained' = trained /\ result' = result
        BY <2>3 DEF AnswerParses, ghosts
      <3> HIDE DEF l, a
      <3>5. s \in StateType /\ s.ledger = l /\ s.active = a
        BY <1>0, <3>1, <3>2 DEF StateType, Ledgers
      <3> HIDE DEF s
      <3> QED BY <1>0, <3>1, <3>2, <3>3, <3>4, <3>5, UpdateKeeps
    <2>4. CASE AnswerUnparsed(text, usage)
      <3> DEFINE l == RecordParseFailure(RecordUsage(mem.ledger, usage))
                 repair == mem.active.attempts < ProviderAttempts /\ CanRepair(l)
                 a == IF repair
                        THEN [mem.active EXCEPT !.repairs = mem.active.repairs + 1,
                                                !.previous = text]
                        ELSE [mem.active EXCEPT !.proposal = text]
                 m == IF repair THEN RecordRepair(l) ELSE l
                 s == [mem EXCEPT !.ledger = m, !.active = a]
      <3>1. l \in Ledgers /\ l.attempts = mem.ledger.attempts
        BY <1>0, <2>2, EngineAssumption, RecordOneType
      <3>2. m \in Ledgers /\ m.attempts = mem.ledger.attempts
        BY <3>1, RecordRepairType
      <3>3. /\ a \in ActiveType
            /\ a.evaluation # None => a.candidate # None
        <4>1. mem.active.repairs + 1 \in Nat /\ text \in Garbage
          BY <1>0, <2>4 DEF ActiveType, AnswerUnparsed
        <4> QED BY <1>0, <4>1 DEF ActiveType
      <3>4. Persist(s, "running")
        BY <1>0, <2>4 DEF AnswerUnparsed, StateType, ActiveType
      <3>5. /\ markers' = markers /\ launches' = launches
            /\ requests' = requests /\ trained' = trained /\ result' = result
        BY <2>4 DEF AnswerUnparsed, ghosts
      <3> HIDE DEF l, a, m
      <3>6. s \in StateType /\ s.ledger = m /\ s.active = a
        BY <1>0, <3>2, <3>3 DEF StateType, Ledgers
      <3> HIDE DEF s
      <3> QED BY <1>0, <3>2, <3>3, <3>4, <3>5, <3>6, UpdateKeeps
    <2> QED BY <2>1, <2>3, <2>4
  <1>7. CASE CloseUnparsed
    BY <1>7, <1>0, FinishKeeps DEF CloseUnparsed, ghosts, Outcomes, Stages
  <1>8. CASE IdentifyCandidate
    <2> DEFINE l == RecordSource(mem.ledger, mem.active.proposal)
               a == [mem.active EXCEPT !.candidate = mem.active.proposal]
               s == [mem EXCEPT !.ledger = l, !.active = a]
    <2>1. mem.active.proposal \in Sources
      BY <1>8 DEF IdentifyCandidate
    <2>2. l \in Ledgers /\ l.attempts = mem.ledger.attempts
      BY <1>0, <2>1, RecordOneType
    <2>3. a \in ActiveType /\ a.candidate # None
      BY <1>0, <2>1, EngineAssumption DEF ActiveType
    <2>4. Persist(s, "running")
      BY <1>8, <1>0 DEF IdentifyCandidate, StateType, ActiveType
    <2>5. /\ markers' = markers /\ launches' = launches /\ requests' = requests
          /\ trained' = trained /\ result' = result
      BY <1>8 DEF IdentifyCandidate, ghosts
    <2> HIDE DEF l, a
    <2>6. s \in StateType /\ s.ledger = l /\ s.active = a
      BY <1>0, <2>2, <2>3 DEF StateType, Ledgers
    <2> HIDE DEF s
    <2> QED BY <1>0, <2>2, <2>3, <2>4, <2>5, <2>6, UpdateKeeps
  <1>9. CASE EvaluatorFails
    <2> DEFINE l == RecordRetry(mem.ledger)
               s == [mem EXCEPT !.ledger = l]
    <2>1. l \in Ledgers /\ l.attempts = mem.ledger.attempts
      BY <1>0, EngineAssumption, RecordOneType
    <2>2. /\ markers' = markers /\ launches' = launches /\ requests' = requests
          /\ trained' \in Nat /\ result' = result
      BY <1>9, <1>0, EngineAssumption DEF EvaluatorFails
    <2>3. \/ Persist(s, "running")
          \/ Persist(Finish(mem, mem.ledger, "infrastructure_failure",
                            "infrastructure_retry_budget_exhausted"), "running")
      BY <1>9, <1>0 DEF EvaluatorFails, StateType
    <2> HIDE DEF l
    <2>4. s \in StateType /\ s.ledger = l /\ s.active = mem.active
      BY <1>0, <2>1 DEF StateType, Ledgers
    <2> HIDE DEF s
    <2>5. CASE Persist(s, "running")
      BY <1>0, <2>1, <2>2, <2>4, <2>5, UpdateKeeps
    <2>6. CASE Persist(Finish(mem, mem.ledger, "infrastructure_failure",
                              "infrastructure_retry_budget_exhausted"), "running")
      BY <1>0, <2>2, <2>6, FinishKeeps DEF Outcomes, Stages
    <2> QED BY <2>3, <2>5, <2>6
  <1>10. CASE RecordResult
    <2> DEFINE l == RecordEvaluation(mem.ledger, result.training, result.retries)
               a == [mem.active EXCEPT !.evaluation = result.outcome]
               s == [mem EXCEPT !.ledger = l, !.active = a]
    <2>1. result \in Results /\ mem.active.candidate # None
      BY <1>10, <1>0 DEF RecordResult, StoredInv, EvaluationHasCandidate
    <2>2. l \in Ledgers /\ l.attempts = mem.ledger.attempts
      BY <1>0, <2>1, RecordEvaluationType DEF Results
    <2>3. a \in ActiveType /\ a.candidate # None
      BY <1>0, <2>1 DEF ActiveType, Results
    <2>4. Persist(s, "running")
      BY <1>10, <1>0 DEF RecordResult, StateType, ActiveType
    <2>5. /\ markers' = markers /\ launches' = launches /\ requests' = requests
          /\ trained' = trained /\ result' = None
      BY <1>10 DEF RecordResult, ghosts
    <2> HIDE DEF l, a
    <2>6. s \in StateType /\ s.ledger = l /\ s.active = a
      BY <1>0, <2>2, <2>3 DEF StateType, Ledgers
    <2> HIDE DEF s
    <2> QED BY <1>0, <2>2, <2>3, <2>4, <2>5, <2>6, UpdateKeeps
  <1>11. CASE CloseEvaluated
    <2> DEFINE o == mem.active.evaluation
    <2>1. /\ Persist(Finish(mem, mem.ledger, o, "evaluation"), "running")
          /\ markers' = markers /\ launches' = launches /\ requests' = requests
          /\ trained' = trained /\ result' = result
      BY <1>11 DEF CloseEvaluated, ghosts
    <2>2. /\ o \in Outcomes /\ "evaluation" \in Stages
          /\ mem.active.candidate # None
      BY <1>11, <1>0 DEF CloseEvaluated, ActiveType, Stages
    <2> HIDE DEF o
    <2> QED BY <1>0, <2>1, <2>2, FinishKeeps
  <1>12. CASE CompleteRun
    <2> DEFINE s == [mem EXCEPT !.status = "completed"]
    <2>1. Persist(s, "exited")
      BY <1>12 DEF CompleteRun
    <2>2. /\ markers' = markers /\ launches' = launches /\ requests' = requests
          /\ trained' = trained /\ result' = result
      BY <1>12 DEF CompleteRun, ghosts
    <2>3. s \in StateType /\ s.ledger = mem.ledger /\ s.active = mem.active
      BY <1>0 DEF StateType
    <2> HIDE DEF s
    <2> QED BY <1>0, <2>1, <2>2, <2>3, UpdateKeeps
  <1> QED BY <1>1, <1>2, <1>3, <1>4, <1>5, <1>6, <1>7, <1>8, <1>9, <1>10,
             <1>11, <1>12

LEMMA StoredInvStep == StoredInv /\ [Next]_vars => StoredInv'
  <1> SUFFICES ASSUME StoredInv, [Next]_vars
               PROVE  StoredInv'
    OBVIOUS
  <1>1. CASE UNCHANGED vars
    BY <1>1 DEF vars, StoredInv, TypeOK, MemoryIsStored, RequestIsNew,
                RequestsAccounted, EvaluationHasCandidate
  <1>2. CASE \/ Launch \/ CreateMarker \/ WriteMarker \/ Quarantine \/ Crash
             \/ StartSeed \/ EvaluatorReturns \/ ResultOverrun \/ UsageOverrun
             \/ StartEvaluation \/ Terminated
    BY <1>2, UnstoredKeeps
  <1>3. CASE StartFresh
    BY <1>3, StartFreshKeeps
  <1>4. CASE Resume
    BY <1>4, ResumeKeeps
  <1>5. CASE StartProviderAttempt
    BY <1>5, StartAttemptKeeps
  <1>6. CASE SendRequest
    BY <1>6, SendRequestKeeps
  <1>7. CASE \/ RecordSeedResult \/ OpenOpportunity \/ AttemptsExhausted
             \/ ProviderRetry \/ ProviderGivesUp \/ ProviderAnswers
             \/ CloseUnparsed \/ IdentifyCandidate \/ EvaluatorFails
             \/ RecordResult \/ CloseEvaluated \/ CompleteRun
    <2>1. pc \in Holding
      BY <1>7 DEF Holding, RecordSeedResult, OpenOpportunity, AttemptsExhausted,
                  ProviderRetry, ProviderGivesUp, ProviderAnswers, AnswerParses,
                  AnswerUnparsed, CloseUnparsed, IdentifyCandidate,
                  EvaluatorFails, RecordResult, CloseEvaluated, CompleteRun,
                  Idle, Proposing, Answered, Ready
    <2> QED BY <1>7, <2>1, StoredKeeps
  <1> QED BY <1>1, <1>2, <1>3, <1>4, <1>5, <1>6, <1>7 DEF Next, EngineStep

-----------------------------------------------------------------------------
\* The inductive invariant holds of every execution, whatever is killed.
THEOREM StoredInvariant == Spec => []StoredInv
  BY StoredInvInit, StoredInvStep, PTL DEF Spec

\* Types of the engine's variables.
THEOREM EngineTypes == Spec => []TypeOK
  <1>1. StoredInv => TypeOK
    BY DEF StoredInv
  <1> QED BY <1>1, StoredInvariant, PTL

\* Every provider request that ever left a process is counted in the stored
\* ledger, so a process that resumes cannot under-count provider attempts.
THEOREM AttemptsCounted == Spec => []RequestsAccounted
  <1>1. StoredInv => RequestsAccounted
    BY DEF StoredInv
  <1> QED BY <1>1, StoredInvariant, PTL

\* "A process crash can retry the opportunity, but never replay this attempt":
\* no provider attempt is sent twice, for any number of crashes and launches.
THEOREM AttemptsOnce == Spec => NeverReplayed
  <1>1. StoredInv /\ [Next]_vars =>
          [pc = "request" /\ pc' = "await" =>
             <<mem.active.index, mem.active.attempts>> \notin requests]_vars
    BY DEF StoredInv, RequestIsNew
  <1> QED BY <1>1, StoredInvariant, PTL DEF Spec, NeverReplayed

-----------------------------------------------------------------------------
\* What a step owes: its part of the invariant, and the two properties.
Owed == /\ StoredIsValid'
        /\ PlaceIsStored'
        /\ Forward(disk, disk')
        /\ [Protocol!Next]_(Protocol!vars)

\* The ledger m is the ledger l charged with something else than attempts.
Charged(l, m) ==
    /\ m.proposals = l.proposals
    /\ m.attempts = l.attempts
    /\ l.training <= m.training
    /\ l.retries <= m.retries

-----------------------------------------------------------------------------
\* What the counters of a stored run are.
LEMMA StateNumbers ==
    ASSUME NEW s \in StateType
    PROVE  /\ s.ledger \in Ledgers /\ s.active \in ActiveType
           /\ s.terminal \in Seq(TerminalType) /\ Len(s.terminal) \in Nat
           /\ s.ledger.proposals \in Nat
           /\ s.ledger.attempts \in [Opportunities -> Nat]
           /\ s.ledger.training \in Nat /\ s.ledger.retries \in Nat
           /\ s.seeded \in BOOLEAN
  BY LenProperties DEF StateType, Ledgers, LedgerType

LEMMA StaysForward == \A s \in StateType : Forward(s, s)
  BY StateNumbers DEF Forward

\* What a step that holds the run state starts from.
LEMMA HeldRun ==
    ASSUME EngineInv, pc \in Holding
    PROVE  /\ mem = disk /\ disk \in StateType /\ disk.status = "running"
           /\ ValidState(disk)
           /\ disk.ledger.proposals =
                Len(disk.terminal) + (IF disk.active.index = NoIndex THEN 0 ELSE 1)
           /\ disk.active.index \in {NoIndex, disk.ledger.proposals}
           /\ disk.active.proposal # None => disk.active.attempts > 0
  BY DEF EngineInv, StoredInv, TypeOK, MemoryIsStored, StoredIsValid,
         PlaceIsStored

\* A step that leaves the stored run alone owes only its place.
LEMMA DiskKept ==
    ASSUME EngineInv, disk' = disk, PlaceIsStored'
    PROVE  Owed
  BY StaysForward
     DEF EngineInv, StoredIsValid, ValidState, ExpectedParents, ParentsFrom, StoredInv,
         TypeOK, Protocol!vars, Owed

\* So does one whose write is refused.
LEMMA Refused ==
    ASSUME EngineInv, NEW s, NEW to, Persist(s, to), ~ValidState(s)
    PROVE  Owed
  BY DiskKept DEF Persist, PlaceIsStored, Holding

-----------------------------------------------------------------------------
\* A write that charges the ledger is the seed's step or none.
LEMMA ChargePersisted ==
    ASSUME EngineInv, pc \in Holding, NEW s \in StateType,
           Persist(s, "running"),
           s.status = disk.status, s.terminal = disk.terminal,
           Charged(disk.ledger, s.ledger),
           s.active.index = disk.active.index,
           disk.seeded => s.seeded,
           s.active.proposal # None => s.active.attempts > 0
    PROVE  Owed
  <1>1. CASE ValidState(s)
    <2>1. disk' = s /\ mem' = s /\ pc' = "running"
      BY <1>1 DEF Persist
    <2>2. StoredIsValid'
      BY <1>1, <2>1, HeldRun DEF StoredIsValid, Charged
    <2>3. PlaceIsStored'
      BY <2>1, HeldRun DEF PlaceIsStored
    <2>4. Forward(disk, disk')
      BY <2>1, HeldRun, StateNumbers DEF Forward, Charged
    <2>5. /\ s.ledger.proposals = disk.ledger.proposals
          /\ s.ledger.attempts = disk.ledger.attempts
          /\ OutcomesOf(s) = OutcomesOf(disk)
      BY DEF Charged, OutcomesOf
    <2>6. CASE s.seeded = disk.seeded
      BY <2>6, <2>1, <2>2, <2>3, <2>4, <2>5 DEF PhaseOf, Owed, Protocol!vars
    <2>7. CASE s.seeded # disk.seeded
      BY <2>7, HeldRun, StateNumbers, <2>1, <2>5, <2>2, <2>3, <2>4
         DEF PhaseOf, Protocol!SeedEvaluated, Owed, Protocol!Next
    <2> QED BY <2>6, <2>7
  <1>2. CASE ~ValidState(s)
    BY <1>2, Refused
  <1> QED BY <1>1, <1>2

-----------------------------------------------------------------------------
\* One more terminal record is one more outcome.
LEMMA OutcomeAppended ==
    ASSUME NEW s \in StateType, NEW t \in StateType,
           NEW r \in TerminalType,
           t.terminal = Append(s.terminal, r)
    PROVE  OutcomesOf(t) = Append(OutcomesOf(s), r.outcome)
  <1>1. /\ s.terminal \in Seq(TerminalType) /\ Len(s.terminal) \in Nat
        /\ Len(t.terminal) = Len(s.terminal) + 1
        /\ \A i \in 1 .. Len(s.terminal) : t.terminal[i] = s.terminal[i]
        /\ t.terminal[Len(s.terminal) + 1] = r
    BY StateNumbers
  <1> DEFINE u == OutcomesOf(s)
             o == r.outcome
             v == Append(u, o)
             N == Len(s.terminal)
  <1>2. /\ u = [i \in 1 .. N |-> s.terminal[i].outcome]
        /\ OutcomesOf(t) = [i \in 1 .. N + 1 |-> t.terminal[i].outcome]
    BY <1>1 DEF OutcomesOf
  <1>3. \A i \in 1 .. N : s.terminal[i].outcome \in Outcomes
    <2>1. \A i \in 1 .. N : s.terminal[i] \in TerminalType
      BY <1>1
    <2> QED BY <2>1 DEF TerminalType
  <1>4. u \in Seq(Outcomes) /\ Len(u) = N
    <2>1. u \in [1 .. N -> Outcomes]
      BY <1>2, <1>3
    <2> HIDE DEF u, N
    <2>2. N \in Nat
      BY <1>1 DEF N
    <2> QED BY <2>1, <2>2
  <1>5. v = [i \in 1 .. N + 1 |-> IF i = N + 1 THEN o ELSE u[i]]
    <2>1. o \in Outcomes
      BY DEF TerminalType
    <2> HIDE DEF u, o, N
    <2>2. /\ Append(u, o) \in Seq(Outcomes)
          /\ Len(Append(u, o)) = Len(u) + 1
          /\ \A i \in 1 .. Len(u) : Append(u, o)[i] = u[i]
          /\ Append(u, o)[Len(u) + 1] = o
      BY <1>4, <2>1, AppendProperties
    <2>3. /\ Len(v) = N + 1 /\ N \in Nat
          /\ \A i \in 1 .. N + 1 : v[i] = IF i = N + 1 THEN o ELSE u[i]
      BY <1>1, <1>4, <2>2 DEF N
    <2>4. v \in [1 .. N + 1 -> Outcomes]
      BY <2>2, <2>3, LenProperties
    <2> HIDE DEF v
    <2> QED BY <2>3, <2>4
  <1>6. \A i \in 1 .. N + 1 :
          t.terminal[i].outcome = IF i = N + 1 THEN o ELSE u[i]
    BY <1>1, <1>2
  <1> QED BY <1>2, <1>5, <1>6

\* What _finish makes of a state.
LEMMA Finished ==
    ASSUME NEW s \in StateType, NEW o \in Outcomes, NEW stage \in Stages,
           o = "accepted" => s.active.candidate # None
    PROVE  LET t == Finish(s, s.ledger, o, stage)
           IN /\ t \in StateType
              /\ t.terminal = Append(s.terminal,
                                     [opportunity |-> s.active, outcome |-> o,
                                      stage |-> stage])
              /\ t.active = NoOpportunity
              /\ t.status = s.status /\ t.seeded = s.seeded
              /\ Charged(s.ledger, t.ledger)
  <1> DEFINE t == Finish(s, s.ledger, o, stage)
             l == FinishOpportunity(s.ledger, o)
  <1>1. t \in StateType
    BY StateNumbers, FinishTypes
  <1>2. /\ t.ledger = l /\ t.active = NoOpportunity
        /\ t.status = s.status /\ t.seeded = s.seeded
        /\ t.terminal = Append(s.terminal,
                               [opportunity |-> s.active, outcome |-> o,
                                stage |-> stage])
    BY DEF Finish, StateType
  <1>3. Charged(s.ledger, l)
    BY StateNumbers DEF Charged, FinishOpportunity, Ledgers, LedgerType
  <1> QED BY <1>1, <1>2, <1>3

\* The write that closes an opportunity which consumed an attempt is Close.
LEMMA FinishPersisted ==
    ASSUME EngineInv, pc \in Holding, NEW o \in Outcomes, NEW stage \in Stages,
           o = "accepted" => disk.active.candidate # None,
           Persist(Finish(disk, disk.ledger, o, stage), "running"),
           disk.seeded, disk.active.index # NoIndex, disk.active.attempts > 0
    PROVE  Owed
  <1> DEFINE s == Finish(disk, disk.ledger, o, stage)
             r == [opportunity |-> disk.active, outcome |-> o, stage |-> stage]
  <1>1. /\ s \in StateType
        /\ s.terminal = Append(disk.terminal, r)
        /\ s.active = NoOpportunity
        /\ s.status = disk.status /\ s.seeded = disk.seeded
        /\ Charged(disk.ledger, s.ledger)
    BY HeldRun, Finished
  <1>2. Persist(s, "running")
    OBVIOUS
  <1>3. r.outcome = o /\ r \in TerminalType
    BY HeldRun, StateNumbers DEF TerminalType
  <1> HIDE DEF s, r
  <1>4. CASE ValidState(s)
    <2>1. disk' = s /\ pc' = "running"
      BY <1>2, <1>4 DEF Persist
    <2>2. /\ Len(s.terminal) = Len(disk.terminal) + 1
          /\ \A i \in 1 .. Len(disk.terminal) : s.terminal[i] = disk.terminal[i]
      BY <1>1, HeldRun, StateNumbers
    <2>3. StoredIsValid'
      <3>1. /\ s.active.index = NoIndex /\ s.active.proposal = None
            /\ s.status # "absent"
        BY <1>1, HeldRun DEF NoOpportunity
      <3>2. s.ledger.proposals = Len(s.terminal) + 0
        BY <1>1, <2>2, HeldRun, StateNumbers DEF Charged
      <3> QED BY <1>4, <2>1, <3>1, <3>2 DEF StoredIsValid
    <2>4. PlaceIsStored'
      BY <1>1, <2>1, HeldRun DEF PlaceIsStored
    <2>5. Forward(disk, disk')
      <3>1. disk.status = "running" /\ disk \in StateType
        BY HeldRun
      <3>2. /\ Len(disk.terminal) \in Nat
            /\ \A i \in Opportunities : disk.ledger.attempts[i] \in Nat
        BY <3>1, StateNumbers
      <3>3. /\ Len(disk.terminal) <= Len(s.terminal)
            /\ \A i \in Opportunities :
                 disk.ledger.attempts[i] <= s.ledger.attempts[i]
        BY <1>1, <2>2, <3>2 DEF Charged
      <3> QED BY <1>1, <2>1, <2>2, <3>1, <3>3 DEF Forward, Charged
    <2>6. Protocol!Close
      <3>1. PhaseOf(disk) = "searching" /\ PhaseOf(s) = "searching"
        BY <1>1, HeldRun DEF PhaseOf
      <3>2. OutcomesOf(s) = Append(OutcomesOf(disk), o)
        BY <1>1, <1>3, HeldRun, OutcomeAppended
      <3>3. Len(OutcomesOf(disk)) = Len(disk.terminal)
        BY HeldRun, StateNumbers DEF OutcomesOf
      <3>4. disk.ledger.proposals = Len(OutcomesOf(disk)) + 1
        BY <3>3, HeldRun
      <3>5. disk.ledger.attempts[disk.ledger.proposals] > 0
        BY HeldRun DEF ValidState
      <3>6. /\ s.ledger.proposals = disk.ledger.proposals
            /\ s.ledger.attempts = disk.ledger.attempts
        BY <1>1 DEF Charged
      <3> QED BY <2>1, <3>1, <3>2, <3>4, <3>5, <3>6 DEF Protocol!Close
    <2> QED BY <2>3, <2>4, <2>5, <2>6 DEF Owed, Protocol!Next
  <1>5. CASE ~ValidState(s)
    BY <1>2, <1>5, Refused
  <1> QED BY <1>4, <1>5

-----------------------------------------------------------------------------
\* begin_opportunity is Open.
LEMMA OpenOwes ==
    ASSUME EngineInv, OpenOpportunity
    PROVE  Owed
  <1> DEFINE l == Begin(disk.ledger, disk.next)
             a == [NoOpportunity EXCEPT
                     !.index = disk.next,
                     !.parents = ExpectedParents(disk),
                     !.transition = disk.next \in TransitionOpportunities]
             s == [disk EXCEPT !.ledger = l, !.active = a]
  <1>1. pc \in Holding /\ mem.seeded /\ mem.active.index = NoIndex
    BY DEF OpenOpportunity, Idle, Ready, Holding
  <1>2. /\ mem = disk /\ disk \in StateType /\ disk.status = "running"
        /\ disk.ledger.proposals = Len(disk.terminal)
    <2>1. /\ mem = disk /\ disk \in StateType /\ disk.status = "running"
          /\ disk.ledger.proposals =
               Len(disk.terminal) + (IF disk.active.index = NoIndex THEN 0 ELSE 1)
      BY <1>1, HeldRun
    <2>2. Len(disk.terminal) \in Nat /\ disk.active.index = NoIndex
      BY <1>1, <2>1, StateNumbers
    <2> QED BY <2>1, <2>2
  <1>3. /\ disk.next = disk.ledger.proposals + 1
        /\ disk.ledger.proposals < ProposalOpportunities
        /\ Persist(s, "running")
    BY <1>2 DEF OpenOpportunity, CanBegin, StateType
  <1>4. /\ l.proposals = disk.ledger.proposals + 1
        /\ l.attempts = disk.ledger.attempts
        /\ l.training = disk.ledger.training /\ l.retries = disk.ledger.retries
    BY <1>2, StateNumbers DEF Begin, Ledgers, LedgerType
  <1>5. a.index = disk.next /\ a.proposal = None
    BY DEF NoOpportunity
  <1> HIDE DEF l, a
  <1>6. /\ s.ledger = l /\ s.active = a /\ s.terminal = disk.terminal
        /\ s.status = disk.status /\ s.seeded = disk.seeded
    BY <1>2 DEF StateType
  <1> HIDE DEF s
  <1>7. CASE ValidState(s)
    <2>1. disk' = s /\ pc' = "running"
      BY <1>3, <1>7 DEF Persist
    <2>2. Len(disk.terminal) \in Nat /\ disk.next # NoIndex
      BY <1>2, <1>3, StateNumbers DEF NoIndex
    <2>3. StoredIsValid'
      BY <1>2, <1>3, <1>4, <1>5, <1>6, <1>7, <2>1, <2>2 DEF StoredIsValid
    <2>4. PlaceIsStored'
      BY <1>2, <1>6, <2>1 DEF PlaceIsStored
    <2>5. Forward(disk, disk')
      BY <1>2, StateNumbers, <1>4, <1>6, <2>1, <2>2 DEF Forward
    <2>6. Protocol!Open
      BY <1>1, <1>2, <1>6, <2>2, <1>3, <1>4, <2>1 DEF PhaseOf, OutcomesOf, Protocol!Open
    <2> QED BY <2>3, <2>4, <2>5, <2>6 DEF Owed, Protocol!Next
  <1>8. CASE ~ValidState(s)
    BY <1>3, <1>8, Refused
  <1> QED BY <1>7, <1>8

\* A provider attempt that is consumed is Ask.
LEMMA AttemptOwes ==
    ASSUME EngineInv, StartProviderAttempt
    PROVE  Owed
  <1> DEFINE n == disk.ledger.attempts[disk.active.index] + 1
             l == StartAttempt(disk.ledger)
             a == [disk.active EXCEPT !.attempts = n]
             s == [disk EXCEPT !.ledger = l, !.active = a]
  <1>1. /\ pc \in Holding /\ mem.seeded /\ mem.active.index # NoIndex
        /\ mem.active.proposal = None /\ CanStartAttempt(mem.ledger)
    BY DEF StartProviderAttempt, Proposing, Ready, Holding
  <1>2. /\ mem = disk /\ disk \in StateType /\ disk.status = "running"
        /\ disk.ledger.proposals = Len(disk.terminal) + 1
        /\ disk.active.index = disk.ledger.proposals
        /\ disk.ledger.active = disk.active.index
    BY <1>1, HeldRun, StateNumbers DEF ValidState
  <1>3. Persist(s, "request")
    BY <1>2 DEF StartProviderAttempt, StateType, ActiveType
  <1>4. /\ disk.ledger.active \in Opportunities
        /\ disk.ledger.attempts[disk.ledger.active] < ProviderAttempts
        /\ l.proposals = disk.ledger.proposals
        /\ l.attempts = [disk.ledger.attempts EXCEPT
                           ![disk.ledger.active] =
                             disk.ledger.attempts[disk.ledger.active] + 1]
        /\ l.training = disk.ledger.training /\ l.retries = disk.ledger.retries
    BY <1>1, <1>2, StateNumbers
    DEF CanStartAttempt, StartAttempt, Ledgers, LedgerType
  <1>5. a.index = disk.active.index /\ a.proposal = None /\ a.attempts = n
    BY <1>1, <1>2, StateNumbers DEF ActiveType
  <1>6. /\ disk.ledger.attempts \in [Opportunities -> Nat]
        /\ disk.ledger.training \in Nat /\ disk.ledger.retries \in Nat
        /\ Len(disk.terminal) \in Nat
    BY <1>2, StateNumbers
  <1>7. n > 0
    BY <1>2, <1>4, <1>6
  <1> HIDE DEF l, a, n
  <1>8. /\ s.ledger = l /\ s.active = a /\ s.terminal = disk.terminal
        /\ s.status = disk.status /\ s.seeded = disk.seeded
    BY <1>2 DEF StateType
  <1> HIDE DEF s
  <1>9. CASE ValidState(s)
    <2>1. disk' = s /\ pc' = "request"
      BY <1>3, <1>9 DEF Persist
    <2>2. StoredIsValid'
      BY <1>1, <1>2, <1>4, <1>5, <1>8, <1>9, <2>1 DEF StoredIsValid
    <2>3. PlaceIsStored'
      BY <1>1, <1>2, <1>5, <1>8, <2>1 DEF PlaceIsStored
    <2>4. Forward(disk, disk')
      <3>1. \A i \in Opportunities : disk.ledger.attempts[i] <= l.attempts[i]
        BY <1>4, <1>6
      <3>2. /\ disk'.terminal = disk.terminal /\ disk'.seeded = disk.seeded
            /\ disk'.ledger = l /\ disk.status # "completed"
        BY <1>2, <1>8, <2>1
      <3>3. Len(disk.terminal) <= Len(disk'.terminal)
        BY <1>6, <3>2
      <3>4. /\ disk.ledger.training <= disk'.ledger.training
            /\ disk.ledger.retries <= disk'.ledger.retries
        BY <1>4, <1>6, <3>2
      <3> QED BY <3>1, <3>2, <3>3, <3>4 DEF Forward
    <2>5. Protocol!Ask
      BY <1>1, <1>2, <1>8, <1>6, <1>4, <2>1 DEF PhaseOf, OutcomesOf, Protocol!Ask
    <2> QED BY <2>2, <2>3, <2>4, <2>5 DEF Owed, Protocol!Next
  <1>10. CASE ~ValidState(s)
    BY <1>3, <1>10, Refused
  <1> QED BY <1>9, <1>10

\* The write that completes the run is Complete.
LEMMA CompleteOwes ==
    ASSUME EngineInv, CompleteRun
    PROVE  Owed
  <1> DEFINE s == [disk EXCEPT !.status = "completed"]
  <1>1. pc \in Holding /\ mem.seeded /\ mem.active.index = NoIndex
    BY DEF CompleteRun, Idle, Ready, Holding
  <1>2. mem = disk /\ disk \in StateType /\ disk.status = "running"
    BY <1>1, HeldRun
  <1>3. Persist(s, "exited")
    BY <1>2 DEF CompleteRun
  <1>4. /\ s.ledger = disk.ledger /\ s.active = disk.active
        /\ s.terminal = disk.terminal /\ s.seeded = disk.seeded
        /\ s.status = "completed"
    BY <1>2 DEF StateType
  <1> HIDE DEF s
  <1>5. CASE ValidState(s)
    <2>1. disk' = s /\ pc' = "exited"
      BY <1>3, <1>5 DEF Persist
    <2>2. StoredIsValid'
      BY <1>1, <1>4, <1>5, <2>1, HeldRun DEF StoredIsValid
    <2>3. PlaceIsStored'
      BY <2>1 DEF PlaceIsStored, Holding
    <2>4. Forward(disk, disk')
      BY <1>2, <1>4, <2>1, StateNumbers DEF Forward
    <2>5. Protocol!Complete
      BY <1>1, <1>2, <1>4, <1>5, StateNumbers, <2>1
         DEF PhaseOf, ValidState, OutcomesOf, Protocol!Complete
    <2> QED BY <2>2, <2>3, <2>4, <2>5 DEF Owed, Protocol!Next
  <1>6. CASE ~ValidState(s)
    BY <1>3, <1>6, Refused
  <1> QED BY <1>5, <1>6

-----------------------------------------------------------------------------
\* The steps that do not write the run state, and the start and the resumption
\* of a run.
LEMMA UnstoredOwes ==
    ASSUME EngineInv,
           \/ Launch \/ CreateMarker \/ WriteMarker \/ Quarantine \/ Crash
           \/ StartSeed \/ EvaluatorReturns \/ ResultOverrun \/ UsageOverrun
           \/ StartEvaluation \/ SendRequest \/ Terminated
    PROVE  Owed
  <1>1. disk' = disk
    BY DEF Launch, CreateMarker, WriteMarker, Quarantine, Crash, StartSeed,
           EvaluatorReturns, ResultOverrun, UsageOverrun, StartEvaluation,
           SendRequest, Terminated, vars, ghosts
  <1>2. PlaceIsStored
    BY DEF EngineInv
  <1>3. CASE Launch \/ CreateMarker \/ WriteMarker \/ Quarantine \/ Crash
             \/ ResultOverrun \/ UsageOverrun
    BY <1>3, <1>1, DiskKept
       DEF Launch, CreateMarker, WriteMarker, Quarantine, Crash, ResultOverrun,
           UsageOverrun, Holding, PlaceIsStored
  <1>4. CASE StartSeed
    <2>1. PlaceIsStored'
      BY <1>1, <1>2, <1>4 DEF StartSeed, PlaceIsStored, Holding
    <2> QED BY <1>1, <2>1, DiskKept
  <1>5. CASE EvaluatorReturns
    <2>1. PlaceIsStored'
      BY <1>1, <1>2, <1>5 DEF EvaluatorReturns, PlaceIsStored, Holding
    <2> QED BY <1>1, <2>1, DiskKept
  <1>6. CASE StartEvaluation
    BY <1>6, HeldRun, <1>1, DiskKept
       DEF StartEvaluation, Answered, Ready, Holding, PlaceIsStored
  <1>7. CASE SendRequest
    BY <1>7, HeldRun, <1>2, <1>1, DiskKept
       DEF SendRequest, Holding, EngineInv, StoredInv, RequestIsNew, PlaceIsStored
  <1>8. CASE Terminated
    <2>1. PlaceIsStored'
      BY <1>1, <1>2, <1>8 DEF Terminated, vars, PlaceIsStored
    <2> QED BY <1>1, <2>1, DiskKept
  <1> QED BY <1>3, <1>4, <1>5, <1>6, <1>7, <1>8

LEMMA StartFreshOwes ==
    ASSUME EngineInv, StartFresh
    PROVE  Owed
  <1>1. disk = NoState /\ Persist(InitialState, "running")
    BY DEF StartFresh, EngineInv, StoredIsValid
  <1>2. CASE ValidState(InitialState)
    <2>1. disk' = InitialState /\ pc' = "running"
      BY <1>1, <1>2 DEF Persist
    <2>2. /\ InitialState.status = "running" /\ NoState.status = "absent"
          /\ InitialState.terminal = <<>> /\ NoState.terminal = <<>>
          /\ InitialState.ledger = EmptyLedger /\ NoState.ledger = EmptyLedger
          /\ InitialState.seeded = FALSE /\ NoState.seeded = FALSE
          /\ InitialState.active = NoOpportunity
      BY DEF InitialState, NoState
    <2>3. /\ NoOpportunity.index = NoIndex /\ NoOpportunity.proposal = None
          /\ EmptyLedger.proposals = 0 /\ Len(<<>>) = 0
          /\ EmptyLedger.training = 0 /\ EmptyLedger.retries = 0
          /\ \A i \in Opportunities : EmptyLedger.attempts[i] = 0
      BY DEF NoOpportunity, EmptyLedger
    <2>4. StoredIsValid'
      BY <1>2, <2>1, <2>2, <2>3 DEF StoredIsValid
    <2>5. PlaceIsStored'
      BY <2>1, <2>2 DEF PlaceIsStored
    <2>6. Forward(disk, disk')
      BY <1>1, <2>1, <2>2, <2>3 DEF Forward
    <2>7. UNCHANGED Protocol!vars
      BY <1>1, <2>1, <2>2 DEF Protocol!vars, PhaseOf, OutcomesOf
    <2> QED BY <2>4, <2>5, <2>6, <2>7 DEF Owed
  <1>3. CASE ~ValidState(InitialState)
    BY <1>1, <1>3, Refused
  <1> QED BY <1>2, <1>3

LEMMA ResumeOwes ==
    ASSUME EngineInv, Resume
    PROVE  Owed
  BY DiskKept
     DEF Resume, EngineInv, StoredInv, TypeOK, StateType, PlaceIsStored, Holding

-----------------------------------------------------------------------------
\* The recording methods that charge the ledger open no opportunity, consume
\* no attempt and give nothing back.
LEMMA LedgerCharged ==
    ASSUME NEW l \in Ledgers, NEW n \in Nat, NEW r \in Nat,
           NEW source \in Sources, NEW usage \in Nat \cup {Unknown}
    PROVE  /\ Charged(l, RecordSeed(l, n, r))
           /\ Charged(l, RecordEvaluation(l, n, r))
           /\ Charged(l, RecordUsage(l, usage))
           /\ Charged(l, RecordParseFailure(l))
           /\ Charged(l, RecordSource(l, source))
           /\ Charged(l, RecordRetry(l))
           /\ Charged(l, RecordRepair(l))
  BY DEF Ledgers, LedgerType, Charged, RecordSeed, RecordEvaluation, RecordUsage,
         RecordParseFailure, RecordSource, RecordRetry, RecordRepair

\* An answer charges the usage, the failure to parse it and its repair.
LEMMA AnswerCharged ==
    ASSUME NEW l \in Ledgers, NEW usage \in Nat \cup {Unknown},
           NEW m \in {RecordParseFailure(RecordUsage(l, usage)),
                      RecordRepair(RecordParseFailure(RecordUsage(l, usage)))}
    PROVE  m \in Ledgers /\ Charged(l, m)
  <1> DEFINE l1 == RecordUsage(l, usage)
             l2 == RecordParseFailure(l1)
             l3 == RecordRepair(l2)
  <1>1. l1 \in Ledgers /\ Charged(l, l1)
    BY EngineAssumption, RecordOneType, LedgerCharged
  <1> HIDE DEF l1
  <1>2. l2 \in Ledgers /\ Charged(l1, l2)
    BY <1>1, EngineAssumption, RecordOneType, LedgerCharged
  <1> HIDE DEF l2
  <1>3. l3 \in Ledgers /\ Charged(l2, l3)
    BY <1>2, EngineAssumption, RecordRepairType, LedgerCharged
  <1> HIDE DEF l3
  <1>4. \A x \in {l, l1, l2, l3} : x.training \in Nat /\ x.retries \in Nat
    BY <1>1, <1>2, <1>3 DEF Ledgers, LedgerType
  <1>5. Charged(l, l2) /\ Charged(l, l3)
    BY <1>1, <1>2, <1>3, <1>4 DEF Charged
  <1> QED BY <1>2, <1>3, <1>5 DEF l1, l2, l3

\* The steps that charge the ledger and leave the opportunity open.
LEMMA ChargeOwes ==
    ASSUME EngineInv,
           \/ RecordSeedResult \/ ProviderRetry \/ ProviderAnswers
           \/ IdentifyCandidate \/ RecordResult
           \/ (EvaluatorFails /\ CanRetry(mem.ledger))
    PROVE  Owed
  <1>0. pc \in Holding
    BY DEF RecordSeedResult, ProviderRetry, ProviderAnswers, AnswerParses,
           AnswerUnparsed, IdentifyCandidate, RecordResult, EvaluatorFails,
           Answered, Ready, Holding
  <1>1. /\ mem = disk /\ disk \in StateType /\ disk.status = "running"
        /\ disk.active.proposal # None => disk.active.attempts > 0
        /\ disk.ledger \in Ledgers /\ disk.active \in ActiveType
        /\ disk.seeded \in BOOLEAN
        /\ result \in Results \cup {None}
    BY <1>0, HeldRun, HeldState, StateNumbers DEF EngineInv
  <1>2. ASSUME NEW l \in Ledgers, Charged(disk.ledger, l),
               NEW a \in ActiveType, a.index = disk.active.index,
               a.proposal # None => a.attempts > 0,
               NEW b \in BOOLEAN, disk.seeded => b,
               Persist([disk EXCEPT !.ledger = l, !.active = a, !.seeded = b],
                       "running")
        PROVE  Owed
    <2> DEFINE s == [disk EXCEPT !.ledger = l, !.active = a, !.seeded = b]
    <2>1. Persist(s, "running")
      BY <1>2
    <2>2. /\ s \in StateType /\ s.ledger = l /\ s.active = a /\ s.seeded = b
          /\ s.status = disk.status /\ s.terminal = disk.terminal
      BY <1>1, <1>2 DEF StateType, Ledgers
    <2> HIDE DEF s
    <2> QED BY <1>0, <1>2, <2>1, <2>2, ChargePersisted
  <1>3. CASE RecordSeedResult
    <2> DEFINE l == RecordSeed(disk.ledger, result.training, result.retries)
    <2>1. result \in Results
      BY <1>1, <1>3
      DEF RecordSeedResult, EngineInv, StoredInv, EvaluationHasCandidate
    <2>2. l \in Ledgers /\ Charged(disk.ledger, l)
      BY <1>1, <2>1, EngineAssumption, RecordSeedType, LedgerCharged DEF Results
    <2>3. Persist([disk EXCEPT !.ledger = l, !.active = disk.active,
                               !.seeded = TRUE], "running")
      BY <1>1, <1>3 DEF StateType, RecordSeedResult
    <2> HIDE DEF l
    <2> QED BY <1>1, <1>2, <2>2, <2>3
  <1>4. CASE ProviderRetry \/ (EvaluatorFails /\ CanRetry(mem.ledger))
    <2> DEFINE l == RecordRetry(disk.ledger)
    <2>1. l \in Ledgers /\ Charged(disk.ledger, l)
      BY <1>1, EngineAssumption, RecordOneType, LedgerCharged
    <2>2. Persist([disk EXCEPT !.ledger = l, !.active = disk.active,
                               !.seeded = disk.seeded], "running")
      BY <1>1, <1>4 DEF StateType, ProviderRetry, EvaluatorFails
    <2> HIDE DEF l
    <2> QED BY <1>1, <1>2, <2>1, <2>2
  <1>5. CASE ProviderAnswers
    <2>0. /\ pc = "await" /\ disk.active.attempts > 0
      BY <1>5 DEF ProviderAnswers, AnswerParses, AnswerUnparsed, EngineInv,
                  PlaceIsStored
    <2>1. PICK text \in Texts, usage \in Usages :
            AnswerParses(text, usage) \/ AnswerUnparsed(text, usage)
      BY <1>5 DEF ProviderAnswers
    <2>2. usage \in Nat \cup {Unknown}
      BY EngineAssumption
    <2>3. CASE AnswerParses(text, usage)
      <3> DEFINE l == RecordUsage(disk.ledger, usage)
                 a == [disk.active EXCEPT !.proposal = text]
      <3>1. l \in Ledgers /\ Charged(disk.ledger, l)
        BY <1>1, <2>2, EngineAssumption, RecordOneType, LedgerCharged
      <3>2. /\ a \in ActiveType /\ a.index = disk.active.index
            /\ a.attempts = disk.active.attempts
        BY <1>1 DEF ActiveType
      <3>3. [disk EXCEPT !.ledger = l, !.active = a, !.seeded = disk.seeded] =
            [disk EXCEPT !.ledger = l, !.active.proposal = text]
        BY <1>1 DEF StateType
      <3>4. Persist([disk EXCEPT !.ledger = l, !.active = a,
                                 !.seeded = disk.seeded], "running")
        BY <1>1, <2>3, <3>3 DEF AnswerParses, StateType
      <3> HIDE DEF l, a
      <3> QED BY <1>1, <1>2, <2>0, <3>1, <3>2, <3>4
    <2>4. CASE AnswerUnparsed(text, usage)
      <3> DEFINE l == RecordParseFailure(RecordUsage(disk.ledger, usage))
                 repair == disk.active.attempts < ProviderAttempts /\ CanRepair(l)
                 a == IF repair
                        THEN [disk.active EXCEPT
                                !.repairs = disk.active.repairs + 1,
                                !.previous = text]
                        ELSE [disk.active EXCEPT !.proposal = text]
                 m == IF repair THEN RecordRepair(l) ELSE l
      <3>1. m \in Ledgers /\ Charged(disk.ledger, m)
        BY <1>1, <2>2, AnswerCharged
      <3>2. /\ a \in ActiveType /\ a.index = disk.active.index
            /\ a.attempts = disk.active.attempts
        <4>1. disk.active.repairs + 1 \in Nat /\ text \in Garbage
          BY <1>1, <2>4 DEF ActiveType, AnswerUnparsed
        <4> QED BY <1>1, <4>1 DEF ActiveType
      <3>3. Persist([disk EXCEPT !.ledger = m, !.active = a,
                                 !.seeded = disk.seeded], "running")
        BY <1>1, <2>4 DEF StateType, AnswerUnparsed, ActiveType
      <3> HIDE DEF l, a, m
      <3> QED BY <1>1, <1>2, <2>0, <3>1, <3>2, <3>3
    <2> QED BY <2>1, <2>3, <2>4
  <1>6. CASE IdentifyCandidate
    <2> DEFINE l == RecordSource(disk.ledger, disk.active.proposal)
               a == [disk.active EXCEPT !.candidate = disk.active.proposal]
    <2>1. disk.active.proposal \in Sources
      BY <1>1, <1>6 DEF IdentifyCandidate
    <2>2. l \in Ledgers /\ Charged(disk.ledger, l)
      BY <1>1, <2>1, EngineAssumption, RecordOneType, LedgerCharged
    <2>3. /\ a \in ActiveType /\ a.index = disk.active.index
          /\ a.attempts = disk.active.attempts
          /\ a.proposal = disk.active.proposal
      BY <1>1, <2>1 DEF ActiveType
    <2>4. [disk EXCEPT !.ledger = l, !.active = a, !.seeded = disk.seeded] =
          [disk EXCEPT !.ledger = l, !.active.candidate = disk.active.proposal]
      BY <1>1 DEF StateType
    <2>5. Persist([disk EXCEPT !.ledger = l, !.active = a,
                               !.seeded = disk.seeded], "running")
      BY <1>1, <1>6, <2>4 DEF IdentifyCandidate, StateType, ActiveType
    <2> HIDE DEF l, a
    <2> QED BY <1>1, <1>2, <2>2, <2>3, <2>5
  <1>7. CASE RecordResult
    <2> DEFINE l == RecordEvaluation(disk.ledger, result.training, result.retries)
               a == [disk.active EXCEPT !.evaluation = result.outcome]
    <2>1. result \in Results
      BY <1>1, <1>7
      DEF RecordResult, EngineInv, StoredInv, EvaluationHasCandidate
    <2>2. l \in Ledgers /\ Charged(disk.ledger, l)
      BY <1>1, <2>1, EngineAssumption, RecordEvaluationType, LedgerCharged
      DEF Results
    <2>3. /\ a \in ActiveType /\ a.index = disk.active.index
          /\ a.attempts = disk.active.attempts
          /\ a.proposal = disk.active.proposal
      BY <1>1, <2>1 DEF ActiveType, Results
    <2>4. [disk EXCEPT !.ledger = l, !.active = a, !.seeded = disk.seeded] =
          [disk EXCEPT !.ledger = l, !.active.evaluation = result.outcome]
      BY <1>1 DEF StateType
    <2>5. Persist([disk EXCEPT !.ledger = l, !.active = a,
                               !.seeded = disk.seeded], "running")
      BY <1>1, <1>7, <2>4 DEF RecordResult, StateType, ActiveType
    <2> HIDE DEF l, a
    <2> QED BY <1>1, <1>2, <2>2, <2>3, <2>5
  <1> QED BY <1>3, <1>4, <1>5, <1>6, <1>7

-----------------------------------------------------------------------------
\* The steps that close the opportunity: an attempt was consumed before each.
LEMMA FinishOwes ==
    ASSUME EngineInv,
           \/ AttemptsExhausted \/ ProviderGivesUp \/ CloseUnparsed
           \/ CloseEvaluated \/ (EvaluatorFails /\ ~CanRetry(mem.ledger))
    PROVE  Owed
  <1>0. pc \in Holding
    BY DEF AttemptsExhausted, ProviderGivesUp, CloseUnparsed, CloseEvaluated,
           EvaluatorFails, Proposing, Answered, Ready, Holding
  <1>1. /\ mem = disk /\ disk \in StateType /\ disk.status = "running"
        /\ disk.active.proposal # None => disk.active.attempts > 0
        /\ disk.active \in ActiveType
        /\ disk.active.evaluation # None => disk.active.candidate # None
        /\ PlaceIsStored
    BY <1>0, HeldRun, HeldState, StateNumbers DEF EngineInv
  <1>2. /\ {"infrastructure_failure", "invalid"} \subseteq Outcomes
        /\ {"provider_attempts_exhausted", "proposal_parse", "evaluation",
            "infrastructure_retry_budget_exhausted"} \subseteq Stages
    BY DEF Outcomes, Stages
  <1>3. CASE AttemptsExhausted
    BY <1>1, <1>3, BudgetAssumption, <1>0, <1>2, FinishPersisted
       DEF AttemptsExhausted, Proposing, Ready, ActiveType
  <1>4. CASE ProviderGivesUp
    <2> DEFINE stage == IF disk.active.attempts < ProviderAttempts
                          THEN "infrastructure_retry_budget_exhausted"
                          ELSE "provider_attempts_exhausted"
    <2>1. Persist(Finish(disk, disk.ledger, "infrastructure_failure", stage),
                  "running")
      BY <1>1, <1>4 DEF ProviderGivesUp
    <2>2. /\ disk.seeded /\ disk.active.index # NoIndex
          /\ disk.active.attempts > 0
      BY <1>1, <1>4 DEF ProviderGivesUp, PlaceIsStored
    <2>3. stage \in Stages
      BY <1>2
    <2> HIDE DEF stage
    <2> QED BY <1>0, <1>2, <2>1, <2>2, <2>3, FinishPersisted
  <1>5. CASE CloseUnparsed
    BY <1>1, <1>5, <1>0, <1>2, FinishPersisted DEF CloseUnparsed, Answered, Ready
  <1>6. CASE CloseEvaluated
    <2> DEFINE o == disk.active.evaluation
    <2>1. /\ Persist(Finish(disk, disk.ledger, o, "evaluation"), "running")
          /\ disk.seeded /\ disk.active.index # NoIndex
          /\ disk.active.proposal # None
          /\ o # None
      BY <1>1, <1>6 DEF CloseEvaluated, Answered, Ready
    <2>2. o \in Outcomes /\ disk.active.candidate # None
      BY <1>1, <2>1 DEF ActiveType
    <2> HIDE DEF o
    <2> QED BY <1>0, <1>1, <1>2, <2>1, <2>2, FinishPersisted
  <1>7. CASE EvaluatorFails /\ ~CanRetry(mem.ledger)
    BY <1>1, <1>7, <1>0, <1>2, FinishPersisted DEF EvaluatorFails, PlaceIsStored
  <1> QED BY <1>3, <1>4, <1>5, <1>6, <1>7

-----------------------------------------------------------------------------
LEMMA EngineInvInit == Init => EngineInv
  <1> SUFFICES ASSUME Init PROVE EngineInv
    OBVIOUS
  <1>1. StoredInv
    BY StoredInvInit
  <1>2. disk = NoState /\ disk.status = "absent" /\ pc = "down"
    BY InitialTypes DEF Init
  <1>3. StoredIsValid /\ PlaceIsStored
    BY <1>2 DEF StoredIsValid, PlaceIsStored, Holding
  <1> QED BY <1>1, <1>3 DEF EngineInv

\* Every step owes what it owes.
LEMMA StepOwes == EngineInv /\ [Next]_vars => Owed
  <1> SUFFICES ASSUME EngineInv, [Next]_vars
               PROVE  Owed
    OBVIOUS
  <1>1. CASE UNCHANGED vars
    BY <1>1, DiskKept DEF vars, EngineInv, PlaceIsStored
  <1>2. CASE \/ Launch \/ CreateMarker \/ WriteMarker \/ Quarantine \/ Crash
             \/ StartSeed \/ EvaluatorReturns \/ ResultOverrun \/ UsageOverrun
             \/ StartEvaluation \/ SendRequest \/ Terminated
    BY <1>2, UnstoredOwes
  <1>3. CASE StartFresh \/ Resume
    BY <1>3, StartFreshOwes, ResumeOwes
  <1>4. CASE OpenOpportunity \/ StartProviderAttempt \/ CompleteRun
    BY <1>4, OpenOwes, AttemptOwes, CompleteOwes
  <1>5. CASE \/ RecordSeedResult \/ ProviderRetry \/ ProviderAnswers
             \/ IdentifyCandidate \/ RecordResult
             \/ (EvaluatorFails /\ CanRetry(mem.ledger))
    BY <1>5, ChargeOwes
  <1>6. CASE \/ AttemptsExhausted \/ ProviderGivesUp \/ CloseUnparsed
             \/ CloseEvaluated \/ (EvaluatorFails /\ ~CanRetry(mem.ledger))
    BY <1>6, FinishOwes
  <1>7. CASE EvaluatorFails
    BY <1>5, <1>6, <1>7
  <1>8. \/ UNCHANGED vars \/ Launch \/ Crash \/ EngineStep \/ Terminated
    BY DEF Next
  <1> QED BY <1>1, <1>2, <1>3, <1>4, <1>5, <1>6, <1>7, <1>8 DEF EngineStep

LEMMA EngineInvStep == EngineInv /\ [Next]_vars => EngineInv'
  BY StoredInvStep, StepOwes DEF EngineInv, Owed

\* The inductive invariant of the engine holds of every execution, whatever is
\* killed.
THEOREM EngineInvariant == Spec => []EngineInv
  BY EngineInvInit, EngineInvStep, PTL DEF Spec

\* The stored run only moves forward: no crash, resume or retry drops a
\* terminal record, rolls back a counter or reopens a completed run.
THEOREM StoredRunMovesForward == Spec => HistoryIsFinal
  <1>1. EngineInv /\ [Next]_vars => [Forward(disk, disk')]_vars
    BY StepOwes DEF Owed
  <1> QED BY <1>1, EngineInvariant, PTL DEF Spec, HistoryIsFinal

\* The engine implements the protocol: every write of the run state evaluates
\* the seed, opens the next opportunity, consumes an attempt, closes the
\* opportunity, completes the run, or does not show in it.
THEOREM EngineIsAProtocol == Spec => ImplementsProtocol
  <1>1. Init => Protocol!Init
    <2> SUFFICES ASSUME Init PROVE Protocol!Init
      OBVIOUS
    <2>1. /\ disk.status = "absent" /\ disk.seeded = FALSE
          /\ disk.terminal = <<>> /\ disk.ledger = EmptyLedger
      BY DEF Init, NoState, InitialState
    <2>2. PhaseOf(disk) = "unseeded" /\ OutcomesOf(disk) = <<>>
      BY <2>1 DEF PhaseOf, OutcomesOf
    <2> QED BY <2>1, <2>2
            DEF Protocol!Init, Protocol!Opportunities, Opportunities, EmptyLedger
  <1>2. EngineInv /\ [Next]_vars => [Protocol!Next]_(Protocol!vars)
    BY StepOwes DEF Owed
  <1> QED BY <1>1, <1>2, EngineInvariant, PTL
          DEF Spec, ImplementsProtocol, Protocol!Spec


\* A set of numbers that is not empty has a least one.
LEMMA LeastNumber ==
    ASSUME NEW T \in SUBSET Nat, T # {}
    PROVE  \E n \in T : \A m \in T : n <= m
  <1> DEFINE R == OpToRel(<, Nat)
  <1>1. IsWellFoundedOn(R, Nat)
    BY NatLessThanWellFounded
  <1>2. \A x, y \in Nat : <<y, x>> \in R <=> y < x
    BY DEF OpToRel
  <1> HIDE DEF R
  <1>3. PICK n \in T : \A m \in T : ~(<<m, n>> \in R)
    BY <1>1, WFMin
  <1>4. \A m \in T : ~(m < n)
    BY <1>2, <1>3
  <1> QED BY <1>4

\* A set that has zero and with a number the next one has every number.
LEMMA EveryNumber ==
    ASSUME NEW S, 0 \in S, \A n \in Nat : n \in S => n + 1 \in S
    PROVE  Nat \subseteq S
  <1> SUFFICES ASSUME Nat \ S # {} PROVE FALSE
    OBVIOUS
  <1>1. PICK n \in Nat \ S : \A m \in Nat \ S : n <= m
    BY LeastNumber
  <1>2. n # 0 /\ n - 1 \in Nat /\ n - 1 + 1 = n
    BY <1>1
  <1>3. n - 1 \in S
    BY <1>1, <1>2
  <1> QED BY <1>1, <1>2, <1>3

\* A finite set of numbers that is not empty has a greatest one.
LEMMA GreatestNumber ==
    ASSUME NEW T \in SUBSET Nat, T # {}, IsFiniteSet(T)
    PROVE  \E n \in T : \A m \in T : m <= n
  <1>1. PICK seq \in Seq(T) : \A t \in T : \E i \in 1 .. Len(seq) : seq[i] = t
    BY DEF IsFiniteSet
  <1> DEFINE Bounded(j) == \E d \in Nat : \A i \in 1 .. j : seq[i] <= d
             S == {j \in Nat : j > Len(seq) \/ Bounded(j)}
  <1>2. 0 \in S
    OBVIOUS
  <1> HIDE DEF Bounded
  <1>3. ASSUME NEW k \in Nat, k \in S PROVE k + 1 \in S
    <2>1. CASE k + 1 > Len(seq)
      BY <2>1
    <2>2. CASE ~(k + 1 > Len(seq))
      <3>1. Len(seq) \in Nat
        BY <1>1
      <3>2. Bounded(k)
        BY <1>3, <2>2, <3>1
      <3>3. PICK b \in Nat : \A i \in 1 .. k : seq[i] <= b
        BY <3>2 DEF Bounded
      <3>4. \A i \in 1 .. Len(seq) : seq[i] \in Nat
        BY <1>1, ElementOfSeq
      <3>5. seq[k + 1] \in Nat
        BY <2>2, <3>1, <3>4
      <3>6. PICK c \in Nat : b <= c /\ seq[k + 1] <= c
        BY <3>5
      <3>7. \A i \in 1 .. k + 1 : i \in 1 .. k \/ i = k + 1
        OBVIOUS
      <3>8. \A i \in 1 .. k : seq[i] \in Nat
        BY <2>2, <3>1, <3>4
      <3>9. \A i \in 1 .. k + 1 : seq[i] <= c
        BY <3>3, <3>5, <3>6, <3>7, <3>8
      <3>10. Bounded(k + 1)
        BY <3>6, <3>9 DEF Bounded
      <3> QED BY <3>10
    <2> QED BY <2>1, <2>2
  <1>4. Len(seq) \in S
    <2> HIDE DEF S
    <2>1. Nat \subseteq S
      BY <1>2, <1>3, EveryNumber
    <2> QED BY <1>1, <2>1
  <1>5. Bounded(Len(seq))
    BY <1>1, <1>4
  <1>6. PICK b \in Nat : \A i \in 1 .. Len(seq) : seq[i] <= b
    BY <1>5 DEF Bounded
  <1> DEFINE B == {u \in Nat : \A t \in T : t <= u}
  <1>7. b \in B
    BY <1>1, <1>6
  <1>8. PICK u \in B : \A v \in B : u <= v
    BY <1>7, LeastNumber
  <1>9. ASSUME u \notin T PROVE FALSE
    <2>1. u # 0
      <3>1. PICK t \in T : TRUE
        OBVIOUS
      <3> QED BY <1>8, <1>9, <3>1
    <2>2. u - 1 \in B
      BY <1>8, <1>9, <2>1
    <2> QED BY <1>8, <2>2
  <1> QED BY <1>8, <1>9

-----------------------------------------------------------------------------
\* A sum, as the fold that SumFunction is: it takes the elements of a set
\* one by one, each the one that CHOOSE names.
One(s) == CHOOSE x \in s : TRUE
IsSum(f, S, sum) ==
    sum = [s \in SUBSET S |->
             IF s = {} THEN 0 ELSE f[One(s)] + sum[s \ {One(s)}]]

\* The sum of a function is the fold it is defined by.
LEMMA SumIsFold ==
    ASSUME NEW S, NEW f \in [S -> Nat]
    PROVE  SumFunction(f) = (CHOOSE sum : IsSum(f, S, sum))[S]
  BY DEF SumFunction, SumFunctionOnSet, FoldFunctionOnSet, MapThenFoldSet, IsSum, One

\* There is such a fold: it counts the units of the elements of the set.
LEMMA SumExists ==
    ASSUME NEW S, IsFiniteSet(S), NEW f \in [S -> Nat]
    PROVE  \E sum : IsSum(f, S, sum)
  <1> DEFINE Units(s) == {u \in s \X Nat : u[2] \in 1 .. f[u[1]]}
             sum == [s \in SUBSET S |-> Cardinality(Units(s))]
  <1>1. ASSUME NEW s \in SUBSET S, s # {}, NEW x, x = One(s)
        PROVE  /\ Units(s) = Units(s \ {x}) \cup ({x} \X (1 .. f[x]))
               /\ Units(s \ {x}) \cap ({x} \X (1 .. f[x])) = {}
               /\ x \in s
    <2>1. x \in s
      BY <1>1 DEF One
    <2>2. s = (s \ {x}) \cup {x}
      BY <2>1
    <2>3. \A u \in s \X Nat : u[1] \in s /\ u[2] \in Nat /\ u = <<u[1], u[2]>>
      OBVIOUS
    <2>4. \A u \in (s \ {x}) \X Nat : u[1] # x
      OBVIOUS
    <2>5. \A u \in {x} \X (1 .. f[x]) : u[1] = x /\ u[2] \in 1 .. f[x] /\ u \in s \X Nat
      BY <2>1
    <2>6. Units(s) \subseteq Units(s \ {x}) \cup ({x} \X (1 .. f[x]))
      BY <2>3
    <2>7. Units(s \ {x}) \cup ({x} \X (1 .. f[x])) \subseteq Units(s)
      BY <2>5
    <2> QED BY <2>1, <2>4, <2>5, <2>6, <2>7
  <1>2. ASSUME NEW x \in S
        PROVE  /\ IsFiniteSet({x} \X (1 .. f[x]))
               /\ Cardinality({x} \X (1 .. f[x])) = f[x]
    <2>1. f[x] \in Nat
      OBVIOUS
    <2>2. IsFiniteSet(1 .. f[x]) /\ Cardinality(1 .. f[x]) = f[x]
      BY <2>1, FS_Interval
    <2>3. IsFiniteSet({x}) /\ Cardinality({x}) = 1
      BY FS_Singleton
    <2> QED BY <2>1, <2>2, <2>3, FS_Product
  <1>3. ASSUME NEW s \in SUBSET S
        PROVE  IsFiniteSet(Units(s))
    <2>1. IsFiniteSet(s)
      BY FS_Subset
    <2> DEFINE U(x) == {x} \X (1 .. f[x])
    <2>2. IsFiniteSet({U(x) : x \in s})
      <3> HIDE DEF U
      <3>1. [x \in s |-> U(x)] \in Surjection(s, {U(x) : x \in s})
        BY DEF Surjection
      <3> QED BY <2>1, <3>1, FS_Surjection
    <2>3. \A T \in {U(x) : x \in s} : IsFiniteSet(T)
      BY <1>2
    <2>4. Units(s) = UNION {U(x) : x \in s}
      OBVIOUS
    <2> HIDE DEF U, Units
    <2> QED BY <2>2, <2>3, <2>4, FS_UNION
  <1>4. Units({}) = {}
    OBVIOUS
  <1> HIDE DEF Units
  <1>5. ASSUME NEW s \in SUBSET S
        PROVE  sum[s] = IF s = {} THEN 0 ELSE f[One(s)] + sum[s \ {One(s)}]
    <2>1. CASE s = {}
      BY <1>4, <2>1, FS_EmptySet
    <2>2. CASE s # {}
      <3> DEFINE x == One(s)
                 r == s \ {x}
      <3>1. x \in S /\ r \in SUBSET S
        BY <1>1, <2>2
      <3>2. /\ Units(s) = Units(r) \cup ({x} \X (1 .. f[x]))
            /\ Units(r) \cap ({x} \X (1 .. f[x])) = {}
        BY <1>1, <2>2
      <3>3. /\ IsFiniteSet(Units(r)) /\ IsFiniteSet({x} \X (1 .. f[x]))
            /\ Cardinality({x} \X (1 .. f[x])) = f[x]
        BY <1>2, <1>3, <3>1
      <3>4. Cardinality(Units(r)) \in Nat /\ f[x] \in Nat
        BY <3>1, <3>3, FS_CardinalityType
      <3>5. Cardinality(Units(s)) = Cardinality(Units(r)) + f[x]
        <4> HIDE DEF x, r
        <4>1. Cardinality({}) = 0
          BY FS_EmptySet
        <4> DEFINE A == Units(r)
                   B == {x} \X (1 .. f[x])
        <4>2. IsFiniteSet(A) /\ IsFiniteSet(B) /\ A \cap B = {} /\ Units(s) = A \cup B
          BY <3>2, <3>3
        <4> HIDE DEF A, B
        <4>3. Cardinality(A \cup B) = Cardinality(A) + Cardinality(B) - Cardinality(A \cap B)
          BY <4>2, FS_Union
        <4>4. Cardinality(A) \in Nat /\ Cardinality(B) \in Nat
          BY <4>2, FS_CardinalityType
        <4>5. Cardinality(A \cap B) = 0
          BY <4>1, <4>2
        <4>6. Cardinality(A \cup B) = Cardinality(A) + Cardinality(B)
          BY <4>3, <4>4, <4>5
        <4> QED BY <3>2, <3>3, <4>6 DEF A, B
      <3> QED BY <2>2, <3>1, <3>4, <3>5
    <2> QED BY <2>1, <2>2
  <1>6. sum = [s \in SUBSET S |-> IF s = {} THEN 0 ELSE f[One(s)] + sum[s \ {One(s)}]]
    BY <1>5
  <1> HIDE DEF sum
  <1> QED BY <1>6 DEF IsSum

\* Two such folds, of functions that differ by a unit of one element, differ
\* by a unit where they take that element.
LEMMA SumsDiffer ==
    ASSUME NEW S, IsFiniteSet(S), NEW f \in [S -> Nat], NEW i \in S,
           NEW g, \A x \in S : g[x] = f[x] + (IF i = x THEN 1 ELSE 0),
           NEW a, IsSum(f, S, a), NEW b, IsSum(g, S, b)
    PROVE  \A s \in SUBSET S : /\ a[s] \in Nat
                             /\ b[s] = a[s] + (IF i \in s THEN 1 ELSE 0)
  <1> DEFINE Differ(s) == a[s] \in Nat /\ b[s] = a[s] + (IF i \in s THEN 1 ELSE 0)
             Wrong == {s \in SUBSET S : ~Differ(s)}
             Sizes == {n \in Nat : \E s \in Wrong : n = Cardinality(s)}
  <1> SUFFICES ASSUME Wrong # {} PROVE FALSE
    OBVIOUS
  <1>1. ASSUME NEW s \in SUBSET S
        PROVE  IsFiniteSet(s) /\ Cardinality(s) \in Nat
    BY FS_Subset, FS_CardinalityType
  <1>2. ASSUME NEW s \in SUBSET S
        PROVE  /\ a[s] = IF s = {} THEN 0 ELSE f[One(s)] + a[s \ {One(s)}]
               /\ b[s] = IF s = {} THEN 0 ELSE g[One(s)] + b[s \ {One(s)}]
    BY DEF IsSum
  <1>3. Differ({})
    <2>1. {} \in SUBSET S
      OBVIOUS
    <2>2. a[{}] = 0 /\ b[{}] = 0
      BY <1>2, <2>1
    <2> QED BY <2>2
  <1>4. \A x \in S : f[x] \in Nat /\ g[x] = f[x] + (IF i = x THEN 1 ELSE 0)
    OBVIOUS
  <1>5. ASSUME NEW s \in SUBSET S, s # {}, Differ(s \ {One(s)})
        PROVE  Differ(s)
    <2> DEFINE x == One(s)
               r == s \ {x}
    <2>1. x \in s
      BY <1>5 DEF One
    <2>2. a[s] = f[x] + a[r] /\ b[s] = g[x] + b[r]
      BY <1>2, <1>5
    <2>3. a[r] \in Nat /\ b[r] = a[r] + (IF i \in r THEN 1 ELSE 0)
      BY <1>5
    <2>4. f[x] \in Nat /\ g[x] = f[x] + (IF i = x THEN 1 ELSE 0)
      BY <1>4, <2>1
    <2>5. i \in s <=> (i \in r \/ i = x)
      BY <2>1
    <2>6. ~(i \in r /\ i = x)
      OBVIOUS
    <2> HIDE DEF x, r
    <2> QED BY <2>2, <2>3, <2>4, <2>5, <2>6
  <1> HIDE DEF Differ
  <1>6. Sizes # {}
    BY <1>1
  <1>7. PICK n \in Sizes : \A m \in Sizes : n <= m
    BY <1>6, LeastNumber
  <1>8. PICK s \in Wrong : n = Cardinality(s)
    BY <1>7
  <1>9. s # {}
    BY <1>3, <1>8
  <1> DEFINE r == s \ {One(s)}
  <1>10. One(s) \in s /\ r \in SUBSET S
    BY <1>8, <1>9 DEF One
  <1>11. Cardinality(r) = Cardinality(s) - 1 /\ Cardinality(r) \in Nat
    BY <1>1, <1>10, FS_RemoveElement
  <1>12. r \notin Wrong
    BY <1>7, <1>8, <1>11
  <1> QED BY <1>5, <1>8, <1>9, <1>10, <1>12

\* The sum of the counters of the opportunities: of none it is 0, and a count
\* more of one of them is one more.
LEMMA SumOfNone == SumFunction([i \in Opportunities |-> 0]) = 0
  <1> DEFINE S == Opportunities
             f == [i \in S |-> 0]
             a == CHOOSE sum : IsSum(f, S, sum)
             zero == [s \in SUBSET S |-> 0]
  <1>1. IsFiniteSet(S)
    BY BudgetAssumption, FS_Interval DEF Opportunities
  <1>2. f \in [S -> Nat] /\ S \in SUBSET S /\ {} \in SUBSET S
    OBVIOUS
  <1>3. IsSum(f, S, a)
    BY <1>1, <1>2, SumExists
  <1>4. IsSum(f, S, zero)
    <2>1. ASSUME NEW s \in SUBSET S
          PROVE  0 = IF s = {} THEN 0 ELSE f[One(s)] + zero[s \ {One(s)}]
      <3>1. s # {} => One(s) \in S
        BY DEF One
      <3> QED BY <3>1
    <2> QED BY <2>1 DEF IsSum
  <1>5. SumFunction(f) = a[S]
    BY <1>2, SumIsFold
  <1> HIDE DEF f, a
  <1>6. CASE S = {}
    BY <1>2, <1>3, <1>5, <1>6 DEF IsSum, f
  <1>7. ASSUME NEW i \in S PROVE a[S] = 0
    <2> DEFINE g == [f EXCEPT ![i] = f[i] + 1]
               b == CHOOSE sum : IsSum(g, S, sum)
    <2>1. g \in [S -> Nat]
      BY <1>2
    <2>2. IsSum(g, S, b)
      <3> HIDE DEF g
      <3> QED BY <1>1, <2>1, SumExists
    <2>5. \A x \in S : g[x] = f[x] + (IF i = x THEN 1 ELSE 0)
      BY <1>2
    <2>6. \A x \in S : g[x] = 0 + (IF i = x THEN 1 ELSE 0)
      BY DEF f
    <2> HIDE DEF b, g
    <2>3. \A s \in SUBSET S : a[s] \in Nat /\ b[s] = a[s] + (IF i \in s THEN 1 ELSE 0)
      <3> HIDE DEF S
      <3> QED BY <1>1, <1>2, <1>3, <2>2, <2>5, SumsDiffer
    <2>4. \A s \in SUBSET S : zero[s] \in Nat /\ b[s] = zero[s] + (IF i \in s THEN 1 ELSE 0)
      <3> HIDE DEF S, zero
      <3> QED BY <1>1, <1>2, <1>4, <2>2, <2>5, SumsDiffer
    <2> QED BY <1>2, <2>3, <2>4
  <1> QED BY <1>5, <1>6, <1>7 DEF f

\* One more at one opportunity is one more in the sum.
LEMMA SumOfOneMore ==
    ASSUME NEW f \in [Opportunities -> Nat], NEW i \in Opportunities
    PROVE  SumFunction([f EXCEPT ![i] = f[i] + 1]) = SumFunction(f) + 1
  <1> DEFINE S == Opportunities
             g == [f EXCEPT ![i] = f[i] + 1]
  <1>1. IsFiniteSet(S)
    BY BudgetAssumption, FS_Interval DEF Opportunities
  <1>2. g \in [S -> Nat]
    OBVIOUS
  <1> DEFINE a == CHOOSE sum : IsSum(f, S, sum)
             b == CHOOSE sum : IsSum(g, S, sum)
  <1>3. IsSum(f, S, a)
    BY <1>1, SumExists
  <1> HIDE DEF g
  <1>4. IsSum(g, S, b)
    BY <1>1, <1>2, SumExists
  <1>5. SumFunction(f) = a[S] /\ SumFunction(g) = b[S]
    BY <1>2, SumIsFold
  <1> HIDE DEF a, b
  <1>6. b[S] = a[S] + 1
    <2>1. f \in [S -> Nat] /\ i \in S /\ \A x \in S : g[x] = f[x] + (IF i = x THEN 1 ELSE 0)
      BY DEF g
    <2>2. \A s \in SUBSET S : a[s] \in Nat /\ b[s] = a[s] + (IF i \in s THEN 1 ELSE 0)
      <3> HIDE DEF S
      <3> QED BY <1>1, <1>3, <1>4, <2>1, SumsDiffer
    <2> QED BY <2>2
  <1> QED BY <1>5, <1>6 DEF g

-----------------------------------------------------------------------------
\* The kinds of counters of a ledger.
LEMMA LedgerNumbers ==
    ASSUME NEW l \in Ledgers
    PROVE  /\ l.seed_evaluations \in Nat /\ l.proposals \in Nat
           /\ l.attempts_total \in Nat /\ l.tokens \in Nat /\ l.parse_failures \in Nat
           /\ l.training \in Nat /\ l.repairs_total \in Nat /\ l.retries \in Nat
           /\ l.attempts \in [Opportunities -> Nat] /\ l.repairs \in [Opportunities -> Nat]
           /\ l.outcomes \in [Outcomes -> Nat] /\ TerminalCount(l) \in Nat
           /\ l.sources \in SUBSET Sources
           /\ l.active \in Opportunities \cup {NoIndex}
  BY DEF Ledgers, LedgerType, TerminalCount, Outcomes

\* One more outcome is one more terminal opportunity.
LEMMA OneMoreOutcome ==
    ASSUME NEW l \in Ledgers, NEW o \in Outcomes
    PROVE  /\ TerminalCount(FinishOpportunity(l, o)) = TerminalCount(l) + 1
           /\ FinishOpportunity(l, o).outcomes =
                [l.outcomes EXCEPT ![o] = l.outcomes[o] + 1]
           /\ FinishOpportunity(l, o) =
                [l EXCEPT !.outcomes = [l.outcomes EXCEPT ![o] = l.outcomes[o] + 1],
                          !.active = NoIndex]
  <1> DEFINE f == [l.outcomes EXCEPT ![o] = l.outcomes[o] + 1]
             m == FinishOpportunity(l, o)
  <1>1. l.outcomes \in [Outcomes -> Nat]
    BY LedgerNumbers
  <1>2. m = [l EXCEPT !.outcomes = f, !.active = NoIndex] /\ m.outcomes = f
    BY DEF FinishOpportunity, Ledgers, LedgerType
  <1>3. \A p \in Outcomes : /\ l.outcomes[p] \in Nat
                            /\ f[p] = l.outcomes[p] + (IF p = o THEN 1 ELSE 0)
    BY <1>1
  <1> HIDE DEF f, m
  <1>4. TerminalCount(m) = TerminalCount(l) + 1
    <2> DEFINE Unit(p) == IF p = o THEN 1 ELSE 0
    <2>1. /\ "accepted" \in Outcomes /\ "rejected" \in Outcomes /\ "invalid" \in Outcomes
          /\ "scientific_failure" \in Outcomes /\ "infrastructure_failure" \in Outcomes
      BY DEF Outcomes
    <2>2. Unit("accepted") + Unit("rejected") + Unit("invalid") + Unit("scientific_failure")
            + Unit("infrastructure_failure") = 1
      BY DEF Outcomes
    <2>3. \A p \in Outcomes : Unit(p) \in Nat
      OBVIOUS
    <2>4. \A p \in Outcomes : l.outcomes[p] \in Nat /\ f[p] = l.outcomes[p] + Unit(p)
      BY <1>3
    <2> HIDE DEF Unit
    <2>5. m.outcomes = f
      BY <1>2
    <2>6. \A a, b, c, d, e, u, v, w, x, y \in Nat :
            u + v + w + x + y = 1 =>
              (a + u) + (b + v) + (c + w) + (d + x) + (e + y) = (a + b + c + d + e) + 1
      OBVIOUS
    <2>7. TerminalCount(m) =
            (l.outcomes["accepted"] + Unit("accepted"))
              + (l.outcomes["rejected"] + Unit("rejected"))
              + (l.outcomes["invalid"] + Unit("invalid"))
              + (l.outcomes["scientific_failure"] + Unit("scientific_failure"))
              + (l.outcomes["infrastructure_failure"] + Unit("infrastructure_failure"))
      BY <2>1, <2>4, <2>5 DEF TerminalCount
    <2> QED BY <2>1, <2>2, <2>3, <2>4, <2>6, <2>7 DEF TerminalCount
  <1> QED BY <1>2, <1>4 DEF f, m

\* The empty ledger is valid.
LEMMA EmptyLedgerValid ==
    /\ ValidLedger(EmptyLedger)
    /\ TerminalCount(EmptyLedger) = 0
  BY SumOfNone, BudgetAssumption DEF EmptyLedger, TerminalCount, Outcomes, ValidLedger

-----------------------------------------------------------------------------
\* The counts that a step keeps that leaves its opportunity open.
SameCounts(l, m) ==
    /\ m.proposals = l.proposals /\ m.attempts = l.attempts
    /\ m.attempts_total = l.attempts_total /\ m.outcomes = l.outcomes
    /\ m.active = l.active /\ l.sources \subseteq m.sources

\* Under the ceilings, with the repairs summed up.
UnderCeilings(l) ==
    /\ l.seed_evaluations <= 1 /\ l.tokens <= TokenCeiling
    /\ l.training <= TrainingCeiling /\ l.retries <= RetryCeiling
    /\ l.repairs_total <= RepairCeiling /\ l.repairs_total = SumFunction(l.repairs)
    /\ \A i \in Opportunities : l.repairs[i] <= RepairsPerOpportunity

\* A ledger that keeps the counts and the ceilings is as valid.
LEMMA CountsKeptValid ==
    ASSUME NEW l, NEW m, ValidLedger(l), SameCounts(l, m), UnderCeilings(m)
    PROVE  ValidLedger(m) /\ TerminalCount(m) = TerminalCount(l)
  BY DEF ValidLedger, SameCounts, UnderCeilings, TerminalCount

\* The opportunity b goes on with the opportunity a.
SameOpportunity(a, b) ==
    /\ b.index = a.index /\ b.parents = a.parents
    /\ b.transition = a.transition /\ b.attempts = a.attempts

\* An opportunity grounded in the ledger and the requests.
Grounded(a, l) ==
    /\ a.index = NoIndex => a = NoOpportunity
    /\ a.candidate # None => a.candidate = a.proposal /\ a.candidate \in l.sources
    /\ a.evaluation # "invalid"
    /\ a.proposal # None => <<a.index, a.attempts>> \in requests

\* What the ledger l and the opportunity a must be to be written for those of
\* the disk while no opportunity is opened, asked for or closed.
Course(l, a) ==
    /\ SameCounts(disk.ledger, l) /\ UnderCeilings(l)
    /\ SameOpportunity(disk.active, a) /\ Grounded(a, l)
    /\ a.index # NoIndex => a.repairs = l.repairs[a.index]
    /\ \A i \in Opportunities : i # a.index => l.repairs[i] = disk.ledger.repairs[i]
    /\ l.parse_failures =
         l.repairs_total + InvalidCount(disk) + (IF a.proposal \in Garbage THEN 1 ELSE 0)

\* What a write owes but for the training.
WriteOwes ==
    /\ pc' # "rejected"
    /\ LedgerIsSound'
    /\ ActiveIsGrounded'
    /\ StateReconstructs'

\* What a step that holds the run state starts from.
LEMMA HeldSound ==
    ASSUME RunInv, pc \in Holding
    PROVE  /\ mem = disk /\ disk \in StateType /\ disk.status = "running"
           /\ disk.ledger \in Ledgers /\ disk.active \in ActiveType
           /\ disk.terminal \in Seq(TerminalType) /\ Len(disk.terminal) \in Nat
           /\ ValidState(disk) /\ ValidLedger(disk.ledger)
           /\ TerminalCount(disk.ledger) = Len(disk.terminal)
           /\ disk.next = Len(disk.terminal) + 1
           /\ disk.ledger.active = disk.active.index
           /\ disk.active.index \in Opportunities \cup {NoIndex}
           /\ disk.active.index # NoIndex => disk.active.index = Len(disk.terminal) + 1
           /\ disk.ledger.proposals =
                Len(disk.terminal) + (IF disk.active.index = NoIndex THEN 0 ELSE 1)
           /\ UnderCeilings(disk.ledger)
           /\ Grounded(disk.active, disk.ledger)
           /\ StateReconstructs /\ LedgerIsSound
  BY HeldRun, StateNumbers
     DEF RunInv, LedgerIsSound, ValidState, ActiveType, ValidLedger, UnderCeilings,
         ActiveIsGrounded, Grounded

-----------------------------------------------------------------------------
\* The portfolio after one more terminal record.
Joined(p, r) ==
    IF r.outcome = "accepted" /\ r.opportunity.candidate \notin Range(p)
      THEN Append(p, r.opportunity.candidate) ELSE p

\* The portfolios after each of the first n terminal records.
ArePortfolios(t, n, P) ==
    P = [k \in 0 .. n |-> IF k = 0 THEN <<Seed>> ELSE Joined(P[k - 1], t[k])]

\* PortfolioAfter is the function of the portfolios it is defined by.
LEMMA PortfolioIsChosen ==
    ASSUME NEW t
    PROVE  PortfolioAfter(t) = CHOOSE P : ArePortfolios(t, Len(t), P)
  BY DEF PortfolioAfter, ArePortfolios, Joined

\* There is such a function, for any number of terminal records.
LEMMA PortfolioExists ==
    ASSUME NEW t, NEW n \in Nat
    PROVE  \E P : ArePortfolios(t, n, P)
  <1> DEFINE S == {m \in Nat : \E P : ArePortfolios(t, m, P)}
  <1>1. 0 \in S
    <2> DEFINE P == [k \in 0 .. 0 |-> <<Seed>>]
    <2>1. ArePortfolios(t, 0, P)
      BY DEF ArePortfolios
    <2> QED BY <2>1
  <1>2. ASSUME NEW m \in Nat, m \in S PROVE m + 1 \in S
    <2>1. PICK P : ArePortfolios(t, m, P)
      BY <1>2
    <2> DEFINE Q == [k \in 0 .. m + 1 |-> IF k = m + 1 THEN Joined(P[m], t[m + 1]) ELSE P[k]]
    <2>2. \A k \in 0 .. m : P[k] = IF k = 0 THEN <<Seed>> ELSE Joined(P[k - 1], t[k])
      BY <2>1 DEF ArePortfolios
    <2>3. ASSUME NEW k \in 0 .. m + 1
          PROVE  Q[k] = IF k = 0 THEN <<Seed>> ELSE Joined(Q[k - 1], t[k])
      BY <2>2
    <2>4. ArePortfolios(t, m + 1, Q)
      BY <2>3 DEF ArePortfolios
    <2> QED BY <2>4
  <1> HIDE DEF S
  <1>3. Nat \subseteq S
    BY <1>1, <1>2, EveryNumber
  <1> QED BY <1>3 DEF S

\* Records that begin alike determine portfolios that begin alike.
LEMMA PortfoliosBeginAlike ==
    ASSUME NEW t, NEW u, NEW n \in Nat, NEW m \in Nat, n <= m,
           \A i \in 1 .. n : u[i] = t[i],
           NEW P, ArePortfolios(t, n, P), NEW Q, ArePortfolios(u, m, Q)
    PROVE  \A k \in 0 .. n : Q[k] = P[k]
  <1> DEFINE Wrong == {k \in 0 .. n : Q[k] # P[k]}
  <1> SUFFICES ASSUME Wrong # {} PROVE FALSE
    OBVIOUS
  <1>1. PICK k \in Wrong : \A j \in Wrong : k <= j
    <2>1. Wrong \in SUBSET Nat
      OBVIOUS
    <2> HIDE DEF Wrong
    <2> QED BY <2>1, LeastNumber
  <1>2. \A j \in 0 .. n : /\ P[j] = IF j = 0 THEN <<Seed>> ELSE Joined(P[j - 1], t[j])
                          /\ Q[j] = IF j = 0 THEN <<Seed>> ELSE Joined(Q[j - 1], u[j])
    BY DEF ArePortfolios
  <1>3. k # 0
    BY <1>1, <1>2
  <1>4. k - 1 \in 0 .. n /\ k - 1 \notin Wrong /\ k \in 1 .. n
    BY <1>1, <1>3
  <1>5. Q[k - 1] = P[k - 1] /\ u[k] = t[k]
    BY <1>4
  <1> QED BY <1>1, <1>2, <1>3, <1>5

\* A terminal record that is appended changes no portfolio before it.
LEMMA PortfolioAppended ==
    ASSUME NEW S, NEW t \in Seq(S), NEW r \in S
    PROVE  LET u == Append(t, r)
           IN /\ \A k \in 0 .. Len(t) : PortfolioAfter(u)[k] = PortfolioAfter(t)[k]
              /\ PortfolioAfter(u)[Len(t) + 1] = Joined(PortfolioAfter(t)[Len(t)], r)
              /\ PortfolioAfter(t)[0] = <<Seed>>
  <1> DEFINE u == Append(t, r)
             P == PortfolioAfter(t)
             Q == PortfolioAfter(u)
             n == Len(t)
  <1>1. /\ n \in Nat /\ Len(u) = n + 1 /\ u[n + 1] = r
        /\ \A i \in 1 .. n : u[i] = t[i]
    BY AppendProperties, LenProperties
  <1> HIDE DEF u
  <1>2. ArePortfolios(t, n, P) /\ ArePortfolios(u, n + 1, Q)
    <2>1. (\E R : ArePortfolios(t, n, R)) /\ (\E R : ArePortfolios(u, n + 1, R))
      <3>1. n \in Nat /\ n + 1 \in Nat
        BY <1>1
      <3> HIDE DEF n
      <3> QED BY <3>1, PortfolioExists
    <2> QED BY <1>1, <2>1, PortfolioIsChosen
  <1> HIDE DEF P, Q, n
  <1>3. \A k \in 0 .. n : Q[k] = P[k]
    BY <1>1, <1>2, PortfoliosBeginAlike
  <1>4. Q[n + 1] = Joined(Q[n], r)
    BY <1>1, <1>2 DEF ArePortfolios
  <1>5. P[0] = <<Seed>>
    BY <1>1, <1>2 DEF ArePortfolios
  <1>6. n \in 0 .. n
    BY <1>1
  <1> QED BY <1>3, <1>4, <1>5, <1>6 DEF u, P, Q, n

\* The incumbents before it stay, and it is the incumbent if it is accepted.
LEMMA IncumbentAppended ==
    ASSUME NEW S, NEW t \in Seq(S), NEW r \in S
    PROVE  LET u == Append(t, r)
           IN /\ \A k \in 0 .. Len(t) : IncumbentAfter(u, k) = IncumbentAfter(t, k)
              /\ IncumbentAfter(u, Len(t) + 1) =
                   IF r.outcome = "accepted" THEN r.opportunity.candidate
                                             ELSE IncumbentAfter(t, Len(t))
  <1> DEFINE u == Append(t, r)
             n == Len(t)
             A(v, k) == {j \in 1 .. k : v[j].outcome = "accepted"}
             Last(B) == CHOOSE j \in B : \A i \in B : i <= j
  <1>1. /\ n \in Nat /\ Len(u) = n + 1 /\ u[n + 1] = r
        /\ \A i \in 1 .. n : u[i] = t[i]
    BY AppendProperties, LenProperties
  <1>2. ASSUME NEW m \in Nat, NEW B \in SUBSET (1 .. m), B # {}
        PROVE  Last(B) \in B /\ \A i \in B : i <= Last(B)
    <2>1. IsFiniteSet(B)
      <3>1. IsFiniteSet(1 .. m)
        BY FS_Interval
      <3> QED BY <3>1, FS_Subset
    <2>2. \E j \in B : \A i \in B : i <= j
      <3>1. B \in SUBSET Nat
        OBVIOUS
      <3> QED BY <1>2, <2>1, <3>1, GreatestNumber
    <2> QED BY <2>2
  <1>3. \A v, k : IncumbentAfter(v, k) = IF A(v, k) = {} THEN Seed
                                         ELSE v[Last(A(v, k))].opportunity.candidate
    BY DEF IncumbentAfter
  <1> HIDE DEF u, n, Last
  <1>4. ASSUME NEW k \in 0 .. n
        PROVE  IncumbentAfter(u, k) = IncumbentAfter(t, k)
    <2>1. A(u, k) = A(t, k) /\ A(t, k) \in SUBSET (1 .. n)
      BY <1>1, <1>4
    <2>2. A(t, k) # {} => Last(A(t, k)) \in 1 .. n
      <3> HIDE DEF A
      <3> QED BY <1>1, <1>2, <2>1
    <2> HIDE DEF A
    <2> QED BY <1>1, <1>3, <2>1, <2>2
  <1>5. CASE r.outcome = "accepted"
    <2>1. n + 1 \in A(u, n + 1) /\ A(u, n + 1) \in SUBSET (1 .. n + 1) /\ n + 1 \in Nat
      BY <1>1, <1>5
    <2> HIDE DEF A
    <2>2. Last(A(u, n + 1)) = n + 1
      <3>1. /\ Last(A(u, n + 1)) \in A(u, n + 1)
            /\ \A i \in A(u, n + 1) : i <= Last(A(u, n + 1))
        BY <1>2, <2>1
      <3>2. Last(A(u, n + 1)) \in 1 .. n + 1 /\ n + 1 <= Last(A(u, n + 1))
        BY <2>1, <3>1
      <3> QED BY <2>1, <3>2
    <2> QED BY <1>1, <1>3, <1>4, <1>5, <2>1, <2>2 DEF u, n
  <1>6. CASE r.outcome # "accepted"
    <2>1. A(u, n + 1) = A(u, n)
      BY <1>1, <1>6
    <2>2. A(u, n) = {} \/ Last(A(u, n)) \in 1 .. n
      <3>1. A(u, n) \in SUBSET (1 .. n)
        OBVIOUS
      <3> HIDE DEF A
      <3> QED BY <1>1, <1>2, <3>1
    <2>3. IncumbentAfter(u, n + 1) = IncumbentAfter(u, n)
      <3> HIDE DEF A
      <3> QED BY <1>3, <2>1
    <2>4. n \in 0 .. n
      BY <1>1
    <2> QED BY <1>4, <1>6, <2>3, <2>4 DEF u, n
  <1> QED BY <1>5, <1>6

\* Terminal records of one kind, counted: one more if the one appended is one.
LEMMA CountAppended ==
    ASSUME NEW S, NEW t \in Seq(S), NEW r \in S, NEW K
    PROVE  LET u == Append(t, r)
               Of(v) == {i \in 1 .. Len(v) : v[i] \in K}
           IN /\ Cardinality(Of(t)) \in Nat
              /\ Cardinality(Of(u)) = Cardinality(Of(t)) + (IF r \in K THEN 1 ELSE 0)
  <1> DEFINE u == Append(t, r)
             n == Len(t)
             Of(v) == {i \in 1 .. Len(v) : v[i] \in K}
  <1>1. /\ n \in Nat /\ Len(u) = n + 1 /\ u[n + 1] = r
        /\ \A i \in 1 .. n : u[i] = t[i]
    BY AppendProperties, LenProperties
  <1>2. Of(t) \subseteq 1 .. n /\ n + 1 \notin Of(t)
    BY <1>1
  <1>3. IsFiniteSet(Of(t)) /\ Cardinality(Of(t)) \in Nat
    <2>1. IsFiniteSet(1 .. n) /\ Of(t) \in SUBSET (1 .. n)
      BY <1>1, FS_Interval
    <2> HIDE DEF Of
    <2>2. IsFiniteSet(Of(t))
      BY <2>1, FS_Subset
    <2> QED BY <2>2, FS_CardinalityType
  <1>4. Of(u) = IF r \in K THEN Of(t) \cup {n + 1} ELSE Of(t)
    <2> HIDE DEF u
    <2>1. \A i \in 1 .. n + 1 : i \in 1 .. n \/ i = n + 1
      BY <1>1
    <2> QED BY <1>1, <2>1
  <1>5. Cardinality(Of(u)) = Cardinality(Of(t)) + (IF r \in K THEN 1 ELSE 0)
    <2> HIDE DEF Of, n, u
    <2>1. CASE r \in K
      BY <1>2, <1>3, FS_AddElement, <1>4, <2>1
    <2>2. CASE r \notin K
      BY <1>3, <1>4, <2>2
    <2> QED BY <2>1, <2>2
  <1> QED BY <1>3, <1>5

-----------------------------------------------------------------------------
\* The terminal records stand for opportunities.
LEMMA TerminalIndices ==
    ASSUME disk \in StateType, LedgerReconstructs, NEW i \in 1 .. Len(disk.terminal)
    PROVE  i \in Opportunities /\ disk.terminal[i].opportunity.index = i
  <1>1. disk.terminal[i] \in TerminalType
    BY StateNumbers, ElementOfSeq
  <1>2. disk.terminal[i].opportunity.index \in Opportunities \cup {NoIndex}
    BY <1>1 DEF TerminalType, ActiveType
  <1>3. disk.terminal[i].opportunity.index = i
    BY DEF LedgerReconstructs
  <1>4. Len(disk.terminal) \in Nat /\ i # 0
    BY StateNumbers
  <1> QED BY <1>2, <1>3, <1>4 DEF NoIndex

\* What is reconstructed stays so while no terminal record is added.
LEMMA ReconstructionKept ==
    ASSUME disk \in StateType, StateReconstructs,
           disk'.terminal = disk.terminal,
           disk'.portfolio = disk.portfolio, disk'.incumbent = disk.incumbent,
           disk'.ledger.outcomes = disk.ledger.outcomes,
           \A i \in 1 .. Len(disk.terminal) :
             /\ disk'.ledger.attempts[i] = disk.ledger.attempts[i]
             /\ disk'.ledger.repairs[i] = disk.ledger.repairs[i],
           disk'.ledger.parse_failures =
             disk'.ledger.repairs_total + InvalidCount(disk)
               + (IF disk'.active.proposal \in Garbage THEN 1 ELSE 0),
           disk.ledger.sources \subseteq disk'.ledger.sources,
           requests \subseteq requests'
    PROVE  StateReconstructs'
  <1>1. ParentsReconstruct'
    BY DEF StateReconstructs, ParentsReconstruct
  <1>2. InvalidCount(disk)' = InvalidCount(disk)
    BY DEF InvalidCount
  <1>3. LedgerReconstructs'
    BY <1>2 DEF StateReconstructs, LedgerReconstructs
  <1>4. OutcomeGrounded'
    BY DEF StateReconstructs, OutcomeGrounded
  <1> QED BY <1>1, <1>3, <1>4 DEF StateReconstructs

\* A write of a run that goes on its course is valid, and changes nothing that
\* was reconstructed.
LEMMA CoursePersisted ==
    ASSUME RunInv, pc \in Holding, NEW l \in Ledgers, NEW a \in ActiveType,
           NEW b \in BOOLEAN, Course(l, a), requests' = requests,
           Persist([disk EXCEPT !.ledger = l, !.active = a, !.seeded = b], "running")
    PROVE  /\ WriteOwes
           /\ disk' = [disk EXCEPT !.ledger = l, !.active = a, !.seeded = b]
           /\ pc' = "running"
  <1> DEFINE s == [disk EXCEPT !.ledger = l, !.active = a, !.seeded = b]
  <1>1. /\ disk \in StateType /\ disk.status = "running"
        /\ ValidState(disk) /\ ValidLedger(disk.ledger)
        /\ disk.active.index # NoIndex => disk.active.index = Len(disk.terminal) + 1
        /\ disk.active.index \in Opportunities \cup {NoIndex}
        /\ StateReconstructs /\ LedgerIsSound /\ Len(disk.terminal) \in Nat
    BY HeldSound
  <1>2. /\ s.ledger = l /\ s.active = a /\ s.status = disk.status
        /\ s.incumbent = disk.incumbent /\ s.portfolio = disk.portfolio
        /\ s.next = disk.next /\ s.terminal = disk.terminal
    BY <1>1 DEF StateType, Ledgers
  <1> HIDE DEF s
  <1>3. ValidLedger(l) /\ TerminalCount(l) = TerminalCount(disk.ledger)
    BY <1>1, CountsKeptValid DEF Course
  <1>4. ValidState(s)
    BY <1>2, <1>1, <1>3
       DEF ExpectedParents, ValidState, Course, SameCounts, SameOpportunity
  <1>5. disk' = s /\ pc' = "running"
    BY <1>4 DEF Persist, s
  <1>6. LedgerIsSound'
    <2>1. \A i \in Opportunities :
            i > disk.ledger.proposals => l.attempts[i] = 0 /\ l.repairs[i] = 0
      <3> SUFFICES ASSUME NEW i \in Opportunities, i > disk.ledger.proposals
                   PROVE  l.attempts[i] = 0 /\ l.repairs[i] = 0
        OBVIOUS
      <3>1. i # a.index
        <4>1. disk.ledger.proposals =
                Len(disk.terminal) + (IF disk.active.index = NoIndex THEN 0 ELSE 1)
          BY HeldSound
        <4>2. i \in Nat /\ i # 0
          BY BudgetAssumption DEF Opportunities
        <4>3. a.index = disk.active.index
          BY DEF Course, SameOpportunity
        <4>4. ASSUME i = a.index PROVE disk.ledger.proposals = i
          BY <1>1, <4>1, <4>2, <4>3, <4>4 DEF NoIndex
        <4> QED BY <4>2, <4>4
      <3> QED BY <1>1, <3>1 DEF LedgerIsSound, Course, SameCounts
    <2> QED BY <1>2, <1>3, <1>5, <2>1 DEF LedgerIsSound, Course, SameCounts
  <1>7. ActiveIsGrounded'
    BY <1>2, <1>5 DEF ActiveIsGrounded, Course, Grounded
  <1>8. StateReconstructs'
    <2>1. \A i \in 1 .. Len(disk.terminal) :
            l.attempts[i] = disk.ledger.attempts[i] /\ l.repairs[i] = disk.ledger.repairs[i]
      <3> SUFFICES ASSUME NEW i \in 1 .. Len(disk.terminal)
                   PROVE  /\ l.attempts[i] = disk.ledger.attempts[i]
                          /\ l.repairs[i] = disk.ledger.repairs[i]
        OBVIOUS
      <3>1. i \in Opportunities
        BY <1>1, TerminalIndices DEF StateReconstructs
      <3>2. i # a.index
        BY <1>1 DEF Course, SameOpportunity, NoIndex
      <3> QED BY <3>1, <3>2 DEF Course, SameCounts
    <2> QED BY <1>1, <1>2, <1>5, <2>1, ReconstructionKept DEF Course, SameCounts
  <1>9. pc' # "rejected"
    BY <1>5
  <1> QED BY <1>5, <1>6, <1>7, <1>8, <1>9 DEF WriteOwes, s

-----------------------------------------------------------------------------
\* What a recording method leaves alone besides the counts.
SameRepairs(l, m) ==
    /\ m.parse_failures = l.parse_failures
    /\ m.repairs = l.repairs /\ m.repairs_total = l.repairs_total

\* What the recording methods charge, field by field.
LEMMA EvaluationRecorded ==
    ASSUME NEW l \in Ledgers, NEW n \in Nat, NEW r \in Nat,
           NEW m \in {RecordSeed(l, n, r), RecordEvaluation(l, n, r)}
    PROVE  /\ SameCounts(l, m) /\ SameRepairs(l, m)
           /\ m.training = l.training + n /\ m.retries = l.retries + r
           /\ m.tokens = l.tokens
           /\ m = RecordSeed(l, n, r) => m.seed_evaluations = l.seed_evaluations + 1
           /\ m = RecordEvaluation(l, n, r) => m.seed_evaluations = l.seed_evaluations
  BY DEF RecordSeed, RecordEvaluation, SameCounts, SameRepairs, Ledgers, LedgerType

\* What record_infrastructure_retry leaves alone.
LEMMA RetryRecorded ==
    ASSUME NEW l \in Ledgers
    PROVE  LET m == RecordRetry(l)
           IN /\ SameCounts(l, m) /\ SameRepairs(l, m)
              /\ m.training = l.training /\ m.retries = l.retries + 1
              /\ m.tokens = l.tokens /\ m.seed_evaluations = l.seed_evaluations
  BY DEF RecordRetry, SameCounts, SameRepairs, Ledgers, LedgerType

\* What record_source leaves alone.
LEMMA SourceRecorded ==
    ASSUME NEW l \in Ledgers, NEW source
    PROVE  LET m == RecordSource(l, source)
           IN /\ SameCounts(l, m) /\ SameRepairs(l, m) /\ source \in m.sources
              /\ m.training = l.training /\ m.retries = l.retries
              /\ m.tokens = l.tokens /\ m.seed_evaluations = l.seed_evaluations
  BY DEF RecordSource, SameCounts, SameRepairs, Ledgers, LedgerType

\* What record_provider_usage leaves alone.
LEMMA UsageRecorded ==
    ASSUME NEW l \in Ledgers, NEW usage \in Nat \cup {Unknown}, CanRecordUsage(l, usage),
           l.tokens <= TokenCeiling
    PROVE  LET m == RecordUsage(l, usage)
           IN /\ m \in Ledgers /\ SameCounts(l, m) /\ SameRepairs(l, m)
              /\ m.training = l.training /\ m.retries = l.retries
              /\ m.tokens <= TokenCeiling /\ m.seed_evaluations = l.seed_evaluations
  <1>1. RecordUsage(l, usage) \in Ledgers
    BY EngineAssumption, RecordOneType
  <1> QED BY <1>1 DEF RecordUsage, CanRecordUsage, SameCounts, SameRepairs, Ledgers, LedgerType

\* What record_parse_failure leaves alone.
LEMMA ParseFailureRecorded ==
    ASSUME NEW l \in Ledgers
    PROVE  LET m == RecordParseFailure(l)
           IN /\ m \in Ledgers /\ SameCounts(l, m)
              /\ m.repairs = l.repairs /\ m.repairs_total = l.repairs_total
              /\ m.parse_failures = l.parse_failures + 1
              /\ m.training = l.training /\ m.retries = l.retries
              /\ m.tokens = l.tokens /\ m.seed_evaluations = l.seed_evaluations
  BY DEF RecordParseFailure, SameCounts, Ledgers, LedgerType

\* What record_repair leaves alone, and that it stays under its ceilings.
LEMMA RepairRecorded ==
    ASSUME NEW l \in Ledgers, CanRepair(l), l.active \in Opportunities,
           l.repairs_total = SumFunction(l.repairs),
           \A i \in Opportunities : l.repairs[i] <= RepairsPerOpportunity
    PROVE  LET m == RecordRepair(l)
           IN /\ m \in Ledgers /\ SameCounts(l, m)
              /\ m.repairs_total = l.repairs_total + 1
              /\ m.repairs_total = SumFunction(m.repairs)
              /\ m.repairs_total <= RepairCeiling
              /\ m.repairs[l.active] = l.repairs[l.active] + 1
              /\ \A i \in Opportunities : i # l.active => m.repairs[i] = l.repairs[i]
              /\ \A i \in Opportunities : m.repairs[i] <= RepairsPerOpportunity
              /\ m.parse_failures = l.parse_failures
              /\ m.training = l.training /\ m.retries = l.retries
              /\ m.tokens = l.tokens /\ m.seed_evaluations = l.seed_evaluations
  <1> DEFINE m == RecordRepair(l)
             f == [l.repairs EXCEPT ![l.active] = l.repairs[l.active] + 1]
  <1>1. /\ l.repairs \in [Opportunities -> Nat] /\ l.repairs_total \in Nat
        /\ \A i \in Opportunities : l.repairs[i] \in Nat
    BY LedgerNumbers
  <1>2. m \in Ledgers
    BY RecordRepairType
  <1>3. /\ m.repairs = f /\ m.repairs_total = l.repairs_total + 1
        /\ SameCounts(l, m) /\ m.parse_failures = l.parse_failures
        /\ m.training = l.training /\ m.retries = l.retries
        /\ m.tokens = l.tokens /\ m.seed_evaluations = l.seed_evaluations
    BY DEF RecordRepair, SameCounts, Ledgers, LedgerType
  <1>4. SumFunction(f) = SumFunction(l.repairs) + 1
    BY <1>1, SumOfOneMore
  <1>5. /\ f[l.active] = l.repairs[l.active] + 1
        /\ \A i \in Opportunities : i # l.active => f[i] = l.repairs[i]
    BY <1>1
  <1>6. l.repairs[l.active] + 1 <= RepairsPerOpportunity /\ l.repairs_total + 1 <= RepairCeiling
    BY <1>1, BudgetAssumption DEF CanRepair
  <1> HIDE DEF m, f
  <1>7. \A i \in Opportunities : f[i] <= RepairsPerOpportunity
    BY <1>5, <1>6
  <1> QED BY <1>2, <1>3, <1>4, <1>5, <1>6, <1>7 DEF m

\* A ledger with the repairs of a valid one is under the ceilings if its other
\* counters are.
LEMMA CeilingsKept ==
    ASSUME NEW l, NEW m, UnderCeilings(l), SameRepairs(l, m),
           m.seed_evaluations <= 1, m.tokens <= TokenCeiling,
           m.training <= TrainingCeiling, m.retries <= RetryCeiling
    PROVE  UnderCeilings(m)
  BY DEF UnderCeilings, SameRepairs

\* A course that touches no repair and no proposal.
LEMMA PlainCourse ==
    ASSUME RunInv, pc \in Holding, NEW l \in Ledgers, NEW a \in ActiveType,
           SameCounts(disk.ledger, l), SameRepairs(disk.ledger, l), UnderCeilings(l),
           SameOpportunity(disk.active, a), Grounded(a, l), a.repairs = disk.active.repairs,
           a.proposal \in Garbage <=> disk.active.proposal \in Garbage
    PROVE  Course(l, a)
  BY HeldSound
     DEF ValidState, SameOpportunity, SameRepairs, StateReconstructs,
         LedgerReconstructs, Course

-----------------------------------------------------------------------------
\* The step spends so much training and so many retries, and closes nothing.
Spent(n, r) ==
    /\ disk'.terminal = disk.terminal
    /\ disk'.ledger.training = disk.ledger.training + n
    /\ disk'.ledger.retries = disk.ledger.retries + r

\* A write of a course that spends n and r.
LEMMA CourseSpent ==
    ASSUME RunInv, pc \in Holding, NEW l \in Ledgers, NEW a \in ActiveType,
           NEW b \in BOOLEAN, Course(l, a), requests' = requests,
           Persist([disk EXCEPT !.ledger = l, !.active = a, !.seeded = b], "running"),
           NEW n, NEW r, l.training = disk.ledger.training + n,
           l.retries = disk.ledger.retries + r
    PROVE  WriteOwes /\ pc' = "running" /\ Spent(n, r)
  <1>1. /\ WriteOwes /\ pc' = "running"
        /\ disk' = [disk EXCEPT !.ledger = l, !.active = a, !.seeded = b]
    BY CoursePersisted
  <1>2. disk'.ledger = l /\ disk'.terminal = disk.terminal
    BY <1>1, HeldSound DEF StateType
  <1> QED BY <1>1, <1>2 DEF Spent

\* The seed's result is written for what it consumed.
LEMMA SeedResultWritten ==
    ASSUME RunInv, RecordSeedResult
    PROVE  WriteOwes /\ pc' = "running" /\ Spent(result.training, result.retries)
  <1> DEFINE l == RecordSeed(disk.ledger, result.training, result.retries)
             a == disk.active
  <1>1. pc \in Holding /\ requests' = requests
    BY DEF RecordSeedResult, Holding, ghosts
  <1>2. /\ mem = disk /\ disk \in StateType
        /\ disk.ledger \in Ledgers /\ a \in ActiveType
        /\ UnderCeilings(disk.ledger) /\ Grounded(a, disk.ledger)
    BY <1>1, HeldSound
  <1>3. result \in Results
    BY <1>1, HeldState DEF RunInv, EngineInv, StoredInv, EvaluationHasCandidate,
                           RecordSeedResult
  <1>4. result.training \in Nat /\ result.retries \in Nat
    BY <1>3 DEF Results
  <1>5. l \in Ledgers
    BY <1>2, <1>4, RecordSeedType
  <1>6. /\ SameCounts(disk.ledger, l) /\ SameRepairs(disk.ledger, l)
        /\ l.training = disk.ledger.training + result.training
        /\ l.retries = disk.ledger.retries + result.retries
        /\ l.tokens = disk.ledger.tokens
        /\ l.seed_evaluations = disk.ledger.seed_evaluations + 1
    BY <1>2, <1>4, EvaluationRecorded
  <1>7. CanRecordSeed(disk.ledger, result.training, result.retries)
    BY <1>2 DEF RecordSeedResult
  <1>8. Persist([disk EXCEPT !.ledger = l, !.active = a, !.seeded = TRUE], "running")
    BY <1>2 DEF StateType, RecordSeedResult
  <1> HIDE DEF l
  <1>9. UnderCeilings(l)
    BY <1>2, <1>6, <1>7, CeilingsKept DEF CanRecordSeed, UnderCeilings
  <1>10. Grounded(a, l)
    BY <1>2, <1>6 DEF Grounded, SameCounts
  <1>11. Course(l, a)
    BY <1>1, <1>2, <1>5, <1>6, <1>9, <1>10, PlainCourse DEF SameOpportunity
  <1> QED BY <1>1, <1>2, <1>5, <1>6, <1>8, <1>11, CourseSpent

\* A retry is written, and counted.
LEMMA RetryWritten ==
    ASSUME RunInv, ProviderRetry \/ (EvaluatorFails /\ CanRetry(mem.ledger))
    PROVE  WriteOwes /\ pc' = "running" /\ Spent(0, 1)
  <1> DEFINE l == RecordRetry(disk.ledger)
             a == disk.active
  <1>1. pc \in Holding /\ requests' = requests
    BY DEF ProviderRetry, EvaluatorFails, Holding, ghosts
  <1>2. /\ mem = disk /\ disk \in StateType
        /\ disk.ledger \in Ledgers /\ a \in ActiveType
        /\ UnderCeilings(disk.ledger) /\ Grounded(a, disk.ledger)
        /\ disk.seeded \in BOOLEAN
    BY <1>1, HeldSound, StateNumbers
  <1>3. l \in Ledgers
    BY <1>2, EngineAssumption, RecordOneType
  <1>4. /\ SameCounts(disk.ledger, l) /\ SameRepairs(disk.ledger, l)
        /\ l.training = disk.ledger.training /\ l.retries = disk.ledger.retries + 1
        /\ l.tokens = disk.ledger.tokens
        /\ l.seed_evaluations = disk.ledger.seed_evaluations
    BY <1>2, RetryRecorded
  <1>5. disk.ledger.retries < RetryCeiling
    BY <1>2 DEF ProviderRetry, CanRetry
  <1>6. Persist([disk EXCEPT !.ledger = l, !.active = a, !.seeded = disk.seeded], "running")
    BY <1>2 DEF StateType, ProviderRetry, EvaluatorFails
  <1> HIDE DEF l
  <1>7. disk.ledger.retries \in Nat /\ disk.ledger.training \in Nat
    BY <1>2, LedgerNumbers
  <1>8. UnderCeilings(l)
    BY <1>2, <1>4, <1>5, <1>7, BudgetAssumption, CeilingsKept DEF UnderCeilings
  <1>9. Grounded(a, l)
    BY <1>2, <1>4 DEF Grounded, SameCounts
  <1>10. Course(l, a)
    BY <1>1, <1>2, <1>3, <1>4, <1>8, <1>9, PlainCourse DEF SameOpportunity
  <1>11. l.training = disk.ledger.training + 0
    BY <1>4, <1>7
  <1> QED BY <1>1, <1>2, <1>3, <1>4, <1>6, <1>10, <1>11, CourseSpent

\* A candidate is written with its source in the ledger.
LEMMA CandidateWritten ==
    ASSUME RunInv, IdentifyCandidate
    PROVE  WriteOwes /\ pc' = "running" /\ Spent(0, 0)
  <1> DEFINE c == disk.active.proposal
             l == RecordSource(disk.ledger, c)
             a == [disk.active EXCEPT !.candidate = c]
  <1>1. pc \in Holding /\ requests' = requests
    BY DEF IdentifyCandidate, Answered, Ready, Holding, ghosts
  <1>2. /\ mem = disk /\ disk \in StateType
        /\ disk.ledger \in Ledgers /\ disk.active \in ActiveType
        /\ UnderCeilings(disk.ledger) /\ Grounded(disk.active, disk.ledger)
        /\ disk.seeded \in BOOLEAN
    BY <1>1, HeldSound, StateNumbers
  <1>3. c \in Sources /\ c # None /\ disk.active.index # NoIndex
    BY <1>2, EngineAssumption DEF IdentifyCandidate, Answered
  <1>4. l \in Ledgers
    BY <1>2, <1>3, EngineAssumption, RecordOneType
  <1>5. /\ SameCounts(disk.ledger, l) /\ SameRepairs(disk.ledger, l) /\ c \in l.sources
        /\ l.training = disk.ledger.training /\ l.retries = disk.ledger.retries
        /\ l.tokens = disk.ledger.tokens
        /\ l.seed_evaluations = disk.ledger.seed_evaluations
    BY <1>2, SourceRecorded
  <1>6. /\ a \in ActiveType /\ SameOpportunity(disk.active, a)
        /\ a.repairs = disk.active.repairs /\ a.proposal = disk.active.proposal
        /\ a.candidate = c /\ a.evaluation = disk.active.evaluation
    BY <1>2, <1>3 DEF ActiveType, SameOpportunity
  <1>7. Persist([disk EXCEPT !.ledger = l, !.active = a, !.seeded = disk.seeded], "running")
    BY <1>2 DEF StateType, IdentifyCandidate, ActiveType
  <1> HIDE DEF l, a
  <1>8. UnderCeilings(l)
    BY <1>2, <1>5, CeilingsKept DEF UnderCeilings
  <1>9. Grounded(a, l)
    BY <1>2, <1>3, <1>5, <1>6 DEF Grounded, SameOpportunity
  <1>10. Course(l, a)
    BY <1>1, <1>2, <1>4, <1>5, <1>6, <1>8, <1>9, PlainCourse
  <1>11. l.training = disk.ledger.training + 0 /\ l.retries = disk.ledger.retries + 0
    BY <1>2, <1>5, LedgerNumbers
  <1> QED BY <1>1, <1>2, <1>4, <1>6, <1>7, <1>10, <1>11, CourseSpent

\* A candidate's result is written for what it consumed.
LEMMA ResultWritten ==
    ASSUME RunInv, RecordResult
    PROVE  WriteOwes /\ pc' = "running" /\ Spent(result.training, result.retries)
  <1> DEFINE l == RecordEvaluation(disk.ledger, result.training, result.retries)
             a == [disk.active EXCEPT !.evaluation = result.outcome]
  <1>1. pc \in Holding /\ requests' = requests
    BY DEF RecordResult, Holding, ghosts
  <1>2. /\ mem = disk /\ disk \in StateType
        /\ disk.ledger \in Ledgers /\ disk.active \in ActiveType
        /\ UnderCeilings(disk.ledger) /\ Grounded(disk.active, disk.ledger)
        /\ disk.seeded \in BOOLEAN
    BY <1>1, HeldSound, StateNumbers
  <1>3. result \in Results
    BY <1>1, HeldState DEF RunInv, EngineInv, StoredInv, EvaluationHasCandidate,
                           RecordResult
  <1>4. /\ result.training \in Nat /\ result.retries \in Nat
        /\ result.outcome \in Outcomes /\ result.outcome # "invalid"
    BY <1>3 DEF Results
  <1>5. l \in Ledgers
    BY <1>2, <1>4, RecordEvaluationType
  <1>6. /\ SameCounts(disk.ledger, l) /\ SameRepairs(disk.ledger, l)
        /\ l.training = disk.ledger.training + result.training
        /\ l.retries = disk.ledger.retries + result.retries
        /\ l.tokens = disk.ledger.tokens
        /\ l.seed_evaluations = disk.ledger.seed_evaluations
    BY <1>2, <1>4, EvaluationRecorded
  <1>7. CanRecordEvaluation(disk.ledger, result.training, result.retries)
    BY <1>2 DEF RecordResult
  <1>8. /\ a \in ActiveType /\ SameOpportunity(disk.active, a)
        /\ a.repairs = disk.active.repairs /\ a.proposal = disk.active.proposal
        /\ a.candidate = disk.active.candidate /\ a.evaluation = result.outcome
    BY <1>2, <1>4 DEF ActiveType, SameOpportunity
  <1>9. disk.active.index # NoIndex
    BY DEF RecordResult, RunInv, EngineInv, PlaceIsStored
  <1>10. Persist([disk EXCEPT !.ledger = l, !.active = a, !.seeded = disk.seeded], "running")
    BY <1>2 DEF StateType, RecordResult, ActiveType
  <1> HIDE DEF l, a
  <1>11. UnderCeilings(l)
    BY <1>2, <1>6, <1>7, CeilingsKept DEF UnderCeilings, CanRecordEvaluation
  <1>12. Grounded(a, l)
    BY <1>2, <1>4, <1>6, <1>8, <1>9 DEF Grounded, SameOpportunity, SameCounts
  <1>13. Course(l, a)
    BY <1>1, <1>2, <1>5, <1>6, <1>8, <1>11, <1>12, PlainCourse
  <1> QED BY <1>1, <1>2, <1>5, <1>6, <1>8, <1>10, <1>13, CourseSpent

-----------------------------------------------------------------------------
\* The invalid outcomes can be counted.
LEMMA InvalidCountType ==
    ASSUME NEW s \in StateType
    PROVE  InvalidCount(s) \in Nat
  <1> DEFINE S == {i \in 1 .. Len(s.terminal) : s.terminal[i].outcome = "invalid"}
  <1>1. IsFiniteSet(1 .. Len(s.terminal))
    BY StateNumbers, FS_Interval
  <1>2. S \in SUBSET (1 .. Len(s.terminal))
    OBVIOUS
  <1> HIDE DEF S
  <1>3. IsFiniteSet(S)
    BY <1>1, <1>2, FS_Subset
  <1>4. Cardinality(S) \in Nat
    BY <1>3, FS_CardinalityType
  <1> QED BY <1>4 DEF InvalidCount, S

\* What a process that awaits an answer starts from.
LEMMA Awaiting ==
    ASSUME RunInv, pc = "await"
    PROVE  /\ mem = disk /\ disk \in StateType /\ pc \in Holding
           /\ disk.ledger \in Ledgers /\ disk.active \in ActiveType
           /\ disk.seeded \in BOOLEAN
           /\ disk.active.index \in Opportunities /\ disk.active.index # NoIndex
           /\ disk.ledger.active = disk.active.index
           /\ disk.active.repairs = disk.ledger.repairs[disk.active.index]
           /\ disk.active.proposal = None /\ disk.active.candidate = None
           /\ disk.active.evaluation # "invalid"
           /\ <<disk.active.index, disk.active.attempts>> \in requests
           /\ UnderCeilings(disk.ledger)
           /\ disk.ledger.parse_failures = disk.ledger.repairs_total + InvalidCount(disk)
  BY HeldSound, StateNumbers, EngineAssumption, InvalidCountType, LedgerNumbers
     DEF Holding, StateReconstructs, RunInv, EngineInv, PlaceIsStored, ActiveIsGrounded,
         ValidState, LedgerReconstructs

\* An answer with a candidate is written as the proposal.
LEMMA ParsedWritten ==
    ASSUME RunInv, NEW text \in Texts, NEW usage \in Usages, AnswerParses(text, usage)
    PROVE  WriteOwes /\ pc' = "running" /\ Spent(0, 0)
  <1> DEFINE l == RecordUsage(disk.ledger, usage)
             a == [disk.active EXCEPT !.proposal = text]
  <1>1. pc = "await" /\ requests' = requests
    BY DEF AnswerParses, ghosts
  <1>2. /\ mem = disk /\ disk \in StateType /\ pc \in Holding
        /\ disk.ledger \in Ledgers /\ disk.active \in ActiveType
        /\ disk.seeded \in BOOLEAN /\ disk.active.index # NoIndex
        /\ disk.active.proposal = None /\ disk.active.candidate = None
        /\ disk.active.evaluation # "invalid"
        /\ <<disk.active.index, disk.active.attempts>> \in requests
        /\ UnderCeilings(disk.ledger)
    BY <1>1, Awaiting
  <1>3. /\ text \in Sources /\ text \notin Garbage /\ None \notin Garbage
        /\ CanRecordUsage(disk.ledger, usage) /\ usage \in Nat \cup {Unknown}
    BY <1>2, EngineAssumption DEF AnswerParses
  <1>4. /\ l \in Ledgers /\ SameCounts(disk.ledger, l) /\ SameRepairs(disk.ledger, l)
        /\ l.training = disk.ledger.training /\ l.retries = disk.ledger.retries
        /\ l.tokens <= TokenCeiling
        /\ l.seed_evaluations = disk.ledger.seed_evaluations
    BY <1>2, <1>3, UsageRecorded DEF UnderCeilings
  <1>5. /\ a \in ActiveType /\ SameOpportunity(disk.active, a)
        /\ a.repairs = disk.active.repairs /\ a.proposal = text
        /\ a.candidate = disk.active.candidate /\ a.evaluation = disk.active.evaluation
    BY <1>2 DEF ActiveType, SameOpportunity
  <1>6. Persist([disk EXCEPT !.ledger = l, !.active = a, !.seeded = disk.seeded], "running")
    BY <1>2 DEF StateType, AnswerParses
  <1> HIDE DEF l, a
  <1>7. UnderCeilings(l)
    BY <1>2, <1>4, CeilingsKept DEF UnderCeilings
  <1>8. Grounded(a, l)
    BY <1>2, <1>5 DEF Grounded, SameOpportunity
  <1>9. Course(l, a)
    BY <1>2, <1>3, <1>4, <1>5, <1>7, <1>8, PlainCourse
  <1>10. l.training = disk.ledger.training + 0 /\ l.retries = disk.ledger.retries + 0
    BY <1>2, <1>4, LedgerNumbers
  <1> QED BY <1>1, <1>2, <1>4, <1>5, <1>6, <1>9, <1>10, CourseSpent

\* An answer without a candidate: its parse failure is matched by a repair, or
\* by the proposal that will end as invalid.
LEMMA UnparsedWritten ==
    ASSUME RunInv, NEW text \in Texts, NEW usage \in Usages, AnswerUnparsed(text, usage)
    PROVE  WriteOwes /\ pc' = "running" /\ Spent(0, 0)
  <1> DEFINE u == RecordUsage(disk.ledger, usage)
             l == RecordParseFailure(u)
             m == RecordRepair(l)
             x == disk.active.index
  <1>1. pc = "await" /\ requests' = requests
    BY DEF AnswerUnparsed, ghosts
  <1>2. /\ mem = disk /\ disk \in StateType /\ pc \in Holding
        /\ disk.ledger \in Ledgers /\ disk.active \in ActiveType
        /\ disk.seeded \in BOOLEAN /\ x \in Opportunities /\ x # NoIndex
        /\ disk.ledger.active = x
        /\ disk.active.repairs = disk.ledger.repairs[x]
        /\ disk.active.proposal = None /\ disk.active.candidate = None
        /\ disk.active.evaluation # "invalid"
        /\ <<x, disk.active.attempts>> \in requests
        /\ UnderCeilings(disk.ledger)
        /\ disk.ledger.parse_failures = disk.ledger.repairs_total + InvalidCount(disk)
    BY <1>1, Awaiting
  <1>3. /\ text \in Garbage /\ None \notin Garbage /\ text # None
        /\ CanRecordUsage(disk.ledger, usage) /\ usage \in Nat \cup {Unknown}
    BY <1>2, EngineAssumption DEF AnswerUnparsed
  <1>4. /\ u \in Ledgers /\ SameCounts(disk.ledger, u) /\ SameRepairs(disk.ledger, u)
        /\ u.training = disk.ledger.training /\ u.retries = disk.ledger.retries
        /\ u.tokens <= TokenCeiling
        /\ u.seed_evaluations = disk.ledger.seed_evaluations
    BY <1>2, <1>3, UsageRecorded DEF UnderCeilings
  <1>5. AnswerUnparsed(text, usage) =>
          IF disk.active.attempts < ProviderAttempts /\ CanRepair(l)
            THEN Persist([disk EXCEPT !.ledger = m,
                                      !.active = [disk.active EXCEPT
                                        !.repairs = disk.active.repairs + 1,
                                        !.previous = text]], "running")
            ELSE Persist([disk EXCEPT !.ledger = l,
                                      !.active = [disk.active EXCEPT !.proposal = text]],
                         "running")
    BY <1>2 DEF AnswerUnparsed, StateType, ActiveType
  <1> HIDE DEF u
  <1>6. /\ l \in Ledgers /\ SameCounts(u, l)
        /\ l.repairs = u.repairs /\ l.repairs_total = u.repairs_total
        /\ l.parse_failures = u.parse_failures + 1
        /\ l.training = u.training /\ l.retries = u.retries
        /\ l.tokens = u.tokens /\ l.seed_evaluations = u.seed_evaluations
    BY <1>4, ParseFailureRecorded
  <1> HIDE DEF l
  <1>7. /\ SameCounts(disk.ledger, l) /\ UnderCeilings(l)
        /\ l.repairs = disk.ledger.repairs
        /\ l.repairs_total = disk.ledger.repairs_total
        /\ l.parse_failures = disk.ledger.repairs_total + InvalidCount(disk) + 1
        /\ l.active = x
    BY <1>4, <1>6, <1>2 DEF SameCounts, UnderCeilings, SameRepairs
  <1>8. /\ l.training = disk.ledger.training + 0 /\ l.retries = disk.ledger.retries + 0
        /\ l.repairs_total \in Nat /\ disk.ledger.repairs \in [Opportunities -> Nat]
    BY <1>2, <1>4, <1>6, LedgerNumbers
  <1>9. CASE disk.active.attempts < ProviderAttempts /\ CanRepair(l)
    <2> DEFINE a == [disk.active EXCEPT !.repairs = disk.active.repairs + 1,
                                        !.previous = text]
    <2>1. /\ m \in Ledgers /\ SameCounts(l, m)
          /\ m.repairs_total = l.repairs_total + 1
          /\ m.repairs_total = SumFunction(m.repairs)
          /\ m.repairs_total <= RepairCeiling
          /\ m.repairs[x] = l.repairs[x] + 1
          /\ \A i \in Opportunities : i # x => m.repairs[i] = l.repairs[i]
          /\ \A i \in Opportunities : m.repairs[i] <= RepairsPerOpportunity
          /\ m.parse_failures = l.parse_failures
          /\ m.training = l.training /\ m.retries = l.retries
          /\ m.tokens = l.tokens /\ m.seed_evaluations = l.seed_evaluations
      BY <1>2, <1>6, <1>7, <1>9, RepairRecorded DEF UnderCeilings
    <2>2. /\ a \in ActiveType /\ SameOpportunity(disk.active, a)
          /\ a.repairs = disk.active.repairs + 1 /\ a.proposal = None
          /\ a.candidate = None /\ a.evaluation = disk.active.evaluation
      <3>1. disk.active.repairs + 1 \in Nat
        BY <1>2 DEF ActiveType
      <3> QED BY <1>2, <1>3, <3>1 DEF ActiveType, SameOpportunity
    <2>3. Persist([disk EXCEPT !.ledger = m, !.active = a, !.seeded = disk.seeded], "running")
      BY <1>2, <1>5, <1>9 DEF StateType
    <2> HIDE DEF m, a
    <2>4. UnderCeilings(m)
      BY <1>7, <2>1 DEF UnderCeilings
    <2>5. SameCounts(disk.ledger, m) /\ Grounded(a, m)
      BY <1>2, <1>7, <2>1, <2>2 DEF SameCounts, Grounded, SameOpportunity
    <2>6. m.parse_failures =
            m.repairs_total + InvalidCount(disk) + (IF a.proposal \in Garbage THEN 1 ELSE 0)
      BY <1>3, <1>7, <2>1, <2>2, <1>2, InvalidCountType, <1>8
    <2>7. Course(m, a)
      BY <1>2, <1>7, <2>1, <2>2, <2>4, <2>5, <2>6 DEF Course, SameOpportunity
    <2> QED BY <1>1, <1>2, <1>8, <2>1, <2>2, <2>3, <2>7, CourseSpent
  <1>10. CASE ~(disk.active.attempts < ProviderAttempts /\ CanRepair(l))
    <2> DEFINE a == [disk.active EXCEPT !.proposal = text]
    <2>1. /\ a \in ActiveType /\ SameOpportunity(disk.active, a)
          /\ a.repairs = disk.active.repairs /\ a.proposal = text
          /\ a.candidate = None /\ a.evaluation = disk.active.evaluation
      BY <1>2, <1>3 DEF ActiveType, SameOpportunity
    <2>2. Persist([disk EXCEPT !.ledger = l, !.active = a, !.seeded = disk.seeded], "running")
      BY <1>2, <1>5, <1>10 DEF StateType
    <2> HIDE DEF a
    <2>3. Grounded(a, l)
      BY <1>2, <2>1 DEF Grounded, SameOpportunity
    <2>4. Course(l, a)
      BY <1>2, <1>3, <1>7, <2>1, <2>3 DEF Course, SameOpportunity
    <2> QED BY <1>1, <1>2, <1>6, <1>8, <2>1, <2>2, <2>4, CourseSpent
  <1> QED BY <1>9, <1>10

\* The steps that charge the ledger and leave the opportunity as it is open.
LEMMA AnswerWritten ==
    ASSUME RunInv, ProviderAnswers
    PROVE  WriteOwes /\ pc' = "running" /\ Spent(0, 0)
  BY ParsedWritten, UnparsedWritten DEF ProviderAnswers

-----------------------------------------------------------------------------
\* A provider attempt that is consumed: one more in the sum and in the family.
LEMMA AttemptCounted ==
    ASSUME NEW l \in Ledgers, ValidLedger(l), CanStartAttempt(l)
    PROVE  LET m == StartAttempt(l)
           IN /\ m \in Ledgers /\ ValidLedger(m) /\ TerminalCount(m) = TerminalCount(l)
              /\ m.proposals = l.proposals /\ m.outcomes = l.outcomes
              /\ m.active = l.active /\ m.sources = l.sources
              /\ m.repairs = l.repairs /\ m.repairs_total = l.repairs_total
              /\ m.parse_failures = l.parse_failures
              /\ m.training = l.training /\ m.retries = l.retries
              /\ m.attempts[l.active] = l.attempts[l.active] + 1
              /\ \A i \in Opportunities : i # l.active => m.attempts[i] = l.attempts[i]
  <1> DEFINE m == StartAttempt(l)
             f == [l.attempts EXCEPT ![l.active] = l.attempts[l.active] + 1]
  <1>1. /\ l.active \in Opportunities /\ l.attempts[l.active] < ProviderAttempts
        /\ l.attempts \in [Opportunities -> Nat]
        /\ \A i \in Opportunities : l.attempts[i] \in Nat
    BY LedgerNumbers DEF CanStartAttempt
  <1>2. /\ m.attempts = f /\ m.attempts_total = l.attempts_total + 1
        /\ m.proposals = l.proposals /\ m.outcomes = l.outcomes
        /\ m.active = l.active /\ m.sources = l.sources
        /\ m.repairs = l.repairs /\ m.repairs_total = l.repairs_total
        /\ m.parse_failures = l.parse_failures /\ m.tokens = l.tokens
        /\ m.training = l.training /\ m.retries = l.retries
        /\ m.seed_evaluations = l.seed_evaluations
    BY DEF StartAttempt, Ledgers, LedgerType
  <1>3. m \in Ledgers
    BY StartAttemptType
  <1>4. SumFunction(f) = SumFunction(l.attempts) + 1
    BY <1>1, SumOfOneMore
  <1>5. /\ f[l.active] = l.attempts[l.active] + 1
        /\ \A i \in Opportunities : i # l.active => f[i] = l.attempts[i]
    BY <1>1
  <1> HIDE DEF m, f
  <1>6. \A i \in Opportunities : f[i] <= ProviderAttempts
    BY <1>1, <1>5, BudgetAssumption DEF ValidLedger
  <1>7. TerminalCount(m) = TerminalCount(l)
    BY <1>2 DEF TerminalCount
  <1>8. ValidLedger(m)
    BY <1>2, <1>4, <1>6, <1>7 DEF ValidLedger
  <1> QED BY <1>2, <1>3, <1>5, <1>7, <1>8 DEF m

\* An attempt is written before it is requested.
LEMMA AttemptWritten ==
    ASSUME RunInv, StartProviderAttempt
    PROVE  WriteOwes /\ pc' = "request" /\ Spent(0, 0)
  <1> DEFINE x == disk.active.index
             n == disk.ledger.attempts[x] + 1
             l == StartAttempt(disk.ledger)
             a == [disk.active EXCEPT !.attempts = n]
             s == [disk EXCEPT !.ledger = l, !.active = a]
  <1>1. /\ pc \in Holding /\ mem.active.index # NoIndex /\ requests' = requests
        /\ mem.active.proposal = None /\ CanStartAttempt(mem.ledger)
    BY DEF StartProviderAttempt, Proposing, Ready, Holding, ghosts
  <1>2. /\ mem = disk /\ disk \in StateType /\ disk.status = "running"
        /\ disk.ledger \in Ledgers /\ disk.active \in ActiveType
        /\ Len(disk.terminal) \in Nat
        /\ ValidState(disk) /\ ValidLedger(disk.ledger)
        /\ disk.ledger.active = x /\ Grounded(disk.active, disk.ledger)
        /\ x \in Opportunities \cup {NoIndex}
        /\ x # NoIndex => x = Len(disk.terminal) + 1
        /\ disk.ledger.proposals = Len(disk.terminal) + (IF x = NoIndex THEN 0 ELSE 1)
        /\ StateReconstructs /\ LedgerIsSound
    BY <1>1, HeldSound
  <1>3. /\ x \in Opportunities /\ x = Len(disk.terminal) + 1 /\ x # NoIndex
        /\ disk.ledger.proposals = x /\ disk.active.proposal = None
        /\ disk.active.candidate = None /\ disk.active.evaluation # "invalid"
    BY <1>1, <1>2 DEF Grounded
  <1>4. Persist(s, "request")
    BY <1>2 DEF StartProviderAttempt, StateType, ActiveType
  <1>5. /\ l \in Ledgers /\ ValidLedger(l)
        /\ TerminalCount(l) = TerminalCount(disk.ledger)
        /\ l.proposals = disk.ledger.proposals /\ l.outcomes = disk.ledger.outcomes
        /\ l.active = x /\ l.sources = disk.ledger.sources
        /\ l.repairs = disk.ledger.repairs /\ l.repairs_total = disk.ledger.repairs_total
        /\ l.parse_failures = disk.ledger.parse_failures
        /\ l.training = disk.ledger.training /\ l.retries = disk.ledger.retries
        /\ l.attempts[x] = n
        /\ \A i \in Opportunities : i # x => l.attempts[i] = disk.ledger.attempts[i]
    BY <1>1, <1>2, AttemptCounted
  <1>6. /\ a.index = x /\ a.attempts = n /\ a.parents = disk.active.parents
        /\ a.transition = disk.active.transition /\ a.repairs = disk.active.repairs
        /\ a.proposal = None /\ a.candidate = None
        /\ a.evaluation = disk.active.evaluation
    BY <1>2, <1>3 DEF ActiveType
  <1> HIDE DEF l, a, n
  <1>7. /\ s.ledger = l /\ s.active = a /\ s.status = disk.status
        /\ s.incumbent = disk.incumbent /\ s.portfolio = disk.portfolio
        /\ s.next = disk.next /\ s.terminal = disk.terminal
    BY <1>2 DEF StateType
  <1> HIDE DEF s
  <1>8. ValidState(s)
    BY <1>7, <1>2, <1>3, <1>5, <1>6 DEF ExpectedParents, ValidState
  <1>9. disk' = s /\ pc' = "request"
    BY <1>4, <1>8 DEF Persist
  <1>10. LedgerIsSound'
    BY BudgetAssumption, <1>2, <1>3, <1>5, <1>7, <1>9 DEF Opportunities, LedgerIsSound
  <1>11. ActiveIsGrounded'
    BY <1>3, <1>6, <1>7, <1>9 DEF ActiveIsGrounded
  <1>12. StateReconstructs'
    BY <1>2, <1>3, TerminalIndices, <1>1, <1>5, <1>6, <1>7, <1>9, ReconstructionKept
       DEF StateReconstructs, LedgerReconstructs
  <1>13. Spent(0, 0)
    BY <1>2, <1>5, <1>7, <1>9, LedgerNumbers DEF Spent
  <1> QED BY <1>9, <1>10, <1>11, <1>12, <1>13 DEF WriteOwes

\* The opportunity that is opened is the first for which nothing was counted.
LEMMA OpenWritten ==
    ASSUME RunInv, OpenOpportunity
    PROVE  WriteOwes /\ pc' = "running" /\ Spent(0, 0)
  <1> DEFINE x == disk.next
             l == Begin(disk.ledger, x)
             a == [NoOpportunity EXCEPT
                     !.index = x, !.parents = ExpectedParents(disk),
                     !.transition = x \in TransitionOpportunities]
             s == [disk EXCEPT !.ledger = l, !.active = a]
  <1>1. /\ pc \in Holding /\ mem.active.index = NoIndex /\ requests' = requests
        /\ CanBegin(mem.ledger, mem.next)
    BY DEF OpenOpportunity, Idle, Ready, Holding, ghosts
  <1>2. /\ mem = disk /\ disk \in StateType /\ disk.status = "running"
        /\ disk.ledger \in Ledgers /\ disk.active.index = NoIndex
        /\ Len(disk.terminal) \in Nat /\ x = Len(disk.terminal) + 1
        /\ ValidState(disk) /\ ValidLedger(disk.ledger)
        /\ disk.ledger.proposals = Len(disk.terminal)
        /\ disk.ledger.proposals < ProposalOpportunities
        /\ StateReconstructs /\ LedgerIsSound
    <2>1. /\ mem = disk /\ disk.active.index = NoIndex /\ Len(disk.terminal) \in Nat
          /\ disk.ledger.proposals =
               Len(disk.terminal) + (IF disk.active.index = NoIndex THEN 0 ELSE 1)
      BY <1>1, HeldSound
    <2>2. disk.ledger.proposals = Len(disk.terminal)
      BY <2>1
    <2> QED BY <1>1, <2>1, <2>2, HeldSound DEF CanBegin
  <1>3. x \in Opportunities /\ x # NoIndex /\ x > disk.ledger.proposals
    BY <1>2, BudgetAssumption DEF Opportunities, NoIndex
  <1>4. Persist(s, "running")
    BY <1>2 DEF OpenOpportunity, StateType
  <1>5. /\ l.proposals = disk.ledger.proposals + 1 /\ l.active = x
        /\ l.attempts = disk.ledger.attempts
        /\ l.attempts_total = disk.ledger.attempts_total
        /\ l.outcomes = disk.ledger.outcomes /\ l.sources = disk.ledger.sources
        /\ l.repairs = disk.ledger.repairs /\ l.repairs_total = disk.ledger.repairs_total
        /\ l.parse_failures = disk.ledger.parse_failures /\ l.tokens = disk.ledger.tokens
        /\ l.training = disk.ledger.training /\ l.retries = disk.ledger.retries
        /\ l.seed_evaluations = disk.ledger.seed_evaluations
    BY <1>2 DEF Begin, Ledgers, LedgerType
  <1>6. /\ a.index = x /\ a.parents = ExpectedParents(disk)
        /\ a.transition = (x \in TransitionOpportunities)
        /\ a.attempts = 0 /\ a.repairs = 0
        /\ a.proposal = None /\ a.candidate = None /\ a.evaluation = None
    BY DEF NoOpportunity
  <1> HIDE DEF l, a
  <1>7. /\ s.ledger = l /\ s.active = a /\ s.status = disk.status
        /\ s.incumbent = disk.incumbent /\ s.portfolio = disk.portfolio
        /\ s.next = disk.next /\ s.terminal = disk.terminal
    BY <1>2 DEF StateType
  <1>8. ExpectedParents(s) = ExpectedParents(disk)
    BY <1>7 DEF ExpectedParents
  <1> HIDE DEF s
  <1>9. TerminalCount(l) = TerminalCount(disk.ledger)
        /\ TerminalCount(disk.ledger) = Len(disk.terminal)
    BY <1>2, <1>5 DEF TerminalCount, ValidState
  <1>10. disk.ledger.attempts[x] = 0 /\ disk.ledger.repairs[x] = 0
    BY <1>2, <1>3 DEF LedgerIsSound
  <1>11. ValidState(s)
    BY <1>2, <1>5, <1>6, <1>7, <1>8, <1>9, <1>10 DEF ValidState
  <1>12. disk' = s /\ pc' = "running"
    BY <1>4, <1>11 DEF Persist
  <1>13. LedgerIsSound'
    <2>1. ValidLedger(l)
      BY <1>2, <1>3, <1>5, <1>9, BudgetAssumption DEF ValidLedger, NoIndex
    <2>2. \A i \in Opportunities : i > l.proposals => i > disk.ledger.proposals
      BY <1>2, <1>5, BudgetAssumption DEF Opportunities
    <2> QED BY <1>2, <1>5, <1>7, <1>12, <2>1, <2>2 DEF LedgerIsSound
  <1>14. ActiveIsGrounded'
    BY <1>3, <1>6, <1>7, <1>12, EngineAssumption DEF ActiveIsGrounded, Outcomes
  <1>15. StateReconstructs'
    BY <1>1, <1>2, HeldSound, <1>5, <1>6, <1>7, <1>12, ReconstructionKept
       DEF Grounded, NoOpportunity, StateReconstructs, LedgerReconstructs
  <1>16. Spent(0, 0)
    BY <1>2, <1>5, <1>7, <1>12, LedgerNumbers DEF Spent
  <1> QED BY <1>12, <1>13, <1>14, <1>15, <1>16 DEF WriteOwes

\* A run is completed when its opportunities are closed.
LEMMA CompleteWritten ==
    ASSUME RunInv, CompleteRun
    PROVE  WriteOwes /\ pc' = "exited" /\ Spent(0, 0)
  <1> DEFINE s == [disk EXCEPT !.status = "completed"]
  <1>1. /\ pc \in Holding /\ mem.active.index = NoIndex /\ requests' = requests
        /\ TerminalCount(mem.ledger) >= ProposalOpportunities
    BY DEF CompleteRun, Idle, Ready, Holding, ghosts
  <1>2. /\ mem = disk /\ disk \in StateType /\ disk.status = "running"
        /\ disk.ledger \in Ledgers /\ disk.active.index = NoIndex
        /\ ValidState(disk) /\ ValidLedger(disk.ledger)
        /\ disk.ledger.active = NoIndex
        /\ Grounded(disk.active, disk.ledger)
        /\ StateReconstructs /\ LedgerIsSound
    BY <1>1, HeldSound
  <1>3. Persist(s, "exited")
    BY <1>2 DEF CompleteRun
  <1>4. /\ s.ledger = disk.ledger /\ s.active = disk.active
        /\ s.status = "completed"
        /\ s.incumbent = disk.incumbent /\ s.portfolio = disk.portfolio
        /\ s.next = disk.next /\ s.terminal = disk.terminal
    BY <1>2 DEF StateType
  <1> HIDE DEF s
  <1>5. TerminalCount(disk.ledger) = ProposalOpportunities
    BY <1>2, LedgerNumbers, <1>1, BudgetAssumption DEF ValidLedger
  <1>6. ValidState(s)
    BY <1>2, <1>4, <1>5 DEF ValidState, ExpectedParents
  <1>7. disk' = s /\ pc' = "exited"
    BY <1>3, <1>6 DEF Persist
  <1>8. LedgerIsSound'
    BY <1>2, <1>4, <1>7 DEF LedgerIsSound
  <1>9. ActiveIsGrounded'
    BY <1>1, <1>2, <1>4, <1>7 DEF ActiveIsGrounded, Grounded
  <1>10. StateReconstructs'
    BY <1>2, <1>1, <1>4, <1>7, ReconstructionKept
       DEF StateReconstructs, LedgerReconstructs
  <1>11. Spent(0, 0)
    BY <1>2, <1>4, <1>7, LedgerNumbers DEF Spent
  <1> QED BY <1>7, <1>8, <1>9, <1>10, <1>11 DEF WriteOwes

\* The initial state is written only where nothing was stored.
LEMMA StartFreshWritten ==
    ASSUME RunInv, StartFresh
    PROVE  WriteOwes /\ pc' = "running" /\ Spent(0, 0)
  <1> DEFINE s == InitialState
  <1>1. disk = NoState /\ Persist(s, "running") /\ requests' = requests
    BY DEF StartFresh, RunInv, EngineInv, StoredIsValid, ghosts
  <1>2. /\ s.status = "running" /\ s.terminal = <<>> /\ s.ledger = EmptyLedger
        /\ s.active = NoOpportunity /\ s.next = 1
        /\ s.portfolio = <<Seed>> /\ s.incumbent = Seed
        /\ NoState.terminal = <<>> /\ NoState.ledger = EmptyLedger
    BY DEF InitialState, NoState
  <1>3. /\ NoOpportunity.index = NoIndex /\ NoOpportunity.proposal = None
        /\ NoOpportunity.candidate = None /\ NoOpportunity.evaluation = None
        /\ EmptyLedger.active = NoIndex /\ Len(<<>>) = 0
        /\ EmptyLedger.training = 0 /\ EmptyLedger.retries = 0
        /\ EmptyLedger.parse_failures = 0 /\ EmptyLedger.repairs_total = 0
        /\ EmptyLedger.outcomes = [o \in Outcomes |-> 0]
        /\ \A i \in Opportunities : EmptyLedger.attempts[i] = 0 /\ EmptyLedger.repairs[i] = 0
    BY DEF NoOpportunity, EmptyLedger
  <1> HIDE DEF s
  <1>4. ValidState(s)
    BY <1>2, <1>3, EmptyLedgerValid DEF ValidState
  <1>5. disk' = s /\ pc' = "running"
    BY <1>1, <1>4 DEF Persist
  <1>6. LedgerIsSound'
    BY <1>2, <1>3, <1>5, EmptyLedgerValid DEF LedgerIsSound
  <1>7. ActiveIsGrounded'
    BY <1>2, <1>3, <1>5, EngineAssumption DEF ActiveIsGrounded, Outcomes
  <1>8. ParentsReconstruct'
    <2>1. PortfolioAfter(<<>>)[0] = <<Seed>>
      <3>1. <<>> \in Seq({Seed}) /\ Seed \in {Seed}
        OBVIOUS
      <3> QED BY <3>1, PortfolioAppended
    <2>2. IncumbentAfter(<<>>, 0) = Seed
      BY DEF IncumbentAfter
    <2> QED BY <1>2, <1>3, <1>5, <2>1, <2>2 DEF ParentsReconstruct
  <1>9. LedgerReconstructs'
    <2>1. InvalidCount(s) = 0
      BY <1>2, <1>3, FS_EmptySet DEF InvalidCount
    <2>2. ASSUME NEW o \in Outcomes
          PROVE  Cardinality({i \in 1 .. Len(s.terminal) : s.terminal[i].outcome = o}) = 0
      BY <1>2, <1>3, FS_EmptySet
    <2>3. None \notin Garbage
      BY EngineAssumption
    <2>4. InvalidCount(disk)' = InvalidCount(s)
      BY <1>5 DEF InvalidCount
    <2>5. \A o \in Outcomes : disk'.ledger.outcomes[o] = 0
      BY <1>2, <1>3, <1>5
    <2>6. /\ Len(disk'.terminal) = 0 /\ disk'.active.proposal = None
          /\ disk'.ledger.parse_failures = 0 /\ disk'.ledger.repairs_total = 0
      BY <1>2, <1>3, <1>5
    <2>7. \A o \in Outcomes :
            disk'.ledger.outcomes[o] =
              Cardinality({i \in 1 .. Len(disk'.terminal) : disk'.terminal[i].outcome = o})
      BY <1>5, <2>2, <2>5
    <2>8. disk'.ledger.parse_failures =
            disk'.ledger.repairs_total + InvalidCount(disk)'
              + (IF disk'.active.proposal \in Garbage THEN 1 ELSE 0)
      BY <2>1, <2>3, <2>4, <2>6
    <2> QED BY <2>6, <2>7, <2>8 DEF LedgerReconstructs
  <1>10. OutcomeGrounded'
    BY <1>2, <1>3, <1>5 DEF OutcomeGrounded
  <1>11. Spent(0, 0)
    BY <1>1, <1>2, <1>3, <1>5 DEF Spent
  <1>12. pc' # "rejected"
    BY <1>5
  <1> QED BY <1>5, <1>6, <1>7, <1>8, <1>9, <1>10, <1>11, <1>12
          DEF WriteOwes, StateReconstructs

-----------------------------------------------------------------------------
\* What _finish does to each field, for an opportunity that ends with the
\* outcome o at a stage, and what it may rest on.
LEMMA FinishFields ==
    ASSUME NEW s \in StateType, NEW o \in Outcomes, NEW stage \in Stages
    PROVE  LET r == [opportunity |-> s.active, outcome |-> o, stage |-> stage]
               t == Finish(s, s.ledger, o, stage)
           IN /\ r \in TerminalType
              /\ t.ledger = FinishOpportunity(s.ledger, o)
              /\ t.incumbent = IF o = "accepted" THEN s.active.candidate ELSE s.incumbent
              /\ t.portfolio = Joined(s.portfolio, r)
              /\ t.terminal = Append(s.terminal, r)
              /\ t.active = NoOpportunity /\ t.next = s.next + 1
              /\ t.status = s.status
  <1> DEFINE r == [opportunity |-> s.active, outcome |-> o, stage |-> stage]
  <1>1. r \in TerminalType
    BY StateNumbers DEF TerminalType
  <1> QED BY <1>1 DEF Finish, StateType, Joined

\* The grounds on which an opportunity may end.
MayEnd(a, o, stage) ==
    /\ a.index # NoIndex
    /\ stage = "evaluation" <=> a.evaluation # None
    /\ a.evaluation # None => a.evaluation = o /\ a.candidate # None
    /\ a.evaluation = None =>
         o = IF stage = "proposal_parse" THEN "invalid" ELSE "infrastructure_failure"
    /\ o = "invalid" <=> a.proposal \in Garbage

\* A closed opportunity leaves a valid run state and ledger.
LEMMA FinishedValid ==
    ASSUME RunInv, pc \in Holding, NEW o \in Outcomes, NEW stage \in Stages,
           disk.active.index # NoIndex
    PROVE  LET t == Finish(disk, disk.ledger, o, stage)
           IN /\ ValidState(t) /\ ValidLedger(t.ledger)
              /\ Len(t.terminal) = Len(disk.terminal) + 1
              /\ t.ledger.proposals = disk.ledger.proposals
              /\ t.ledger.attempts = disk.ledger.attempts
              /\ t.ledger.repairs = disk.ledger.repairs
              /\ t.ledger.repairs_total = disk.ledger.repairs_total
              /\ t.ledger.parse_failures = disk.ledger.parse_failures
              /\ t.ledger.sources = disk.ledger.sources
              /\ t.ledger.training = disk.ledger.training
              /\ t.ledger.retries = disk.ledger.retries
              /\ t.ledger.outcomes = [disk.ledger.outcomes EXCEPT
                                        ![o] = disk.ledger.outcomes[o] + 1]
  <1> DEFINE t == Finish(disk, disk.ledger, o, stage)
             m == FinishOpportunity(disk.ledger, o)
             l == disk.ledger
             n == Len(disk.terminal)
             q == [l.outcomes EXCEPT ![o] = l.outcomes[o] + 1]
  <1>1. /\ disk \in StateType /\ disk.status = "running" /\ l \in Ledgers
        /\ disk.terminal \in Seq(TerminalType) /\ n \in Nat
        /\ ValidLedger(l) /\ TerminalCount(l) = n /\ disk.next = n + 1
        /\ l.proposals = n + 1
    BY HeldSound
  <1>2. /\ t.ledger = m /\ t.active = NoOpportunity /\ t.next = n + 1 + 1
        /\ t.status = "running" /\ Len(t.terminal) = n + 1
    <2> DEFINE r == [opportunity |-> disk.active, outcome |-> o, stage |-> stage]
    <2>1. /\ t.ledger = m /\ t.active = NoOpportunity /\ t.next = disk.next + 1
          /\ t.status = disk.status /\ t.terminal = Append(disk.terminal, r)
          /\ r \in TerminalType
      BY <1>1, FinishFields
    <2> HIDE DEF t, r
    <2> QED BY <1>1, <2>1, AppendProperties
  <1>3. /\ TerminalCount(m) = n + 1
        /\ m = [l EXCEPT !.outcomes = q, !.active = NoIndex]
    BY <1>1, OneMoreOutcome
  <1> HIDE DEF t, m, q
  <1>4. /\ m.outcomes = q /\ m.active = NoIndex /\ m.proposals = l.proposals
        /\ m.attempts = l.attempts /\ m.attempts_total = l.attempts_total
        /\ m.repairs = l.repairs /\ m.repairs_total = l.repairs_total
        /\ m.parse_failures = l.parse_failures /\ m.sources = l.sources
        /\ m.training = l.training /\ m.retries = l.retries
        /\ m.tokens = l.tokens /\ m.seed_evaluations = l.seed_evaluations
    BY <1>1, <1>3 DEF Ledgers, LedgerType
  <1>5. ValidLedger(m)
    BY <1>1, <1>3, <1>4 DEF ValidLedger
  <1>6. ValidState(t)
    BY <1>2, <1>3, <1>4 DEF NoOpportunity, ValidState
  <1> QED BY <1>2, <1>4, <1>5, <1>6 DEF t, m, q

\* The closed opportunity is told by its terminal record.
LEMMA FinishedReconstructs ==
    ASSUME RunInv, pc \in Holding, NEW o \in Outcomes, NEW stage \in Stages,
           MayEnd(disk.active, o, stage), requests' = requests,
           disk' = Finish(disk, disk.ledger, o, stage)
    PROVE  StateReconstructs'
  <1> DEFINE t == disk.terminal
             n == Len(t)
             a == disk.active
             r == [opportunity |-> a, outcome |-> o, stage |-> stage]
             u == Append(t, r)
  <1>1. /\ disk \in StateType /\ t \in Seq(TerminalType) /\ n \in Nat
        /\ ValidState(disk) /\ Grounded(a, disk.ledger)
        /\ a.index = n + 1 /\ disk.ledger \in Ledgers
        /\ StateReconstructs /\ a.index \in Opportunities
    BY HeldSound DEF MayEnd
  <1>2. /\ r \in TerminalType
        /\ disk'.terminal = u /\ disk'.active = NoOpportunity
        /\ disk'.portfolio = Joined(disk.portfolio, r)
        /\ disk'.incumbent = IF o = "accepted" THEN a.candidate ELSE disk.incumbent
    BY <1>1, FinishFields
  <1>3. /\ disk'.ledger.attempts = disk.ledger.attempts
        /\ disk'.ledger.repairs = disk.ledger.repairs
        /\ disk'.ledger.repairs_total = disk.ledger.repairs_total
        /\ disk'.ledger.parse_failures = disk.ledger.parse_failures
        /\ disk'.ledger.sources = disk.ledger.sources
        /\ disk'.ledger.outcomes = [disk.ledger.outcomes EXCEPT
                                      ![o] = disk.ledger.outcomes[o] + 1]
    BY FinishedValid DEF MayEnd
  <1>4. r.opportunity = a /\ r.outcome = o /\ r.stage = stage
    OBVIOUS
  <1>5. /\ Len(u) = n + 1 /\ u[n + 1] = r
        /\ \A i \in 1 .. n : u[i] = t[i]
        /\ \A i \in 1 .. n + 1 : i \in 1 .. n \/ i = n + 1
    <2> HIDE DEF r
    <2> QED BY <1>1, <1>2, AppendProperties
  <1>6. /\ \A k \in 0 .. n : PortfolioAfter(u)[k] = PortfolioAfter(t)[k]
        /\ PortfolioAfter(u)[n + 1] = Joined(PortfolioAfter(t)[n], r)
        /\ \A k \in 0 .. n : IncumbentAfter(u, k) = IncumbentAfter(t, k)
        /\ IncumbentAfter(u, n + 1) = IF r.outcome = "accepted" THEN r.opportunity.candidate
                                      ELSE IncumbentAfter(t, n)
    <2> HIDE DEF r
    <2> QED BY <1>1, <1>2, PortfolioAppended, IncumbentAppended
  <1> HIDE DEF r, u
  <1>7. ParentsReconstruct'
    <2>1. /\ \A i \in 1 .. n : t[i].opportunity.parents =
                                 ParentsFrom(IncumbentAfter(t, i - 1), PortfolioAfter(t)[i - 1])
          /\ disk.portfolio = PortfolioAfter(t)[n]
          /\ disk.incumbent = IncumbentAfter(t, n)
      BY <1>1 DEF StateReconstructs, ParentsReconstruct
    <2>2. a.parents = ParentsFrom(IncumbentAfter(t, n), PortfolioAfter(t)[n])
      BY <1>1, <2>1 DEF ValidState, ExpectedParents, MayEnd
    <2>3. ASSUME NEW i \in 1 .. n + 1
          PROVE  u[i].opportunity.parents =
                   ParentsFrom(IncumbentAfter(u, i - 1), PortfolioAfter(u)[i - 1])
      <3>1. i - 1 \in 0 .. n
        BY <1>1
      <3>2. CASE i \in 1 .. n
        BY <1>5, <1>6, <2>1, <3>1, <3>2
      <3>3. CASE i = n + 1
        <4>1. i - 1 = n /\ n \in 0 .. n
          BY <1>1, <3>3
        <4> QED BY <1>4, <1>5, <1>6, <2>2, <3>3, <4>1
      <3> QED BY <1>5, <3>2, <3>3
    <2>4. disk'.portfolio = PortfolioAfter(u)[n + 1]
      BY <1>2, <1>6, <2>1
    <2>5. disk'.incumbent = IncumbentAfter(u, n + 1)
      BY <1>2, <1>4, <1>6, <2>1
    <2> HIDE DEF n, t
    <2> QED BY <1>2, <1>5, <2>3, <2>4, <2>5 DEF ParentsReconstruct
  <1>8. LedgerReconstructs'
    <2>1. LedgerReconstructs
      BY <1>1 DEF StateReconstructs
    <2>2. ASSUME NEW i \in 1 .. n + 1
          PROVE  /\ u[i].opportunity.index = i
                 /\ u[i].opportunity.attempts = disk.ledger.attempts[i]
                 /\ u[i].opportunity.repairs = disk.ledger.repairs[i]
      <3>1. CASE i \in 1 .. n
        BY <1>5, <2>1, <3>1 DEF LedgerReconstructs
      <3>2. CASE i = n + 1
        BY <1>1, <1>4, <1>5, <3>2 DEF ValidState, MayEnd
      <3> QED BY <1>5, <3>1, <3>2
    <2>3. ASSUME NEW p \in Outcomes
          PROVE  /\ Cardinality({i \in 1 .. n : t[i].outcome = p}) \in Nat
                 /\ Cardinality({i \in 1 .. n + 1 : u[i].outcome = p}) =
                      Cardinality({i \in 1 .. n : t[i].outcome = p})
                        + (IF p = o THEN 1 ELSE 0)
      <3> DEFINE K == {x \in TerminalType : x.outcome = p}
                 Of(v) == {i \in 1 .. Len(v) : v[i] \in K}
      <3>1. /\ Cardinality(Of(t)) \in Nat
            /\ Cardinality(Of(u)) = Cardinality(Of(t)) + (IF r \in K THEN 1 ELSE 0)
        <4> HIDE DEF K
        <4> QED BY <1>1, <1>2, CountAppended DEF u
      <3>2. r \in K <=> p = o
        BY <1>2, <1>4
      <3>3. /\ \A i \in 1 .. n : t[i] \in TerminalType
            /\ \A i \in 1 .. n + 1 : u[i] \in TerminalType
        <4>1. \A i \in 1 .. n : t[i] \in TerminalType
          BY <1>1, ElementOfSeq
        <4> QED BY <1>2, <1>5, <4>1
      <3>4. /\ Of(t) = {i \in 1 .. n : t[i].outcome = p}
            /\ Of(u) = {i \in 1 .. n + 1 : u[i].outcome = p}
        BY <1>5, <3>3
      <3> HIDE DEF Of, K
      <3> QED BY <3>1, <3>2, <3>4
    <2>4. ASSUME NEW p \in Outcomes
          PROVE  disk'.ledger.outcomes[p] = Cardinality({i \in 1 .. n + 1 : u[i].outcome = p})
      <3>1. /\ disk.ledger.outcomes \in [Outcomes -> Nat] /\ disk.ledger.outcomes[p] \in Nat
            /\ disk.ledger.outcomes[o] \in Nat
        BY <1>1, LedgerNumbers
      <3>2. disk'.ledger.outcomes[p] = disk.ledger.outcomes[p] + (IF p = o THEN 1 ELSE 0)
        BY <1>3, <3>1
      <3>3. disk.ledger.outcomes[p] = Cardinality({i \in 1 .. n : t[i].outcome = p})
        BY <2>1 DEF LedgerReconstructs
      <3> QED BY <2>3, <3>2, <3>3
    <2>5. /\ InvalidCount(disk) \in Nat
          /\ InvalidCount(disk)' = InvalidCount(disk) + (IF o = "invalid" THEN 1 ELSE 0)
      <3>1. "invalid" \in Outcomes
        BY DEF Outcomes
      <3>2. /\ InvalidCount(disk) = Cardinality({i \in 1 .. n : t[i].outcome = "invalid"})
            /\ InvalidCount(disk)' =
                 Cardinality({i \in 1 .. n + 1 : u[i].outcome = "invalid"})
        BY <1>2, <1>5 DEF InvalidCount
      <3> QED BY <2>3, <3>1, <3>2
    <2>6. disk'.ledger.parse_failures =
            disk'.ledger.repairs_total + InvalidCount(disk)'
              + (IF disk'.active.proposal \in Garbage THEN 1 ELSE 0)
      <3>1. disk'.active.proposal \notin Garbage
        BY <1>2, EngineAssumption DEF NoOpportunity
      <3>2. disk.ledger.parse_failures =
              disk.ledger.repairs_total + InvalidCount(disk)
                + (IF o = "invalid" THEN 1 ELSE 0)
        BY <2>1 DEF LedgerReconstructs, MayEnd
      <3>3. disk.ledger.repairs_total \in Nat
        BY <1>1, LedgerNumbers
      <3> QED BY <1>3, <2>5, <3>1, <3>2, <3>3
    <2> HIDE DEF n, t
    <2> QED BY <1>2, <1>3, <1>5, <2>2, <2>4, <2>6 DEF LedgerReconstructs
  <1>9. OutcomeGrounded'
    <2> DEFINE Told(i, x) ==
                 LET b == x.opportunity
                 IN /\ x.stage = "evaluation" <=> b.evaluation # None
                    /\ b.evaluation # None => /\ b.evaluation = x.outcome
                                              /\ b.candidate = b.proposal
                                              /\ b.candidate \in disk.ledger.sources
                    /\ b.evaluation = None =>
                         x.outcome = IF x.stage = "proposal_parse"
                                       THEN "invalid" ELSE "infrastructure_failure"
                    /\ b.proposal # None => <<i, b.attempts>> \in requests
    <2>1. \A i \in 1 .. n : Told(i, t[i])
      BY <1>1 DEF StateReconstructs, OutcomeGrounded
    <2>2. Told(n + 1, r)
      BY <1>1, <1>4 DEF Grounded, MayEnd
    <2> HIDE DEF Told
    <2>3. \A i \in 1 .. n + 1 : Told(i, u[i])
      BY <1>5, <2>1, <2>2
    <2> USE DEF Told
    <2> HIDE DEF n, t
    <2> QED BY <1>2, <1>3, <1>5, <2>3 DEF OutcomeGrounded
  <1> QED BY <1>7, <1>8, <1>9 DEF StateReconstructs

\* What the step that closes an opportunity does.
LEMMA FinishWritten ==
    ASSUME RunInv, pc \in Holding, NEW o \in Outcomes, NEW stage \in Stages,
           MayEnd(disk.active, o, stage), requests' = requests,
           Persist(Finish(disk, disk.ledger, o, stage), "running")
    PROVE  /\ WriteOwes /\ pc' = "running"
           /\ disk'.ledger.training = disk.ledger.training
           /\ disk'.ledger.retries = disk.ledger.retries
           /\ RetryExhaustions(disk) \in Nat
           /\ RetryExhaustions(disk)' =
                RetryExhaustions(disk)
                  + (IF stage = "infrastructure_retry_budget_exhausted" THEN 1 ELSE 0)
  <1> DEFINE s == Finish(disk, disk.ledger, o, stage)
             r == [opportunity |-> disk.active, outcome |-> o, stage |-> stage]
  <1>1. ValidState(s)
    BY FinishedValid DEF MayEnd
  <1>2. disk' = s /\ pc' = "running"
    BY <1>1 DEF Persist
  <1>3. StateReconstructs'
    BY <1>2, FinishedReconstructs
  <1>4. /\ ValidLedger(s.ledger) /\ s.ledger.proposals = disk.ledger.proposals
        /\ s.ledger.attempts = disk.ledger.attempts
        /\ s.ledger.repairs = disk.ledger.repairs
        /\ s.ledger.training = disk.ledger.training
        /\ s.ledger.retries = disk.ledger.retries
    BY FinishedValid DEF MayEnd
  <1>5. /\ disk \in StateType /\ disk.terminal \in Seq(TerminalType) /\ LedgerIsSound
        /\ Len(disk.terminal) \in Nat
    BY HeldSound
  <1>6. /\ s.active = NoOpportunity /\ s.terminal = Append(disk.terminal, r)
        /\ r \in TerminalType /\ r.stage = stage
    BY <1>5, FinishFields
  <1> HIDE DEF s, r
  <1>7. LedgerIsSound'
    BY <1>2, <1>4, <1>5 DEF LedgerIsSound
  <1>8. ActiveIsGrounded'
    BY <1>2, <1>6, EngineAssumption DEF ActiveIsGrounded, NoOpportunity, Outcomes
  <1>9. /\ RetryExhaustions(disk) \in Nat
        /\ RetryExhaustions(disk)' =
             RetryExhaustions(disk)
               + (IF stage = "infrastructure_retry_budget_exhausted" THEN 1 ELSE 0)
    <2> DEFINE K == {x \in TerminalType : x.stage = "infrastructure_retry_budget_exhausted"}
               t == disk.terminal
               u == Append(t, r)
               Of(v) == {i \in 1 .. Len(v) : v[i] \in K}
    <2>1. /\ Cardinality(Of(t)) \in Nat
          /\ Cardinality(Of(u)) = Cardinality(Of(t)) + (IF r \in K THEN 1 ELSE 0)
      <3>1. t \in Seq(TerminalType) /\ r \in TerminalType
        BY <1>5, <1>6
      <3> HIDE DEF K, t
      <3> QED BY <3>1, CountAppended, SMTT(60)
    <2>2. r \in K <=> stage = "infrastructure_retry_budget_exhausted"
      BY <1>6
    <2>3. u \in Seq(TerminalType)
      BY <1>5, <1>6, AppendProperties
    <2>4. \A v \in Seq(TerminalType) :
            Of(v) = {i \in 1 .. Len(v) : v[i].stage = "infrastructure_retry_budget_exhausted"}
      BY ElementOfSeq
    <2>5. /\ RetryExhaustions(disk) = Cardinality(Of(t))
          /\ RetryExhaustions(disk)' = Cardinality(Of(u))
      <3> HIDE DEF Of, u, t
      <3>1. /\ disk'.terminal = u /\ disk.terminal = t
            /\ Of(t) = {i \in 1 .. Len(t) : t[i].stage = "infrastructure_retry_budget_exhausted"}
            /\ Of(u) = {i \in 1 .. Len(u) : u[i].stage = "infrastructure_retry_budget_exhausted"}
        BY <1>2, <1>5, <1>6, <2>3, <2>4 DEF t, u
      <3> QED BY <3>1 DEF RetryExhaustions
    <2> HIDE DEF Of, K, u, t
    <2> QED BY <2>1, <2>2, <2>5
  <1>10. pc' # "rejected"
    BY <1>2
  <1> QED BY <1>2, <1>3, <1>4, <1>7, <1>8, <1>9, <1>10 DEF WriteOwes

-----------------------------------------------------------------------------
\* The steps that write no run state.
Unwriting ==
    \/ Launch \/ CreateMarker \/ WriteMarker \/ Quarantine \/ Crash
    \/ StartSeed \/ EvaluatorReturns \/ ResultOverrun \/ UsageOverrun
    \/ StartEvaluation \/ SendRequest \/ Resume \/ Terminated
    \/ UNCHANGED vars

\* What is stored is never refused, and a place is reached as its opportunity
\* allows.
LEMMA UnwritingOwes ==
    ASSUME RunInv, Unwriting
    PROVE  WriteOwes /\ Spent(0, 0)
  <1>1. /\ disk \in StateType /\ LedgerIsSound /\ StateReconstructs
        /\ ActiveIsGrounded /\ pc # "rejected"
    BY DEF RunInv, EngineInv, StoredInv, TypeOK
  <1>2. disk' = disk /\ requests \subseteq requests'
    BY DEF Unwriting, Launch, CreateMarker, WriteMarker, Quarantine, Crash, StartSeed,
           EvaluatorReturns, ResultOverrun, UsageOverrun, StartEvaluation,
           SendRequest, Resume, Terminated, vars, ghosts
  <1>3. pc' # "rejected"
    <2>1. CASE Resume
      BY <2>1 DEF Resume, RunInv, EngineInv, StoredIsValid, LedgerIsSound, Loadable
    <2>2. CASE ~Resume
      BY <1>1, <2>2
      DEF Unwriting, Launch, CreateMarker, WriteMarker, Quarantine, Crash, StartSeed,
          EvaluatorReturns, ResultOverrun, UsageOverrun, StartEvaluation,
          SendRequest, Terminated, vars
    <2> QED BY <2>1, <2>2
  <1>4. LedgerIsSound'
    BY <1>1, <1>2 DEF LedgerIsSound
  <1>5. StateReconstructs'
    BY <1>1, <1>2, ReconstructionKept DEF StateReconstructs, LedgerReconstructs
  <1>6. ActiveIsGrounded'
    <2>1. CASE SendRequest
      BY <2>1, <1>1, <1>2
         DEF SendRequest, RunInv, EngineInv, StoredInv, MemoryIsStored, Holding,
             ActiveIsGrounded
    <2>2. CASE StartEvaluation
      BY <2>2, <1>1, <1>2
         DEF StartEvaluation, Answered, Ready, RunInv, EngineInv, StoredInv,
             MemoryIsStored, Holding, ActiveIsGrounded
    <2>3. CASE EvaluatorReturns
      BY <2>3, <1>1, <1>2 DEF EvaluatorReturns, ActiveIsGrounded
    <2>4. CASE Terminated \/ UNCHANGED vars
      BY <1>1, <2>4 DEF ActiveIsGrounded, Terminated, vars
    <2>5. CASE \/ Launch \/ CreateMarker \/ WriteMarker \/ Quarantine \/ Crash
               \/ StartSeed \/ ResultOverrun \/ UsageOverrun \/ Resume
      BY <2>5, <1>1, <1>2
         DEF Launch, CreateMarker, WriteMarker, Quarantine, Crash, StartSeed,
             ResultOverrun, UsageOverrun, Resume, ActiveIsGrounded
    <2> QED BY <2>1, <2>2, <2>3, <2>4, <2>5 DEF Unwriting
  <1>7. Spent(0, 0)
    BY <1>1, <1>2, StateNumbers DEF Spent
  <1> QED BY <1>3, <1>4, <1>5, <1>6, <1>7 DEF WriteOwes

-----------------------------------------------------------------------------
\* The training an evaluation may consume is bounded.
LEMMA LargestUseBounds ==
    LargestUse \in Nat /\ \A u \in TrainingUses : u \in Nat /\ u <= LargestUse
  BY EngineAssumption, GreatestNumber DEF LargestUse

\* The two sides of TrainingSlack, and how often an evaluation may be lost.
Allowance == IF Alive THEN LargestUse ELSE 0
Returned == IF Recording THEN result.training ELSE 0
Losses == launches + disk.ledger.retries + RetryExhaustions(disk)

\* TrainingSlack in these terms.
LEMMA SlackSides ==
    TrainingSlack <=>
      /\ Recording => result.training \in TrainingUses
      /\ trained + Allowance <= disk.ledger.training + Returned + LargestUse * Losses
  BY DEF TrainingSlack, Allowance, Returned, Losses

\* The exhausted budgets of retries can be counted.
LEMMA ExhaustionsType ==
    ASSUME NEW s \in StateType
    PROVE  RetryExhaustions(s) \in Nat
  <1> DEFINE S == {i \in 1 .. Len(s.terminal) :
                     s.terminal[i].stage = "infrastructure_retry_budget_exhausted"}
  <1>1. IsFiniteSet(1 .. Len(s.terminal))
    BY StateNumbers, FS_Interval
  <1>2. S \in SUBSET (1 .. Len(s.terminal))
    OBVIOUS
  <1> HIDE DEF S
  <1>3. IsFiniteSet(S)
    BY <1>1, <1>2, FS_Subset
  <1>4. Cardinality(S) \in Nat
    BY <1>3, FS_CardinalityType
  <1> QED BY <1>4 DEF RetryExhaustions, S

\* They are numbers.
LEMMA SlackNumbers ==
    ASSUME TypeOK, Recording => result.training \in TrainingUses
    PROVE  /\ trained \in Nat /\ Allowance \in Nat /\ disk.ledger.training \in Nat
           /\ Returned \in Nat /\ Losses \in Nat
  BY LargestUseBounds, StateNumbers, ExhaustionsType
     DEF TypeOK, Allowance, Returned, Losses

\* The same after a step.
LEMMA SlackNumbersNext ==
    ASSUME TypeOK', Recording' => result'.training \in TrainingUses
    PROVE  /\ trained' \in Nat /\ Allowance' \in Nat /\ disk'.ledger.training \in Nat
           /\ Returned' \in Nat
           /\ Losses' = launches' + disk'.ledger.retries + RetryExhaustions(disk')
           /\ Losses' \in Nat
           /\ Allowance' = IF Alive' THEN LargestUse ELSE 0
           /\ Returned' = IF Recording' THEN result'.training ELSE 0
  BY LargestUseBounds, StateNumbers, ExhaustionsType
     DEF TypeOK, LargestUse, RetryExhaustions, Allowance, Returned, Losses

\* One loss more covers as much as the largest use.
LEMMA LossesPay ==
    ASSUME NEW L \in Nat, NEW n \in Nat, NEW n2 \in Nat, NEW extra \in Nat,
           NEW l \in Nat, NEW r \in Nat, NEW l2 \in Nat, NEW r2 \in Nat,
           l <= r + L * n,
           (n2 >= n /\ extra = 0) \/ (n2 >= n + 1 /\ extra = L),
           l2 + r <= l + r2 + extra
    PROVE  l2 <= r2 + L * n2
  <1>1. CASE n2 >= n /\ extra = 0
    <2>1. PICK k \in Nat : n2 = n + k
      BY <1>1
    <2>2. L * n2 = L * n + L * k /\ L * k \in Nat /\ L * n \in Nat
      BY <2>1
    <2> QED BY <1>1, <2>2
  <1>2. CASE n2 >= n + 1 /\ extra = L
    <2>1. PICK k \in Nat : n2 = n + 1 + k
      BY <1>2
    <2>2. L * n2 = L * n + L + L * k /\ L * k \in Nat /\ L * n \in Nat
      BY <2>1
    <2> QED BY <1>2, <2>2
  <1> QED BY <1>1, <1>2

\* A step may consume what it books, what the process was still allowed to
\* lose, and as much as one evaluation for a loss it counts.
LEMMA SlackKept ==
    ASSUME RunInv, TypeOK', Recording' => result'.training \in TrainingUses,
           NEW extra \in Nat,
           \/ Losses' >= Losses /\ extra = 0
           \/ Losses' >= Losses + 1 /\ extra = LargestUse,
           trained' + Allowance' + disk.ledger.training + Returned
             <= trained + Allowance + disk'.ledger.training + Returned' + extra
    PROVE  TrainingSlack'
  <1>1. /\ trained \in Nat /\ Allowance \in Nat /\ disk.ledger.training \in Nat
        /\ Returned \in Nat /\ Losses \in Nat
        /\ trained + Allowance <= disk.ledger.training + Returned + LargestUse * Losses
    BY SlackNumbers, SlackSides DEF RunInv, EngineInv, StoredInv
  <1>2. /\ trained' \in Nat /\ Allowance' \in Nat /\ disk'.ledger.training \in Nat
        /\ Returned' \in Nat /\ Losses' \in Nat
    BY SlackNumbersNext
  <1>3. LargestUse \in Nat
    BY LargestUseBounds
  <1>4. LargestUse * Losses \in Nat
    BY <1>1, <1>3
  <1>5. trained' + Allowance' <= disk'.ledger.training + Returned' + LargestUse * Losses'
    <2> DEFINE l == trained + Allowance
               r == disk.ledger.training + Returned
               l2 == trained' + Allowance'
               r2 == disk'.ledger.training + Returned'
    <2>1. l \in Nat /\ r \in Nat /\ l2 \in Nat /\ r2 \in Nat
      <3>1. \A m, n \in Nat : m + n \in Nat
        OBVIOUS
      <3> QED BY <1>1, <1>2, <3>1, Zenon
    <2>2. l2 + r <= l + r2 + extra
      BY <1>1, <1>2
    <2>3. l <= r + LargestUse * Losses
      BY <1>1, <1>4
    <2> HIDE DEF l, r, l2, r2
    <2>4. l2 <= r2 + LargestUse * Losses'
      BY <1>1, <1>2, <1>3, <2>1, <2>2, <2>3, LossesPay
    <2> QED BY <2>4 DEF l2, r2
  <1> QED BY <1>5 DEF TrainingSlack, Allowance, Returned, Losses

-----------------------------------------------------------------------------
\* A process that ends keeps none of its allowance.
LEMMA AllowanceLost ==
    ASSUME NEW t2 \in Nat, NEW a2 \in Nat, NEW q \in Nat, NEW q2 \in Nat,
           NEW t \in Nat, NEW a \in Nat, a2 = 0, t2 + q <= t + a
    PROVE  t2 + a2 + q <= t + a + 0 + q2 + 0
  OBVIOUS

\* A step that spends n and r, and is the launch of one process more or none.
LEMMA SlackSpent ==
    ASSUME RunInv, TypeOK', Recording' => result'.training \in TrainingUses,
           NEW n \in Nat, NEW r \in Nat, Spent(n, r),
           NEW e \in Nat, launches' = launches + e,
           NEW extra \in Nat, extra = 0 \/ (r + e >= 1 /\ extra = LargestUse),
           trained' + Allowance' + Returned <= trained + Allowance + n + Returned' + extra
    PROVE  TrainingSlack'
  <1>1. /\ trained \in Nat /\ Allowance \in Nat /\ disk.ledger.training \in Nat
        /\ Returned \in Nat /\ Losses \in Nat
    BY SlackNumbers DEF RunInv, EngineInv, StoredInv, TrainingSlack
  <1>2. /\ trained' \in Nat /\ Allowance' \in Nat /\ disk'.ledger.training \in Nat
        /\ Returned' \in Nat
        /\ Losses' = launches' + disk'.ledger.retries + RetryExhaustions(disk')
    BY SlackNumbersNext
  <1>3. RetryExhaustions(disk') = RetryExhaustions(disk)
    BY DEF RetryExhaustions, Spent
  <1>4. /\ launches \in Nat /\ disk.ledger.retries \in Nat
        /\ RetryExhaustions(disk) \in Nat
    BY StateNumbers, ExhaustionsType DEF RunInv, EngineInv, StoredInv, TypeOK
  <1>5. Losses' = Losses + r + e
    BY <1>2, <1>3, <1>4 DEF Spent, Losses
  <1>6. \/ Losses' >= Losses /\ extra = 0
        \/ Losses' >= Losses + 1 /\ extra = LargestUse
    BY <1>1, <1>5
  <1>7. trained' + Allowance' + disk.ledger.training + Returned
          <= trained + Allowance + disk'.ledger.training + Returned' + extra
    <2>1. disk'.ledger.training = disk.ledger.training + n
      BY DEF Spent
    <2> DEFINE b == disk.ledger.training
               b2 == disk'.ledger.training
               a2 == Allowance'
               q2 == Returned'
               t2 == trained'
    <2>2. /\ t2 \in Nat /\ a2 \in Nat /\ q2 \in Nat /\ b \in Nat /\ b2 \in Nat
          /\ b2 = b + n
      BY <1>1, <1>2, <2>1
    <2>3. t2 + a2 + Returned <= trained + Allowance + n + q2 + extra
      OBVIOUS
    <2> HIDE DEF b, b2, a2, q2, t2
    <2>4. t2 + a2 + b + Returned <= trained + Allowance + b2 + q2 + extra
      BY <1>1, <2>2, <2>3
    <2> QED BY <2>4 DEF b, b2, a2, q2, t2
  <1> QED BY <1>6, <1>7, SlackKept

\* A step that books nothing and trains nothing.
LEMMA QuietSlack ==
    ASSUME RunInv, TypeOK', NEW r \in Nat, Spent(0, r), trained' = trained,
           launches' = launches, ~Recording, ~Recording', Alive' => Alive
    PROVE  TrainingSlack'
  BY SlackNumbers, LargestUseBounds, SlackNumbersNext, SlackSpent
     DEF RunInv, EngineInv, StoredInv, TypeOK, TrainingSlack, Returned, Allowance

\* The steps of a process that is not evaluating.
LEMMA ProcessSlack ==
    ASSUME RunInv, TypeOK',
           \/ CreateMarker \/ WriteMarker \/ Quarantine \/ StartFresh \/ Resume
           \/ StartSeed \/ OpenOpportunity \/ StartProviderAttempt \/ SendRequest
           \/ ProviderRetry \/ ProviderAnswers \/ UsageOverrun \/ IdentifyCandidate
           \/ StartEvaluation \/ CompleteRun
    PROVE  TrainingSlack'
  <1>1. trained' = trained /\ launches' = launches
    BY DEF CreateMarker, WriteMarker, Quarantine, StartFresh, Resume, StartSeed,
           OpenOpportunity, StartProviderAttempt, SendRequest, ProviderRetry,
           ProviderAnswers, AnswerParses, AnswerUnparsed, UsageOverrun,
           IdentifyCandidate, StartEvaluation, CompleteRun, ghosts
  <1>2. Alive /\ ~Recording
    BY DEF CreateMarker, WriteMarker, Quarantine, StartFresh, Resume, StartSeed,
           OpenOpportunity, StartProviderAttempt, SendRequest, ProviderRetry,
           ProviderAnswers, AnswerParses, AnswerUnparsed, UsageOverrun,
           IdentifyCandidate, StartEvaluation, CompleteRun, Idle, Proposing,
           Answered, Ready, Alive, Recording, Holding
  <1>3. (Spent(0, 0) \/ Spent(0, 1)) /\ pc' \notin {"record_seed", "record"}
    BY UnwritingOwes, StartFreshWritten, OpenWritten, AttemptWritten, CompleteWritten,
       RetryWritten, AnswerWritten, CandidateWritten
       DEF Unwriting, CreateMarker, WriteMarker, Quarantine, StartSeed, SendRequest,
           UsageOverrun, StartEvaluation, Resume
  <1>4. ~Recording'
    BY <1>3 DEF Recording
  <1> QED BY <1>1, <1>2, <1>3, <1>4, QuietSlack

\* A launch may lose one evaluation.
LEMMA LaunchSlack ==
    ASSUME RunInv, TypeOK', Launch
    PROVE  TrainingSlack'
  <1>1. Spent(0, 0)
    BY UnwritingOwes DEF Unwriting
  <1>2. /\ trained' = trained /\ launches' = launches + 1
        /\ ~Alive /\ ~Recording /\ ~Recording'
    BY DEF Launch, Alive, Recording, Holding, ghosts
  <1>3. /\ trained \in Nat /\ Allowance = 0 /\ Returned = 0 /\ LargestUse \in Nat
    BY <1>2, SlackNumbers, LargestUseBounds
    DEF RunInv, EngineInv, StoredInv, TrainingSlack, Returned, Allowance
  <1>4. Allowance' \in Nat /\ Returned' = 0 /\ Allowance' = IF Alive' THEN LargestUse ELSE 0
    BY <1>2, SlackNumbersNext
  <1>5. Allowance' <= LargestUse
    BY <1>3, <1>4
  <1>6. trained' + Allowance' + Returned <= trained + Allowance + 0 + Returned' + LargestUse
    BY <1>2, <1>3, <1>4, <1>5
  <1> QED BY <1>1, <1>2, <1>3, <1>6, SlackSpent

\* A process that dies, or whose result overruns a ceiling, loses the one
\* evaluation it was allowed to lose.
LEMMA LossSlack ==
    ASSUME RunInv, TypeOK', Crash \/ ResultOverrun
    PROVE  TrainingSlack'
  <1>1. Spent(0, 0)
    BY UnwritingOwes DEF Unwriting
  <1>2. /\ launches' = launches /\ pc' = "down" /\ Alive /\ ~Recording' /\ ~Alive'
    BY DEF Crash, ResultOverrun, Alive, Recording, Holding, ghosts
  <1>3. /\ trained \in Nat /\ Allowance = LargestUse /\ LargestUse \in Nat
        /\ Returned \in Nat /\ launches \in Nat
    BY <1>2, SlackNumbers, LargestUseBounds
    DEF RunInv, EngineInv, StoredInv, TypeOK, TrainingSlack, Allowance
  <1>4. Allowance' = 0 /\ Returned' = 0 /\ trained' \in Nat
    BY <1>2, SlackNumbersNext
  <1>5. trained' + Returned <= trained + LargestUse
    BY LargestUseBounds, <1>3
       DEF Returned, RunInv, TrainingSlack, Crash, ResultOverrun, Recording, ghosts
  <1>6. trained' + Allowance' + Returned <= trained + Allowance + 0 + Returned' + 0
    BY <1>3, <1>5, <1>2, <1>4, SlackNumbersNext, AllowanceLost
  <1>7. launches' = launches + 0
    BY <1>2, <1>3
  <1> QED BY <1>1, <1>2, <1>6, <1>7, SlackSpent

\* What the evaluator returns waits to be booked.
LEMMA ReturnSlack ==
    ASSUME RunInv, TypeOK', EvaluatorReturns
    PROVE  TrainingSlack'
  <1>1. Spent(0, 0)
    BY UnwritingOwes DEF Unwriting
  <1>2. PICK u \in TrainingUses : trained' = trained + u /\ result'.training = u
    BY DEF EvaluatorReturns
  <1>3. /\ launches' = launches /\ Alive /\ Alive' /\ ~Recording /\ Recording'
    BY DEF EvaluatorReturns, Alive, Recording, Holding
  <1>4. /\ trained \in Nat /\ Allowance = LargestUse /\ LargestUse \in Nat
        /\ Returned = 0 /\ launches \in Nat /\ u \in Nat
    BY <1>3, SlackNumbers, LargestUseBounds
    DEF RunInv, EngineInv, StoredInv, TypeOK, TrainingSlack, Allowance, Returned
  <1>5. Allowance' = LargestUse /\ Returned' = u
    BY <1>2, <1>3, SlackNumbersNext
  <1>6. trained' + Allowance' + Returned <= trained + Allowance + 0 + Returned' + 0
    BY <1>2, <1>4, <1>5
  <1>7. launches' = launches + 0
    BY <1>3, <1>4
  <1> QED BY <1>1, <1>2, <1>6, <1>7, SlackSpent

\* A result that is recorded is booked.
LEMMA RecordSlack ==
    ASSUME RunInv, TypeOK', RecordSeedResult \/ RecordResult
    PROVE  TrainingSlack'
  <1>1. Spent(result.training, result.retries) /\ pc' = "running"
    BY SeedResultWritten, ResultWritten
  <1>2. /\ launches' = launches /\ trained' = trained
        /\ Alive /\ Alive' /\ Recording /\ ~Recording'
    BY <1>1 DEF RecordSeedResult, RecordResult, Alive, Recording, Holding, ghosts
  <1>3. result \in Results
    BY DEF RunInv, EngineInv, StoredInv, TypeOK, EvaluationHasCandidate, Results,
           RecordSeedResult, RecordResult
  <1>4. result.training \in Nat /\ result.retries \in Nat
    BY <1>3 DEF Results
  <1>5. /\ trained \in Nat /\ Allowance = LargestUse /\ LargestUse \in Nat
        /\ Returned = result.training /\ launches \in Nat
    BY <1>2, SlackNumbers, LargestUseBounds
    DEF RunInv, EngineInv, StoredInv, TypeOK, TrainingSlack, Allowance, Returned
  <1>6. Allowance' = LargestUse /\ Returned' = 0
    BY <1>2, SlackNumbersNext
  <1>7. trained' + Allowance' + Returned
          <= trained + Allowance + result.training + Returned' + 0
    BY <1>2, <1>4, <1>5, <1>6
  <1>8. launches' = launches + 0
    BY <1>2, <1>5
  <1> QED BY <1>1, <1>2, <1>4, <1>7, <1>8, SlackSpent

\* The training of a failed evaluation is lost, and its loss is counted as a
\* retry or as an exhausted budget of retries; the other steps that close an
\* opportunity lose none.
LEMMA ClosingSlack ==
    ASSUME RunInv, TypeOK', ~Recording, Alive, pc' = "running",
           launches' = launches, NEW u \in TrainingUses, trained' = trained + u,
           NEW c \in {0, 1}, u = 0 \/ c = 1,
           disk'.ledger.training = disk.ledger.training,
           disk'.ledger.retries = disk.ledger.retries,
           RetryExhaustions(disk)' = RetryExhaustions(disk) + c
    PROVE  TrainingSlack'
  <1>1. Alive' /\ ~Recording'
    BY DEF Alive, Recording, Holding
  <1>2. /\ trained \in Nat /\ Allowance = LargestUse /\ LargestUse \in Nat
        /\ Returned = 0 /\ disk.ledger.training \in Nat
        /\ u \in Nat /\ u <= LargestUse /\ Losses \in Nat
    BY SlackNumbers, LargestUseBounds
    DEF RunInv, EngineInv, StoredInv, TypeOK, TrainingSlack, Allowance, Returned
  <1>3. /\ Allowance' = LargestUse /\ Returned' = 0
        /\ Losses' = launches' + disk'.ledger.retries + RetryExhaustions(disk')
    BY <1>1, SlackNumbersNext
  <1>4. /\ launches \in Nat /\ disk.ledger.retries \in Nat
        /\ RetryExhaustions(disk) \in Nat
    BY StateNumbers, ExhaustionsType DEF RunInv, EngineInv, StoredInv, TypeOK
  <1>5. Losses' = Losses + c
    BY <1>3, <1>4 DEF RetryExhaustions, Losses
  <1>6. CASE c = 1
    BY <1>2, <1>3, <1>5, <1>6, <1>1, SlackKept
  <1>7. CASE c = 0
    BY <1>2, <1>3, <1>7, <1>5, <1>1, SlackKept
  <1> QED BY <1>6, <1>7

\* So is the training of a failed evaluation that is tried again.
LEMMA RetrySlack ==
    ASSUME RunInv, TypeOK', EvaluatorFails, CanRetry(mem.ledger)
    PROVE  TrainingSlack'
  <1>1. Spent(0, 1) /\ pc' = "running"
    BY RetryWritten
  <1>2. PICK u \in TrainingUses : trained' = trained + u
    BY DEF EvaluatorFails
  <1>3. /\ launches' = launches /\ Alive /\ Alive' /\ ~Recording /\ ~Recording'
    BY <1>1 DEF EvaluatorFails, Alive, Recording, Holding
  <1>4. /\ trained \in Nat /\ Allowance = LargestUse /\ LargestUse \in Nat
        /\ Returned = 0 /\ launches \in Nat /\ u \in Nat /\ u <= LargestUse
    BY <1>3, SlackNumbers, LargestUseBounds
    DEF RunInv, EngineInv, StoredInv, TypeOK, TrainingSlack, Allowance, Returned
  <1>5. Allowance' = LargestUse /\ Returned' = 0
    BY <1>3, SlackNumbersNext
  <1>6. trained' + Allowance' + Returned <= trained + Allowance + 0 + Returned' + LargestUse
    BY <1>2, <1>4, <1>5
  <1>7. launches' = launches + 0
    BY <1>3, <1>4
  <1> QED BY <1>1, <1>3, <1>4, <1>6, <1>7, SlackSpent

-----------------------------------------------------------------------------
\* What a step that closes an opportunity does, the training it loses included.
LEMMA CloseKeeps ==
    ASSUME RunInv, TypeOK', pc \in Holding, ~Recording,
           NEW o \in Outcomes, NEW stage \in Stages,
           MayEnd(disk.active, o, stage), requests' = requests,
           launches' = launches, NEW u \in TrainingUses, trained' = trained + u,
           u = 0 \/ stage = "infrastructure_retry_budget_exhausted",
           Persist(Finish(disk, disk.ledger, o, stage), "running")
    PROVE  WriteOwes /\ TrainingSlack'
  <1> DEFINE c == IF stage = "infrastructure_retry_budget_exhausted" THEN 1 ELSE 0
  <1>1. /\ WriteOwes /\ pc' = "running"
        /\ disk'.ledger.training = disk.ledger.training
        /\ disk'.ledger.retries = disk.ledger.retries
        /\ RetryExhaustions(disk)' = RetryExhaustions(disk) + c
    BY FinishWritten
  <1>2. c \in {0, 1} /\ (u = 0 \/ c = 1)
    OBVIOUS
  <1>3. Alive
    BY DEF Alive
  <1> HIDE DEF c
  <1>4. TrainingSlack'
    BY <1>1, <1>2, <1>3, ClosingSlack
  <1> QED BY <1>1, <1>4

\* Every step that closes an opportunity does so on one of the grounds there
\* are.
LEMMA ClosingKeeps ==
    ASSUME RunInv, TypeOK',
           \/ AttemptsExhausted \/ ProviderGivesUp \/ CloseUnparsed
           \/ CloseEvaluated \/ (EvaluatorFails /\ ~CanRetry(mem.ledger))
    PROVE  WriteOwes /\ TrainingSlack'
  <1> DEFINE a == disk.active
  <1>0. pc \in Holding /\ ~Recording
    BY DEF AttemptsExhausted, ProviderGivesUp, CloseUnparsed, CloseEvaluated,
           EvaluatorFails, Proposing, Answered, Ready, Holding, Recording
  <1>1. /\ mem = disk /\ a \in ActiveType
        /\ a.evaluation # None => a.candidate # None
        /\ a.candidate # None => a.candidate = a.proposal
        /\ a.evaluation # "invalid"
        /\ PlaceIsStored /\ ActiveIsGrounded
    BY <1>0, HeldSound DEF RunInv, EngineInv, StoredInv, EvaluationHasCandidate, Grounded
  <1>2. /\ a.candidate \in Sources \cup {None} /\ a.evaluation \in Outcomes \cup {None}
        /\ None \notin Garbage /\ Sources \cap Garbage = {}
        /\ a.candidate # None => a.proposal \notin Garbage
    BY <1>1, EngineAssumption DEF ActiveType
  <1>3. /\ {"infrastructure_failure", "invalid"} \subseteq Outcomes
        /\ {"provider_attempts_exhausted", "proposal_parse", "evaluation",
            "infrastructure_retry_budget_exhausted"} \subseteq Stages
    BY DEF Outcomes, Stages
  <1>4. trained \in Nat /\ trained = trained + 0 /\ 0 \in TrainingUses
    BY EngineAssumption DEF RunInv, EngineInv, StoredInv, TypeOK
  <1>5. CASE AttemptsExhausted
    BY <1>1, <1>4, <1>5, <1>2, <1>0, <1>3, CloseKeeps
       DEF AttemptsExhausted, Proposing, ghosts, MayEnd
  <1>6. CASE ProviderGivesUp
    <2> DEFINE stage == IF a.attempts < ProviderAttempts
                          THEN "infrastructure_retry_budget_exhausted"
                          ELSE "provider_attempts_exhausted"
    <2>1. /\ Persist(Finish(disk, disk.ledger, "infrastructure_failure", stage), "running")
          /\ requests' = requests /\ launches' = launches /\ trained' = trained + 0
          /\ pc = "await"
      BY <1>1, <1>4, <1>6 DEF ProviderGivesUp, ghosts
    <2>2. a.index # NoIndex /\ a.proposal = None
      BY <1>1, <2>1 DEF PlaceIsStored, ActiveIsGrounded
    <2>3. stage \in Stages /\ stage # "proposal_parse" /\ stage # "evaluation"
      BY <1>3
    <2> HIDE DEF stage
    <2>4. MayEnd(a, "infrastructure_failure", stage)
      BY <1>1, <1>2, <2>2, <2>3 DEF MayEnd
    <2> QED BY <1>0, <1>3, <1>4, <2>1, <2>3, <2>4, CloseKeeps
  <1>7. CASE CloseUnparsed
    BY <1>1, <1>4, <1>7, <1>2, <1>0, <1>3, CloseKeeps
       DEF CloseUnparsed, Answered, ghosts, MayEnd
  <1>8. CASE CloseEvaluated
    <2> DEFINE o == a.evaluation
    <2>1. /\ Persist(Finish(disk, disk.ledger, o, "evaluation"), "running")
          /\ a.index # NoIndex /\ o # None
          /\ requests' = requests /\ launches' = launches /\ trained' = trained + 0
      BY <1>1, <1>4, <1>8 DEF CloseEvaluated, Answered, ghosts
    <2>2. o \in Outcomes /\ o # "invalid" /\ a.candidate # None
      BY <1>1, <1>2, <2>1
    <2>3. MayEnd(a, o, "evaluation")
      BY <1>1, <1>2, <2>1, <2>2 DEF MayEnd
    <2> HIDE DEF o
    <2> QED BY <1>0, <1>3, <1>4, <2>1, <2>2, <2>3, CloseKeeps
  <1>9. CASE EvaluatorFails /\ ~CanRetry(mem.ledger)
    <2>1. /\ Persist(Finish(disk, disk.ledger, "infrastructure_failure",
                            "infrastructure_retry_budget_exhausted"), "running")
          /\ requests' = requests /\ launches' = launches /\ pc = "evaluate"
          /\ \E u \in TrainingUses : trained' = trained + u
      BY <1>1, <1>9 DEF EvaluatorFails
    <2>2. a.index # NoIndex /\ a.evaluation = None /\ a.candidate # None
      BY <1>1, <2>1 DEF PlaceIsStored, ActiveIsGrounded, RunInv, EngineInv, StoredInv,
                        EvaluationHasCandidate
    <2>3. MayEnd(a, "infrastructure_failure", "infrastructure_retry_budget_exhausted")
      BY <1>1, <1>2, <2>2 DEF MayEnd
    <2>4. PICK u \in TrainingUses : trained' = trained + u
      BY <2>1
    <2> QED BY <1>0, <1>3, <2>1, <2>3, <2>4, CloseKeeps
  <1> QED BY <1>5, <1>6, <1>7, <1>8, <1>9

-----------------------------------------------------------------------------
\* What no terminal record determines.
LEMMA NothingTold ==
    /\ PortfolioAfter(<<>>)[0] = <<Seed>> /\ IncumbentAfter(<<>>, 0) = Seed
    /\ InvalidCount(NoState) = 0 /\ RetryExhaustions(NoState) = 0
    /\ NoState.terminal = <<>>
    /\ \A o \in Outcomes :
         Cardinality({i \in 1 .. Len(NoState.terminal) :
                        NoState.terminal[i].outcome = o}) = 0
  <1>1. PortfolioAfter(<<>>)[0] = <<Seed>>
    <2>1. <<>> \in Seq({Seed}) /\ Seed \in {Seed}
      OBVIOUS
    <2> QED BY <2>1, PortfolioAppended
  <1>2. IncumbentAfter(<<>>, 0) = Seed
    BY DEF IncumbentAfter
  <1>3. NoState.terminal = <<>> /\ Len(NoState.terminal) = 0
    BY DEF NoState, InitialState
  <1>4. /\ {i \in 1 .. Len(NoState.terminal) : NoState.terminal[i].outcome = "invalid"} = {}
        /\ {i \in 1 .. Len(NoState.terminal) :
              NoState.terminal[i].stage = "infrastructure_retry_budget_exhausted"} = {}
        /\ \A o \in Outcomes :
             {i \in 1 .. Len(NoState.terminal) : NoState.terminal[i].outcome = o} = {}
    BY <1>3
  <1> QED BY <1>1, <1>2, <1>3, <1>4, FS_EmptySet DEF InvalidCount, RetryExhaustions

\* The invariant of the run holds at first.
LEMMA RunInvInit == Init => RunInv
  <1> SUFFICES ASSUME Init PROVE RunInv
    OBVIOUS
  <1>1. /\ EngineInv /\ disk = NoState /\ pc = "down"
        /\ launches = 0 /\ trained = 0
    BY EngineInvInit DEF Init
  <1>2. /\ NoState.terminal = <<>> /\ NoState.ledger = EmptyLedger
        /\ NoState.active = NoOpportunity /\ NoState.status = "absent"
        /\ NoState.portfolio = <<Seed>> /\ NoState.incumbent = Seed
    BY DEF InitialState, NoState
  <1>3. /\ NoOpportunity.index = NoIndex /\ NoOpportunity.proposal = None
        /\ NoOpportunity.candidate = None /\ NoOpportunity.evaluation = None
        /\ Len(<<>>) = 0
        /\ EmptyLedger.training = 0 /\ EmptyLedger.retries = 0
        /\ EmptyLedger.parse_failures = 0 /\ EmptyLedger.repairs_total = 0
        /\ \A o \in Outcomes : EmptyLedger.outcomes[o] = 0
        /\ \A i \in Opportunities : EmptyLedger.attempts[i] = 0 /\ EmptyLedger.repairs[i] = 0
    BY DEF NoOpportunity, EmptyLedger
  <1>4. LedgerIsSound
    BY <1>1, <1>2, <1>3 DEF LedgerIsSound
  <1>5. ActiveIsGrounded
    BY <1>1, <1>2, <1>3, EngineAssumption DEF ActiveIsGrounded, Outcomes
  <1>6. ParentsReconstruct
    BY <1>1, <1>2, <1>3, NothingTold DEF ParentsReconstruct
  <1>7. LedgerReconstructs
    BY EngineAssumption, <1>1, <1>2, <1>3, NothingTold DEF LedgerReconstructs
  <1>8. OutcomeGrounded
    BY <1>1, <1>2, <1>3 DEF OutcomeGrounded
  <1>9. TrainingSlack
    BY <1>1, <1>2, <1>3, NothingTold, LargestUseBounds
       DEF Alive, Recording, Holding, TrainingSlack
  <1> QED BY <1>1, <1>4, <1>5, <1>6, <1>7, <1>8, <1>9 DEF RunInv, StateReconstructs

\* Every step preserves the invariant of the run.
LEMMA RunInvStep == RunInv /\ [Next]_vars => RunInv'
  <1> SUFFICES ASSUME RunInv, [Next]_vars
               PROVE  RunInv'
    OBVIOUS
  <1>1. EngineInv' /\ TypeOK'
    <2>1. EngineInv
      BY DEF RunInv
    <2>2. EngineInv'
      BY <2>1, EngineInvStep
    <2> QED BY <2>2 DEF EngineInv, StoredInv
  <1>2. CASE Terminated \/ UNCHANGED vars
    <2>1. WriteOwes
      BY <1>2, UnwritingOwes DEF Unwriting
    <2>2. TrainingSlack'
      <3>1. UNCHANGED vars
        BY <1>2 DEF Terminated
      <3>2. /\ trained' = trained /\ disk' = disk /\ result' = result
            /\ launches' = launches /\ pc' = pc
        BY <3>1 DEF vars
      <3>3. /\ Alive' = Alive /\ Recording' = Recording /\ LargestUse' = LargestUse
            /\ RetryExhaustions(disk)' = RetryExhaustions(disk)
        BY <3>2 DEF Alive, Recording, LargestUse, RetryExhaustions
      <3> QED BY <3>2, <3>3 DEF RunInv, TrainingSlack
    <2> QED BY <1>1, <2>1, <2>2 DEF RunInv, WriteOwes
  <1>3. ASSUME WriteOwes, TrainingSlack'
        PROVE  RunInv'
    BY <1>1, <1>3 DEF RunInv, WriteOwes
  <1>4. CASE Launch
    BY <1>1, <1>3, <1>4, UnwritingOwes, LaunchSlack DEF Unwriting
  <1>5. CASE Crash \/ ResultOverrun
    BY <1>1, <1>3, <1>5, UnwritingOwes, LossSlack DEF Unwriting
  <1>6. CASE EvaluatorReturns
    BY <1>1, <1>3, <1>6, UnwritingOwes, ReturnSlack DEF Unwriting
  <1>7. CASE \/ CreateMarker \/ WriteMarker \/ Quarantine \/ Resume \/ StartSeed
             \/ SendRequest \/ UsageOverrun \/ StartEvaluation
    BY <1>1, <1>3, <1>7, UnwritingOwes, ProcessSlack DEF Unwriting
  <1>8. CASE \/ StartFresh \/ OpenOpportunity \/ StartProviderAttempt
             \/ ProviderRetry \/ ProviderAnswers \/ IdentifyCandidate \/ CompleteRun
    <2>1. WriteOwes
      BY <1>8, StartFreshWritten, OpenWritten, AttemptWritten, RetryWritten,
         AnswerWritten, CandidateWritten, CompleteWritten
    <2>2. TrainingSlack'
      BY <1>1, <1>8, ProcessSlack
    <2> QED BY <1>3, <2>1, <2>2
  <1>9. CASE RecordSeedResult \/ RecordResult
    BY <1>1, <1>3, <1>9, SeedResultWritten, ResultWritten, RecordSlack
  <1>10. CASE EvaluatorFails /\ CanRetry(mem.ledger)
    BY <1>1, <1>3, <1>10, RetryWritten, RetrySlack
  <1>11. CASE \/ AttemptsExhausted \/ ProviderGivesUp \/ CloseUnparsed
              \/ CloseEvaluated \/ (EvaluatorFails /\ ~CanRetry(mem.ledger))
    BY <1>1, <1>3, <1>11, ClosingKeeps
  <1>12. CASE EvaluatorFails
    BY <1>10, <1>11, <1>12
  <1>13. \/ UNCHANGED vars \/ Launch \/ Crash \/ EngineStep \/ Terminated
    BY DEF Next
  <1> QED BY <1>2, <1>4, <1>5, <1>6, <1>7, <1>8, <1>9, <1>10, <1>11, <1>12, <1>13
          DEF EngineStep

\* The invariant of the run holds of every execution, whatever is killed.
THEOREM RunInvariant == Spec => []RunInv
  BY RunInvInit, RunInvStep, PTL DEF Spec

\* The engine never stores, and never finds on resume, a run state that its
\* own validation refuses: a run is not locked out by its own state file.
THEOREM NeverLockedOut == Spec => []NeverRejected
  <1>1. RunInv => NeverRejected
    BY DEF RunInv, EngineInv, StoredIsValid, LedgerIsSound, NeverRejected, Loadable
  <1> QED BY <1>1, RunInvariant, PTL

\* Whatever interruptions lay between them, the terminal records alone tell
\* the parents of each opportunity, the portfolio, the incumbent, the ledger
\* and the ground of each outcome.
THEOREM RunReconstructs == Spec => []StateReconstructs
  <1>1. RunInv => StateReconstructs
    BY DEF RunInv
  <1> QED BY <1>1, RunInvariant, PTL

\* Training the stored ledger misses is at most one largest evaluation for
\* each launch of the process and one for each failed evaluation.
THEOREM TrainingBounded == Spec => []TrainingAccounted
  <1>1. RunInv => TrainingAccounted
    <2> SUFFICES ASSUME RunInv
                 PROVE  TrainingAccounted
      OBVIOUS
    <2>1. /\ trained \in Nat /\ Allowance \in Nat /\ disk.ledger.training \in Nat
          /\ Returned \in Nat /\ Losses \in Nat /\ LargestUse \in Nat
          /\ trained + Allowance <= disk.ledger.training + Returned + LargestUse * Losses
      BY SlackNumbers, SlackSides, LargestUseBounds
      DEF RunInv, EngineInv, StoredInv, TrainingSlack
    <2>2. LargestUse * Losses \in Nat
      <3>1. \A m, n \in Nat : m * n \in Nat
        OBVIOUS
      <3> QED BY <2>1, <3>1
    <2>3. Returned <= Allowance
      <3>1. CASE Recording
        <4>1. Alive /\ result.training <= LargestUse
          BY <3>1, LargestUseBounds DEF Recording, Alive, Holding, RunInv, TrainingSlack
        <4> QED BY <3>1, <4>1 DEF Returned, Allowance
      <3>2. CASE ~Recording
        BY <2>1, <3>2 DEF Returned
      <3> QED BY <3>1, <3>2
    <2>4. trained <= disk.ledger.training + LargestUse * Losses
      BY <2>1, <2>2, <2>3
    <2> QED BY <2>4 DEF TrainingAccounted, Losses
  <1> QED BY <1>1, RunInvariant, PTL

-----------------------------------------------------------------------------
(***************************************************************************)
(* The fourth part: the event sink, composed with the engine.              *)
(***************************************************************************)
\* What is known of every stored state: the opportunities that were opened are
\* numbered without a gap, and say what they went through.
Sound(s) ==
    /\ s \in StateType
    /\ Len(s.terminal) \in Nat
    /\ s.active.index \in {NoIndex, Len(s.terminal) + 1}
    /\ s.active.index = NoIndex => s.active = NoOpportunity
    /\ s.active.candidate # None => s.active.proposal # None
    /\ \A i \in Opened(s) :
         /\ i \in Opportunities
         /\ Opportunity(s, i) \in ActiveType
         /\ Opportunity(s, i).index = i
         /\ Opportunity(s, i).attempts <= ProviderAttempts
         /\ Opportunity(s, i).proposal # None => Opportunity(s, i).attempts > 0
         /\ Opportunity(s, i).evaluation # None => Opportunity(s, i).candidate # None

\* The invariant of the run makes the stored state sound.
LEMMA StoredIsSound ==
    ASSUME RunInv
    PROVE  Sound(disk)
  <1>1. /\ disk \in StateType /\ StoredIsValid /\ LedgerIsSound /\ ActiveIsGrounded
        /\ StateReconstructs /\ EvaluationHasCandidate
    BY DEF RunInv, EngineInv, StoredInv, TypeOK
  <1>2. /\ disk.terminal \in Seq(TerminalType) /\ Len(disk.terminal) \in Nat
        /\ disk.ledger \in Ledgers /\ disk.active \in ActiveType
    BY <1>1, StateNumbers
  <1>3. disk.active.index = NoIndex => disk.active = NoOpportunity
    BY <1>1 DEF ActiveIsGrounded
  <1>6. disk.active.candidate # None => disk.active.proposal # None
    BY <1>1 DEF ActiveIsGrounded
  <1>4. CASE disk.status = "absent"
    BY <1>1, <1>4, <1>2, <1>3, <1>6
       DEF StoredIsValid, NoState, InitialState, NoOpportunity, Opened, Sound
  <1>5. CASE disk.status # "absent"
    <2>1. /\ ValidState(disk) /\ ValidLedger(disk.ledger)
          /\ disk.ledger.proposals =
              Len(disk.terminal) + (IF disk.active.index = NoIndex THEN 0 ELSE 1)
          /\ disk.active.index \in {NoIndex, disk.ledger.proposals}
          /\ disk.active.proposal # None => disk.active.attempts > 0
      BY <1>1, <1>5 DEF StoredIsValid, LedgerIsSound
    <2>2. disk.active.index \in {NoIndex, Len(disk.terminal) + 1}
      BY <2>1, <1>2 DEF NoIndex
    <2>3. disk.ledger.proposals <= ProposalOpportunities /\ ProposalOpportunities \in Nat
      BY <2>1, BudgetAssumption DEF ValidLedger
    <2>4. ASSUME NEW i \in Opened(disk)
          PROVE  /\ i \in Opportunities
                 /\ Opportunity(disk, i) \in ActiveType
                 /\ Opportunity(disk, i).index = i
                 /\ Opportunity(disk, i).attempts <= ProviderAttempts
                 /\ Opportunity(disk, i).proposal # None => Opportunity(disk, i).attempts > 0
                 /\ Opportunity(disk, i).evaluation # None =>
                      Opportunity(disk, i).candidate # None
      <3>1. /\ i \in 1 .. disk.ledger.proposals /\ i \in Opportunities
            /\ disk.ledger.proposals \in Nat
        <4>1. Opened(disk) = 1 .. disk.ledger.proposals
          BY <2>1 DEF Opened
        <4>2. disk.ledger.proposals \in Nat
          BY <1>2 DEF Ledgers, LedgerType
        <4> QED BY <4>1, <4>2, <2>3, <2>4 DEF Opportunities
      <3>2. CASE i <= Len(disk.terminal)
        <4> DEFINE r == disk.terminal[i]
        <4>1. i \in 1 .. Len(disk.terminal) /\ r \in TerminalType
          BY <3>1, <3>2, <1>2, ElementOfSeq
        <4>2. Opportunity(disk, i) = r.opportunity
          BY <3>2 DEF Opportunity
        <4>3. r.opportunity \in ActiveType
          BY <4>1 DEF TerminalType
        <4>4. /\ r.opportunity.index = i
              /\ r.opportunity.attempts = disk.ledger.attempts[i]
          BY <1>1, <4>1 DEF StateReconstructs, LedgerReconstructs
        <4>5. disk.ledger.attempts[i] <= ProviderAttempts
          BY <2>1, <3>1 DEF ValidLedger
        <4>6. /\ r.opportunity.evaluation # None =>
                   /\ r.opportunity.candidate = r.opportunity.proposal
                   /\ r.opportunity.candidate \in disk.ledger.sources
              /\ r.opportunity.proposal # None => <<i, r.opportunity.attempts>> \in requests
          BY <1>1, <4>1 DEF StateReconstructs, OutcomeGrounded
        <4>7. disk.ledger.sources \subseteq Sources /\ None \notin Sources
          BY <1>2, EngineAssumption DEF Ledgers, LedgerType
        <4>8. requests \subseteq (Opportunities \X (1 .. ProviderAttempts))
          BY DEF RunInv, EngineInv, StoredInv, TypeOK
        <4> QED BY <3>1, <4>2, <4>3, <4>4, <4>5, <4>6, <4>7, <4>8
      <3>3. CASE ~(i <= Len(disk.terminal))
        <4>1. i = disk.active.index /\ i # NoIndex /\ Opportunity(disk, i) = disk.active
          <5>1. disk.active.index # NoIndex
            <6> SUFFICES ASSUME disk.active.index = NoIndex PROVE FALSE
              OBVIOUS
            <6>1. disk.ledger.proposals = Len(disk.terminal)
              BY <2>1, <1>2
            <6> QED BY <6>1, <3>1, <3>3
          <5>2. disk.ledger.proposals = Len(disk.terminal) + 1
            BY <5>1, <2>1
          <5>3. i = Len(disk.terminal) + 1
            BY <5>2, <3>1, <3>3, <1>2
          <5> QED BY <5>1, <5>3, <2>2, <3>3, <1>2 DEF Opportunity, NoIndex
        <4>2. disk.active.attempts = disk.ledger.attempts[i]
          BY <2>1, <4>1 DEF ValidState
        <4>3. disk.ledger.attempts[i] <= ProviderAttempts
          BY <2>1, <3>1 DEF ValidLedger
        <4> QED BY <1>1, <1>2, <2>1, <3>1, <4>1, <4>2, <4>3 DEF EvaluationHasCandidate
      <3> QED BY <3>2, <3>3
    <2> QED BY <1>1, <1>2, <1>3, <1>6, <2>2, <2>4 DEF Sound
  <1> QED BY <1>4, <1>5

-----------------------------------------------------------------------------
\* What one write of the run state does to what the sink derives events from.
Beside(s, t) == t.status = s.status /\ t.seeded = s.seeded /\ t.terminal = s.terminal

Begins(s, t) == s = NoState /\ t = InitialState

Charges(s, t) ==
    /\ t.status = s.status /\ t.terminal = s.terminal /\ t.active = s.active
    /\ s.seeded => t.seeded

Opens(s, t) ==
    /\ Beside(s, t) /\ s.active.index = NoIndex
    /\ t.active = [NoOpportunity EXCEPT
                     !.index = Len(s.terminal) + 1,
                     !.parents = ExpectedParents(s),
                     !.transition = (Len(s.terminal) + 1) \in TransitionOpportunities]

Asks(s, t) ==
    /\ Beside(s, t) /\ s.active.index # NoIndex /\ s.active.proposal = None
    /\ t.active = [s.active EXCEPT !.attempts = s.active.attempts + 1]

RepairsWith(s, t, text) ==
    /\ Beside(s, t) /\ s.active.index # NoIndex /\ s.active.proposal = None
    /\ text \in Garbage
    /\ t.active = [s.active EXCEPT !.repairs = s.active.repairs + 1, !.previous = text]

Proposes(s, t, text) ==
    /\ Beside(s, t) /\ s.active.index # NoIndex /\ s.active.proposal = None
    /\ text \in Texts
    /\ t.active = [s.active EXCEPT !.proposal = text]

Names(s, t) ==
    /\ Beside(s, t) /\ s.active.index # NoIndex /\ s.active.candidate = None
    /\ s.active.proposal \in Sources
    /\ t.active = [s.active EXCEPT !.candidate = s.active.proposal]

Judges(s, t) ==
    /\ Beside(s, t) /\ s.active.index # NoIndex /\ s.active.candidate # None
    /\ s.active.evaluation = None
    /\ \E o \in Outcomes : t.active = [s.active EXCEPT !.evaluation = o]

Closes(s, t) ==
    /\ t.status = s.status /\ t.seeded = s.seeded /\ s.active.index # NoIndex
    /\ t.active = NoOpportunity
    /\ \E o \in Outcomes, stage \in Stages :
         t.terminal = Append(s.terminal, [opportunity |-> s.active, outcome |-> o,
                                          stage |-> stage])

Completes(s, t) ==
    /\ s.active.index = NoIndex /\ t.status = "completed"
    /\ t.active = s.active /\ t.seeded = s.seeded /\ t.terminal = s.terminal

Quiet(s, t) ==
    \/ Begins(s, t) \/ Charges(s, t) \/ Opens(s, t) \/ Asks(s, t)
    \/ Names(s, t) \/ Judges(s, t) \/ Closes(s, t) \/ Completes(s, t)

Tells(s, t, text) == RepairsWith(s, t, text) \/ Proposes(s, t, text)

Moves(s, t) == Quiet(s, t) \/ \E text \in Texts : Tells(s, t, text)

\* A write is not refused.
LEMMA Written ==
    ASSUME RunInv', NEW s, NEW to, Persist(s, to), to # "rejected"
    PROVE  disk' = s /\ mem' = s /\ pc' = to
  BY DEF RunInv, Persist

\* A write that finishes the open opportunity closes it.
LEMMA Closed ==
    ASSUME RunInv, RunInv', pc \in Holding, disk.active.index # NoIndex,
           NEW l, NEW o \in Outcomes, NEW stage \in Stages,
           Persist(Finish(mem, l, o, stage), "running")
    PROVE  /\ Closes(disk, disk') /\ mem' = disk' /\ pc' = "running"
  <1>1. mem = disk /\ disk \in StateType
    BY HeldSound
  <1>2. disk' = Finish(disk, l, o, stage) /\ mem' = disk' /\ pc' = "running"
    BY <1>1, Written
  <1>3. /\ disk'.status = disk.status /\ disk'.seeded = disk.seeded
        /\ disk'.active = NoOpportunity
        /\ disk'.terminal = Append(disk.terminal,
             [opportunity |-> disk.active, outcome |-> o, stage |-> stage])
    BY <1>1, <1>2 DEF Finish, StateType
  <1> QED BY <1>2, <1>3 DEF Closes

\* A step takes an answer only where one is awaited, and keeps it.
LEMMA NoAnswer ==
    ASSUME pc # "await" \/ mem'.active.index # mem.active.index
             \/ (mem'.active.proposal = None /\ mem'.active.repairs = mem.active.repairs)
    PROVE  NewAnswers = {}
  <1>1. None \notin Texts
    BY EngineAssumption DEF Texts
  <1> QED BY <1>1 DEF NewAnswers

\* The steps that replace the stored state.
Writing ==
    \/ StartFresh \/ RecordSeedResult \/ OpenOpportunity \/ AttemptsExhausted
    \/ ProviderGivesUp \/ CloseUnparsed \/ CloseEvaluated \/ EvaluatorFails
    \/ StartProviderAttempt \/ ProviderRetry \/ ProviderAnswers
    \/ IdentifyCandidate \/ RecordResult \/ CompleteRun

\* The engine's other steps.
Resting ==
    \/ CreateMarker \/ WriteMarker \/ Quarantine \/ Resume \/ StartSeed
    \/ EvaluatorReturns \/ ResultOverrun \/ UsageOverrun \/ StartEvaluation
    \/ SendRequest

\* Every writing step of the engine is quiet, or stores one answer.
LEMMA WritesAre ==
    ASSUME RunInv, RunInv', Writing
    PROVE  /\ \/ Quiet(disk, disk') /\ NewAnswers = {}
              \/ /\ pc = "await"
                 /\ \E text \in Texts : Tells(disk, disk', text) /\ NewAnswers = {text}
           /\ mem' = disk'
           /\ pc' \in {"running", "request", "exited"}
           /\ pc' = "exited" => disk'.status = "completed"
           /\ pc' = "request" => Asks(disk, disk')
           /\ disk.status # "completed" /\ disk'.status # "absent"
  <1>1. CASE StartFresh
    <2>1. disk = NoState /\ disk.status = "absent" /\ pc = "prepare"
      BY <1>1 DEF StartFresh, RunInv, EngineInv, StoredIsValid
    <2>2. disk' = InitialState /\ mem' = disk' /\ pc' = "running"
      BY <1>1, Written DEF StartFresh
    <2>3. disk.active.index = NoIndex /\ disk'.status = "running"
      BY <2>1, <2>2 DEF NoState, InitialState, NoOpportunity
    <2> QED BY <2>1, <2>2, <2>3, NoAnswer DEF Quiet, Begins
  <1>2. ASSUME pc \in Holding
        PROVE  /\ mem = disk /\ disk \in StateType /\ disk.status = "running"
               /\ disk.active \in ActiveType
               /\ disk.active.index # NoIndex => disk.active.index = Len(disk.terminal) + 1
               /\ disk.next = Len(disk.terminal) + 1
               /\ disk.active.attempts \in Nat /\ disk.active.repairs \in Nat
               /\ disk.active.index # NoIndex =>
                    disk.active.attempts = disk.ledger.attempts[disk.active.index]
    BY <1>2, HeldSound DEF ActiveType, ValidState
  <1>3. CASE RecordSeedResult
    <2>1. pc \in Holding /\ pc # "await"
      BY <1>3 DEF RecordSeedResult, Holding
    <2> DEFINE l == RecordSeed(mem.ledger, result.training, result.retries)
    <2>2. /\ disk' = [disk EXCEPT !.ledger = l, !.seeded = TRUE]
          /\ mem' = disk' /\ pc' = "running"
      BY <1>2, <1>3, <2>1, Written DEF RecordSeedResult
    <2>3. /\ disk'.status = disk.status /\ disk'.terminal = disk.terminal
          /\ disk'.active = disk.active /\ disk'.seeded
      BY <1>2, <2>1, <2>2 DEF StateType
    <2>4. Charges(disk, disk')
      BY <2>3 DEF Charges
    <2> QED BY <1>2, <2>1, <2>2, <2>3, <2>4, NoAnswer DEF Quiet
  <1>4. CASE OpenOpportunity
    <2>1. pc \in Holding /\ pc = "running" /\ mem.active.index = NoIndex
      BY <1>4 DEF OpenOpportunity, Idle, Ready, Holding
    <2> DEFINE b == [NoOpportunity EXCEPT
                       !.index = Len(disk.terminal) + 1,
                       !.parents = ExpectedParents(disk),
                       !.transition = (Len(disk.terminal) + 1) \in TransitionOpportunities]
    <2>2. /\ disk' = [disk EXCEPT !.ledger = Begin(disk.ledger, disk.next), !.active = b]
          /\ mem' = disk' /\ pc' = "running"
      BY <1>2, <1>4, <2>1, Written DEF OpenOpportunity
    <2> HIDE DEF b
    <2>3. Beside(disk, disk') /\ disk'.active = b
      BY <1>2, <2>1, <2>2 DEF StateType, Beside
    <2>4. Opens(disk, disk')
      BY <1>2, <2>1, <2>3 DEF Opens, b
    <2> QED BY <1>2, <2>1, <2>2, <2>3, <2>4, NoAnswer DEF Quiet, Beside
  <1>5. CASE AttemptsExhausted \/ ProviderGivesUp \/ CloseUnparsed \/ CloseEvaluated
             \/ (EvaluatorFails /\ ~CanRetry(mem.ledger))
    <2>1. /\ pc \in Holding /\ disk.active.index # NoIndex
      <3>1. CASE AttemptsExhausted \/ CloseUnparsed \/ CloseEvaluated
        BY <1>2, <3>1 DEF AttemptsExhausted, Proposing, CloseUnparsed, CloseEvaluated,
                          Answered, Ready, Holding
      <3>2. CASE ProviderGivesUp \/ EvaluatorFails
        BY <3>2 DEF ProviderGivesUp, EvaluatorFails, Holding, RunInv, EngineInv,
                    PlaceIsStored
      <3> QED BY <1>5, <3>1, <3>2
    <2>3. PICK l, o, stage : /\ o \in Outcomes /\ stage \in Stages
                             /\ Persist(Finish(mem, l, o, stage), "running")
      <3>1. CASE AttemptsExhausted
        BY <3>1 DEF AttemptsExhausted, Outcomes, Stages
      <3>2. CASE ProviderGivesUp
        BY <3>2 DEF ProviderGivesUp, Outcomes, Stages
      <3>3. CASE CloseUnparsed
        BY <3>3 DEF CloseUnparsed, Outcomes, Stages
      <3>4. CASE CloseEvaluated
        <4>1. mem.active.evaluation \in Outcomes
          BY <1>2, <2>1, <3>4 DEF CloseEvaluated, ActiveType
        <4> QED BY <3>4, <4>1 DEF CloseEvaluated, Stages
      <3>5. CASE EvaluatorFails /\ ~CanRetry(mem.ledger)
        BY <3>5 DEF EvaluatorFails, Outcomes, Stages
      <3> QED BY <1>5, <3>1, <3>2, <3>3, <3>4, <3>5
    <2>4. Closes(disk, disk') /\ mem' = disk' /\ pc' = "running"
      BY <2>1, <2>3, Closed
    <2>5. mem'.active.index # mem.active.index /\ disk'.status = "running"
      BY <1>2, <2>1, <2>4 DEF Closes, NoOpportunity
    <2> QED BY <1>2, <2>1, <2>4, <2>5, NoAnswer DEF Quiet
  <1>6. CASE StartProviderAttempt
    <2>1. pc \in Holding /\ pc = "running" /\ mem.active.index # NoIndex
          /\ mem.active.proposal = None
      BY <1>6 DEF StartProviderAttempt, Proposing, Ready, Holding
    <2> DEFINE b == [disk.active EXCEPT !.attempts = disk.active.attempts + 1]
    <2>2. /\ disk' = [disk EXCEPT !.ledger = StartAttempt(disk.ledger), !.active = b]
          /\ mem' = disk' /\ pc' = "request"
      <3>1. Persist([disk EXCEPT !.ledger = StartAttempt(@),
                                 !.active.attempts = disk.active.attempts + 1], "request")
        BY <1>2, <1>6, <2>1 DEF StartProviderAttempt
      <3> QED BY <1>2, <2>1, <3>1, Written
    <2> HIDE DEF b
    <2>3. Beside(disk, disk') /\ disk'.active = b
      BY <1>2, <2>1, <2>2 DEF StateType, Beside
    <2>4. Asks(disk, disk')
      BY <1>2, <2>1, <2>3 DEF Asks, b
    <2> QED BY <1>2, <2>1, <2>2, <2>3, <2>4, NoAnswer DEF Quiet, Beside
  <1>7. CASE ProviderRetry \/ (EvaluatorFails /\ CanRetry(mem.ledger))
    <2>1. pc \in Holding
      BY <1>7 DEF ProviderRetry, EvaluatorFails, Holding
    <2>2. /\ disk' = [disk EXCEPT !.ledger = RecordRetry(disk.ledger)]
          /\ mem' = disk' /\ pc' = "running"
      BY <1>2, <1>7, <2>1, Written DEF ProviderRetry, EvaluatorFails
    <2>3. /\ disk'.status = disk.status /\ disk'.terminal = disk.terminal
          /\ disk'.active = disk.active /\ disk'.seeded = disk.seeded
      BY <1>2, <2>1, <2>2 DEF StateType
    <2>4. Charges(disk, disk')
      BY <2>3 DEF Charges
    <2>5. pc # "await" \/ mem'.active.proposal = None
      <3>1. pc = "await" => disk.active.proposal = None
        BY DEF RunInv, ActiveIsGrounded
      <3> QED BY <2>2, <2>3, <3>1
    <2>6. NewAnswers = {}
      BY <1>2, <2>1, <2>2, <2>3, <2>5, NoAnswer
    <2> QED BY <1>2, <2>1, <2>2, <2>3, <2>4, <2>6 DEF Quiet
  <1>8. CASE ProviderAnswers
    <2>1. /\ pc \in Holding /\ pc = "await" /\ disk.active.index # NoIndex
          /\ disk.active.proposal = None
      BY <1>8 DEF ProviderAnswers, AnswerParses, AnswerUnparsed, Holding, RunInv,
                  EngineInv, PlaceIsStored, ActiveIsGrounded
    <2>2. PICK text \in Texts, usage \in Usages :
             AnswerParses(text, usage) \/ AnswerUnparsed(text, usage)
      BY <1>8 DEF ProviderAnswers
    <2> DEFINE p == [disk.active EXCEPT !.proposal = text]
               b == [disk.active EXCEPT !.repairs = disk.active.repairs + 1,
                                        !.previous = text]
    <2>3. \/ \E l : /\ disk' = [disk EXCEPT !.ledger = l, !.active = p]
                    /\ mem' = disk' /\ pc' = "running"
          \/ \E l : /\ disk' = [disk EXCEPT !.ledger = l, !.active = b]
                    /\ mem' = disk' /\ pc' = "running" /\ text \in Garbage
      <3>1. CASE AnswerParses(text, usage)
        <4>1. Persist([disk EXCEPT !.ledger = RecordUsage(@, usage),
                                   !.active.proposal = text], "running")
          BY <1>2, <2>1, <3>1 DEF AnswerParses
        <4>2. disk' = [disk EXCEPT !.ledger = RecordUsage(disk.ledger, usage), !.active = p]
              /\ mem' = disk' /\ pc' = "running"
          BY <4>1, Written
        <4> HIDE DEF p
        <4> QED BY <4>2
      <3>2. CASE AnswerUnparsed(text, usage)
        <4> DEFINE l == RecordParseFailure(RecordUsage(disk.ledger, usage))
        <4>1. \/ Persist([disk EXCEPT !.ledger = RecordRepair(l),
                                      !.active.repairs = @ + 1,
                                      !.active.previous = text], "running")
              \/ Persist([disk EXCEPT !.ledger = l, !.active.proposal = text], "running")
          BY <1>2, <2>1, <3>2 DEF AnswerUnparsed
        <4>2. text \in Garbage
          BY <3>2 DEF AnswerUnparsed
        <4> HIDE DEF l
        <4>3. \/ /\ disk' = [disk EXCEPT !.ledger = RecordRepair(l), !.active = b]
                 /\ mem' = disk' /\ pc' = "running"
              \/ /\ disk' = [disk EXCEPT !.ledger = l, !.active = p]
                 /\ mem' = disk' /\ pc' = "running"
          BY <4>1, Written
        <4> HIDE DEF p, b
        <4> QED BY <4>2, <4>3
      <3> QED BY <2>2, <3>1, <3>2
    <2> HIDE DEF p, b
    <2>4. \/ Beside(disk, disk') /\ disk'.active = p
          \/ Beside(disk, disk') /\ disk'.active = b /\ text \in Garbage
      BY <1>2, <2>1, <2>3 DEF StateType, Beside
    <2>5. Tells(disk, disk', text)
      BY <2>1, <2>2, <2>4 DEF Tells, Proposes, RepairsWith, p, b
    <2>6. mem' = disk' /\ pc' = "running"
      BY <2>3
    <2>7. NewAnswers = {text}
      <3>1. None \notin Texts /\ text # None
        BY EngineAssumption DEF Texts
      <3>2. CASE disk'.active = p
        <4>1. disk'.active.index = disk.active.index /\ disk'.active.proposal = text
              /\ disk'.active.repairs = disk.active.repairs
          BY <1>2, <2>1, <3>2 DEF p, ActiveType
        <4> QED BY <1>2, <2>1, <2>6, <4>1 DEF NewAnswers
      <3>3. CASE disk'.active = b
        <4>1. /\ disk'.active.index = disk.active.index /\ disk'.active.proposal = None
              /\ disk'.active.previous = text
              /\ disk'.active.repairs = disk.active.repairs + 1
          BY <1>2, <2>1, <3>3 DEF b, ActiveType
        <4>2. disk'.active.repairs # disk.active.repairs
          BY <1>2, <2>1, <4>1
        <4> QED BY <1>2, <2>1, <2>6, <3>1, <4>1, <4>2 DEF NewAnswers
      <3> QED BY <2>4, <3>2, <3>3
    <2> QED BY <1>2, <2>1, <2>4, <2>5, <2>6, <2>7 DEF Beside
  <1>9. CASE IdentifyCandidate
    <2>1. pc \in Holding /\ pc = "running" /\ mem.active.index # NoIndex
          /\ mem.active.proposal \in Sources /\ mem.active.candidate = None
      BY <1>9 DEF IdentifyCandidate, Answered, Ready, Holding
    <2> DEFINE b == [disk.active EXCEPT !.candidate = disk.active.proposal]
    <2>2. /\ disk' = [disk EXCEPT !.ledger = RecordSource(disk.ledger, disk.active.proposal),
                                  !.active = b]
          /\ mem' = disk' /\ pc' = "running"
      <3>1. Persist([disk EXCEPT !.ledger = RecordSource(@, disk.active.proposal),
                                 !.active.candidate = disk.active.proposal], "running")
        BY <1>2, <1>9, <2>1 DEF IdentifyCandidate
      <3> QED BY <1>2, <2>1, <3>1, Written
    <2> HIDE DEF b
    <2>3. Beside(disk, disk') /\ disk'.active = b
      BY <1>2, <2>1, <2>2 DEF StateType, Beside
    <2>4. Names(disk, disk')
      BY <1>2, <2>1, <2>3 DEF Names, b
    <2> QED BY <1>2, <2>1, <2>2, <2>3, <2>4, NoAnswer DEF Quiet, Beside
  <1>10. CASE RecordResult
    <2>1. pc \in Holding /\ pc = "record" /\ mem.active.index # NoIndex
          /\ mem.active.candidate # None /\ mem.active.evaluation = None
          /\ result.outcome \in Outcomes
      <3>1. pc \in Holding /\ pc = "record" /\ mem = disk
        BY <1>2, <1>10 DEF RecordResult, Holding
      <3>2. /\ disk.active.index # NoIndex /\ mem.active.candidate # None
            /\ disk.active.evaluation = None /\ result # None
        BY <3>1 DEF RunInv, EngineInv, StoredInv, PlaceIsStored, EvaluationHasCandidate,
                    ActiveIsGrounded
      <3>3. result.outcome \in Outcomes
        BY <3>2 DEF RunInv, EngineInv, StoredInv, TypeOK
      <3> QED BY <3>1, <3>2, <3>3
    <2> DEFINE b == [disk.active EXCEPT !.evaluation = result.outcome]
               l == RecordEvaluation(disk.ledger, result.training, result.retries)
    <2>2. /\ disk' = [disk EXCEPT !.ledger = l, !.active = b]
          /\ mem' = disk' /\ pc' = "running"
      <3>1. Persist([disk EXCEPT !.ledger = l, !.active.evaluation = result.outcome],
                    "running")
        BY <1>2, <1>10, <2>1 DEF RecordResult
      <3> QED BY <1>2, <2>1, <3>1, Written
    <2> HIDE DEF b, l
    <2>3. Beside(disk, disk') /\ disk'.active = b
      BY <1>2, <2>1, <2>2 DEF StateType, Beside
    <2>4. Judges(disk, disk')
      BY <1>2, <2>1, <2>3 DEF Judges, b
    <2> QED BY <1>2, <2>1, <2>2, <2>3, <2>4, NoAnswer DEF Quiet, Beside
  <1>11. CASE CompleteRun
    <2>1. pc \in Holding /\ pc = "running" /\ mem.active.index = NoIndex
      BY <1>11 DEF CompleteRun, Idle, Ready, Holding
    <2>2. disk' = [disk EXCEPT !.status = "completed"] /\ mem' = disk' /\ pc' = "exited"
      BY <1>2, <1>11, <2>1, Written DEF CompleteRun
    <2>3. Completes(disk, disk')
      BY <1>2, <2>1, <2>2 DEF StateType, Completes
    <2> QED BY <1>2, <2>1, <2>2, <2>3, NoAnswer DEF Quiet, Completes
  <1> QED BY <1>1, <1>3, <1>4, <1>5, <1>6, <1>7, <1>8, <1>9, <1>10, <1>11 DEF Writing

\* The other steps leave the stored state alone.
LEMMA RestingSteps ==
    ASSUME EngineStep
    PROVE  Writing \/ (Resting /\ disk' = disk)
  <1>1. Resting => disk' = disk
    BY DEF Resting, CreateMarker, WriteMarker, Quarantine, StartSeed, EvaluatorReturns,
           ResultOverrun, UsageOverrun, StartEvaluation, SendRequest, Resume
  <1> QED BY <1>1 DEF EngineStep, Resting, Writing

\* So is every engine step that changes the stored state.
LEMMA EngineWrites ==
    ASSUME RunInv, RunInv', EngineStep, disk' # disk
    PROVE  /\ \/ Quiet(disk, disk') /\ NewAnswers = {}
              \/ /\ pc = "await"
                 /\ \E text \in Texts : Tells(disk, disk', text) /\ NewAnswers = {text}
           /\ mem' = disk'
           /\ pc' \in {"running", "request", "exited"}
           /\ pc' = "exited" => disk'.status = "completed"
           /\ pc' = "request" => Asks(disk, disk')
           /\ disk.status # "completed" /\ disk'.status # "absent"
           /\ requests' = requests
  <1>1. Writing
    BY RestingSteps
  <1>2. requests' = requests
    BY <1>1 DEF Writing, StartFresh, RecordSeedResult, OpenOpportunity, AttemptsExhausted,
                ProviderGivesUp, CloseUnparsed, CloseEvaluated, EvaluatorFails,
                StartProviderAttempt, ProviderRetry, ProviderAnswers, AnswerParses,
                AnswerUnparsed, IdentifyCandidate, RecordResult, CompleteRun, ghosts
  <1> QED BY <1>1, <1>2, WritesAre

\* A step that writes nothing answers nothing, and at most sends the request of
\* the attempt that is stored.
LEMMA EngineRests ==
    ASSUME RunInv, RunInv', EngineStep, disk' = disk
    PROVE  /\ NewAnswers = {}
           /\ pc' \in {"request", "await"} => pc = "request" /\ pc' = "await"
           /\ \/ requests' = requests
              \/ /\ pc = "request"
                 /\ requests' = requests \cup {<<disk.active.index, disk.active.attempts>>}
           /\ pc' = "exited" => mem' = disk' /\ disk.status = "completed"
  <1>1. CASE Writing
    <2>1. requests' = requests
      BY <1>1 DEF Writing, StartFresh, RecordSeedResult, OpenOpportunity,
                  AttemptsExhausted, ProviderGivesUp, CloseUnparsed, CloseEvaluated,
                  EvaluatorFails, StartProviderAttempt, ProviderRetry, ProviderAnswers,
                  AnswerParses, AnswerUnparsed, IdentifyCandidate, RecordResult,
                  CompleteRun, ghosts
    <2>2. disk.active \in ActiveType
      BY StoredIsSound DEF Sound, StateType
    <2>3. ~Asks(disk, disk)
      <3> SUFFICES ASSUME Asks(disk, disk) PROVE FALSE
        OBVIOUS
      <3>1. disk.active.attempts = disk.active.attempts + 1 /\ disk.active.attempts \in Nat
        BY <2>2 DEF Asks, ActiveType
      <3> QED BY <3>1
    <2>4. ASSUME NEW text \in Texts, Tells(disk, disk, text)
          PROVE  FALSE
      <3>1. text # None
        BY EngineAssumption DEF Texts
      <3>2. CASE RepairsWith(disk, disk, text)
        <4>1. /\ disk.active.repairs = disk.active.repairs + 1
              /\ disk.active.repairs \in Nat
          BY <2>2, <3>2 DEF RepairsWith, ActiveType
        <4> QED BY <4>1
      <3>3. CASE Proposes(disk, disk, text)
        BY <2>2, <3>3, <3>1 DEF Proposes, ActiveType
      <3> QED BY <2>4, <3>2, <3>3 DEF Tells
    <2> QED BY <1>1, <2>1, <2>3, <2>4, WritesAre
  <1>2. CASE Resting
    <2>1. CASE UsageOverrun
      <3>1. disk.active.index # NoIndex /\ mem = disk
        BY <2>1 DEF UsageOverrun, RunInv, EngineInv, StoredInv, PlaceIsStored,
                    MemoryIsStored, Holding
      <3>2. mem'.active.index = NoIndex
        BY <2>1 DEF UsageOverrun, NoState, InitialState, NoOpportunity
      <3>3. pc' = "down" /\ requests' = requests
        BY <2>1 DEF UsageOverrun, ghosts
      <3> QED BY <3>1, <3>2, <3>3, NoAnswer
    <2>2. CASE SendRequest
      BY <2>2, NoAnswer
         DEF SendRequest, RunInv, EngineInv, StoredInv, MemoryIsStored, Holding
    <2>3. CASE Resume
      BY <2>3, NoAnswer DEF Resume, ghosts
    <2>4. CASE ~UsageOverrun /\ ~SendRequest /\ ~Resume
      <3>1. /\ pc # "await" /\ requests' = requests
            /\ pc' \notin {"request", "await", "exited"}
        <4>1. CASE CreateMarker \/ WriteMarker \/ Quarantine
          BY <4>1 DEF CreateMarker, WriteMarker, Quarantine, ghosts
        <4>2. CASE StartSeed \/ ResultOverrun \/ StartEvaluation
          BY <4>2 DEF StartSeed, ResultOverrun, StartEvaluation, Answered, Ready, ghosts
        <4>3. CASE EvaluatorReturns
          BY <4>3 DEF EvaluatorReturns
        <4> QED BY <1>2, <2>4, <4>1, <4>2, <4>3 DEF Resting
      <3> QED BY <3>1, NoAnswer
    <2> QED BY <2>1, <2>2, <2>3, <2>4
  <1> QED BY <1>1, <1>2, RestingSteps

-----------------------------------------------------------------------------
\* The fields of an event.
LEMMA EventFields ==
    ASSUME NEW kind, NEW i, NEW n, NEW body
    PROVE  /\ Event(kind, i, n, body).kind = kind
           /\ Event(kind, i, n, body).index = i
           /\ Event(kind, i, n, body).number = n
           /\ Event(kind, i, n, body).body = body
  BY DEF Event

\* The opportunities of a sound state are its terminal ones, then the active one.
LEMMA OpenedIs ==
    ASSUME NEW s, Sound(s)
    PROVE  /\ Len(s.terminal) \in Nat
           /\ \A i : i \in Opened(s) <=>
                \/ i \in 1 .. Len(s.terminal)
                \/ s.active.index # NoIndex /\ i = Len(s.terminal) + 1
           /\ \A i \in 1 .. Len(s.terminal) :
                /\ Opportunity(s, i) = s.terminal[i].opportunity
                /\ s.terminal[i] \in TerminalType
           /\ s.active.index # NoIndex =>
                /\ s.active.index = Len(s.terminal) + 1
                /\ Opportunity(s, s.active.index) = s.active
  <1> DEFINE n == IF s.active.index = NoIndex THEN 0 ELSE 1
             m == Len(s.terminal)
  <1>1. /\ m \in Nat /\ Opened(s) = 1 .. (m + n)
        /\ n = 0 <=> s.active.index = NoIndex /\ n \in {0, 1}
    BY DEF Sound, Opened
  <1>2. s.active.index # NoIndex => n = 1 /\ s.active.index = m + 1
    BY DEF Sound
  <1>3. s.active.index = NoIndex => n = 0
    OBVIOUS
  <1>4. \A i \in 1 .. m : s.terminal[i] \in TerminalType
    BY ElementOfSeq DEF Sound, StateType
  <1>5. \A i \in 1 .. m : Opportunity(s, i) = s.terminal[i].opportunity
    BY DEF Opportunity
  <1>6. s.active.index # NoIndex => Opportunity(s, s.active.index) = s.active
    BY <1>1, <1>2 DEF Opportunity
  <1> HIDE DEF n, m
  <1> QED BY <1>1, <1>2, <1>3, <1>4, <1>5, <1>6 DEF m

\* What is known of every opportunity that was opened.
LEMMA SoundOpportunity ==
    ASSUME NEW s, Sound(s), NEW i \in Opened(s)
    PROVE  /\ i \in Nat /\ i > 0 /\ i \in Opportunities /\ i <= ProposalOpportunities
           /\ Opportunity(s, i) \in ActiveType
           /\ Opportunity(s, i).index = i
           /\ Opportunity(s, i).attempts \in Nat
           /\ Opportunity(s, i).attempts <= ProviderAttempts
           /\ Opportunity(s, i).repairs \in Nat
           /\ Opportunity(s, i).proposal # None => Opportunity(s, i).attempts > 0
           /\ Opportunity(s, i).evaluation # None => Opportunity(s, i).candidate # None
           /\ Latest(Opportunity(s, i)) \in Nat
           /\ Latest(Opportunity(s, i)) <= Opportunity(s, i).attempts
  BY BudgetAssumption DEF Sound, ActiveType, Opportunities, Latest

\* A response or a repair, from the opportunity that it is about.
LEMMA RepairEventIs ==
    ASSUME NEW a, a.repairs \in Nat, NEW events, NEW e
    PROVE  e \in RepairEvents(a, events) <=>
             \/ /\ a.repairs > 0 /\ RepairedAttempt(a, events) > 0
                /\ e = Event("response", a.index, RepairedAttempt(a, events),
                             Response(a.previous, FALSE, FALSE))
             \/ \E r \in 1 .. a.repairs :
                  e = Event("repair", a.index, r,
                            IF RepairedAttempt(a, events) > 0
                              THEN RepairedAttempt(a, events) ELSE 1)
  <1> DEFINE n == RepairedAttempt(a, events)
             response == Event("response", a.index, n, Response(a.previous, FALSE, FALSE))
             failed == IF n > 0 THEN n ELSE 1
  <1>1. RepairEvents(a, events) =
          {response : r \in {m \in 1 .. a.repairs : n > 0}}
            \cup {Event("repair", a.index, r, failed) : r \in 1 .. a.repairs}
    BY DEF RepairEvents
  <1>2. e \in {response : r \in {m \in 1 .. a.repairs : n > 0}} <=>
          a.repairs > 0 /\ n > 0 /\ e = response
    <2>1. a.repairs > 0 => 1 \in 1 .. a.repairs
      OBVIOUS
    <2>2. \A r \in 1 .. a.repairs : a.repairs > 0
      OBVIOUS
    <2> HIDE DEF response, n
    <2> QED BY <2>1, <2>2
  <1>3. e \in {Event("repair", a.index, r, failed) : r \in 1 .. a.repairs} <=>
          \E r \in 1 .. a.repairs : e = Event("repair", a.index, r, failed)
    OBVIOUS
  <1> HIDE DEF response, failed, n
  <1>4. e \in RepairEvents(a, events) <=>
          \/ a.repairs > 0 /\ n > 0 /\ e = response
          \/ \E r \in 1 .. a.repairs : e = Event("repair", a.index, r, failed)
    BY <1>1, <1>2, <1>3
  <1> QED BY <1>4 DEF response, failed, n

\* The positions of a text in the log are a finite set of them.
LEMMA MatchingType ==
    ASSUME NEW events, Len(events) \in Nat, NEW i, NEW text
    PROVE  /\ Matching(events, i, text) \in SUBSET Nat
           /\ Matching(events, i, text) \subseteq 1 .. Len(events)
           /\ IsFiniteSet(Matching(events, i, text))
  <1>1. Matching(events, i, text) \subseteq 1 .. Len(events)
    BY DEF Matching
  <1>2. IsFiniteSet(1 .. Len(events))
    BY FS_Interval
  <1> QED BY <1>1, <1>2, FS_Subset

\* To which attempt the response kept for a repair is attributed.
LEMMA Attributed ==
    ASSUME NEW s, Sound(s), NEW i \in Opened(s), NEW events, Len(events) \in Nat,
           \A k \in 1 .. Len(events) : Called(events[k], s)
    PROVE  LET a == Opportunity(s, i)
               n == RepairedAttempt(a, events)
           IN /\ n \in Nat /\ n <= a.attempts
              /\ Matching(events, i, a.previous) = {} => n = Latest(a)
              /\ Latest(a) = 0 => n = 0
              /\ Latest(a) > 0 => n > 0
              /\ Latest(a) > 0 /\ Matching(events, i, a.previous) # {} =>
                   \E m \in Matching(events, i, a.previous) :
                     /\ n = events[m].number
                     /\ \A j \in Matching(events, i, a.previous) : j <= m
  <1> DEFINE a == Opportunity(s, i)
             n == RepairedAttempt(a, events)
             M == Matching(events, i, a.previous)
  <1>1. /\ a.index = i /\ Latest(a) \in Nat /\ Latest(a) <= a.attempts /\ a.attempts \in Nat
    BY SoundOpportunity
  <1>2. CASE Latest(a) > 0 /\ M # {}
    <2>1. M \in SUBSET Nat /\ M \subseteq 1 .. Len(events) /\ IsFiniteSet(M)
      BY MatchingType
    <2>2. \E m \in M : \A j \in M : j <= m
      BY <1>2, <2>1, GreatestNumber
    <2> DEFINE last == CHOOSE k \in M : \A j \in M : j <= k
    <2>3. last \in M /\ \A j \in M : j <= last
      BY <2>2
    <2>4. n = events[last].number
      BY <1>1, <1>2 DEF RepairedAttempt
    <2>5. events[last].kind = "response" /\ events[last].index = i
      BY <2>3 DEF Matching
    <2>6. events[last].number \in 1 .. a.attempts
      BY <2>1, <2>3, <2>5 DEF Called
    <2> HIDE DEF last, M, n
    <2> QED BY <1>1, <1>2, <2>3, <2>4, <2>6 DEF M, n
  <1>3. CASE ~(Latest(a) > 0 /\ M # {})
    <2>1. n = Latest(a)
      BY <1>1, <1>3 DEF RepairedAttempt
    <2> HIDE DEF n, M
    <2> QED BY <1>1, <1>3, <2>1 DEF n, M
  <1> QED BY <1>2, <1>3

\* What a state calls for of its repairs is admitted by it.
LEMMA RepairsAreCalled ==
    ASSUME NEW s, Sound(s), NEW i \in Opened(s), NEW events, Len(events) \in Nat,
           \A k \in 1 .. Len(events) : Called(events[k], s),
           NEW e \in RepairEvents(Opportunity(s, i), events)
    PROVE  /\ Called(e, s) /\ e.kind \in {"response", "repair"} /\ e.index = i
           /\ Opportunity(s, i).repairs > 0
  <1> DEFINE a == Opportunity(s, i)
             n == RepairedAttempt(a, events)
  <1>1. /\ a.index = i /\ a.repairs \in Nat /\ a.attempts \in Nat
    BY SoundOpportunity
  <1>2. n \in Nat /\ n <= a.attempts
    BY Attributed
  <1> HIDE DEF n
  <1>3. \/ /\ a.repairs > 0 /\ n > 0
           /\ e = Event("response", a.index, n, Response(a.previous, FALSE, FALSE))
        \/ \E r \in 1 .. a.repairs :
             e = Event("repair", a.index, r, IF n > 0 THEN n ELSE 1)
    BY <1>1, RepairEventIs DEF n
  <1>4. CASE /\ a.repairs > 0 /\ n > 0
             /\ e = Event("response", a.index, n, Response(a.previous, FALSE, FALSE))
    <2>1. /\ e.kind = "response" /\ e.index = i /\ e.number = n
          /\ e.body = Response(a.previous, FALSE, FALSE)
      BY <1>1, <1>4 DEF Event
    <2>2. e.body = Response(e.body.text, e.body.parsed, e.body.tokens)
      BY <2>1 DEF Response
    <2>3. n \in 1 .. a.attempts
      BY <1>1, <1>2, <1>4
    <2> QED BY <1>1, <1>4, <2>1, <2>2, <2>3 DEF Called
  <1>5. CASE \E r \in 1 .. a.repairs :
               e = Event("repair", a.index, r, IF n > 0 THEN n ELSE 1)
    <2>1. PICK r \in 1 .. a.repairs :
             e = Event("repair", a.index, r, IF n > 0 THEN n ELSE 1)
      BY <1>5
    <2>2. /\ e.kind = "repair" /\ e.index = i /\ e.number = r
          /\ e = Event(e.kind, e.index, e.number, e.body)
      BY <1>1, <2>1, EventFields
    <2> QED BY <1>1, <2>1, <2>2 DEF Called
  <1> QED BY <1>3, <1>4, <1>5

\* So is what it calls for of its answer.
LEMMA ResponseIsCalled ==
    ASSUME NEW s, Sound(s), NEW i \in Opened(s),
           NEW e \in ResponseEvents(Opportunity(s, i))
    PROVE  LET a == Opportunity(s, i)
           IN /\ Called(e, s) /\ a.proposal # None
              /\ e.kind = "response" /\ e.index = i /\ e.number = a.attempts
              /\ e.body = Response(a.proposal, a.proposal \in Sources, TRUE)
              /\ e = Event("response", i, a.attempts, e.body)
  <1> DEFINE a == Opportunity(s, i)
             body == Response(a.proposal, a.proposal \in Sources, TRUE)
  <1>1. a.index = i /\ a.attempts \in Nat /\ (a.proposal # None => a.attempts > 0)
    BY SoundOpportunity
  <1>2. a.proposal # None /\ e = Event("response", a.index, a.attempts, body)
    BY DEF ResponseEvents
  <1>4. body = Response(body.text, body.parsed, body.tokens)
    BY DEF Response
  <1> HIDE DEF body
  <1>3. /\ e.kind = "response" /\ e.index = i /\ e.number = a.attempts
        /\ e.body = body /\ e = Event("response", i, a.attempts, e.body)
    BY <1>1, <1>2 DEF Event
  <1>5. Called(e, s)
    BY <1>1, <1>2, <1>3, <1>4 DEF Called
  <1> QED BY <1>2, <1>3, <1>5 DEF body

-----------------------------------------------------------------------------
\* The events that tell the answers of an opportunity, and the other ones that
\* a state calls for, by what they are.
Tellings(a, events) == RepairEvents(a, events) \cup ResponseEvents(a)

BudgetEvent(s) == Event("budget", Final, 0, BudgetTotals(s.ledger))

Standing(e, s) == Called(e, s) /\ e.kind \notin {"repair", "response", "budget"}

\* An admitted event is one of the events of the store, but for the freeze.
LEMMA CalledForm ==
    ASSUME NEW s, NEW e, Called(e, s)
    PROVE  /\ e = Event(e.kind, e.index, e.number, e.body)
           /\ e.kind \in {"started", "parents", "attempt", "repair", "response",
                          "candidate", "training", "evaluation", "promotion",
                          "failure", "budget", "completed"}
  <1>1. e.kind \in {"started", "parents", "attempt", "repair", "response",
                    "candidate", "training", "evaluation", "promotion",
                    "failure", "budget", "completed"}
    BY DEF Called
  <1>2. \E number, body : e = Event(e.kind, e.index, number, body)
    BY <1>1 DEF Called
  <1>3. PICK number, body : e = Event(e.kind, e.index, number, body)
    BY <1>2
  <1>4. e.number = number /\ e.body = body
    BY <1>3 DEF Event
  <1> QED BY <1>1, <1>3, <1>4

\* What stands of an opportunity before it is closed.
LEMMA OpportunityIsStanding ==
    ASSUME NEW s, Sound(s), NEW i \in Opened(s), NEW e
    PROVE  LET a == Opportunity(s, i)
           IN e \in {Event("parents", a.index, 0, <<a.parents, a.transition>>)}
                      \cup AttemptEvents(a) \cup CandidateEvents(a) <=>
                Standing(e, s) /\ e.index = i /\ e.kind \notin {"promotion", "failure"}
  <1> DEFINE a == Opportunity(s, i)
             S == {Event("parents", a.index, 0, <<a.parents, a.transition>>)}
                    \cup AttemptEvents(a) \cup CandidateEvents(a)
  <1>1. a.index = i /\ i \in Nat /\ i > 0 /\ i # NoIndex /\ i # Final /\ a.attempts \in Nat
    BY SoundOpportunity, BudgetAssumption DEF NoIndex, Final
  <1> HIDE DEF a
  <1>2. e \in S <=>
          \/ e = Event("parents", i, 0, <<a.parents, a.transition>>)
          \/ \E n \in 1 .. a.attempts : e = Event("attempt", i, n, None)
          \/ a.candidate # None /\ e = Event("candidate", i, 0, a.candidate)
          \/ a.evaluation # None /\ e = Event("training", i, 0, None)
          \/ a.evaluation # None /\ e = Event("evaluation", i, 0, a.evaluation)
    BY <1>1 DEF AttemptEvents, CandidateEvents, EvaluationEvents
  <1>3. ASSUME e \in S
        PROVE  Standing(e, s) /\ e.index = i /\ e.kind \notin {"promotion", "failure"}
    BY <1>1, <1>2, <1>3 DEF Event, Standing, Called, a
  <1>4. ASSUME Standing(e, s), e.index = i, e.kind \notin {"promotion", "failure"}
        PROVE  e \in S
    BY <1>4, <1>1, <1>2 DEF Standing, Called, a
  <1> QED BY <1>3, <1>4 DEF a

\* What stands of how opportunities were closed.
LEMMA ClosingIsStanding ==
    ASSUME NEW s, Sound(s), NEW e
    PROVE  (\E i \in 1 .. Len(s.terminal) : e \in ClosingEvents(s.terminal[i])) <=>
              Standing(e, s) /\ e.kind \in {"promotion", "failure"}
  <1>1. ASSUME NEW i \in 1 .. Len(s.terminal)
        PROVE  /\ Opportunity(s, i) = s.terminal[i].opportunity
               /\ s.terminal[i].opportunity.index = i
               /\ s.terminal[i].outcome \in Outcomes
    <2>1. i \in Opened(s) /\ i \in Nat /\ i <= Len(s.terminal)
      BY OpenedIs
    <2>2. Opportunity(s, i) = s.terminal[i].opportunity
      BY <2>1 DEF Opportunity
    <2>3. Opportunity(s, i).index = i
      BY <2>1, SoundOpportunity
    <2>4. s.terminal[i] \in TerminalType
      BY ElementOfSeq DEF Sound, StateType
    <2> QED BY <2>2, <2>3, <2>4 DEF TerminalType
  <1>2. ASSUME NEW i \in 1 .. Len(s.terminal), e \in ClosingEvents(s.terminal[i])
        PROVE  Standing(e, s) /\ e.kind \in {"promotion", "failure"}
    <2> DEFINE t == s.terminal[i]
    <2>1. /\ Opportunity(s, i) = t.opportunity /\ t.opportunity.index = i
          /\ t.outcome \in Outcomes
      BY <1>1
    <2> HIDE DEF t
    <2>2. \/ /\ t.outcome = "accepted"
             /\ e = Event("promotion", i, 0, t.opportunity.candidate)
          \/ /\ t.outcome \notin {"accepted", "rejected"}
             /\ e = Event("failure", i, 0, t.outcome)
      BY <1>2, <2>1 DEF t, ClosingEvents
    <2>3. CASE /\ t.outcome = "accepted"
               /\ e = Event("promotion", i, 0, t.opportunity.candidate)
      BY <2>1, <2>3 DEF Event, Standing, Called, t
    <2>4. CASE /\ t.outcome \notin {"accepted", "rejected"}
               /\ e = Event("failure", i, 0, t.outcome)
      BY <2>1, <2>4 DEF Event, Standing, Called, t
    <2> QED BY <2>2, <2>3, <2>4
  <1>3. ASSUME Standing(e, s), e.kind \in {"promotion", "failure"}
        PROVE  \E i \in 1 .. Len(s.terminal) : e \in ClosingEvents(s.terminal[i])
    <2> DEFINE i == e.index
               t == s.terminal[i]
    <2>1. i \in 1 .. Len(s.terminal)
      BY <1>3 DEF Standing, Called
    <2>2. /\ Opportunity(s, i) = t.opportunity /\ t.opportunity.index = i
          /\ t.outcome \in Outcomes
      BY <1>1, <2>1
    <2>3. \/ /\ t.outcome = "accepted"
             /\ e = Event("promotion", i, 0, t.opportunity.candidate)
          \/ /\ t.outcome \notin {"accepted", "rejected"}
             /\ e = Event("failure", i, 0, t.outcome)
      BY <1>3, <2>2 DEF Standing, Called
    <2> HIDE DEF t, i
    <2>4. e \in ClosingEvents(t)
      BY <2>2, <2>3 DEF ClosingEvents
    <2> QED BY <2>1, <2>4 DEF t
  <1> QED BY <1>2, <1>3

\* What a state calls for.
LEMMA ExpectedIs ==
    ASSUME NEW s, Sound(s), NEW events, NEW e
    PROVE  e \in Expected(s, events) <=>
             \/ Standing(e, s)
             \/ e = BudgetEvent(s)
             \/ e = FreezeEvent /\ s.status = "completed"
             \/ \E i \in Opened(s) : e \in Tellings(Opportunity(s, i), events)
  <1> DEFINE Steady(i) ==
               LET a == Opportunity(s, i)
               IN {Event("parents", a.index, 0, <<a.parents, a.transition>>)}
                    \cup AttemptEvents(a) \cup CandidateEvents(a)
  <1>1. e \in Expected(s, events) <=>
          \/ e = Event("started", NoIndex, 0, None) \/ e = Event("candidate", NoIndex, 0, Seed)
          \/ s.seeded /\ e \in EvaluationEvents(NoIndex, None)
          \/ \E i \in Opened(s) : e \in OpportunityEvents(Opportunity(s, i), events)
          \/ \E i \in 1 .. Len(s.terminal) : e \in ClosingEvents(s.terminal[i])
          \/ e = BudgetEvent(s)
          \/ s.status = "completed" /\ e = Event("completed", Final, 0, None)
          \/ s.status = "completed" /\ e = FreezeEvent
    <2> DEFINE A == {Event("started", NoIndex, 0, None), Event("candidate", NoIndex, 0, Seed)}
               B == IF s.seeded THEN EvaluationEvents(NoIndex, None) ELSE {}
               O == UNION {OpportunityEvents(Opportunity(s, i), events) : i \in Opened(s)}
               C == UNION {ClosingEvents(s.terminal[i]) : i \in 1 .. Len(s.terminal)}
               D == {Event("budget", Final, 0, BudgetTotals(s.ledger))}
    <2>1. Expected(s, events) = A \cup B \cup O \cup C \cup D \cup FinalEvents(s)
      BY DEF Expected
    <2>2. e \in O <=> \E i \in Opened(s) : e \in OpportunityEvents(Opportunity(s, i), events)
      OBVIOUS
    <2>3. e \in C <=> \E i \in 1 .. Len(s.terminal) : e \in ClosingEvents(s.terminal[i])
      OBVIOUS
    <2>4. e \in B <=> s.seeded /\ e \in EvaluationEvents(NoIndex, None)
      OBVIOUS
    <2>5. e \in D <=> e = BudgetEvent(s)
      BY DEF BudgetEvent
    <2>6. e \in FinalEvents(s) <=>
            \/ s.status = "completed" /\ e = Event("completed", Final, 0, None)
            \/ s.status = "completed" /\ e = FreezeEvent
      BY DEF FinalEvents, FreezeEvent
    <2>7. e \in A <=> e = Event("started", NoIndex, 0, None)
                       \/ e = Event("candidate", NoIndex, 0, Seed)
      OBVIOUS
    <2> HIDE DEF A, B, O, C, D
    <2> QED BY <2>1, <2>2, <2>3, <2>4, <2>5, <2>6, <2>7
  <1>2. (\E i \in Opened(s) : e \in OpportunityEvents(Opportunity(s, i), events)) <=>
          \/ \E i \in Opened(s) : e \in Steady(i)
          \/ \E i \in Opened(s) : e \in Tellings(Opportunity(s, i), events)
    BY DEF OpportunityEvents, Tellings
  <1>3. \A i \in Opened(s) :
          e \in Steady(i) <=>
            Standing(e, s) /\ e.index = i /\ e.kind \notin {"promotion", "failure"}
    BY OpportunityIsStanding
  <1>4. (\E i \in 1 .. Len(s.terminal) : e \in ClosingEvents(s.terminal[i])) <=>
          Standing(e, s) /\ e.kind \in {"promotion", "failure"}
    BY ClosingIsStanding
  <1>5. ASSUME \/ e = Event("started", NoIndex, 0, None)
               \/ e = Event("candidate", NoIndex, 0, Seed)
               \/ s.seeded /\ e \in EvaluationEvents(NoIndex, None)
               \/ s.status = "completed" /\ e = Event("completed", Final, 0, None)
        PROVE  Standing(e, s)
    BY <1>5 DEF Event, Standing, Called, EvaluationEvents
  <1>6. ASSUME Standing(e, s), e.kind \notin {"promotion", "failure"},
               e.index \notin Opened(s)
        PROVE  \/ e = Event("started", NoIndex, 0, None)
               \/ e = Event("candidate", NoIndex, 0, Seed)
               \/ s.seeded /\ e \in EvaluationEvents(NoIndex, None)
               \/ s.status = "completed" /\ e = Event("completed", Final, 0, None)
    BY <1>6 DEF Standing, Called, EvaluationEvents
  <1> HIDE DEF Steady
  <1> QED BY <1>1, <1>2, <1>3, <1>4, <1>5, <1>6

\* The events that tell the answers are admitted.
LEMMA TellingIsCalled ==
    ASSUME NEW s, Sound(s), NEW i \in Opened(s), NEW events, Len(events) \in Nat,
           \A k \in 1 .. Len(events) : Called(events[k], s),
           NEW e \in Tellings(Opportunity(s, i), events)
    PROVE  Called(e, s) /\ e.kind \in {"response", "repair"} /\ e.index = i
  <1>1. CASE e \in RepairEvents(Opportunity(s, i), events)
    BY <1>1, RepairsAreCalled
  <1>2. CASE e \in ResponseEvents(Opportunity(s, i))
    BY <1>2, ResponseIsCalled
  <1> QED BY <1>1, <1>2 DEF Tellings

\* What is called for is called, but for the index.
LEMMA ExpectedIsCalled ==
    ASSUME NEW s, Sound(s), NEW events, Len(events) \in Nat,
           \A k \in 1 .. Len(events) : Called(events[k], s),
           NEW e \in Expected(s, events)
    PROVE  /\ Called(e, s) \/ (e = FreezeEvent /\ s.status = "completed")
           /\ e.kind \in {"repair", "response"} =>
                e.index \in Opened(s) /\ e \in Tellings(Opportunity(s, e.index), events)
           /\ e.kind = "budget" => e = BudgetEvent(s)
  <1>1. CASE Standing(e, s)
    BY <1>1 DEF Standing
  <1>2. CASE e = BudgetEvent(s)
    BY <1>2 DEF BudgetEvent, Event, Called
  <1>3. CASE e = FreezeEvent /\ s.status = "completed"
    <2>1. e.kind = "freeze"
      BY <1>3 DEF FreezeEvent, Event
    <2> QED BY <1>3, <2>1
  <1>4. CASE \E i \in Opened(s) : e \in Tellings(Opportunity(s, i), events)
    BY <1>4, TellingIsCalled
  <1> QED BY <1>1, <1>2, <1>3, <1>4, ExpectedIs

-----------------------------------------------------------------------------
\* An admitted event is of the seed, of an opportunity that was opened, or final.
LEMMA CalledIndex ==
    ASSUME NEW s, Sound(s), NEW e, Called(e, s)
    PROVE  /\ e.index \in Nat /\ e.number \in Nat /\ Final \in Nat
           /\ e.index = NoIndex \/ e.index \in Opened(s) \/ e.index = Final
           /\ e.index = NoIndex =>
                e.kind \in {"started", "candidate", "training", "evaluation"}
           /\ e.index = Final <=> e.kind \in {"budget", "completed"}
           /\ e.index \in Opened(s) <=> e.index \in Opportunities
           /\ e.index \in Opened(s) =>
                e.kind \in {"parents", "attempt", "repair", "response", "candidate",
                            "training", "evaluation", "promotion", "failure"}
           /\ NoIndex < Final /\ NoIndex \notin Opportunities /\ Final \notin Opportunities
           /\ \A i \in Opportunities : NoIndex < i /\ i < Final
  <1>1. /\ NoIndex = 0 /\ Final \in Nat /\ Final = ProposalOpportunities + 1
        /\ ProposalOpportunities \in Nat /\ Opportunities = 1 .. ProposalOpportunities
    BY BudgetAssumption DEF NoIndex, Final, Opportunities
  <1>2. \A i \in Opened(s) : /\ i \in Opportunities
                             /\ Opportunity(s, i).attempts \in Nat
                             /\ Opportunity(s, i).repairs \in Nat
    BY SoundOpportunity
  <1>3. \A i \in 1 .. Len(s.terminal) : i \in Opened(s)
    BY OpenedIs
  <1>4. e.number \in Nat
    BY <1>2 DEF Called, Event
  <1>5. CASE e.kind \in {"budget", "completed"}
    <2>1. e.index = Final
      BY <1>5 DEF Called
    <2> QED BY <1>1, <1>2, <1>4, <1>5, <2>1
  <1>6. CASE e.kind \in {"started", "candidate", "training", "evaluation"} /\ e.index = NoIndex
    BY <1>1, <1>2, <1>4, <1>6
  <1>7. CASE /\ e.kind \in {"parents", "attempt", "repair", "response", "candidate",
                            "training", "evaluation", "promotion", "failure"}
             /\ e.index # NoIndex
    BY <1>3, <1>7, <1>2, <1>1, <1>4 DEF Called
  <1>8. e.index = NoIndex => e.kind \in {"started", "candidate", "training", "evaluation"}
    <2> SUFFICES ASSUME e.index = NoIndex,
                        e.kind \notin {"started", "candidate", "training", "evaluation"}
                 PROVE  FALSE
      OBVIOUS
    <2>1. e.index \in Opened(s) \/ e.index = Final
      BY <1>3 DEF Called
    <2> QED BY <1>1, <1>2, <2>1
  <1>9. e.kind = "started" => e.index = NoIndex
    BY DEF Called
  <1>10. e.kind \in {"started", "parents", "attempt", "repair", "response",
                     "candidate", "training", "evaluation", "promotion",
                     "failure", "budget", "completed"}
    BY CalledForm
  <1> QED BY <1>5, <1>6, <1>7, <1>8, <1>9, <1>10

\* Where an event of each kind of index stands.
LEMMA Ranks ==
    ASSUME NEW s, Sound(s), NEW e, Called(e, s)
    PROVE  /\ RankOfAll(e) \in Nat /\ Place(e) \in Nat
           /\ e.index = NoIndex =>
                \/ RankOfAll(e) = 1 /\ Place(e) = 0
                \/ RankOfAll(e) \in 2 .. 4 /\ Place(e) = RankOfAll(e) + 3
           /\ e.index \in Opened(s) =>
                \/ RankOfAll(e) = 0 /\ Place(e) = 0
                \/ RankOfAll(e) = 1 /\ Place(e) \in 1 .. 4
                \/ RankOfAll(e) \in 2 .. 5 /\ Place(e) = RankOfAll(e) + 3
           /\ e.index = Final =>
                \/ RankOfAll(e) = 6 /\ Place(e) = 0
                \/ RankOfAll(e) = 7 /\ Place(e) = 1
           /\ e.index \in Opened(s) => RankOfAll(e) = Rank(e)
  BY CalledIndex DEF RankOfAll, Rank, Place

\* The freeze comes after every other event.
LEMMA FreezeIsLast ==
    ASSUME NEW s, Sound(s), NEW e, Called(e, s)
    PROVE  /\ Before(e, FreezeEvent) /\ ~Before(FreezeEvent, e)
           /\ ~Earlier(FreezeEvent, e) /\ e # FreezeEvent
  <1>1. /\ FreezeEvent.kind = "freeze" /\ FreezeEvent.index = Final
        /\ Place(FreezeEvent) = 3 /\ RankOfAll(FreezeEvent) = 8
    BY DEF FreezeEvent, Event, Place, RankOfAll
  <1>2. /\ e.index \in Nat /\ Final \in Nat /\ e.index <= Final
        /\ e.index = NoIndex \/ e.index \in Opened(s) \/ e.index = Final
        /\ NoIndex < Final
    BY CalledIndex
  <1>3. e.kind # "freeze"
    BY DEF Called
  <1>4. /\ RankOfAll(e) \in Nat /\ Place(e) \in Nat
        /\ e.index = Final =>
                \/ RankOfAll(e) = 6 /\ Place(e) = 0
                \/ RankOfAll(e) = 7 /\ Place(e) = 1
    BY Ranks
  <1> HIDE DEF FreezeEvent
  <1> QED BY <1>1, <1>2, <1>3, <1>4 DEF Before, Earlier

\* The order of an observation is that of the story.
LEMMA EarlierIsBefore ==
    ASSUME NEW s, Sound(s), NEW e, Called(e, s), NEW f, Called(f, s), Earlier(e, f)
    PROVE  Before(e, f)
  BY CalledIndex, Ranks DEF Before, Earlier

\* Of two events of an opportunity that are not in the order of its story the
\* second is earlier.
LEMMA NotEarlier ==
    ASSUME NEW s, Sound(s), NEW e, Called(e, s), NEW f, Called(f, s),
           e.index \in Opportunities, f.index \in Opportunities, ~Earlier(f, e)
    PROVE  \/ e.index < f.index
           \/ e.index = f.index /\ Rank(e) <= Rank(f)
  BY CalledIndex, Ranks DEF Earlier

-----------------------------------------------------------------------------
\* What an opportunity keeps: its parents, what it was found to be, and how
\* often it was asked once it has a proposal.
Goes(a, b) ==
    /\ b.index = a.index /\ b.parents = a.parents /\ b.transition = a.transition
    /\ a.attempts <= b.attempts /\ a.repairs <= b.repairs
    /\ a.candidate # None => b.candidate = a.candidate
    /\ a.evaluation # None => b.evaluation = a.evaluation
    /\ a.proposal # None => /\ b.proposal = a.proposal
                            /\ b.attempts = a.attempts /\ b.repairs = a.repairs
    /\ b.repairs = a.repairs => b.previous = a.previous

\* A write appends to the terminal records, or moves the active opportunity.
LEMMA MoveIs ==
    ASSUME NEW s, Sound(s), NEW t, Moves(s, t)
    PROVE  /\ s.seeded => t.seeded
           /\ s.status = "completed" => t.status = "completed"
           /\ \/ t.terminal = s.terminal /\ t.active = s.active
              \/ t.terminal = s.terminal /\ s.active.index = NoIndex
              \/ t.terminal = s.terminal /\ Goes(s.active, t.active)
              \/ /\ s.active.index # NoIndex /\ t.active = NoOpportunity
                 /\ \E r : t.terminal = Append(s.terminal, r) /\ r.opportunity = s.active
  <1>1. /\ s.active \in ActiveType /\ s.seeded \in BOOLEAN
        /\ s.active.attempts \in Nat /\ s.active.repairs \in Nat
    BY DEF Sound, StateType, ActiveType
  <1>2. CASE Begins(s, t)
    BY <1>2 DEF Begins, NoState, InitialState
  <1>3. CASE Charges(s, t) \/ Completes(s, t)
    BY <1>3 DEF Charges, Completes
  <1>4. CASE Opens(s, t)
    BY <1>4 DEF Opens, Beside
  <1>5. CASE Closes(s, t)
    BY <1>5 DEF Closes
  <1> DEFINE a == s.active
  <1>6. ASSUME Beside(s, t), NEW b, t.active = b, Goes(a, b)
        PROVE  /\ s.seeded => t.seeded
               /\ s.status = "completed" => t.status = "completed"
               /\ t.terminal = s.terminal /\ Goes(s.active, t.active)
    BY <1>6 DEF Beside
  <1>7. CASE Asks(s, t)
    BY <1>1, <1>7, <1>6 DEF Goes, Asks, ActiveType
  <1>8. CASE Names(s, t)
    BY <1>1, <1>8, <1>6 DEF Goes, Names, ActiveType
  <1>9. CASE Judges(s, t)
    <2>1. PICK o : t.active = [a EXCEPT !.evaluation = o]
      BY <1>9 DEF Judges
    <2>2. Goes(a, [a EXCEPT !.evaluation = o])
      BY <1>1, <1>9 DEF Goes, Judges, ActiveType
    <2> QED BY <1>6, <1>9, <2>1, <2>2 DEF Judges
  <1>10. ASSUME NEW text \in Texts, Tells(s, t, text)
         PROVE  /\ s.seeded => t.seeded
                /\ s.status = "completed" => t.status = "completed"
                /\ t.terminal = s.terminal /\ Goes(s.active, t.active)
    <2>1. CASE RepairsWith(s, t, text)
      <3>1. Goes(a, [a EXCEPT !.repairs = a.repairs + 1, !.previous = text])
        BY <1>1, <2>1 DEF Goes, RepairsWith, ActiveType
      <3> QED BY <1>6, <2>1, <3>1 DEF RepairsWith
    <2>2. CASE Proposes(s, t, text)
      BY <1>1, <2>2, <1>6 DEF Goes, Proposes, ActiveType
    <2> QED BY <1>10, <2>1, <2>2 DEF Tells
  <1> QED BY <1>2, <1>3, <1>4, <1>5, <1>7, <1>8, <1>9, <1>10 DEF Moves, Quiet

\* A closed opportunity does not change, an open one goes on.
LEMMA OpportunityMoves ==
    ASSUME NEW s, Sound(s), NEW t, Sound(t), Moves(s, t), NEW i \in Opened(s)
    PROVE  /\ i \in Opened(t) /\ Goes(Opportunity(s, i), Opportunity(t, i))
           /\ i \in 1 .. Len(s.terminal) =>
                /\ i \in 1 .. Len(t.terminal) /\ t.terminal[i] = s.terminal[i]
                /\ Opportunity(t, i) = Opportunity(s, i)
           /\ i \notin 1 .. Len(s.terminal) =>
                i = s.active.index /\ i # NoIndex /\ Opportunity(s, i) = s.active
  <1>1. /\ Len(s.terminal) \in Nat /\ s.terminal \in Seq(TerminalType)
        /\ Len(t.terminal) \in Nat
        /\ \/ i \in 1 .. Len(s.terminal)
           \/ s.active.index # NoIndex /\ i = Len(s.terminal) + 1
        /\ \A j \in 1 .. Len(s.terminal) : Opportunity(s, j) = s.terminal[j].opportunity
        /\ s.active.index # NoIndex =>
             s.active.index = Len(s.terminal) + 1
             /\ Opportunity(s, s.active.index) = s.active
    BY OpenedIs DEF Sound, StateType
  <1>2. /\ \A j : j \in Opened(t) <=>
             \/ j \in 1 .. Len(t.terminal)
             \/ t.active.index # NoIndex /\ j = Len(t.terminal) + 1
        /\ \A j \in 1 .. Len(t.terminal) : Opportunity(t, j) = t.terminal[j].opportunity
        /\ t.active.index # NoIndex =>
             t.active.index = Len(t.terminal) + 1
             /\ Opportunity(t, t.active.index) = t.active
    BY OpenedIs
  <1>3. \A a \in ActiveType : Goes(a, a)
    BY DEF Goes, ActiveType
  <1>4. Opportunity(s, i) \in ActiveType /\ s.active \in ActiveType
    BY SoundOpportunity DEF Sound, StateType
  <1>5. ASSUME i \in 1 .. Len(s.terminal)
        PROVE  i \in 1 .. Len(t.terminal) /\ t.terminal[i] = s.terminal[i]
    <2>1. CASE t.terminal = s.terminal
      BY <1>5, <2>1
    <2>2. CASE \E r : t.terminal = Append(s.terminal, r)
      <3>1. PICK r : t.terminal = Append(s.terminal, r)
        BY <2>2
      <3>2. t.terminal[i] = s.terminal[i] /\ Len(t.terminal) = Len(s.terminal) + 1
        BY <1>1, <1>5, <3>1
      <3> QED BY <1>1, <1>5, <3>2
    <2> QED BY <2>1, <2>2, MoveIs
  <1>6. CASE i \in 1 .. Len(s.terminal)
    BY <1>1, <1>2, <1>5, <1>6, <1>3, <1>4
  <1>7. CASE i \notin 1 .. Len(s.terminal)
    <2>1. /\ i = s.active.index /\ i # NoIndex /\ i = Len(s.terminal) + 1
          /\ Opportunity(s, i) = s.active
      BY <1>1, <1>7
    <2>2. CASE t.terminal = s.terminal /\ t.active = s.active
      BY <1>2, <1>3, <1>4, <2>1, <2>2
    <2>3. CASE t.terminal = s.terminal /\ Goes(s.active, t.active)
      <3>1. t.active.index = i
        BY <2>1, <2>3 DEF Goes
      <3> QED BY <1>2, <2>1, <2>3, <3>1
    <2>4. CASE /\ t.active = NoOpportunity
               /\ \E r : t.terminal = Append(s.terminal, r) /\ r.opportunity = s.active
      <3>1. PICK r : t.terminal = Append(s.terminal, r) /\ r.opportunity = s.active
        BY <2>4
      <3>2. t.terminal[i] = r /\ Len(t.terminal) = i
        BY <1>1, <2>1, <3>1
      <3>3. i \in 1 .. Len(t.terminal) /\ Opportunity(t, i) = s.active
        BY <1>1, <1>2, <2>1, <3>1, <3>2
      <3> QED BY <1>2, <1>3, <1>4, <1>7, <2>1, <3>3
    <2> QED BY <2>1, <2>2, <2>3, <2>4, MoveIs
  <1> QED BY <1>6, <1>7

\* What was called for is called for later.
LEMMA CalledGrows ==
    ASSUME NEW s, Sound(s), NEW t, Sound(t), Moves(s, t), NEW e, Called(e, s)
    PROVE  Called(e, t)
  <1> DEFINE i == e.index
             a == Opportunity(s, i)
             b == Opportunity(t, i)
  <1>1. i \in Opened(s) =>
          /\ i \in Opened(t) /\ Goes(a, b)
          /\ a.attempts \in Nat /\ a.repairs \in Nat /\ b.attempts \in Nat /\ b.repairs \in Nat
    BY OpportunityMoves, SoundOpportunity
  <1>2. i \in 1 .. Len(s.terminal) =>
          /\ i \in Opened(s) /\ i \in 1 .. Len(t.terminal)
          /\ t.terminal[i] = s.terminal[i] /\ b = a
    BY OpportunityMoves, OpenedIs
  <1>3. /\ s.seeded => t.seeded
        /\ s.status = "completed" => t.status = "completed"
    BY MoveIs
  <1>4. i # NoIndex /\ e.kind \in {"candidate", "training", "evaluation"} => i \in Opened(s)
    BY DEF Called
  <1> HIDE DEF a, b, i
  <1>5. CASE e.kind \in {"started", "budget", "completed"}
    BY <1>3, <1>5 DEF Called, i, a, b
  <1>6. CASE e.kind = "parents"
    BY <1>1, <1>6 DEF Called, Goes, i, a, b
  <1>7. CASE e.kind \in {"attempt", "repair", "response"}
    BY <1>7, <1>1 DEF Called, i, a, Goes, b
  <1>8. CASE e.kind \in {"candidate", "training", "evaluation"}
    BY <1>1, <1>3, <1>8 DEF Called, Goes, i, a, b
  <1>9. CASE e.kind \in {"promotion", "failure"}
    BY <1>1, <1>2, <1>9 DEF Called, i, a, b
  <1> QED BY <1>5, <1>6, <1>7, <1>8, <1>9, CalledForm

\* The events of the answers depend on nothing else of an opportunity.
LEMMA TellingsKept ==
    ASSUME NEW a, NEW b, NEW events, b.index = a.index, b.attempts = a.attempts,
           b.repairs = a.repairs, b.proposal = a.proposal, b.previous = a.previous
    PROVE  Tellings(b, events) = Tellings(a, events)
  BY DEF Latest, RepairedAttempt, RepairEvents, ResponseEvents, Tellings

\* What a write adds does not come before anything that was called for.
LEMMA FreshIsLate ==
    ASSUME NEW s, Sound(s), NEW t, Sound(t), Moves(s, t),
           NEW events, Len(events) \in Nat,
           \A k \in 1 .. Len(events) : Called(events[k], s),
           NEW g, Called(g, s), g.index \in Opened(s),
           NEW f \in Expected(t, events), f.index # NoIndex, Earlier(f, g)
    PROVE  f \in Expected(s, events)
  <1> DEFINE i == f.index
             j == g.index
             a == Opportunity(s, i)
             b == Opportunity(t, i)
             n == Len(s.terminal)
  <1>1. \A k \in 1 .. Len(events) : Called(events[k], t)
    BY CalledGrows
  <1>2. /\ Called(f, t) \/ f = FreezeEvent
        /\ f.kind \in {"repair", "response"} => f \in Tellings(b, events)
    BY <1>1, ExpectedIsCalled
  <1>3. /\ n \in Nat /\ j \in Nat
        /\ \/ j \in 1 .. n
           \/ s.active.index # NoIndex /\ j = n + 1 /\ s.active.index = j
        /\ \A k \in 1 .. n + 1 : k <= j => k \in Opened(s)
    BY CalledIndex, OpenedIs
  <1>4. i <= j /\ Called(f, t) /\ i \in Nat
    BY CalledGrows, FreezeIsLast, <1>2, <1>3, CalledIndex DEF Earlier
  <1>5. i \in Opened(s) /\ i # Final /\ i > 0
    BY <1>4, <1>3, SoundOpportunity, CalledIndex DEF NoIndex
  <1>6. /\ i \in Opened(t) /\ Goes(a, b)
        /\ i \in 1 .. n => /\ i \in 1 .. Len(t.terminal) /\ t.terminal[i] = s.terminal[i]
                           /\ b = a
        /\ i \notin 1 .. n => i = s.active.index /\ i # NoIndex /\ a = s.active
    BY <1>5, OpportunityMoves
  <1>7. ASSUME i \notin 1 .. n
        PROVE  /\ j = i /\ RankOfAll(f) < Rank(g) /\ RankOfAll(f) = Rank(f) /\ Rank(f) \in Nat
               /\ g.kind \notin {"promotion", "failure"} /\ Rank(g) \in 0 .. 5
    <2>1. j = i
      BY <1>3, <1>4, <1>5, <1>7
    <2>2. RankOfAll(f) < RankOfAll(g)
      BY <1>3, <2>1 DEF Earlier
    <2>3. g.kind \notin {"promotion", "failure"}
      BY <1>7, <2>1 DEF Called
    <2>4. RankOfAll(g) = Rank(g) /\ RankOfAll(g) \in 0 .. 5
      BY Ranks
    <2>5. RankOfAll(f) = Rank(f) /\ RankOfAll(f) \in Nat
      BY <1>4, <1>6, Ranks
    <2> QED BY <2>1, <2>2, <2>3, <2>4, <2>5
  <1>8. ASSUME i \notin 1 .. n, Rank(g) >= 2
        PROVE  a.candidate # None /\ a.proposal # None
    BY CalledIndex, <1>7, <1>8, <1>6, <1>5, SoundOpportunity DEF Rank, Called, Sound
  <1>9. ASSUME i \notin 1 .. n, Rank(g) >= 3
        PROVE  a.evaluation # None
    BY CalledIndex, <1>7, <1>9, <1>6 DEF Rank, Called
  <1>10. f.kind \in {"parents", "attempt", "repair", "response", "candidate",
                     "training", "evaluation", "promotion", "failure"}
    BY <1>4, <1>6, CalledIndex
  <1>11. CASE f.kind \in {"repair", "response"}
    BY <1>2, <1>11, <1>5, <1>6, ExpectedIs, <1>7, <1>8, TellingsKept DEF Rank, Goes
  <1>12. CASE f.kind \notin {"repair", "response"}
    <2>1. /\ f = Event(f.kind, i, f.number, f.body)
          /\ f.kind \in {"parents", "attempt", "candidate", "training", "evaluation",
                         "promotion", "failure"}
      BY <1>4, <1>10, <1>12, CalledForm
    <2>2. i # NoIndex
      OBVIOUS
    <2>3. CASE i \in 1 .. n
      <3>1. Called(f, s)
        BY <1>4, <1>5, <1>6, <2>1, <2>2, <2>3 DEF Called
      <3> QED BY <2>1, <3>1, ExpectedIs DEF Standing
    <2>4. CASE i \notin 1 .. n
      <3>1. /\ f.kind = "attempt" => a.proposal # None
            /\ f.kind = "candidate" => a.candidate # None /\ a.evaluation # None
            /\ f.kind = "training" => a.evaluation # None
            /\ f.kind = "evaluation" => a.evaluation # None
            /\ f.kind \notin {"promotion", "failure"}
        BY <1>7, <2>4, <1>5, SoundOpportunity, <1>8, <1>9 DEF Rank
      <3>2. Called(f, s)
        BY <1>4, <1>5, <1>6, <2>1, <3>1, <2>2 DEF Called, Goes
      <3> QED BY <2>1, <3>2, ExpectedIs DEF Standing
    <2> QED BY <2>3, <2>4
  <1> QED BY <1>11, <1>12

-----------------------------------------------------------------------------
KeyIn(l, e) == \E k \in 1 .. Len(l) : SameKey(l[k], e)

\* What the invariant of the log says first of all.
LEMMA LogFacts ==
    ASSUME LogInv
    PROVE  /\ RunInv /\ Sound(disk) /\ Len(log) \in Nat
           /\ \A k \in 1 .. Len(log) : Called(log[k], disk)
  <1>1. RunInv /\ log \in Seq(Range(log)) /\ \A k \in 1 .. Len(log) : Called(log[k], disk)
    BY DEF LogInv, LogIsCalled
  <1>2. Len(log) \in Nat
    BY <1>1
  <1> QED BY <1>1, <1>2, StoredIsSound

\* A log with one more event.
LEMMA Appended ==
    ASSUME NEW l, l \in Seq(Range(l)), NEW e
    PROVE  LET m == Append(l, e)
           IN /\ m \in Seq(Range(m)) /\ Len(m) = Len(l) + 1 /\ Len(l) \in Nat
              /\ \A k \in 1 .. Len(l) : m[k] = l[k]
              /\ m[Len(l) + 1] = e
  <1> DEFINE m == Append(l, e)
             S == Range(l) \cup {e}
  <1>1. l \in Seq(S)
    BY DEF Range
  <1>2. /\ m \in Seq(S) /\ Len(m) = Len(l) + 1 /\ Len(l) \in Nat
        /\ \A k \in 1 .. Len(l) : m[k] = l[k]
        /\ m[Len(l) + 1] = e
    BY <1>1, AppendProperties
  <1> HIDE DEF m, S
  <1>3. DOMAIN m = 1 .. Len(m) /\ Len(m) \in Nat
    BY <1>2
  <1>4. \A k \in 1 .. Len(m) : m[k] \in Range(m)
    BY <1>3 DEF Range
  <1>5. m = [k \in 1 .. Len(m) |-> m[k]]
    BY <1>2
  <1>6. m \in Seq(Range(m))
    BY <1>3, <1>4, <1>5, IsASeq
  <1> QED BY <1>2, <1>6 DEF m

\* The events of a repair and of an answer, field by field.
LEMMA RepairFields ==
    ASSUME NEW a, a.repairs \in Nat, NEW events, NEW e \in RepairEvents(a, events)
    PROVE  LET n == RepairedAttempt(a, events)
           IN /\ e.index = a.index /\ a.repairs > 0
              /\ e = Event(e.kind, e.index, e.number, e.body)
              /\ \/ /\ e.kind = "response" /\ n > 0 /\ e.number = n
                    /\ e.body = Response(a.previous, FALSE, FALSE)
                    /\ e.body.text = a.previous /\ e.body.parsed = FALSE
                    /\ e.body.tokens = FALSE
                 \/ /\ e.kind = "repair" /\ e.number \in 1 .. a.repairs
                    /\ e.body = IF n > 0 THEN n ELSE 1
  <1> DEFINE n == RepairedAttempt(a, events)
  <1>1. CASE /\ a.repairs > 0 /\ n > 0
             /\ e = Event("response", a.index, n, Response(a.previous, FALSE, FALSE))
    <2> DEFINE body == Response(a.previous, FALSE, FALSE)
    <2>1. body.text = a.previous /\ body.parsed = FALSE /\ body.tokens = FALSE
      BY DEF Response
    <2> HIDE DEF body, n
    <2>2. /\ e.kind = "response" /\ e.index = a.index /\ e.number = n /\ e.body = body
          /\ e = Event(e.kind, e.index, e.number, e.body)
      BY <1>1 DEF Event, body
    <2> QED BY <1>1, <2>1, <2>2 DEF body, n
  <1>2. CASE \E r \in 1 .. a.repairs :
               e = Event("repair", a.index, r, IF n > 0 THEN n ELSE 1)
    <2> HIDE DEF n
    <2>1. PICK r \in 1 .. a.repairs :
             e = Event("repair", a.index, r, IF n > 0 THEN n ELSE 1)
      BY <1>2
    <2>2. /\ e.kind = "repair" /\ e.index = a.index /\ e.number = r
          /\ e.body = (IF n > 0 THEN n ELSE 1)
          /\ e = Event(e.kind, e.index, e.number, e.body)
      BY <2>1 DEF Event
    <2>3. a.repairs > 0
      BY <2>1
    <2>4. e.number \in 1 .. a.repairs
      BY <2>2
    <2> QED BY <2>2, <2>3, <2>4 DEF n
  <1> QED BY <1>1, <1>2, RepairEventIs

\* The event of an answer that became the proposal.
LEMMA AnswerFields ==
    ASSUME NEW a, NEW e \in ResponseEvents(a)
    PROVE  /\ a.proposal # None
           /\ e.kind = "response" /\ e.index = a.index /\ e.number = a.attempts
           /\ e.body = Response(a.proposal, a.proposal \in Sources, TRUE)
           /\ e.body.text = a.proposal /\ e.body.parsed = (a.proposal \in Sources)
           /\ e.body.tokens = TRUE
           /\ e = Event(e.kind, e.index, e.number, e.body)
  <1> DEFINE body == Response(a.proposal, a.proposal \in Sources, TRUE)
  <1>1. /\ body.text = a.proposal /\ body.parsed = (a.proposal \in Sources)
        /\ body.tokens = TRUE
    BY DEF Response
  <1>2. a.proposal # None /\ e = Event("response", a.index, a.attempts, body)
    BY DEF ResponseEvents
  <1> HIDE DEF body
  <1>3. /\ e.kind = "response" /\ e.index = a.index /\ e.number = a.attempts /\ e.body = body
        /\ e = Event(e.kind, e.index, e.number, e.body)
    BY <1>2 DEF Event
  <1> QED BY <1>1, <1>2, <1>3 DEF body

\* What is still to be appended.
LEMMA Pending ==
    ASSUME LogInv, NEW e \in todo
    PROVE  /\ mem = disk /\ disk.status # "absent"
           /\ e \in Expected(disk, log) /\ ~Kept(e, log)
           /\ Called(e, disk) \/ (e = FreezeEvent /\ disk.status = "completed")
           /\ e.kind = "freeze" <=> e = FreezeEvent
           /\ e.kind \in {"repair", "response"} =>
                e.index \in Opened(disk) /\ e \in Tellings(Opportunity(disk, e.index), log)
  <1>1. /\ mem = disk /\ e \in Expected(disk, log) /\ ~Kept(e, log)
        /\ pc \in Holding \cup {"exited"} /\ (pc = "exited" => disk.status = "completed")
    BY DEF LogInv, TodoIsMissing, Holding
  <1>2. disk.status # "absent"
    BY <1>1 DEF LogInv, RunInv, EngineInv, StoredInv, MemoryIsStored
  <1>3. /\ Called(e, disk) \/ (e = FreezeEvent /\ disk.status = "completed")
        /\ e.kind \in {"repair", "response"} =>
             e.index \in Opened(disk) /\ e \in Tellings(Opportunity(disk, e.index), log)
    BY <1>1, LogFacts, ExpectedIsCalled
  <1>4. e.kind = "freeze" => e = FreezeEvent
    BY <1>3 DEF Called
  <1>5. FreezeEvent.kind = "freeze"
    BY DEF FreezeEvent, Event
  <1> QED BY <1>1, <1>2, <1>3, <1>4, <1>5

\* What is emitted has no event of its key in the log.
LEMMA EmittedIsNew ==
    ASSUME LogInv, NEW e \in todo, ~Conflicts(e)
    PROVE  ~KeyIn(log, e)
  BY Pending DEF KeyIn, Conflicts, Kept

\* What comes before the event that is due has been told.
LEMMA DueIsFirst ==
    ASSUME LogInv, NEW e, Due(e), NEW f \in Expected(disk, log), Before(f, e)
    PROVE  KeyIn(log, f)
  <1>1. e \in todo /\ f \notin todo
    BY DEF Due
  <1>2. f # FreezeEvent
    <2>1. CASE Called(e, disk)
      BY <2>1, FreezeIsLast, LogFacts
    <2>2. CASE e = FreezeEvent
      <3>1. /\ FreezeEvent.index \in Nat /\ FreezeEvent.number \in Nat
            /\ Place(FreezeEvent) = 3
        BY BudgetAssumption DEF FreezeEvent, Event, Place, Final
      <3> HIDE DEF FreezeEvent
      <3> QED BY <2>2, <3>1 DEF Before
    <2> QED BY <1>1, <2>1, <2>2, Pending
  <1>3. f = FreezeEvent \/ f \in todo \/ KeyLogged(f)
    BY <1>1 DEF LogInv, TodoIsMissing
  <1> QED BY <1>1, <1>2, <1>3 DEF KeyLogged, KeyIn

\* The attribution of the response kept for a repair as the log grows.
LEMMA AttributionStays ==
    ASSUME NEW a, NEW e, NEW l, l \in Seq(Range(l))
    PROVE  LET m == Append(l, e)
               Matches == /\ e.kind = "response" /\ e.index = a.index
                          /\ ~e.body.parsed /\ e.body.text = a.previous
           IN /\ Matching(m, a.index, a.previous) =
                   Matching(l, a.index, a.previous)
                     \cup (IF Matches THEN {Len(l) + 1} ELSE {})
              /\ RepairedAttempt(a, m) =
                   IF Matches /\ Latest(a) > 0 THEN e.number ELSE RepairedAttempt(a, l)
  <1> DEFINE m == Append(l, e)
             i == a.index
             text == a.previous
             Matches == /\ e.kind = "response" /\ e.index = i
                        /\ ~e.body.parsed /\ e.body.text = text
             M == Matching(l, i, text)
             N == Matching(m, i, text)
  <1>1. /\ Len(m) = Len(l) + 1 /\ Len(l) \in Nat
        /\ \A k \in 1 .. Len(l) : m[k] = l[k]
        /\ m[Len(l) + 1] = e
    BY Appended
  <1> HIDE DEF m
  <1>2. M \subseteq 1 .. Len(l) /\ M \in SUBSET Nat /\ IsFiniteSet(M)
    BY <1>1, MatchingType
  <1>3. N = M \cup (IF Matches THEN {Len(l) + 1} ELSE {})
    <2>1. ASSUME NEW k \in 1 .. Len(m)
          PROVE  (k \in 1 .. Len(l) /\ m[k] = l[k]) \/ (k = Len(l) + 1 /\ m[k] = e)
      BY <1>1
    <2>2. 1 .. Len(l) \subseteq 1 .. Len(m) /\ Len(l) + 1 \in 1 .. Len(m)
      BY <1>1
    <2>3. Len(l) + 1 \notin 1 .. Len(l)
      BY <1>1
    <2> HIDE DEF i, text
    <2> QED BY <1>1, <2>1, <2>2, <2>3 DEF Matching
  <1> HIDE DEF Matches
  <1>4. CASE Matches /\ Latest(a) > 0
    <2> DEFINE last == CHOOSE k \in N : \A j \in N : j <= k
    <2>1. Len(l) + 1 \in N /\ \A j \in N : j <= Len(l) + 1
      BY <1>1, <1>2, <1>3, <1>4
    <2>2. \A j \in N : j \in Nat
      BY <1>1, <1>2, <1>3
    <2> HIDE DEF N
    <2>3. last \in N /\ \A j \in N : j <= last
      BY <2>1
    <2>4. last = Len(l) + 1
      <3> HIDE DEF last
      <3> QED BY <1>1, <2>1, <2>2, <2>3
    <2>5. RepairedAttempt(a, m) = m[last].number
      BY <1>4, <2>1 DEF RepairedAttempt, N
    <2> HIDE DEF last
    <2> QED BY <1>1, <1>3, <1>4, <2>4, <2>5 DEF m, Matches, N
  <1>5. CASE ~Matches
    <2>1. N = M
      BY <1>3, <1>5
    <2>2. RepairedAttempt(a, m) = RepairedAttempt(a, l)
      <3>1. CASE M = {}
        BY <2>1, <3>1 DEF RepairedAttempt
      <3>2. CASE M # {}
        <4> DEFINE last == CHOOSE k \in M : \A j \in M : j <= k
        <4>1. \E k \in M : \A j \in M : j <= k
          BY <1>2, <3>2, GreatestNumber
        <4>2. last \in M
          BY <4>1
        <4>3. m[last] = l[last]
          BY <1>1, <1>2, <4>2
        <4>4. /\ RepairedAttempt(a, l) =
                   IF Latest(a) > 0 /\ M # {} THEN l[last].number ELSE Latest(a)
              /\ RepairedAttempt(a, m) =
                   IF Latest(a) > 0 /\ N # {}
                     THEN m[CHOOSE k \in N : \A j \in N : j <= k].number ELSE Latest(a)
          BY DEF RepairedAttempt
        <4> QED BY <2>1, <4>3, <4>4
      <3> QED BY <3>1, <3>2
    <2> QED BY <1>3, <1>5, <2>2 DEF m, Matches
  <1>6. CASE Matches /\ ~(Latest(a) > 0)
    BY <1>6, <1>3 DEF RepairedAttempt, m, Matches
  <1> QED BY <1>4, <1>5, <1>6

\* A kept attribution keeps the events of the answers.
LEMMA SameAttribution ==
    ASSUME NEW a, NEW events, NEW others,
           RepairedAttempt(a, others) = RepairedAttempt(a, events)
    PROVE  Tellings(a, others) = Tellings(a, events)
  BY DEF Tellings, RepairEvents

\* What has been emitted does not change what else is to be emitted.
LEMMA TellingsStay ==
    ASSUME LogInv, NEW e, Due(e), ~Conflicts(e), e.kind # "freeze",
           NEW i \in Opened(disk)
    PROVE  LET a == Opportunity(disk, i)
               l == Append(log, e)
           IN /\ \A f \in Tellings(a, log) : f \in todo /\ f # e => f \in Tellings(a, l)
              /\ \A f \in Tellings(a, l) : f \in Tellings(a, log) \/ KeyIn(l, f)
  <1> DEFINE a == Opportunity(disk, i)
             l == Append(log, e)
             n == RepairedAttempt(a, log)
             Matches == /\ e.kind = "response" /\ e.index = a.index
                        /\ ~e.body.parsed /\ e.body.text = a.previous
  <1>1. /\ log \in Seq(Range(log)) /\ Len(log) \in Nat /\ Sound(disk)
        /\ \A k \in 1 .. Len(log) : Called(log[k], disk)
    BY LogFacts DEF LogInv, LogIsCalled
  <1>2. /\ Len(l) = Len(log) + 1 /\ l[Len(log) + 1] = e
        /\ \A k \in 1 .. Len(log) : l[k] = log[k]
    BY <1>1, Appended
  <1>3. RepairedAttempt(a, l) =
          IF Matches /\ Latest(a) > 0 THEN e.number ELSE n
    BY <1>1, AttributionStays
  <1>4. /\ a.index = i /\ a.repairs \in Nat /\ a.attempts \in Nat /\ i \in Nat
        /\ n \in Nat
    BY <1>1, SoundOpportunity, Attributed
  <1> HIDE DEF l, n, a
  <1>5. CASE ~(Matches /\ Latest(a) > 0) \/ e.number = n
    BY <1>3, <1>5, SameAttribution DEF n, a, l
  <1>6. CASE Matches /\ Latest(a) > 0 /\ e.number # n
    <2>1. e \in Tellings(a, log) /\ e.index = i /\ e \in todo
      BY <1>4, <1>6, Pending DEF Due, a
    <2>2. e \in ResponseEvents(a)
      <3> SUFFICES ASSUME e \in RepairEvents(a, log) PROVE FALSE
        BY <2>1 DEF Tellings
      <3>1. e.number = n
        BY <1>4, <1>6, RepairFields DEF n
      <3> QED BY <1>6, <3>1
    <2>3. e.number = a.attempts /\ e.kind = "response" /\ e.body.tokens
      BY <2>2, AnswerFields
    <2>4. Place(e) = 4
      BY <2>3 DEF Place
    <2>5. ASSUME NEW f \in RepairEvents(a, log)
          PROVE  Before(f, e)
      <3>1. f.index = i /\ (f.kind = "repair" \/ (f.kind = "response" /\ ~f.body.tokens))
        BY <1>4, RepairFields
      <3>2. Place(f) \in {2, 3}
        BY <3>1 DEF Place
      <3> QED BY <2>1, <2>4, <3>1, <3>2 DEF Before
    <2>6. ASSUME NEW f \in Tellings(a, log), f \in todo, f # e
          PROVE  f \in Tellings(a, l)
      BY <2>5, <2>6 DEF Due, Tellings
    <2>7. ASSUME NEW f \in RepairEvents(a, l)
          PROVE  KeyIn(l, f)
      <3>1. RepairedAttempt(a, l) = a.attempts
        BY <1>3, <1>6, <2>3
      <3>2. CASE f.kind = "response"
        <4>1. f.index = i /\ f.number = a.attempts
          BY <1>4, <3>1, <3>2, RepairFields
        <4>2. SameKey(e, f)
          BY <2>1, <2>3, <3>2, <4>1 DEF SameKey
        <4> QED BY <1>1, <1>2, <4>2 DEF KeyIn
      <3>3. CASE f.kind = "repair"
        <4> DEFINE r == f.number
        <4>1. f.index = i /\ r \in 1 .. a.repairs
          BY <1>4, <3>3, RepairFields
        <4> DEFINE g == Event("repair", i, r, IF n > 0 THEN n ELSE 1)
        <4>2. g \in RepairEvents(a, log)
          BY <1>4, <4>1, RepairEventIs DEF n
        <4>3. g \in Expected(disk, log)
          BY <1>1, <4>2, ExpectedIs DEF Tellings, a
        <4>4. KeyIn(log, g)
          BY <2>5, <4>2, <4>3, DueIsFirst
        <4>5. PICK k \in 1 .. Len(log) : SameKey(log[k], g)
          BY <4>4 DEF KeyIn
        <4>6. f.kind = g.kind /\ f.index = g.index /\ f.number = g.number /\ g.kind = "repair"
          BY <3>3, <4>1 DEF Event
        <4>7. SameKey(log[k], f)
          BY <4>5, <4>6 DEF SameKey
        <4> QED BY <1>1, <1>2, <4>7 DEF KeyIn
      <3> QED BY <1>4, <3>2, <3>3, RepairFields
    <2> QED BY <2>6, <2>7 DEF Tellings, a, l
  <1> QED BY <1>5, <1>6

\* Once an event is emitted, the rest is still called for, and nothing else is.
LEMMA ExpectedStays ==
    ASSUME LogInv, NEW e, Due(e), ~Conflicts(e), e.kind # "freeze"
    PROVE  LET l == Append(log, e)
           IN /\ \A f \in todo : f # e => f \in Expected(disk, l)
              /\ \A f \in Expected(disk, l) : f \in Expected(disk, log) \/ KeyIn(l, f)
  <1> DEFINE l == Append(log, e)
  <1>1. Sound(disk)
    BY LogFacts
  <1>2. ASSUME NEW f \in todo, f # e
        PROVE  f \in Expected(disk, l)
    BY Pending, <1>2, TellingsStay, <1>1, ExpectedIs
  <1>3. ASSUME NEW f \in Expected(disk, l)
        PROVE  f \in Expected(disk, log) \/ KeyIn(l, f)
    BY TellingsStay, <1>1, ExpectedIs, <1>3
  <1> QED BY <1>2, <1>3

-----------------------------------------------------------------------------
\* A process that ends leaves a run behind that can be told.
LEMMA ProcessEnded ==
    ASSUME RunInv, pc \in {"running", "request", "exited"},
           pc' = "down", mem' = NoState,
           UNCHANGED <<markers, disk, result, launches, requests, trained>>
    PROVE  RunInv'
  <1>1. /\ TypeOK /\ MemoryIsStored /\ RequestsAccounted /\ EvaluationHasCandidate
        /\ StoredIsValid /\ LedgerIsSound /\ ActiveIsGrounded /\ StateReconstructs
    BY DEF RunInv, EngineInv, StoredInv
  <1>2. TypeOK'
    BY <1>1, InitialTypes DEF TypeOK, PcValues
  <1>3. StoredInv'
    BY <1>1, InitialTypes, <1>2
       DEF MemoryIsStored, Holding, RequestIsNew, RequestsAccounted,
           EvaluationHasCandidate, StoredInv
  <1>4. StoredIsValid' /\ PlaceIsStored'
    BY <1>1 DEF StoredIsValid, PlaceIsStored, Holding
  <1>5. LedgerIsSound' /\ ActiveIsGrounded'
    BY <1>1 DEF LedgerIsSound, ActiveIsGrounded
  <1>6. StateReconstructs'
    BY <1>1, ReconstructionKept DEF StateReconstructs, LedgerReconstructs, TypeOK
  <1>7. TrainingSlack'
    <2>1. Spent(0, 0)
      BY <1>1, StateNumbers DEF Spent, TypeOK
    <2>2. ~Recording /\ ~Recording' /\ ~Alive'
      BY DEF Recording, Alive, Holding
    <2> QED BY <1>2, <2>1, <2>2, QuietSlack
  <1> QED BY <1>3, <1>4, <1>5, <1>6, <1>7 DEF RunInv, EngineInv

\* A step of the sink alone keeps the invariant of the run.
LEMMA SameRun ==
    ASSUME RunInv, UNCHANGED vars
    PROVE  RunInv'
  BY RunInvStep

Freezes == IndexLoaded \/ PointerCreated \/ IndexFrozen

\* The engine keeps its invariant under the sink.
LEMMA RunKept ==
    ASSUME RunInv, TodoIsMissing, [SinkNext]_allVars
    PROVE  RunInv'
  <1>1. CASE EngineMoves
    BY <1>1, RunInvStep DEF EngineMoves, Next
  <1>2. CASE EmitFails \/ IndexUnreadable
    <2>1. todo # {} /\ Escapes
      BY <1>2 DEF EmitFails, IndexUnreadable, Due
    <2> QED BY <2>1, ProcessEnded DEF Escapes, TodoIsMissing
  <1>3. CASE LaunchSink
    BY <1>3, RunInvStep DEF LaunchSink, Next
  <1>4. CASE CrashSink
    BY RunInvStep, ProcessEnded, <1>4 DEF Next, CrashSink
  <1>5. CASE Emit \/ Freezes \/ ObserveReturned \/ TerminatedSink \/ UNCHANGED allVars
    <2>1. UNCHANGED vars
      BY <1>5 DEF Emit, EmitEvent, Freezes, ObserveReturned, TerminatedSink, Terminated,
                  allVars, IndexLoaded, PointerCreated, IndexFrozen
    <2> QED BY <2>1, SameRun
  <1> QED BY <1>1, <1>2, <1>3, <1>4, <1>5 DEF SinkNext, SinkStep, Freezes

\* An event that is appended.
LEMMA Emitted ==
    ASSUME LogInv, NEW e, EmitEvent(e)
    PROVE  /\ e \in todo /\ Due(e) /\ ~Conflicts(e) /\ Called(e, disk) /\ ~KeyIn(log, e)
           /\ e.kind # "freeze"
           /\ log' = Append(log, e) /\ log' \in Seq(Range(log'))
           /\ Len(log') = Len(log) + 1 /\ Len(log) \in Nat
           /\ log'[Len(log) + 1] = e /\ \A k \in 1 .. Len(log) : log'[k] = log[k]
           /\ \A k \in 1 .. Len(log') : k \in 1 .. Len(log) \/ k = Len(log) + 1
           /\ disk' = disk /\ mem' = mem /\ pc' = pc /\ requests' = requests
           /\ todo' = todo \ {e} /\ frozen' = frozen
           /\ \A f : KeyIn(log', f) <=> KeyIn(log, f) \/ SameKey(e, f)
  <1>1. /\ e \in todo /\ Due(e) /\ ~Conflicts(e) /\ log' = Append(log, e)
        /\ disk' = disk /\ mem' = mem /\ pc' = pc /\ requests' = requests
        /\ todo' = todo \ {e} /\ frozen' = frozen /\ e # FreezeEvent
    BY DEF EmitEvent, Due, vars
  <1>2. Called(e, disk) /\ ~KeyIn(log, e) /\ e.kind # "freeze"
    BY <1>1, Pending, EmittedIsNew
  <1>3. /\ log' \in Seq(Range(log')) /\ Len(log') = Len(log) + 1 /\ Len(log) \in Nat
        /\ log'[Len(log) + 1] = e /\ \A k \in 1 .. Len(log) : log'[k] = log[k]
    BY <1>1, Appended DEF LogInv, LogIsCalled
  <1>4. \A k \in 1 .. Len(log') : k \in 1 .. Len(log) \/ k = Len(log) + 1
    BY <1>3
  <1>5. 1 .. Len(log) \subseteq 1 .. Len(log') /\ Len(log) + 1 \in 1 .. Len(log')
    BY <1>3
  <1>6. \A f : KeyIn(log', f) <=> KeyIn(log, f) \/ SameKey(e, f)
    BY <1>3, <1>4, <1>5 DEF KeyIn
  <1> QED BY <1>1, <1>2, <1>3, <1>4, <1>6

\* Events of one key agree on kind, index and number.
LEMMA KeyFields ==
    ASSUME NEW e, NEW f, SameKey(e, f)
    PROVE  e.kind = f.kind /\ e.index = f.index /\ e.number = f.number /\ SameKey(f, e)
  BY DEF SameKey

\* Nothing is told after the completion.
LEMMA CompletionIsLast ==
    ASSUME LogInv, NEW k \in 1 .. Len(log), log[k].kind = "completed",
           NEW e \in todo, ~Conflicts(e), e.kind # "freeze"
    PROVE  FALSE
  <1> DEFINE c == log[k]
  <1>1. /\ Sound(disk) /\ Called(c, disk) /\ Called(e, disk) /\ ~KeyIn(log, e)
        /\ e \in Expected(disk, log)
    BY LogFacts, Pending, EmittedIsNew
  <1>2. c.index = Final /\ c.number = 0
    BY <1>1 DEF Called, Event
  <1>3. CASE e.kind = "completed"
    BY <1>1, <1>3, <1>2 DEF Called, Event, SameKey, KeyIn
  <1>4. CASE e.kind # "completed"
    <2>1. Earlier(e, c)
      BY <1>1, CalledIndex, <1>4, <1>2 DEF RankOfAll, Earlier
    <2>2. KeyLogged(e)
      BY <1>1, <2>1 DEF LogInv, ToldBefore
    <2> QED BY <1>1, <2>2 DEF KeyLogged, KeyIn
  <1> QED BY <1>3, <1>4

\* Each part of the invariant of the log, when an event is emitted.
LEMMA EmitKeepsLog ==
    ASSUME LogInv, NEW e, EmitEvent(e)
    PROVE  LogIsCalled'
  <1>1. /\ LogIsCalled /\ Sound(disk) /\ disk.status # "absent"
        /\ Called(e, disk) /\ ~KeyIn(log, e) /\ e \in todo /\ ~Conflicts(e)
    BY Emitted, LogFacts, Pending DEF LogInv
  <1>2. \A k \in 1 .. Len(log') : Called(log'[k], disk')
    BY <1>1, Emitted DEF LogIsCalled
  <1>3. ASSUME NEW j \in 1 .. Len(log'), NEW k \in 1 .. Len(log'),
               SameKey(log'[j], log'[k])
        PROVE  j = k
    BY <1>1, <1>3, Emitted, KeyFields DEF LogIsCalled, KeyIn
  <1>4. ASSUME NEW k \in 1 .. Len(log'), log'[k].kind = "completed"
        PROVE  k = Len(log')
    BY <1>4, Emitted, <1>1, CompletionIsLast
  <1> QED BY <1>1, <1>2, <1>3, <1>4, Emitted DEF LogIsCalled

\* Admitted events of one key and one body are the same event.
LEMMA CalledIsOne ==
    ASSUME NEW s, Sound(s),
           NEW e, Called(e, s) \/ e = FreezeEvent, NEW f, Called(f, s) \/ f = FreezeEvent,
           SameKey(e, f), e.body = f.body
    PROVE  e = f
  BY CalledForm, KeyFields DEF FreezeEvent, Event

LEMMA EmitKeepsTodo ==
    ASSUME LogInv, NEW e, EmitEvent(e)
    PROVE  TodoIsMissing'
  <1>1. /\ TodoIsMissing /\ Sound(disk) /\ e \in todo /\ Due(e) /\ ~Conflicts(e)
        /\ Called(e, disk)
    BY Emitted, LogFacts DEF LogInv
  <1>2. /\ todo # {} => mem = disk /\ pc \in {"running", "request", "exited"}
        /\ pc = "exited" => mem = disk /\ disk.status = "completed"
    BY <1>1 DEF TodoIsMissing
  <1>3. ASSUME NEW f \in todo'
        PROVE  f \in Expected(disk', log') /\ ~Kept(f, log')
    <2>1. f \in todo /\ f # e /\ ~Kept(f, log)
      BY <1>3, Emitted, Pending
    <2>2. f \in Expected(disk, log')
      BY <1>1, <2>1, ExpectedStays, Emitted
    <2>3. ~(SameKey(e, f) /\ e.body = f.body)
      BY <1>1, <2>1, Pending, CalledIsOne
    <2>4. ~Kept(f, log')
      BY <2>1, <2>3, Emitted DEF Kept
    <2> QED BY <2>2, <2>4, Emitted
  <1>4. ASSUME NEW f \in Expected(disk', log')
        PROVE  f = FreezeEvent \/ f \in todo' \/ KeyIn(log', f)
    <2>1. f \in Expected(disk, log) \/ KeyIn(log', f)
      BY <1>1, <1>4, ExpectedStays, Emitted
    <2>2. CASE f \in Expected(disk, log)
      BY <1>1, <2>2, Emitted DEF TodoIsMissing, KeyLogged, KeyIn, SameKey
    <2> QED BY <2>1, <2>2
  <1>5. ASSUME NEW f \in Expected(disk', log')
        PROVE  f = FreezeEvent \/ f \in todo' \/ KeyLogged(f)'
    BY <1>4 DEF KeyLogged, KeyIn
  <1> QED BY <1>1, <1>2, <1>3, <1>5, Emitted DEF TodoIsMissing

LEMMA EmitKeepsTold ==
    ASSUME LogInv, NEW e, EmitEvent(e)
    PROVE  ToldBefore'
  <1>1. /\ Sound(disk) /\ e \in todo /\ Due(e) /\ ~Conflicts(e) /\ Called(e, disk)
        /\ ToldBefore /\ TodoIsMissing
    BY Emitted, LogFacts DEF LogInv
  <1>2. ASSUME NEW k \in 1 .. Len(log'), NEW f \in Expected(disk', log'),
               Earlier(f, log'[k]),
               log'[k].kind = "completed" \/ (log'[k].kind # "budget" /\ f.index # NoIndex)
        PROVE  KeyIn(log', f)
    <2>1. f \in Expected(disk, log) \/ KeyIn(log', f)
      BY <1>1, <1>2, ExpectedStays, Emitted
    <2> SUFFICES ASSUME f \in Expected(disk, log)
                 PROVE  KeyIn(log', f)
      BY <2>1
    <2>2. CASE k \in 1 .. Len(log)
      BY <1>1, <1>2, <2>2, Emitted DEF ToldBefore, KeyLogged, KeyIn
    <2>3. CASE k = Len(log) + 1
      BY <1>2, <2>3, Emitted, <1>1, LogFacts, ExpectedIsCalled, FreezeIsLast,
         EarlierIsBefore, DueIsFirst
    <2> QED BY <2>2, <2>3, Emitted
  <1>3. ASSUME NEW k \in 1 .. Len(log'), NEW f \in Expected(disk', log'),
               Earlier(f, log'[k]),
               log'[k].kind = "completed" \/ (log'[k].kind # "budget" /\ f.index # NoIndex)
        PROVE  KeyLogged(f)'
    BY <1>2, <1>3 DEF KeyLogged, KeyIn
  <1> QED BY <1>3 DEF ToldBefore

-----------------------------------------------------------------------------
\* An attempt that the stored state calls for, in the log.
AttemptEvent(i, n) == Event("attempt", i, n, None)

\* An attempt is logged when an event of its kind, index and number is.
LEMMA AttemptKey ==
    ASSUME NEW l, NEW i, NEW n
    PROVE  KeyIn(l, AttemptEvent(i, n)) <=>
             \E k \in 1 .. Len(l) : /\ l[k].kind = "attempt" /\ l[k].index = i
                                    /\ l[k].number = n
  BY DEF KeyIn, SameKey, AttemptEvent, Event

\* Every attempt of an opportunity is called for.
LEMMA AttemptStands ==
    ASSUME NEW s, Sound(s), NEW i \in Opened(s), NEW n \in 1 .. Opportunity(s, i).attempts,
           NEW events
    PROVE  AttemptEvent(i, n) \in Expected(s, events)
  <1> DEFINE e == AttemptEvent(i, n)
  <1>1. e.kind = "attempt" /\ e.index = i /\ e.number = n /\ e = Event("attempt", i, n, None)
    BY DEF AttemptEvent, Event
  <1> HIDE DEF e
  <1>2. Called(e, s)
    BY <1>1 DEF Called
  <1>3. Standing(e, s)
    BY <1>1, <1>2 DEF Standing
  <1> QED BY <1>3, ExpectedIs DEF e

\* An attempt or an answer that is due finds the attempts before it told.
LEMMA AttemptsAreTold ==
    ASSUME LogInv, NEW e, Due(e), Called(e, disk), e.kind \in {"response", "attempt"}
    PROVE  /\ e.number > 1 => KeyIn(log, AttemptEvent(e.index, e.number - 1))
           /\ e.kind = "response" => KeyIn(log, AttemptEvent(e.index, e.number))
  <1> DEFINE i == e.index
             a == Opportunity(disk, i)
  <1>1. /\ Sound(disk) /\ i \in Opened(disk) /\ e.number \in 1 .. a.attempts
    BY LogFacts DEF Called
  <1>2. a.attempts \in Nat /\ i \in Nat
    BY <1>1, SoundOpportunity
  <1>3. Place(e) = IF e.kind = "attempt" THEN 1 ELSE IF e.body.tokens THEN 4 ELSE 2
    BY DEF Place
  <1>4. ASSUME NEW n \in 1 .. a.attempts,
               n < e.number \/ (e.kind = "response" /\ n = e.number)
        PROVE  KeyIn(log, AttemptEvent(i, n))
    <2> DEFINE f == AttemptEvent(i, n)
    <2>1. f.kind = "attempt" /\ f.index = i /\ f.number = n
      BY DEF AttemptEvent, Event
    <2>2. f \in Expected(disk, log)
      BY <1>1, AttemptStands
    <2> HIDE DEF f
    <2>3. Place(f) = 1
      BY <2>1 DEF Place
    <2>4. Before(f, e)
      BY <1>3, <1>4, <2>1, <2>3 DEF Before
    <2> QED BY <2>2, <2>4, DueIsFirst DEF f
  <1>5. e.number > 1 => e.number - 1 \in 1 .. a.attempts /\ e.number - 1 < e.number
    BY <1>1, <1>2
  <1> QED BY <1>1, <1>4, <1>5

\* The three parts of CausallyOrdered.
RequestsAreTold == \A r \in requests : Logged("attempt", r[1], r[2]) # {}

InOrder ==
    \A k \in 1 .. Len(log) : log[k].index \in Opportunities =>
      \A j \in 1 .. (k - 1) : log[j].index \in Opportunities =>
        \/ log[j].index < log[k].index
        \/ log[j].index = log[k].index /\ Rank(log[j]) <= Rank(log[k])

AttemptAt(l, j, i, n) == l[j].kind = "attempt" /\ l[j].index = i /\ l[j].number = n

NoGap(l) ==
    \A k \in 1 .. Len(l) :
      /\ l[k].kind \in {"response", "attempt"} /\ l[k].number > 1 =>
           \E j \in 1 .. Len(l) : AttemptAt(l, j, l[k].index, l[k].number - 1) /\ j < k
      /\ l[k].kind = "response" =>
           \E j \in 1 .. Len(l) : AttemptAt(l, j, l[k].index, l[k].number) /\ j < k

\* The causal order is of requests, of opportunities and of attempts.
LEMMA OrderIs == CausallyOrdered <=> RequestsAreTold /\ InOrder /\ NoGap(log)
  BY DEF Logged, AttemptAt, CausallyOrdered, RequestsAreTold, InOrder, NoGap

LEMMA OrderIsNext == CausallyOrdered' <=> RequestsAreTold' /\ InOrder' /\ NoGap(log')
  <1>1. NoGap(log)' <=> NoGap(log')
    BY DEF NoGap, AttemptAt
  <1> QED BY <1>1, OrderIs, PTL

LEMMA EmitKeepsOrder ==
    ASSUME LogInv, NEW e, EmitEvent(e)
    PROVE  CausallyOrdered'
  <1>1. /\ Sound(disk) /\ e \in todo /\ Due(e) /\ ~Conflicts(e) /\ Called(e, disk)
        /\ ~KeyIn(log, e) /\ ToldBefore /\ RequestsAreTold /\ InOrder /\ NoGap(log)
        /\ Len(log) \in Nat /\ \A k \in 1 .. Len(log) : Called(log[k], disk)
    BY Emitted, LogFacts, OrderIs DEF LogInv
  <1>2. ASSUME NEW i, NEW n, NEW k \in Logged("attempt", i, n)
        PROVE  k \in Logged("attempt", i, n)' /\ k \in 1 .. Len(log)
    BY <1>1, Emitted DEF Logged
  <1>3. RequestsAreTold'
    BY <1>1, <1>2, Emitted DEF RequestsAreTold
  <1>4. InOrder'
    <2> SUFFICES ASSUME NEW k \in 1 .. Len(log'), log'[k].index \in Opportunities,
                        NEW j \in 1 .. (k - 1), log'[j].index \in Opportunities
                 PROVE  \/ log'[j].index < log'[k].index
                        \/ log'[j].index = log'[k].index /\ Rank(log'[j]) <= Rank(log'[k])
      BY DEF InOrder
    <2>1. CASE k \in 1 .. Len(log)
      BY <1>1, <2>1, Emitted DEF InOrder
    <2>2. CASE k = Len(log) + 1
      <3>1. j \in 1 .. Len(log) /\ log'[j] = log[j] /\ log'[k] = e
        BY <1>1, <2>2, Emitted
      <3>2. Called(log[j], disk) /\ e.index \in Opportunities /\ log[j].index \in Opportunities
        BY <1>1, <3>1
      <3>3. ~Earlier(e, log[j])
        <4> SUFFICES ASSUME Earlier(e, log[j]) PROVE FALSE
          OBVIOUS
        <4>1. e \in Expected(disk, log)
          BY <1>1, Pending
        <4>2. log[j].kind # "budget" /\ e.index # NoIndex
          BY <1>1, <3>2, CalledIndex
        <4>3. KeyLogged(e)
          BY <1>1, <3>1, <4>1, <4>2 DEF ToldBefore
        <4> QED BY <1>1, <4>3 DEF KeyLogged, KeyIn
      <3> QED BY <1>1, <3>1, <3>2, <3>3, NotEarlier
    <2> QED BY <2>1, <2>2, Emitted
  <1>5. NoGap(log')
    <2>1. ASSUME NEW k \in 1 .. Len(log'), NEW n,
                 \E j \in 1 .. Len(log) : AttemptAt(log, j, log'[k].index, n) /\ j < k
          PROVE  \E j \in 1 .. Len(log') : AttemptAt(log', j, log'[k].index, n) /\ j < k
      BY <1>1, Emitted, <2>1 DEF AttemptAt
    <2>2. ASSUME NEW k \in 1 .. Len(log)
          PROVE  /\ log'[k].kind \in {"response", "attempt"} /\ log'[k].number > 1 =>
                      \E j \in 1 .. Len(log) :
                         AttemptAt(log, j, log'[k].index, log'[k].number - 1) /\ j < k
                 /\ log'[k].kind = "response" =>
                      \E j \in 1 .. Len(log) :
                         AttemptAt(log, j, log'[k].index, log'[k].number) /\ j < k
      <3>1. log'[k] = log[k]
        BY <2>2, Emitted
      <3> QED BY <1>1, <2>2, <3>1 DEF NoGap
    <2>3. ASSUME NEW k, k = Len(log) + 1
          PROVE  /\ log'[k].kind \in {"response", "attempt"} /\ log'[k].number > 1 =>
                      \E j \in 1 .. Len(log) :
                         AttemptAt(log, j, log'[k].index, log'[k].number - 1) /\ j < k
                 /\ log'[k].kind = "response" =>
                      \E j \in 1 .. Len(log) :
                         AttemptAt(log, j, log'[k].index, log'[k].number) /\ j < k
      <3>1. log'[k] = e
        BY <2>3, Emitted
      <3>2. ASSUME NEW n, KeyIn(log, AttemptEvent(e.index, n))
            PROVE  \E j \in 1 .. Len(log) : AttemptAt(log, j, e.index, n) /\ j < k
        <4>1. PICK j \in 1 .. Len(log) : AttemptAt(log, j, e.index, n)
          BY <3>2, AttemptKey DEF AttemptAt
        <4>2. j < k
          BY <1>1, <2>3
        <4> QED BY <4>1, <4>2
      <3>3. /\ e.kind \in {"response", "attempt"} /\ e.number > 1 =>
                  KeyIn(log, AttemptEvent(e.index, e.number - 1))
            /\ e.kind = "response" => KeyIn(log, AttemptEvent(e.index, e.number))
        BY <1>1, AttemptsAreTold
      <3> QED BY <3>1, <3>2, <3>3
    <2> QED BY <2>1, <2>2, <2>3, Emitted DEF NoGap
  <1> QED BY <1>3, <1>4, <1>5, OrderIsNext

LEMMA EmitKeepsAttempt ==
    ASSUME LogInv, NEW e, EmitEvent(e)
    PROVE  AttemptIsTold'
  <1> DEFINE f == Event("attempt", disk.active.index, disk.active.attempts, None)
  <1>1. /\ pc \in {"request", "await"} => f \in todo \/ KeyIn(log, f)
        /\ pc = "await" => KeyIn(log, f)
    BY DEF LogInv, AttemptIsTold, KeyLogged, KeyIn
  <1>2. f' = f
    BY Emitted
  <1> HIDE DEF f
  <1>3. f \in todo => f \in todo' \/ KeyIn(log', f)
    <2>1. f = e => SameKey(e, f)
      BY DEF SameKey
    <2> QED BY <2>1, Emitted
  <1>4. /\ pc' \in {"request", "await"} => f' \in todo' \/ KeyIn(log', f')
        /\ pc' = "await" => KeyIn(log', f')
    BY <1>1, <1>2, <1>3, Emitted
  <1> QED BY <1>4 DEF AttemptIsTold, KeyLogged, KeyIn, f

LEMMA EmitKeepsMirror ==
    ASSUME LogInv, NEW e, EmitEvent(e)
    PROVE  CompletedMirrored'
  <1>1. frozen = 0
    <2> SUFFICES ASSUME frozen # 0 PROVE FALSE
      OBVIOUS
    <2>1. frozen = Len(log) /\ log[frozen].kind = "completed"
      BY DEF LogInv, CompletedMirrored
    <2>2. frozen \in 1 .. Len(log)
      BY <2>1, LogFacts
    <2> QED BY <2>1, <2>2, CompletionIsLast, Emitted
  <1> QED BY <1>1, Emitted DEF CompletedMirrored

LEMMA EmitKeeps ==
    ASSUME LogInv, RunInv', NEW e, EmitEvent(e)
    PROVE  LogInv'
  BY EmitKeepsLog, EmitKeepsTodo, EmitKeepsTold, EmitKeepsAttempt, EmitKeepsOrder,
     EmitKeepsMirror DEF LogInv

-----------------------------------------------------------------------------
\* The index is frozen when everything the state calls for has been told.
LEMMA AllTold ==
    ASSUME LogInv, Due(FreezeEvent)
    PROVE  /\ todo = {FreezeEvent} /\ disk.status = "completed"
           /\ \A e \in Expected(disk, log) : e = FreezeEvent \/ KeyIn(log, e)
           /\ \A e : Standing(e, disk) => KeyIn(log, e)
           /\ KeyIn(log, BudgetEvent(disk))
  <1>1. /\ FreezeEvent \in todo /\ Sound(disk) /\ Len(log) \in Nat
        /\ \A k \in 1 .. Len(log) : Called(log[k], disk)
    BY LogFacts DEF Due
  <1>2. disk.status = "completed"
    BY <1>1, Pending DEF Called, FreezeEvent, Event
  <1>3. ASSUME NEW e \in Expected(disk, log), e # FreezeEvent
        PROVE  Before(e, FreezeEvent) /\ KeyIn(log, e)
    BY <1>1, <1>3, ExpectedIsCalled, FreezeIsLast, DueIsFirst
  <1>4. todo = {FreezeEvent}
    BY <1>3, Pending, <1>1 DEF Due
  <1>5. ASSUME NEW e, Standing(e, disk)
        PROVE  KeyIn(log, e)
    BY <1>1, <1>5, ExpectedIs, FreezeIsLast, <1>3 DEF Standing
  <1>6. KeyIn(log, BudgetEvent(disk))
    BY <1>1, ExpectedIs, <1>3 DEF BudgetEvent, FreezeEvent, Event
  <1> QED BY <1>2, <1>3, <1>4, <1>5, <1>6

\* An event that stands for itself, in a log that holds all of them.
LEMMA StandingKey ==
    ASSUME \A e : Standing(e, disk) => KeyIn(log, e),
           NEW kind \in {"attempt", "candidate", "evaluation", "promotion", "failure"},
           NEW i, NEW n, NEW body, Called(Event(kind, i, n, body), disk)
    PROVE  Logged(kind, i, n) # {}
  <1> DEFINE e == Event(kind, i, n, body)
  <1>1. e.kind = kind /\ e.index = i /\ e.number = n /\ Called(e, disk)
    BY DEF Event
  <1> HIDE DEF e
  <1>2. Standing(e, disk)
    BY <1>1 DEF Standing
  <1>3. PICK k \in 1 .. Len(log) : SameKey(log[k], e)
    BY <1>2 DEF KeyIn
  <1>4. k \in Logged(kind, i, n)
    BY <1>1, <1>3 DEF SameKey, Logged
  <1> QED BY <1>4

\* What is found in the log is admitted.
LEMMA LoggedIs ==
    ASSUME \A k \in 1 .. Len(log) : Called(log[k], disk),
           NEW kind, NEW i, NEW n, NEW k \in Logged(kind, i, n)
    PROVE  /\ Called(log[k], disk)
           /\ log[k].kind = kind /\ log[k].index = i /\ log[k].number = n
  BY DEF Logged

\* What a complete log says of a closed opportunity.
MirrorsClosed(i) ==
    LET r == disk.terminal[i]
        a == r.opportunity
    IN /\ {n \in 1 .. ProviderAttempts : Logged("attempt", i, n) # {}} = 1 .. a.attempts
       /\ Logged("candidate", i, 0) # {} <=> a.candidate # None
       /\ \A k \in Logged("evaluation", i, 0) : log[k].body = a.evaluation
       /\ Logged("evaluation", i, 0) = {} <=> a.evaluation = None
       /\ Logged("promotion", i, 0) # {} <=> r.outcome = "accepted"
       /\ Logged("failure", i, 0) # {} <=> r.outcome \notin {"accepted", "rejected"}

\* When all that stands is logged, closed opportunities are mirrored.
LEMMA ClosedIsMirrored ==
    ASSUME Sound(disk), \A k \in 1 .. Len(log) : Called(log[k], disk),
           \A e : Standing(e, disk) => KeyIn(log, e),
           NEW i \in 1 .. Len(disk.terminal)
    PROVE  MirrorsClosed(i)
  <1> DEFINE r == disk.terminal[i]
             a == r.opportunity
  <1>1. i \in Opened(disk) /\ Opportunity(disk, i) = a
    BY OpenedIs
  <1>2. /\ a.attempts \in Nat /\ a.attempts <= ProviderAttempts /\ i # NoIndex
        /\ i \in Opportunities
    <2>1. NoIndex \notin Opportunities
      BY BudgetAssumption DEF NoIndex, Opportunities
    <2> QED BY <1>1, <2>1, SoundOpportunity
  <1>3. ASSUME NEW n
        PROVE  Logged("attempt", i, n) # {} <=> n \in 1 .. a.attempts
    <2> DEFINE e == Event("attempt", i, n, None)
    <2>1. n \in 1 .. a.attempts => Called(e, disk)
      BY <1>1 DEF Called, Event
    <2>2. ASSUME NEW k \in Logged("attempt", i, n)
          PROVE  n \in 1 .. a.attempts
      <3>1. /\ Called(log[k], disk) /\ log[k].kind = "attempt" /\ log[k].index = i
            /\ log[k].number = n
        BY LoggedIs
      <3> QED BY <1>1, <3>1 DEF Called
    <2> QED BY <2>1, <2>2, StandingKey
  <1>4. {n \in 1 .. ProviderAttempts : Logged("attempt", i, n) # {}} = 1 .. a.attempts
    <2>1. 1 .. a.attempts \subseteq 1 .. ProviderAttempts
      BY <1>2, BudgetAssumption
    <2> HIDE DEF a
    <2> QED BY <1>3, <2>1
  <1>5. Logged("candidate", i, 0) # {} <=> a.candidate # None
    <2>1. a.candidate # None => Called(Event("candidate", i, 0, a.candidate), disk)
      BY <1>1 DEF Called, Event
    <2>2. ASSUME NEW k \in Logged("candidate", i, 0)
          PROVE  a.candidate # None
      <3>1. Called(log[k], disk) /\ log[k].kind = "candidate" /\ log[k].index = i
        BY LoggedIs
      <3> QED BY <1>1, <1>2, <3>1 DEF Called
    <2> QED BY <2>1, <2>2, StandingKey
  <1>6. ASSUME NEW k \in Logged("evaluation", i, 0)
        PROVE  log[k].body = a.evaluation /\ a.evaluation # None
    <2>1. Called(log[k], disk) /\ log[k].kind = "evaluation" /\ log[k].index = i
      BY LoggedIs
    <2>2. a.evaluation # None /\ log[k] = Event("evaluation", i, 0, a.evaluation)
      BY <1>1, <1>2, <2>1 DEF Called
    <2> QED BY <2>2 DEF Event
  <1>7. Logged("evaluation", i, 0) = {} <=> a.evaluation = None
    <2>1. a.evaluation # None => Called(Event("evaluation", i, 0, a.evaluation), disk)
      BY <1>1 DEF Called, Event
    <2> QED BY <1>6, <2>1, StandingKey
  <1>8. Logged("promotion", i, 0) # {} <=> r.outcome = "accepted"
    <2>1. r.outcome = "accepted" => Called(Event("promotion", i, 0, a.candidate), disk)
      BY <1>1 DEF Called, Event
    <2>2. ASSUME NEW k \in Logged("promotion", i, 0)
          PROVE  r.outcome = "accepted"
      <3>1. Called(log[k], disk) /\ log[k].kind = "promotion" /\ log[k].index = i
        BY LoggedIs
      <3> QED BY <3>1 DEF Called
    <2> QED BY <2>1, <2>2, StandingKey
  <1>9. Logged("failure", i, 0) # {} <=> r.outcome \notin {"accepted", "rejected"}
    <2>1. r.outcome \notin {"accepted", "rejected"} =>
            Called(Event("failure", i, 0, r.outcome), disk)
      BY <1>1 DEF Called, Event
    <2>2. ASSUME NEW k \in Logged("failure", i, 0)
          PROVE  r.outcome \notin {"accepted", "rejected"}
      <3>1. Called(log[k], disk) /\ log[k].kind = "failure" /\ log[k].index = i
        BY LoggedIs
      <3> QED BY <3>1 DEF Called
    <2> QED BY <2>1, <2>2, StandingKey
  <1> QED BY <1>4, <1>5, <1>6, <1>7, <1>8, <1>9 DEF MirrorsClosed

\* CompletedMirrored by opportunity.
LEMMA MirrorIs ==
    CompletedMirrored <=>
      (frozen # 0 =>
         /\ frozen = Len(log) /\ disk.status = "completed"
         /\ log[frozen].kind = "completed"
         /\ \E k \in 1 .. Len(log) :
               log[k].kind = "budget" /\ log[k].body = BudgetTotals(disk.ledger)
         /\ \A i \in 1 .. Len(disk.terminal) : MirrorsClosed(i))
  BY DEF CompletedMirrored, MirrorsClosed

\* A log that tells all that a completed state calls for mirrors the run.
LEMMA ToldIsMirrored ==
    ASSUME LogInv, Due(FreezeEvent)
    PROVE  /\ log[Len(log)].kind = "completed" /\ disk.status = "completed"
           /\ \E k \in 1 .. Len(log) :
                 log[k].kind = "budget" /\ log[k].body = BudgetTotals(disk.ledger)
           /\ \A i \in 1 .. Len(disk.terminal) : MirrorsClosed(i)
  <1>1. /\ Sound(disk) /\ disk.status = "completed"
        /\ \A k \in 1 .. Len(log) : Called(log[k], disk)
        /\ \A e : Standing(e, disk) => KeyIn(log, e)
        /\ KeyIn(log, BudgetEvent(disk))
    BY LogFacts, AllTold
  <1>2. log[Len(log)].kind = "completed"
    <2> DEFINE c == Event("completed", Final, 0, None)
    <2>1. Called(c, disk) /\ c.kind = "completed"
      BY <1>1 DEF Called, Event
    <2>2. PICK k \in 1 .. Len(log) : SameKey(log[k], c)
      BY <1>1, <2>1 DEF Standing, KeyIn
    <2>3. log[k].kind = "completed"
      BY <2>1, <2>2 DEF SameKey
    <2> QED BY <2>3 DEF LogInv, LogIsCalled
  <1>3. \E k \in 1 .. Len(log) :
                 log[k].kind = "budget" /\ log[k].body = BudgetTotals(disk.ledger)
    <2> DEFINE b == BudgetEvent(disk)
    <2>1. b.kind = "budget" /\ b.body = BudgetTotals(disk.ledger)
      BY DEF BudgetEvent, Event
    <2>2. PICK k \in 1 .. Len(log) : SameKey(log[k], b)
      BY <1>1 DEF KeyIn
    <2> HIDE DEF b
    <2> QED BY <2>1, <2>2 DEF SameKey
  <1>4. \A i \in 1 .. Len(disk.terminal) : MirrorsClosed(i)
    BY <1>1, ClosedIsMirrored
  <1> QED BY <1>1, <1>2, <1>3, <1>4

-----------------------------------------------------------------------------
\* A step that appends nothing and leaves the stored state alone.
LEMMA QuietKeeps ==
    ASSUME LogInv, RunInv', UNCHANGED <<log, disk, frozen>>, TodoIsMissing', AttemptIsTold',
           \/ requests' = requests
           \/ /\ pc = "request" /\ todo = {}
              /\ requests' = requests \cup {<<disk.active.index, disk.active.attempts>>}
    PROVE  LogInv'
  <1>1. LogIsCalled'
    BY DEF LogInv, LogIsCalled
  <1>2. ToldBefore'
    BY DEF LogInv, ToldBefore, KeyLogged
  <1>3. CompletedMirrored'
    BY DEF LogInv, CompletedMirrored, Logged
  <1>4. RequestsAreTold'
    <2>1. RequestsAreTold /\ \A kind, i, n : Logged(kind, i, n)' = Logged(kind, i, n)
      BY OrderIs DEF LogInv, Logged
    <2>2. CASE requests' = requests
      BY <2>1, <2>2 DEF RequestsAreTold
    <2>3. CASE /\ pc = "request" /\ todo = {}
               /\ requests' = requests \cup {<<disk.active.index, disk.active.attempts>>}
      <3> DEFINE e == AttemptEvent(disk.active.index, disk.active.attempts)
      <3>1. KeyLogged(e)
        BY <2>3 DEF LogInv, AttemptIsTold, AttemptEvent
      <3>2. KeyIn(log, e)
        BY <3>1 DEF KeyLogged, KeyIn
      <3>3. Logged("attempt", disk.active.index, disk.active.attempts) # {}
        BY <3>2, AttemptKey DEF Logged
      <3> QED BY <2>1, <2>3, <3>3 DEF RequestsAreTold
    <2> QED BY <2>2, <2>3
  <1>5. InOrder' /\ NoGap(log')
    BY OrderIs DEF LogInv, InOrder
  <1>6. CausallyOrdered'
    BY <1>4, <1>5, OrderIsNext
  <1> QED BY <1>1, <1>2, <1>3, <1>6 DEF LogInv

\* The index is frozen over the whole log, or was.
LEMMA FreezeKeeps ==
    ASSUME LogInv, RunInv', IndexFrozen \/ IndexLoaded
    PROVE  LogInv'
  <1> DEFINE e == FreezeEvent
  <1>1. /\ Due(e) /\ e \in todo /\ UNCHANGED vars /\ log' = log /\ todo' = todo \ {e}
        /\ frozen' \in {frozen, Len(log)}
    BY DEF IndexFrozen, IndexLoaded, Due
  <1>2. e = FreezeEvent
    OBVIOUS
  <1>3. todo' = {}
    BY <1>1, <1>2, AllTold
  <1>4. disk' = disk /\ mem' = mem /\ pc' = pc /\ requests' = requests
    BY <1>1 DEF vars
  <1>5. LogIsCalled'
    BY <1>1, <1>4 DEF LogInv, LogIsCalled
  <1>6. TodoIsMissing'
    BY <1>1, <1>3, <1>4 DEF LogInv, TodoIsMissing
  <1>7. ToldBefore'
    BY <1>1, <1>4 DEF LogInv, ToldBefore, KeyLogged
  <1>8. AttemptIsTold'
    <2> DEFINE f == Event("attempt", disk.active.index, disk.active.attempts, None)
    <2>1. pc \in {"request", "await"} => KeyLogged(f)
      <3>1. f.kind = "attempt"
        BY DEF Event
      <3>2. f # e
        BY <1>2, <3>1 DEF FreezeEvent, Event
      <3>3. pc \in {"request", "await"} => f \in todo \/ KeyLogged(f)
        BY DEF LogInv, AttemptIsTold
      <3> HIDE DEF f
      <3> QED BY <1>1, <1>3, <3>2, <3>3
    <2>2. f' = f /\ (KeyLogged(f)' <=> KeyLogged(f))
      BY <1>1, <1>4 DEF KeyLogged
    <2> QED BY <1>4, <2>1, <2>2 DEF AttemptIsTold
  <1>9. CausallyOrdered'
    <2>1. RequestsAreTold'
      BY <1>1, <1>4, OrderIs DEF LogInv, RequestsAreTold, Logged
    <2>2. InOrder' /\ NoGap(log')
      BY <1>1, OrderIs DEF LogInv, InOrder
    <2> QED BY <2>1, <2>2, OrderIsNext
  <1>10. CompletedMirrored'
    <2>1. frozen' = 0 \/ frozen' = Len(log)
      BY <1>1 DEF LogInv, CompletedMirrored
    <2>2. /\ log[Len(log)].kind = "completed" /\ disk.status = "completed"
          /\ \E k \in 1 .. Len(log) :
                log[k].kind = "budget" /\ log[k].body = BudgetTotals(disk.ledger)
          /\ \A i \in 1 .. Len(disk.terminal) : MirrorsClosed(i)
      BY <1>1, <1>2, ToldIsMirrored
    <2>3. \A i : MirrorsClosed(i)' <=> MirrorsClosed(i)
      BY <1>1, <1>4 DEF MirrorsClosed, Logged
    <2>4. CompletedMirrored' <=>
            (frozen' # 0 =>
               /\ frozen' = Len(log') /\ disk'.status = "completed"
               /\ log'[frozen'].kind = "completed"
               /\ \E k \in 1 .. Len(log') :
                     log'[k].kind = "budget" /\ log'[k].body = BudgetTotals(disk'.ledger)
               /\ \A i \in 1 .. Len(disk'.terminal) : MirrorsClosed(i)')
      BY DEF CompletedMirrored, MirrorsClosed, Logged
    <2> QED BY <1>1, <1>4, <2>1, <2>2, <2>3, <2>4
  <1> QED BY <1>5, <1>6, <1>7, <1>8, <1>9, <1>10 DEF LogInv

\* The state stored by a step is sound.
LEMMA SoundNext == RunInv' => Sound(disk')
  <1>1. RunInv => Sound(disk)
    BY StoredIsSound
  <1>2. RunInv' => Sound(disk)'
    BY <1>1, PTL
  <1>3. Sound(disk)' <=> Sound(disk')
    BY DEF Sound, StateType, Opened, Opportunity
  <1> QED BY <1>2, <1>3

\* The state before a write, the write, and what it leaves to be told.
LEMMA Observed ==
    ASSUME LogInv, RunInv', EngineMoves, disk' # disk
    PROVE  /\ Sound(disk) /\ Sound(disk') /\ Moves(disk, disk')
           /\ todo = {} /\ todo' = ToEmit(disk', log)
           /\ log' = log /\ frozen' = frozen /\ requests' = requests
           /\ mem' = disk' /\ pc' \in {"running", "request", "exited"}
           /\ pc' = "exited" => disk'.status = "completed"
           /\ pc' = "request" => Asks(disk, disk')
           /\ disk.status # "completed" /\ disk'.status # "absent"
           /\ Len(log) \in Nat /\ \A k \in 1 .. Len(log) : Called(log[k], disk)
  <1>1. /\ EngineStep /\ todo = {} /\ todo' = ToEmit(disk', log)
        /\ log' = log /\ frozen' = frozen
    BY DEF EngineMoves
  <1>2. Sound(disk')
    BY SoundNext
  <1>3. Moves(disk, disk')
    BY <1>1, EngineWrites DEF Moves, LogInv
  <1> QED BY <1>1, <1>2, <1>3, LogFacts, EngineWrites DEF LogInv

\* A write keeps the invariant of the log: it owes only events that come later.
LEMMA WriteKeeps ==
    ASSUME LogInv, RunInv', EngineMoves, disk' # disk
    PROVE  LogInv'
  <1> DEFINE s == disk
             t == disk'
  <1>1. /\ Sound(s) /\ Sound(t) /\ Moves(s, t)
        /\ todo = {} /\ todo' = ToEmit(t, log)
        /\ log' = log /\ frozen' = frozen /\ requests' = requests
        /\ mem' = t /\ pc' \in {"running", "request", "exited"}
        /\ pc' = "exited" => t.status = "completed"
        /\ pc' = "request" => Asks(s, t)
        /\ s.status # "completed" /\ t.status # "absent"
        /\ Len(log) \in Nat /\ \A k \in 1 .. Len(log) : Called(log[k], s)
    BY Observed
  <1>2. \A k \in 1 .. Len(log) : Called(log[k], t)
    BY <1>1, CalledGrows
  <1>3. LogIsCalled'
    BY <1>1, <1>2 DEF LogInv, LogIsCalled
  <1>4. \A e : KeyLogged(e)' <=> KeyLogged(e)
    BY <1>1 DEF KeyLogged
  <1>5. \A e : Kept(e, log) => KeyLogged(e)
    BY DEF Kept, KeyLogged
  <1>6. TodoIsMissing'
    BY <1>1, <1>5, <1>4 DEF ToEmit, TodoIsMissing
  <1>7. ToldBefore'
    <2>1. ASSUME NEW k \in 1 .. Len(log), NEW f \in Expected(t, log), Earlier(f, log[k]),
                 log[k].kind = "completed" \/ (log[k].kind # "budget" /\ f.index # NoIndex)
          PROVE  KeyLogged(f)
      <3> DEFINE g == log[k]
      <3>1. Called(g, s)
        BY <1>1
      <3>2. g.kind # "completed"
        BY <1>1, <3>1 DEF Called
      <3>3. g.index # Final
        BY <1>1, <2>1, <3>1, <3>2, CalledIndex
      <3>4. g.index # NoIndex
        <4> SUFFICES ASSUME g.index = NoIndex PROVE FALSE
          OBVIOUS
        <4>1. Called(f, t) \/ f = FreezeEvent
          BY <1>1, <1>2, ExpectedIsCalled
        <4>2. Called(f, t)
          BY <1>1, <1>2, <2>1, <4>1, FreezeIsLast
        <4>3. NoIndex < f.index /\ f.index \in Nat /\ NoIndex = 0
          BY <1>1, <2>1, <3>2, <4>2, CalledIndex DEF NoIndex
        <4> QED BY <2>1, <4>3 DEF Earlier
      <3>5. g.index \in Opened(s)
        BY <1>1, <3>1, <3>3, <3>4, CalledIndex
      <3>6. f \in Expected(s, log)
        BY <1>1, <2>1, <3>1, <3>2, <3>5, FreshIsLate
      <3> QED BY <2>1, <3>6 DEF LogInv, ToldBefore
    <2>2. ASSUME NEW k \in 1 .. Len(log'), NEW f \in Expected(disk', log'),
                 Earlier(f, log'[k]),
                 log'[k].kind = "completed" \/ (log'[k].kind # "budget" /\ f.index # NoIndex)
          PROVE  KeyLogged(f)'
      BY <1>1, <1>4, <2>1, <2>2
    <2> QED BY <2>2 DEF ToldBefore
  <1>8. AttemptIsTold'
    <2> DEFINE f == AttemptEvent(t.active.index, t.active.attempts)
    <2>1. ASSUME pc' = "request"
          PROVE  f \in todo' \/ KeyIn(log', f)
      <3>1. /\ t.active.index # NoIndex /\ t.active.index \in Opened(t)
            /\ Opportunity(t, t.active.index) = t.active
            /\ t.active.attempts \in 1 .. t.active.attempts
        <4>1. Asks(s, t) /\ s.active \in ActiveType
          BY <1>1, <2>1 DEF Sound, StateType
        <4>2. /\ t.active.index = s.active.index /\ s.active.index # NoIndex
              /\ t.active.attempts = s.active.attempts + 1 /\ s.active.attempts \in Nat
          BY <4>1 DEF Asks, ActiveType
        <4> QED BY <1>1, <4>2, OpenedIs
      <3>2. f \in Expected(t, log)
        BY <1>1, <3>1, AttemptStands
      <3> HIDE DEF f
      <3> QED BY <1>1, <3>2 DEF ToEmit, Kept, KeyIn
    <2> QED BY <1>1, <2>1 DEF AttemptIsTold, AttemptEvent, KeyLogged, KeyIn
  <1>9. CausallyOrdered'
    <2>1. RequestsAreTold'
      BY <1>1, OrderIs DEF LogInv, RequestsAreTold, Logged
    <2>2. InOrder' /\ NoGap(log')
      BY <1>1, OrderIs DEF LogInv, InOrder
    <2> QED BY <2>1, <2>2, OrderIsNext
  <1>10. CompletedMirrored'
    BY <1>1 DEF LogInv, CompletedMirrored
  <1> QED BY <1>3, <1>6, <1>7, <1>8, <1>9, <1>10 DEF LogInv

\* A step that leaves nothing to be told, at no attempt.
LEMMA EndKeeps ==
    ASSUME LogInv, RunInv', UNCHANGED <<log, disk, frozen, requests>>, todo' = {},
           pc' \notin {"request", "await", "exited"}
    PROVE  LogInv'
  BY QuietKeeps DEF TodoIsMissing, AttemptIsTold

\* The invariant of the log: initially, and by every step.
LEMMA LogInvInit == SinkInit => LogInv
  <1> SUFFICES ASSUME SinkInit PROVE LogInv
    OBVIOUS
  <1>1. /\ Init /\ log = <<>> /\ Len(log) = 0 /\ 1 .. Len(log) = {} /\ todo = {}
        /\ frozen = 0 /\ pc = "down" /\ requests = {} /\ log \in Seq(Range(log))
    BY DEF SinkInit, Init
  <1>2. RunInv
    BY <1>1, RunInvInit
  <1>3. LogIsCalled
    BY <1>1 DEF LogIsCalled
  <1>4. TodoIsMissing /\ ToldBefore /\ AttemptIsTold
    BY <1>1 DEF TodoIsMissing, ToldBefore, AttemptIsTold
  <1>5. CausallyOrdered /\ CompletedMirrored
    BY <1>1 DEF CausallyOrdered, CompletedMirrored
  <1> QED BY <1>2, <1>3, <1>4, <1>5 DEF LogInv

LEMMA LogInvStep == LogInv /\ [SinkNext]_allVars => LogInv'
  <1> SUFFICES ASSUME LogInv, [SinkNext]_allVars
               PROVE  LogInv'
    OBVIOUS
  <1>1. RunInv' /\ TodoIsMissing /\ AttemptIsTold /\ RunInv
    BY RunKept DEF LogInv
  <1>2. CASE EngineMoves
    <2>1. CASE disk' # disk
      BY <1>1, <1>2, <2>1, WriteKeeps
    <2>2. CASE disk' = disk
      <3>1. /\ EngineStep /\ todo = {} /\ todo' = {} /\ log' = log /\ frozen' = frozen
        BY <1>2, <2>2 DEF EngineMoves
      <3>2. /\ pc' \in {"request", "await"} => pc = "request" /\ pc' = "await"
            /\ \/ requests' = requests
               \/ /\ pc = "request"
                  /\ requests' = requests \cup {<<disk.active.index, disk.active.attempts>>}
            /\ pc' = "exited" => mem' = disk' /\ disk.status = "completed"
        BY <1>1, <2>2, <3>1, EngineRests
      <3>3. TodoIsMissing'
        BY <2>2, <3>1, <3>2 DEF TodoIsMissing
      <3>4. AttemptIsTold'
        BY <1>1, <2>2, <3>1, <3>2 DEF AttemptIsTold, KeyLogged
      <3> QED BY <1>1, <2>2, <3>1, <3>2, <3>3, <3>4, QuietKeeps
    <2> QED BY <2>1, <2>2
  <1>3. CASE Emit
    BY <1>1, <1>3, EmitKeeps DEF Emit
  <1>9. CASE IndexFrozen \/ IndexLoaded
    BY <1>1, <1>9, FreezeKeeps
  <1>4. CASE EmitFails \/ IndexUnreadable
    BY <1>1, <1>4, EndKeeps DEF EmitFails, IndexUnreadable, Escapes
  <1>5. CASE ObserveReturned
    <2>1. /\ todo' = ToEmit(mem, log) /\ log' = log /\ frozen' = frozen /\ pc = "exited"
          /\ disk' = disk /\ mem' = mem /\ pc' = pc /\ requests' = requests
      BY <1>5 DEF ObserveReturned, vars
    <2>2. mem = disk /\ disk.status = "completed"
      BY <1>1, <2>1 DEF TodoIsMissing
    <2>3. TodoIsMissing'
      <3>1. \A e \in todo' : e \in Expected(disk', log') /\ ~Kept(e, log')
        BY <2>1, <2>2 DEF ToEmit
      <3>2. \A e \in Expected(disk', log') : e \in todo' \/ KeyLogged(e)'
        BY <2>1, <2>2 DEF ToEmit, Kept, KeyLogged
      <3> QED BY <2>1, <2>2, <3>1, <3>2 DEF TodoIsMissing
    <2>4. AttemptIsTold'
      BY <2>1 DEF AttemptIsTold
    <2> QED BY <1>1, <2>1, <2>3, <2>4, QuietKeeps
  <1>6. CASE LaunchSink
    BY <1>1, <1>6, EndKeeps DEF LaunchSink, Launch, ghosts
  <1>7. CASE CrashSink
    BY <1>1, <1>7, EndKeeps DEF CrashSink, Crash
  <1>8. CASE TerminatedSink \/ PointerCreated \/ UNCHANGED allVars
    <2>1. UNCHANGED <<log, todo, frozen, disk, mem, pc, requests>>
      BY <1>8 DEF TerminatedSink, Terminated, PointerCreated, allVars, sinkVars, vars
    <2>2. TodoIsMissing'
      BY <1>1, <2>1 DEF TodoIsMissing, KeyLogged
    <2>3. AttemptIsTold'
      BY <1>1, <2>1 DEF AttemptIsTold, KeyLogged
    <2> QED BY <1>1, <2>1, <2>2, <2>3, QuietKeeps
  <1> QED BY <1>2, <1>3, <1>4, <1>5, <1>6, <1>7, <1>8, <1>9 DEF SinkNext, SinkStep

\* The invariant of the log holds of every execution, whatever is killed and
\* whenever the sink refuses a state.
THEOREM LogInvariant == SinkSpec => []LogInv
  BY LogInvInit, LogInvStep, PTL DEF SinkSpec

\* The store tells the run in causal order: opportunities one after the other,
\* each in the order of its story, its attempts without a gap and before their
\* responses; and no request leaves the process before its attempt is stored.
THEOREM ToldInOrder == SinkSpec => []CausallyOrdered
  <1>1. LogInv => CausallyOrdered
    BY DEF LogInv
  <1> QED BY <1>1, LogInvariant, PTL

\* A frozen index covers the whole log, and the log says of every opportunity
\* what the stored run state says.
THEOREM FrozenMirrors == SinkSpec => []CompletedMirrored
  <1>1. LogInv => CompletedMirrored
    BY DEF LogInv
  <1> QED BY <1>1, LogInvariant, PTL

-----------------------------------------------------------------------------
\* The parts of RepairIsTold, for any state, log and list of pending events.
ConflictsIn(l, e) == \E k \in 1 .. Len(l) : SameKey(l[k], e) /\ l[k].body # e.body

BlockedBy(s, l, pending, i) ==
    \E j \in 1 .. (i - 1) : \E e \in Tellings(Opportunity(s, j), l) :
      ConflictsIn(l, e) /\ (pending = {} \/ e \in pending)

\* The event of the response kept for the last repair of an opportunity.
KeptResponse(a) ==
    Event("response", a.index, Latest(a), Response(a.previous, FALSE, FALSE))

ToBeTold(s, given, pending, i) ==
    LET a == Opportunity(s, i)
    IN /\ <<i, Latest(a), a.previous>> \in given
       /\ KeptResponse(a) \in pending
       /\ \E e \in pending : e.kind = "repair" /\ e.index = i

Untold(s, l, i) ==
    LET a == Opportunity(s, i)
    IN a.repairs > 0 /\ Matching(l, i, a.previous) = {}

ToldOrBlocked(s, l, given, pending, cut) ==
    \A i \in Opened(s) \ cut :
      Untold(s, l, i) => ToBeTold(s, given, pending, i) \/ BlockedBy(s, l, pending, i)

\* RepairIsTold by its parts, in this state and in the next.
LEMMA RepairToldIs ==
    RunInv => (RepairIsTold <=> ToldOrBlocked(disk, log, answers, todo, lost))
  <1> SUFFICES ASSUME RunInv
               PROVE  RepairIsTold <=> ToldOrBlocked(disk, log, answers, todo, lost)
    OBVIOUS
  <1>1. Sound(disk)
    BY StoredIsSound
  <1>2. \A i : Blocked(i) <=> BlockedBy(disk, log, todo, i)
    BY DEF Blocked, BlockedBy, Conflicts, ConflictsIn, Tellings
  <1>3. ASSUME NEW i \in Opened(disk)
        PROVE  KeptResponse(Opportunity(disk, i)) =
                 Event("response", i, Latest(Opportunity(disk, i)),
                       Response(Opportunity(disk, i).previous, FALSE, FALSE))
    BY <1>1, SoundOpportunity DEF KeptResponse
  <1> QED BY <1>2, <1>3 DEF RepairIsTold, ToldOrBlocked, ToBeTold, Untold

LEMMA RepairToldIsNext ==
    RunInv' => (RepairIsTold' <=> ToldOrBlocked(disk', log', answers', todo', lost'))
  <1>1. RunInv' => (RepairIsTold' <=> ToldOrBlocked(disk, log, answers, todo, lost)')
    BY RepairToldIs, PTL
  <1>2. ToldOrBlocked(disk, log, answers, todo, lost)'
          <=> ToldOrBlocked(disk', log', answers', todo', lost')
    BY DEF ToldOrBlocked, ToBeTold, Untold, BlockedBy, ConflictsIn, KeptResponse,
           Tellings, Opportunity, Opened
  <1> QED BY <1>1, <1>2

\* An event that is not about an answer has the body that the state gives it.
LEMMA BodyIsGiven ==
    ASSUME NEW s, Sound(s), NEW e, Called(e, s), NEW f, Called(f, s), SameKey(e, f),
           e.kind \notin {"repair", "response"}
    PROVE  e.body = f.body
  <1>1. e.kind = f.kind /\ e.index = f.index
    BY DEF SameKey
  <1>2. /\ e = Event(e.kind, e.index, e.number, e.body)
        /\ f = Event(f.kind, f.index, f.number, f.body)
    BY CalledForm
  <1>3. NoIndex \notin Opened(s)
    BY SoundOpportunity DEF NoIndex
  <1>4. CASE e.kind = "budget"
    BY <1>4 DEF SameKey
  <1>5. CASE e.kind \in {"started", "attempt", "training", "completed"}
    BY <1>1, <1>5, EventFields DEF Called
  <1>6. CASE e.kind = "parents"
    <2> DEFINE p == <<Opportunity(s, e.index).parents, Opportunity(s, e.index).transition>>
    <2>1. e = Event("parents", e.index, 0, p) /\ f = Event("parents", e.index, 0, p)
      BY <1>1, <1>6 DEF Called
    <2> QED BY <2>1
  <1>7. CASE e.kind = "candidate"
    BY <1>1, <1>3, <1>7, EventFields DEF Called
  <1>8. CASE e.kind = "evaluation"
    BY <1>1, <1>3, <1>8, EventFields DEF Called
  <1>9. CASE e.kind = "promotion"
    BY <1>1, <1>9, EventFields DEF Called
  <1>10. CASE e.kind = "failure"
    BY <1>1, <1>10, EventFields DEF Called
  <1> QED BY <1>4, <1>5, <1>6, <1>7, <1>8, <1>9, <1>10, CalledForm

\* What conflicts is about an answer.
LEMMA ConflictIs ==
    ASSUME LogInv, NEW e \in todo, Conflicts(e)
    PROVE  /\ e.kind \in {"repair", "response"} /\ e.index \in Opened(disk)
           /\ e \in Tellings(Opportunity(disk, e.index), log) /\ Called(e, disk)
  <1>1. PICK k \in 1 .. Len(log) : SameKey(log[k], e) /\ log[k].body # e.body
    BY DEF Conflicts
  <1>2. Sound(disk) /\ Called(log[k], disk)
    BY LogFacts
  <1>3. Called(e, disk)
    BY <1>2, <1>1, KeyFields, Pending DEF Called
  <1>4. e.kind \in {"repair", "response"}
    BY <1>1, <1>2, <1>3, BodyIsGiven, KeyFields
  <1> QED BY <1>3, <1>4, Pending

\* What is refused is not what is stored.
LEMMA ConflictIsNotKept ==
    ASSUME LogInv, NEW f, f.kind # "budget", ConflictsIn(log, f)
    PROVE  ~Kept(f, log)
  <1> SUFFICES ASSUME Kept(f, log) PROVE FALSE
    OBVIOUS
  <1>1. PICK k \in 1 .. Len(log) : SameKey(log[k], f) /\ log[k].body # f.body
    BY DEF ConflictsIn
  <1>2. PICK j \in 1 .. Len(log) : SameKey(log[j], f) /\ log[j].body = f.body
    BY DEF Kept
  <1>3. SameKey(log[j], log[k])
    BY <1>1, <1>2 DEF SameKey
  <1>4. j = k
    BY <1>3 DEF LogInv, LogIsCalled
  <1> QED BY <1>1, <1>2, <1>4

\* Opportunities are opened one after the other.
LEMMA EarlierIsOpened ==
    ASSUME NEW s, Sound(s), NEW i \in Opened(s), NEW j \in 1 .. (i - 1)
    PROVE  j \in Opened(s) /\ j < i
  <1> DEFINE n == Len(s.terminal) + (IF s.active.index = NoIndex THEN 0 ELSE 1)
  <1>1. i \in Nat /\ Len(s.terminal) \in Nat
    BY SoundOpportunity, OpenedIs
  <1>2. n \in Nat
    <2>1. CASE s.active.index = NoIndex
      BY <1>1, <2>1
    <2>2. CASE s.active.index # NoIndex
      BY <1>1, <2>2
    <2> QED BY <2>1, <2>2
  <1>3. Opened(s) = 1 .. n
    BY DEF Opened
  <1> HIDE DEF n
  <1> QED BY <1>1, <1>2, <1>3

\* The observation that has come to an opportunity is not held up before it.
LEMMA DueIsNotBlocked ==
    ASSUME LogInv, NEW e, Due(e), e.index \in Opened(disk)
    PROVE  ~BlockedBy(disk, log, todo, e.index)
  <1> SUFFICES ASSUME BlockedBy(disk, log, todo, e.index) PROVE FALSE
    OBVIOUS
  <1>1. e \in todo /\ Sound(disk) /\ e.index \in Nat
    BY LogFacts, SoundOpportunity DEF Due
  <1>2. PICK j \in 1 .. (e.index - 1) :
             \E f \in Tellings(Opportunity(disk, j), log) : f \in todo
    BY <1>1 DEF BlockedBy
  <1>3. PICK f \in Tellings(Opportunity(disk, j), log) : f \in todo
    BY <1>2
  <1>4. j \in Opened(disk) /\ j < e.index
    BY <1>1, EarlierIsOpened
  <1>5. f.index = j
    BY <1>1, <1>3, <1>4, LogFacts, TellingIsCalled
  <1>6. Before(f, e)
    BY <1>4, <1>5 DEF Before
  <1> QED BY <1>3, <1>6 DEF Due

\* The fields of the response kept for a repair.
LEMMA KeptResponseIs ==
    ASSUME NEW a
    PROVE  LET e == KeptResponse(a)
           IN /\ e.kind = "response" /\ e.index = a.index /\ e.number = Latest(a)
              /\ e.body = Response(a.previous, FALSE, FALSE)
              /\ e.body.text = a.previous /\ e.body.parsed = FALSE /\ e.body.tokens = FALSE
              /\ Place(e) = 2
  BY DEF KeptResponse, Event, Response, Place

\* Where an observation has come to, the repair's response is about to be told.
LEMMA DueIsTold ==
    ASSUME LogInv, RepairIsTold, NEW e, Due(e), e.index \in Opened(disk) \ lost,
           Untold(disk, log, e.index)
    PROVE  ToBeTold(disk, answers, todo, e.index)
  BY RepairToldIs, DueIsNotBlocked DEF LogInv, ToldOrBlocked

\* So a repair is told only after its response.
LEMMA DueRepairIsTold ==
    ASSUME LogInv, RepairIsTold, NEW e, Due(e), e.index \in Opened(disk) \ lost,
           e.kind = "repair"
    PROVE  ~Untold(disk, log, e.index)
  <1> SUFFICES ASSUME Untold(disk, log, e.index) PROVE FALSE
    OBVIOUS
  <1> DEFINE a == Opportunity(disk, e.index)
             r == KeptResponse(a)
  <1>1. r \in todo
    BY DueIsTold DEF ToBeTold
  <1>2. r.index = e.index /\ Place(r) = 2
    <2>1. Sound(disk) /\ e.index \in Opened(disk)
      BY LogFacts
    <2>2. a.index = e.index
      BY <2>1, SoundOpportunity
    <2> HIDE DEF a
    <2> QED BY <2>2, KeptResponseIs
  <1>3. Place(e) = 3
    BY DEF Place
  <1>4. Before(r, e)
    BY <1>2, <1>3 DEF Before
  <1> QED BY <1>1, <1>4 DEF Due

-----------------------------------------------------------------------------
\* The invariant of the answers without that of the log.
ToldInv == AnswersAreKept /\ RepairIsTold /\ BodiesAreTrue /\ ResponsesGrounded

\* What BodiesAreTrue and ResponsesGrounded say of one event.
BodyIsTrue(s, l, cut, e) ==
    LET a == Opportunity(s, e.index)
    IN /\ e.kind = "response" =>
            /\ e.body.text \in Texts /\ e.body.tokens \in BOOLEAN
            /\ e.body.parsed = (e.body.text \in Sources)
            /\ e.body.tokens => e.number = a.attempts /\ e.body.text = a.proposal
            /\ ~e.body.tokens =>
                 a.repairs > 0 /\ (a.repairs = 1 => e.body.text = a.previous)
       /\ e.kind = "repair" /\ a.repairs = 1 /\ e.index \notin cut =>
            \E m \in Matching(l, e.index, a.previous) : l[m].number = e.body

IsGrounded(given, cut, e) ==
    e.kind = "response" =>
      <<e.index, e.number, e.body.text>> \in given \/ e.index \in cut

\* BodiesAreTrue and ResponsesGrounded by events, in this state and in the next.
LEMMA BodiesAre ==
    /\ BodiesAreTrue <=> \A k \in 1 .. Len(log) : BodyIsTrue(disk, log, lost, log[k])
    /\ ResponsesGrounded <=> \A k \in 1 .. Len(log) : IsGrounded(answers, lost, log[k])
  BY DEF BodiesAreTrue, BodyIsTrue, ResponsesGrounded, IsGrounded

LEMMA BodiesAreNext ==
    /\ BodiesAreTrue' <=> \A k \in 1 .. Len(log') : BodyIsTrue(disk', log', lost', log'[k])
    /\ ResponsesGrounded' <=> \A k \in 1 .. Len(log') : IsGrounded(answers', lost', log'[k])
  <1>1. /\ BodiesAreTrue' <=> (\A k \in 1 .. Len(log) : BodyIsTrue(disk, log, lost, log[k]))'
        /\ ResponsesGrounded' <=>
             (\A k \in 1 .. Len(log) : IsGrounded(answers, lost, log[k]))'
    BY BodiesAre, PTL
  <1>2. (\A k \in 1 .. Len(log) : BodyIsTrue(disk, log, lost, log[k]))' <=>
           \A k \in 1 .. Len(log') : BodyIsTrue(disk', log', lost', log'[k])
    BY DEF BodyIsTrue, Opportunity, Matching
  <1>3. (\A k \in 1 .. Len(log) : IsGrounded(answers, lost, log[k]))' <=>
           \A k \in 1 .. Len(log') : IsGrounded(answers', lost', log'[k])
    BY DEF IsGrounded
  <1> QED BY <1>1, <1>2, <1>3

\* The answer that was kept for a repair.
LEMMA KeptAnswer ==
    ASSUME RunInv, AnswersAreKept, NEW i \in Opened(disk), Opportunity(disk, i).repairs > 0
    PROVE  LET a == Opportunity(disk, i)
           IN /\ a.previous \in Garbage /\ a.previous \in Texts /\ a.previous \notin Sources
              /\ Latest(a) > 0
              /\ \E n \in 1 .. Latest(a) : <<i, n, a.previous>> \in answers
  <1> DEFINE a == Opportunity(disk, i)
  <1>1. a.previous \in Garbage /\ \E n \in 1 .. Latest(a) : <<i, n, a.previous>> \in answers
    BY DEF AnswersAreKept
  <1>2. Latest(a) \in Nat
    BY StoredIsSound, SoundOpportunity
  <1> HIDE DEF a
  <1>3. Latest(a) > 0
    BY <1>1, <1>2
  <1> QED BY <1>1, <1>3, EngineAssumption DEF Texts, a

\* The attempt that a due repair or its response is told of brought the answer.
LEMMA RepairIsGrounded ==
    ASSUME LogInv, ToldInv, NEW e, Due(e), e.index \in Opened(disk) \ lost,
           Opportunity(disk, e.index).repairs > 0
    PROVE  LET i == e.index
               a == Opportunity(disk, i)
               n == RepairedAttempt(a, log)
           IN /\ n > 0 /\ n \in Nat /\ <<i, n, a.previous>> \in answers
              /\ e.kind = "repair" =>
                   \E m \in Matching(log, i, a.previous) : log[m].number = n
  <1> DEFINE i == e.index
             a == Opportunity(disk, i)
             n == RepairedAttempt(a, log)
             M == Matching(log, i, a.previous)
  <1>1. /\ Sound(disk) /\ i \in Opened(disk) /\ Len(log) \in Nat /\ RunInv
        /\ \A k \in 1 .. Len(log) : Called(log[k], disk)
    BY LogFacts
  <1>2. Latest(a) > 0
    BY <1>1, KeptAnswer DEF ToldInv
  <1>3. /\ n \in Nat /\ n > 0
        /\ M = {} => n = Latest(a)
        /\ M # {} => \E m \in M : n = log[m].number
    BY <1>1, <1>2, Attributed
  <1>4. CASE M = {}
    <2>1. Untold(disk, log, i)
      BY <1>4 DEF Untold
    <2>2. <<i, Latest(a), a.previous>> \in answers
      BY <2>1, DueIsTold DEF ToldInv, ToBeTold
    <2>3. e.kind # "repair"
      BY <2>1, DueRepairIsTold DEF ToldInv
    <2> HIDE DEF a, n
    <2> QED BY <1>3, <1>4, <2>2, <2>3 DEF a, n
  <1>5. CASE M # {}
    <2>1. PICK m \in M : n = log[m].number
      BY <1>3, <1>5
    <2>2. /\ m \in 1 .. Len(log) /\ log[m].kind = "response" /\ log[m].index = i
          /\ log[m].body.text = a.previous
      BY <2>1 DEF Matching
    <2>3. <<i, n, a.previous>> \in answers
      BY <2>1, <2>2 DEF ToldInv, ResponsesGrounded
    <2> HIDE DEF a, n, M
    <2> QED BY <1>3, <2>1, <2>3 DEF a, n, M
  <1> QED BY <1>4, <1>5

\* What is appended is true.
LEMMA EmittedIsTrue ==
    ASSUME LogInv, ToldInv, NEW e, EmitEvent(e)
    PROVE  BodyIsTrue(disk, log, lost, e) /\ IsGrounded(answers, lost, e)
  <1> DEFINE i == e.index
             a == Opportunity(disk, i)
             n == RepairedAttempt(a, log)
  <1>1. /\ e \in todo /\ Due(e) /\ RunInv /\ AnswersAreKept
        /\ Sound(disk) /\ Len(log) \in Nat
        /\ \A k \in 1 .. Len(log) : Called(log[k], disk)
    BY Emitted, LogFacts DEF ToldInv
  <1> SUFFICES ASSUME e.kind \in {"repair", "response"}
               PROVE  BodyIsTrue(disk, log, lost, e) /\ IsGrounded(answers, lost, e)
    BY DEF BodyIsTrue, IsGrounded
  <1>2. i \in Opened(disk) /\ e \in Tellings(a, log)
    BY <1>1, Pending
  <1>3. a.repairs \in Nat /\ a.index = i /\ a \in ActiveType
    BY <1>1, <1>2, SoundOpportunity
  <1>4. CASE e \in ResponseEvents(a)
    <2>1. /\ a.proposal # None /\ e.kind = "response" /\ e.number = a.attempts
          /\ e.body.text = a.proposal /\ e.body.parsed = (a.proposal \in Sources)
          /\ e.body.tokens = TRUE
      BY <1>4, AnswerFields
    <2>2. a.proposal \in Texts
      BY <1>3, <2>1 DEF ActiveType
    <2>3. <<i, a.attempts, a.proposal>> \in answers
      BY <1>1, <1>2, <2>1 DEF AnswersAreKept
    <2> HIDE DEF a
    <2>4. IsGrounded(answers, lost, e)
      BY <2>1, <2>3 DEF IsGrounded
    <2>5. BodyIsTrue(disk, log, lost, e)
      BY <2>1, <2>2 DEF BodyIsTrue, a
    <2> QED BY <2>4, <2>5
  <1>5. CASE e \in RepairEvents(a, log)
    <2>1. /\ a.repairs > 0
          /\ \/ /\ e.kind = "response" /\ e.number = n
                /\ e.body.text = a.previous /\ e.body.parsed = FALSE /\ e.body.tokens = FALSE
             \/ e.kind = "repair" /\ e.body = IF n > 0 THEN n ELSE 1
      BY <1>3, <1>5, RepairFields
    <2>2. /\ a.previous \in Texts /\ a.previous \notin Sources
      BY <1>1, <1>2, <2>1, KeptAnswer
    <2>3. i \notin lost =>
             /\ n > 0 /\ <<i, n, a.previous>> \in answers
             /\ e.kind = "repair" =>
                  \E m \in Matching(log, i, a.previous) : log[m].number = n
      BY <1>1, <1>2, <2>1, RepairIsGrounded
    <2> HIDE DEF n
    <2>4. IsGrounded(answers, lost, e)
      BY <2>1, <2>3 DEF IsGrounded
    <2>5. BodyIsTrue(disk, log, lost, e)
      <3>1. CASE e.kind = "response"
        <4>1. /\ e.body.text = a.previous /\ e.body.parsed = FALSE /\ e.body.tokens = FALSE
              /\ a.repairs > 0
          BY <2>1, <3>1
        <4>2. e.body.tokens \in BOOLEAN /\ ~e.body.tokens
          BY <4>1
        <4>3. e.body.text \in Texts /\ e.body.text \notin Sources
          BY <2>2, <4>1
        <4>4. e.body.parsed = (e.body.text \in Sources)
          <5>1. (e.body.text \in Sources) = FALSE
            BY <4>3
          <5> QED BY <4>1, <5>1
        <4> QED BY <3>1, <4>1, <4>2, <4>3, <4>4 DEF BodyIsTrue
      <3>2. CASE e.kind = "repair"
        BY <2>1, <2>3, <3>2 DEF BodyIsTrue
      <3> QED BY <3>1, <3>2
    <2> QED BY <2>4, <2>5
  <1> QED BY <1>2, <1>4, <1>5 DEF Tellings

\* What is true of an event stays so as the log grows and observations are lost.
LEMMA TrueStays ==
    ASSUME NEW s, NEW l, NEW m, Len(l) \in Nat, Len(m) \in Nat, Len(l) <= Len(m),
           \A k \in 1 .. Len(l) : m[k] = l[k],
           NEW given, NEW gave \in SUBSET given, NEW lose, NEW cut \in SUBSET lose,
           NEW e
    PROVE  /\ BodyIsTrue(s, l, cut, e) => BodyIsTrue(s, m, lose, e)
           /\ IsGrounded(gave, cut, e) => IsGrounded(given, lose, e)
  BY DEF Matching, BodyIsTrue, IsGrounded

\* Emitting an event keeps the log true.
LEMMA EmitKeepsBodies ==
    ASSUME LogInv, ToldInv, NEW e, EmitEvent(e)
    PROVE  BodiesAreTrue' /\ ResponsesGrounded'
  <1>1. /\ Len(log') = Len(log) + 1 /\ Len(log) \in Nat
        /\ log'[Len(log) + 1] = e /\ \A k \in 1 .. Len(log) : log'[k] = log[k]
        /\ \A k \in 1 .. Len(log') : k \in 1 .. Len(log) \/ k = Len(log) + 1
        /\ disk' = disk
    BY Emitted
  <1>2. answers' = answers /\ lost' = lost
    BY DEF EmitEvent
  <1> DEFINE Holds(f) == BodyIsTrue(disk', log', lost', f) /\ IsGrounded(answers', lost', f)
  <1>3. ASSUME NEW f, BodyIsTrue(disk, log, lost, f), IsGrounded(answers, lost, f)
        PROVE  Holds(f)
    <2>1. BodyIsTrue(disk, log', lost, f)
      BY <1>1, <1>3, TrueStays
    <2> QED BY <1>1, <1>2, <1>3, <2>1
  <1>4. \A k \in 1 .. Len(log) : Holds(log[k])
    <2>1. /\ \A k \in 1 .. Len(log) : BodyIsTrue(disk, log, lost, log[k])
          /\ \A k \in 1 .. Len(log) : IsGrounded(answers, lost, log[k])
      BY BodiesAre DEF ToldInv
    <2> HIDE DEF Holds
    <2> QED BY <1>3, <2>1
  <1>5. Holds(e)
    BY <1>3, EmittedIsTrue
  <1>6. \A k \in 1 .. Len(log') : Holds(log'[k])
    <2> HIDE DEF Holds
    <2> QED BY <1>1, <1>4, <1>5
  <1> QED BY <1>6, BodiesAreNext

-----------------------------------------------------------------------------
\* The answers fit as long as the stored state stays.
LEMMA AnswersStay ==
    ASSUME AnswersAreKept, disk' = disk, answers' = answers,
           pc' \in {"request", "await"} => pc \in {"request", "await"}
    PROVE  AnswersAreKept'
  BY DEF AnswersAreKept, Opened, Opportunity, Latest

\* Emitting an event keeps repairs told, or blocked.
LEMMA EmitKeepsRepairs ==
    ASSUME LogInv, ToldInv, NEW e, EmitEvent(e)
    PROVE  ToldOrBlocked(disk, log', answers, todo', lost)
  <1>1. /\ e \in todo /\ Due(e) /\ ~Conflicts(e) /\ Sound(disk) /\ e.kind # "freeze"
        /\ ToldOrBlocked(disk, log, answers, todo, lost) /\ Len(log) \in Nat
        /\ log' = Append(log, e) /\ todo' = todo \ {e}
    BY Emitted, LogFacts, RepairToldIs DEF ToldInv, LogInv
  <1> SUFFICES ASSUME NEW i \in Opened(disk) \ lost, Untold(disk, log', i)
               PROVE  \/ ToBeTold(disk, answers, todo', i)
                      \/ BlockedBy(disk, log', todo', i)
    BY DEF ToldOrBlocked
  <1> DEFINE a == Opportunity(disk, i)
             r == KeptResponse(a)
  <1>2. i \in Nat /\ a.index = i
    BY <1>1, SoundOpportunity
  <1>3. Untold(disk, log, i)
    BY <1>1, Emitted DEF Matching, Untold
  <1>4. CASE ToBeTold(disk, answers, todo, i)
    <2>1. PICK f \in todo : f.kind = "repair" /\ f.index = i
      BY <1>4 DEF ToBeTold
    <2>2. r \in todo /\ <<i, Latest(a), a.previous>> \in answers
      BY <1>4 DEF ToBeTold
    <2>3. /\ r.kind = "response" /\ r.index = i /\ Place(r) = 2
          /\ r.body.text = a.previous /\ r.body.parsed = FALSE
      BY <1>2, KeptResponseIs
    <2> HIDE DEF a, r
    <2>4. f # e
      BY <2>1, <2>3, <1>1, <2>2 DEF Place, Before, Due
    <2>5. r # e
      <3> SUFFICES ASSUME r = e PROVE FALSE
        OBVIOUS
      <3>1. Len(log) + 1 \in 1 .. Len(log') /\ log'[Len(log) + 1] = r
        BY <1>1, Emitted
      <3>2. Len(log) + 1 \in Matching(log', i, a.previous)
        BY <2>3, <3>1 DEF Matching
      <3> QED BY <3>2 DEF Untold, a
    <2>6. r \in todo' /\ f \in todo'
      BY <1>1, <2>1, <2>2, <2>4, <2>5
    <2> QED BY <2>1, <2>2, <2>6 DEF ToBeTold, a, r
  <1>5. CASE BlockedBy(disk, log, todo, i)
    <2>1. PICK j \in 1 .. (i - 1) :
             \E f \in Tellings(Opportunity(disk, j), log) :
               ConflictsIn(log, f) /\ (todo = {} \/ f \in todo)
      BY <1>5 DEF BlockedBy
    <2>2. PICK f \in Tellings(Opportunity(disk, j), log) : ConflictsIn(log, f) /\ f \in todo
      BY <1>1, <2>1
    <2>3. f # e
      BY <1>1, <2>2 DEF Conflicts, ConflictsIn
    <2>4. j \in Opened(disk)
      BY <1>1, <1>2, EarlierIsOpened
    <2>5. f \in Tellings(Opportunity(disk, j), log')
      BY <1>1, <2>2, <2>3, <2>4, TellingsStay
    <2>6. ConflictsIn(log', f)
      BY <1>1, Emitted, <2>2 DEF ConflictsIn
    <2>7. f \in todo'
      BY <1>1, <2>2, <2>3
    <2> QED BY <2>5, <2>6, <2>7 DEF BlockedBy
  <1> QED BY <1>1, <1>3, <1>4, <1>5 DEF ToldOrBlocked

\* So emitting an event keeps the invariant of the answers.
LEMMA EmitKeepsAnswers ==
    ASSUME LogInv, RunInv', ToldInv, NEW e, EmitEvent(e)
    PROVE  ToldInv'
  BY EmitKeepsRepairs, RepairToldIsNext, AnswersStay, EmitKeepsBodies
     DEF EmitEvent, vars, ToldInv

\* A step that appends nothing and takes no answer.
LEMMA StillTold ==
    ASSUME ToldInv, LogInv, RunInv', UNCHANGED <<disk, log, answers>>,
           pc' \in {"request", "await"} => pc \in {"request", "await"},
           lost \subseteq lost',
           ToldOrBlocked(disk, log, answers, todo', lost')
    PROVE  ToldInv'
  <1>1. RepairIsTold'
    BY RepairToldIsNext
  <1>2. AnswersAreKept'
    BY AnswersStay DEF ToldInv
  <1>3. /\ \A k \in 1 .. Len(log) : BodyIsTrue(disk, log, lost, log[k])
        /\ \A k \in 1 .. Len(log) : IsGrounded(answers, lost, log[k])
    BY BodiesAre DEF ToldInv
  <1>4. Len(log) \in Nat
    BY LogFacts
  <1>5. \A k \in 1 .. Len(log) : /\ BodyIsTrue(disk, log, lost', log[k])
                                 /\ IsGrounded(answers, lost', log[k])
    <2>1. answers \in SUBSET answers /\ lost \in SUBSET lost'
      OBVIOUS
    <2>2. Len(log) <= Len(log) /\ \A k \in 1 .. Len(log) : log[k] = log[k]
      BY <1>4
    <2> QED BY <1>3, <1>4, <2>1, <2>2, TrueStays
  <1>6. BodiesAreTrue' /\ ResponsesGrounded'
    BY <1>5, BodiesAreNext
  <1> QED BY <1>1, <1>2, <1>6 DEF ToldInv

\* With nothing left to be told, what blocks does so whatever is called for.
LEMMA BlockedStays ==
    ASSUME NEW s, NEW l, NEW i, NEW pending, BlockedBy(s, l, pending, i)
    PROVE  BlockedBy(s, l, {}, i)
  BY DEF BlockedBy

\* What is not pending is not about to be told.
LEMMA NothingToTell ==
    ASSUME NEW s, NEW given, NEW i
    PROVE  ~ToBeTold(s, given, {}, i)
  BY DEF ToBeTold

-----------------------------------------------------------------------------
\* What a write that takes no answer does to the answers of an opportunity.
SameAnswers(a, b) ==
    /\ b.proposal = a.proposal /\ b.repairs = a.repairs /\ b.previous = a.previous
    /\ b.attempts = a.attempts \/ (a.proposal = None /\ b.attempts = a.attempts + 1)

\* A write that takes no answer, by what it does to the active opportunity.
LEMMA QuietIs ==
    ASSUME NEW s, Sound(s), NEW t, Quiet(s, t)
    PROVE  \/ t.terminal = s.terminal /\ t.active = s.active
           \/ /\ t.terminal = s.terminal /\ s.active.index = NoIndex
              /\ t.active.proposal = None /\ t.active.repairs = 0
           \/ /\ t.terminal = s.terminal /\ s.active.index # NoIndex
              /\ t.active.index = s.active.index /\ SameAnswers(s.active, t.active)
           \/ /\ s.active.index # NoIndex /\ t.active = NoOpportunity
              /\ \E r : t.terminal = Append(s.terminal, r) /\ r.opportunity = s.active
  <1>1. s.active \in ActiveType
    BY DEF Sound, StateType
  <1>2. CASE Begins(s, t)
    BY <1>2 DEF Begins, NoState, InitialState
  <1>3. CASE Charges(s, t) \/ Completes(s, t)
    BY <1>3 DEF Charges, Completes
  <1>4. CASE Opens(s, t)
    BY <1>4 DEF Opens, Beside, NoOpportunity
  <1>5. CASE Closes(s, t)
    BY <1>5 DEF Closes
  <1>6. CASE Asks(s, t)
    BY <1>1, <1>6 DEF Asks, Beside, SameAnswers, ActiveType
  <1>7. CASE Names(s, t)
    BY <1>1, <1>7 DEF Names, Beside, SameAnswers, ActiveType
  <1>8. CASE Judges(s, t)
    BY <1>1, <1>8 DEF Judges, Beside, SameAnswers, ActiveType
  <1> QED BY <1>2, <1>3, <1>4, <1>5, <1>6, <1>7, <1>8 DEF Quiet

\* So it leaves the answers of every opportunity, or opens a fresh one.
LEMMA QuietAnswers ==
    ASSUME NEW s, Sound(s), NEW t, Sound(t), Quiet(s, t), NEW i \in Opened(t)
    PROVE  \/ i \in Opened(s) /\ SameAnswers(Opportunity(s, i), Opportunity(t, i))
           \/ Opportunity(t, i).proposal = None /\ Opportunity(t, i).repairs = 0
  <1>1. /\ Len(s.terminal) \in Nat /\ s.terminal \in Seq(TerminalType)
        /\ \A j : j \in Opened(s) <=>
             \/ j \in 1 .. Len(s.terminal)
             \/ s.active.index # NoIndex /\ j = Len(s.terminal) + 1
        /\ \A j \in 1 .. Len(s.terminal) : Opportunity(s, j) = s.terminal[j].opportunity
        /\ s.active.index # NoIndex =>
             s.active.index = Len(s.terminal) + 1
             /\ Opportunity(s, s.active.index) = s.active
    BY OpenedIs DEF Sound, StateType
  <1>2. /\ Len(t.terminal) \in Nat
        /\ \/ i \in 1 .. Len(t.terminal)
           \/ t.active.index # NoIndex /\ i = Len(t.terminal) + 1
        /\ \A j \in 1 .. Len(t.terminal) : Opportunity(t, j) = t.terminal[j].opportunity
        /\ t.active.index # NoIndex =>
             t.active.index = Len(t.terminal) + 1
             /\ Opportunity(t, t.active.index) = t.active
    BY OpenedIs
  <1>3. \A a : SameAnswers(a, a)
    BY DEF SameAnswers
  <1>4. CASE t.terminal = s.terminal /\ i \in 1 .. Len(t.terminal)
    BY <1>1, <1>2, <1>4, <1>3
  <1>5. CASE t.terminal = s.terminal /\ i \notin 1 .. Len(t.terminal)
    <2>1. /\ i = t.active.index /\ i # NoIndex /\ i = Len(s.terminal) + 1
          /\ Opportunity(t, i) = t.active
      BY <1>2, <1>5
    <2>2. CASE t.active = s.active
      BY <1>1, <1>3, <2>1, <2>2
    <2>3. CASE t.active.proposal = None /\ t.active.repairs = 0
      BY <2>1, <2>3
    <2>4. CASE /\ s.active.index # NoIndex /\ t.active.index = s.active.index
               /\ SameAnswers(s.active, t.active)
      BY <1>1, <2>1, <2>4
    <2>5. t.active # NoOpportunity
      <3>1. NoOpportunity.index = NoIndex
        BY DEF NoOpportunity
      <3> QED BY <2>1, <3>1
    <2> QED BY <2>2, <2>3, <2>4, <2>5, QuietIs
  <1>6. CASE t.terminal # s.terminal
    <2>1. s.active.index # NoIndex /\ t.active = NoOpportunity
      BY <1>6, QuietIs
    <2>2. PICK r : t.terminal = Append(s.terminal, r) /\ r.opportunity = s.active
      BY <1>6, QuietIs
    <2>3. /\ Len(t.terminal) = Len(s.terminal) + 1
          /\ t.terminal[Len(s.terminal) + 1] = r
          /\ \A j \in 1 .. Len(s.terminal) : t.terminal[j] = s.terminal[j]
      BY <1>1, <2>2
    <2>4. i \in 1 .. Len(t.terminal)
      BY <1>2, <2>1 DEF NoOpportunity
    <2>5. CASE i \in 1 .. Len(s.terminal)
      BY <1>1, <1>2, <2>3, <2>4, <2>5, <1>3
    <2>6. CASE i = Len(s.terminal) + 1
      BY <1>1, <1>2, <2>1, <2>2, <2>3, <2>4, <2>6, <1>3
    <2>7. i \in 1 .. Len(s.terminal) \/ i = Len(s.terminal) + 1
      BY <1>1, <2>3, <2>4
    <2> QED BY <2>5, <2>6, <2>7
  <1> QED BY <1>4, <1>5, <1>6

\* A write that takes an answer is of the active opportunity.
LEMMA AnsweredIs ==
    ASSUME NEW s, Sound(s), NEW t, Sound(t), NEW text \in Texts, Tells(s, t, text)
    PROVE  LET i == s.active.index
               a == s.active
               b == t.active
           IN /\ Opened(t) = Opened(s) /\ i \in Opened(s)
              /\ Opportunity(s, i) = a /\ Opportunity(t, i) = b
              /\ \A j \in Opened(s) : j # i => Opportunity(t, j) = Opportunity(s, j)
              /\ b.index = i /\ b.attempts = a.attempts /\ a.proposal = None
              /\ \/ /\ b.proposal = text /\ b.repairs = a.repairs
                    /\ b.previous = a.previous
                 \/ /\ RepairsWith(s, t, text)
                    /\ b.proposal = None /\ b.repairs = a.repairs + 1
                    /\ b.previous = text /\ text \in Garbage
  <1> DEFINE i == s.active.index
             a == s.active
             b == t.active
  <1>1. /\ t.terminal = s.terminal /\ i # NoIndex /\ a.proposal = None /\ a \in ActiveType
        /\ b.index = i /\ b.attempts = a.attempts
        /\ \/ /\ b.proposal = text /\ b.repairs = a.repairs
              /\ b.previous = a.previous
           \/ /\ RepairsWith(s, t, text)
              /\ b.proposal = None /\ b.repairs = a.repairs + 1
              /\ b.previous = text /\ text \in Garbage
    <2>1. a \in ActiveType
      BY DEF Sound, StateType
    <2>2. CASE RepairsWith(s, t, text)
      BY <2>1, <2>2 DEF RepairsWith, Beside, ActiveType
    <2>3. CASE Proposes(s, t, text)
      BY <2>1, <2>3 DEF Proposes, Beside, ActiveType
    <2> QED BY <2>1, <2>2, <2>3 DEF Tells
  <1>2. /\ i = Len(s.terminal) + 1 /\ Opportunity(s, i) = a /\ Opportunity(t, i) = b
        /\ i \in Opened(s) /\ Len(s.terminal) \in Nat
    BY <1>1, OpenedIs
  <1>3. Opened(t) = Opened(s)
    BY <1>1 DEF Opened
  <1>4. ASSUME NEW j \in Opened(s), j # i
        PROVE  Opportunity(t, j) = Opportunity(s, j)
    BY <1>2, <1>4, OpenedIs, <1>1
  <1> QED BY <1>1, <1>2, <1>3, <1>4

\* What any write does to the repairs of an opportunity.
LEMMA RepairMoves ==
    ASSUME NEW s, Sound(s), NEW t, Sound(t), Moves(s, t), NEW i \in Opened(t)
    PROVE  LET a == Opportunity(s, i)
               b == Opportunity(t, i)
           IN \/ i \in Opened(s) /\ b.repairs = a.repairs /\ b.previous = a.previous
              \/ b.repairs = 0
              \/ /\ i = s.active.index /\ i \in Opened(s)
                 /\ \E text \in Texts : RepairsWith(s, t, text)
  <1>1. CASE Quiet(s, t)
    BY <1>1, QuietAnswers DEF SameAnswers
  <1>2. CASE \E text \in Texts : Tells(s, t, text)
    <2>1. PICK text \in Texts : Tells(s, t, text)
      BY <1>2
    <2>2. CASE i = s.active.index
      BY <2>1, <2>2, AnsweredIs
    <2>3. CASE i # s.active.index
      BY <2>1, <2>3, AnsweredIs
    <2> QED BY <2>2, <2>3
  <1> QED BY <1>1, <1>2 DEF Moves

-----------------------------------------------------------------------------
\* What a write records of the answers.
LEMMA Took ==
    ASSUME LogInv, RunInv', EngineMoves, disk' # disk
    PROVE  /\ lost' = lost
           /\ \/ Quiet(disk, disk') /\ answers' = answers
              \/ /\ pc = "await"
                 /\ \E text \in Texts :
                      /\ Tells(disk, disk', text)
                      /\ answers' = answers \cup
                           {<<disk.active.index, disk.active.attempts, text>>}
  <1>1. /\ EngineStep /\ lost' = lost
        /\ answers' = answers \cup {<<mem.active.index, mem.active.attempts, text>> :
                                       text \in NewAnswers}
    BY DEF EngineMoves
  <1>2. CASE Quiet(disk, disk') /\ NewAnswers = {}
    BY <1>1, <1>2
  <1>3. CASE /\ pc = "await"
             /\ \E text \in Texts : Tells(disk, disk', text) /\ NewAnswers = {text}
    <2>1. mem = disk
      BY <1>3 DEF LogInv, RunInv, EngineInv, StoredInv, MemoryIsStored, Holding
    <2>2. PICK text \in Texts : Tells(disk, disk', text) /\ NewAnswers = {text}
      BY <1>3
    <2>3. answers' = answers \cup {<<disk.active.index, disk.active.attempts, text>>}
      BY <1>1, <2>1, <2>2
    <2> QED BY <1>1, <1>3, <2>2, <2>3
  <1> QED BY <1>1, <1>2, <1>3, EngineWrites DEF LogInv

\* What AnswersAreKept says of one opportunity, and of an attempt that waits.
OwnAnswers(a, given) ==
    /\ a.proposal # None => <<a.index, a.attempts, a.proposal>> \in given
    /\ a.repairs > 0 =>
         /\ a.previous \in Garbage
         /\ \E n \in 1 .. Latest(a) : <<a.index, n, a.previous>> \in given

Unanswered(s, given) ==
    \A r \in given : r[1] # s.active.index \/ r[2] < s.active.attempts

AnswersFit(s, given) ==
    /\ given \subseteq Opportunities \X (1 .. ProviderAttempts) \X Texts
    /\ \A r \in given : r[1] \in Opened(s) /\ r[2] <= Opportunity(s, r[1]).attempts
    /\ \A q, r \in given : q[1] = r[1] /\ q[2] = r[2] => q = r
    /\ \A i \in Opened(s) : OwnAnswers(Opportunity(s, i), given)

\* AnswersAreKept by its parts, in this state and in the next.
LEMMA AnswersAre ==
    RunInv => (AnswersAreKept <=>
                 /\ AnswersFit(disk, answers)
                 /\ pc \in {"request", "await"} => Unanswered(disk, answers))
  <1> SUFFICES ASSUME RunInv
               PROVE  AnswersAreKept <=>
                        /\ AnswersFit(disk, answers)
                        /\ pc \in {"request", "await"} => Unanswered(disk, answers)
    OBVIOUS
  <1>1. \A i \in Opened(disk) : Opportunity(disk, i).index = i
    BY StoredIsSound, SoundOpportunity
  <1> QED BY <1>1 DEF AnswersAreKept, AnswersFit, OwnAnswers, Unanswered

LEMMA AnswersAreNext ==
    RunInv' => (AnswersAreKept' <=>
                  /\ AnswersFit(disk', answers')
                  /\ pc' \in {"request", "await"} => Unanswered(disk', answers'))
  <1>1. RunInv' => (AnswersAreKept' <=>
                      (/\ AnswersFit(disk, answers)
                       /\ pc \in {"request", "await"} => Unanswered(disk, answers))')
    BY AnswersAre, PTL
  <1>2. (/\ AnswersFit(disk, answers)
         /\ pc \in {"request", "await"} => Unanswered(disk, answers))' <=>
           /\ AnswersFit(disk', answers')
           /\ pc' \in {"request", "await"} => Unanswered(disk', answers')
    BY DEF AnswersFit, OwnAnswers, Unanswered, Opened, Opportunity, Latest
  <1> QED BY <1>1, <1>2

\* An opportunity keeps its answers when nothing is answered.
LEMMA OwnAnswersStay ==
    ASSUME NEW a, NEW b, NEW given, SameAnswers(a, b), b.index = a.index,
           a.attempts \in Nat, OwnAnswers(a, given)
    PROVE  OwnAnswers(b, given)
  <1>1. a.proposal # None => <<b.index, b.attempts, b.proposal>> \in given
    BY DEF SameAnswers, OwnAnswers
  <1>2. Latest(b) \in {Latest(a), Latest(a) + 1} /\ (Latest(a) \in Nat \/ Latest(a) = 0 - 1)
    BY DEF SameAnswers, Latest
  <1>3. \A n \in 1 .. Latest(a) : n \in 1 .. Latest(b)
    BY <1>2
  <1> QED BY <1>1, <1>3 DEF SameAnswers, OwnAnswers

\* A write keeps the answers that the state works with.
LEMMA WriteKeepsAnswers ==
    ASSUME LogInv, ToldInv, RunInv', EngineMoves, disk' # disk
    PROVE  AnswersAreKept'
  <1> DEFINE s == disk
             t == disk'
  <1>1. /\ Sound(s) /\ Sound(t) /\ Moves(s, t)
        /\ pc' \in {"running", "request", "exited"}
        /\ pc' = "request" => Asks(s, t)
    BY Observed
  <1>2. AnswersFit(s, answers) /\ (pc = "await" => Unanswered(s, answers))
    BY AnswersAre DEF LogInv, ToldInv
  <1>3. CASE Quiet(s, t) /\ answers' = answers
    <2>1. \A r \in answers : r[1] \in Opened(t) /\ r[2] <= Opportunity(t, r[1]).attempts
      <3> SUFFICES ASSUME NEW r \in answers
                   PROVE  r[1] \in Opened(t) /\ r[2] <= Opportunity(t, r[1]).attempts
        OBVIOUS
      <3>1. r[1] \in Opened(s) /\ r[2] <= Opportunity(s, r[1]).attempts /\ r[2] \in Nat
        BY <1>2 DEF AnswersFit
      <3>2. r[1] \in Opened(t) /\ Opportunity(s, r[1]).attempts <= Opportunity(t, r[1]).attempts
        BY <1>1, <3>1, OpportunityMoves DEF Goes
      <3>3. Opportunity(s, r[1]).attempts \in Nat /\ Opportunity(t, r[1]).attempts \in Nat
        BY <1>1, <3>1, <3>2, SoundOpportunity
      <3> QED BY <3>1, <3>2, <3>3
    <2>2. ASSUME NEW i \in Opened(t)
          PROVE  OwnAnswers(Opportunity(t, i), answers)
      <3>1. CASE i \in Opened(s) /\ SameAnswers(Opportunity(s, i), Opportunity(t, i))
        <4>1. /\ OwnAnswers(Opportunity(s, i), answers)
              /\ Opportunity(t, i).index = Opportunity(s, i).index
              /\ Opportunity(s, i).attempts \in Nat
          BY <1>1, <1>2, <3>1, SoundOpportunity DEF AnswersFit
        <4> QED BY <3>1, <4>1, OwnAnswersStay
      <3>2. CASE Opportunity(t, i).proposal = None /\ Opportunity(t, i).repairs = 0
        BY <3>2 DEF OwnAnswers
      <3> QED BY <1>1, <1>3, <3>1, <3>2, QuietAnswers
    <2>3. AnswersFit(t, answers')
      BY <1>2, <1>3, <2>1, <2>2 DEF AnswersFit
    <2>4. pc' \in {"request", "await"} => Unanswered(t, answers')
      <3> SUFFICES ASSUME pc' = "request", NEW r \in answers, r[1] = t.active.index
                   PROVE  r[2] < t.active.attempts
        BY <1>1, <1>3 DEF Unanswered
      <3>1. /\ Asks(s, t) /\ s.active \in ActiveType
        BY <1>1 DEF Sound, StateType
      <3>2. /\ t.active.index = s.active.index /\ s.active.index # NoIndex
            /\ t.active.attempts = s.active.attempts + 1 /\ s.active.attempts \in Nat
        BY <3>1 DEF Asks, ActiveType
      <3>3. r[2] <= s.active.attempts /\ r[2] \in Nat
        BY <1>1, <1>2, <3>2, OpenedIs DEF AnswersFit
      <3> QED BY <3>2, <3>3
    <2> QED BY <2>3, <2>4, AnswersAreNext
  <1>4. CASE /\ pc = "await"
             /\ \E text \in Texts :
                  /\ Tells(s, t, text)
                  /\ answers' = answers \cup {<<s.active.index, s.active.attempts, text>>}
    <2> DEFINE i == s.active.index
               a == s.active
               b == t.active
    <2>1. PICK text \in Texts :
             /\ Tells(s, t, text) /\ answers' = answers \cup {<<i, a.attempts, text>>}
      BY <1>4
    <2>2. /\ Opened(t) = Opened(s) /\ i \in Opened(s)
          /\ Opportunity(s, i) = a /\ Opportunity(t, i) = b
          /\ \A j \in Opened(s) : j # i => Opportunity(t, j) = Opportunity(s, j)
          /\ b.index = i /\ b.attempts = a.attempts /\ a.proposal = None
          /\ \/ /\ b.proposal = text /\ b.repairs = a.repairs
                /\ b.previous = a.previous
             \/ /\ b.proposal = None /\ b.repairs = a.repairs + 1
                /\ b.previous = text /\ text \in Garbage
      BY <1>1, <2>1, AnsweredIs
    <2>3. /\ i \in Opportunities /\ a.attempts \in 1 .. ProviderAttempts /\ a.repairs \in Nat
          /\ a.attempts > 0 /\ a.attempts \in Nat /\ a.index = i
      <3>1. a.attempts > 0
        BY <1>4 DEF LogInv, RunInv, EngineInv, PlaceIsStored
      <3>2. /\ i \in Opportunities /\ a.attempts \in Nat /\ a.attempts <= ProviderAttempts
            /\ a.repairs \in Nat
        BY <1>1, <2>2, SoundOpportunity
      <3> QED BY <3>1, <3>2, BudgetAssumption
    <2>4. \A r \in answers : r[1] # i \/ r[2] < a.attempts
      BY <1>2, <1>4 DEF Unanswered
    <2> DEFINE new == <<i, a.attempts, text>>
    <2>5. new[1] = i /\ new[2] = a.attempts /\ new[3] = text
      OBVIOUS
    <2>6. answers' \subseteq Opportunities \X (1 .. ProviderAttempts) \X Texts
      BY <1>2, <2>1, <2>3 DEF AnswersFit
    <2>7. \A r \in answers' : r[1] \in Opened(t) /\ r[2] <= Opportunity(t, r[1]).attempts
      <3> SUFFICES ASSUME NEW r \in answers'
                   PROVE  r[1] \in Opened(t) /\ r[2] <= Opportunity(t, r[1]).attempts
        OBVIOUS
      <3>1. CASE r \in answers
        <4>1. r[1] \in Opened(s) /\ r[2] <= Opportunity(s, r[1]).attempts
          BY <1>2, <3>1 DEF AnswersFit
        <4> QED BY <2>2, <4>1
      <3>2. CASE r = new
        BY <2>2, <2>3, <3>2
      <3> QED BY <2>1, <3>1, <3>2
    <2>8. \A q, r \in answers' : q[1] = r[1] /\ q[2] = r[2] => q = r
      <3> SUFFICES ASSUME NEW q \in answers', NEW r \in answers', q[1] = r[1], q[2] = r[2]
                   PROVE  q = r
        OBVIOUS
      <3>1. q \in answers /\ r = new => FALSE
        BY <2>3, <2>4, <2>5
      <3>2. r \in answers /\ q = new => FALSE
        BY <2>3, <2>4, <2>5
      <3>3. q \in answers /\ r \in answers => q = r
        BY <1>2 DEF AnswersFit
      <3> QED BY <2>1, <3>1, <3>2, <3>3
    <2>9. ASSUME NEW j \in Opened(t)
          PROVE  OwnAnswers(Opportunity(t, j), answers')
      <3>1. CASE j # i
        <4>1. OwnAnswers(Opportunity(s, j), answers) /\ Opportunity(t, j) = Opportunity(s, j)
          BY <1>2, <2>2, <3>1 DEF AnswersFit
        <4> QED BY <2>1, <4>1 DEF OwnAnswers
      <3>2. CASE j = i
        <4>1. OwnAnswers(a, answers)
          BY <1>2, <2>2 DEF AnswersFit
        <4>2. CASE b.proposal = text /\ b.repairs = a.repairs /\ b.previous = a.previous
          <5>1. text # None
            BY EngineAssumption DEF Texts
          <5>2. Latest(a) = a.attempts /\ Latest(b) = a.attempts - 1
            BY <2>2, <4>2, <5>1 DEF Latest
          <5>3. a.repairs > 0 =>
                  /\ a.previous \in Garbage
                  /\ \E n \in 1 .. Latest(b) : <<i, n, a.previous>> \in answers
            <6> SUFFICES ASSUME a.repairs > 0
                         PROVE  /\ a.previous \in Garbage
                                /\ \E n \in 1 .. Latest(b) : <<i, n, a.previous>> \in answers
              OBVIOUS
            <6>1. PICK n \in 1 .. Latest(a) : <<i, n, a.previous>> \in answers
              BY <2>3, <4>1 DEF OwnAnswers
            <6>2. n < a.attempts
              BY <2>4, <6>1
            <6>3. n \in 1 .. Latest(b)
              BY <2>3, <5>2, <6>1, <6>2
            <6> QED BY <4>1, <6>1, <6>3 DEF OwnAnswers
          <5>4. new \in answers' /\ answers \subseteq answers'
            BY <2>1
          <5>5. OwnAnswers(b, answers')
            BY <2>2, <4>2, <5>3, <5>4 DEF OwnAnswers
          <5> QED BY <2>2, <3>2, <5>5
        <4>3. CASE /\ b.proposal = None /\ b.repairs = a.repairs + 1
                   /\ b.previous = text /\ text \in Garbage
          <5>1. Latest(b) = a.attempts /\ a.attempts \in 1 .. Latest(b)
            BY <2>2, <2>3, <4>3 DEF Latest
          <5>2. new \in answers'
            BY <2>1
          <5>3. OwnAnswers(b, answers')
            BY <2>2, <4>3, <5>1, <5>2 DEF OwnAnswers
          <5> QED BY <2>2, <3>2, <5>3
        <4> QED BY <2>2, <4>2, <4>3
      <3> QED BY <3>1, <3>2
    <2>10. AnswersFit(t, answers')
      BY <2>6, <2>7, <2>8, <2>9 DEF AnswersFit
    <2>11. pc' \notin {"request", "await"}
      <3> SUFFICES ASSUME Asks(s, t) PROVE FALSE
        BY <1>1
      <3>1. t.active.attempts = s.active.attempts + 1
        BY <1>1 DEF Asks, Sound, StateType, ActiveType
      <3> QED BY <2>2, <2>3, <3>1
    <2> QED BY <2>10, <2>11, AnswersAreNext
  <1> QED BY <1>3, <1>4, Took

-----------------------------------------------------------------------------
\* What was told of an opportunity stays true of it.
LEMMA BodyStays ==
    ASSUME NEW s, Sound(s), NEW t, Sound(t), Moves(s, t), NEW l, NEW cut,
           NEW e, Called(e, s), BodyIsTrue(s, l, cut, e)
    PROVE  BodyIsTrue(t, l, cut, e)
  <1> SUFFICES ASSUME e.kind \in {"repair", "response"}
               PROVE  BodyIsTrue(t, l, cut, e)
    BY DEF BodyIsTrue
  <1> DEFINE i == e.index
             a == Opportunity(s, i)
             b == Opportunity(t, i)
  <1>1. i \in Opened(s) /\ (e.kind = "repair" => e.number \in 1 .. a.repairs)
    BY DEF Called
  <1>2. Goes(a, b) /\ i \in Opened(t)
    BY <1>1, OpportunityMoves
  <1>3. /\ a.repairs \in Nat /\ b.repairs \in Nat
    BY <1>1, <1>2, SoundOpportunity
  <1>4. a.repairs <= b.repairs /\ (b.repairs = a.repairs => b.previous = a.previous)
    BY <1>2 DEF Goes
  <1>5. CASE e.kind = "response"
    <2>1. /\ e.body.text \in Texts /\ e.body.tokens \in BOOLEAN
          /\ e.body.parsed = (e.body.text \in Sources)
          /\ e.body.tokens => e.number = a.attempts /\ e.body.text = a.proposal
          /\ ~e.body.tokens =>
               a.repairs > 0 /\ (a.repairs = 1 => e.body.text = a.previous)
      BY <1>5 DEF BodyIsTrue
    <2>2. e.body.tokens => e.number = b.attempts /\ e.body.text = b.proposal
      <3> SUFFICES ASSUME e.body.tokens
                   PROVE  e.number = b.attempts /\ e.body.text = b.proposal
        OBVIOUS
      <3>1. a.proposal # None
        BY <2>1, EngineAssumption DEF Texts
      <3>2. b.proposal = a.proposal /\ b.attempts = a.attempts
        BY <1>2, <3>1 DEF Goes
      <3> QED BY <2>1, <3>2
    <2>3. ~e.body.tokens => b.repairs > 0 /\ (b.repairs = 1 => e.body.text = b.previous)
      <3> HIDE DEF a, b
      <3> QED BY <1>3, <1>4, <2>1
    <2> QED BY <1>5, <2>1, <2>2, <2>3 DEF BodyIsTrue
  <1>6. CASE e.kind = "repair"
    <2> SUFFICES ASSUME b.repairs = 1, i \notin cut
                 PROVE  \E m \in Matching(l, i, b.previous) : l[m].number = e.body
      BY <1>6 DEF BodyIsTrue
    <2>1. a.repairs = 1
      <3> HIDE DEF a, b
      <3> QED BY <1>1, <1>3, <1>4, <1>6
    <2>2. b.previous = a.previous
      BY <1>4, <2>1
    <2> QED BY <1>6, <2>1, <2>2 DEF BodyIsTrue
  <1> QED BY <1>5, <1>6

\* A write keeps the log true.
LEMMA WriteKeepsBodies ==
    ASSUME LogInv, ToldInv, RunInv', EngineMoves, disk' # disk
    PROVE  BodiesAreTrue' /\ ResponsesGrounded'
  BY Observed, Took, BodiesAre, BodyStays, BodiesAreNext DEF ToldInv, IsGrounded

\* What blocks is pending again after a write, which does not touch a closed
\* opportunity, and when the state is observed once more.
LEMMA BlockedAgain ==
    ASSUME LogInv, NEW t, Sound(t), t = disk \/ Moves(disk, t),
           NEW i \in Opened(disk), BlockedBy(disk, log, {}, i)
    PROVE  BlockedBy(t, log, ToEmit(t, log), i)
  <1>1. Sound(disk) /\ i \in Nat /\ Len(log) \in Nat /\ Len(disk.terminal) \in Nat
        /\ \A k \in 1 .. Len(log) : Called(log[k], disk)
    BY LogFacts, SoundOpportunity, OpenedIs
  <1>2. PICK j \in 1 .. (i - 1) :
           \E f \in Tellings(Opportunity(disk, j), log) : ConflictsIn(log, f)
    BY DEF BlockedBy
  <1>3. PICK f \in Tellings(Opportunity(disk, j), log) : ConflictsIn(log, f)
    BY <1>2
  <1>4. j \in Opened(disk) /\ j < i /\ j \in Nat
    BY <1>1, EarlierIsOpened
  <1>5. f.kind \in {"repair", "response"}
    BY <1>1, <1>3, <1>4, TellingIsCalled
  <1>6. j \in Opened(t) /\ Opportunity(t, j) = Opportunity(disk, j)
    BY <1>4, <1>1, OpenedIs, <1>2, OpportunityMoves
  <1>7. f \in Expected(t, log)
    BY <1>3, <1>6, ExpectedIs
  <1>8. ~Kept(f, log)
    BY <1>3, <1>5, ConflictIsNotKept
  <1>9. f \in ToEmit(t, log)
    BY <1>7, <1>8 DEF ToEmit
  <1> QED BY <1>3, <1>6, <1>9 DEF BlockedBy

\* A repair that is written is observed with its answer.
LEMMA RepairIsObserved ==
    ASSUME LogInv, RunInv', EngineMoves, disk' # disk,
           NEW text \in Texts, RepairsWith(disk, disk', text),
           Untold(disk', log, disk.active.index), RunInv, pc = "await",
           <<disk.active.index, disk.active.attempts, text>> \in answers'
    PROVE  ToBeTold(disk', answers', todo', disk.active.index)
  <1> DEFINE s == disk
             t == disk'
             i == s.active.index
             a == s.active
             b == t.active
             r == KeptResponse(b)
  <1>1. /\ Sound(s) /\ Sound(t) /\ todo' = ToEmit(t, log) /\ Len(log) \in Nat
        /\ Moves(s, t) /\ \A k \in 1 .. Len(log) : Called(log[k], s)
    BY Observed
  <1>2. /\ i \in Opened(s) /\ i \in Opened(t) /\ Opportunity(s, i) = a /\ Opportunity(t, i) = b
        /\ b.index = i /\ b.attempts = a.attempts /\ b.proposal = None
        /\ b.repairs = a.repairs + 1 /\ b.previous = text
    <2>1. Tells(s, t, text)
      BY DEF Tells
    <2>2. s.active.proposal = None /\ s.active \in ActiveType
      BY <1>1 DEF RepairsWith, Sound, StateType
    <2>3. t.active = [s.active EXCEPT !.repairs = s.active.repairs + 1, !.previous = text]
      BY DEF RepairsWith
    <2>4. b.proposal = None /\ b.repairs = a.repairs + 1 /\ b.previous = text
      BY <2>2, <2>3 DEF ActiveType
    <2> QED BY <1>1, <2>1, <2>4, AnsweredIs
  <1>3. a.repairs \in Nat /\ a.attempts \in Nat /\ a.attempts > 0
    BY <1>1, <1>2, SoundOpportunity DEF RunInv, EngineInv, PlaceIsStored
  <1>4. Latest(b) = a.attempts /\ Latest(b) > 0
    BY <1>2, <1>3 DEF Latest
  <1>5. Matching(log, i, b.previous) = {} /\ b.repairs > 0
    BY <1>2 DEF Untold
  <1>6. RepairedAttempt(b, log) = Latest(b)
    BY <1>2, <1>5 DEF RepairedAttempt
  <1>7. /\ r.kind = "response" /\ r.index = i /\ r.number = Latest(b)
        /\ r.body.text = b.previous /\ r.body.parsed = FALSE
    BY <1>2, KeptResponseIs
  <1>8. r \in RepairEvents(b, log)
    <2>1. r = Event("response", b.index, RepairedAttempt(b, log),
                    Response(b.previous, FALSE, FALSE))
      BY <1>6 DEF KeptResponse
    <2>2. b.repairs \in Nat /\ RepairedAttempt(b, log) > 0
      BY <1>2, <1>3, <1>4, <1>6
    <2> HIDE DEF b, r
    <2> QED BY <1>5, <2>1, <2>2, RepairEventIs
  <1>9. r \in todo'
    <2>1. r \in Expected(t, log)
      BY <1>1, <1>2, <1>8, ExpectedIs DEF Tellings
    <2>2. ~Kept(r, log)
      <3> SUFFICES ASSUME Kept(r, log) PROVE FALSE
        OBVIOUS
      <3>1. PICK k \in 1 .. Len(log) : SameKey(log[k], r) /\ log[k].body = r.body
        BY DEF Kept
      <3>2. /\ log[k].kind = "response" /\ log[k].index = i
            /\ ~log[k].body.parsed /\ log[k].body.text = b.previous
        BY <1>7, <3>1, KeyFields
      <3>3. k \in Matching(log, i, b.previous)
        BY <3>2 DEF Matching
      <3> QED BY <1>5, <3>3
    <2> QED BY <1>1, <2>1, <2>2 DEF ToEmit
  <1> DEFINE f == Event("repair", b.index, b.repairs,
                        IF RepairedAttempt(b, log) > 0 THEN RepairedAttempt(b, log) ELSE 1)
  <1>10. f.kind = "repair" /\ f.index = i /\ f.number = b.repairs
    BY <1>2, EventFields
  <1>11. f \in todo'
    <2>1. f \in RepairEvents(b, log)
      <3>1. b.repairs \in 1 .. b.repairs /\ b.repairs \in Nat
        BY <1>2, <1>3
      <3> HIDE DEF b
      <3> QED BY <3>1, RepairEventIs
    <2>2. f \in Expected(t, log)
      BY <1>1, <1>2, <2>1, ExpectedIs DEF Tellings
    <2>3. ~Kept(f, log)
      <3> SUFFICES ASSUME Kept(f, log) PROVE FALSE
        OBVIOUS
      <3>1. PICK k \in 1 .. Len(log) : SameKey(log[k], f)
        BY DEF Kept
      <3>2. log[k].kind = "repair" /\ log[k].index = i /\ log[k].number = a.repairs + 1
        BY <1>2, <1>10, <3>1, KeyFields
      <3>3. log[k].number \in 1 .. a.repairs
        BY <1>1, <1>2, <3>2 DEF Called
      <3> QED BY <1>3, <3>2, <3>3
    <2> QED BY <1>1, <2>2, <2>3 DEF ToEmit
  <1>12. <<i, Latest(b), b.previous>> \in answers'
    BY <1>2, <1>4
  <1> QED BY <1>2, <1>9, <1>10, <1>11, <1>12 DEF ToBeTold

\* A write keeps repairs told, or blocked.
LEMMA WriteKeepsRepairs ==
    ASSUME LogInv, ToldInv, RunInv', EngineMoves, disk' # disk
    PROVE  RepairIsTold'
  <1>1. /\ Sound(disk) /\ Sound(disk') /\ Moves(disk, disk') /\ log' = log
        /\ todo = {} /\ todo' = ToEmit(disk', log) /\ RunInv
    BY Observed DEF LogInv
  <1>2. lost' = lost
    BY Took
  <1>3. ToldOrBlocked(disk, log, answers, {}, lost)
    BY <1>1, RepairToldIs DEF ToldInv
  <1>4. ASSUME NEW i \in Opened(disk') \ lost, Untold(disk', log, i)
        PROVE  ToBeTold(disk', answers', todo', i) \/ BlockedBy(disk', log, todo', i)
    <2> DEFINE a == Opportunity(disk, i)
               b == Opportunity(disk', i)
    <2>1. CASE i \in Opened(disk) /\ b.repairs = a.repairs /\ b.previous = a.previous
      BY <1>4, <2>1, <1>3, NothingToTell, <1>1, BlockedAgain DEF Untold, ToldOrBlocked
    <2>2. CASE b.repairs = 0
      BY <1>4, <2>2 DEF Untold
    <2>3. CASE i = disk.active.index /\ \E text \in Texts : RepairsWith(disk, disk', text)
      <3>1. PICK text \in Texts : RepairsWith(disk, disk', text)
        BY <2>3
      <3>2. pc = "await" /\ <<i, disk.active.attempts, text>> \in answers'
        <4>1. ~Quiet(disk, disk')
          <5> SUFFICES ASSUME Quiet(disk, disk') PROVE FALSE
            OBVIOUS
          <5>1. Tells(disk, disk', text)
            BY <3>1 DEF Tells
          <5>2. /\ disk.active.index \in Opened(disk')
                /\ Opportunity(disk, disk.active.index) = disk.active
                /\ Opportunity(disk', disk.active.index) = disk'.active
            BY <1>1, <5>1, AnsweredIs
          <5>3. disk'.active.repairs = disk.active.repairs + 1 /\ disk.active.repairs \in Nat
            BY <1>1, <3>1 DEF RepairsWith, Sound, StateType, ActiveType
          <5>4. disk'.active.repairs = disk.active.repairs \/ disk'.active.repairs = 0
            BY <1>1, <5>2, QuietAnswers DEF SameAnswers
          <5> QED BY <5>3, <5>4
        <4>2. PICK other \in Texts :
                 /\ pc = "await" /\ Tells(disk, disk', other)
                 /\ answers' = answers \cup {<<disk.active.index, disk.active.attempts, other>>}
          BY <4>1, Took
        <4>3. other = text
          <5>1. /\ disk'.active.previous = text
                /\ disk'.active.repairs = disk.active.repairs + 1
                /\ disk.active.repairs \in Nat
            BY <1>1, <3>1 DEF RepairsWith, Sound, StateType, ActiveType
          <5>2. \/ disk'.active.repairs = disk.active.repairs
                \/ disk'.active.previous = other
            BY <1>1, <4>2, AnsweredIs
          <5> QED BY <5>1, <5>2
        <4> QED BY <2>3, <4>2, <4>3
      <3> QED BY <1>1, <1>4, <2>3, <3>1, <3>2, RepairIsObserved
    <2> QED BY <1>1, <2>1, <2>2, <2>3, RepairMoves
  <1>5. ToldOrBlocked(disk', log', answers', todo', lost')
    BY <1>1, <1>2, <1>4 DEF ToldOrBlocked
  <1> QED BY <1>5, RepairToldIsNext

-----------------------------------------------------------------------------
\* The logged responses of an attempt that a crash has not cut off agree with
\* what the attempt brought.
LEMMA LoggedAnswer ==
    ASSUME LogInv, ToldInv, NEW k \in 1 .. Len(log), log[k].kind = "response",
           log[k].index \notin lost, NEW text,
           <<log[k].index, log[k].number, text>> \in answers
    PROVE  log[k].body.text = text /\ log[k].body.parsed = (text \in Sources)
  <1> DEFINE g == log[k]
             q == <<g.index, g.number, g.body.text>>
             r == <<g.index, g.number, text>>
  <1>1. q \in answers
    BY DEF ToldInv, ResponsesGrounded
  <1>2. q[1] = r[1] /\ q[2] = r[2] /\ q[3] = g.body.text /\ r[3] = text
    OBVIOUS
  <1>3. q = r
    BY <1>1, <1>2 DEF ToldInv, AnswersAreKept
  <1>4. g.body.text = text
    BY <1>3
  <1>5. g.body.parsed = (g.body.text \in Sources)
    BY DEF ToldInv, BodiesAreTrue
  <1> QED BY <1>4, <1>5

\* A refusal that cuts off the observation of a repair is of an event before it.
LEMMA FailureBlocks ==
    ASSUME LogInv, ToldInv, NEW h \in todo, Conflicts(h), Due(h),
           NEW i \in Opened(disk) \ lost, Untold(disk, log, i),
           ToBeTold(disk, answers, todo, i)
    PROVE  BlockedBy(disk, log, {}, i)
  <1> DEFINE a == Opportunity(disk, i)
             r == KeptResponse(a)
  <1>1. /\ Sound(disk) /\ Len(log) \in Nat /\ RunInv
        /\ \A k \in 1 .. Len(log) : Called(log[k], disk)
    BY LogFacts
  <1>2. /\ h.kind \in {"repair", "response"} /\ h.index \in Opened(disk)
        /\ h \in Tellings(Opportunity(disk, h.index), log) /\ ConflictsIn(log, h)
    BY ConflictIs DEF Conflicts, ConflictsIn
  <1>3. /\ i \in Nat /\ a.index = i /\ a.repairs \in Nat /\ a.repairs > 0
        /\ h.index \in Nat /\ Matching(log, i, a.previous) = {}
    BY <1>1, <1>2, SoundOpportunity DEF Untold
  <1>4. /\ r \in todo /\ r.kind = "response" /\ r.index = i /\ r.number = Latest(a)
        /\ r.body = Response(a.previous, FALSE, FALSE)
        /\ Place(r) = 2 /\ <<i, Latest(a), a.previous>> \in answers
    BY <1>3, KeptResponseIs DEF ToBeTold
  <1> HIDE DEF r, a
  <1>5. ~Before(r, h)
    BY <1>4 DEF Due
  <1>6. CASE h.index < i
    BY <1>1, <1>2, <1>3, <1>6, SoundOpportunity DEF BlockedBy
  <1>7. CASE h.index > i
    BY <1>3, <1>4, <1>5, <1>7 DEF Before
  <1>8. CASE h.index = i
    <2>1. Place(h) = IF h.kind = "response" THEN IF h.body.tokens THEN 4 ELSE 2 ELSE 3
      BY <1>2 DEF Place
    <2>2. h.kind = "response" /\ ~h.body.tokens
      BY <1>4, <1>5, <1>8, <2>1 DEF Before
    <2>3. h \in RepairEvents(a, log)
      <3> SUFFICES ASSUME h \in ResponseEvents(a) PROVE FALSE
        BY <1>2, <1>8 DEF Tellings, a
      <3>1. h.body.tokens = TRUE
        BY AnswerFields
      <3> QED BY <2>2, <3>1
    <2>4. h.number = Latest(a) /\ h.body = r.body
      <3>1. RepairedAttempt(a, log) = Latest(a)
        BY <1>1, <1>3, Attributed DEF a
      <3>2. h.number = RepairedAttempt(a, log) /\ h.body = Response(a.previous, FALSE, FALSE)
        BY <1>3, <2>2, <2>3, RepairFields
      <3> QED BY <1>4, <3>1, <3>2
    <2>5. PICK k \in 1 .. Len(log) : SameKey(log[k], h)
      BY <1>2 DEF ConflictsIn
    <2>6. log[k].kind = "response" /\ log[k].index = i /\ log[k].number = Latest(a)
      BY <1>8, <2>2, <2>4, <2>5, KeyFields
    <2>7. log[k].body.text = a.previous /\ log[k].body.parsed = (a.previous \in Sources)
      BY <1>4, <2>6, LoggedAnswer
    <2>8. a.previous \notin Sources
      BY <1>1, <1>3, KeptAnswer DEF ToldInv, a
    <2>9. k \in Matching(log, i, a.previous)
      BY <2>7, <2>8, <2>6 DEF Matching
    <2> QED BY <1>3, <2>9
  <1> QED BY <1>3, <1>6, <1>7, <1>8

\* An answer that is refused was told as the answer to a repair: the provider
\* gave the same text twice.
LEMMA RefusedAnswer ==
    ASSUME LogInv, ToldInv, NEW i \in Opened(disk) \ lost,
           NEW k \in 1 .. Len(log), log[k].kind = "response", log[k].index = i,
           log[k].number = Opportunity(disk, i).attempts, log[k].body.tokens # TRUE,
           Opportunity(disk, i).proposal # None, Opportunity(disk, i).repairs <= 1
    PROVE  \E r, q \in answers : /\ r[1] = i /\ q[1] = i
                                 /\ r[2] # q[2] /\ r[3] = q[3]
  <1> DEFINE a == Opportunity(disk, i)
             q == <<i, a.attempts, a.proposal>>
  <1>1. Sound(disk) /\ RunInv /\ AnswersAreKept /\ BodiesAreTrue
    BY LogFacts DEF ToldInv
  <1>2. a.repairs \in Nat /\ a.attempts \in Nat /\ Latest(a) = a.attempts - 1
    BY <1>1, SoundOpportunity DEF Latest
  <1>3. q \in answers
    BY <1>1 DEF AnswersAreKept
  <1>4. log[k].body.text = a.proposal
    BY <1>3, LoggedAnswer
  <1>5. a.repairs = 1 /\ log[k].body.text = a.previous
    <2>1. /\ log[k].body.tokens \in BOOLEAN
          /\ ~log[k].body.tokens =>
               a.repairs > 0 /\ (a.repairs = 1 => log[k].body.text = a.previous)
      BY <1>1 DEF BodiesAreTrue
    <2>2. ~log[k].body.tokens
      BY <2>1
    <2> QED BY <1>2, <2>1, <2>2
  <1>6. PICK n \in 1 .. Latest(a) : <<i, n, a.previous>> \in answers
    BY <1>1, <1>5, KeptAnswer
  <1> DEFINE r == <<i, n, a.previous>>
  <1>7. r[1] = i /\ r[2] = n /\ r[3] = a.previous /\ q[1] = i /\ q[2] = a.attempts
        /\ q[3] = a.proposal
    OBVIOUS
  <1>8. n # a.attempts
    BY <1>2
  <1>9. r \in answers /\ r[2] # q[2] /\ r[3] = q[3]
    BY <1>4, <1>5, <1>6, <1>7, <1>8
  <1> QED BY <1>3, <1>7, <1>9

\* What is refused has one of three reasons.
LEMMA RefusalIsExplained ==
    ASSUME LogInv, ToldInv, NEW e \in todo, Conflicts(e), Due(e)
    PROVE  Explained(e)
  <1> DEFINE i == e.index
             a == Opportunity(disk, i)
             n == RepairedAttempt(a, log)
             Repeated == \E r, q \in answers : /\ r[1] = i /\ q[1] = i
                                               /\ r[2] # q[2] /\ r[3] = q[3]
  <1>1. /\ Sound(disk) /\ Len(log) \in Nat /\ RunInv /\ mem = disk
        /\ \A k \in 1 .. Len(log) : Called(log[k], disk)
    BY LogFacts, Pending
  <1>2. /\ e.kind \in {"repair", "response"} /\ i \in Opened(disk)
        /\ e \in Tellings(a, log)
    BY ConflictIs
  <1>3. a.repairs \in Nat /\ a.index = i
    BY <1>1, <1>2, SoundOpportunity
  <1> SUFFICES ASSUME i \notin lost, a.repairs <= 1
               PROVE  Repeated
    BY <1>1, <1>2, <1>3 DEF Explained
  <1>4. PICK k \in 1 .. Len(log) : SameKey(log[k], e) /\ log[k].body # e.body
    BY DEF Conflicts
  <1>5. /\ log[k].kind = e.kind /\ log[k].index = i /\ log[k].number = e.number
        /\ log[k] = Event(e.kind, i, e.number, log[k].body) /\ Called(log[k], disk)
    BY <1>1, <1>4, KeyFields, CalledForm
  <1> HIDE DEF Repeated, n
  <1>6. ASSUME NEW text, <<i, e.number, text>> \in answers, e.kind = "response"
        PROVE  /\ log[k].body = Response(text, text \in Sources, log[k].body.tokens)
    <2>1. log[k].body.text = text /\ log[k].body.parsed = (text \in Sources)
      BY <1>5, <1>6, LoggedAnswer
    <2>2. log[k].body = Response(log[k].body.text, log[k].body.parsed, log[k].body.tokens)
      <3>1. log[k] = Event("response", i, log[k].number,
                       Response(log[k].body.text, log[k].body.parsed, log[k].body.tokens))
        BY <1>5, <1>6 DEF Called
      <3> QED BY <3>1, EventFields
    <2> QED BY <2>1, <2>2
  <1>7. CASE e \in ResponseEvents(a)
    <2>1. /\ a.proposal # None /\ e.kind = "response" /\ e.number = a.attempts
          /\ e.body = Response(a.proposal, a.proposal \in Sources, TRUE)
      BY <1>7, AnswerFields
    <2>2. <<i, a.attempts, a.proposal>> \in answers
      BY <1>2, <2>1 DEF ToldInv, AnswersAreKept
    <2>3. log[k].body.tokens # TRUE
      <3>1. log[k].body = Response(a.proposal, a.proposal \in Sources, log[k].body.tokens)
        BY <1>6, <2>1, <2>2
      <3> QED BY <1>4, <2>1, <3>1
    <2>4. /\ log[k].kind = "response" /\ log[k].number = Opportunity(disk, i).attempts
      BY <1>5, <2>1
    <2>5. i \in Opened(disk) \ lost
      BY <1>2
    <2> QED BY <1>5, <2>1, <2>3, <2>4, <2>5, RefusedAnswer DEF Repeated
  <1>8. CASE e \in RepairEvents(a, log)
    <2>1. /\ a.repairs > 0
          /\ \/ /\ e.kind = "response" /\ e.number = n
                /\ e.body = Response(a.previous, FALSE, FALSE)
             \/ /\ e.kind = "repair" /\ e.number \in 1 .. a.repairs
                /\ e.body = IF n > 0 THEN n ELSE 1
      BY <1>3, <1>8, RepairFields DEF n
    <2>2. a.repairs = 1
      <3> HIDE DEF a
      <3> QED BY <1>3, <2>1
    <2>3. /\ n > 0 /\ n \in Nat /\ <<i, n, a.previous>> \in answers
          /\ e.kind = "repair" =>
               \E m \in Matching(log, i, a.previous) : log[m].number = n
      BY <1>2, <2>1, RepairIsGrounded DEF n
    <2>4. CASE e.kind = "response"
      <3>1. a.previous \notin Sources
        BY <1>1, <1>2, <2>1, KeptAnswer DEF ToldInv
      <3>2. e.number = n /\ e.body = Response(a.previous, FALSE, FALSE)
        BY <2>1, <2>4
      <3>3. log[k].body = Response(a.previous, a.previous \in Sources, log[k].body.tokens)
        BY <1>6, <2>3, <2>4, <3>2
      <3>4. (a.previous \in Sources) = FALSE
        BY <3>1
      <3>5. log[k].body.tokens # FALSE
        BY <1>4, <3>2, <3>3, <3>4
      <3>6. log[k].body.tokens \in BOOLEAN /\ log[k].body.text \in Texts
            /\ (log[k].body.tokens =>
                  log[k].number = a.attempts /\ log[k].body.text = a.proposal)
        BY <1>5, <2>4 DEF ToldInv, BodiesAreTrue
      <3>7. log[k].number = a.attempts /\ log[k].body.text = a.proposal
        BY <3>5, <3>6
      <3>8. log[k].body.text = a.previous
        BY <1>5, <2>3, <2>4, <3>2, LoggedAnswer
      <3>9. a.proposal = a.previous /\ a.proposal # None /\ n = a.attempts
        BY <1>5, <3>2, <3>6, <3>7, <3>8, EngineAssumption DEF Texts
      <3>10. Latest(a) = a.attempts - 1 /\ a.attempts \in Nat
        BY <1>1, <1>2, <3>9, SoundOpportunity DEF Latest
      <3>11. PICK m \in 1 .. Latest(a) : <<i, m, a.previous>> \in answers
        BY <1>1, <1>2, <2>1, KeptAnswer DEF ToldInv
      <3>12. m # n
        <4> HIDE DEF a
        <4> QED BY <3>9, <3>10
      <3> DEFINE r == <<i, m, a.previous>>
                 q == <<i, n, a.previous>>
      <3>13. r[1] = i /\ q[1] = i /\ r[2] = m /\ q[2] = n /\ r[3] = q[3]
        OBVIOUS
      <3> QED BY <2>3, <3>11, <3>12, <3>13 DEF Repeated
    <2>5. CASE e.kind = "repair"
      <3>1. e.body = n
        BY <2>1, <2>3, <2>5
      <3>2. PICK m \in Matching(log, i, a.previous) : log[m].number = log[k].body
        BY <1>5, <2>2, <2>5 DEF ToldInv, BodiesAreTrue
      <3>3. /\ m \in 1 .. Len(log) /\ log[m].kind = "response" /\ log[m].index = i
            /\ log[m].body.text = a.previous
        BY <3>2 DEF Matching
      <3>4. <<i, log[m].number, a.previous>> \in answers
        BY <3>3 DEF ToldInv, ResponsesGrounded
      <3>5. log[m].number # n
        BY <1>4, <3>1, <3>2
      <3> DEFINE r == <<i, log[m].number, a.previous>>
                 q == <<i, n, a.previous>>
      <3>6. r[1] = i /\ q[1] = i /\ r[2] = log[m].number /\ q[2] = n /\ r[3] = q[3]
        OBVIOUS
      <3> QED BY <2>3, <3>4, <3>5, <3>6 DEF Repeated
    <2> QED BY <1>2, <2>4, <2>5
  <1> QED BY <1>2, <1>7, <1>8 DEF Tellings

-----------------------------------------------------------------------------
\* A step after which nothing is left to be told.
LEMMA EndKeepsTold ==
    ASSUME LogInv, ToldInv, RunInv', UNCHANGED <<disk, log, answers>>, todo' = {},
           pc' \in {"request", "await"} => pc \in {"request", "await"},
           lost \subseteq lost',
           \A i \in Opened(disk) \ lost' :
             Untold(disk, log, i) /\ ToBeTold(disk, answers, todo, i)
               => BlockedBy(disk, log, {}, i)
    PROVE  ToldInv'
  <1>1. ToldOrBlocked(disk, log, answers, todo, lost)
    BY RepairToldIs DEF ToldInv, LogInv
  <1>2. ToldOrBlocked(disk, log, answers, todo', lost')
    <2> SUFFICES ASSUME NEW i \in Opened(disk) \ lost', Untold(disk, log, i)
                 PROVE  BlockedBy(disk, log, {}, i)
      BY DEF ToldOrBlocked
    <2>1. ToBeTold(disk, answers, todo, i) \/ BlockedBy(disk, log, todo, i)
      BY <1>1 DEF ToldOrBlocked
    <2> QED BY <2>1, BlockedStays
  <1> QED BY <1>2, StillTold

\* A step that begins and ends with nothing to be told.
LEMMA RestKeepsTold ==
    ASSUME LogInv, ToldInv, RunInv', UNCHANGED <<disk, log, answers, lost>>,
           todo = {}, todo' = {},
           pc' \in {"request", "await"} => pc \in {"request", "await"}
    PROVE  ToldInv'
  BY EndKeepsTold, NothingToTell

\* So what ends an observation with the freeze keeps the invariant of the
\* answers, ...
LEMMA FreezeKeepsTold ==
    ASSUME LogInv, ToldInv, RunInv', IndexFrozen \/ IndexLoaded \/ IndexUnreadable
    PROVE  ToldInv'
  <1>1. /\ Due(FreezeEvent) /\ UNCHANGED <<disk, log, answers, lost>>
        /\ pc' = pc \/ pc' = "down"
        /\ todo' = {} \/ todo' = todo \ {FreezeEvent}
    BY DEF IndexFrozen, IndexLoaded, IndexUnreadable, Escapes, vars
  <1>2. todo = {FreezeEvent} /\ FreezeEvent.kind = "freeze"
    BY <1>1, AllTold DEF FreezeEvent, Event
  <1>3. todo' = {}
    BY <1>1, <1>2
  <1>4. \A i : ~ToBeTold(disk, answers, todo, i)
    <2> SUFFICES ASSUME NEW i, \E f \in todo : f.kind = "repair" PROVE FALSE
      BY DEF ToBeTold
    <2> QED BY <1>2
  <1> QED BY <1>1, <1>3, <1>4, EndKeepsTold

\* ... and every step does.
LEMMA ToldInvStep == LogInv /\ ToldInv /\ [SinkNext]_allVars => ToldInv'
  <1> SUFFICES ASSUME LogInv, ToldInv, [SinkNext]_allVars
               PROVE  ToldInv'
    OBVIOUS
  <1>1. RunInv' /\ RunInv /\ TodoIsMissing /\ Sound(disk)
    BY RunKept, LogFacts DEF LogInv
  <1>2. CASE EngineMoves
    <2>1. CASE disk' # disk
      BY <1>1, <1>2, <2>1, WriteKeepsAnswers, WriteKeepsRepairs, WriteKeepsBodies
         DEF ToldInv
    <2>2. CASE disk' = disk
      <3>1. /\ EngineStep /\ todo = {} /\ todo' = {} /\ log' = log /\ lost' = lost
        BY <1>2, <2>2 DEF EngineMoves
      <3>2. NewAnswers = {} /\ (pc' \in {"request", "await"} => pc = "request")
        BY <1>1, <2>2, <3>1, EngineRests
      <3>3. answers' = answers
        BY <1>2, <3>2 DEF EngineMoves
      <3> QED BY <1>1, <2>2, <3>1, <3>2, <3>3, RestKeepsTold
    <2> QED BY <2>1, <2>2
  <1>3. CASE Emit
    BY <1>1, <1>3, EmitKeepsAnswers DEF Emit
  <1>9. CASE IndexFrozen \/ IndexLoaded \/ IndexUnreadable
    BY <1>1, <1>9, FreezeKeepsTold
  <1>4. CASE EmitFails
    <2>1. /\ UNCHANGED <<disk, log, answers, lost>> /\ todo' = {} /\ pc' = "down"
      BY <1>4 DEF EmitFails, Escapes
    <2>2. PICK h \in todo : Conflicts(h) /\ Due(h)
      BY <1>4 DEF EmitFails
    <2>3. \A i \in Opened(disk) \ lost :
             Untold(disk, log, i) /\ ToBeTold(disk, answers, todo, i)
               => BlockedBy(disk, log, {}, i)
      BY <2>2, FailureBlocks
    <2> QED BY <1>1, <2>1, <2>3, EndKeepsTold
  <1>5. CASE ObserveReturned
    <2>1. /\ pc = "exited" /\ todo = {} /\ todo' = ToEmit(mem, log)
          /\ UNCHANGED <<disk, log, answers, lost, pc>>
      BY <1>5 DEF ObserveReturned, vars
    <2>2. mem = disk
      BY <1>1, <2>1 DEF TodoIsMissing
    <2>3. ToldOrBlocked(disk, log, answers, todo', lost')
      <3> SUFFICES ASSUME NEW i \in Opened(disk) \ lost, Untold(disk, log, i)
                   PROVE  BlockedBy(disk, log, todo', i)
        BY <2>1 DEF ToldOrBlocked
      <3>1. BlockedBy(disk, log, todo, i)
        BY <1>1, <2>1, RepairToldIs, NothingToTell DEF ToldInv, ToldOrBlocked
      <3> QED BY <1>1, <2>1, <2>2, <3>1, BlockedAgain
    <2> QED BY <1>1, <2>1, <2>3, StillTold
  <1>6. CASE LaunchSink
    <2>1. UNCHANGED <<disk, log, answers, lost>> /\ todo' = {}
      BY <1>6 DEF LaunchSink, Launch
    <2>2. pc' \notin {"request", "await"} /\ todo = {}
      BY <1>1, <1>6 DEF LaunchSink, Launch, TodoIsMissing
    <2> QED BY <1>1, <2>1, <2>2, RestKeepsTold
  <1>7. CASE CrashSink
    <2>1. /\ UNCHANGED <<disk, log, answers>> /\ todo' = {} /\ pc' = "down"
          /\ lost' = lost \cup {e.index : e \in {f \in todo : f.kind = "repair"}}
      BY <1>7 DEF CrashSink, Crash
    <2>2. \A i \in Opened(disk) \ lost' : ~ToBeTold(disk, answers, todo, i)
      <3> SUFFICES ASSUME NEW i, ToBeTold(disk, answers, todo, i) PROVE i \in lost'
        OBVIOUS
      <3>1. PICK e \in todo : e.kind = "repair" /\ e.index = i
        BY DEF ToBeTold
      <3> QED BY <2>1, <3>1
    <2>3. lost \subseteq lost'
      BY <2>1
    <2> QED BY <1>1, <2>1, <2>2, <2>3, EndKeepsTold
  <1>8. CASE TerminatedSink \/ PointerCreated \/ UNCHANGED allVars
    <2>1. UNCHANGED <<log, todo, answers, lost, disk, pc>>
      BY <1>8 DEF TerminatedSink, Terminated, PointerCreated, allVars, sinkVars, vars
    <2>2. ToldOrBlocked(disk, log, answers, todo', lost')
      BY <1>1, <2>1, RepairToldIs DEF ToldInv
    <2> QED BY <1>1, <2>1, <2>2, StillTold
  <1> QED BY <1>2, <1>3, <1>4, <1>5, <1>6, <1>7, <1>8, <1>9 DEF SinkNext, SinkStep

\* It holds initially.
LEMMA ToldInvInit == SinkInit => ToldInv
  <1> SUFFICES ASSUME SinkInit PROVE ToldInv
    OBVIOUS
  <1>1. /\ log = <<>> /\ Len(log) = 0 /\ 1 .. Len(log) = {} /\ answers = {}
        /\ pc = "down" /\ disk = NoState
    BY DEF SinkInit, Init
  <1>2. Opened(disk) = {}
    BY <1>1 DEF Opened, NoState, InitialState, NoOpportunity
  <1>3. AnswersAreKept /\ RepairIsTold
    BY <1>1, <1>2 DEF AnswersAreKept, RepairIsTold
  <1>4. BodiesAreTrue /\ ResponsesGrounded
    BY <1>1 DEF BodiesAreTrue, ResponsesGrounded
  <1> QED BY <1>3, <1>4 DEF ToldInv

\* The invariant of the sink is that of the log and that of the answers.
LEMMA SinkInvIs == SinkInv <=> LogInv /\ ToldInv
  BY DEF SinkInv, ToldInv

\* The invariant of the answers holds of every execution, too: whatever the sink
\* refuses and whenever the process is killed.
THEOREM SinkInvariant == SinkSpec => []SinkInv
  <1>1. SinkInit => SinkInv
    BY LogInvInit, ToldInvInit, SinkInvIs
  <1>2. SinkInv /\ [SinkNext]_allVars => LogInv' /\ ToldInv'
    BY LogInvStep, ToldInvStep, SinkInvIs
  <1>3. LogInv' /\ ToldInv' => SinkInv'
    BY SinkInvIs, PTL
  <1> QED BY <1>1, <1>2, <1>3, PTL DEF SinkSpec

\* A response is attributed to the provider attempt that brought it, unless a
\* crash cut off the observation of a repair of its opportunity.
THEOREM ResponsesAreGrounded == SinkSpec => []ResponsesGrounded
  <1>1. SinkInv => ResponsesGrounded
    BY DEF SinkInv
  <1> QED BY <1>1, SinkInvariant, PTL

\* The sink refuses a state of its own run in three cases only: a second repair,
\* a repeated answer, or a repair whose observation a crash cut off.
THEOREM RefusalsExplained == SinkSpec => []RefusalExplained
  <1>1. SinkInv => RefusalExplained
    BY RefusalIsExplained, SinkInvIs DEF RefusalExplained
  <1> QED BY <1>1, SinkInvariant, PTL

-----------------------------------------------------------------------------
\* Under its sink the engine takes its own steps, or is stopped where it stands.
LEMMA EngineOrStop ==
    ASSUME [SinkNext]_allVars
    PROVE  [Next]_vars \/ (disk' = disk /\ pc' = "down")
  <1>1. CASE EngineMoves
    BY <1>1 DEF EngineMoves, Next
  <1>2. CASE EmitFails \/ IndexUnreadable
    BY <1>2 DEF EmitFails, IndexUnreadable, Escapes
  <1>3. CASE LaunchSink
    BY <1>3 DEF LaunchSink, Next
  <1>4. CASE CrashSink
    BY <1>4 DEF CrashSink, Next
  <1>5. CASE Emit \/ Freezes \/ ObserveReturned \/ TerminatedSink \/ UNCHANGED allVars
    BY <1>5 DEF Emit, EmitEvent, Freezes, ObserveReturned, TerminatedSink, Terminated,
                allVars, IndexLoaded, PointerCreated, IndexFrozen
  <1> QED BY <1>1, <1>2, <1>3, <1>4, <1>5 DEF SinkNext, SinkStep, Freezes

\* The sink may stop the engine after any write and refuse its state on every
\* later launch; what the engine promises of the stored run holds all the same:
\* every write is a step of the protocol, or does not show in it.
THEOREM ObservedEngineIsAProtocol == SinkSpec => ImplementsProtocol
  <1>1. SinkInit => Protocol!Init
    <2> SUFFICES ASSUME SinkInit PROVE Protocol!Init
      OBVIOUS
    <2>1. /\ disk.status = "absent" /\ disk.seeded = FALSE
          /\ disk.terminal = <<>> /\ disk.ledger = EmptyLedger
      BY DEF SinkInit, Init, NoState, InitialState
    <2>2. PhaseOf(disk) = "unseeded" /\ OutcomesOf(disk) = <<>>
      BY <2>1 DEF PhaseOf, OutcomesOf
    <2> QED BY <2>1, <2>2
            DEF Protocol!Init, Protocol!Opportunities, Opportunities, EmptyLedger
  <1>2. LogInv /\ [SinkNext]_allVars => [Protocol!Next]_(Protocol!vars)
    <2> SUFFICES ASSUME LogInv, [SinkNext]_allVars
                 PROVE  [Protocol!Next]_(Protocol!vars)
      OBVIOUS
    <2>1. CASE [Next]_vars
      BY <2>1, StepOwes DEF Owed, LogInv, RunInv
    <2>2. CASE disk' = disk
      BY <2>2 DEF Protocol!vars, PhaseOf, OutcomesOf
    <2> QED BY <2>1, <2>2, EngineOrStop
  <1> QED BY <1>1, <1>2, LogInvariant, PTL DEF SinkSpec, ImplementsProtocol, Protocol!Spec

\* Nor does a refusal by the sink take back what was stored, ...
THEOREM ObservedRunMovesForward == SinkSpec => HistoryIsFinal
  <1>1. LogInv /\ [SinkNext]_allVars => [Forward(disk, disk')]_vars
    <2> SUFFICES ASSUME LogInv, [SinkNext]_allVars
                 PROVE  [Forward(disk, disk')]_vars
      OBVIOUS
    <2>1. CASE [Next]_vars
      BY <2>1, StepOwes DEF Owed, LogInv, RunInv
    <2>2. CASE disk' = disk
      <3>1. disk \in StateType
        BY LogFacts DEF Sound
      <3> QED BY <2>2, <3>1, StaysForward
    <2> QED BY <2>1, <2>2, EngineOrStop
  <1> QED BY <1>1, LogInvariant, PTL DEF SinkSpec, HistoryIsFinal

\* ... or have an attempt sent again when the run is launched once more.
THEOREM ObservedAttemptsOnce == SinkSpec => NeverReplayed
  <1>1. LogInv /\ [SinkNext]_allVars =>
          [pc = "request" /\ pc' = "await" =>
             <<mem.active.index, mem.active.attempts>> \notin requests]_vars
    BY DEF LogInv, RunInv, EngineInv, StoredInv, RequestIsNew, MemoryIsStored
  <1> QED BY <1>1, LogInvariant, PTL DEF SinkSpec, NeverReplayed

=============================================================================
