---------------------------- MODULE BudgetLedger ----------------------------
(***************************************************************************)
(* The budget ledger of one study run: the frozen ceilings (BudgetSpec)    *)
(* and the recorded actuals (BudgetLedger) of study/budget.py, as values   *)
(* and pure operators over them.                                           *)
(*                                                                         *)
(* The code raises BudgetExceeded or OpportunityStateError from the method *)
(* that updates a counter.  Here every recording method is two operators:  *)
(* the one that says whether the method returns (Can...), and the one that *)
(* gives the ledger it leaves.                                             *)
(*                                                                         *)
(* Abstracted: prompt and completion tokens are one counter, and the five  *)
(* ceilings that one evaluation charges (training attempts, steps,         *)
(* examples, accelerator seconds, evaluation cases) are the one counter    *)
(* `training'.  Each group is charged by one call, in one order, with one  *)
(* way to fail.  Accelerator kinds and the legacy v1 schema are left out.  *)
(***************************************************************************)
EXTENDS Naturals, FiniteSets, Functions

CONSTANTS
    ProposalOpportunities,   \* frozen number of proposal opportunities
    ProviderAttempts,        \* ceiling of provider attempts, per opportunity
    RepairsPerOpportunity,   \* ceiling of repairs, per opportunity
    RepairCeiling,           \* ceiling of repairs, whole run
    RetryCeiling,            \* ceiling of infrastructure retries, whole run
    TokenCeiling,            \* ceiling of provider tokens, whole run
    TrainingCeiling,         \* ceiling of training, whole run
    Unknown                  \* the usage of a response that reports none

\* BudgetSpec.__post_init__: non-negative integers, at least one attempt.
ASSUME BudgetAssumption ==
    /\ ProposalOpportunities \in Nat
    /\ ProviderAttempts \in Nat \ {0}
    /\ RepairsPerOpportunity \in Nat
    /\ RepairCeiling \in Nat
    /\ RetryCeiling \in Nat
    /\ TokenCeiling \in Nat
    /\ TrainingCeiling \in Nat
    /\ Unknown \notin Nat

Opportunities == 1 .. ProposalOpportunities

Outcomes == {"accepted", "rejected", "invalid", "scientific_failure",
             "infrastructure_failure"}

\* Opportunity numbers start at 1: 0 stands for "no active opportunity".
NoIndex == 0

EmptyLedger ==
    [ seed_evaluations |-> 0,
      proposals        |-> 0,
      attempts_total   |-> 0,
      attempts         |-> [i \in Opportunities |-> 0],
      tokens           |-> 0,
      unknown_usage    |-> 0,
      parse_failures   |-> 0,
      sources          |-> {},
      training         |-> 0,
      repairs_total    |-> 0,
      repairs          |-> [i \in Opportunities |-> 0],
      retries          |-> 0,
      outcomes         |-> [o \in Outcomes |-> 0],
      active           |-> NoIndex ]

\* Every value a ledger field may hold; Source is the set of source hashes.
LedgerType(Source) ==
    [ seed_evaluations : Nat, proposals : Nat, attempts_total : Nat,
      attempts : [Opportunities -> Nat], tokens : Nat, unknown_usage : Nat,
      parse_failures : Nat, sources : SUBSET Source, training : Nat,
      repairs_total : Nat, repairs : [Opportunities -> Nat], retries : Nat,
      outcomes : [Outcomes -> Nat], active : Opportunities \cup {NoIndex} ]

TerminalCount(l) ==
    l.outcomes["accepted"] + l.outcomes["rejected"] + l.outcomes["invalid"]
      + l.outcomes["scientific_failure"] + l.outcomes["infrastructure_failure"]

-----------------------------------------------------------------------------
\* The seed is evaluated once, before every proposal.
CanRecordSeed(l, training, retries) ==
    /\ l.active = NoIndex /\ l.proposals = 0
    /\ l.seed_evaluations = 0
    /\ l.training + training <= TrainingCeiling
    /\ l.retries + retries <= RetryCeiling

RecordSeed(l, training, retries) ==
    [l EXCEPT !.seed_evaluations = @ + 1,
              !.training = @ + training,
              !.retries = @ + retries]

CanBegin(l, i) ==
    /\ l.seed_evaluations = 1
    /\ l.active = NoIndex
    /\ i = l.proposals + 1
    /\ l.proposals < ProposalOpportunities

Begin(l, i) == [l EXCEPT !.proposals = @ + 1, !.active = i]

CanStartAttempt(l) ==
    l.active # NoIndex /\ l.attempts[l.active] < ProviderAttempts

StartAttempt(l) ==
    [l EXCEPT !.attempts_total = @ + 1, !.attempts[l.active] = @ + 1]

CanRecordUsage(l, usage) ==
    l.active # NoIndex /\ (usage # Unknown => l.tokens + usage <= TokenCeiling)

RecordUsage(l, usage) ==
    IF usage = Unknown THEN [l EXCEPT !.unknown_usage = @ + 1]
                       ELSE [l EXCEPT !.tokens = @ + usage]

RecordParseFailure(l) == [l EXCEPT !.parse_failures = @ + 1]

RecordSource(l, source) == [l EXCEPT !.sources = @ \cup {source}]

CanRepair(l) ==
    /\ l.repairs[l.active] < RepairsPerOpportunity
    /\ l.repairs_total < RepairCeiling

RecordRepair(l) ==
    [l EXCEPT !.repairs_total = @ + 1, !.repairs[l.active] = @ + 1]

CanRetry(l) == l.retries < RetryCeiling

RecordRetry(l) == [l EXCEPT !.retries = @ + 1]

CanRecordEvaluation(l, training, retries) ==
    /\ l.training + training <= TrainingCeiling
    /\ l.retries + retries <= RetryCeiling

\* Mutant: the training of a candidate is not added.
RecordEvaluation_Untrained(l, training, retries) ==
    [l EXCEPT !.retries = @ + retries]

RecordEvaluation(l, training, retries) ==
    [l EXCEPT !.training = @ + training, !.retries = @ + retries]

FinishOpportunity(l, outcome) ==
    [l EXCEPT !.outcomes[outcome] = @ + 1, !.active = NoIndex]

-----------------------------------------------------------------------------
\* BudgetLedger.validate: what from_dict demands of a stored ledger.
ValidLedger(l) ==
    /\ l.seed_evaluations <= 1
    /\ l.proposals <= ProposalOpportunities
    /\ TerminalCount(l) <= l.proposals
    /\ IF l.active # NoIndex THEN l.active = TerminalCount(l) + 1
                             ELSE TerminalCount(l) = l.proposals
    /\ l.tokens <= TokenCeiling
    /\ l.training <= TrainingCeiling
    /\ l.repairs_total <= RepairCeiling
    /\ l.retries <= RetryCeiling
    /\ l.attempts_total = SumFunction(l.attempts)
    /\ \A i \in Opportunities : l.attempts[i] <= ProviderAttempts
    /\ l.repairs_total = SumFunction(l.repairs)
    /\ \A i \in Opportunities : l.repairs[i] <= RepairsPerOpportunity

=============================================================================
