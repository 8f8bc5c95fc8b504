------------------------------ MODULE StudySink ------------------------------
(***************************************************************************)
(* ArtifactEmittingStudyEngine (artifacts/study_sink.py): the study engine *)
(* composed with the immutable event sink.  After every write of the run   *)
(* state, and once more when execute() returns, the sink observes the      *)
(* state: it derives the events that the whole state calls for and appends *)
(* those that the run's event store does not hold yet.  An event that the  *)
(* store holds under the same transition key with another payload is a     *)
(* conflict: StudyEventSinkError escapes execute().                        *)
(*                                                                         *)
(* `log' is the accepted event sequence of the run's store (EventStore     *)
(* shows how the store keeps it append-only), `todo' the events that the   *)
(* observation in progress still has to append, in the order Before,       *)
(* `frozen' the event count of the search_completion index (0: not         *)
(* frozen), `pointer' the file that names that index: created, then filled *)
(* by its creator, torn if that is killed in between.  `returned' tells    *)
(* whether the observation after execute() has begun.  Each append is a    *)
(* step, so the process may be killed between any two.                     *)
(*                                                                         *)
(* Abstracted: identifiers, token counts, scores and resources within a    *)
(* payload; object storage (content-addressed, so it cannot conflict); the *)
(* checks of an identity that never changes.                               *)
(***************************************************************************)
EXTENDS StudyEngine

CONSTANT Repeats      \* whether a provider may repeat an answer's text

ASSUME SinkAssumption == Repeats \in BOOLEAN

VARIABLES
    log,       \* accepted events of the run's store, oldest first
    todo,      \* set of the events the observation has yet to append
    frozen,    \* events under the search_completion index, 0 if not frozen
    pointer,   \* the pointer file: absent, filling, torn or whole
    returned,  \* execute()'s last observation has begun
    answers,   \* history: <<opportunity, attempt, text>> that was answered
    lost       \* history: opportunities a repair of which a crash left unobserved

sinkVars == <<log, todo, frozen, pointer, returned, answers, lost>>

allVars == <<vars, sinkVars>>

-----------------------------------------------------------------------------
Event(kind, index, number, body) ==
    [kind |-> kind, index |-> index, number |-> number, body |-> body]

\* _budget_totals: the counters of a ledger, without what they are counted from.
BudgetTotals(l) ==
    [f \in DOMAIN l \ {"active", "attempts", "repairs"} |->
        IF f = "sources" THEN Cardinality(l[f]) ELSE l[f]]

\* Mutant: all budget events share one key.
SameKey_OneBudget(e, f) ==
    e.kind = f.kind /\ e.index = f.index /\ e.number = f.number

\* Transition keys.  A budget event's key is the digest of its totals.
SameKey(e, f) ==
    /\ e.kind = f.kind /\ e.index = f.index /\ e.number = f.number
    /\ e.kind = "budget" => e.body = f.body

Response(text, parsed, tokens) ==
    [text |-> text, parsed |-> parsed, tokens |-> tokens]

\* Where the log has the given text as an unparsed response.
Matching(events, i, text) ==
    {k \in 1 .. Len(events) :
        LET e == events[k]
        IN e.kind = "response" /\ e.index = i /\ ~e.body.parsed /\ e.body.text = text}

\* The last attempt that has not brought the proposal.
Latest(a) == IF a.proposal = None THEN a.attempts ELSE a.attempts - 1

\* The attempt that the response kept for a repair is attributed to.
RepairedAttempt(a, events) ==
    LET matching == Matching(events, a.index, a.previous)
        last == CHOOSE k \in matching : \A j \in matching : j <= k
    IN IF Latest(a) > 0 /\ matching # {} THEN events[last].number ELSE Latest(a)

RepairEvents(a, events) ==
    LET attempt == RepairedAttempt(a, events)
        response == Event("response", a.index, attempt,
                          Response(a.previous, FALSE, FALSE))
        failed == IF attempt > 0 THEN attempt ELSE 1
    IN {response : r \in {n \in 1 .. a.repairs : attempt > 0}}
         \cup {Event("repair", a.index, r, failed) : r \in 1 .. a.repairs}

\* Mutant: the answer is always that of the first attempt.
ResponseEvents_First(a) ==
    IF a.proposal = None THEN {}
    ELSE {Event("response", a.index, 1,
                Response(a.proposal, a.proposal \in Sources, TRUE))}

ResponseEvents(a) ==
    IF a.proposal = None THEN {}
    ELSE {Event("response", a.index, a.attempts,
                Response(a.proposal, a.proposal \in Sources, TRUE))}

EvaluationEvents(i, outcome) ==
    {Event("training", i, 0, None), Event("evaluation", i, 0, outcome)}

CandidateEvents(a) ==
    (IF a.candidate = None THEN {} ELSE {Event("candidate", a.index, 0, a.candidate)})
      \cup (IF a.evaluation = None THEN {} ELSE EvaluationEvents(a.index, a.evaluation))

\* Mutant: an infrastructure failure leaves no event.
ClosingEvents_Silent(t) ==
    LET a == t.opportunity
    IN CASE t.outcome = "accepted" -> {Event("promotion", a.index, 0, a.candidate)}
         [] t.outcome \in {"invalid", "scientific_failure"} ->
              {Event("failure", a.index, 0, t.outcome)}
         [] OTHER -> {}

ClosingEvents(t) ==
    LET a == t.opportunity
    IN CASE t.outcome = "accepted" -> {Event("promotion", a.index, 0, a.candidate)}
         [] t.outcome = "rejected" -> {}
         [] OTHER -> {Event("failure", a.index, 0, t.outcome)}

AttemptEvents(a) ==
    {Event("attempt", a.index, n, None) : n \in 1 .. a.attempts}

\* _observe_opportunity.
OpportunityEvents(a, events) ==
    {Event("parents", a.index, 0, <<a.parents, a.transition>>)}
      \cup AttemptEvents(a) \cup RepairEvents(a, events)
      \cup ResponseEvents(a) \cup CandidateEvents(a)

\* The index of the events that come after those of every opportunity.
Final == ProposalOpportunities + 1

\* No event of the log: the freeze that comes after all of them.
FreezeEvent == Event("freeze", Final, 0, None)

FinalEvents(s) ==
    IF s.status = "completed"
      THEN {Event("completed", Final, 0, None), FreezeEvent}
      ELSE {}

\* The opportunities of a state that were opened, and what it says of one.
Opened(s) == 1 .. (Len(s.terminal) + (IF s.active.index = NoIndex THEN 0 ELSE 1))

Opportunity(s, i) ==
    IF i <= Len(s.terminal) THEN s.terminal[i].opportunity ELSE s.active

\* observe: what state s calls for, given the events already stored.
Expected(s, events) ==
    {Event("started", NoIndex, 0, None), Event("candidate", NoIndex, 0, Seed)}
      \cup (IF s.seeded THEN EvaluationEvents(NoIndex, None) ELSE {})
      \cup (UNION {OpportunityEvents(Opportunity(s, i), events) : i \in Opened(s)})
      \cup (UNION {ClosingEvents(s.terminal[i]) : i \in 1 .. Len(s.terminal)})
      \cup {Event("budget", Final, 0, BudgetTotals(s.ledger))}
      \cup FinalEvents(s)

\* Mutant: the evaluation is emitted before its candidate.
Place_Swapped(e) ==
    CASE e.kind \in {"started", "parents", "budget"} -> 0
      [] e.kind \in {"attempt", "completed"} -> 1
      [] e.kind = "response" -> IF e.body.tokens THEN 4 ELSE 2
      [] e.kind \in {"repair", "freeze"} -> 3
      [] e.kind = "evaluation" -> 5
      [] e.kind = "training" -> 6
      [] e.kind = "candidate" -> 7
      [] e.kind \in {"promotion", "failure"} -> 8

\* Where observe has an event, among those of its index.
Place(e) ==
    CASE e.kind \in {"started", "parents", "budget"} -> 0
      [] e.kind \in {"attempt", "completed"} -> 1
      [] e.kind = "response" -> IF e.body.tokens THEN 4 ELSE 2
      [] e.kind \in {"repair", "freeze"} -> 3
      [] e.kind = "candidate" -> 5
      [] e.kind = "training" -> 6
      [] e.kind = "evaluation" -> 7
      [] e.kind \in {"promotion", "failure"} -> 8

Before(e, f) ==
    \/ e.index < f.index
    \/ e.index = f.index /\ Place(e) < Place(f)
    \/ e.index = f.index /\ Place(e) = Place(f) /\ e.number < f.number

Kept(e, events) ==
    \E k \in 1 .. Len(events) : SameKey(events[k], e) /\ events[k].body = e.body

\* _emit returns the stored event if it is the expected one.
ToEmit(s, events) == {e \in Expected(s, events) : ~Kept(e, events)}

-----------------------------------------------------------------------------
SinkInit ==
    /\ Init
    /\ log = <<>>
    /\ todo = {}
    /\ frozen = 0
    /\ pointer = "absent"
    /\ returned = FALSE
    /\ answers = {}
    /\ lost = {}

\* The texts that this step takes from the provider and stores.
NewAnswers ==
    {text \in Texts :
        /\ pc = "await" /\ mem'.active.index = mem.active.index
        /\ \/ mem'.active.proposal = text
           \/ mem'.active.repairs # mem.active.repairs /\ mem'.active.previous = text}

NewText(text) ==
    \A n \in 1 .. ProviderAttempts : <<mem.active.index, n, text>> \notin answers

\* _persist stores the state, then observes it; the engine goes on when the
\* observation is over.
EngineMoves ==
    /\ todo = {}
    /\ EngineStep
    /\ answers' = answers \cup {<<mem.active.index, mem.active.attempts, text>> :
                                    text \in NewAnswers}
    /\ Repeats \/ \A text \in NewAnswers : NewText(text)
    /\ todo' = IF disk' # disk THEN ToEmit(disk', log) ELSE {}
    /\ UNCHANGED <<log, frozen, pointer, returned, lost>>

\* Mutant: a completed state that is loaded again is not observed.
ObserveReturned_Never ==
    /\ pc = "exited" /\ todo = {} /\ ~returned
    /\ returned' = TRUE
    /\ UNCHANGED <<vars, log, todo, frozen, pointer, answers, lost>>

\* execute() of the adapter: one more observation of the state returned.
ObserveReturned ==
    /\ pc = "exited" /\ todo = {} /\ ~returned
    /\ todo' = ToEmit(mem, log)
    /\ returned' = TRUE
    /\ UNCHANGED <<vars, log, frozen, pointer, answers, lost>>

Conflicts(e) == \E k \in 1 .. Len(log) : SameKey(log[k], e) /\ log[k].body # e.body

\* What the observation comes to next.
Due(e) == e \in todo /\ \A f \in todo : ~Before(f, e)

\* _emit appends the event.
EmitEvent(e) ==
    /\ Due(e) /\ ~Conflicts(e) /\ e # FreezeEvent
    /\ log' = Append(log, e)
    /\ todo' = todo \ {e}
    /\ UNCHANGED <<vars, frozen, pointer, returned, answers, lost>>

Emit == \E e \in todo : EmitEvent(e)

\* load_frozen_index finds the index of an earlier observation.
IndexLoaded ==
    /\ Due(FreezeEvent)
    /\ pointer = "whole"
    /\ todo' = todo \ {FreezeEvent}
    /\ UNCHANGED <<vars, log, frozen, pointer, returned, answers, lost>>

\* It finds no file: freeze_index stores the index of the log as it is, creates
\* the pointer, ...
PointerCreated ==
    /\ Due(FreezeEvent)
    /\ pointer = "absent"
    /\ pointer' = "filling"
    /\ UNCHANGED <<vars, log, todo, frozen, returned, answers, lost>>

\* ... and fills it.
IndexFrozen ==
    /\ Due(FreezeEvent)
    /\ pointer = "filling"
    /\ pointer' = "whole"
    /\ frozen' = Len(log)
    /\ todo' = todo \ {FreezeEvent}
    /\ UNCHANGED <<vars, log, returned, answers, lost>>

\* An exception out of the observation escapes execute().
Escapes ==
    /\ pc' = "down" /\ mem' = NoState /\ todo' = {} /\ returned' = FALSE
    /\ UNCHANGED <<markers, disk, result, launches, requests, trained,
                   log, frozen, pointer, answers, lost>>

\* StudyEventSinkError.
EmitFails == (\E e \in todo : Conflicts(e) /\ Due(e)) /\ Escapes

\* A pointer that a killed process did not fill is no JSON, now and later.
IndexUnreadable == Due(FreezeEvent) /\ pointer = "torn" /\ Escapes

LaunchSink ==
    /\ Launch
    /\ pc = "exited" => todo = {} /\ returned
    /\ todo' = {} /\ returned' = FALSE
    /\ UNCHANGED <<log, frozen, pointer, answers, lost>>

\* The process dies, perhaps in an observation.
CrashSink ==
    /\ \/ Crash
       \/ /\ pc = "exited" /\ ~(returned /\ todo = {})
          /\ launches < MaxLaunches
          /\ pc' = "down" /\ mem' = NoState
          /\ UNCHANGED <<markers, disk, result, launches, requests, trained>>
    /\ todo' = {} /\ returned' = FALSE
    /\ lost' = lost \cup {e.index : e \in {f \in todo : f.kind = "repair"}}
    /\ pointer' = IF pointer = "filling" THEN "torn" ELSE pointer
    /\ UNCHANGED <<log, frozen, answers>>

TerminatedSink ==
    /\ Terminated
    /\ pc = "exited" => todo = {} /\ returned
    /\ UNCHANGED sinkVars

SinkStep ==
    \/ Emit \/ EmitFails
    \/ IndexLoaded \/ PointerCreated \/ IndexFrozen \/ IndexUnreadable
    \/ ObserveReturned \/ EngineMoves

SinkNext == SinkStep \/ LaunchSink \/ CrashSink \/ TerminatedSink

SinkSpec == SinkInit /\ [][SinkNext]_allVars

\* As for the engine; and a run whose index is not frozen is launched again.
SinkFairSpec ==
    /\ SinkSpec
    /\ WF_allVars(SinkStep)
    /\ WF_allVars(LaunchSink /\ frozen = 0)

-----------------------------------------------------------------------------
Logged(kind, i, n) ==
    {k \in 1 .. Len(log) : log[k].kind = kind /\ log[k].index = i /\ log[k].number = n}

\* "The sink is idempotent across resume" (IMPLEMENTATION_CONTRACT.md), but
\* for three cases in which it refuses the state of its own run, all in an
\* opportunity with a repair: a second repair, whose earlier repair events come
\* out different; a provider that repeated an answer, so that the stored
\* response cannot be told from a newer one; and a repair whose observation a
\* crash cut off (_observe_repairs).
Explained(e) ==
    /\ e.kind \in {"repair", "response"}
    /\ \/ Opportunity(mem, e.index).repairs > 1
       \/ \E r, q \in answers : /\ r[1] = e.index /\ q[1] = e.index
                                /\ r[2] # q[2] /\ r[3] = q[3]
       \/ e.index \in lost

RefusalExplained == \A e \in todo : Conflicts(e) /\ Due(e) => Explained(e)

\* "Retains provider responses" (IMPLEMENTATION_CONTRACT.md).
ResponsesTrue ==
    \A k \in 1 .. Len(log) :
        log[k].kind = "response" =>
          <<log[k].index, log[k].number, log[k].body.text>> \in answers

\* An event that attributes a response to a provider attempt is true, unless a
\* crash cut off the observation of a repair of that opportunity.
ResponsesGrounded ==
    \A k \in 1 .. Len(log) :
        log[k].kind = "response" =>
          \/ <<log[k].index, log[k].number, log[k].body.text>> \in answers
          \/ log[k].index \in lost

\* Where an event may stand among those of its opportunity.
Rank(e) ==
    CASE e.kind = "parents" -> 0
      [] e.kind = "candidate" -> 2
      [] e.kind = "training" -> 3
      [] e.kind = "evaluation" -> 4
      [] e.kind \in {"promotion", "failure"} -> 5
      [] OTHER -> 1

\* The store tells the run in causal order, whatever was lost by a crash and
\* emitted on resume: an opportunity after the one before it, in the order
\* parents, attempts and answers, candidate, training, evaluation, closing;
\* attempts are numbered without a gap and precede their responses.  And a
\* request leaves the process only after the store holds its attempt.
CausallyOrdered ==
    /\ \A r \in requests : Logged("attempt", r[1], r[2]) # {}
    /\ \A k \in 1 .. Len(log) : log[k].index \in Opportunities =>
         \A j \in 1 .. (k - 1) : log[j].index \in Opportunities =>
           \/ log[j].index < log[k].index
           \/ log[j].index = log[k].index /\ Rank(log[j]) <= Rank(log[k])
    /\ \A k \in 1 .. Len(log) :
         /\ log[k].kind \in {"response", "attempt"} /\ log[k].number > 1 =>
              \E j \in Logged("attempt", log[k].index, log[k].number - 1) : j < k
         /\ log[k].kind = "response" =>
              \E j \in Logged("attempt", log[k].index, log[k].number) : j < k

\* The frozen search_completion index covers the whole history of the run, and
\* that history says of every opportunity what the run state says.
CompletedMirrored ==
    frozen # 0 =>
      /\ frozen = Len(log) /\ disk.status = "completed"
      /\ log[frozen].kind = "completed"
      /\ \E k \in 1 .. Len(log) :
            log[k].kind = "budget" /\ log[k].body = BudgetTotals(disk.ledger)
      /\ \A i \in 1 .. Len(disk.terminal) :
           LET r == disk.terminal[i]
               a == r.opportunity
           IN /\ {n \in 1 .. ProviderAttempts : Logged("attempt", i, n) # {}}
                   = 1 .. a.attempts
              /\ Logged("candidate", i, 0) # {} <=> a.candidate # None
              /\ \A k \in Logged("evaluation", i, 0) : log[k].body = a.evaluation
              /\ Logged("evaluation", i, 0) = {} <=> a.evaluation = None
              /\ Logged("promotion", i, 0) # {} <=> r.outcome = "accepted"
              /\ Logged("failure", i, 0) # {} <=>
                   r.outcome \notin {"accepted", "rejected"}

-----------------------------------------------------------------------------
\* What a state admits an event to be, by its kind: the events that it calls
\* for whatever is stored, and the form of the others.
Called(e, s) ==
    LET i == e.index
        a == Opportunity(s, i)
        Is(number, body) == e = Event(e.kind, i, number, body)
    IN /\ e.kind \in {"started", "parents", "attempt", "repair", "response",
                      "candidate", "training", "evaluation", "promotion",
                      "failure", "budget", "completed"}
       /\ e.kind = "started" => i = NoIndex /\ Is(0, None)
       /\ e.kind = "parents" =>
            i \in Opened(s) /\ Is(0, <<a.parents, a.transition>>)
       /\ e.kind = "attempt" =>
            i \in Opened(s) /\ e.number \in 1 .. a.attempts /\ Is(e.number, None)
       /\ e.kind = "repair" =>
            i \in Opened(s) /\ e.number \in 1 .. a.repairs /\ Is(e.number, e.body)
       /\ e.kind = "response" =>
            /\ i \in Opened(s) /\ e.number \in 1 .. a.attempts
            /\ Is(e.number, Response(e.body.text, e.body.parsed, e.body.tokens))
       /\ e.kind = "candidate" =>
            \/ i = NoIndex /\ Is(0, Seed)
            \/ i \in Opened(s) /\ a.candidate # None /\ Is(0, a.candidate)
       /\ e.kind = "training" =>
            /\ \/ i = NoIndex /\ s.seeded
               \/ i \in Opened(s) /\ a.evaluation # None
            /\ Is(0, None)
       /\ e.kind = "evaluation" =>
            \/ i = NoIndex /\ s.seeded /\ Is(0, None)
            \/ i \in Opened(s) /\ a.evaluation # None /\ Is(0, a.evaluation)
       /\ e.kind = "promotion" =>
            /\ i \in 1 .. Len(s.terminal) /\ s.terminal[i].outcome = "accepted"
            /\ Is(0, a.candidate)
       /\ e.kind = "failure" =>
            /\ i \in 1 .. Len(s.terminal)
            /\ s.terminal[i].outcome \notin {"accepted", "rejected"}
            /\ Is(0, s.terminal[i].outcome)
       /\ e.kind = "budget" => i = Final /\ Is(0, e.body)
       /\ e.kind = "completed" => s.status = "completed" /\ i = Final /\ Is(0, None)

KeyLogged(e) == \E k \in 1 .. Len(log) : SameKey(log[k], e)

\* The log holds what the stored state calls for, once, and ends with completion.
LogIsCalled ==
    /\ log \in Seq(Range(log))
    /\ \A k \in 1 .. Len(log) : Called(log[k], disk)
    /\ \A j, k \in 1 .. Len(log) : SameKey(log[j], log[k]) => j = k
    /\ \A k \in 1 .. Len(log) : log[k].kind = "completed" => k = Len(log)
    /\ disk.status = "absent" => log = <<>>

\* An observation is of the stored state: what is still to be appended is
\* called for, and nothing else is missing.
TodoIsMissing ==
    /\ todo # {} => mem = disk /\ pc \in {"running", "request", "exited"}
    /\ pc = "exited" => mem = disk /\ disk.status = "completed"
    /\ \A e \in todo : e \in Expected(disk, log) /\ ~Kept(e, log)
    /\ todo # {} => \A e \in Expected(disk, log) :
                      e = FreezeEvent \/ e \in todo \/ KeyLogged(e)

RankOfAll(e) == CASE e.kind = "budget" -> 6
                  [] e.kind = "completed" -> 7
                  [] e.kind = "freeze" -> 8
                  [] OTHER -> Rank(e)

Earlier(e, f) ==
    e.index < f.index \/ (e.index = f.index /\ RankOfAll(e) < RankOfAll(f))

\* Whatever is called for before something that is logged has been told under
\* its key, and can only be kept or refused: the log is not filled in later.
ToldBefore ==
    \A k \in 1 .. Len(log) : \A e \in Expected(disk, log) :
        /\ Earlier(e, log[k])
        /\ log[k].kind = "completed" \/ (log[k].kind # "budget" /\ e.index # NoIndex)
        => KeyLogged(e)

\* An attempt is counted in the log, and waits for its answer.
AttemptIsTold ==
    LET a == disk.active
        e == Event("attempt", a.index, a.attempts, None)
    IN /\ pc \in {"request", "await"} => e \in todo \/ KeyLogged(e)
       /\ pc = "await" => KeyLogged(e)

\* The inductive invariant behind CausallyOrdered and CompletedMirrored.
LogInv ==
    /\ RunInv
    /\ LogIsCalled
    /\ TodoIsMissing
    /\ ToldBefore
    /\ AttemptIsTold
    /\ CausallyOrdered
    /\ CompletedMirrored

\* What was answered is of an attempt of the stored state, one answer each,
\* and the state keeps the answers it works with.
AnswersAreKept ==
    /\ answers \subseteq Opportunities \X (1 .. ProviderAttempts) \X Texts
    /\ \A r \in answers : /\ r[1] \in Opened(disk)
                          /\ r[2] <= Opportunity(disk, r[1]).attempts
    /\ \A q, r \in answers : q[1] = r[1] /\ q[2] = r[2] => q = r
    /\ \A i \in Opened(disk) :
         LET a == Opportunity(disk, i)
         IN /\ a.proposal # None => <<i, a.attempts, a.proposal>> \in answers
            /\ a.repairs > 0 =>
                 /\ a.previous \in Garbage
                 /\ \E n \in 1 .. Latest(a) : <<i, n, a.previous>> \in answers
    /\ pc \in {"request", "await"} =>
         \A r \in answers : r[1] # disk.active.index \/ r[2] < disk.active.attempts

\* The sink cannot come to opportunity i: it refuses an earlier one.
Blocked(i) ==
    \E j \in 1 .. (i - 1) :
      LET a == Opportunity(disk, j)
      IN \E e \in RepairEvents(a, log) \cup ResponseEvents(a) :
           Conflicts(e) /\ (todo = {} \/ e \in todo)

\* The response kept for a repair is logged, or is about to be, for the attempt
\* that brought it; else a crash cut off its observation or it is never logged.
RepairIsTold ==
    \A i \in Opened(disk) \ lost :
      LET a == Opportunity(disk, i)
      IN a.repairs > 0 /\ Matching(log, i, a.previous) = {} =>
           \/ /\ <<i, Latest(a), a.previous>> \in answers
              /\ Event("response", i, Latest(a),
                       Response(a.previous, FALSE, FALSE)) \in todo
              /\ \E e \in todo : e.kind = "repair" /\ e.index = i
           \/ Blocked(i)

\* The logged responses and repairs of an opportunity with one repair.
BodiesAreTrue ==
    \A k \in 1 .. Len(log) :
      LET e == log[k]
          a == Opportunity(disk, e.index)
      IN /\ e.kind = "response" =>
              /\ e.body.text \in Texts /\ e.body.tokens \in BOOLEAN
              /\ e.body.parsed = (e.body.text \in Sources)
              /\ e.body.tokens => e.number = a.attempts /\ e.body.text = a.proposal
              /\ ~e.body.tokens =>
                   a.repairs > 0 /\ (a.repairs = 1 => e.body.text = a.previous)
         /\ e.kind = "repair" /\ a.repairs = 1 /\ e.index \notin lost =>
              \E m \in Matching(log, e.index, a.previous) : log[m].number = e.body

\* The inductive invariant behind ResponsesGrounded and RefusalExplained too.
SinkInv ==
    /\ LogInv
    /\ AnswersAreKept
    /\ RepairIsTold
    /\ BodiesAreTrue
    /\ ResponsesGrounded

\* A run that is launched again after a crash freezes its search_completion
\* index, unless a crash quarantined its directory or left the pointer to the
\* index unfilled, the sink refuses its state, or the ledger has no room for
\* what is left to do.
MirrorSettles ==
    LET pending == ToEmit(disk, log)
        Refused == \E e \in pending : Conflicts(e)
    IN <>[](\/ frozen # 0
            \/ \E m \in DOMAIN markers : markers[m] = "torn"
            \/ pointer = "torn"
            \/ pc = "down" /\ (NoRoom(disk.ledger) \/ Refused))
=============================================================================
