--------------------------- MODULE SealedRelease ---------------------------
(***************************************************************************)
(* Sealed evaluation after a search (sealed_eval/orchestration.py,         *)
(* confirmation.py, evaluation/artifacts.py): qualify() freezes a snapshot *)
(* of the candidates and judges each (Layer B); confirm_once() spends a    *)
(* release, confirms its candidate (Layer C) and freezes the final index.  *)
(*                                                                         *)
(* Callers are processes that share the directories and nothing else: no   *)
(* lock spans a call.  What orders them is that every file is created with *)
(* O_EXCL (the markers and the pointer, torn until they are filled) or     *)
(* linked into place whole (the records).  Any of them may be killed       *)
(* between two steps; its restart is a new call, and calls are not         *)
(* counted, so that a failed one may be retried for ever.                  *)
(*                                                                         *)
(* pc: idle; snapshot, record, event, batch (qualify); consume, fill,      *)
(* build, verdict, write, append (confirm_once); scan, point, seal         *)
(* (freeze_index).                                                         *)
(*                                                                         *)
(* Abstracted: plans, policies, tokens and hashes, which the caller gets   *)
(* right; measurements, which it brings along, by the verdict they lead    *)
(* to; the ledger's append, one step here (EventStore has its steps).      *)
(* The ledger starts at the frozen end of the search.  Callers hand to     *)
(* confirm_once only what a qualify() returned.                            *)
(***************************************************************************)
EXTENDS Naturals, FiniteSets, Sequences

CONSTANTS
    Callers,
    Authorizations,     \* qualification authorizations, each of all candidates
    Releases,           \* release manifests
    Candidates,         \* a number: candidates are 1 .. Candidates
    None,
    Torn                \* a file that was created and not filled

Verdicts == {"yes", "no"}

ASSUME SealedAssumption ==
    /\ Candidates \in Nat \ {0}
    /\ None \notin Callers \union Releases \union Verdicts
    /\ Torn \notin Verdicts /\ None # Torn

VARIABLES
    target,         \* what each release manifest names: authorization, candidate
    ledger,         \* the run's events since the search
    snapshots,      \* Layer B: authorizations whose snapshot is on disk
    qualification,  \* Layer B: the record of each authorization and candidate
    marker,         \* release_consumed: [by, file], the file absent, torn or whole
    completion,     \* release_completed: None, Torn or the verdict
    confirmation,   \* Layer C: the record of each release
    pointer,        \* the final index: [file, events], events of a whole one
    pc,
    job,            \* what a call works on
    batches,        \* authorizations whose qualify() returned
    returned        \* history: releases whose confirm_once() returned

vars == <<target, ledger, snapshots, qualification, marker, completion,
          confirmation, pointer, pc, job, batches, returned>>

layerB == <<snapshots, qualification, batches>>
layerC == <<marker, completion, confirmation>>

Targets == [authorization : Authorizations, candidate : 1 .. Candidates]
NoJob == [id |-> None, at |-> 0, verdict |-> None, seen |-> <<>>]

Goto(c, from, to) == pc[c] = from /\ pc' = [pc EXCEPT ![c] = to]

\* Return, or an exception: nothing of the call is left but its files.
Leave(c, from) ==
    /\ Goto(c, from, "idle")
    /\ job' = [job EXCEPT ![c] = NoJob]

QualificationEvent(a, k, v) == [kind |-> "qualification", id |-> a, candidate |-> k,
                                verdict |-> v]
ConfirmationEvent(r, v) == [kind |-> "confirmation", id |-> r,
                            candidate |-> target[r].candidate, verdict |-> v]

-----------------------------------------------------------------------------
Init ==
    /\ target \in [Releases -> Targets]
    /\ ledger = <<>>
    /\ snapshots = {}
    /\ qualification = [a \in Authorizations |-> [k \in 1 .. Candidates |-> None]]
    /\ marker = [r \in Releases |-> [by |-> None, file |-> "absent"]]
    /\ completion = [r \in Releases |-> None]
    /\ confirmation = [r \in Releases |-> None]
    /\ pointer = [file |-> "absent", events |-> <<>>]
    /\ pc = [c \in Callers |-> "idle"]
    /\ job = [c \in Callers |-> NoJob]
    /\ batches = {}
    /\ returned = {}

\* Somebody calls qualify(), perhaps again.
Qualify(c, a) ==
    /\ Goto(c, "idle", "snapshot")
    /\ job' = [job EXCEPT ![c] = [NoJob EXCEPT !.id = a, !.at = 1]]
    /\ UNCHANGED <<target, ledger, layerB, layerC, pointer, returned>>

\* freeze_authorized_snapshot: a second snapshot of an authorization is
\* FileExistsError, before any candidate is judged.
Snapshot(c) ==
    LET a == job[c].id IN
    /\ \/ /\ a \notin snapshots
          /\ Goto(c, "snapshot", "record")
          /\ snapshots' = snapshots \union {a}
          /\ UNCHANGED job
       \/ /\ a \in snapshots
          /\ Leave(c, "snapshot")
          /\ UNCHANGED snapshots
    /\ UNCHANGED <<target, ledger, qualification, batches, layerC, pointer, returned>>

\* The record of one candidate, as its measurements have it.
Judge(c) ==
    LET a == job[c].id
        k == job[c].at IN
    /\ Goto(c, "record", "event")
    /\ qualification[a][k] = None
    /\ \E v \in Verdicts :
          /\ qualification' = [qualification EXCEPT ![a][k] = v]
          /\ job' = [job EXCEPT ![c].verdict = v]
    /\ UNCHANGED <<target, ledger, snapshots, batches, layerC, pointer, returned>>

\* Its event, then the next candidate.
AppendQualification(c) ==
    LET k == job[c].at IN
    /\ Goto(c, "event", IF k = Candidates THEN "batch" ELSE "record")
    /\ ledger' = Append(ledger, QualificationEvent(job[c].id, k, job[c].verdict))
    /\ job' = [job EXCEPT ![c].at = k + 1, ![c].verdict = None]
    /\ UNCHANGED <<target, layerB, layerC, pointer, returned>>

ReturnBatch(c) ==
    /\ Leave(c, "batch")
    /\ batches' = batches \union {job[c].id}
    /\ UNCHANGED <<target, ledger, snapshots, qualification, layerC, pointer, returned>>

-----------------------------------------------------------------------------
\* authorize_once, its checks: the release names a qualified candidate.
Releasable(r) ==
    /\ target[r].authorization \in batches
    /\ qualification[target[r].authorization][target[r].candidate] = "yes"

Confirm(c, r) ==
    /\ Releasable(r)
    /\ Goto(c, "idle", "consume")
    /\ job' = [job EXCEPT ![c] = [NoJob EXCEPT !.id = r]]
    /\ UNCHANGED <<target, ledger, layerB, layerC, pointer, returned>>

\* Mutant: the marker is opened without O_EXCL.
Unspent_Shared(r) == TRUE

\* open(O_CREAT | O_EXCL) of the consumption marker succeeds.
Unspent(r) == marker[r].file = "absent"

Consume(c) ==
    LET r == job[c].id IN
    /\ \/ /\ Goto(c, "consume", "fill")
          /\ Unspent(r)
          /\ marker' = [marker EXCEPT ![r] = [by |-> c, file |-> "torn"]]
          /\ UNCHANGED job
       \/ /\ Leave(c, "consume")
          /\ ~Unspent(r)
          /\ UNCHANGED marker
    /\ UNCHANGED <<target, ledger, layerB, completion, confirmation, pointer, returned>>

FillMarker(c) ==
    /\ Goto(c, "fill", "build")
    /\ marker' = [marker EXCEPT ![job[c].id] = [by |-> c, file |-> "whole"]]
    /\ UNCHANGED <<target, ledger, layerB, completion, confirmation, pointer, job, returned>>

\* build_confirmation_record: the marker must be the one of this receipt, and
\* the completion marker is created by one call only.
Build(c) ==
    LET r == job[c].id IN
    /\ Goto(c, "build", "verdict")
    /\ marker[r] = [by |-> c, file |-> "whole"]
    /\ completion[r] = None
    /\ completion' = [completion EXCEPT ![r] = Torn]
    /\ \E v \in Verdicts : job' = [job EXCEPT ![c].verdict = v]
    /\ UNCHANGED <<target, ledger, layerB, marker, confirmation, pointer, returned>>

FillCompletion(c) ==
    /\ Goto(c, "verdict", "write")
    /\ completion' = [completion EXCEPT ![job[c].id] = job[c].verdict]
    /\ UNCHANGED <<target, ledger, layerB, marker, confirmation, pointer, job, returned>>

WriteConfirmation(c) ==
    LET r == job[c].id IN
    /\ Goto(c, "write", "append")
    /\ confirmation[r] = None
    /\ confirmation' = [confirmation EXCEPT ![r] = job[c].verdict]
    /\ UNCHANGED <<target, ledger, layerB, marker, completion, pointer, job, returned>>

AppendConfirmation(c) ==
    /\ Goto(c, "append", "scan")
    /\ ledger' = Append(ledger, ConfirmationEvent(job[c].id, job[c].verdict))
    /\ UNCHANGED <<target, layerB, layerC, pointer, job, returned>>

-----------------------------------------------------------------------------
\* Somebody calls freeze_final_index() of the event sink.
FreezeFinal(c) ==
    /\ Goto(c, "idle", "scan")
    /\ UNCHANGED <<target, ledger, layerB, layerC, pointer, job, returned>>

\* freeze_index: the index of what a scan returns ...
BuildIndex(c) ==
    /\ Goto(c, "scan", "point")
    /\ job' = [job EXCEPT ![c].seen = ledger]
    /\ UNCHANGED <<target, ledger, layerB, layerC, pointer, returned>>

\* Mutant: an index that is frozen already will do.
SameHead_Any(seen) == pointer.file = "whole"

\* An existing pointer is accepted if its bytes are the expected ones.
SameHead(seen) == pointer = [file |-> "whole", events |-> seen]

\* ... and the pointer to it, for good.
Point(c) ==
    /\ \/ /\ pointer.file = "absent"
          /\ Goto(c, "point", "seal")
          /\ pointer' = [file |-> "torn", events |-> <<>>]
          /\ UNCHANGED <<job, returned>>
       \/ /\ pointer.file # "absent" /\ SameHead(job[c].seen)
          /\ Leave(c, "point")
          /\ returned' = returned \union ({job[c].id} \ {None})
          /\ UNCHANGED pointer
       \/ /\ pointer.file # "absent" /\ ~SameHead(job[c].seen)
          /\ Leave(c, "point")
          /\ UNCHANGED <<pointer, returned>>
    /\ UNCHANGED <<target, ledger, layerB, layerC>>

Seal(c) ==
    /\ Leave(c, "seal")
    /\ pointer' = [file |-> "whole", events |-> job[c].seen]
    /\ returned' = returned \union ({job[c].id} \ {None})
    /\ UNCHANGED <<target, ledger, layerB, layerC>>

\* The process dies between two steps, or a write raises OSError, or Judge,
\* Build or WriteConfirmation finds its file there already and raises.
Crash(c) ==
    /\ pc[c] # "idle"
    /\ Leave(c, pc[c])
    /\ UNCHANGED <<target, ledger, layerB, layerC, pointer, returned>>

Step(c) ==
    \/ Snapshot(c) \/ Judge(c) \/ AppendQualification(c) \/ ReturnBatch(c)
    \/ Consume(c) \/ FillMarker(c) \/ Build(c) \/ FillCompletion(c)
    \/ WriteConfirmation(c) \/ AppendConfirmation(c)
    \/ BuildIndex(c) \/ Point(c) \/ Seal(c)

Next ==
    \E c \in Callers :
        \/ \E a \in Authorizations : Qualify(c, a)
        \/ \E r \in Releases : Confirm(c, r)
        \/ FreezeFinal(c)
        \/ Step(c)
        \/ Crash(c)

Spec == Init /\ [][Next]_vars

-----------------------------------------------------------------------------
(* Properties *)

EventOf(r, events) ==
    \E i \in 1 .. Len(events) : events[i].kind = "confirmation" /\ events[i].id = r

\* A confirmation in the ledger is the one its release was spent on, its
\* record and its completion marker say the same, and no second one follows,
\* whatever calls were killed or ran at the same time.
OneVerdict ==
    \A i \in 1 .. Len(ledger) :
        ledger[i].kind = "confirmation" =>
            /\ ledger[i].verdict = confirmation[ledger[i].id]
            /\ ledger[i].verdict = completion[ledger[i].id]
            /\ marker[ledger[i].id].file = "whole"
            /\ \A j \in 1 .. Len(ledger) :
                  ledger[j].kind = "confirmation" /\ ledger[j].id = ledger[i].id => j = i

\* Only a candidate whose qualification is in the ledger is ever confirmed.
QualifiedFirst ==
    \A i \in 1 .. Len(ledger) :
        ledger[i].kind = "confirmation" =>
            \E j \in 1 .. (i - 1) :
                ledger[j] = QualificationEvent(target[ledger[i].id].authorization,
                                               ledger[i].candidate, "yes")

\* A confirm_once() that returned is covered by the final index, for good: one
\* that comes after the index was frozen does not return.
ReturnedIsIndexed ==
    \A r \in returned : pointer.file = "whole" /\ EventOf(r, pointer.events)

\* What a reader of the run may rely on about its confirmations.
Confirmed == OneVerdict /\ QualifiedFirst /\ ReturnedIsIndexed

\* The layer as its promise sees it: the marker is the spending, the event of
\* the ledger the verdict, and the pointer what is covered.
OneShotView == INSTANCE OneShot WITH
    spender <- [r \in Releases |-> marker[r].by],
    verdict <- [r \in Releases |-> IF EventOf(r, ledger) THEN confirmation[r] ELSE None],
    covered <- IF pointer.file # "whole" THEN None
               ELSE [r \in Releases |->
                        IF EventOf(r, pointer.events) THEN confirmation[r] ELSE None]

\* Releases are spent by one call, which alone may decide, once; the final
\* index is frozen once and covers what was decided (orchestration.py,
\* confirmation.py).
ImplementsOneShot == OneShotView!ShotSpec

-----------------------------------------------------------------------------
(* The inductive invariant. *)

Events ==
    [kind : {"qualification"}, id : Authorizations, candidate : 1 .. Candidates,
     verdict : Verdicts]
    \union [kind : {"confirmation"}, id : Releases, candidate : 1 .. Candidates,
            verdict : Verdicts]

Qualifying == {"snapshot", "record", "event", "batch"}
Spending == {"fill", "build", "verdict", "write", "append"}
Freezing == {"scan", "point", "seal"}

TypeOK ==
    /\ target \in [Releases -> Targets]
    /\ ledger \in Seq(Events)
    /\ snapshots \subseteq Authorizations /\ batches \subseteq Authorizations
    /\ qualification \in [Authorizations -> [1 .. Candidates -> Verdicts \union {None}]]
    /\ marker \in [Releases -> [by : Callers \union {None}, file : {"absent", "torn", "whole"}]]
    /\ completion \in [Releases -> Verdicts \union {None, Torn}]
    /\ confirmation \in [Releases -> Verdicts \union {None}]
    /\ pointer \in [file : {"absent", "torn", "whole"}, events : Seq(Events)]
    /\ pc \in [Callers -> Qualifying \union Spending \union Freezing \union {"idle", "consume"}]
    /\ job \in [Callers -> [id : Authorizations \union Releases \union {None}, at : Nat,
                            verdict : Verdicts \union {None}, seen : Seq(Events)]]
    /\ returned \subseteq Releases

\* The qualification of a candidate is in the ledger, as its record has it.
Logged(a, k) ==
    \E i \in 1 .. Len(ledger) : ledger[i] = QualificationEvent(a, k, qualification[a][k])

\* s is an earlier state of the events t.
Before(s, t) == Len(s) <= Len(t) /\ \A i \in 1 .. Len(s) : s[i] = t[i]

\* A qualify() has logged the candidates up to the one it is at.
QualifyInv(c) ==
    LET a == job[c].id
        k == job[c].at
    IN pc[c] \in Qualifying =>
          /\ a \in Authorizations
          /\ pc[c] = "snapshot" => k = 1
          /\ pc[c] \in {"record", "event"} => k \in 1 .. Candidates
          /\ pc[c] = "batch" => k = Candidates + 1
          /\ pc[c] = "event" => job[c].verdict \in Verdicts /\ qualification[a][k] = job[c].verdict
          /\ \A j \in 1 .. (k - 1) : Logged(a, j)

\* A confirm_once() works on a release that it alone has spent and of which
\* nothing is in the ledger yet.
ConfirmInv(c) ==
    LET r == job[c].id
    IN /\ pc[c] \in Spending \union {"consume"} => r \in Releases /\ Releasable(r)
       /\ pc[c] \in Spending =>
             /\ marker[r] = [by |-> c, file |-> IF pc[c] = "fill" THEN "torn" ELSE "whole"]
             /\ ~EventOf(r, ledger)
       /\ pc[c] \in {"verdict", "write", "append"} => job[c].verdict \in Verdicts
       /\ pc[c] = "verdict" => completion[r] = Torn /\ confirmation[r] = None
       /\ pc[c] \in {"write", "append"} => completion[r] = job[c].verdict
       /\ pc[c] = "append" => confirmation[r] = job[c].verdict

\* A freeze has seen the confirmation it follows; one call writes the pointer.
FreezeInv(c) ==
    LET r == job[c].id
    IN /\ pc[c] \in Freezing => r = None \/ (r \in Releases /\ EventOf(r, ledger))
       /\ pc[c] \in {"point", "seal"} =>
             /\ Before(job[c].seen, ledger)
             /\ r = None \/ EventOf(r, job[c].seen)
       /\ pc[c] = "seal" =>
             /\ pointer.file = "torn"
             /\ \A d \in Callers : pc[d] = "seal" => d = c

\* Nothing of a call outlives it.
IdleInv == \A c \in Callers : pc[c] = "idle" => job[c].id = None

FilesInv ==
    /\ \A r \in Releases :
          /\ marker[r].file = "absent" <=> marker[r].by = None
          /\ completion[r] # None => marker[r].file = "whole"
          /\ confirmation[r] # None => completion[r] = confirmation[r]
    /\ \A a \in batches, k \in 1 .. Candidates : Logged(a, k)
    /\ pointer.file = "whole" => Before(pointer.events, ledger)

SealedInv ==
    /\ TypeOK /\ IdleInv /\ FilesInv /\ Confirmed
    /\ \A c \in Callers : QualifyInv(c) /\ ConfirmInv(c) /\ FreezeInv(c)
=============================================================================
