------------------------ MODULE SealedReleaseProofs ------------------------
(***************************************************************************)
(* Proofs about SealedRelease, for every set of callers, authorizations    *)
(* and releases and every number of candidates.                            *)
(*                                                                         *)
(* SealedInv is inductive, and every step maps to a step of OneShot or     *)
(* leaves its view alone.  A release has at most one caller at work on it  *)
(* (ConfirmInv: its marker names the caller), so that a step of one caller *)
(* changes nothing that another one's part of the invariant speaks of; the *)
(* ledger only grows, and what Logged, EventOf and Before say of it stays. *)
(***************************************************************************)
EXTENDS SealedRelease, SequenceTheorems, TLAPS

-----------------------------------------------------------------------------
(* The ledger grows. *)

Grown == ledger' = ledger \/ \E e \in Events : ledger' = Append(ledger, e)

LEMMA LedgerGrows ==
    ASSUME ledger \in Seq(Events), Grown
    PROVE  /\ ledger' \in Seq(Events)
           /\ Before(ledger, ledger')
           /\ Len(ledger) \in Nat /\ Len(ledger') \in Nat
  <1>1. CASE ledger' = ledger
    BY <1>1 DEF Before
  <1>2. CASE \E e \in Events : ledger' = Append(ledger, e)
    <2>1. PICK e \in Events : ledger' = Append(ledger, e)
      BY <1>2
    <2> QED BY <2>1, AppendProperties DEF Before
  <1> QED BY <1>1, <1>2 DEF Grown

LEMMA BeforeGrows ==
    ASSUME ledger \in Seq(Events), Grown, NEW s \in Seq(Events), Before(s, ledger)
    PROVE  Before(s, ledger')
  BY LedgerGrows DEF Before

LEMMA EventsGrow ==
    ASSUME NEW s \in Seq(Events), NEW t \in Seq(Events), Before(s, t),
           NEW r, EventOf(r, s)
    PROVE  EventOf(r, t)
  <1>1. Len(s) \in Nat /\ Len(t) \in Nat
    OBVIOUS
  <1> QED BY <1>1 DEF EventOf, Before

\* What is new in the ledger.
LEMMA EventsAdded ==
    ASSUME ledger \in Seq(Events), NEW e \in Events, ledger' = Append(ledger, e),
           NEW r, EventOf(r, ledger')
    PROVE  EventOf(r, ledger) \/ (e.kind = "confirmation" /\ e.id = r)
  <1>1. Len(ledger) \in Nat
    OBVIOUS
  <1>2. /\ Len(ledger') = Len(ledger) + 1 /\ ledger'[Len(ledger) + 1] = e
        /\ \A i \in 1 .. Len(ledger) : ledger'[i] = ledger[i]
    BY AppendProperties
  <1> QED BY <1>1, <1>2 DEF EventOf

\* Records that say something are never changed.
Judged == \A a \in Authorizations, k \in 1 .. Candidates :
             qualification[a][k] # None => qualification'[a][k] = qualification[a][k]

LEMMA LoggedStays ==
    ASSUME ledger \in Seq(Events), Grown, Judged,
           NEW a \in Authorizations, NEW k \in 1 .. Candidates, Logged(a, k)
    PROVE  Logged(a, k)'
  <1>1. PICK i \in 1 .. Len(ledger) : ledger[i] = QualificationEvent(a, k, qualification[a][k])
    BY DEF Logged
  <1>2. ledger[i] \in Events
    BY <1>1
  <1>3. qualification[a][k] \in Verdicts
    BY <1>1, <1>2 DEF Events, QualificationEvent
  <1>4. qualification'[a][k] = qualification[a][k]
    BY <1>3, SealedAssumption DEF Judged
  <1>5. i \in 1 .. Len(ledger') /\ ledger'[i] = ledger[i]
    BY <1>1, LedgerGrows DEF Before
  <1> QED BY <1>1, <1>4, <1>5 DEF Logged, QualificationEvent

-----------------------------------------------------------------------------
(* A step of one caller leaves the others' calls alone. *)

Alone(c) == \A d \in Callers : d # c => pc'[d] = pc[d] /\ job'[d] = job[d]

Places == Qualifying \union Spending \union Freezing \union {"idle", "consume"}
Jobs == [id : Authorizations \union Releases \union {None}, at : Nat,
         verdict : Verdicts \union {None}, seen : Seq(Events)]

LEMMA QualifyStays ==
    ASSUME TypeOK, Grown, Judged, NEW d \in Callers, QualifyInv(d),
           pc'[d] = pc[d], job'[d] = job[d]
    PROVE  QualifyInv(d)'
  <1> SUFFICES ASSUME pc[d] \in Qualifying
               PROVE  QualifyInv(d)'
    BY DEF QualifyInv
  <1> DEFINE a == job[d].id
             k == job[d].at
  <1>1. a \in Authorizations /\ k \in Nat /\ k <= Candidates + 1 /\ Candidates \in Nat
    BY SealedAssumption DEF QualifyInv, Qualifying, TypeOK
  <1>2. \A j \in 1 .. (k - 1) : Logged(a, j)'
    BY <1>1, LoggedStays DEF QualifyInv, TypeOK
  <1>3. pc[d] = "event" => qualification'[a][k] = qualification[a][k]
    BY <1>1, SealedAssumption DEF QualifyInv, Judged
  <1> QED BY <1>1, <1>2, <1>3 DEF QualifyInv

\* The release that another caller works on is left alone.
LEMMA ConfirmStays ==
    ASSUME TypeOK, Judged, batches \subseteq batches', target' = target,
           NEW d \in Callers, ConfirmInv(d), pc'[d] = pc[d], job'[d] = job[d],
           pc[d] \in Spending =>
              LET r == job[d].id
              IN /\ marker'[r] = marker[r] /\ completion'[r] = completion[r]
                 /\ confirmation'[r] = confirmation[r]
                 /\ EventOf(r, ledger') => EventOf(r, ledger)
    PROVE  ConfirmInv(d)'
  <1> DEFINE r == job[d].id
  <1>1. pc[d] \in Spending \union {"consume"} => Releasable(r)'
    <2> SUFFICES ASSUME r \in Releases, Releasable(r)
                 PROVE  Releasable(r)'
      BY DEF ConfirmInv
    <2>1. target[r].authorization \in Authorizations /\ target[r].candidate \in 1 .. Candidates
      BY DEF TypeOK, Targets
    <2> QED BY <2>1, SealedAssumption DEF Releasable, Judged, Verdicts
  <1> QED BY <1>1 DEF ConfirmInv, Spending

LEMMA FreezeStays ==
    ASSUME TypeOK, Grown, NEW d \in Callers, FreezeInv(d), pc'[d] = pc[d], job'[d] = job[d],
           pc[d] = "seal" => /\ pointer'.file = "torn"
                             /\ \A e \in Callers : pc'[e] = "seal" => e = d
    PROVE  FreezeInv(d)'
  <1>1. ledger \in Seq(Events) /\ job[d].seen \in Seq(Events)
    BY DEF TypeOK
  <1>2. \A r : EventOf(r, ledger) => EventOf(r, ledger')
    BY <1>1, LedgerGrows, EventsGrow
  <1>3. Before(job[d].seen, ledger) => Before(job[d].seen, ledger')
    BY <1>1, BeforeGrows
  <1> QED BY <1>2, <1>3 DEF FreezeInv

-----------------------------------------------------------------------------
(* Types, and what every step keeps. *)

Acts(c) ==
    \/ \E a \in Authorizations : Qualify(c, a)
    \/ \E r \in Releases : Confirm(c, r)
    \/ FreezeFinal(c) \/ Step(c) \/ Crash(c)

LEMMA StepMoves ==
    ASSUME TypeOK, NEW c \in Callers, Acts(c)
    PROVE  /\ pc' \in [Callers -> Places] /\ target' = target
           /\ \A d \in Callers : d # c => pc'[d] = pc[d]
  <1>1. PICK to \in Places : pc' = [pc EXCEPT ![c] = to]
    <2> USE DEF Goto, Leave, Places, Qualifying, Spending, Freezing
    <2>1. CASE \E a \in Authorizations : Qualify(c, a)
      BY <2>1 DEF Qualify
    <2>2. CASE \E r \in Releases : Confirm(c, r)
      BY <2>2 DEF Confirm
    <2>3. CASE FreezeFinal(c) \/ Crash(c)
      BY <2>3 DEF FreezeFinal, Crash
    <2>4. CASE Snapshot(c) \/ Judge(c) \/ AppendQualification(c) \/ ReturnBatch(c)
      BY <2>4 DEF Snapshot, Judge, AppendQualification, ReturnBatch
    <2>5. CASE Consume(c) \/ FillMarker(c) \/ Build(c) \/ FillCompletion(c)
      BY <2>5 DEF Consume, FillMarker, Build, FillCompletion
    <2>6. CASE WriteConfirmation(c) \/ AppendConfirmation(c) \/ BuildIndex(c) \/ Point(c) \/ Seal(c)
      BY <2>6 DEF WriteConfirmation, AppendConfirmation, BuildIndex, Point, Seal
    <2> QED BY <2>1, <2>2, <2>3, <2>4, <2>5, <2>6 DEF Acts, Step
  <1>2. target' = target
    BY DEF Acts, Step, Qualify, Confirm, FreezeFinal, Crash, Snapshot, Judge,
       AppendQualification,
           ReturnBatch, Consume, FillMarker, Build, FillCompletion, WriteConfirmation,
           AppendConfirmation, BuildIndex, Point, Seal
  <1>3. pc \in [Callers -> Places]
    BY DEF TypeOK, Places
  <1> QED BY <1>1, <1>2, <1>3

LEMMA StepJobs ==
    ASSUME TypeOK, NEW c \in Callers, Acts(c)
    PROVE  job' \in [Callers -> Jobs] /\ \A d \in Callers : d # c => job'[d] = job[d]
  <1>1. job \in [Callers -> Jobs] /\ job[c] \in Jobs /\ job[c].at + 1 \in Nat /\ ledger \in Seq(Events)
    BY DEF TypeOK, Jobs
  <1>2. NoJob \in Jobs
    BY DEF NoJob, Jobs
  <1>3. PICK j \in Jobs : job' = job \/ job' = [job EXCEPT ![c] = j]
    <2>1. \A i \in Authorizations \union Releases :
             /\ [NoJob EXCEPT !.id = i] \in Jobs
             /\ [NoJob EXCEPT !.id = i, !.at = 1] \in Jobs
      BY <1>2 DEF Jobs
    <2>2. \A v \in Verdicts : [job[c] EXCEPT !.verdict = v] \in Jobs
      BY <1>1 DEF Jobs
    <2>3. /\ [job[c] EXCEPT !.at = job[c].at + 1, !.verdict = None] \in Jobs
          /\ [job[c] EXCEPT !.seen = ledger] \in Jobs
      BY <1>1 DEF Jobs
    <2>4. CASE UNCHANGED job \/ job' = [job EXCEPT ![c] = NoJob]
      BY <1>2, <2>4
    <2>5. CASE \E a \in Authorizations : Qualify(c, a)
      BY <2>1, <2>5 DEF Qualify
    <2>6. CASE \E r \in Releases : Confirm(c, r)
      BY <2>1, <2>6 DEF Confirm
    <2>7. CASE FreezeFinal(c) \/ Crash(c) \/ Snapshot(c) \/ ReturnBatch(c)
      BY <2>4, <2>7 DEF FreezeFinal, Crash, Snapshot, ReturnBatch, Leave
    <2>8. CASE Judge(c)
      BY <2>2, <2>8 DEF Judge
    <2>9. CASE AppendQualification(c)
      BY <2>3, <2>9 DEF AppendQualification
    <2>10. CASE Consume(c) \/ FillMarker(c)
      BY <2>4, <2>10 DEF Consume, FillMarker, Leave
    <2>11. CASE Build(c)
      BY <2>2, <2>11 DEF Build
    <2>12. CASE FillCompletion(c) \/ WriteConfirmation(c) \/ AppendConfirmation(c)
      BY <2>4, <2>12 DEF FillCompletion, WriteConfirmation, AppendConfirmation
    <2>13. CASE BuildIndex(c)
      BY <2>3, <2>13 DEF BuildIndex
    <2>14. CASE Point(c) \/ Seal(c)
      BY <2>4, <2>14 DEF Point, Seal, Leave
    <2> QED BY <2>5, <2>6, <2>7, <2>8, <2>9, <2>10, <2>11, <2>12, <2>13, <2>14 DEF Acts, Step
  <1> QED BY <1>1, <1>3

LEMMA StepFiles ==
    ASSUME TypeOK, NEW c \in Callers, QualifyInv(c), ConfirmInv(c), Acts(c)
    PROVE  /\ Grown /\ Judged /\ batches \subseteq batches'
           /\ qualification' \in [Authorizations -> [1 .. Candidates -> Verdicts \union {None}]]
           /\ snapshots' \subseteq Authorizations /\ batches' \subseteq Authorizations
  <1> USE DEF layerB, Goto, Leave
  <1>1. CASE UNCHANGED <<ledger, layerB>>
    BY <1>1 DEF Grown, Judged, TypeOK
  <1>2. CASE Snapshot(c) \/ ReturnBatch(c)
    BY <1>2 DEF Snapshot, ReturnBatch, QualifyInv, Qualifying, Grown, Judged, TypeOK
  <1>3. CASE Judge(c)
    <2> DEFINE a == job[c].id
               k == job[c].at
    <2>1. a \in Authorizations /\ k \in 1 .. Candidates /\ qualification[a][k] = None
      BY <1>3 DEF Judge, QualifyInv, Qualifying
    <2>2. PICK v \in Verdicts : qualification' = [qualification EXCEPT ![a][k] = v]
      BY <1>3 DEF Judge
    <2>3. qualification' \in [Authorizations -> [1 .. Candidates -> Verdicts \union {None}]]
      BY <2>1, <2>2 DEF TypeOK
    <2>4. Judged
      BY <2>1, <2>2 DEF Judged, TypeOK
    <2> QED BY <1>3, <2>3, <2>4 DEF Judge, Grown, TypeOK
  <1>4. CASE AppendQualification(c)
    <2>1. /\ job[c].id \in Authorizations /\ job[c].at \in 1 .. Candidates
          /\ job[c].verdict \in Verdicts
      BY <1>4 DEF AppendQualification, QualifyInv, Qualifying
    <2>2. QualificationEvent(job[c].id, job[c].at, job[c].verdict) \in Events
      BY <2>1 DEF QualificationEvent, Events
    <2> QED BY <1>4, <2>2 DEF AppendQualification, Grown, Judged, TypeOK
  <1>5. CASE AppendConfirmation(c)
    <2>1. job[c].id \in Releases /\ job[c].verdict \in Verdicts
      BY <1>5 DEF AppendConfirmation, ConfirmInv, Spending
    <2>2. target[job[c].id].candidate \in 1 .. Candidates
      BY <2>1 DEF TypeOK, Targets
    <2>3. ConfirmationEvent(job[c].id, job[c].verdict) \in Events
      BY <2>1, <2>2 DEF ConfirmationEvent, Events
    <2> QED BY <1>5, <2>3 DEF AppendConfirmation, Grown, Judged, TypeOK
  <1>6. CASE \/ \E a \in Authorizations : Qualify(c, a)
             \/ \E r \in Releases : Confirm(c, r)
             \/ FreezeFinal(c) \/ Crash(c) \/ Consume(c) \/ FillMarker(c)
    BY <1>1, <1>6 DEF Qualify, Confirm, FreezeFinal, Crash, Consume, FillMarker
  <1>7. CASE \/ Build(c) \/ FillCompletion(c) \/ WriteConfirmation(c)
             \/ BuildIndex(c) \/ Point(c) \/ Seal(c)
    BY <1>1, <1>7 DEF Build, FillCompletion, WriteConfirmation, BuildIndex, Point, Seal
  <1> QED BY <1>2, <1>3, <1>4, <1>5, <1>6, <1>7 DEF Acts, Step

LEMMA StepTypes ==
    ASSUME TypeOK, NEW c \in Callers, QualifyInv(c), ConfirmInv(c), FreezeInv(c), Acts(c)
    PROVE  TypeOK'
  <1>1. /\ pc' \in [Callers -> Places] /\ target' = target
        /\ job' \in [Callers -> Jobs]
        /\ snapshots' \subseteq Authorizations /\ batches' \subseteq Authorizations
        /\ qualification' \in [Authorizations -> [1 .. Candidates -> Verdicts \union {None}]]
        /\ ledger' \in Seq(Events)
    BY StepMoves, StepJobs, StepFiles, LedgerGrows DEF TypeOK
  <1>2. /\ marker' \in [Releases -> [by : Callers \union {None},
                                     file : {"absent", "torn", "whole"}]]
        /\ completion' \in [Releases -> Verdicts \union {None, Torn}]
        /\ confirmation' \in [Releases -> Verdicts \union {None}]
    <2> USE DEF layerC
    <2>1. CASE UNCHANGED layerC
      BY <2>1 DEF TypeOK
    <2>2. CASE Consume(c) \/ FillMarker(c)
      <3>1. \A f \in {"torn", "whole"} :
               [by |-> c, file |-> f] \in [by : Callers \union {None},
                                           file : {"absent", "torn", "whole"}]
        OBVIOUS
      <3>2. \/ marker' = marker
            \/ marker' = [marker EXCEPT ![job[c].id] = [by |-> c, file |-> "torn"]]
            \/ marker' = [marker EXCEPT ![job[c].id] = [by |-> c, file |-> "whole"]]
        BY <2>2 DEF Consume, FillMarker
      <3>3. marker' \in [Releases -> [by : Callers \union {None},
                                      file : {"absent", "torn", "whole"}]]
        BY <3>1, <3>2 DEF TypeOK
      <3> QED BY <2>2, <3>3 DEF Consume, FillMarker, TypeOK
    <2>3. CASE Build(c) \/ FillCompletion(c) \/ WriteConfirmation(c)
      <3>1. pc[c] \in {"verdict", "write"} => job[c].verdict \in Verdicts
        BY DEF ConfirmInv
      <3> QED BY <2>3, <3>1 DEF Build, FillCompletion, WriteConfirmation, Goto, TypeOK
    <2>4. CASE \/ \E a \in Authorizations : Qualify(c, a)
               \/ \E r \in Releases : Confirm(c, r)
               \/ FreezeFinal(c) \/ Crash(c) \/ Snapshot(c) \/ Judge(c)
               \/ AppendQualification(c) \/ ReturnBatch(c)
      BY <2>1, <2>4 DEF Qualify, Confirm, FreezeFinal, Crash, Snapshot, Judge,
                        AppendQualification, ReturnBatch
    <2>5. CASE AppendConfirmation(c) \/ BuildIndex(c) \/ Point(c) \/ Seal(c)
      BY <2>1, <2>5 DEF AppendConfirmation, BuildIndex, Point, Seal
    <2> QED BY <2>2, <2>3, <2>4, <2>5 DEF Acts, Step
  <1>3. pointer' \in [file : {"absent", "torn", "whole"}, events : Seq(Events)]
        /\ returned' \subseteq Releases
    <2>1. CASE UNCHANGED <<pointer, returned>>
      BY <2>1 DEF TypeOK
    <2>2. CASE Point(c) \/ Seal(c)
      <3>1. /\ <<>> \in Seq(Events) /\ job[c].seen \in Seq(Events)
            /\ {job[c].id} \ {None} \subseteq Releases
        BY <2>2 DEF Point, Seal, Leave, Goto, FreezeInv, Freezing, TypeOK
      <3>2. \A f \in {"torn", "whole"}, t \in {<<>>, job[c].seen} :
               [file |-> f, events |-> t] \in [file : {"absent", "torn", "whole"},
                                               events : Seq(Events)]
        BY <3>1
      <3>3. returned' \subseteq Releases
        BY <2>2, <3>1 DEF Point, Seal, TypeOK
      <3>4. \/ pointer' = pointer
            \/ \E f \in {"torn", "whole"}, t \in {<<>>, job[c].seen} :
                  pointer' = [file |-> f, events |-> t]
        BY <2>2 DEF Point, Seal
      <3> QED BY <3>2, <3>3, <3>4 DEF TypeOK
    <2>3. CASE \/ \E a \in Authorizations : Qualify(c, a)
               \/ \E r \in Releases : Confirm(c, r)
               \/ FreezeFinal(c) \/ Crash(c) \/ Snapshot(c) \/ Judge(c)
               \/ AppendQualification(c) \/ ReturnBatch(c)
      BY <2>1, <2>3 DEF Qualify, Confirm, FreezeFinal, Crash, Snapshot, Judge,
                        AppendQualification, ReturnBatch
    <2>4. CASE \/ Consume(c) \/ FillMarker(c) \/ Build(c) \/ FillCompletion(c)
               \/ WriteConfirmation(c) \/ AppendConfirmation(c) \/ BuildIndex(c)
      BY <2>1, <2>4 DEF Consume, FillMarker, Build, FillCompletion, WriteConfirmation,
                        AppendConfirmation, BuildIndex
    <2> QED BY <2>2, <2>3, <2>4 DEF Acts, Step
  <1> QED BY <1>1, <1>2, <1>3 DEF TypeOK, Places, Jobs

LEMMA StepAlone ==
    ASSUME TypeOK, NEW c \in Callers, Acts(c)
    PROVE  Alone(c)
  BY StepMoves, StepJobs DEF Alone

-----------------------------------------------------------------------------
(* What a step changes of a release. *)

Same(q) ==
    /\ marker'[q] = marker[q] /\ completion'[q] = completion[q]
    /\ confirmation'[q] = confirmation[q]
    /\ EventOf(q, ledger') => EventOf(q, ledger)

LEMMA StepReleases ==
    ASSUME TypeOK, NEW c \in Callers, QualifyInv(c), ConfirmInv(c), Acts(c), NEW q \in Releases,
           ~Same(q)
    PROVE  /\ q = job[c].id
           /\ pc[c] \in Spending \/ (pc[c] = "consume" /\ marker[q].file = "absent")
  <1> USE DEF Goto, Leave, Spending
  <1>1. ~UNCHANGED <<ledger, layerC>>
    BY DEF Same, layerC
  <1>2. CASE Snapshot(c) \/ Judge(c) \/ ReturnBatch(c)
    BY <1>1, <1>2 DEF Snapshot, Judge, ReturnBatch
  <1>3. CASE AppendQualification(c)
    <2>1. /\ job[c].id \in Authorizations /\ job[c].at \in 1 .. Candidates
          /\ job[c].verdict \in Verdicts
      BY <1>3 DEF AppendQualification, QualifyInv, Qualifying
    <2> DEFINE e == QualificationEvent(job[c].id, job[c].at, job[c].verdict)
    <2>2. e \in Events /\ e.kind = "qualification"
      BY <2>1 DEF QualificationEvent, Events
    <2>3. ledger' = Append(ledger, e) /\ ledger \in Seq(Events)
      BY <1>3 DEF AppendQualification, TypeOK
    <2>4. EventOf(q, ledger') => EventOf(q, ledger)
      <3> HIDE DEF e
      <3> QED BY <2>2, <2>3, EventsAdded
    <2>5. UNCHANGED layerC
      BY <1>3 DEF AppendQualification
    <2> QED BY <2>4, <2>5 DEF Same, layerC
  <1>4. CASE Consume(c)
    <2>1. job[c].id \in Releases
      BY <1>4 DEF Consume, ConfirmInv
    <2> QED BY <1>4, <2>1 DEF Consume, Unspent, Same, TypeOK
  <1>5. CASE FillMarker(c) \/ Build(c) \/ FillCompletion(c) \/ WriteConfirmation(c)
    BY <1>5 DEF FillMarker, Build, FillCompletion, WriteConfirmation, Same, TypeOK
  <1>6. CASE AppendConfirmation(c)
    <2>1. job[c].id \in Releases /\ job[c].verdict \in Verdicts
      BY <1>6 DEF AppendConfirmation, ConfirmInv
    <2> DEFINE e == ConfirmationEvent(job[c].id, job[c].verdict)
    <2>2. e \in Events /\ e.id = job[c].id
      <3>1. target[job[c].id].candidate \in 1 .. Candidates
        BY <2>1 DEF TypeOK, Targets
      <3> QED BY <2>1, <3>1 DEF ConfirmationEvent, Events
    <2>3. ledger' = Append(ledger, e) /\ ledger \in Seq(Events)
      BY <1>6 DEF AppendConfirmation, TypeOK
    <2>4. EventOf(q, ledger') => EventOf(q, ledger) \/ q = job[c].id
      <3> HIDE DEF e
      <3> QED BY <2>2, <2>3, EventsAdded
    <2> QED BY <1>6, <2>4 DEF AppendConfirmation, Same, layerC
  <1>7. CASE \/ \E a \in Authorizations : Qualify(c, a)
             \/ \E r \in Releases : Confirm(c, r)
             \/ FreezeFinal(c) \/ Crash(c) \/ BuildIndex(c) \/ Point(c) \/ Seal(c)
    BY <1>1, <1>7 DEF Qualify, Confirm, FreezeFinal, Crash, BuildIndex, Point, Seal
  <1> QED BY <1>2, <1>3, <1>4, <1>5, <1>6, <1>7 DEF Acts, Step

LEMMA SpentBy ==
    ASSUME NEW c \in Callers, ConfirmInv(c), pc[c] \in Spending
    PROVE  /\ job[c].id \in Releases
           /\ marker[job[c].id].by = c /\ marker[job[c].id].file # "absent"
  <1>1. /\ job[c].id \in Releases
        /\ marker[job[c].id] = [by |-> c, file |-> IF pc[c] = "fill" THEN "torn" ELSE "whole"]
    BY DEF ConfirmInv
  <1> QED BY <1>1

\* Nothing changes of a release that another caller works on, ...
LEMMA OthersSame ==
    ASSUME SealedInv, NEW c \in Callers, Acts(c), NEW d \in Callers, d # c, pc[d] \in Spending
    PROVE  Same(job[d].id)
  <1> DEFINE q == job[d].id
  <1>1. q \in Releases /\ marker[q].by = d /\ marker[q].file # "absent"
    BY SpentBy DEF SealedInv
  <1>2. pc[c] \in Spending => marker[job[c].id].by = c
    BY SpentBy DEF SealedInv
  <1> QED BY <1>1, <1>2, StepReleases DEF SealedInv

\* ... nor of one whose verdict is in the ledger.
LEMMA DecidedSame ==
    ASSUME SealedInv, NEW c \in Callers, Acts(c), NEW q \in Releases, EventOf(q, ledger)
    PROVE  Same(q)
  <1>1. marker[q].file = "whole"
    BY DEF SealedInv, Confirmed, OneVerdict, EventOf
  <1>2. ~(pc[c] \in Spending /\ q = job[c].id)
    BY DEF SealedInv, ConfirmInv
  <1> QED BY <1>1, <1>2, StepReleases DEF SealedInv

-----------------------------------------------------------------------------
(* The parts of the invariant are kept. *)

LEMMA QualifyKeeps ==
    ASSUME SealedInv, NEW c \in Callers, Acts(c), NEW d \in Callers
    PROVE  QualifyInv(d)'
  <1>1. /\ TypeOK /\ QualifyInv(c) /\ ConfirmInv(c) /\ QualifyInv(d)
        /\ Grown /\ Judged /\ Alone(c)
    BY StepFiles, StepAlone DEF SealedInv
  <1>2. CASE d # c
    BY <1>1, <1>2, QualifyStays DEF Alone
  <1>3. CASE d = c
    <2> DEFINE a == job[c].id
               k == job[c].at
    <2> USE DEF Goto, Leave
    <2>1. CASE pc'[c] \notin Qualifying
      BY <1>3, <2>1 DEF QualifyInv
    <2>2. CASE \E b \in Authorizations : Qualify(c, b)
      <3>1. PICK b \in Authorizations : Qualify(c, b)
        BY <2>2
      <3>2. pc'[c] = "snapshot" /\ job'[c].id = b /\ job'[c].at = 1
        BY <1>1, <3>1 DEF Qualify, TypeOK, NoJob
      <3> QED BY <1>3, <3>2 DEF QualifyInv
    <2>3. CASE Snapshot(c) /\ pc'[c] \in Qualifying
      <3>1. /\ pc[c] = "snapshot" /\ pc'[c] = "record" /\ job'[c] = job[c]
        BY <1>1, <2>3 DEF Snapshot, TypeOK, Qualifying
      <3> QED BY <1>1, <1>3, <3>1, SealedAssumption DEF QualifyInv, Qualifying
    <2>4. CASE Judge(c)
      <3>1. /\ pc[c] = "record" /\ pc'[c] = "event" /\ job'[c].id = a /\ job'[c].at = k
            /\ a \in Authorizations /\ k \in 1 .. Candidates
        BY <1>1, <2>4 DEF Judge, TypeOK, QualifyInv, Qualifying
      <3>2. job'[c].verdict \in Verdicts /\ qualification'[a][k] = job'[c].verdict
        <4>1. PICK v \in Verdicts : /\ qualification' = [qualification EXCEPT ![a][k] = v]
                                    /\ job' = [job EXCEPT ![c].verdict = v]
          BY <2>4 DEF Judge
        <4>2. qualification'[a][k] = v
          BY <1>1, <3>1, <4>1 DEF TypeOK
        <4>3. job'[c].verdict = v
          BY <1>1, <4>1 DEF TypeOK
        <4> QED BY <4>1, <4>2, <4>3
      <3>3. \A j \in 1 .. (k - 1) : Logged(a, j)'
        BY <1>1, <3>1, SealedAssumption, LoggedStays DEF QualifyInv, Qualifying, TypeOK
      <3> QED BY <1>3, <3>1, <3>2, <3>3 DEF QualifyInv
    <2>5. CASE AppendQualification(c)
      <3>1. /\ pc[c] = "event" /\ a \in Authorizations /\ k \in 1 .. Candidates
            /\ job[c].verdict \in Verdicts /\ qualification[a][k] = job[c].verdict
            /\ \A j \in 1 .. (k - 1) : Logged(a, j)
        BY <1>1, <2>5 DEF AppendQualification, QualifyInv, Qualifying
      <3>2. PICK x \in Authorizations, n \in 1 .. Candidates, v \in Verdicts :
              x = a /\ n = k /\ v = job[c].verdict
        BY <3>1
      <3>3. /\ pc'[c] = IF n = Candidates THEN "batch" ELSE "record"
            /\ job'[c].id = x /\ job'[c].at = n + 1 /\ qualification'[x][n] = v
            /\ ledger' = Append(ledger, QualificationEvent(x, n, v))
        BY <1>1, <2>5, <3>1, <3>2 DEF AppendQualification, TypeOK, layerB
      <3>4. Logged(x, n)'
        <4> DEFINE e == QualificationEvent(x, n, v)
        <4>1. e \in Events /\ ledger' = Append(ledger, e) /\ ledger \in Seq(Events)
          BY <1>1, <3>3 DEF TypeOK, QualificationEvent, Events
        <4>2. Len(ledger) + 1 \in 1 .. Len(ledger') /\ ledger'[Len(ledger) + 1] = e
          <5> HIDE DEF e
          <5> QED BY <4>1, AppendProperties
        <4> QED BY <3>3, <4>2 DEF Logged
      <3>5. \A j \in 1 .. (n - 1) : Logged(x, j)'
        <4>1. \A j \in 1 .. (n - 1) : Logged(x, j) /\ j \in 1 .. Candidates
          BY <3>1, <3>2, SealedAssumption
        <4> QED BY <1>1, <4>1, LoggedStays DEF TypeOK
      <3>6. \A j \in 1 .. (n + 1 - 1) : Logged(x, j)'
        <4>1. \A j \in 1 .. (n + 1 - 1) : j = n \/ j \in 1 .. (n - 1)
          BY SealedAssumption
        <4> QED BY <3>4, <3>5, <4>1
      <3>7. /\ n # Candidates => n + 1 \in 1 .. Candidates
            /\ n = Candidates => n + 1 = Candidates + 1
        BY SealedAssumption
      <3> QED BY <1>3, <3>3, <3>6, <3>7 DEF QualifyInv
    <2>6. CASE ReturnBatch(c) \/ Crash(c) \/ FreezeFinal(c) \/ \E r \in Releases : Confirm(c, r)
      BY <1>1, <2>1, <2>6 DEF ReturnBatch, Crash, FreezeFinal, Confirm, TypeOK, Qualifying
    <2>7. CASE Consume(c) \/ FillMarker(c) \/ Build(c) \/ FillCompletion(c)
      BY <1>1, <2>1, <2>7 DEF Consume, FillMarker, Build, FillCompletion, TypeOK, Qualifying
    <2>8. CASE WriteConfirmation(c) \/ AppendConfirmation(c) \/ BuildIndex(c) \/ Point(c) \/ Seal(c)
      BY <1>1, <2>1, <2>8 DEF WriteConfirmation, AppendConfirmation, BuildIndex, Point,
         Seal,
                              TypeOK, Qualifying
    <2> QED BY <2>1, <2>2, <2>3, <2>4, <2>5, <2>6, <2>7, <2>8 DEF Acts, Step
  <1> QED BY <1>2, <1>3

LEMMA ConfirmKeeps ==
    ASSUME SealedInv, NEW c \in Callers, Acts(c), NEW d \in Callers
    PROVE  ConfirmInv(d)'
  <1>1. /\ TypeOK /\ QualifyInv(c) /\ ConfirmInv(c) /\ ConfirmInv(d)
        /\ Grown /\ Judged /\ Alone(c) /\ batches \subseteq batches' /\ target' = target
    BY StepFiles, StepAlone, StepMoves DEF SealedInv
  <1>2. CASE d # c
    <2>1. pc[d] \in Spending => Same(job[d].id)
      BY <1>2, OthersSame
    <2> QED BY <1>1, <1>2, <2>1, ConfirmStays DEF Alone, Same
  <1>3. CASE d = c
    <2> DEFINE r == job[c].id
    <2> USE DEF Goto, Leave
    <2>1. CASE pc'[c] \notin Spending \union {"consume"}
      BY <1>3, <2>1 DEF ConfirmInv, Spending
    <2>2. CASE \E q \in Releases : Confirm(c, q)
      <3>1. PICK q \in Releases : Confirm(c, q)
        BY <2>2
      <3>2. /\ pc'[c] = "consume" /\ job'[c].id = q /\ Releasable(q)
            /\ UNCHANGED <<target, layerB>>
        BY <1>1, <3>1 DEF Confirm, TypeOK, NoJob
      <3> QED BY <1>3, <3>2 DEF ConfirmInv, Spending, Releasable, layerB
    \* The other steps under a spent release.
    <2>3. ASSUME pc[c] \in Spending \union {"consume"}, job'[c].id = r,
                 UNCHANGED <<target, layerB>>
          PROVE  r \in Releases /\ Releasable(r)'
      BY <1>1, <2>3 DEF ConfirmInv, Releasable, layerB
    <2>4. CASE Consume(c) /\ pc'[c] = "fill"
      <3>1. /\ pc[c] = "consume" /\ job'[c] = job[c] /\ r \in Releases /\ Releasable(r)'
            /\ marker[r].file = "absent" /\ UNCHANGED ledger
        BY <1>1, <2>3, <2>4 DEF Consume, Unspent, TypeOK
      <3>2. marker'[r] = [by |-> c, file |-> "torn"]
        BY <1>1, <2>4, <3>1 DEF Consume, TypeOK
      <3>3. ~EventOf(r, ledger)
        BY <3>1 DEF SealedInv, Confirmed, OneVerdict, EventOf
      <3> QED BY <1>3, <2>4, <3>1, <3>2, <3>3 DEF ConfirmInv, EventOf
    <2>5. CASE FillMarker(c)
      <3>1. /\ pc[c] = "fill" /\ pc'[c] = "build" /\ job'[c] = job[c] /\ r \in Releases
            /\ Releasable(r)' /\ ~EventOf(r, ledger) /\ UNCHANGED ledger
        BY <1>1, <2>3, <2>5 DEF FillMarker, ConfirmInv, Spending, TypeOK
      <3>2. marker'[r] = [by |-> c, file |-> "whole"]
        BY <1>1, <2>5, <3>1 DEF FillMarker, TypeOK
      <3> QED BY <1>3, <3>1, <3>2 DEF ConfirmInv, EventOf
    <2>6. CASE Build(c)
      <3>1. /\ pc[c] = "build" /\ pc'[c] = "verdict" /\ job'[c].id = r /\ r \in Releases
            /\ Releasable(r)' /\ ~EventOf(r, ledger) /\ UNCHANGED <<ledger, marker, confirmation>>
            /\ marker[r] = [by |-> c, file |-> "whole"] /\ completion[r] = None
            /\ job'[c].verdict \in Verdicts
        BY <1>1, <2>3, <2>6 DEF Build, ConfirmInv, Spending, TypeOK
      <3>2. completion'[r] = Torn
        BY <1>1, <2>6, <3>1 DEF Build, TypeOK
      <3>3. confirmation[r] = None
        BY <3>1 DEF SealedInv, FilesInv
      <3> QED BY <1>3, <3>1, <3>2, <3>3 DEF ConfirmInv, EventOf
    <2>7. CASE FillCompletion(c)
      <3>1. /\ pc[c] = "verdict" /\ pc'[c] = "write" /\ job'[c] = job[c] /\ r \in Releases
            /\ Releasable(r)' /\ ~EventOf(r, ledger) /\ UNCHANGED <<ledger, marker, confirmation>>
            /\ marker[r] = [by |-> c, file |-> "whole"] /\ job[c].verdict \in Verdicts
        BY <1>1, <2>3, <2>7 DEF FillCompletion, ConfirmInv, Spending, TypeOK
      <3>2. completion'[r] = job[c].verdict
        BY <1>1, <2>7, <3>1 DEF FillCompletion, TypeOK
      <3> QED BY <1>3, <3>1, <3>2 DEF ConfirmInv, EventOf
    <2>8. CASE WriteConfirmation(c)
      <3>1. /\ pc[c] = "write" /\ pc'[c] = "append" /\ job'[c] = job[c] /\ r \in Releases
            /\ Releasable(r)' /\ ~EventOf(r, ledger) /\ UNCHANGED <<ledger, marker, completion>>
            /\ marker[r] = [by |-> c, file |-> "whole"] /\ job[c].verdict \in Verdicts
            /\ completion[r] = job[c].verdict
        BY <1>1, <2>3, <2>8 DEF WriteConfirmation, ConfirmInv, Spending, TypeOK
      <3>2. confirmation'[r] = job[c].verdict
        BY <1>1, <2>8, <3>1 DEF WriteConfirmation, TypeOK
      <3> QED BY <1>3, <3>1, <3>2 DEF ConfirmInv, EventOf
    <2>9. CASE \/ \E a \in Authorizations : Qualify(c, a)
               \/ FreezeFinal(c) \/ Crash(c) \/ Snapshot(c) \/ Judge(c)
               \/ AppendQualification(c) \/ ReturnBatch(c)
      BY <1>1, <2>1, <2>9 DEF Qualify, FreezeFinal, Crash, Snapshot, Judge,
         AppendQualification,
                              ReturnBatch, Spending, TypeOK
    <2>10. CASE AppendConfirmation(c) \/ BuildIndex(c) \/ Point(c) \/ Seal(c)
      BY <1>1, <2>1, <2>10 DEF AppendConfirmation, BuildIndex, Point, Seal, Spending, TypeOK
    <2>11. CASE Consume(c)
      BY <1>1, <2>1, <2>4, <2>11 DEF Consume, Spending, TypeOK
    <2> QED BY <2>2, <2>5, <2>6, <2>7, <2>8, <2>9, <2>10, <2>11 DEF Acts, Step
  <1> QED BY <1>2, <1>3

LEMMA FreezeKeeps ==
    ASSUME SealedInv, NEW c \in Callers, Acts(c), NEW d \in Callers
    PROVE  FreezeInv(d)'
  <1>1. /\ TypeOK /\ QualifyInv(c) /\ ConfirmInv(c) /\ FreezeInv(c) /\ FreezeInv(d)
        /\ Grown /\ Alone(c) /\ ledger \in Seq(Events) /\ job[c].seen \in Seq(Events)
    BY StepFiles, StepAlone DEF SealedInv, TypeOK
  <1> USE DEF Goto, Leave
  \* Only Point, where no pointer is, leads to the writing of one.
  <1>2. pc'[c] = "seal" => /\ pc[c] = "point" /\ pointer.file = "absent" /\ pointer'.file = "torn"
                           /\ job'[c] = job[c] /\ UNCHANGED ledger
    <2>1. CASE \/ \E a \in Authorizations : Qualify(c, a)
               \/ \E r \in Releases : Confirm(c, r)
               \/ FreezeFinal(c) \/ Crash(c) \/ Snapshot(c) \/ Judge(c)
               \/ AppendQualification(c) \/ ReturnBatch(c)
      BY <1>1, <2>1 DEF Qualify, Confirm, FreezeFinal, Crash, Snapshot, Judge,
                        AppendQualification, ReturnBatch, TypeOK
    <2>2. CASE \/ Consume(c) \/ FillMarker(c) \/ Build(c) \/ FillCompletion(c)
               \/ WriteConfirmation(c) \/ AppendConfirmation(c) \/ BuildIndex(c) \/ Seal(c)
      BY <1>1, <2>2 DEF Consume, FillMarker, Build, FillCompletion, WriteConfirmation,
                        AppendConfirmation, BuildIndex, Seal, TypeOK
    <2>3. CASE Point(c)
      BY <1>1, <2>3 DEF Point, TypeOK
    <2> QED BY <2>1, <2>2, <2>3 DEF Acts, Step
  <1>3. CASE d # c
    <2>1. pc[d] = "seal" => pc'[c] # "seal" /\ pointer.file = "torn"
      BY <1>1, <1>2 DEF FreezeInv
    <2>2. pc[d] = "seal" => pointer' = pointer
      <3>1. pc[d] = "seal" => pc[c] # "seal"
        BY <1>1, <1>3 DEF FreezeInv
      <3>2. CASE Point(c)
        BY <2>1, <3>2 DEF Point, SameHead
      <3>3. CASE \/ \E a \in Authorizations : Qualify(c, a)
                 \/ \E r \in Releases : Confirm(c, r)
                 \/ FreezeFinal(c) \/ Crash(c) \/ Snapshot(c) \/ Judge(c)
                 \/ AppendQualification(c) \/ ReturnBatch(c)
        BY <3>3 DEF Qualify, Confirm, FreezeFinal, Crash, Snapshot, Judge,
                    AppendQualification, ReturnBatch
      <3>4. CASE \/ Consume(c) \/ FillMarker(c) \/ Build(c) \/ FillCompletion(c)
                 \/ WriteConfirmation(c) \/ AppendConfirmation(c) \/ BuildIndex(c) \/ Seal(c)
        BY <3>1, <3>4 DEF Consume, FillMarker, Build, FillCompletion, WriteConfirmation,
                          AppendConfirmation, BuildIndex, Seal
      <3> QED BY <3>2, <3>3, <3>4 DEF Acts, Step
    <2>3. pc[d] = "seal" => \A e \in Callers : pc'[e] = "seal" => e = d
      BY <1>1, <2>1 DEF FreezeInv, Alone
    <2> QED BY <1>1, <1>3, <2>1, <2>2, <2>3, FreezeStays DEF Alone
  <1>4. CASE d = c
    <2> DEFINE r == job[c].id
    <2>1. CASE pc'[c] \notin Freezing
      BY <1>4, <2>1 DEF FreezeInv, Freezing
    <2>2. CASE FreezeFinal(c)
      <3>1. pc[c] = "idle" /\ pc'[c] = "scan" /\ job'[c] = job[c]
        BY <1>1, <2>2 DEF FreezeFinal, TypeOK
      <3>2. job[c].id = None
        BY <3>1 DEF SealedInv, IdleInv
      <3> QED BY <1>4, <3>1, <3>2 DEF FreezeInv
    <2>3. CASE AppendConfirmation(c)
      <3>1. /\ pc'[c] = "scan" /\ job'[c] = job[c] /\ r \in Releases /\ job[c].verdict \in Verdicts
        BY <1>1, <2>3 DEF AppendConfirmation, ConfirmInv, Spending, TypeOK
      <3>2. EventOf(r, ledger')
        <4> DEFINE e == ConfirmationEvent(r, job[c].verdict)
        <4>1. e.kind = "confirmation" /\ e.id = r
          BY DEF ConfirmationEvent
        <4>2. target[r].candidate \in 1 .. Candidates
          BY <1>1, <3>1 DEF TypeOK, Targets
        <4>3. e \in Events /\ ledger' = Append(ledger, e)
          BY <2>3, <3>1, <4>2 DEF AppendConfirmation, ConfirmationEvent, Events
        <4> HIDE DEF e
        <4>4. Len(ledger) + 1 \in 1 .. Len(ledger') /\ ledger'[Len(ledger) + 1] = e
          BY <1>1, <4>3, AppendProperties
        <4> QED BY <4>1, <4>4 DEF EventOf
      <3> QED BY <1>4, <3>1, <3>2 DEF FreezeInv
    <2>4. CASE BuildIndex(c)
      <3>1. /\ pc[c] = "scan" /\ pc'[c] = "point" /\ job'[c].id = r /\ job'[c].seen = ledger
            /\ UNCHANGED ledger
        BY <1>1, <2>4 DEF BuildIndex, TypeOK
      <3> QED BY <1>1, <1>4, <3>1 DEF FreezeInv, Freezing, Before
    <2>5. CASE pc'[c] = "seal"
      <3>1. \A e \in Callers : pc'[e] = "seal" => e = c
        BY <1>1, <1>2, <2>5 DEF SealedInv, FreezeInv, Alone
      <3> QED BY <1>1, <1>2, <1>4, <2>5, <3>1 DEF FreezeInv, Freezing
    <2>6. CASE Point(c) \/ Seal(c)
      BY <1>1, <2>1, <2>5, <2>6 DEF Point, Seal, Freezing, TypeOK
    <2>7. CASE \/ \E a \in Authorizations : Qualify(c, a)
               \/ \E q \in Releases : Confirm(c, q)
               \/ Crash(c) \/ Snapshot(c) \/ Judge(c)
               \/ AppendQualification(c) \/ ReturnBatch(c)
      BY <1>1, <2>1, <2>7 DEF Qualify, Confirm, Crash, Snapshot, Judge,
                              AppendQualification, ReturnBatch, Freezing, TypeOK
    <2>8. CASE \/ Consume(c) \/ FillMarker(c) \/ Build(c) \/ FillCompletion(c)
               \/ WriteConfirmation(c)
      BY <1>1, <2>1, <2>8 DEF Consume, FillMarker, Build, FillCompletion, WriteConfirmation,
                              Freezing, TypeOK
    <2> QED BY <2>2, <2>3, <2>4, <2>6, <2>7, <2>8 DEF Acts, Step
  <1> QED BY <1>3, <1>4

\* A whole pointer is never touched; a new one is what its caller has seen.
LEMMA StepPointer ==
    ASSUME SealedInv, NEW c \in Callers, Acts(c)
    PROVE  \/ UNCHANGED <<pointer, returned>>
           \/ /\ pointer.file = "absent" /\ pointer'.file = "torn" /\ UNCHANGED returned
           \/ /\ pc[c] \in {"point", "seal"} /\ UNCHANGED ledger
              /\ pointer'.file = "whole" /\ pointer'.events = job[c].seen
              /\ pointer.file = "whole" => pointer' = pointer
              /\ returned' = returned \union ({job[c].id} \ {None})
  <1> USE DEF Goto, Leave
  <1>1. CASE Point(c)
    <2>1. pointer \in [file : {"absent", "torn", "whole"}, events : Seq(Events)]
      BY DEF SealedInv, TypeOK
    <2>2. CASE UNCHANGED pointer /\ SameHead(job[c].seen)
      BY <1>1, <2>2 DEF Point, SameHead
    <2> QED BY <1>1, <2>2 DEF Point
  <1>2. CASE Seal(c)
    <2>1. pointer.file = "torn"
      BY <1>2 DEF Seal, SealedInv, FreezeInv
    <2> QED BY <1>2, <2>1 DEF Seal
  <1>3. CASE \/ \E a \in Authorizations : Qualify(c, a)
             \/ \E q \in Releases : Confirm(c, q)
             \/ FreezeFinal(c) \/ Crash(c) \/ Snapshot(c) \/ Judge(c)
             \/ AppendQualification(c) \/ ReturnBatch(c)
    BY <1>3 DEF Qualify, Confirm, FreezeFinal, Crash, Snapshot, Judge, AppendQualification,
                ReturnBatch
  <1>4. CASE \/ Consume(c) \/ FillMarker(c) \/ Build(c) \/ FillCompletion(c)
             \/ WriteConfirmation(c) \/ AppendConfirmation(c) \/ BuildIndex(c)
    BY <1>4 DEF Consume, FillMarker, Build, FillCompletion, WriteConfirmation,
                AppendConfirmation, BuildIndex
  <1> QED BY <1>1, <1>2, <1>3, <1>4 DEF Acts, Step

LEMMA IdleKeeps ==
    ASSUME SealedInv, NEW c \in Callers, Acts(c)
    PROVE  IdleInv'
  <1>1. TypeOK /\ IdleInv /\ Alone(c)
    BY StepAlone DEF SealedInv
  <1>2. pc'[c] = "idle" => job'[c].id = None
    <2> USE DEF Goto, Leave, TypeOK, NoJob
    <2>1. CASE \/ \E a \in Authorizations : Qualify(c, a)
               \/ \E q \in Releases : Confirm(c, q)
               \/ FreezeFinal(c) \/ Judge(c)
      <3>1. pc' = [pc EXCEPT ![c] = "snapshot"] \/ pc' = [pc EXCEPT ![c] = "consume"]
            \/ pc' = [pc EXCEPT ![c] = "scan"] \/ pc' = [pc EXCEPT ![c] = "event"]
        BY <2>1 DEF Qualify, Confirm, FreezeFinal, Judge
      <3> QED BY <1>1, <3>1
    <2>5. CASE Crash(c) \/ Snapshot(c)
      BY <1>1, <2>5 DEF Crash, Snapshot
    <2>2. CASE AppendQualification(c) \/ ReturnBatch(c)
      BY <1>1, <2>2 DEF AppendQualification, ReturnBatch
    <2>3. CASE \/ Consume(c) \/ FillMarker(c) \/ Build(c) \/ FillCompletion(c)
               \/ WriteConfirmation(c) \/ AppendConfirmation(c) \/ BuildIndex(c)
      BY <1>1, <2>3 DEF Consume, FillMarker, Build, FillCompletion, WriteConfirmation,
                        AppendConfirmation, BuildIndex
    <2>4. CASE Point(c) \/ Seal(c)
      BY <1>1, <2>4 DEF Point, Seal
    <2> QED BY <2>1, <2>2, <2>3, <2>4, <2>5 DEF Acts, Step
  <1> QED BY <1>1, <1>2 DEF IdleInv, Alone

LEMMA FilesKeep ==
    ASSUME SealedInv, NEW c \in Callers, Acts(c)
    PROVE  FilesInv'
  <1>1. /\ TypeOK /\ FilesInv /\ QualifyInv(c) /\ ConfirmInv(c) /\ FreezeInv(c)
        /\ Grown /\ Judged /\ ledger \in Seq(Events)
    BY StepFiles DEF SealedInv, TypeOK
  <1> DEFINE Whole(q) == /\ marker[q].file = "absent" <=> marker[q].by = None
                         /\ completion[q] # None => marker[q].file = "whole"
                         /\ confirmation[q] # None => completion[q] = confirmation[q]
  <1>2. ASSUME NEW q \in Releases
        PROVE  Whole(q)'
    <2>1. CASE Same(q)
      BY <1>1, <2>1 DEF Same, FilesInv
    <2>2. CASE ~Same(q)
      <3>1. /\ q = job[c].id
            /\ pc[c] \in Spending \/ (pc[c] = "consume" /\ marker[q].file = "absent")
        BY <1>1, <2>2, StepReleases
      <3>2. c # None /\ Whole(q)
        BY <1>1, SealedAssumption DEF FilesInv
      <3> USE DEF Goto, Leave, Spending
      <3>3. CASE Consume(c) /\ pc[c] = "consume"
        <4>1. completion[q] = None /\ confirmation[q] = None
          BY <3>1, <3>2, <3>3
        <4>2. \/ marker' = marker
              \/ marker' = [marker EXCEPT ![q] = [by |-> c, file |-> "torn"]]
          BY <3>1, <3>3 DEF Consume
        <4>3. marker'[q] = marker[q] \/ marker'[q] = [by |-> c, file |-> "torn"]
          BY <1>1, <4>2 DEF TypeOK
        <4> QED BY <3>2, <3>3, <4>1, <4>3 DEF Consume
      <3>4. CASE FillMarker(c) /\ pc[c] = "fill"
        <4>1. marker'[q] = [by |-> c, file |-> "whole"]
          BY <1>1, <3>1, <3>4 DEF FillMarker, TypeOK
        <4> QED BY <3>2, <3>4, <4>1 DEF FillMarker
      <3>5. CASE /\ pc[c] \in {"build", "verdict", "write"}
                 /\ Build(c) \/ FillCompletion(c) \/ WriteConfirmation(c)
        <4>1. marker[q] = [by |-> c, file |-> "whole"] /\ marker' = marker
          BY <1>1, <3>1, <3>5 DEF ConfirmInv, Build, FillCompletion, WriteConfirmation
        <4>2. marker'[q].by = c /\ marker'[q].file = "whole"
          BY <4>1
        <4>3. confirmation'[q] # None => completion'[q] = confirmation'[q]
          BY <1>1, <3>1, <3>2, <3>5 DEF ConfirmInv, Build, FillCompletion,
             WriteConfirmation,
                                        TypeOK
        <4> QED BY <3>2, <4>2, <4>3
      <3>6. CASE UNCHANGED layerC
        BY <3>2, <3>6 DEF layerC
      <3>7. CASE AppendConfirmation(c)
        BY <3>6, <3>7 DEF AppendConfirmation
      <3>8. CASE \/ \E a \in Authorizations : Qualify(c, a)
                 \/ \E r \in Releases : Confirm(c, r)
                 \/ FreezeFinal(c) \/ Crash(c) \/ Snapshot(c) \/ Judge(c)
                 \/ AppendQualification(c) \/ ReturnBatch(c)
        BY <3>6, <3>8 DEF Qualify, Confirm, FreezeFinal, Crash, Snapshot, Judge,
                          AppendQualification, ReturnBatch
      <3>9. CASE BuildIndex(c) \/ Point(c) \/ Seal(c)
        BY <3>6, <3>9 DEF BuildIndex, Point, Seal
      <3>10. CASE Consume(c) \/ FillMarker(c) \/ Build(c) \/ FillCompletion(c) \/ WriteConfirmation(c)
        BY <3>3, <3>4, <3>5, <3>10 DEF Consume, FillMarker, Build, FillCompletion,
                                       WriteConfirmation
      <3> QED BY <3>7, <3>8, <3>9, <3>10 DEF Acts, Step
    <2> QED BY <2>1, <2>2
  <1>3. ASSUME NEW a \in batches', NEW k \in 1 .. Candidates
        PROVE  Logged(a, k)'
    <2>1. CASE a \in batches
      BY <1>1, <1>3, <2>1, LoggedStays DEF FilesInv, TypeOK
    <2>2. CASE a \notin batches
      <3>1. pc[c] = "batch" /\ a = job[c].id
        BY <1>3, <2>2 DEF Acts, Step, Qualify, Confirm, FreezeFinal, Crash, Snapshot, Judge,
                          AppendQualification, ReturnBatch, Consume, FillMarker, Build,
                          FillCompletion, WriteConfirmation, AppendConfirmation, BuildIndex,
                          Point, Seal, layerB, Goto, Leave
      <3>2. a \in Authorizations /\ Logged(a, k)
        BY <1>1, <1>3, <3>1, SealedAssumption DEF QualifyInv, Qualifying
      <3> QED BY <1>1, <1>3, <3>2, LoggedStays
    <2> QED BY <2>1, <2>2
  <1>4. pointer'.file = "whole" => Before(pointer'.events, ledger')
    <2>1. pointer.events \in Seq(Events)
      BY <1>1 DEF TypeOK
    <2>2. CASE UNCHANGED pointer
      BY <1>1, <2>1, <2>2, BeforeGrows DEF FilesInv
    <2>3. CASE pc[c] \in {"point", "seal"} /\ UNCHANGED ledger /\ pointer'.events = job[c].seen
      BY <1>1, <2>3 DEF FreezeInv
    <2> QED BY <2>2, <2>3, StepPointer
  <1> QED BY <1>2, <1>3, <1>4 DEF FilesInv

LEMMA OneVerdictKeeps ==
    ASSUME SealedInv, NEW c \in Callers, Acts(c)
    PROVE  OneVerdict'
  <1>1. /\ TypeOK /\ OneVerdict /\ QualifyInv(c) /\ ConfirmInv(c) /\ Grown
        /\ ledger \in Seq(Events) /\ Len(ledger) \in Nat
    BY StepFiles DEF SealedInv, Confirmed, TypeOK
  \* The old confirmations.
  <1>2. ASSUME NEW i \in 1 .. Len(ledger), ledger[i].kind = "confirmation"
        PROVE  /\ ledger[i].id \in Releases
               /\ ledger[i].verdict = confirmation'[ledger[i].id]
               /\ ledger[i].verdict = completion'[ledger[i].id]
               /\ marker'[ledger[i].id].file = "whole"
               /\ \A j \in 1 .. Len(ledger) :
                     ledger[j].kind = "confirmation" /\ ledger[j].id = ledger[i].id => j = i
    <2>1. ledger[i] \in Events
      BY <1>1, <1>2
    <2>2. ledger[i].id \in Releases
      BY <1>2, <2>1 DEF Events
    <2>3. EventOf(ledger[i].id, ledger)
      BY <1>2 DEF EventOf
    <2>4. Same(ledger[i].id)
      BY <2>2, <2>3, DecidedSame
    <2> QED BY <1>1, <1>2, <2>2, <2>4 DEF OneVerdict, Same
  <1>3. CASE ledger' = ledger
    BY <1>2, <1>3 DEF OneVerdict
  <1>4. CASE AppendQualification(c)
    <2> DEFINE e == QualificationEvent(job[c].id, job[c].at, job[c].verdict)
    <2>1. /\ job[c].id \in Authorizations /\ job[c].at \in 1 .. Candidates
          /\ job[c].verdict \in Verdicts
      BY <1>1, <1>4 DEF AppendQualification, Goto, QualifyInv, Qualifying
    <2>2. e \in Events /\ e.kind = "qualification" /\ ledger' = Append(ledger, e)
      BY <1>4, <2>1 DEF AppendQualification, QualificationEvent, Events
    <2> HIDE DEF e
    <2>3. /\ Len(ledger') = Len(ledger) + 1 /\ ledger'[Len(ledger) + 1] = e
          /\ \A i \in 1 .. Len(ledger) : ledger'[i] = ledger[i]
      BY <1>1, <2>2, AppendProperties
    <2>4. \A i \in 1 .. Len(ledger') :
             ledger'[i].kind = "confirmation" => i \in 1 .. Len(ledger) /\ ledger'[i] = ledger[i]
      BY <1>1, <2>2, <2>3
    <2> QED BY <1>2, <2>4 DEF OneVerdict
  <1>5. CASE AppendConfirmation(c)
    <2> DEFINE e == ConfirmationEvent(job[c].id, job[c].verdict)
               r == job[c].id
    <2>1. /\ r \in Releases /\ job[c].verdict \in Verdicts
          /\ completion[r] = job[c].verdict /\ confirmation[r] = job[c].verdict
          /\ marker[r] = [by |-> c, file |-> "whole"] /\ ~EventOf(r, ledger)
          /\ UNCHANGED <<marker, completion, confirmation>>
      BY <1>1, <1>5 DEF AppendConfirmation, Goto, ConfirmInv, Spending, layerC
    <2>2. target[r].candidate \in 1 .. Candidates
      BY <1>1, <2>1 DEF TypeOK, Targets
    <2>3. /\ e \in Events /\ e.kind = "confirmation" /\ e.id = r /\ e.verdict = job[c].verdict
          /\ ledger' = Append(ledger, e)
      BY <1>5, <2>1, <2>2 DEF AppendConfirmation, ConfirmationEvent, Events
    <2> HIDE DEF e, r
    <2>4. /\ Len(ledger') = Len(ledger) + 1 /\ ledger'[Len(ledger) + 1] = e
          /\ \A i \in 1 .. Len(ledger) : ledger'[i] = ledger[i]
      BY <1>1, <2>3, AppendProperties
    <2>5. \A i \in 1 .. Len(ledger) : ~(ledger[i].kind = "confirmation" /\ ledger[i].id = r)
      BY <2>1 DEF EventOf
    <2>6. marker'[r].file = "whole" /\ completion'[r] = e.verdict /\ confirmation'[r] = e.verdict
      BY <2>1, <2>3
    <2>7. ASSUME NEW i \in 1 .. Len(ledger'), ledger'[i].kind = "confirmation"
          PROVE  /\ ledger'[i].verdict = confirmation'[ledger'[i].id]
                 /\ ledger'[i].verdict = completion'[ledger'[i].id]
                 /\ marker'[ledger'[i].id].file = "whole"
                 /\ \A j \in 1 .. Len(ledger') :
                       ledger'[j].kind = "confirmation" /\ ledger'[j].id = ledger'[i].id => j = i
      <3>1. CASE i = Len(ledger) + 1
        BY <1>1, <2>3, <2>4, <2>5, <2>6, <3>1
      <3>2. CASE i \in 1 .. Len(ledger)
        <4>1. ledger[i].id # r
          BY <2>4, <2>5, <2>7, <3>2
        <4> QED BY <1>1, <1>2, <2>3, <2>4, <2>7, <3>2, <4>1
      <3> QED BY <1>1, <2>4, <2>7, <3>1, <3>2
    <2> QED BY <2>7 DEF OneVerdict
  <1>6. CASE \/ \E a \in Authorizations : Qualify(c, a)
             \/ \E q \in Releases : Confirm(c, q)
             \/ FreezeFinal(c) \/ Crash(c) \/ Snapshot(c) \/ Judge(c) \/ ReturnBatch(c)
    BY <1>3, <1>6 DEF Qualify, Confirm, FreezeFinal, Crash, Snapshot, Judge, ReturnBatch
  <1>7. CASE \/ Consume(c) \/ FillMarker(c) \/ Build(c) \/ FillCompletion(c)
             \/ WriteConfirmation(c) \/ BuildIndex(c) \/ Point(c) \/ Seal(c)
    BY <1>3, <1>7 DEF Consume, FillMarker, Build, FillCompletion, WriteConfirmation,
                      BuildIndex, Point, Seal
  <1> QED BY <1>4, <1>5, <1>6, <1>7 DEF Acts, Step

LEMMA QualifiedFirstKeeps ==
    ASSUME SealedInv, NEW c \in Callers, Acts(c)
    PROVE  QualifiedFirst'
  <1>1. /\ TypeOK /\ QualifiedFirst /\ QualifyInv(c) /\ ConfirmInv(c)
        /\ ledger \in Seq(Events) /\ Len(ledger) \in Nat /\ target' = target
    BY StepMoves DEF SealedInv, Confirmed, TypeOK
  <1>2. CASE ledger' = ledger
    BY <1>1, <1>2 DEF QualifiedFirst
  <1>3. CASE AppendQualification(c)
    <2> DEFINE e == QualificationEvent(job[c].id, job[c].at, job[c].verdict)
    <2>1. /\ job[c].id \in Authorizations /\ job[c].at \in 1 .. Candidates
          /\ job[c].verdict \in Verdicts
      BY <1>1, <1>3 DEF AppendQualification, Goto, QualifyInv, Qualifying
    <2>2. e \in Events /\ e.kind = "qualification" /\ ledger' = Append(ledger, e)
      BY <1>3, <2>1 DEF AppendQualification, QualificationEvent, Events
    <2> HIDE DEF e
    <2>3. /\ Len(ledger') = Len(ledger) + 1 /\ ledger'[Len(ledger) + 1] = e
          /\ \A i \in 1 .. Len(ledger) : ledger'[i] = ledger[i]
      BY <1>1, <2>2, AppendProperties
    <2>4. ASSUME NEW i \in 1 .. Len(ledger'), ledger'[i].kind = "confirmation"
          PROVE  \E j \in 1 .. (i - 1) :
                    ledger'[j] = QualificationEvent(target'[ledger'[i].id].authorization,
                                                    ledger'[i].candidate, "yes")
      <3>1. i \in 1 .. Len(ledger) /\ ledger'[i] = ledger[i]
        BY <1>1, <2>2, <2>3, <2>4
      <3>2. PICK j \in 1 .. (i - 1) :
              ledger[j] = QualificationEvent(target[ledger[i].id].authorization,
                                             ledger[i].candidate, "yes")
        BY <1>1, <2>4, <3>1 DEF QualifiedFirst
      <3>3. ledger'[j] = ledger[j]
        BY <1>1, <2>3, <3>1
      <3> QED BY <1>1, <3>1, <3>2, <3>3
    <2> QED BY <2>4 DEF QualifiedFirst
  <1>4. CASE AppendConfirmation(c)
    <2> DEFINE e == ConfirmationEvent(job[c].id, job[c].verdict)
    <2>1. PICK r \in Releases : r = job[c].id
      BY <1>1, <1>4 DEF AppendConfirmation, Goto, ConfirmInv, Spending
    <2>2. /\ job[c].verdict \in Verdicts /\ Releasable(r)
      BY <1>1, <1>4, <2>1 DEF AppendConfirmation, Goto, ConfirmInv, Spending
    <2>3. target[r].candidate \in 1 .. Candidates
      BY <1>1, <2>1 DEF TypeOK, Targets
    <2>4. /\ e \in Events /\ e.id = r /\ e.candidate = target[r].candidate
          /\ ledger' = Append(ledger, e)
      BY <1>4, <2>1, <2>2, <2>3 DEF AppendConfirmation, ConfirmationEvent, Events
    <2>5. PICK k \in 1 .. Len(ledger) :
            ledger[k] = QualificationEvent(target[r].authorization, target[r].candidate, "yes")
      <3>1. Logged(target[r].authorization, target[r].candidate)
        BY <2>2, <2>3 DEF Releasable, SealedInv, FilesInv
      <3> QED BY <2>2, <3>1 DEF Logged, Releasable
    <2> HIDE DEF e
    <2>6. /\ Len(ledger') = Len(ledger) + 1 /\ ledger'[Len(ledger) + 1] = e
          /\ \A i \in 1 .. Len(ledger) : ledger'[i] = ledger[i]
      BY <1>1, <2>4, AppendProperties
    <2>7. ASSUME NEW i \in 1 .. Len(ledger'), ledger'[i].kind = "confirmation"
          PROVE  \E j \in 1 .. (i - 1) :
                    ledger'[j] = QualificationEvent(target'[ledger'[i].id].authorization,
                                                    ledger'[i].candidate, "yes")
      <3>1. CASE i \in 1 .. Len(ledger)
        <4>1. ledger'[i] = ledger[i]
          BY <2>6, <3>1
        <4>2. PICK j \in 1 .. (i - 1) :
                ledger[j] = QualificationEvent(target[ledger[i].id].authorization,
                                               ledger[i].candidate, "yes")
          BY <1>1, <2>7, <3>1, <4>1 DEF QualifiedFirst
        <4>3. ledger'[j] = ledger[j]
          BY <1>1, <2>6, <3>1
        <4> QED BY <1>1, <4>1, <4>2, <4>3
      <3>2. CASE i = Len(ledger) + 1
        <4>1. k \in 1 .. (i - 1) /\ ledger'[k] = ledger[k] /\ ledger'[i] = e
          BY <1>1, <2>6, <3>2
        <4> QED BY <1>1, <2>4, <2>5, <4>1
      <3> QED BY <1>1, <2>6, <2>7, <3>1, <3>2
    <2> QED BY <2>7 DEF QualifiedFirst
  <1>5. CASE \/ \E a \in Authorizations : Qualify(c, a)
             \/ \E q \in Releases : Confirm(c, q)
             \/ FreezeFinal(c) \/ Crash(c) \/ Snapshot(c) \/ Judge(c) \/ ReturnBatch(c)
    BY <1>2, <1>5 DEF Qualify, Confirm, FreezeFinal, Crash, Snapshot, Judge, ReturnBatch
  <1>6. CASE \/ Consume(c) \/ FillMarker(c) \/ Build(c) \/ FillCompletion(c)
             \/ WriteConfirmation(c) \/ BuildIndex(c) \/ Point(c) \/ Seal(c)
    BY <1>2, <1>6 DEF Consume, FillMarker, Build, FillCompletion, WriteConfirmation,
                      BuildIndex, Point, Seal
  <1> QED BY <1>3, <1>4, <1>5, <1>6 DEF Acts, Step

LEMMA ReturnedKeeps ==
    ASSUME SealedInv, NEW c \in Callers, Acts(c)
    PROVE  ReturnedIsIndexed'
  <1>1. ReturnedIsIndexed /\ FreezeInv(c)
    BY DEF SealedInv, Confirmed
  <1>2. CASE UNCHANGED <<pointer, returned>>
    BY <1>1, <1>2 DEF ReturnedIsIndexed
  <1>3. CASE pointer.file = "absent" /\ UNCHANGED returned
    BY <1>1, <1>3 DEF ReturnedIsIndexed
  <1>4. CASE /\ pc[c] \in {"point", "seal"}
             /\ pointer'.file = "whole" /\ pointer'.events = job[c].seen
             /\ pointer.file = "whole" => pointer' = pointer
             /\ returned' = returned \union ({job[c].id} \ {None})
    BY <1>1, <1>4 DEF ReturnedIsIndexed, FreezeInv
  <1> QED BY <1>2, <1>3, <1>4, StepPointer

LEMMA InitSealed ==
    ASSUME Init
    PROVE  SealedInv
  <1>1. <<>> \in Seq(Events) /\ Len(<<>>) = 0
    OBVIOUS
  <1>2. TypeOK
    <2>1. NoJob \in Jobs
      BY <1>1 DEF NoJob, Jobs
    <2>2. /\ [by |-> None, file |-> "absent"] \in [by : Callers \union {None},
                                                   file : {"absent", "torn", "whole"}]
          /\ [file |-> "absent", events |-> <<>>] \in [file : {"absent", "torn", "whole"},
                                                       events : Seq(Events)]
      BY <1>1
    <2>3. /\ job \in [Callers -> Jobs]
          /\ marker \in [Releases -> [by : Callers \union {None},
                                      file : {"absent", "torn", "whole"}]]
          /\ pointer \in [file : {"absent", "torn", "whole"}, events : Seq(Events)]
      BY <2>1, <2>2 DEF Init
    <2> QED BY <1>1, <2>3 DEF Init, TypeOK, Jobs
  <1>3. IdleInv
    BY DEF Init, IdleInv, NoJob
  <1>4. FilesInv
    BY <1>1 DEF Init, FilesInv
  <1>5. Confirmed
    BY <1>1 DEF Init, Confirmed, OneVerdict, QualifiedFirst, ReturnedIsIndexed
  <1>6. \A c \in Callers : QualifyInv(c) /\ ConfirmInv(c) /\ FreezeInv(c)
    BY DEF Init, QualifyInv, ConfirmInv, FreezeInv, Qualifying, Spending, Freezing
  <1> QED BY <1>2, <1>3, <1>4, <1>5, <1>6 DEF SealedInv

LEMMA NextSealed ==
    ASSUME SealedInv, [Next]_vars
    PROVE  SealedInv'
  <1>1. CASE Next
    <2>1. PICK c \in Callers : Acts(c)
      BY <1>1 DEF Next, Acts
    <2>2. TypeOK'
      BY <2>1, StepTypes DEF SealedInv
    <2>3. \A d \in Callers : QualifyInv(d)' /\ ConfirmInv(d)' /\ FreezeInv(d)'
      BY <2>1, QualifyKeeps, ConfirmKeeps, FreezeKeeps
    <2>4. IdleInv' /\ FilesInv' /\ OneVerdict' /\ QualifiedFirst' /\ ReturnedIsIndexed'
      BY <2>1, IdleKeeps, FilesKeep, OneVerdictKeeps, QualifiedFirstKeeps, ReturnedKeeps
    <2> QED BY <2>2, <2>3, <2>4 DEF SealedInv, Confirmed
  <1>2. CASE UNCHANGED vars
    BY <1>2 DEF vars, SealedInv, TypeOK, IdleInv, FilesInv, Logged, Confirmed, OneVerdict,
                QualifiedFirst, ReturnedIsIndexed, QualifyInv, ConfirmInv, FreezeInv, EventOf,
                Releasable, Before
  <1> QED BY <1>1, <1>2

-----------------------------------------------------------------------------
\* The invariant of the sealed layers holds for all callers, killed wherever they may be.
THEOREM SealedInvariant == Spec => []SealedInv
  <1>1. Init => SealedInv
    BY InitSealed
  <1>2. SealedInv /\ [Next]_vars => SealedInv'
    BY NextSealed
  <1> QED BY <1>1, <1>2, PTL DEF Spec

\* A release has one verdict, of a candidate that was qualified first, and what a
\* returning call wrote is under the final index.
THEOREM ReleasesAreConfirmed == Spec => []Confirmed
  <1>1. SealedInv => Confirmed
    BY DEF SealedInv
  <1> QED BY <1>1, SealedInvariant, PTL

-----------------------------------------------------------------------------
(* The refinement. *)

spentBy == [r \in Releases |-> marker[r].by]
verdicts == [r \in Releases |-> IF EventOf(r, ledger) THEN confirmation[r] ELSE None]
indexed == IF pointer.file # "whole" THEN None
           ELSE [r \in Releases |-> IF EventOf(r, pointer.events) THEN confirmation[r] ELSE None]

\* A release of which nothing changes keeps its place in the view.
LEMMA SameView ==
    ASSUME SealedInv, NEW c \in Callers, Acts(c), NEW q \in Releases, Same(q)
    PROVE  spentBy'[q] = spentBy[q] /\ verdicts'[q] = verdicts[q]
  <1>1. EventOf(q, ledger) => EventOf(q, ledger')
    BY StepFiles, LedgerGrows, EventsGrow DEF SealedInv, TypeOK
  <1> QED BY <1>1 DEF Same, spentBy, verdicts

\* What a whole pointer covers is decided, and stays so.
LEMMA IndexedStays ==
    ASSUME SealedInv, NEW c \in Callers, Acts(c), pointer.file = "whole"
    PROVE  indexed' = indexed
  <1>1. pointer' = pointer
    BY StepPointer
  <1>2. ASSUME NEW q \in Releases, EventOf(q, pointer.events)
        PROVE  confirmation'[q] = confirmation[q]
    <2>1. EventOf(q, ledger)
      BY <1>2, EventsGrow DEF SealedInv, FilesInv, TypeOK
    <2> QED BY <2>1, DecidedSame DEF Same
  <1> QED BY <1>1, <1>2 DEF indexed

Unmoved == spentBy' = spentBy /\ verdicts' = verdicts

\* Outside Consume and AppendConfirmation the view of the releases is left alone.
LEMMA ViewUnmoved ==
    ASSUME SealedInv, NEW c \in Callers, Acts(c),
           marker' # marker => FillMarker(c), ledger' # ledger => AppendQualification(c)
    PROVE  Unmoved
  <1>1. TypeOK /\ ConfirmInv(c) /\ QualifyInv(c)
    BY DEF SealedInv
  <1>2. ASSUME NEW q \in Releases
        PROVE  spentBy'[q] = spentBy[q] /\ verdicts'[q] = verdicts[q]
    <2>1. CASE Same(q)
      BY <2>1, SameView
    <2>2. CASE ~Same(q)
      <3>1. /\ q = job[c].id
            /\ pc[c] \in Spending \/ (pc[c] = "consume" /\ marker[q].file = "absent")
        BY <1>1, <2>2, StepReleases
      <3>2. ~EventOf(q, ledger)
        BY <1>1, <3>1 DEF ConfirmInv, SealedInv, Confirmed, OneVerdict, EventOf
      <3>3. ledger' = ledger
        BY <3>1 DEF AppendQualification, Goto, Spending
      <3>4. marker'[q].by = marker[q].by
        <4>1. CASE FillMarker(c)
          <5>1. marker[q] = [by |-> c, file |-> "torn"]
            BY <1>1, <3>1, <4>1 DEF FillMarker, Goto, ConfirmInv, Spending
          <5>2. marker'[q] = [by |-> c, file |-> "whole"]
            BY <1>1, <3>1, <4>1 DEF FillMarker, TypeOK
          <5> QED BY <5>1, <5>2
        <4> QED BY <4>1
      <3> QED BY <3>2, <3>3, <3>4 DEF spentBy, verdicts, EventOf
    <2> QED BY <2>1, <2>2
  <1> QED BY <1>2 DEF Unmoved, spentBy, verdicts

LEMMA StepShot ==
    ASSUME SealedInv, NEW c \in Callers, Acts(c)
    PROVE  \/ Unmoved /\ indexed' = indexed
           \/ \E r \in Releases :
                 /\ spentBy[r] = None /\ spentBy' = [spentBy EXCEPT ![r] = c]
                 /\ verdicts' = verdicts /\ indexed' = indexed
           \/ \E r \in Releases, v \in Verdicts :
                 /\ spentBy[r] = c /\ verdicts[r] = None
                 /\ verdicts' = [verdicts EXCEPT ![r] = v]
                 /\ spentBy' = spentBy /\ indexed' = indexed
           \/ /\ indexed = None /\ Unmoved
              /\ indexed' \in [Releases -> Verdicts \union {None}]
              /\ \A r \in Releases : indexed'[r] \in {None, verdicts[r]}
  <1>1. TypeOK /\ ConfirmInv(c) /\ QualifyInv(c) /\ FreezeInv(c) /\ ledger \in Seq(Events)
    BY DEF SealedInv, TypeOK
  <1>2. pointer.file = "whole" \/ pointer'.file # "whole" => indexed' = indexed
    <2>1. CASE pointer.file = "whole"
      BY <2>1, IndexedStays
    <2>2. CASE pointer.file # "whole" /\ pointer'.file # "whole"
      BY <2>2 DEF indexed
    <2> QED BY <2>1, <2>2
  <1>3. CASE Consume(c)
    <2>1. PICK r \in Releases : r = job[c].id
      BY <1>1, <1>3 DEF Consume, Goto, Leave, ConfirmInv
    <2>2. UNCHANGED <<ledger, confirmation, pointer>>
      BY <1>3 DEF Consume
    <2>3. verdicts' = verdicts /\ indexed' = indexed
      BY <2>2 DEF verdicts, indexed, EventOf
    <2>4. CASE marker' = marker
      BY <2>3, <2>4 DEF Unmoved, spentBy
    <2>5. CASE marker' # marker
      <3>1. /\ marker[r].file = "absent"
            /\ marker' = [marker EXCEPT ![r] = [by |-> c, file |-> "torn"]]
        BY <1>3, <2>1, <2>5 DEF Consume, Unspent
      <3>2. spentBy[r] = None
        BY <3>1 DEF spentBy, SealedInv, FilesInv
      <3>3. spentBy' = [spentBy EXCEPT ![r] = c]
        BY <1>1, <3>1 DEF spentBy, TypeOK
      <3> QED BY <2>3, <3>2, <3>3
    <2> QED BY <2>4, <2>5
  <1>4. CASE AppendConfirmation(c)
    <2>1. PICK r \in Releases, v \in Verdicts : r = job[c].id /\ v = job[c].verdict
      BY <1>1, <1>4 DEF AppendConfirmation, Goto, ConfirmInv, Spending
    <2>2. /\ marker[r] = [by |-> c, file |-> "whole"] /\ ~EventOf(r, ledger)
          /\ confirmation[r] = v /\ UNCHANGED <<marker, confirmation, pointer>>
      BY <1>1, <1>4, <2>1 DEF AppendConfirmation, Goto, ConfirmInv, Spending, layerC
    <2>3. spentBy[r] = c /\ spentBy' = spentBy /\ verdicts[r] = None
      BY <2>2 DEF spentBy, verdicts
    <2>4. indexed' = indexed
      BY <2>2 DEF indexed, EventOf
    <2>5. EventOf(r, ledger')
      <3> DEFINE e == ConfirmationEvent(r, v)
      <3>1. target[r].candidate \in 1 .. Candidates
        BY <1>1 DEF TypeOK, Targets
      <3>2. e \in Events /\ e.kind = "confirmation" /\ e.id = r /\ ledger' = Append(ledger, e)
        BY <1>4, <2>1, <3>1 DEF AppendConfirmation, ConfirmationEvent, Events
      <3> HIDE DEF e
      <3>3. Len(ledger) + 1 \in 1 .. Len(ledger') /\ ledger'[Len(ledger) + 1] = e
        BY <1>1, <3>2, AppendProperties
      <3> QED BY <3>2, <3>3 DEF EventOf
    <2>6. ASSUME NEW q \in Releases, q # r
          PROVE  verdicts'[q] = verdicts[q]
      <3>1. Same(q)
        BY <1>1, <2>1, <2>6, StepReleases
      <3> QED BY <3>1, SameView
    <2>7. verdicts'[r] = v
      BY <2>2, <2>5 DEF verdicts
    <2>8. verdicts' = [verdicts EXCEPT ![r] = v]
      BY <2>6, <2>7 DEF verdicts
    <2> QED BY <2>1, <2>3, <2>4, <2>8
  <1>5. CASE Point(c) \/ Seal(c)
    <2>1. UNCHANGED <<ledger, layerC>>
      BY <1>5 DEF Point, Seal
    <2>2. Unmoved
      BY <2>1 DEF Unmoved, spentBy, verdicts, EventOf, layerC
    <2>3. CASE pointer.file = "whole" \/ pointer'.file # "whole"
      BY <1>2, <2>2, <2>3
    <2>4. CASE pointer.file # "whole" /\ pointer'.file = "whole"
      <3>1. pc[c] \in {"point", "seal"} /\ pointer'.events = job[c].seen
        BY <2>4, StepPointer
      <3>2. Before(job[c].seen, ledger) /\ job[c].seen \in Seq(Events)
        BY <1>1, <3>1 DEF FreezeInv, TypeOK
      <3>3. \A r : EventOf(r, job[c].seen) => EventOf(r, ledger)
        BY <1>1, <3>2, EventsGrow
      <3>4. indexed' = [r \in Releases |-> IF EventOf(r, job[c].seen) THEN confirmation[r]
                                                                      ELSE None]
        BY <2>1, <2>4, <3>1 DEF indexed, layerC
      <3>5. indexed = None
        BY <2>4 DEF indexed
      <3>6. indexed' \in [Releases -> Verdicts \union {None}]
        BY <1>1, <3>4 DEF TypeOK
      <3>7. \A r \in Releases : indexed'[r] \in {None, verdicts[r]}
        BY <3>3, <3>4 DEF verdicts
      <3> QED BY <2>2, <3>5, <3>6, <3>7
    <2> QED BY <2>3, <2>4
  <1>6. CASE \/ \E a \in Authorizations : Qualify(c, a)
             \/ \E q \in Releases : Confirm(c, q)
             \/ FreezeFinal(c) \/ Crash(c) \/ Snapshot(c) \/ Judge(c)
             \/ AppendQualification(c) \/ ReturnBatch(c)
    <2>1. /\ marker' # marker => FillMarker(c)
          /\ ledger' # ledger => AppendQualification(c)
          /\ UNCHANGED pointer
      BY <1>6 DEF Qualify, Confirm, FreezeFinal, Crash, Snapshot, Judge,
         AppendQualification,
                  ReturnBatch, layerC
    <2> QED BY <1>2, <2>1, ViewUnmoved
  <1>7. CASE \/ FillMarker(c) \/ Build(c) \/ FillCompletion(c) \/ WriteConfirmation(c)
             \/ BuildIndex(c)
    <2>1. /\ marker' # marker => FillMarker(c)
          /\ ledger' # ledger => AppendQualification(c)
          /\ UNCHANGED pointer
      BY <1>7 DEF FillMarker, Build, FillCompletion, WriteConfirmation, BuildIndex, layerC
    <2> QED BY <1>2, <2>1, ViewUnmoved
  <1> QED BY <1>3, <1>4, <1>5, <1>6, <1>7 DEF Acts, Step

\* The sealed layers implement the abstract one-shot release.
THEOREM ReleasesAreOneShot == Spec => ImplementsOneShot
  <1>1. Init => OneShotView!ShotInit
    <2> SUFFICES ASSUME Init
                 PROVE  OneShotView!ShotInit
      OBVIOUS
    <2>1. \A r : ~EventOf(r, ledger)
      BY DEF Init, EventOf
    <2> QED BY <2>1 DEF Init, OneShotView!ShotInit
  <1>2. SealedInv /\ [Next]_vars => [OneShotView!ShotNext]_(OneShotView!shot)
    <2> SUFFICES ASSUME SealedInv, [Next]_vars
                 PROVE  OneShotView!ShotNext \/ UNCHANGED OneShotView!shot
      OBVIOUS
    <2>1. CASE UNCHANGED vars
      BY <2>1 DEF vars, layerB, layerC, OneShotView!shot, EventOf
    <2>2. CASE Next
      <3>1. PICK c \in Callers : Acts(c)
        BY <2>2 DEF Next, Acts
      <3>2. CASE Unmoved /\ indexed' = indexed
        BY <3>2 DEF Unmoved, spentBy, verdicts, indexed, OneShotView!shot
      <3>3. CASE \E r \in Releases :
                    /\ spentBy[r] = None /\ spentBy' = [spentBy EXCEPT ![r] = c]
                    /\ verdicts' = verdicts /\ indexed' = indexed
        <4>1. PICK r \in Releases : OneShotView!Spend(c, r)
          BY <3>3 DEF spentBy, verdicts, indexed, OneShotView!Spend
        <4> QED BY <4>1 DEF OneShotView!ShotNext
      <3>4. CASE \E r \in Releases, v \in Verdicts :
                    /\ spentBy[r] = c /\ verdicts[r] = None
                    /\ verdicts' = [verdicts EXCEPT ![r] = v]
                    /\ spentBy' = spentBy /\ indexed' = indexed
        <4>1. PICK r \in Releases, v \in Verdicts : OneShotView!Decide(c, r, v)
          BY <3>4 DEF spentBy, verdicts, indexed, OneShotView!Decide
        <4> QED BY <4>1 DEF OneShotView!ShotNext
      <3>5. CASE /\ indexed = None /\ Unmoved
                 /\ indexed' \in [Releases -> Verdicts \union {None}]
                 /\ \A r \in Releases : indexed'[r] \in {None, verdicts[r]}
        <4>1. OneShotView!Cover
          BY <3>5 DEF Unmoved, spentBy, verdicts, indexed, OneShotView!Cover
        <4> QED BY <4>1 DEF OneShotView!ShotNext
      <3> QED BY <3>1, <3>2, <3>3, <3>4, <3>5, StepShot
    <2> QED BY <2>1, <2>2
  <1> QED BY <1>1, <1>2, SealedInvariant, PTL DEF Spec, ImplementsOneShot, OneShotView!ShotSpec

=============================================================================
