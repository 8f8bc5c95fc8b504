-------------------------- MODULE RemoteRunProofs --------------------------
(***************************************************************************)
(* Proofs about RemoteRun, for every set of runs, of their kinds and of    *)
(* the runs they read, and every number of requests, preemptions and       *)
(* faults.                                                                 *)
(*                                                                         *)
(* RemoteInv is inductive.  Each step is a step of one run r.  What a run  *)
(* says of itself (Own) depends on no other run, so that it is enough to   *)
(* follow r; what it concludes from its source (SourceInv, Grounded) stays *)
(* so because a directory with a whole manifest is never changed, which    *)
(* follows from Own in turn.                                               *)
(***************************************************************************)
EXTENDS RemoteRun, TLAPS

-----------------------------------------------------------------------------
(* Types, and what a step of one run leaves alone. *)

Places == {"idle", "lease", "provenance", "bind", "act", "run", "publish", "salvage",
           "record", "result", "manifest", "commit", "done", "raised", "gone"}

Ledgers == [ledger : {"missing", "open", "torn"}, records : 0 .. MaxRequests,
            asked : 0 .. MaxRequests]

\* A function changed at one place only.
LEMMA Update ==
    ASSUME NEW S, NEW f \in [Runs -> S], NEW g, NEW r \in Runs, NEW v \in S,
           g = f \/ g = [f EXCEPT ![r] = v]
    PROVE  g \in [Runs -> S] /\ \A q \in Runs : q # r => g[q] = f[q]
  OBVIOUS

LEMMA Blank ==
    /\ Absent \in Directories /\ [Absent EXCEPT !.there = TRUE] \in Directories
    /\ Unstaged \in Ledgers
  <1>1. 0 \in 0 .. MaxRequests
    BY RemoteAssumption
  <1>2. Absent \in Directories
    BY <1>1 DEF Directories, Absent
  <1>3. [Absent EXCEPT !.there = TRUE] \in Directories
    BY <1>2 DEF Directories
  <1> QED BY <1>1, <1>2, <1>3 DEF Ledgers, Unstaged

\* The step is one of run r, and keeps the types.
Moves(r) ==
    /\ pc' \in [Runs -> Places] /\ \A q \in Runs : q # r => pc'[q] = pc[q]
    /\ starts' \in [Runs -> Nat] /\ \A q \in Runs : q # r => starts'[q] = starts[q]
    /\ sent' \in [Runs -> Nat] /\ \A q \in Runs : q # r => sent'[q] = sent[q]
    /\ unwritten' \in [Runs -> Nat] /\ \A q \in Runs : q # r => unwritten'[q] = unwritten[q]
    /\ quarantined' \subseteq Runs
    /\ \A q \in Runs : q # r => (q \in quarantined' <=> q \in quarantined)

LEMMA StepMoves ==
    ASSUME TypeOK, NEW r \in Runs, Step(r) \/ Platform(r)
    PROVE  Moves(r)
  <1>1. PICK to \in Places : pc' = pc \/ pc' = [pc EXCEPT ![r] = to]
    <2> USE DEF Goto, Raises, Places
    <2>1. CASE Begin(r) \/ Lease(r) \/ Provenance(r) \/ CommitLease(r)
      BY <2>1 DEF Begin, Lease, Provenance, CommitLease
    <2>2. CASE Start(r) \/ Expose(r) \/ RunChild(r) \/ InitLedger(r) \/ Send(r)
      BY <2>2 DEF Start, Expose, RunChild, InitLedger, Send
    <2>3. CASE Record(r) \/ ChildEnds(r) \/ ChildFails(r) \/ GroupLeft(r)
      BY <2>3 DEF Record, ChildEnds, ChildFails, GroupLeft
    <2>4. CASE Publish(r) \/ Salvage(r)
      BY <2>4 DEF Publish, Salvage, PublishOne
    <2>5. CASE RecordFailure(r) \/ Inspect(r) \/ WriteResult(r) \/ WriteManifest(r) \/ CommitRun(r)
      BY <2>5 DEF RecordFailure, Inspect, WriteResult, WriteManifest, CommitRun
    <2>6. CASE Platform(r)
      BY <2>6 DEF Platform, BackgroundCommit, Preempt, TimeOut, ShutDown, Vanish
    <2> QED BY <2>1, <2>2, <2>3, <2>4, <2>5, <2>6 DEF Step
  <1>2. /\ starts' = starts \/ starts' = [starts EXCEPT ![r] = starts[r] + 1]
        /\ sent' = sent \/ sent' = [sent EXCEPT ![r] = sent[r] + 1]
        /\ unwritten' = unwritten \/ unwritten' = [unwritten EXCEPT ![r] = unwritten[r] + 1]
        /\ quarantined' = quarantined \/ quarantined' = quarantined \cup {r}
    <2> USE DEF work, history
    <2>1. CASE Begin(r) \/ Lease(r) \/ Provenance(r) \/ CommitLease(r)
      BY <2>1 DEF Begin, Lease, Provenance, CommitLease
    <2>2. CASE Start(r) \/ Expose(r) \/ RunChild(r) \/ InitLedger(r) \/ Send(r)
      BY <2>2 DEF Start, Expose, RunChild, InitLedger, Send
    <2>3. CASE Record(r) \/ ChildEnds(r) \/ ChildFails(r) \/ GroupLeft(r)
      BY <2>3 DEF Record, ChildEnds, ChildFails, GroupLeft
    <2>4. CASE Publish(r) \/ Salvage(r)
      BY <2>4 DEF Publish, Salvage
    <2>5. CASE RecordFailure(r) \/ Inspect(r) \/ WriteResult(r) \/ WriteManifest(r) \/ CommitRun(r)
      BY <2>5 DEF RecordFailure, Inspect, WriteResult, WriteManifest, CommitRun
    <2>6. CASE Platform(r)
      BY <2>6 DEF Platform, BackgroundCommit, Preempt, TimeOut, ShutDown, Vanish
    <2> QED BY <2>1, <2>2, <2>3, <2>4, <2>5, <2>6 DEF Step
  <1>3. pc' \in [Runs -> Places] /\ \A q \in Runs : q # r => pc'[q] = pc[q]
    <2>1. pc \in [Runs -> Places]
      BY DEF TypeOK, Places
    <2> QED BY <1>1, <2>1, Update
  <1>4. /\ starts' \in [Runs -> Nat] /\ \A q \in Runs : q # r => starts'[q] = starts[q]
        /\ sent' \in [Runs -> Nat] /\ \A q \in Runs : q # r => sent'[q] = sent[q]
        /\ unwritten' \in [Runs -> Nat] /\ \A q \in Runs : q # r => unwritten'[q] = unwritten[q]
    <2>1. /\ starts \in [Runs -> Nat] /\ sent \in [Runs -> Nat] /\ unwritten \in [Runs -> Nat]
          /\ starts[r] + 1 \in Nat /\ sent[r] + 1 \in Nat /\ unwritten[r] + 1 \in Nat
      BY DEF TypeOK
    <2> HIDE DEF TypeOK
    <2>2. /\ starts' \in [Runs -> Nat] /\ \A q \in Runs : q # r => starts'[q] = starts[q]
      BY <1>2, <2>1
    <2>3. /\ sent' \in [Runs -> Nat] /\ \A q \in Runs : q # r => sent'[q] = sent[q]
      BY <1>2, <2>1
    <2>4. /\ unwritten' \in [Runs -> Nat] /\ \A q \in Runs : q # r => unwritten'[q] = unwritten[q]
      BY <1>2, <2>1
    <2> QED BY <2>2, <2>3, <2>4
  <1>5. /\ quarantined' \subseteq Runs
        /\ \A q \in Runs : q # r => (q \in quarantined' <=> q \in quarantined)
    BY <1>2 DEF TypeOK
  <1> QED BY <1>3, <1>4, <1>5 DEF Moves

\* ... the directories,
Writes(r) ==
    /\ local' \in [Runs -> Directories] /\ \A q \in Runs : q # r => local'[q] = local[q]
    /\ volume' \in [Runs -> Directories] /\ \A q \in Runs : q # r => volume'[q] = volume[q]
    /\ seen' \in [Runs -> Directories] /\ \A q \in Runs : q # r => seen'[q] = seen[q]

LEMMA StepWrites ==
    ASSUME TypeOK, NEW r \in Runs, Step(r) \/ Platform(r)
    PROVE  Writes(r)
  <1>1. /\ local \in [Runs -> Directories] /\ volume \in [Runs -> Directories]
        /\ seen \in [Runs -> Directories] /\ staged \in [Runs -> Ledgers]
        /\ batch[r] \subseteq Names /\ passed[r] \in BOOLEAN
        /\ local[r].files \subseteq Names /\ staged[r].records \in 0 .. MaxRequests
        /\ local[r].records \in 0 .. MaxRequests /\ local[r].cut \subseteq Names
    <2>1. /\ local[r].files \subseteq Names /\ local[r].records \in 0 .. MaxRequests
          /\ local[r].cut \subseteq Names
      BY DEF TypeOK, Directories
    <2> QED BY <2>1 DEF TypeOK, Ledgers, Names
  <1>2. \E v \in Directories : local' = local \/ local' = [local EXCEPT ![r] = v]
    <2>1. \A names \in SUBSET Names, n \in 0 .. MaxRequests :
             /\ [local[r] EXCEPT !.files = names] \in Directories
             /\ [local[r] EXCEPT !.files = names, !.records = n] \in Directories
      BY <1>1 DEF Directories
    <2>2. \A names \in SUBSET Names, b \in BOOLEAN :
             /\ [local[r] EXCEPT !.files = names, !.success = b] \in Directories
      BY <1>1 DEF Directories
    <2>3. \A names \in SUBSET Names, m \in {"none", "torn", "whole"} :
             /\ [local[r] EXCEPT !.manifest = m] \in Directories
             /\ [local[r] EXCEPT !.manifest = m, !.lists = names] \in Directories
      BY <1>1 DEF Directories
    <2>4. CASE UNCHANGED local
      BY <2>4, Blank
    <2>5. CASE Begin(r) \/ Lease(r)
      BY <2>5, <1>1, Blank DEF Begin, Lease
    <2>6. CASE \E names \in SUBSET Names : local' = [local EXCEPT ![r].files = names]
      <3>1. PICK names \in SUBSET Names : local' = [local EXCEPT ![r].files = names]
        BY <2>6
      <3>2. [local[r] EXCEPT !.files = names] \in Directories
        BY <1>1 DEF Directories
      <3> QED BY <3>1, <3>2
    <2>7. CASE PublishOne(r)
      <3>1. PICK f \in batch[r] : local' = [local EXCEPT ![r].files = @ \cup {f},
                                 ![r].records = IF f = "ledger" THEN staged[r].records ELSE @]
        BY <2>7 DEF PublishOne
      <3>2. local[r].files \cup {f} \in SUBSET Names /\ (IF f = "ledger" THEN staged[r].records ELSE local[r].records) \in 0 .. MaxRequests
        BY <1>1
      <3> QED BY <3>1, <3>2, <2>1
    <2>8. CASE WriteResult(r)
      <3>1. CASE UNCHANGED local BY <3>1, <2>4
      <3>2. CASE ~UNCHANGED local
        <4>1. PICK name \in Names : local' = [local EXCEPT ![r].files = @ \cup {name}, ![r].success = passed[r]]
          BY <2>8, <3>2 DEF WriteResult, Raises, Names
        <4>2. local[r].files \cup {name} \in SUBSET Names
          BY <1>1
        <4> QED BY <4>1, <4>2, <2>2, <1>1
      <3> QED BY <3>1, <3>2
    <2>9. CASE WriteManifest(r)
      BY <2>9, <2>3, <1>1, Blank DEF WriteManifest
    <2>10. CASE Platform(r)
      BY <2>10, <2>4, Blank DEF Platform, BackgroundCommit, Preempt, TimeOut, ShutDown,
         Vanish
    <2>11. CASE Unpublish(r)
      <3>1. PICK kept \in SUBSET batch[r] :
               local' = [local EXCEPT ![r].files = (@ \ batch[r]) \cup kept,
                                      ![r].cut = @ \cup (kept \ local[r].files)]
        BY <2>11 DEF Unpublish
      <3>2. \A names, cut \in SUBSET Names :
               [local[r] EXCEPT !.files = names, !.cut = cut] \in Directories
        BY <1>1 DEF Directories
      <3>3. /\ (local[r].files \ batch[r]) \cup kept \in SUBSET Names
            /\ local[r].cut \cup (kept \ local[r].files) \in SUBSET Names
        BY <1>1
      <3> QED BY <3>1, <3>2, <3>3
    <2>12. CASE \E names \in {{"context", "image"}, {"context"}, {"failure"}} : Add(r, names)
      <3>1. PICK names \in {{"context", "image"}, {"context"}, {"failure"}} : local' = [local EXCEPT ![r].files = @ \cup names]
        BY <2>12 DEF Add
      <3>2. local[r].files \cup names \in SUBSET Names
        BY <1>1 DEF Names
      <3> QED BY <3>1, <3>2, <2>6
    <2>13. CASE Provenance(r) \/ CommitLease(r) \/ RecordFailure(r) \/ Inspect(r) \/ CommitRun(r)
      BY <2>13, <2>4, <2>12 DEF Provenance, CommitLease, RecordFailure, Inspect,
         CommitRun, Raises
    <2>14. CASE Start(r) \/ Expose(r) \/ RunChild(r) \/ InitLedger(r) \/ Send(r)
      BY <2>14, <2>4, <2>12 DEF Start, Expose, RunChild, InitLedger, Send
    <2>15. CASE Record(r) \/ ChildEnds(r) \/ ChildFails(r) \/ GroupLeft(r)
      BY <2>15, <2>4 DEF Record, ChildEnds, ChildFails, GroupLeft
    <2>16. CASE Publish(r) \/ Salvage(r)
      BY <2>16, <2>4, <2>7, <2>11 DEF Publish, Salvage
    <2> QED BY <2>5, <2>8, <2>9, <2>10, <2>13, <2>14, <2>15, <2>16 DEF Step
  <1>3. volume' = volume \/ volume' = [volume EXCEPT ![r] = local[r]]
    <2> USE DEF Commit
    <2>1. CASE Begin(r) \/ Lease(r) \/ Provenance(r) \/ CommitLease(r)
      BY <2>1 DEF Begin, Lease, Provenance, CommitLease
    <2>2. CASE Start(r) \/ Expose(r) \/ RunChild(r) \/ InitLedger(r) \/ Send(r)
      BY <2>2 DEF Start, Expose, RunChild, InitLedger, Send
    <2>3. CASE Record(r) \/ ChildEnds(r) \/ ChildFails(r) \/ GroupLeft(r)
      BY <2>3 DEF Record, ChildEnds, ChildFails, GroupLeft
    <2>4. CASE Publish(r) \/ Salvage(r)
      BY <2>4 DEF Publish, Salvage
    <2>5. CASE RecordFailure(r) \/ Inspect(r) \/ WriteResult(r) \/ WriteManifest(r) \/ CommitRun(r)
      BY <2>5 DEF RecordFailure, Inspect, WriteResult, WriteManifest, CommitRun
    <2>6. CASE Platform(r)
      BY <2>6 DEF Platform, BackgroundCommit, Preempt, TimeOut, ShutDown, Vanish
    <2> QED BY <2>1, <2>2, <2>3, <2>4, <2>5, <2>6 DEF Step
  <1>4. seen' = seen \/ seen' = [seen EXCEPT ![r] = volume[Source[r]]]
    <2>1. CASE Begin(r) \/ Lease(r) \/ Provenance(r) \/ CommitLease(r)
      BY <2>1 DEF Begin, Lease, Provenance, CommitLease
    <2>2. CASE Start(r) \/ Expose(r) \/ RunChild(r) \/ InitLedger(r) \/ Send(r)
      BY <2>2 DEF Start, Expose, RunChild, InitLedger, Send
    <2>3. CASE Record(r) \/ ChildEnds(r) \/ ChildFails(r) \/ GroupLeft(r)
      BY <2>3 DEF Record, ChildEnds, ChildFails, GroupLeft
    <2>4. CASE Publish(r) \/ Salvage(r)
      BY <2>4 DEF Publish, Salvage
    <2>5. CASE RecordFailure(r) \/ Inspect(r) \/ WriteResult(r) \/ WriteManifest(r) \/ CommitRun(r)
      BY <2>5 DEF RecordFailure, Inspect, WriteResult, WriteManifest, CommitRun
    <2>6. CASE Platform(r)
      BY <2>6 DEF Platform, BackgroundCommit, Preempt, TimeOut, ShutDown, Vanish
    <2> QED BY <2>1, <2>2, <2>3, <2>4, <2>5, <2>6 DEF Step
  <1>5. local[r] \in Directories /\ volume[Source[r]] \in Directories
    BY <1>1, RemoteAssumption
  <1> QED BY <1>1, <1>2, <1>3, <1>4, <1>5, Update DEF Writes


\* ... and the container's work.
Works(r) ==
    /\ kind' = kind
    /\ batch' \in [Runs -> SUBSET {"ledger", "uncertain", "output"}]
    /\ \A q \in Runs : q # r => batch'[q] = batch[q]
    /\ staged' \in [Runs -> Ledgers] /\ \A q \in Runs : q # r => staged'[q] = staged[q]
    /\ inflight' \in [Runs -> BOOLEAN] /\ \A q \in Runs : q # r => inflight'[q] = inflight[q]
    /\ passed' \in [Runs -> BOOLEAN] /\ \A q \in Runs : q # r => passed'[q] = passed[q]
    /\ restarts' \in 0 .. MaxRestarts /\ faults' \in 0 .. MaxFaults

LEMMA StepWorks ==
    ASSUME TypeOK, NEW r \in Runs, SpendInv(r), Step(r) \/ Platform(r)
    PROVE  Works(r)
  <1>1. /\ kind' = kind
        /\ restarts' = restarts \/ (restarts < MaxRestarts /\ restarts' = restarts + 1)
        /\ faults' = faults \/ (faults < MaxFaults /\ faults' = faults + 1)
    <2> USE DEF Fault, NoFault, Raises
    <2>1. CASE Begin(r) \/ Lease(r) \/ Provenance(r) \/ CommitLease(r)
      BY <2>1 DEF Begin, Lease, Provenance, CommitLease
    <2>2. CASE Start(r) \/ Expose(r) \/ RunChild(r) \/ InitLedger(r) \/ Send(r)
      BY <2>2 DEF Start, Expose, RunChild, InitLedger, Send
    <2>3. CASE Record(r) \/ ChildEnds(r) \/ ChildFails(r) \/ GroupLeft(r)
      BY <2>3 DEF Record, ChildEnds, ChildFails, GroupLeft
    <2>4. CASE Publish(r) \/ Salvage(r)
      BY <2>4 DEF Publish, Salvage, PublishOne
    <2>5. CASE RecordFailure(r) \/ Inspect(r) \/ WriteResult(r) \/ WriteManifest(r) \/ CommitRun(r)
      BY <2>5 DEF RecordFailure, Inspect, WriteResult, WriteManifest, CommitRun
    <2>6. CASE Platform(r)
      BY <2>6 DEF Platform, BackgroundCommit, Preempt, TimeOut, ShutDown, Vanish
    <2> QED BY <2>1, <2>2, <2>3, <2>4, <2>5, <2>6 DEF Step
  <1>2. /\ batch' = batch
           \/ \E names \in SUBSET {"ledger", "uncertain", "output"} :
                 batch' = [batch EXCEPT ![r] = names]
        /\ inflight' = inflight \/ \E b \in BOOLEAN : inflight' = [inflight EXCEPT ![r] = b]
        /\ passed' = passed \/ \E b \in BOOLEAN : passed' = [passed EXCEPT ![r] = b]
    <2> USE DEF work, Pass
    <2>1. CASE Begin(r) \/ Lease(r) \/ Provenance(r) \/ CommitLease(r)
      BY <2>1 DEF Begin, Lease, Provenance, CommitLease
    <2>2. CASE Start(r) \/ Expose(r) \/ RunChild(r) \/ InitLedger(r) \/ Send(r)
      BY <2>2 DEF Start, Expose, RunChild, InitLedger, Send
    <2>3. CASE Record(r) \/ ChildEnds(r) \/ ChildFails(r) \/ GroupLeft(r)
      BY <2>3 DEF Record, ChildEnds, ChildFails, GroupLeft
    <2>4. CASE Publish(r) \/ Salvage(r)
      BY <2>4 DEF Publish, Salvage, PublishOne, Snapshot, SalvageFiles, Artifacts
    <2>5. CASE RecordFailure(r) \/ Inspect(r) \/ WriteResult(r) \/ WriteManifest(r) \/ CommitRun(r)
      BY <2>5 DEF RecordFailure, Inspect, WriteResult, WriteManifest, CommitRun
    <2>6. CASE Platform(r)
      BY <2>6 DEF Platform, BackgroundCommit, Preempt, TimeOut, ShutDown, Vanish
    <2> QED BY <2>1, <2>2, <2>3, <2>4, <2>5, <2>6 DEF Step
  <1>3. \E v \in Ledgers : staged' = staged \/ staged' = [staged EXCEPT ![r] = v]
    <2>1. staged[r] \in Ledgers /\ kind[r] \in {"free", "canary", "bounded", "resume", "verify"}
      BY RemoteAssumption DEF TypeOK, Ledgers
    <2>2. CASE UNCHANGED staged
      BY <2>1, <2>2
    <2>3. CASE staged' = [staged EXCEPT ![r] = Unstaged]
      BY <2>3, Blank
    <2>4. CASE InitLedger(r)
      <3>1. [staged[r] EXCEPT !.ledger = "open"] \in Ledgers
        BY <2>1 DEF Ledgers
      <3> QED BY <2>4, <3>1 DEF InitLedger
    <2>5. CASE Record(r)
      <3>1. staged[r].records + 1 \in 0 .. MaxRequests
        <4>1. /\ staged[r].asked = sent[r]
              /\ sent[r] = staged[r].records + unwritten[r] + 1
          BY <2>5 DEF Record, SpendInv, Acting
        <4>2. /\ staged[r].records \in 0 .. MaxRequests /\ staged[r].asked \in 0 .. MaxRequests
              /\ unwritten[r] \in Nat
          BY <2>1 DEF TypeOK, Ledgers
        <4> QED BY <4>1, <4>2, RemoteAssumption
      <3>2. /\ [staged[r] EXCEPT !.ledger = "torn"] \in Ledgers
            /\ [staged[r] EXCEPT !.records = @ + 1] \in Ledgers
        BY <2>1, <3>1 DEF Ledgers
      <3> QED BY <2>5, <3>2 DEF Record
    <2> USE DEF work
    <2>6. CASE Begin(r) \/ Lease(r) \/ Provenance(r) \/ CommitLease(r)
      BY <2>6, <2>2 DEF Begin, Lease, Provenance, CommitLease
    <2>7. CASE Start(r) \/ Expose(r) \/ RunChild(r)
      BY <2>7, <2>2 DEF Start, Expose, RunChild
    <2>12. CASE Send(r)
      <3>1. Limit(r) \in Nat /\ Limit(r) <= MaxRequests
        BY RemoteAssumption DEF Limit
      <3>2. staged[r].asked \in 0 .. MaxRequests /\ staged[r].asked < Limit(r)
        BY <2>1, <2>12 DEF Send, Ledgers
      <3>3. staged[r].asked + 1 \in 0 .. MaxRequests
        BY <3>1, <3>2, RemoteAssumption
      <3>4. [staged[r] EXCEPT !.asked = @ + 1] \in Ledgers
        BY <2>1, <3>3 DEF Ledgers
      <3> QED BY <2>12, <3>4 DEF Send
    <2>8. CASE ChildEnds(r) \/ ChildFails(r) \/ GroupLeft(r)
      BY <2>8, <2>2 DEF ChildEnds, ChildFails, GroupLeft
    <2>9. CASE Publish(r) \/ Salvage(r)
      BY <2>9, <2>2 DEF Publish, Salvage
    <2>10. CASE RecordFailure(r) \/ Inspect(r) \/ WriteResult(r) \/ WriteManifest(r) \/ CommitRun(r)
      BY <2>10, <2>2 DEF RecordFailure, Inspect, WriteResult, WriteManifest, CommitRun
    <2>11. CASE Platform(r)
      BY <2>11, <2>2, <2>3 DEF Platform, BackgroundCommit, Preempt, TimeOut, ShutDown,
         Vanish
    <2> QED BY <2>4, <2>5, <2>6, <2>7, <2>8, <2>9, <2>10, <2>11, <2>12 DEF Step
  <1>4. /\ batch \in [Runs -> SUBSET {"ledger", "uncertain", "output"}]
        /\ staged \in [Runs -> Ledgers]
        /\ inflight \in [Runs -> BOOLEAN] /\ passed \in [Runs -> BOOLEAN]
        /\ restarts \in 0 .. MaxRestarts /\ faults \in 0 .. MaxFaults
    BY DEF TypeOK, Ledgers
  <1>5. /\ batch' \in [Runs -> SUBSET {"ledger", "uncertain", "output"}]
        /\ \A q \in Runs : q # r => batch'[q] = batch[q]
    BY <1>2, <1>4, Update
  <1>6. staged' \in [Runs -> Ledgers] /\ \A q \in Runs : q # r => staged'[q] = staged[q]
    BY <1>3, <1>4, Update
  <1>7. inflight' \in [Runs -> BOOLEAN] /\ \A q \in Runs : q # r => inflight'[q] = inflight[q]
    BY <1>2, <1>4, Update
  <1>8. passed' \in [Runs -> BOOLEAN] /\ \A q \in Runs : q # r => passed'[q] = passed[q]
    BY <1>2, <1>4, Update
  <1>9. restarts' \in 0 .. MaxRestarts /\ faults' \in 0 .. MaxFaults
    BY <1>1, <1>4, RemoteAssumption
  <1> QED BY <1>1, <1>5, <1>6, <1>7, <1>8, <1>9 DEF Works

LEMMA StepTypes ==
    ASSUME TypeOK, NEW r \in Runs, SpendInv(r), Step(r) \/ Platform(r)
    PROVE  TypeOK' /\ Moves(r) /\ Writes(r) /\ Works(r)
  <1>1. Moves(r) /\ Writes(r) /\ Works(r)
    BY StepMoves, StepWrites, StepWorks
  <1> QED BY <1>1 DEF TypeOK, Moves, Writes, Works, Places, Ledgers

-----------------------------------------------------------------------------
(* A run's own invariant. *)

Own(r) == LeaseInv(r) /\ FilesInv(r) /\ SpendInv(r) /\ TruthInv(r)

\* A step of run r goes from a place to a place and leaves the run's ...
Goes(r, from, to) == pc[r] \in from /\ pc'[r] \in to /\ kind'[r] = kind[r]
LocalKept(r) == local'[r] = local[r]
VolumeKept(r) == volume'[r] = volume[r]
WorkKept(r) ==
    /\ batch'[r] = batch[r] /\ staged'[r] = staged[r]
    /\ inflight'[r] = inflight[r] /\ passed'[r] = passed[r]
HistoryKept(r) ==
    /\ starts'[r] = starts[r] /\ sent'[r] = sent[r] /\ unwritten'[r] = unwritten[r]
    /\ r \in quarantined' <=> r \in quarantined
\* ... or changes only these fields of its local directory.
LocalHas(r, files, records, success, manifest, lists) ==
    /\ local'[r].there = local[r].there /\ local'[r].files = files
    /\ local'[r].cut = local[r].cut /\ local'[r].records = records
    /\ local'[r].success = success /\ local'[r].manifest = manifest /\ local'[r].lists = lists
PublishedOne(r) ==
    \E f \in batch[r] \ local[r].files :
        LocalHas(r, local[r].files \cup {f},
                 IF f = "ledger" THEN staged[r].records ELSE local[r].records,
                 local[r].success, local[r].manifest, local[r].lists)
Unpublished(r) ==
    \E kept \in SUBSET batch[r] :
        /\ local'[r].there = local[r].there
        /\ local'[r].files = (local[r].files \ batch[r]) \cup kept
        /\ local'[r].cut = local[r].cut \cup (kept \ local[r].files)
        /\ local'[r].records = local[r].records /\ local'[r].success = local[r].success
        /\ local'[r].manifest = local[r].manifest /\ local'[r].lists = local[r].lists

\* Taking the lease.
LEMMA LeasingKeeps ==
    ASSUME TypeOK, NEW r \in Runs, Own(r), Works(r), Begin(r) \/ Lease(r) \/ Provenance(r) \/ CommitLease(r)
    PROVE  Own(r)'
  <1> USE DEF WorkKept, HistoryKept
  <1>1. CASE Begin(r)
    <2>1. /\ Goes(r, {"idle"}, {"lease", "raised"})
          /\ local'[r] = volume[r]
          /\ VolumeKept(r)
          /\ WorkKept(r)
          /\ HistoryKept(r)
      BY <1>1 DEF Begin, Goto, Goes, LocalKept, VolumeKept, LocalHas, TypeOK, Directories,
         work, history
    <2>2. LeaseInv(r)'
      BY <2>1 DEF Own, LeaseInv, Goes, LocalKept, VolumeKept, LocalHas, Leased, Acting,
         Live, Ended, TypeOK, Absent
    <2>3. FilesInv(r)'
      BY <2>1 DEF Own, FilesInv, Goes, LocalKept, VolumeKept, LocalHas, Leased, Artifacts,
         Provider, SalvageFiles, Published, TypeOK, Live, Ended
    <2>4. SpendInv(r)'
      BY <2>1, RemoteAssumption DEF Own, SpendInv, FilesInv, LeaseInv, Goes, LocalKept,
         VolumeKept, LocalHas, Acting, Provider, Limit, Unstaged, TypeOK
    <2>5. TruthInv(r)'
      BY <2>1 DEF Own, TruthInv, FilesInv, SpendInv, LeaseInv, Goes, LocalKept,
         VolumeKept, LocalHas, Truthful, Verified, Counted, Reckoned, Refused, Artifacts,
         Provider, Limit, Leased, Acting, TypeOK
    <2> QED BY <2>2, <2>3, <2>4, <2>5 DEF Own
  <1>2. CASE Lease(r)
    <2>1. /\ VolumeKept(r)
          /\ WorkKept(r)
          /\ HistoryKept(r)
          /\ \/ /\ volume[r].there /\ local'[r] = volume[r]
                /\ Goes(r, {"lease"}, {"raised"})
             \/ /\ ~volume[r].there /\ Goes(r, {"lease"}, {"provenance"})
                /\ local'[r] = [Absent EXCEPT !.there = TRUE]
                /\ local'[r].there /\ local'[r].files = {} /\ local'[r].cut = {}
                /\ local'[r].manifest = "none"
      <3>1. ASSUME volume[r].there
            PROVE  Goes(r, {"lease"}, {"raised"}) /\ local'[r] = volume[r]
        BY <1>2, <3>1 DEF Lease, Goto, Goes, TypeOK
      <3>2. ASSUME ~volume[r].there
            PROVE  /\ Goes(r, {"lease"}, {"provenance"})
                   /\ local'[r] = [Absent EXCEPT !.there = TRUE]
        BY <1>2, <3>2 DEF Lease, Goto, Goes, TypeOK
      <3>3. LET d == [Absent EXCEPT !.there = TRUE]
            IN  d.there /\ d.files = {} /\ d.cut = {} /\ d.manifest = "none"
        BY DEF Absent
      <3>4. VolumeKept(r) /\ WorkKept(r) /\ HistoryKept(r)
        BY <1>2 DEF Lease, VolumeKept, work, history
      <3> QED BY <3>1, <3>2, <3>3, <3>4
    <2>2. LeaseInv(r)'
      BY <2>1 DEF Own, LeaseInv, Goes, LocalKept, VolumeKept, LocalHas, Leased, Acting,
         Live, Ended, TypeOK, Absent
    <2>3. FilesInv(r)'
      BY <2>1 DEF Own, FilesInv, Goes, LocalKept, VolumeKept, LocalHas, Leased, Artifacts,
         Provider, SalvageFiles, Published, TypeOK, Live, Ended, Absent
    <2>4. SpendInv(r)'
      BY <2>1, RemoteAssumption DEF Own, SpendInv, FilesInv, LeaseInv, Goes, LocalKept,
         VolumeKept, LocalHas, Acting, Provider, Limit, Unstaged, TypeOK, Absent
    <2>5. TruthInv(r)'
      BY <2>1 DEF Own, TruthInv, FilesInv, SpendInv, LeaseInv, Goes, LocalKept,
         VolumeKept, LocalHas, Truthful, Verified, Counted, Reckoned, Refused, Artifacts,
         Provider, Limit, Leased, Acting, TypeOK, Absent
    <2> QED BY <2>2, <2>3, <2>4, <2>5 DEF Own
  <1>3. CASE Provenance(r)
    <2>1. /\ VolumeKept(r)
          /\ WorkKept(r)
          /\ HistoryKept(r)
          /\ \/ /\ Goes(r, {"provenance"}, {"bind"})
                /\ LocalHas(r, local[r].files \cup {"context", "image"}, local[r].records, local[r].success, local[r].manifest, local[r].lists)
             \/ /\ Goes(r, {"provenance"}, {"raised"})
                /\ \/ LocalKept(r)
                   \/ LocalHas(r, local[r].files \cup {"context"}, local[r].records, local[r].success, local[r].manifest, local[r].lists)
      BY <1>3 DEF Provenance, Goto, Add, NoFault, Goes, LocalKept, VolumeKept, LocalHas,
         TypeOK, Directories, work, history
    <2>2. LeaseInv(r)'
      BY <2>1 DEF Own, LeaseInv, Goes, LocalKept, VolumeKept, LocalHas, Leased, Acting,
         Live, Ended, TypeOK
    <2>3. FilesInv(r)'
      BY <2>1 DEF Own, FilesInv, Goes, LocalKept, VolumeKept, LocalHas, Leased, Artifacts,
         Provider, SalvageFiles, Published, TypeOK, Live, Ended
    <2>4. SpendInv(r)'
      BY <2>1, RemoteAssumption DEF Own, SpendInv, FilesInv, LeaseInv, Goes, LocalKept,
         VolumeKept, LocalHas, Acting, Provider, Limit, Unstaged, TypeOK
    <2>5. TruthInv(r)'
      BY <2>1 DEF Own, TruthInv, FilesInv, SpendInv, LeaseInv, Goes, LocalKept,
         VolumeKept, LocalHas, Truthful, Verified, Counted, Reckoned, Refused, Artifacts,
         Provider, Limit, Leased, Acting, TypeOK
    <2> QED BY <2>2, <2>3, <2>4, <2>5 DEF Own
  <1>4. CASE CommitLease(r)
    <2>1. /\ LocalKept(r)
          /\ WorkKept(r)
          /\ HistoryKept(r)
          /\ \/ Goes(r, {"bind"}, {"act"}) /\ volume'[r] = local[r]
             \/ Goes(r, {"bind"}, {"raised"}) /\ VolumeKept(r)
      BY <1>4 DEF CommitLease, Goto, Commit, Raises, Goes, LocalKept, VolumeKept,
         LocalHas, TypeOK, Directories, work, history
    <2>2. LeaseInv(r)'
      BY <2>1 DEF Own, LeaseInv, Goes, LocalKept, VolumeKept, LocalHas, Leased, Acting,
         Live, Ended, TypeOK
    <2>3. FilesInv(r)'
      BY <2>1 DEF Own, FilesInv, Goes, LocalKept, VolumeKept, LocalHas, Leased, Artifacts,
         Provider, SalvageFiles, Published, TypeOK, Live, Ended
    <2>4. SpendInv(r)'
      BY <2>1, RemoteAssumption DEF Own, SpendInv, FilesInv, LeaseInv, Goes, LocalKept,
         VolumeKept, LocalHas, Acting, Provider, Limit, Unstaged, TypeOK
    <2>5. TruthInv(r)'
      BY <2>1 DEF Own, TruthInv, FilesInv, SpendInv, LeaseInv, Goes, LocalKept,
         VolumeKept, LocalHas, Truthful, Verified, Counted, Reckoned, Refused, Artifacts,
         Provider, Limit, Leased, Acting, TypeOK
    <2> QED BY <2>2, <2>3, <2>4, <2>5 DEF Own
  <1> QED BY <1>1, <1>2, <1>3, <1>4

\* The action.
LEMMA RunningKeeps ==
    ASSUME TypeOK, NEW r \in Runs, Own(r), Works(r), Start(r) \/ Expose(r) \/ RunChild(r) \/ InitLedger(r) \/ Send(r) \/ Record(r) \/ ChildEnds(r) \/ ChildFails(r) \/ GroupLeft(r)
    PROVE  Own(r)'
  <1> USE DEF WorkKept, HistoryKept
  <1>1. CASE Start(r)
    <2>1. /\ Goes(r, {"act"}, {"run"})
          /\ kind[r] # "verify"
          /\ LocalKept(r)
          /\ VolumeKept(r)
          /\ WorkKept(r)
          /\ starts'[r] = starts[r] + 1
          /\ sent'[r] = sent[r] /\ unwritten'[r] = unwritten[r]
          /\ r \in quarantined' <=> r \in quarantined
      BY <1>1 DEF Start, Goto, Goes, LocalKept, VolumeKept, LocalHas, TypeOK, Directories,
         work, history
    <2>2. LeaseInv(r)'
      BY <2>1 DEF Own, LeaseInv, Goes, LocalKept, VolumeKept, LocalHas, Leased, Acting,
         Live, Ended, TypeOK
    <2>3. FilesInv(r)'
      BY <2>1 DEF Own, FilesInv, Goes, LocalKept, VolumeKept, LocalHas, Leased, Artifacts,
         Provider, SalvageFiles, Published, TypeOK, Live, Ended
    <2>4. SpendInv(r)'
      <3>1. /\ starts[r] = 0 /\ sent[r] = 0 /\ unwritten[r] = 0
            /\ staged[r] = Unstaged /\ ~inflight[r]
            /\ local[r].files \subseteq {"context", "image"}
        BY <2>1 DEF Own, LeaseInv, FilesInv, SpendInv, Goes
      <3>2. /\ staged'[r] = Unstaged /\ sent'[r] = 0 /\ unwritten'[r] = 0 /\ ~inflight'[r]
            /\ Unstaged.records = 0 /\ Unstaged.asked = 0
        BY <2>1, <3>1 DEF Unstaged
      <3>3. "ledger" \notin local'[r].files /\ 0 <= Limit(r)'
        BY <2>1, <3>1, RemoteAssumption DEF LocalKept, Limit
      <3> QED BY <2>1, <3>1, <3>2, <3>3 DEF SpendInv, Goes
    <2>5. TruthInv(r)'
      BY <2>1 DEF Own, TruthInv, FilesInv, SpendInv, LeaseInv, Goes, LocalKept,
         VolumeKept, LocalHas, Truthful, Verified, Counted, Reckoned, Refused, Artifacts,
         Provider, Limit, Leased, Acting, TypeOK
    <2> QED BY <2>2, <2>3, <2>4, <2>5 DEF Own
  <1>2. CASE Expose(r)
    <2>1. /\ ~Provider(r)
          /\ Goes(r, {"run"}, {"raised"})
          /\ VolumeKept(r)
          /\ WorkKept(r)
          /\ starts'[r] = starts[r] /\ sent'[r] = sent[r] /\ unwritten'[r] = unwritten[r]
          /\ r \in quarantined'
          /\ \/ LocalKept(r)
             \/ LocalHas(r, local[r].files \cup {"failure"}, local[r].records, local[r].success, local[r].manifest, local[r].lists)
      BY <1>2 DEF Expose, Goto, Add, Provider, Goes, LocalKept, VolumeKept, LocalHas,
         TypeOK, Directories, work, history
    <2>2. LeaseInv(r)'
      BY <2>1 DEF Own, LeaseInv, Goes, LocalKept, VolumeKept, LocalHas, Leased, Acting,
         Live, Ended, TypeOK
    <2>3. FilesInv(r)'
      BY <2>1 DEF Own, FilesInv, Goes, LocalKept, VolumeKept, LocalHas, Leased, Artifacts,
         Provider, SalvageFiles, Published, TypeOK, Live, Ended
    <2>4. SpendInv(r)'
      BY <2>1, RemoteAssumption DEF Own, SpendInv, FilesInv, LeaseInv, Goes, LocalKept,
         VolumeKept, LocalHas, Acting, Provider, Limit, Unstaged, TypeOK
    <2>5. TruthInv(r)'
      BY <2>1 DEF Own, TruthInv, FilesInv, SpendInv, LeaseInv, Goes, LocalKept,
         VolumeKept, LocalHas, Truthful, Verified, Counted, Reckoned, Refused, Artifacts,
         Provider, Limit, Leased, Acting, TypeOK
    <2> QED BY <2>2, <2>3, <2>4, <2>5 DEF Own
  <1>3. CASE RunChild(r)
    <2>1. /\ LocalKept(r)
          /\ VolumeKept(r)
          /\ HistoryKept(r)
          /\ batch'[r] = batch[r] /\ staged'[r] = staged[r] /\ inflight'[r] = inflight[r]
          /\ ~Provider(r) /\ kind[r] # "verify"
          /\ \/ Goes(r, {"run"}, {"publish"}) /\ passed'[r] = TRUE
             \/ Goes(r, {"run"}, {"salvage"}) /\ passed'[r] = passed[r]
      BY <1>3 DEF RunChild, Goto, Pass, Goes, LocalKept, VolumeKept, LocalHas, TypeOK,
         Directories, work, history, Provider
    <2>2. LeaseInv(r)'
      BY <2>1 DEF Own, LeaseInv, Goes, LocalKept, VolumeKept, LocalHas, Leased, Acting,
         Live, Ended, TypeOK
    <2>3. FilesInv(r)'
      BY <2>1 DEF Own, FilesInv, Goes, LocalKept, VolumeKept, LocalHas, Leased, Artifacts,
         Provider, SalvageFiles, Published, TypeOK, Live, Ended
    <2>4. SpendInv(r)'
      BY <2>1, RemoteAssumption DEF Own, SpendInv, FilesInv, LeaseInv, Goes, LocalKept,
         VolumeKept, LocalHas, Acting, Provider, Limit, Unstaged, TypeOK
    <2>5. TruthInv(r)'
      BY <2>1 DEF Own, TruthInv, FilesInv, SpendInv, LeaseInv, Goes, LocalKept,
         VolumeKept, LocalHas, Truthful, Verified, Counted, Reckoned, Refused, Artifacts,
         Provider, Limit, Leased, Acting, TypeOK
    <2> QED BY <2>2, <2>3, <2>4, <2>5 DEF Own
  <1>4. CASE InitLedger(r)
    <2>1. /\ Goes(r, {"run"}, {"run"})
          /\ LocalKept(r)
          /\ VolumeKept(r)
          /\ HistoryKept(r)
          /\ batch'[r] = batch[r] /\ inflight'[r] = inflight[r] /\ passed'[r] = passed[r]
          /\ Provider(r) /\ staged[r].ledger = "missing"
          /\ staged'[r].ledger = "open" /\ staged'[r].records = staged[r].records
          /\ staged'[r].asked = staged[r].asked
      BY <1>4 DEF InitLedger, Provider, Goes, LocalKept, VolumeKept, LocalHas, TypeOK,
         Directories, work, history
    <2>2. LeaseInv(r)'
      BY <2>1 DEF Own, LeaseInv, Goes, LocalKept, VolumeKept, LocalHas, Leased, Acting,
         Live, Ended, TypeOK
    <2>3. FilesInv(r)'
      BY <2>1 DEF Own, FilesInv, Goes, LocalKept, VolumeKept, LocalHas, Leased, Artifacts,
         Provider, SalvageFiles, Published, TypeOK, Live, Ended
    <2>4. SpendInv(r)'
      BY <2>1, RemoteAssumption DEF Own, SpendInv, FilesInv, LeaseInv, Goes, LocalKept,
         VolumeKept, LocalHas, Acting, Provider, Limit, Unstaged, TypeOK
    <2>5. TruthInv(r)'
      BY <2>1 DEF Own, TruthInv, FilesInv, SpendInv, LeaseInv, Goes, LocalKept,
         VolumeKept, LocalHas, Truthful, Verified, Counted, Reckoned, Refused, Artifacts,
         Provider, Limit, Leased, Acting, TypeOK
    <2> QED BY <2>2, <2>3, <2>4, <2>5 DEF Own
  <1>5. CASE Send(r)
    <2>1. /\ Goes(r, {"run"}, {"run"})
          /\ LocalKept(r)
          /\ VolumeKept(r)
          /\ batch'[r] = batch[r] /\ passed'[r] = passed[r]
          /\ staged[r].ledger = "open" /\ ~inflight[r] /\ staged[r].asked < Limit(r)
          /\ staged'[r].ledger = "open" /\ staged'[r].records = staged[r].records
          /\ staged'[r].asked = staged[r].asked + 1
          /\ inflight'[r] = TRUE /\ sent'[r] = sent[r] + 1 /\ starts'[r] = starts[r]
          /\ unwritten'[r] = unwritten[r]
          /\ r \in quarantined' <=> r \in quarantined
      BY <1>5 DEF Send, Goes, LocalKept, VolumeKept, LocalHas, TypeOK, Directories, work,
         history
    <2>2. LeaseInv(r)'
      BY <2>1 DEF Own, LeaseInv, Goes, LocalKept, VolumeKept, LocalHas, Leased, Acting,
         Live, Ended, TypeOK
    <2>3. FilesInv(r)'
      BY <2>1 DEF Own, FilesInv, Goes, LocalKept, VolumeKept, LocalHas, Leased, Artifacts,
         Provider, SalvageFiles, Published, TypeOK, Live, Ended
    <2>4. SpendInv(r)'
      <3>4. pc[r] = "run" /\ ~inflight[r] /\ staged[r].ledger = "open"
        BY <2>1 DEF Goes
      <3>5. staged[r].asked = sent[r] /\ sent[r] = staged[r].records + unwritten[r] + 0
        BY <3>4 DEF Own, SpendInv, Acting
      <3>6. staged[r].records + unwritten[r] + 0 = staged[r].records + unwritten[r]
        BY DEF TypeOK
      <3>7. Provider(r)
        BY <3>4 DEF Own, SpendInv, Unstaged
      <3>8. local[r].files \subseteq {"context", "image"} /\ starts[r] = 1
        BY <3>4 DEF Own, LeaseInv, FilesInv, Acting
      <3>1. /\ staged[r].asked = sent[r] /\ sent[r] = staged[r].records + unwritten[r]
            /\ Provider(r) /\ local[r].files \subseteq {"context", "image"} /\ starts[r] = 1
        BY <3>5, <3>6, <3>7, <3>8
      <3>2. /\ staged[r].records \in Nat /\ staged[r].asked \in Nat /\ unwritten[r] \in Nat
            /\ Limit(r) \in Nat
        BY RemoteAssumption DEF TypeOK, Limit
      <3>3. /\ "ledger" \notin local'[r].files /\ Provider(r)'
            /\ sent'[r] <= Limit(r)'
        BY <2>1, <3>1, <3>2 DEF LocalKept, Goes, Provider, Limit
      <3> QED BY <2>1, <3>1, <3>2, <3>3 DEF SpendInv, Goes
    <2>5. TruthInv(r)'
      <3>1. local[r].manifest = "none" /\ volume[r].manifest = "none"
        BY <2>1 DEF Own, LeaseInv, Goes, Leased, Live, Ended
      <3> QED BY <2>1, <3>1 DEF TruthInv, Truthful, Counted, LocalKept, VolumeKept
    <2> QED BY <2>2, <2>3, <2>4, <2>5 DEF Own
  <1>6. CASE Record(r)
    <2>1. /\ Goes(r, {"run"}, {"run"})
          /\ LocalKept(r)
          /\ VolumeKept(r)
          /\ starts'[r] = starts[r] /\ sent'[r] = sent[r]
          /\ r \in quarantined' <=> r \in quarantined
          /\ batch'[r] = batch[r] /\ passed'[r] = passed[r]
          /\ inflight[r] /\ inflight'[r] = FALSE /\ staged'[r].asked = staged[r].asked
          /\ \/ /\ staged'[r].records = staged[r].records + 1
                /\ unwritten'[r] = unwritten[r]
             \/ /\ staged'[r].records = staged[r].records
                /\ unwritten'[r] = unwritten[r] + 1
      BY <1>6 DEF Record, Goes, LocalKept, VolumeKept, LocalHas, TypeOK, Directories,
         work, history
    <2>2. LeaseInv(r)'
      BY <2>1 DEF Own, LeaseInv, Goes, LocalKept, VolumeKept, LocalHas, Leased, Acting,
         Live, Ended, TypeOK
    <2>3. FilesInv(r)'
      BY <2>1 DEF Own, FilesInv, Goes, LocalKept, VolumeKept, LocalHas, Leased, Artifacts,
         Provider, SalvageFiles, Published, TypeOK, Live, Ended
    <2>4. SpendInv(r)'
      <3>1. /\ staged[r].asked = sent[r] /\ sent[r] = staged[r].records + unwritten[r] + 1
            /\ sent[r] <= Limit(r) /\ staged[r].ledger = "open" /\ Provider(r)
            /\ local[r].files \subseteq {"context", "image"} /\ starts[r] = 1
        BY <2>1 DEF Own, LeaseInv, FilesInv, SpendInv, Goes, Acting, Unstaged
      <3>2. /\ staged[r].records \in Nat /\ unwritten[r] \in Nat
        BY RemoteAssumption DEF TypeOK
      <3>3. /\ "ledger" \notin local'[r].files /\ Provider(r)'
            /\ sent'[r] <= Limit(r)'
        BY <2>1, <3>1 DEF LocalKept, Goes, Provider, Limit
      <3> QED BY <2>1, <3>1, <3>2, <3>3 DEF SpendInv, Goes
    <2>5. TruthInv(r)'
      <3>1. local[r].manifest = "none" /\ volume[r].manifest = "none"
        BY <2>1 DEF Own, LeaseInv, Goes, Leased, Live, Ended
      <3> QED BY <2>1, <3>1 DEF TruthInv, Truthful, Counted, LocalKept, VolumeKept
    <2> QED BY <2>2, <2>3, <2>4, <2>5 DEF Own
  <1>7. CASE ChildEnds(r)
    <2>1. /\ Goes(r, {"run"}, {"publish"})
          /\ LocalKept(r)
          /\ VolumeKept(r)
          /\ HistoryKept(r)
          /\ batch'[r] = batch[r] /\ staged'[r] = staged[r] /\ inflight'[r] = inflight[r]
          /\ passed'[r] = TRUE
          /\ Provider(r) /\ ~inflight[r] /\ staged[r].records = Limit(r)
      BY <1>7 DEF ChildEnds, Goto, Pass, Goes, LocalKept, VolumeKept, LocalHas, TypeOK,
         Directories, work, history, Provider
    <2>2. LeaseInv(r)'
      BY <2>1 DEF Own, LeaseInv, Goes, LocalKept, VolumeKept, LocalHas, Leased, Acting,
         Live, Ended, TypeOK
    <2>3. FilesInv(r)'
      BY <2>1 DEF Own, FilesInv, Goes, LocalKept, VolumeKept, LocalHas, Leased, Artifacts,
         Provider, SalvageFiles, Published, TypeOK, Live, Ended
    <2>4. SpendInv(r)'
      BY <2>1, RemoteAssumption DEF Own, SpendInv, FilesInv, LeaseInv, Goes, LocalKept,
         VolumeKept, LocalHas, Acting, Provider, Limit, Unstaged, TypeOK
    <2>5. TruthInv(r)'
      BY <2>1 DEF Own, TruthInv, FilesInv, SpendInv, LeaseInv, Goes, LocalKept,
         VolumeKept, LocalHas, Truthful, Verified, Counted, Reckoned, Refused, Artifacts,
         Provider, Limit, Leased, Acting, TypeOK
    <2> QED BY <2>2, <2>3, <2>4, <2>5 DEF Own
  <1>8. CASE ChildFails(r)
    <2>1. /\ Goes(r, {"run"}, {"salvage"})
          /\ LocalKept(r)
          /\ VolumeKept(r)
          /\ HistoryKept(r)
          /\ batch'[r] = batch[r] /\ staged'[r] = staged[r] /\ passed'[r] = passed[r]
          /\ inflight'[r] = FALSE
          /\ Provider(r)
      BY <1>8 DEF ChildFails, Goto, Goes, LocalKept, VolumeKept, LocalHas, TypeOK,
         Directories, work, history, Provider
    <2>2. LeaseInv(r)'
      BY <2>1 DEF Own, LeaseInv, Goes, LocalKept, VolumeKept, LocalHas, Leased, Acting,
         Live, Ended, TypeOK
    <2>3. FilesInv(r)'
      BY <2>1 DEF Own, FilesInv, Goes, LocalKept, VolumeKept, LocalHas, Leased, Artifacts,
         Provider, SalvageFiles, Published, TypeOK, Live, Ended
    <2>4. SpendInv(r)'
      BY <2>1, RemoteAssumption DEF Own, SpendInv, FilesInv, LeaseInv, Goes, LocalKept,
         VolumeKept, LocalHas, Acting, Provider, Limit, Unstaged, TypeOK
    <2>5. TruthInv(r)'
      BY <2>1 DEF Own, TruthInv, FilesInv, SpendInv, LeaseInv, Goes, LocalKept,
         VolumeKept, LocalHas, Truthful, Verified, Counted, Reckoned, Refused, Artifacts,
         Provider, Limit, Leased, Acting, TypeOK
    <2> QED BY <2>2, <2>3, <2>4, <2>5 DEF Own
  <1>9. CASE GroupLeft(r)
    <2>1. /\ Goes(r, {"run"}, {"raised"})
          /\ LocalKept(r)
          /\ VolumeKept(r)
          /\ batch'[r] = batch[r] /\ staged'[r] = staged[r] /\ passed'[r] = passed[r]
          /\ inflight'[r] = FALSE
          /\ starts'[r] = starts[r] /\ sent'[r] = sent[r] /\ unwritten'[r] = unwritten[r]
          /\ r \in quarantined'
      BY <1>9 DEF GroupLeft, Goto, Goes, LocalKept, VolumeKept, LocalHas, TypeOK,
         Directories, work, history
    <2>2. LeaseInv(r)'
      BY <2>1 DEF Own, LeaseInv, Goes, LocalKept, VolumeKept, LocalHas, Leased, Acting,
         Live, Ended, TypeOK
    <2>3. FilesInv(r)'
      BY <2>1 DEF Own, FilesInv, Goes, LocalKept, VolumeKept, LocalHas, Leased, Artifacts,
         Provider, SalvageFiles, Published, TypeOK, Live, Ended
    <2>4. SpendInv(r)'
      BY <2>1, RemoteAssumption DEF Own, SpendInv, FilesInv, LeaseInv, Goes, LocalKept,
         VolumeKept, LocalHas, Acting, Provider, Limit, Unstaged, TypeOK
    <2>5. TruthInv(r)'
      BY <2>1 DEF Own, TruthInv, FilesInv, SpendInv, LeaseInv, Goes, LocalKept,
         VolumeKept, LocalHas, Truthful, Verified, Counted, Reckoned, Refused, Artifacts,
         Provider, Limit, Leased, Acting, TypeOK
    <2> QED BY <2>2, <2>3, <2>4, <2>5 DEF Own
  <1> QED BY <1>1, <1>2, <1>3, <1>4, <1>5, <1>6, <1>7, <1>8, <1>9

\* Publication.
LEMMA PublishingKeeps ==
    ASSUME TypeOK, NEW r \in Runs, Own(r), Works(r), Publish(r) \/ Salvage(r)
    PROVE  Own(r)'
  <1> USE DEF WorkKept, HistoryKept
  <1>1. CASE Publish(r)
    <2>1. /\ VolumeKept(r)
          /\ HistoryKept(r)
          /\ staged'[r] = staged[r] /\ inflight'[r] = inflight[r] /\ passed'[r] = passed[r]
          /\ \/ /\ Goes(r, {"publish"}, {"publish"}) /\ LocalKept(r)
                /\ batch[r] = {} /\ batch'[r] = Artifacts(r)
             \/ /\ Goes(r, {"publish"}, {"publish"}) /\ batch'[r] = batch[r]
                /\ PublishedOne(r)
             \/ /\ Goes(r, {"publish"}, {"result"}) /\ LocalKept(r) /\ batch'[r] = batch[r]
                /\ batch[r] # {} /\ Published(r)
             \/ /\ Goes(r, {"publish"}, {"salvage"}) /\ batch'[r] = {}
                /\ Unpublished(r)
      <3>1. staged[r].records \in 0 .. MaxRequests /\ local[r] \in Directories
        BY DEF TypeOK
      <3>2. ASSUME PublishOne(r)
            PROVE  PublishedOne(r)
        <4>1. PICK f \in batch[r] \ local[r].files :
                 local' = [local EXCEPT ![r].files = @ \cup {f},
                              ![r].records = IF f = "ledger" THEN staged[r].records ELSE @]
          BY <3>2 DEF PublishOne
        <4>2. LocalHas(r, local[r].files \cup {f},
                       IF f = "ledger" THEN staged[r].records ELSE local[r].records,
                       local[r].success, local[r].manifest, local[r].lists)
          BY <4>1, <3>1 DEF LocalHas, TypeOK, Directories
        <4> QED BY <4>2 DEF PublishedOne
      <3>3. ASSUME Unpublish(r)
            PROVE  Unpublished(r)
        <4>1. PICK kept \in SUBSET batch[r] :
                 local' = [local EXCEPT ![r].files = (@ \ batch[r]) \cup kept,
                                        ![r].cut = @ \cup (kept \ local[r].files)]
          BY <3>3 DEF Unpublish
        <4> QED BY <4>1, <3>1 DEF Unpublished, TypeOK, Directories
      <3>4. /\ PublishOne(r) => PublishedOne(r)
            /\ Unpublish(r) => Unpublished(r)
        BY <3>2, <3>3
      <3> QED BY <1>1, <3>4 DEF Publish, Snapshot, Goto, Goes, LocalKept, VolumeKept, TypeOK, history, PublishOne
    <2>2. LeaseInv(r)'
      BY <2>1 DEF Own, LeaseInv, Goes, LocalKept, VolumeKept, LocalHas, PublishedOne,
         Unpublished, Leased, Acting, Live, Ended, TypeOK
    <2>3. FilesInv(r)'
      <3>1. CASE pc'[r] = "salvage"
        BY <2>1, <3>1 DEF Own, FilesInv, Goes, LocalKept, LocalHas, PublishedOne,
           Unpublished, Leased, Provider, TypeOK
      <3>2. CASE PublishedOne(r) /\ Goes(r, {"publish"}, {"publish"}) /\ batch'[r] = batch[r]
        <4>1. PICK f \in batch[r] : /\ local'[r].files = local[r].files \cup {f}
                                    /\ local'[r].cut = local[r].cut
          BY <3>2 DEF PublishedOne, LocalHas
        <4>2. /\ pc[r] = "publish" /\ pc'[r] = "publish" /\ passed'[r] = passed[r]
              /\ batch'[r] = batch[r] /\ kind' = kind
          BY <2>1, <3>2 DEF Goes, Works
        <4>3. f \in {"ledger", "output"} /\ Artifacts(r)' = Artifacts(r)
          BY <4>1, <4>2 DEF Own, FilesInv, Artifacts, Provider
        <4> QED BY <4>1, <4>2, <4>3 DEF Own, FilesInv, Leased
      <3>3. CASE LocalKept(r)
        BY <2>1, <3>3 DEF Own, FilesInv, Goes, LocalKept, Leased, Artifacts, Provider,
           Published, TypeOK
      <3> QED BY <2>1, <3>1, <3>2, <3>3 DEF Goes
    <2>4. SpendInv(r)'
      BY <2>1, RemoteAssumption DEF Own, SpendInv, FilesInv, LeaseInv, Goes, LocalKept,
         VolumeKept, LocalHas, PublishedOne, Unpublished, Acting, Provider, Limit,
         Unstaged, TypeOK
    <2>5. TruthInv(r)'
      BY <2>1 DEF Own, TruthInv, FilesInv, SpendInv, LeaseInv, Goes, LocalKept,
         VolumeKept, LocalHas, PublishedOne, Unpublished, Truthful, Verified, Counted,
         Reckoned, Refused, Artifacts, Provider, Limit, Leased, Acting, TypeOK
    <2> QED BY <2>2, <2>3, <2>4, <2>5 DEF Own
  <1>2. CASE Salvage(r)
    <2>1. /\ VolumeKept(r)
          /\ HistoryKept(r)
          /\ staged'[r] = staged[r] /\ inflight'[r] = inflight[r] /\ passed'[r] = FALSE
          /\ \/ /\ Goes(r, {"salvage"}, {"record"}) /\ LocalKept(r) /\ batch'[r] = batch[r]
             \/ /\ Goes(r, {"salvage"}, {"salvage"}) /\ LocalKept(r)
                /\ batch[r] = {} /\ batch'[r] = SalvageFiles(r)
             \/ /\ Goes(r, {"salvage"}, {"salvage"}) /\ batch'[r] = batch[r]
                /\ PublishedOne(r)
             \/ /\ Goes(r, {"salvage"}, {"record", "raised"}) /\ batch'[r] = batch[r]
                /\ Unpublished(r)
      <3>1. staged[r].records \in 0 .. MaxRequests /\ local[r] \in Directories
        BY DEF TypeOK
      <3>2. ASSUME PublishOne(r)
            PROVE  PublishedOne(r)
        <4>1. PICK f \in batch[r] \ local[r].files :
                 local' = [local EXCEPT ![r].files = @ \cup {f},
                              ![r].records = IF f = "ledger" THEN staged[r].records ELSE @]
          BY <3>2 DEF PublishOne
        <4>2. LocalHas(r, local[r].files \cup {f},
                       IF f = "ledger" THEN staged[r].records ELSE local[r].records,
                       local[r].success, local[r].manifest, local[r].lists)
          BY <4>1, <3>1 DEF LocalHas, TypeOK, Directories
        <4> QED BY <4>2 DEF PublishedOne
      <3>3. ASSUME Unpublish(r)
            PROVE  Unpublished(r)
        <4>1. PICK kept \in SUBSET batch[r] :
                 local' = [local EXCEPT ![r].files = (@ \ batch[r]) \cup kept,
                                        ![r].cut = @ \cup (kept \ local[r].files)]
          BY <3>3 DEF Unpublish
        <4> QED BY <4>1, <3>1 DEF Unpublished, TypeOK, Directories
      <3>4. /\ PublishOne(r) => PublishedOne(r)
            /\ Unpublish(r) => Unpublished(r)
        BY <3>2, <3>3
      <3> QED BY <1>2, <3>4 DEF Salvage, Snapshot, Goto, Goes, LocalKept, VolumeKept, TypeOK, history, PublishOne
    <2>2. LeaseInv(r)'
      BY <2>1 DEF Own, LeaseInv, Goes, LocalKept, VolumeKept, LocalHas, PublishedOne,
         Unpublished, Leased, Acting, Live, Ended, TypeOK
    <2>3. FilesInv(r)'
      <3>1. batch[r] \subseteq {"ledger", "uncertain", "output"}
        BY DEF TypeOK
      <3>2. /\ kind[r] # "verify" /\ local[r].files \cap {"failure", "result"} = {}
            /\ {"context", "image"} \subseteq local[r].files
        BY <2>1 DEF Own, FilesInv, Goes, Leased
      <3>3. /\ local'[r].files \cap {"failure", "result"} = {}
            /\ {"context", "image"} \subseteq local'[r].files
        BY <2>1, <3>1, <3>2 DEF PublishedOne, Unpublished, LocalHas, LocalKept
      <3>4. /\ pc'[r] \in {"salvage", "record", "raised"} /\ kind'[r] = kind[r]
            /\ passed'[r] = FALSE
        BY <2>1 DEF Goes
      <3> QED BY <3>2, <3>3, <3>4 DEF FilesInv, Leased
    <2>4. SpendInv(r)'
      BY <2>1, RemoteAssumption DEF Own, SpendInv, FilesInv, LeaseInv, Goes, LocalKept,
         VolumeKept, LocalHas, PublishedOne, Unpublished, Acting, Provider, Limit,
         Unstaged, TypeOK
    <2>5. TruthInv(r)'
      BY <2>1 DEF Own, TruthInv, FilesInv, SpendInv, LeaseInv, Goes, LocalKept,
         VolumeKept, LocalHas, PublishedOne, Unpublished, Truthful, Verified, Counted,
         Reckoned, Refused, Artifacts, Provider, Limit, Leased, Acting, TypeOK
    <2> QED BY <2>2, <2>3, <2>4, <2>5 DEF Own
  <1> QED BY <1>1, <1>2

\* The end.
LEMMA EndingKeeps ==
    ASSUME TypeOK, NEW r \in Runs, Own(r), Works(r), RecordFailure(r) \/ Inspect(r) \/ WriteResult(r) \/ WriteManifest(r) \/ CommitRun(r)
    PROVE  Own(r)'
  <1> USE DEF WorkKept, HistoryKept
  <1>1. CASE RecordFailure(r)
    <2>1. /\ VolumeKept(r)
          /\ WorkKept(r)
          /\ HistoryKept(r)
          /\ \/ /\ Goes(r, {"record"}, {"result"})
                /\ LocalHas(r, local[r].files \cup {"failure"}, local[r].records, local[r].success, local[r].manifest, local[r].lists)
             \/ Goes(r, {"record"}, {"raised"}) /\ LocalKept(r)
      BY <1>1 DEF RecordFailure, Raises, Goto, Add, Goes, LocalKept, VolumeKept, LocalHas,
         TypeOK, Directories, work, history
    <2>2. LeaseInv(r)'
      BY <2>1 DEF Own, LeaseInv, Goes, LocalKept, VolumeKept, LocalHas, Leased, Acting,
         Live, Ended, TypeOK
    <2>3. FilesInv(r)'
      BY <2>1 DEF Own, FilesInv, Goes, LocalKept, VolumeKept, LocalHas, Leased, Artifacts,
         Provider, SalvageFiles, Published, TypeOK, Live, Ended
    <2>4. SpendInv(r)'
      BY <2>1, RemoteAssumption DEF Own, SpendInv, FilesInv, LeaseInv, Goes, LocalKept,
         VolumeKept, LocalHas, Acting, Provider, Limit, Unstaged, TypeOK
    <2>5. TruthInv(r)'
      BY <2>1 DEF Own, TruthInv, FilesInv, SpendInv, LeaseInv, Goes, LocalKept,
         VolumeKept, LocalHas, Truthful, Verified, Counted, Reckoned, Refused, Artifacts,
         Provider, Limit, Leased, Acting, TypeOK
    <2> QED BY <2>2, <2>3, <2>4, <2>5 DEF Own
  <1>2. CASE Inspect(r)
    <2>1. /\ Goes(r, {"act"}, {"result"})
          /\ kind[r] = "verify"
          /\ LocalKept(r)
          /\ VolumeKept(r)
          /\ batch'[r] = batch[r] /\ staged'[r] = staged[r] /\ inflight'[r] = inflight[r]
          /\ passed'[r] \in BOOLEAN
          /\ starts'[r] = starts[r] + 1 /\ sent'[r] = sent[r] /\ unwritten'[r] = unwritten[r]
          /\ r \in quarantined' <=> r \in quarantined
      BY <1>2 DEF Inspect, Goto, Pass, Goes, LocalKept, VolumeKept, LocalHas, TypeOK,
         Directories, work, history
    <2>2. LeaseInv(r)'
      BY <2>1 DEF Own, LeaseInv, Goes, LocalKept, VolumeKept, LocalHas, Leased, Acting,
         Live, Ended, TypeOK
    <2>3. FilesInv(r)'
      BY <2>1 DEF Own, FilesInv, Goes, LocalKept, VolumeKept, LocalHas, Leased, Artifacts,
         Provider, SalvageFiles, Published, TypeOK, Live, Ended
    <2>4. SpendInv(r)'
      <3>1. /\ starts[r] = 0 /\ sent[r] = 0 /\ unwritten[r] = 0
            /\ staged[r] = Unstaged /\ ~inflight[r] /\ ~Provider(r)
            /\ local[r].files \subseteq {"context", "image"}
        BY <2>1 DEF Own, LeaseInv, FilesInv, SpendInv, Goes, Provider
      <3>2. /\ staged'[r] = Unstaged /\ sent'[r] = 0 /\ unwritten'[r] = 0 /\ ~inflight'[r]
            /\ Unstaged.records = 0 /\ Unstaged.asked = 0 /\ ~Provider(r)'
        BY <2>1, <3>1 DEF Unstaged, Goes, Provider
      <3>3. "ledger" \notin local'[r].files
        BY <2>1, <3>1 DEF LocalKept
      <3> QED BY <2>1, <3>1, <3>2, <3>3 DEF SpendInv, Goes
    <2>5. TruthInv(r)'
      BY <2>1 DEF Own, TruthInv, FilesInv, SpendInv, LeaseInv, Goes, LocalKept,
         VolumeKept, LocalHas, Truthful, Verified, Counted, Reckoned, Refused, Artifacts,
         Provider, Limit, Leased, Acting, TypeOK
    <2> QED BY <2>2, <2>3, <2>4, <2>5 DEF Own
  <1>3. CASE WriteResult(r)
    <2>1. /\ VolumeKept(r)
          /\ WorkKept(r)
          /\ HistoryKept(r)
          /\ \/ /\ Goes(r, {"result"}, {"manifest"})
                /\ \/ /\ kind[r] = "verify" /\ ~passed[r]
                      /\ LocalHas(r, local[r].files \cup {"failure"}, local[r].records, passed[r],
                                  local[r].manifest, local[r].lists)
                   \/ /\ ~(kind[r] = "verify" /\ ~passed[r])
                      /\ LocalHas(r, local[r].files \cup {"result"}, local[r].records, passed[r],
                                  local[r].manifest, local[r].lists)
             \/ Goes(r, {"result"}, {"raised"}) /\ LocalKept(r)
      BY <1>3 DEF WriteResult, Raises, Goto, Goes, LocalKept, VolumeKept, LocalHas,
         TypeOK, Directories, work, history
    <2>2. LeaseInv(r)'
      BY <2>1 DEF Own, LeaseInv, Goes, LocalKept, VolumeKept, LocalHas, Leased, Acting,
         Live, Ended, TypeOK
    <2>3. FilesInv(r)'
      BY <2>1 DEF Own, FilesInv, Goes, LocalKept, VolumeKept, LocalHas, Leased, Artifacts,
         Provider, SalvageFiles, Published, TypeOK, Live, Ended
    <2>4. SpendInv(r)'
      BY <2>1, RemoteAssumption DEF Own, SpendInv, FilesInv, LeaseInv, Goes, LocalKept,
         VolumeKept, LocalHas, Acting, Provider, Limit, Unstaged, TypeOK
    <2>5. TruthInv(r)'
      BY <2>1 DEF Own, TruthInv, FilesInv, SpendInv, LeaseInv, Goes, LocalKept,
         VolumeKept, LocalHas, Truthful, Verified, Counted, Reckoned, Refused, Artifacts,
         Provider, Limit, Leased, Acting, TypeOK
    <2> QED BY <2>2, <2>3, <2>4, <2>5 DEF Own
  <1>4. CASE WriteManifest(r)
    <2>1. /\ VolumeKept(r)
          /\ WorkKept(r)
          /\ HistoryKept(r)
          /\ \/ /\ Goes(r, {"manifest"}, {"commit"})
                /\ LocalHas(r, local[r].files, local[r].records, local[r].success, "whole",
                            local[r].files)
             \/ /\ Goes(r, {"manifest"}, {"raised"})
                /\ \/ LocalKept(r)
                   \/ LocalHas(r, local[r].files, local[r].records, local[r].success, "torn",
                               local[r].lists)
      BY <1>4 DEF WriteManifest, Goto, Goes, LocalKept, VolumeKept, LocalHas, TypeOK,
         Directories, work, history
    <2>2. LeaseInv(r)'
      BY <2>1 DEF Own, LeaseInv, Goes, LocalKept, VolumeKept, LocalHas, Leased, Acting,
         Live, Ended, TypeOK
    <2>3. FilesInv(r)'
      BY <2>1 DEF Own, FilesInv, Goes, LocalKept, VolumeKept, LocalHas, Leased, Artifacts,
         Provider, SalvageFiles, Published, TypeOK, Live, Ended
    <2>4. SpendInv(r)'
      BY <2>1, RemoteAssumption DEF Own, SpendInv, FilesInv, LeaseInv, Goes, LocalKept,
         VolumeKept, LocalHas, Acting, Provider, Limit, Unstaged, TypeOK
    <2>5. TruthInv(r)'
      <3>1. CASE LocalHas(r, local[r].files, local[r].records, local[r].success, "whole",
                          local[r].files) /\ pc[r] = "manifest"
        <4>1. Truthful(r, local[r])' 
          BY <2>1, <3>1 DEF Own, FilesInv, Goes, LocalHas, Truthful, Verified, Artifacts,
             Provider, Leased, TypeOK
        <4>2. Counted(r, local[r])'
          <5>1. /\ sent[r] \in Nat /\ staged[r].records \in Nat /\ passed[r] \in BOOLEAN
                /\ unwritten[r] \in Nat /\ local[r].records \in Nat
                /\ sent[r] <= staged[r].records + unwritten[r] + 1
                /\ Provider(r) => sent[r] <= Limit(r)
                /\ kind[r] = "canary" => Limit(r) = 1
                /\ "ledger" \in local[r].files \ local[r].cut =>
                      local[r].records = staged[r].records
                /\ passed[r] = local[r].success
                /\ passed[r] /\ Provider(r) => staged[r].records = Limit(r)
            BY <3>1, RemoteAssumption DEF Own, FilesInv, SpendInv, Acting, Limit, TypeOK,
               Directories
          <5>2. /\ local'[r].files = local[r].files /\ local'[r].records = local[r].records
                /\ local'[r].success = local[r].success /\ local'[r].cut = local[r].cut
                /\ sent'[r] = sent[r] /\ kind'[r] = kind[r] /\ unwritten'[r] = unwritten[r]
            BY <2>1, <3>1 DEF LocalHas, Goes
          <5>3. kind[r] = "canary" /\ ~Refused(local'[r]) => sent'[r] <= Reckoned(local'[r])
            BY <5>1, <5>2 DEF Provider, Refused, Reckoned
          <5>4. kind[r] = "bounded" /\ "ledger" \in local'[r].files \ local'[r].cut =>
                   sent'[r] <= local'[r].records
                               + (IF local'[r].success THEN 0 ELSE unwritten'[r] + 1)
            BY <5>1, <5>2 DEF Provider
          <5> QED BY <5>2, <5>3, <5>4 DEF Counted
        <4> QED BY <2>1, <3>1, <4>1, <4>2 DEF Own, TruthInv, VolumeKept, Truthful, Verified, Counted, Reckoned, Refused, Artifacts, Provider, Goes
      <3>2. CASE LocalKept(r) \/ local'[r].manifest = "torn"
        BY <2>1, <3>2 DEF Own, TruthInv, VolumeKept, LocalKept, Truthful, Verified,
           Counted, Reckoned, Refused, Artifacts, Provider, Goes
      <3> QED BY <2>1, <3>1, <3>2 DEF Goes, LocalHas
    <2> QED BY <2>2, <2>3, <2>4, <2>5 DEF Own
  <1>5. CASE CommitRun(r)
    <2>1. /\ LocalKept(r)
          /\ WorkKept(r)
          /\ HistoryKept(r)
          /\ \/ Goes(r, {"commit"}, {"done"}) /\ volume'[r] = local[r]
             \/ Goes(r, {"commit"}, {"raised"}) /\ VolumeKept(r)
      BY <1>5 DEF CommitRun, Raises, Goto, Commit, Goes, LocalKept, VolumeKept, LocalHas,
         TypeOK, Directories, work, history
    <2>2. LeaseInv(r)'
      BY <2>1 DEF Own, LeaseInv, Goes, LocalKept, VolumeKept, LocalHas, Leased, Acting,
         Live, Ended, TypeOK
    <2>3. FilesInv(r)'
      BY <2>1 DEF Own, FilesInv, Goes, LocalKept, VolumeKept, LocalHas, Leased, Artifacts,
         Provider, SalvageFiles, Published, TypeOK, Live, Ended
    <2>4. SpendInv(r)'
      BY <2>1, RemoteAssumption DEF Own, SpendInv, FilesInv, LeaseInv, Goes, LocalKept,
         VolumeKept, LocalHas, Acting, Provider, Limit, Unstaged, TypeOK
    <2>5. TruthInv(r)'
      BY <2>1 DEF Own, TruthInv, FilesInv, SpendInv, LeaseInv, Goes, LocalKept,
         VolumeKept, LocalHas, Truthful, Verified, Counted, Reckoned, Refused, Artifacts,
         Provider, Limit, Leased, Acting, TypeOK
    <2> QED BY <2>2, <2>3, <2>4, <2>5 DEF Own
  <1> QED BY <1>1, <1>2, <1>3, <1>4, <1>5

\* The platform.
LEMMA PlatformKeeps ==
    ASSUME TypeOK, NEW r \in Runs, Own(r), Works(r), BackgroundCommit(r) \/ Preempt(r) \/ TimeOut(r) \/ ShutDown(r)
    PROVE  Own(r)'
  <1> USE DEF WorkKept, HistoryKept
  <1>1. CASE BackgroundCommit(r)
    <2>1. /\ pc'[r] = pc[r] /\ kind'[r] = kind[r] /\ Live(r)
          /\ LocalKept(r)
          /\ WorkKept(r)
          /\ HistoryKept(r)
          /\ volume'[r] = local[r]
      BY <1>1 DEF BackgroundCommit, Commit, Goes, LocalKept, VolumeKept, LocalHas, TypeOK,
         Directories, work, history
    <2>2. LeaseInv(r)'
      BY <2>1 DEF Own, LeaseInv, Goes, LocalKept, VolumeKept, LocalHas, Leased, Acting,
         Live, Ended, TypeOK
    <2>3. FilesInv(r)'
      BY <2>1 DEF Own, FilesInv, Goes, LocalKept, VolumeKept, LocalHas, Leased, Artifacts,
         Provider, SalvageFiles, Published, TypeOK, Live, Ended
    <2>4. SpendInv(r)'
      BY <2>1, RemoteAssumption DEF Own, SpendInv, FilesInv, LeaseInv, Goes, LocalKept,
         VolumeKept, LocalHas, Acting, Provider, Limit, Unstaged, TypeOK
    <2>5. TruthInv(r)'
      BY <2>1 DEF Own, TruthInv, FilesInv, SpendInv, LeaseInv, Goes, LocalKept,
         VolumeKept, LocalHas, Truthful, Verified, Counted, Reckoned, Refused, Artifacts,
         Provider, Limit, Leased, Acting, TypeOK
    <2> QED BY <2>2, <2>3, <2>4, <2>5 DEF Own
  <1>2. CASE Preempt(r)
    <2>1. /\ Live(r) /\ pc[r] \notin {"done", "raised"}
          /\ pc'[r] = "idle" /\ kind'[r] = kind[r]
          /\ VolumeKept(r)
          /\ HistoryKept(r)
          /\ batch'[r] = {}
          /\ staged'[r] = Unstaged
          /\ inflight'[r] = FALSE
          /\ passed'[r] = FALSE
          /\ local'[r] = Absent
      BY <1>2 DEF Preempt, Vanish, Live, Ended, Goes, LocalKept, VolumeKept, LocalHas,
         TypeOK, Directories, work, history
    <2>2. LeaseInv(r)'
      BY <2>1 DEF Own, LeaseInv, Goes, LocalKept, VolumeKept, LocalHas, Leased, Acting,
         Live, Ended, TypeOK, Absent
    <2>3. FilesInv(r)'
      BY <2>1 DEF Own, FilesInv, Goes, LocalKept, VolumeKept, LocalHas, Leased, Artifacts,
         Provider, SalvageFiles, Published, TypeOK, Live, Ended, Absent
    <2>4. SpendInv(r)'
      BY <2>1, RemoteAssumption DEF Own, SpendInv, FilesInv, LeaseInv, Goes, LocalKept,
         VolumeKept, LocalHas, Acting, Provider, Limit, Unstaged, TypeOK, Absent
    <2>5. TruthInv(r)'
      BY <2>1 DEF Own, TruthInv, FilesInv, SpendInv, LeaseInv, Goes, LocalKept,
         VolumeKept, LocalHas, Truthful, Verified, Counted, Reckoned, Refused, Artifacts,
         Provider, Limit, Leased, Acting, TypeOK, Absent
    <2> QED BY <2>2, <2>3, <2>4, <2>5 DEF Own
  <1>3. CASE TimeOut(r)
    <2>1. /\ Live(r) /\ pc[r] \notin {"done", "raised"}
          /\ pc'[r] = "gone" /\ kind'[r] = kind[r]
          /\ VolumeKept(r)
          /\ HistoryKept(r)
          /\ batch'[r] = {}
          /\ staged'[r] = Unstaged
          /\ inflight'[r] = FALSE
          /\ passed'[r] = FALSE
          /\ local'[r] = Absent
      BY <1>3 DEF TimeOut, Vanish, Live, Ended, Goes, LocalKept, VolumeKept, LocalHas,
         TypeOK, Directories, work, history
    <2>2. LeaseInv(r)'
      BY <2>1 DEF Own, LeaseInv, Goes, LocalKept, VolumeKept, LocalHas, Leased, Acting,
         Live, Ended, TypeOK, Absent
    <2>3. FilesInv(r)'
      BY <2>1 DEF Own, FilesInv, Goes, LocalKept, VolumeKept, LocalHas, Leased, Artifacts,
         Provider, SalvageFiles, Published, TypeOK, Live, Ended, Absent
    <2>4. SpendInv(r)'
      BY <2>1, RemoteAssumption DEF Own, SpendInv, FilesInv, LeaseInv, Goes, LocalKept,
         VolumeKept, LocalHas, Acting, Provider, Limit, Unstaged, TypeOK, Absent
    <2>5. TruthInv(r)'
      BY <2>1 DEF Own, TruthInv, FilesInv, SpendInv, LeaseInv, Goes, LocalKept,
         VolumeKept, LocalHas, Truthful, Verified, Counted, Reckoned, Refused, Artifacts,
         Provider, Limit, Leased, Acting, TypeOK, Absent
    <2> QED BY <2>2, <2>3, <2>4, <2>5 DEF Own
  <1>4. CASE ShutDown(r)
    <2>1. /\ Goes(r, {"done", "raised"}, {"gone"})
          /\ volume'[r] = local[r]
          /\ HistoryKept(r)
          /\ batch'[r] = {}
          /\ staged'[r] = Unstaged
          /\ inflight'[r] = FALSE
          /\ passed'[r] = FALSE
          /\ local'[r] = Absent
      BY <1>4 DEF ShutDown, Commit, Goes, LocalKept, VolumeKept, LocalHas, TypeOK,
         Directories, work, history
    <2>2. LeaseInv(r)'
      BY <2>1 DEF Own, LeaseInv, Goes, LocalKept, VolumeKept, LocalHas, Leased, Acting,
         Live, Ended, TypeOK, Absent
    <2>3. FilesInv(r)'
      BY <2>1 DEF Own, FilesInv, Goes, LocalKept, VolumeKept, LocalHas, Leased, Artifacts,
         Provider, SalvageFiles, Published, TypeOK, Live, Ended, Absent
    <2>4. SpendInv(r)'
      BY <2>1, RemoteAssumption DEF Own, SpendInv, FilesInv, LeaseInv, Goes, LocalKept,
         VolumeKept, LocalHas, Acting, Provider, Limit, Unstaged, TypeOK, Absent
    <2>5. TruthInv(r)'
      BY <2>1 DEF Own, TruthInv, FilesInv, SpendInv, LeaseInv, Goes, LocalKept,
         VolumeKept, LocalHas, Truthful, Verified, Counted, Reckoned, Refused, Artifacts,
         Provider, Limit, Leased, Acting, TypeOK, Absent
    <2> QED BY <2>2, <2>3, <2>4, <2>5 DEF Own
  <1> QED BY <1>1, <1>2, <1>3, <1>4

-----------------------------------------------------------------------------
(* What runs conclude from each other. *)

Entered(r) == pc[r] \notin Ended \cup {"raised"}
Succeeded(d) == d.manifest = "whole" /\ d.success

\* The Volume's copy of a run changes only to that of its live container.
LEMMA StepCommits ==
    ASSUME TypeOK, NEW r \in Runs, Step(r) \/ Platform(r)
    PROVE  volume'[r] = volume[r] \/ (Live(r) /\ volume'[r] = local[r])
  <1> QED
    <2> USE DEF Commit, Goto, Raises, Live, Ended, TypeOK
    <2>1. CASE Begin(r) \/ Lease(r)
      BY <2>1 DEF Begin, Lease, Absent
    <2>2. CASE Provenance(r) \/ CommitLease(r)
      BY <2>2 DEF Provenance, CommitLease
    <2>3. CASE Start(r) \/ Expose(r) \/ RunChild(r)
      BY <2>3 DEF Start, Expose, RunChild
    <2>4. CASE InitLedger(r) \/ Send(r) \/ Record(r)
      BY <2>4 DEF InitLedger, Send, Record
    <2>5. CASE ChildEnds(r) \/ ChildFails(r) \/ GroupLeft(r)
      BY <2>5 DEF ChildEnds, ChildFails, GroupLeft
    <2>6. CASE Publish(r) \/ Salvage(r)
      BY <2>6 DEF Publish, Salvage, PublishOne, Unpublish, Snapshot
    <2>7. CASE RecordFailure(r) \/ Inspect(r) \/ WriteResult(r)
      BY <2>7 DEF RecordFailure, Inspect, WriteResult
    <2>8. CASE WriteManifest(r) \/ CommitRun(r)
      BY <2>8 DEF WriteManifest, CommitRun
    <2>9. CASE Platform(r)
      BY <2>9 DEF Platform, BackgroundCommit, Preempt, TimeOut, ShutDown, Vanish, Absent
    <2> QED BY <2>1, <2>2, <2>3, <2>4, <2>5, <2>6, <2>7, <2>8, <2>9 DEF Step

\* A source is looked at on the Volume, and a verification passes only on a
\* verified one.
LEMMA StepLooks ==
    ASSUME TypeOK, NEW r \in Runs, Step(r) \/ Platform(r)
    PROVE  /\ seen'[r] \in {seen[r], volume[Source[r]]}
           /\ kind[r] = "verify" /\ passed'[r] => passed[r] \/ Verified(seen[r])
  <1>1. seen'[r] \in {seen[r], volume[Source[r]]}
    <2> USE DEF TypeOK
    <2>1. CASE Begin(r) \/ Lease(r)
      BY <2>1 DEF Begin, Lease, Absent
    <2>2. CASE Provenance(r) \/ CommitLease(r)
      BY <2>2 DEF Provenance, CommitLease
    <2>3. CASE Start(r) \/ Expose(r) \/ RunChild(r)
      BY <2>3 DEF Start, Expose, RunChild
    <2>4. CASE InitLedger(r) \/ Send(r) \/ Record(r)
      BY <2>4 DEF InitLedger, Send, Record
    <2>5. CASE ChildEnds(r) \/ ChildFails(r) \/ GroupLeft(r)
      BY <2>5 DEF ChildEnds, ChildFails, GroupLeft
    <2>6. CASE Publish(r) \/ Salvage(r)
      BY <2>6 DEF Publish, Salvage, PublishOne, Unpublish, Snapshot
    <2>7. CASE RecordFailure(r) \/ Inspect(r) \/ WriteResult(r)
      BY <2>7 DEF RecordFailure, Inspect, WriteResult
    <2>8. CASE WriteManifest(r) \/ CommitRun(r)
      BY <2>8 DEF WriteManifest, CommitRun
    <2>9. CASE Platform(r)
      BY <2>9 DEF Platform, BackgroundCommit, Preempt, TimeOut, ShutDown, Vanish, Absent
    <2> QED BY <2>1, <2>2, <2>3, <2>4, <2>5, <2>6, <2>7, <2>8, <2>9 DEF Step
  <1>2. kind[r] = "verify" /\ passed'[r] => passed[r] \/ Verified(seen[r])
    <2> USE DEF TypeOK, work, Pass, Provider
    <2>1. CASE Begin(r) \/ Lease(r)
      BY <2>1 DEF Begin, Lease, Absent
    <2>2. CASE Provenance(r) \/ CommitLease(r)
      BY <2>2 DEF Provenance, CommitLease
    <2>3. CASE Start(r) \/ Expose(r) \/ RunChild(r)
      BY <2>3 DEF Start, Expose, RunChild
    <2>4. CASE InitLedger(r) \/ Send(r) \/ Record(r)
      BY <2>4 DEF InitLedger, Send, Record
    <2>5. CASE ChildEnds(r) \/ ChildFails(r) \/ GroupLeft(r)
      BY <2>5 DEF ChildEnds, ChildFails, GroupLeft
    <2>6. CASE Publish(r) \/ Salvage(r)
      BY <2>6 DEF Publish, Salvage, PublishOne, Unpublish, Snapshot
    <2>7. CASE RecordFailure(r) \/ Inspect(r) \/ WriteResult(r)
      BY <2>7 DEF RecordFailure, Inspect, WriteResult
    <2>8. CASE WriteManifest(r) \/ CommitRun(r)
      BY <2>8 DEF WriteManifest, CommitRun
    <2>9. CASE Platform(r)
      BY <2>9 DEF Platform, BackgroundCommit, Preempt, TimeOut, ShutDown, Vanish, Absent
    <2> QED BY <2>1, <2>2, <2>3, <2>4, <2>5, <2>6, <2>7, <2>8, <2>9 DEF Step
  <1> QED BY <1>1, <1>2

\* A resume enters on a successful, verified source, and starts after it entered.
LEMMA StepEnters ==
    ASSUME TypeOK, NEW r \in Runs, Step(r) \/ Platform(r), kind[r] = "resume"
    PROVE  /\ Entered(r)' => \/ Entered(r)
                             \/ /\ Verified(volume[Source[r]])
                                /\ volume[Source[r]].success
           /\ starts'[r] > 0 => starts[r] > 0 \/ Entered(r)
  <1>1. Entered(r)' => \/ Entered(r)
                       \/ Verified(volume[Source[r]]) /\ volume[Source[r]].success
    <2> USE DEF TypeOK, Entered, Ended, Goto, Raises, Live
    <2>1. CASE Begin(r) \/ Lease(r)
      BY <2>1 DEF Begin, Lease, Absent
    <2>2. CASE Provenance(r) \/ CommitLease(r)
      BY <2>2 DEF Provenance, CommitLease
    <2>3. CASE Start(r) \/ Expose(r) \/ RunChild(r)
      BY <2>3 DEF Start, Expose, RunChild
    <2>4. CASE InitLedger(r) \/ Send(r) \/ Record(r)
      BY <2>4 DEF InitLedger, Send, Record
    <2>5. CASE ChildEnds(r) \/ ChildFails(r) \/ GroupLeft(r)
      BY <2>5 DEF ChildEnds, ChildFails, GroupLeft
    <2>6. CASE Publish(r) \/ Salvage(r)
      BY <2>6 DEF Publish, Salvage, PublishOne, Unpublish, Snapshot
    <2>7. CASE RecordFailure(r) \/ Inspect(r) \/ WriteResult(r)
      BY <2>7 DEF RecordFailure, Inspect, WriteResult
    <2>8. CASE WriteManifest(r) \/ CommitRun(r)
      BY <2>8 DEF WriteManifest, CommitRun
    <2>9. CASE Platform(r)
      BY <2>9 DEF Platform, BackgroundCommit, Preempt, TimeOut, ShutDown, Vanish, Absent
    <2> QED BY <2>1, <2>2, <2>3, <2>4, <2>5, <2>6, <2>7, <2>8, <2>9 DEF Step
  <1>2. starts'[r] > 0 => starts[r] > 0 \/ Entered(r)
    <2> USE DEF TypeOK, history, Entered, Ended, Goto
    <2>1. CASE Begin(r) \/ Lease(r)
      BY <2>1 DEF Begin, Lease, Absent
    <2>2. CASE Provenance(r) \/ CommitLease(r)
      BY <2>2 DEF Provenance, CommitLease
    <2>3. CASE Start(r) \/ Expose(r) \/ RunChild(r)
      BY <2>3 DEF Start, Expose, RunChild
    <2>4. CASE InitLedger(r) \/ Send(r) \/ Record(r)
      BY <2>4 DEF InitLedger, Send, Record
    <2>5. CASE ChildEnds(r) \/ ChildFails(r) \/ GroupLeft(r)
      BY <2>5 DEF ChildEnds, ChildFails, GroupLeft
    <2>6. CASE Publish(r) \/ Salvage(r)
      BY <2>6 DEF Publish, Salvage, PublishOne, Unpublish, Snapshot
    <2>7. CASE RecordFailure(r) \/ Inspect(r) \/ WriteResult(r)
      BY <2>7 DEF RecordFailure, Inspect, WriteResult
    <2>8. CASE WriteManifest(r) \/ CommitRun(r)
      BY <2>8 DEF WriteManifest, CommitRun
    <2>9. CASE Platform(r)
      BY <2>9 DEF Platform, BackgroundCommit, Preempt, TimeOut, ShutDown, Vanish, Absent
    <2> QED BY <2>1, <2>2, <2>3, <2>4, <2>5, <2>6, <2>7, <2>8, <2>9 DEF Step
  <1> QED BY <1>1, <1>2

\* A directory says that it succeeded when it did before, or when the run passed.
LEMMA StepSucceeds ==
    ASSUME TypeOK, NEW r \in Runs, Own(r), Step(r) \/ Platform(r), Succeeded(local'[r])
    PROVE  Succeeded(local[r]) \/ Succeeded(volume[r]) \/ passed[r]
  <1>1. local[r] \in Directories /\ volume[r] \in Directories
    BY DEF TypeOK
  <1>2. CASE local'[r] = local[r]
    BY <1>2
  <1>3. CASE Begin(r) \/ Lease(r)
    <2>1. ~Succeeded(Absent) /\ ~Succeeded([Absent EXCEPT !.there = TRUE])
      BY DEF Absent, Succeeded
    <2>2. local'[r] \in {volume[r], [Absent EXCEPT !.there = TRUE]}
      BY <1>3 DEF Begin, Lease, TypeOK
    <2> QED BY <2>1, <2>2
  <1>4. CASE \E names : Add(r, names)
    BY <1>1, <1>4 DEF Add, Succeeded, TypeOK, Directories
  <1>5. CASE PublishOne(r) \/ Unpublish(r)
    <2>1. PICK names, n : \/ local' = [local EXCEPT ![r].files = names]
                          \/ local' = [local EXCEPT ![r].files = names, ![r].records = n]
                          \/ local' = [local EXCEPT ![r].files = names, ![r].cut = n]
      BY <1>5 DEF PublishOne, Unpublish
    <2>2. local \in [Runs -> Directories]
      BY DEF TypeOK
    <2>3. /\ local'[r].manifest = local[r].manifest
          /\ local'[r].success = local[r].success
      BY <1>1, <2>1, <2>2 DEF Directories
    <2> QED BY <2>3 DEF Succeeded
  <1>6. CASE WriteResult(r) \/ WriteManifest(r)
    <2>1. CASE WriteResult(r) /\ pc[r] = "result"
      <3>1. local[r].manifest = "none"
        BY <2>1 DEF Own, LeaseInv, Leased
      <3>2. local'[r].manifest = "none"
        BY <1>1, <2>1, <3>1 DEF WriteResult, Raises, TypeOK, Directories
      <3> QED BY <3>2 DEF Succeeded
    <2>2. CASE WriteManifest(r) /\ pc[r] = "manifest"
      <3>1. local[r].success = passed[r]
        BY <2>2 DEF Own, FilesInv
      <3>2. local'[r].success = local[r].success
        BY <1>1, <2>2 DEF WriteManifest, TypeOK, Directories
      <3> QED BY <3>1, <3>2 DEF Succeeded
    <2> QED BY <1>6, <2>1, <2>2 DEF WriteResult, WriteManifest, Goto, Raises
  <1>7. CASE Platform(r)
    <2>1. ~Succeeded(Absent)
      BY DEF Absent, Succeeded
    <2>2. local'[r] \in {local[r], Absent}
      BY <1>7 DEF Platform, BackgroundCommit, Preempt, TimeOut, ShutDown, Vanish, TypeOK
    <2> QED BY <2>1, <2>2
  <1>8. CASE Provenance(r) \/ CommitLease(r) \/ Start(r) \/ Expose(r) \/ RunChild(r)
    BY <1>2, <1>4, <1>8 DEF Provenance, CommitLease, Raises, Start, Expose, RunChild
  <1>9. CASE InitLedger(r) \/ Send(r) \/ Record(r) \/ ChildEnds(r) \/ ChildFails(r) \/ GroupLeft(r)
    BY <1>2, <1>9 DEF InitLedger, Send, Record, ChildEnds, ChildFails, GroupLeft
  <1>10. CASE Publish(r) \/ Salvage(r)
    BY <1>2, <1>5, <1>10 DEF Publish, Salvage
  <1>11. CASE RecordFailure(r) \/ Inspect(r) \/ CommitRun(r)
    BY <1>2, <1>4, <1>11 DEF RecordFailure, Inspect, CommitRun, Raises
  <1> QED BY <1>3, <1>6, <1>7, <1>8, <1>9, <1>10, <1>11 DEF Step

\* A whole directory on the Volume is never changed.
LEMMA StepFinal ==
    ASSUME TypeOK, NEW r \in Runs, Own(r), Step(r) \/ Platform(r),
           NEW q \in Runs, volume[q].manifest = "whole"
    PROVE  volume'[q] = volume[q]
  <1>1. CASE q = r
    BY <1>1, StepCommits DEF Own, LeaseInv
  <1>2. CASE q # r
    BY <1>2, StepWrites DEF Writes
  <1> QED BY <1>1, <1>2

LEMMA SourceKeeps ==
    ASSUME RemoteInv, NEW r \in Runs, Step(r) \/ Platform(r), NEW q \in Runs
    PROVE  SourceInv(q)' /\ Grounded(q)'
  <1> DEFINE s == volume[Source[q]]
             t == volume'[Source[q]]
  <1>1. TypeOK /\ Own(r) /\ SpendInv(r) /\ SourceInv(q) /\ Grounded(q) /\ Source[q] \in Runs
    BY RemoteAssumption DEF RemoteInv, Own
  <1>2. Moves(r) /\ Writes(r) /\ Works(r)
    BY <1>1, StepTypes
  <1>3. s.manifest = "whole" => t = s
    BY <1>1, StepFinal
  <1> HIDE DEF t
  <1>4. CASE q # r
    <2>1. /\ pc'[q] = pc[q] /\ local'[q] = local[q] /\ volume'[q] = volume[q]
          /\ seen'[q] = seen[q] /\ passed'[q] = passed[q] /\ starts'[q] = starts[q]
          /\ kind' = kind
      BY <1>2, <1>4 DEF Moves, Writes, Works
    <2>2. SourceInv(q)'
      BY <1>1, <1>3, <2>1 DEF SourceInv, Verified, t
    <2>3. Grounded(q)'
      BY <1>1, <1>3, <2>1 DEF Grounded, Verified, t
    <2> QED BY <2>2, <2>3
  <1>5. CASE q = r
    <2>1. kind' = kind
      BY <1>2 DEF Works
    <2>2. seen'[r].manifest = "whole" => seen'[r] = t
      BY <1>1, <1>3, <1>5, StepLooks DEF SourceInv
    <2>3. kind[r] = "verify" /\ (passed[r] \/ passed'[r]) => Verified(t)
      BY <1>1, <1>3, <1>5, StepLooks DEF SourceInv, Verified
    <2>4. kind[r] = "verify" /\ (Succeeded(local'[r]) \/ Succeeded(volume'[r])) => Verified(t)
      <3>1. kind[r] = "verify" /\ (Succeeded(local[r]) \/ Succeeded(volume[r])) => Verified(t)
        BY <1>1, <1>3, <1>5 DEF SourceInv, Grounded, Succeeded, Verified
      <3>2. volume'[r] \in {volume[r], local[r]}
        BY <1>1, StepCommits
      <3>3. Succeeded(local'[r]) => Succeeded(local[r]) \/ Succeeded(volume[r]) \/ passed[r]
        BY <1>1, StepSucceeds
      <3> QED BY <2>3, <3>1, <3>2, <3>3
    <2>5. kind[r] = "resume" /\ (Entered(r)' \/ starts'[r] > 0) => Verified(t) /\ t.success
      <3>1. kind[r] = "resume" /\ (Entered(r) \/ starts[r] > 0) => Verified(t) /\ t.success
        BY <1>1, <1>3, <1>5 DEF SourceInv, Grounded, Entered, Verified
      <3> QED BY <1>1, <1>3, <1>5, <3>1, StepEnters DEF Verified
    <2>6. SourceInv(r)'
      BY <1>5, <2>1, <2>2, <2>3, <2>4, <2>5 DEF SourceInv, Succeeded, Entered, t
    <2>7. Grounded(r)'
      BY <1>5, <2>1, <2>4, <2>5 DEF Grounded, Succeeded, t
    <2> QED BY <1>5, <2>6, <2>7
  <1> QED BY <1>4, <1>5

-----------------------------------------------------------------------------
(* The invariant and the theorems. *)

LEMMA OwnKeeps ==
    ASSUME RemoteInv, NEW r \in Runs, Step(r) \/ Platform(r), NEW q \in Runs
    PROVE  Own(q)'
  <1>1. TypeOK /\ Own(r) /\ Own(q)
    BY DEF RemoteInv, Own
  <1>2. Moves(r) /\ Writes(r) /\ Works(r)
    BY <1>1, StepTypes DEF Own
  <1>3. CASE q = r
    <2>1. Own(r)'
      BY <1>1, <1>2, LeasingKeeps, RunningKeeps, PublishingKeeps, EndingKeeps, PlatformKeeps
         DEF Step, Platform
    <2> QED BY <1>3, <2>1
  <1>4. CASE q # r
    <2>1. /\ pc'[q] = pc[q] /\ local'[q] = local[q] /\ volume'[q] = volume[q]
          /\ batch'[q] = batch[q] /\ staged'[q] = staged[q] /\ inflight'[q] = inflight[q]
          /\ passed'[q] = passed[q] /\ starts'[q] = starts[q] /\ sent'[q] = sent[q]
          /\ unwritten'[q] = unwritten[q] /\ kind' = kind /\ (q \in quarantined' <=> q \in quarantined)
      BY <1>2, <1>4 DEF Moves, Writes, Works
    <2>2. LeaseInv(q)'
      BY <1>1, <2>1 DEF Own, LeaseInv, Live
    <2>3. FilesInv(q)'
      BY <1>1, <2>1 DEF Own, FilesInv, Artifacts, Provider
    <2>4. SpendInv(q)'
      BY <1>1, <2>1 DEF Own, SpendInv, Provider, Limit
    <2>5. TruthInv(q)'
      BY <1>1, <2>1 DEF Own, TruthInv, Truthful, Counted, Artifacts, Provider
    <2> QED BY <2>2, <2>3, <2>4, <2>5 DEF Own
  <1> QED BY <1>3, <1>4

LEMMA InitHolds ==
    ASSUME Init
    PROVE  RemoteInv
  <1>1. TypeOK
    BY Blank, RemoteAssumption DEF Init, TypeOK, Ledgers
  <1>2. ASSUME NEW r \in Runs
        PROVE  LeaseInv(r) /\ FilesInv(r) /\ SpendInv(r) /\ TruthInv(r) /\ SourceInv(r)
               /\ Grounded(r)
    <2>1. /\ Absent.manifest = "none" /\ ~Absent.there /\ Absent.files = {}
          /\ Absent.cut = {} /\ Unstaged.records = 0 /\ Unstaged.asked = 0
      BY DEF Absent, Unstaged
    <2>2. /\ pc[r] = "idle" /\ local[r] = Absent /\ volume[r] = Absent /\ seen[r] = Absent
          /\ batch[r] = {} /\ staged[r] = Unstaged /\ inflight[r] = FALSE /\ passed[r] = FALSE
          /\ starts[r] = 0 /\ sent[r] = 0 /\ unwritten[r] = 0 /\ r \notin quarantined
      BY <1>2 DEF Init
    <2>3. Source[r] \in Runs /\ volume[Source[r]] = Absent /\ 0 <= Limit(r)
      BY <1>2, RemoteAssumption DEF Init, Limit
    <2>4. LeaseInv(r)
      BY <2>1, <2>2 DEF LeaseInv, Leased, Acting, Live, Ended
    <2>5. FilesInv(r)
      BY <2>1, <2>2 DEF FilesInv, Leased
    <2>6. SpendInv(r)
      BY <2>1, <2>2, <2>3 DEF SpendInv, Acting
    <2>7. TruthInv(r)
      BY <2>1, <2>2 DEF TruthInv, Truthful, Counted
    <2>8. SourceInv(r) /\ Grounded(r)
      BY <2>1, <2>2, <2>3 DEF SourceInv, Grounded, Ended
    <2> QED BY <2>4, <2>5, <2>6, <2>7, <2>8
  <1> QED BY <1>1, <1>2 DEF RemoteInv

LEMMA NextKeeps ==
    ASSUME RemoteInv, [Next]_vars
    PROVE  RemoteInv'
  <1>1. CASE Next
    <2>1. PICK r \in Runs : Step(r) \/ Platform(r)
      BY <1>1 DEF Next
    <2>2. TypeOK'
      BY <2>1, StepTypes DEF RemoteInv
    <2>3. ASSUME NEW q \in Runs
          PROVE  Own(q)' /\ SourceInv(q)' /\ Grounded(q)'
      BY <2>1, <2>3, OwnKeeps, SourceKeeps
    <2> QED BY <2>2, <2>3 DEF RemoteInv, Own
  <1>2. CASE UNCHANGED vars
    BY <1>2 DEF vars, work, history, RemoteInv, TypeOK, LeaseInv, FilesInv, SpendInv,
       TruthInv,
                SourceInv, Grounded, Live, Artifacts, Provider, Limit, Truthful, Counted
  <1> QED BY <1>1, <1>2

\* The inductive invariant holds, for every set of runs, of their kinds and of the runs
\* they read, whatever is preempted, timed out or fails.
THEOREM RemoteInvariant == Spec => []RemoteInv
  <1>1. Init => RemoteInv
    BY InitHolds
  <1>2. RemoteInv /\ [Next]_vars => RemoteInv'
    BY NextKeeps
  <1> QED BY <1>1, <1>2, PTL DEF Spec

\* The paid action of a run id is started at most once.
THEOREM RunsStartOnce == Spec => []StartedOnce
  <1>1. RemoteInv => StartedOnce
    BY DEF RemoteInv, LeaseInv, StartedOnce
  <1> QED BY <1>1, RemoteInvariant, PTL

\* What the Volume's manifests say is true.
THEOREM ManifestsAreTrue == Spec => []ManifestIsTruth
  <1>1. RemoteInv => ManifestIsTruth
    BY DEF RemoteInv, TruthInv, ManifestIsTruth
  <1> QED BY <1>1, RemoteInvariant, PTL

\* A run that may have leaked never gets a manifest.
THEOREM QuarantineIsKept == Spec => []QuarantineHolds
  <1>1. RemoteInv => QuarantineHolds
    BY DEF RemoteInv, TypeOK, LeaseInv, QuarantineHolds
  <1> QED BY <1>1, RemoteInvariant, PTL

\* No request is missing from what is counted.
THEOREM SpendIsCounted == Spec => []SpendIsBounded
  <1>1. RemoteInv => SpendIsBounded
    BY DEF RemoteInv, TruthInv, SpendIsBounded
  <1> QED BY <1>1, RemoteInvariant, PTL

\* A directory with a whole manifest is final.
THEOREM ManifestsAreFinal == Spec => ManifestedIsFinal
  <1> DEFINE Kept == \A r \in Runs : volume[r].manifest = "whole" => volume'[r] = volume[r]
  <1>1. RemoteInv /\ [Next]_vars => [Kept]_vars
    <2> SUFFICES ASSUME RemoteInv, Next
                 PROVE  Kept
      OBVIOUS
    <2>1. PICK r \in Runs : Step(r) \/ Platform(r)
      BY DEF Next
    <2>2. TypeOK /\ Own(r)
      BY DEF RemoteInv, Own
    <2> QED BY <2>1, <2>2, StepFinal
  <1> QED BY <1>1, RemoteInvariant, PTL DEF Spec, ManifestedIsFinal

=============================================================================
