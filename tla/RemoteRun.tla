----------------------------- MODULE RemoteRun -----------------------------
(***************************************************************************)
(* The remote half of a paid action (modal_app.py): the container that     *)
(* takes the create-once lease of a run id on the Volume, runs the action  *)
(* in private staging, publishes its files and writes a manifest last.     *)
(* The provider's attempt ledger (common/provider_attempts.py) is written  *)
(* by the action's child process, after each request.                      *)
(*                                                                         *)
(* A container sees its own copy of the run directory (local); what is     *)
(* committed is volume.  The Volume also commits in the background, at any *)
(* moment of a container's life and at its end.  A preempted container     *)
(* loses staging and its uncommitted files, and its input is started again *)
(* from the top; a timeout ends it for good.  One input per run id is      *)
(* started by the launcher (OneStartPerRun of ActionJournal), and a        *)
(* container serves one input.                                             *)
(*                                                                         *)
(* kind of a run: free (no provider), canary (one request), bounded (the   *)
(* openevolve-60 and evolution runs: a request for each iteration), resume *)
(* (trains on from a source run's checkpoint), verify (checks the manifest *)
(* of a source run).  The exploratory pilot keeps no ledger: not modelled. *)
(*                                                                         *)
(* Abstracted: byte caps and path checks (a step that they can stop may    *)
(* fail), credentials, digests, and the contents of the staged tree but    *)
(* for the ledger.                                                         *)
(***************************************************************************)
EXTENDS Naturals, FiniteSets

CONSTANTS
    Runs,
    Kinds,        \* the assignments of kinds to runs to be considered
    Source,       \* for each run, the run that a resume or verify reads
    MaxRequests,  \* iterations of a bounded run
    MaxRestarts,  \* bound: preemptions
    MaxFaults     \* bound: failed operations

ASSUME RemoteAssumption ==
    /\ Kinds \subseteq [Runs -> {"free", "canary", "bounded", "resume", "verify"}]
    /\ Source \in [Runs -> Runs]
    /\ MaxRequests \in Nat \ {0} /\ MaxRestarts \in Nat /\ MaxFaults \in Nat

VARIABLES
    kind,
    pc,
    local,        \* the container's copy of the run directory
    volume,       \* the committed run directory
    seen,         \* the source directory as the container's last reload shows it
    batch,        \* files of the staged tree that are being published
    staged,       \* the ledger in staging, its whole records, and the
                  \* requests that the child asked for
    inflight,     \* a request was sent and is not recorded
    passed,       \* the action and its validation succeeded
    starts,       \* history: how often the action of a run was started
    sent,         \* history: provider requests that left, for each run
    unwritten,    \* history: those whose record could not be appended
    quarantined,  \* history: runs with an exposure or an unclosed process group
    restarts, faults

work == <<batch, staged, inflight, passed>>
history == <<starts, sent, unwritten, quarantined>>
vars == <<kind, pc, local, volume, seen, work, history, restarts, faults>>

Names == {"context", "image", "ledger", "uncertain", "output", "failure", "result"}

\* files are the names that are there, cut those whose bytes are not all there.
Absent == [there |-> FALSE, files |-> {}, cut |-> {}, success |-> FALSE, records |-> 0,
           manifest |-> "none", lists |-> {}]

Unstaged == [ledger |-> "missing", records |-> 0, asked |-> 0]

Provider(r) == kind[r] \in {"canary", "bounded"}
\* The opportunities of the harness; its client makes one request for each,
\* whatever becomes of it ("single-shot": no retries).  The ledger counts none.
Limit(r) == IF kind[r] = "canary" THEN 1 ELSE MaxRequests

\* What a successful action publishes.
Artifacts(r) == IF Provider(r) THEN {"ledger", "output"} ELSE {"output"}

\* verify_artifact_manifest
Verified(d) == d.manifest = "whole" /\ d.files = d.lists

Ended == {"idle", "gone"}
Live(r) == pc[r] \notin Ended

Init ==
    /\ kind \in Kinds
    /\ pc = [r \in Runs |-> "idle"]
    /\ local = [r \in Runs |-> Absent]
    /\ volume = [r \in Runs |-> Absent]
    /\ seen = [r \in Runs |-> Absent]
    /\ batch = [r \in Runs |-> {}]
    /\ staged = [r \in Runs |-> Unstaged]
    /\ inflight = [r \in Runs |-> FALSE]
    /\ passed = [r \in Runs |-> FALSE]
    /\ starts = [r \in Runs |-> 0]
    /\ sent = [r \in Runs |-> 0]
    /\ unwritten = [r \in Runs |-> 0]
    /\ quarantined = {}
    /\ restarts = 0
    /\ faults = 0

Goto(r, from, to) == pc[r] = from /\ pc' = [pc EXCEPT ![r] = to]
Fault == faults < MaxFaults /\ faults' = faults + 1
NoFault == UNCHANGED faults
Add(r, names) == local' = [local EXCEPT ![r].files = @ \cup names]
Commit(r) == volume' = [volume EXCEPT ![r] = local[r]]

\* A step that fails with nothing done and leaves the call.
Raises(r, from) ==
    Goto(r, from, "raised") /\ Fault /\ UNCHANGED local

-----------------------------------------------------------------------------
(* The lease: _prepare_run. *)

\* Every input starts with a reload; a resume first requires a successful,
\* verified source run, and a candidate smoke: a run without a provider.
Begin(r) ==
    /\ \/ /\ kind[r] # "resume"
          /\ Goto(r, "idle", "lease")
       \/ /\ kind[r] = "resume"
          /\ IF /\ Verified(volume[Source[r]]) /\ volume[Source[r]].success
                /\ kind[Source[r]] = "free"
             THEN Goto(r, "idle", "lease")
             ELSE Goto(r, "idle", "raised")
    /\ local' = [local EXCEPT ![r] = volume[r]]
    /\ seen' = [seen EXCEPT ![r] = volume[Source[r]]]
    /\ UNCHANGED <<kind, volume, work, history, restarts, faults>>

\* Mutant: an existing run directory is taken over.
Lease_Reuses(r) ==
    /\ Goto(r, "lease", "provenance")
    /\ local' = [local EXCEPT ![r].there = TRUE]
    /\ UNCHANGED <<kind, volume, seen, work, history, restarts, faults>>

\* The second reload and create_fresh_run_directory.
Lease(r) ==
    /\ seen' = [seen EXCEPT ![r] = volume[Source[r]]]
    /\ IF volume[r].there
       THEN Goto(r, "lease", "raised") /\ local' = [local EXCEPT ![r] = volume[r]]
       ELSE /\ Goto(r, "lease", "provenance")
            /\ local' = [local EXCEPT ![r] = [Absent EXCEPT !.there = TRUE]]
    /\ UNCHANGED <<kind, volume, work, history, restarts, faults>>

Provenance(r) ==
    /\ \/ Goto(r, "provenance", "bind") /\ Add(r, {"context", "image"}) /\ NoFault
       \/ /\ Goto(r, "provenance", "raised") /\ Fault
          /\ \/ UNCHANGED local
             \/ Add(r, {"context"})
    /\ UNCHANGED <<kind, volume, seen, work, history, restarts>>

\* Mutant: the action starts without the commit of its lease.
CommitLease_Later(r) ==
    /\ \/ Goto(r, "bind", "act") /\ NoFault /\ UNCHANGED local
       \/ Raises(r, "bind")
    /\ UNCHANGED <<kind, volume, seen, work, history, restarts>>

\* The commit is the durable lease: nothing is started before it.
CommitLease(r) ==
    /\ \/ Goto(r, "bind", "act") /\ Commit(r) /\ NoFault /\ UNCHANGED local
       \/ Raises(r, "bind") /\ UNCHANGED volume
    /\ UNCHANGED <<kind, seen, work, history, restarts>>

-----------------------------------------------------------------------------
(* The action. *)

Start(r) ==
    /\ kind[r] # "verify"
    /\ Goto(r, "act", "run")
    /\ starts' = [starts EXCEPT ![r] = @ + 1]
    /\ UNCHANGED <<kind, local, volume, seen, work, sent, unwritten, quarantined,
                   restarts, faults>>

\* A probe of a run without a provider reaches the network: the failure is
\* written, and neither a manifest nor a commit follows.
Expose(r) ==
    /\ kind[r] \in {"free", "resume"}
    /\ quarantined' = quarantined \cup {r}
    /\ Fault
    /\ Goto(r, "run", "raised")
    /\ \/ Add(r, {"failure"})
       \/ UNCHANGED local
    /\ UNCHANGED <<kind, volume, seen, work, starts, sent, unwritten, restarts>>

Pass(r) == passed' = [passed EXCEPT ![r] = TRUE]

\* _run_command of a child without provider.
RunChild(r) ==
    /\ kind[r] \in {"free", "resume"}
    /\ \/ Goto(r, "run", "publish") /\ Pass(r) /\ NoFault
       \/ Goto(r, "run", "salvage") /\ UNCHANGED passed /\ Fault
    /\ UNCHANGED <<kind, local, volume, seen, batch, staged, inflight, history, restarts>>

\* The child initializes its ledger before its first request.
InitLedger(r) ==
    /\ pc[r] = "run" /\ Provider(r) /\ staged[r].ledger = "missing"
    /\ staged' = [staged EXCEPT ![r].ledger = "open"]
    /\ UNCHANGED <<kind, pc, local, volume, seen, batch, inflight, passed, history,
                   restarts, faults>>

\* Mutant: the harness counts its requests by the records of the ledger.
Send_ByLedger(r) ==
    /\ pc[r] = "run" /\ staged[r].ledger = "open"
    /\ ~inflight[r] /\ staged[r].records < Limit(r)
    /\ staged' = [staged EXCEPT ![r].asked = @ + 1]
    /\ inflight' = [inflight EXCEPT ![r] = TRUE]
    /\ sent' = [sent EXCEPT ![r] = @ + 1]
    /\ UNCHANGED <<kind, pc, local, volume, seen, batch, passed, starts, unwritten,
                   quarantined, restarts, faults>>

\* The next opportunity.  record_call locks the ledger, reads it, which a torn
\* one does not survive, and sends the request.
Send(r) ==
    /\ pc[r] = "run" /\ staged[r].ledger = "open"
    /\ ~inflight[r] /\ staged[r].asked < Limit(r)
    /\ staged' = [staged EXCEPT ![r].asked = @ + 1]
    /\ inflight' = [inflight EXCEPT ![r] = TRUE]
    /\ sent' = [sent EXCEPT ![r] = @ + 1]
    /\ UNCHANGED <<kind, pc, local, volume, seen, batch, passed, starts, unwritten,
                   quarantined, restarts, faults>>

\* ... and appends its record when the call has returned or raised.  A record
\* that is refused, or a write that fails, appends nothing and leaves a valid
\* ledger; a short write leaves a torn one, which every later reader refuses.
\* Either way the harness books a failed opportunity and goes on.
Record(r) ==
    /\ pc[r] = "run" /\ inflight[r]
    /\ inflight' = [inflight EXCEPT ![r] = FALSE]
    /\ \/ /\ staged' = [staged EXCEPT ![r].records = @ + 1]
          /\ NoFault /\ UNCHANGED unwritten
       \/ /\ UNCHANGED staged \/ staged' = [staged EXCEPT ![r].ledger = "torn"]
          /\ unwritten' = [unwritten EXCEPT ![r] = @ + 1]
          /\ Fault
    /\ UNCHANGED <<kind, pc, local, volume, seen, batch, passed, starts, sent,
                   quarantined, restarts>>

\* The child ends well, and the validation of the staged tree finds a record
\* for each opportunity: the one of a canary, one for each iteration.
ChildEnds(r) ==
    /\ Provider(r) /\ ~inflight[r]
    /\ staged[r].ledger = "open" /\ staged[r].records = Limit(r)
    /\ Goto(r, "run", "publish") /\ Pass(r)
    /\ UNCHANGED <<kind, local, volume, seen, batch, staged, inflight, history,
                   restarts, faults>>

\* The child fails or is killed, a request perhaps still in flight, or the
\* staged tree is refused.
ChildFails(r) ==
    /\ Provider(r)
    /\ Goto(r, "run", "salvage")
    /\ inflight' = [inflight EXCEPT ![r] = FALSE]
    /\ Fault
    /\ UNCHANGED <<kind, local, volume, seen, batch, staged, passed, history, restarts>>

\* Mutant: an unclosed process group is an ordinary failure.
GroupLeft_Salvaged(r) ==
    /\ kind[r] # "verify"
    /\ Goto(r, "run", "salvage")
    /\ inflight' = [inflight EXCEPT ![r] = FALSE]
    /\ quarantined' = quarantined \cup {r}
    /\ Fault
    /\ UNCHANGED <<kind, local, volume, seen, batch, staged, passed, starts, sent,
                   unwritten, restarts>>

\* The outer deadline passes, or the process group outlives its kill: nothing
\* is published, and the lease is all that stays.
GroupLeft(r) ==
    /\ kind[r] # "verify"
    /\ Goto(r, "run", "raised")
    /\ inflight' = [inflight EXCEPT ![r] = FALSE]
    /\ quarantined' = quarantined \cup {r}
    /\ Fault
    /\ UNCHANGED <<kind, local, volume, seen, batch, staged, passed, starts, sent,
                   unwritten, restarts>>

-----------------------------------------------------------------------------
(* Publication of staged files, one exclusive file after the other. *)

\* The names are preflighted; a collision is a failed snapshot.
Snapshot(r, names) ==
    /\ names \cap local[r].files = {}
    /\ batch' = [batch EXCEPT ![r] = names]

\* A failure removes the files of the batch that are there, or some of them: a
\* file that cannot be removed stays, also the one whose write just failed.
Unpublish(r) ==
    \E kept \in SUBSET batch[r] :
        LET partial == kept \ local[r].files
        IN /\ \A f, g \in partial : f = g
           /\ local' = [local EXCEPT ![r].files = (@ \ batch[r]) \cup kept,
                                     ![r].cut = @ \cup partial]

Published(r) == batch[r] \subseteq local[r].files

PublishOne(r) ==
    /\ \E f \in batch[r] \ local[r].files :
          local' = [local EXCEPT ![r].files = @ \cup {f},
                                 ![r].records = IF f = "ledger" THEN staged[r].records ELSE @]
    /\ NoFault
    /\ UNCHANGED <<batch, pc>>

\* A resume verifies its source again first: a step that may fail.
Publish(r) ==
    /\ pc[r] = "publish"
    /\ \/ /\ batch[r] = {}
          /\ Snapshot(r, Artifacts(r)) /\ NoFault /\ UNCHANGED <<pc, local>>
       \/ PublishOne(r)
       \/ /\ batch[r] # {} /\ Published(r)
          /\ Goto(r, "publish", "result") /\ NoFault /\ UNCHANGED <<batch, local>>
       \/ Goto(r, "publish", "salvage") /\ Fault /\ Unpublish(r)
          /\ batch' = [batch EXCEPT ![r] = {}]
    /\ UNCHANGED <<kind, volume, seen, staged, inflight, passed, history, restarts>>

\* What a failed provider action publishes: a canary its validated ledger,
\* with evidence that a request may have started when it has no record;
\* another provider action its whole staging.
SalvageFiles(r) ==
    IF kind[r] = "canary"
    THEN {"ledger"} \cup (IF staged[r].records = 0 THEN {"uncertain"} ELSE {})
    ELSE IF staged[r].ledger = "missing" THEN {"output"} ELSE {"ledger", "output"}

\* A torn ledger of a canary, a collision and a failed publication replace
\* the error; another exception leaves without failure record.
Salvage(r) ==
    /\ pc[r] = "salvage"
    /\ passed' = [passed EXCEPT ![r] = FALSE]
    /\ \/ /\ \/ ~Provider(r)
             \/ kind[r] = "canary" /\ staged[r].ledger = "torn"
             \/ batch[r] = {} /\ SalvageFiles(r) \cap local[r].files # {}
             \/ batch[r] # {} /\ Published(r)
          /\ Goto(r, "salvage", "record") /\ NoFault /\ UNCHANGED <<batch, local>>
       \/ /\ Provider(r)
          /\ ~(kind[r] = "canary" /\ staged[r].ledger = "torn")
          /\ \/ /\ batch[r] = {}
                /\ Snapshot(r, SalvageFiles(r)) /\ NoFault /\ UNCHANGED <<pc, local>>
             \/ PublishOne(r)
             \/ \E to \in {"record", "raised"} :
                   Goto(r, "salvage", to) /\ Fault /\ Unpublish(r) /\ UNCHANGED batch
    /\ UNCHANGED <<kind, volume, seen, staged, inflight, history, restarts>>

-----------------------------------------------------------------------------
(* The end: _record_failure and _finalize_run, the manifest last. *)

RecordFailure(r) ==
    /\ \/ Goto(r, "record", "result") /\ Add(r, {"failure"}) /\ NoFault
       \/ Raises(r, "record")
    /\ UNCHANGED <<kind, volume, seen, work, history, restarts>>

\* The verifier judges the source as its container sees it; whatever it
\* finds, its own directory is finalized.
Inspect(r) ==
    /\ kind[r] = "verify"
    /\ Goto(r, "act", "result")
    /\ starts' = [starts EXCEPT ![r] = @ + 1]
    /\ \/ /\ Verified(seen[r]) /\ Pass(r) /\ NoFault
       \/ /\ ~Verified(seen[r]) /\ UNCHANGED passed /\ NoFault
       \/ UNCHANGED passed /\ Fault
    /\ UNCHANGED <<kind, local, volume, seen, batch, staged, inflight, sent, unwritten,
                   quarantined, restarts>>

\* Mutant: the manifest is written before the result.
WriteResult_AfterManifest(r) ==
    /\ \/ /\ Goto(r, "result", "manifest") /\ NoFault
          /\ local' = [local EXCEPT ![r].success = passed[r], ![r].manifest = "whole",
                                    ![r].lists = local[r].files \cup {"result"}]
       \/ Raises(r, "result")
    /\ UNCHANGED <<kind, volume, seen, work, history, restarts>>

\* The verifier writes one receipt, the others a result (after the failure).
WriteResult(r) ==
    /\ \/ /\ Goto(r, "result", "manifest") /\ NoFault
          /\ LET name == IF kind[r] = "verify" /\ ~passed[r] THEN "failure" ELSE "result"
             IN local' = [local EXCEPT ![r].files = @ \cup {name}, ![r].success = passed[r]]
       \/ Raises(r, "result")
    /\ UNCHANGED <<kind, volume, seen, work, history, restarts>>

\* A manifest whose write fails stays torn.
WriteManifest(r) ==
    /\ \/ /\ Goto(r, "manifest", "commit") /\ NoFault
          /\ local' = [local EXCEPT ![r].manifest = "whole", ![r].lists = local[r].files]
       \/ /\ Goto(r, "manifest", "raised") /\ Fault
          /\ \/ UNCHANGED local
             \/ local' = [local EXCEPT ![r].manifest = "torn"]
    /\ UNCHANGED <<kind, volume, seen, work, history, restarts>>

CommitRun(r) ==
    /\ \/ Goto(r, "commit", "done") /\ Commit(r) /\ NoFault /\ UNCHANGED local
       \/ Raises(r, "commit") /\ UNCHANGED volume
    /\ UNCHANGED <<kind, seen, work, history, restarts>>

-----------------------------------------------------------------------------
(* How the readiness record counts a canary that its cohort names. *)

\* Mutant: an empty ledger counts as no request.
Refused_Missing(d) == "ledger" \notin d.files

\* An empty ledger is never counted as none: it needs the evidence of an
\* uncertain start, whole, which in turn needs an empty ledger.  (The one record
\* of a cut ledger is not there: it is empty, or torn and refused anyway.)
Refused(d) ==
    \/ "ledger" \notin d.files
    \/ ("uncertain" \in d.files) # (d.records = 0)
    \/ "uncertain" \in d.cut

Reckoned(d) == IF "uncertain" \in d.files THEN 1 ELSE d.records

-----------------------------------------------------------------------------
(* The platform. *)

\* Whatever the directory holds is committed, also between two writes.
BackgroundCommit(r) ==
    /\ Live(r)
    /\ Commit(r)
    /\ volume' # volume
    /\ UNCHANGED <<kind, pc, local, seen, work, history, restarts, faults>>

Vanish(r, to) ==
    /\ pc' = [pc EXCEPT ![r] = to]
    /\ local' = [local EXCEPT ![r] = Absent]
    /\ batch' = [batch EXCEPT ![r] = {}]
    /\ staged' = [staged EXCEPT ![r] = Unstaged]
    /\ inflight' = [inflight EXCEPT ![r] = FALSE]
    /\ passed' = [passed EXCEPT ![r] = FALSE]
    /\ UNCHANGED <<kind, volume, seen, history>>

\* The input of a preempted container is started again.
Preempt(r) ==
    /\ Live(r) /\ pc[r] \notin {"done", "raised"}
    /\ restarts < MaxRestarts /\ restarts' = restarts + 1
    /\ Vanish(r, "idle")
    /\ NoFault

\* The function's timeout kills the container of an unfinished input.
TimeOut(r) ==
    /\ Live(r) /\ pc[r] \notin {"done", "raised"}
    /\ Vanish(r, "gone")
    /\ Fault /\ UNCHANGED restarts

\* A container that has served its input ends, after a last commit.
ShutDown(r) ==
    /\ pc[r] \in {"done", "raised"}
    /\ pc' = [pc EXCEPT ![r] = "gone"]
    /\ Commit(r)
    /\ local' = [local EXCEPT ![r] = Absent]
    /\ batch' = [batch EXCEPT ![r] = {}]
    /\ staged' = [staged EXCEPT ![r] = Unstaged]
    /\ inflight' = [inflight EXCEPT ![r] = FALSE]
    /\ passed' = [passed EXCEPT ![r] = FALSE]
    /\ UNCHANGED <<kind, seen, history, restarts, faults>>

-----------------------------------------------------------------------------
Step(r) ==
    \/ Begin(r) \/ Lease(r) \/ Provenance(r) \/ CommitLease(r)
    \/ Start(r) \/ Expose(r) \/ RunChild(r)
    \/ InitLedger(r) \/ Send(r) \/ Record(r) \/ ChildEnds(r) \/ ChildFails(r) \/ GroupLeft(r)
    \/ Publish(r) \/ Salvage(r) \/ RecordFailure(r) \/ Inspect(r)
    \/ WriteResult(r) \/ WriteManifest(r) \/ CommitRun(r)

Platform(r) == BackgroundCommit(r) \/ Preempt(r) \/ TimeOut(r) \/ ShutDown(r)

Next == \E r \in Runs : Step(r) \/ Platform(r)

Spec == Init /\ [][Next]_vars

-----------------------------------------------------------------------------
Directories ==
    [there : BOOLEAN, files : SUBSET Names, cut : SUBSET Names, success : BOOLEAN,
     records : 0 .. MaxRequests, manifest : {"none", "torn", "whole"}, lists : SUBSET Names]

TypeOK ==
    /\ kind \in Kinds
    /\ pc \in [Runs -> {"idle", "lease", "provenance", "bind", "act", "run", "publish",
                        "salvage", "record", "result", "manifest", "commit", "done",
                        "raised", "gone"}]
    /\ local \in [Runs -> Directories]
    /\ volume \in [Runs -> Directories]
    /\ seen \in [Runs -> Directories]
    /\ batch \in [Runs -> SUBSET {"ledger", "uncertain", "output"}]
    /\ staged \in [Runs -> [ledger : {"missing", "open", "torn"},
                            records : 0 .. MaxRequests, asked : 0 .. MaxRequests]]
    /\ inflight \in [Runs -> BOOLEAN]
    /\ passed \in [Runs -> BOOLEAN]
    /\ starts \in [Runs -> Nat] /\ sent \in [Runs -> Nat] /\ unwritten \in [Runs -> Nat]
    /\ quarantined \subseteq Runs
    /\ restarts \in 0 .. MaxRestarts /\ faults \in 0 .. MaxFaults

\* However its input is preempted and started again, the action of a run id
\* is started once: the lease is committed before the action.
StartedOnce == \A r \in Runs : starts[r] <= 1

\* A manifest lists what is there; success comes with everything the action had
\* to publish, whole, and without a failure record; a failure with its record.
Truthful(r, d) ==
    d.manifest = "whole" =>
        /\ Verified(d)
        /\ {"context", "image"} \subseteq d.files
        /\ d.success <=> "failure" \notin d.files
        /\ "result" \in d.files \/ (kind[r] = "verify" /\ ~d.success)
        /\ d.success /\ kind[r] # "verify" => Artifacts(r) \subseteq d.files
        /\ d.success => d.cut = {}

\* A verification that succeeded, and a resume that started, rest on a
\* source run that is final and whole (a resume: and successful).
Grounded(r) ==
    LET s == volume[Source[r]]
    IN /\ kind[r] = "verify" /\ volume[r].manifest = "whole" /\ volume[r].success =>
             Verified(s)
       /\ kind[r] = "resume" /\ starts[r] > 0 => Verified(s) /\ s.success

\* What the Volume says of a run is so, in its manifest and in what others
\* conclude from it.
ManifestIsTruth == \A r \in Runs : Truthful(r, volume[r]) /\ Grounded(r)

\* A run directory with a manifest never changes again.
ManifestedIsFinal ==
    [][\A r \in Runs : volume[r].manifest = "whole" => volume'[r] = volume[r]]_vars

\* A run that may have leaked, or whose processes may live on, is never
\* given a manifest.
QuarantineHolds == \A r \in quarantined : volume[r].manifest = "none"

\* Evidence that is counted never counts fewer requests than were sent: a
\* canary as the readiness record reckons it, and an action with several
\* requests that succeeded, whatever appends and publications failed.  Of one
\* that failed, the ledger, if it was published whole, misses the requests whose
\* append failed and the one that was in flight at the end, and no other.
Counted(r, d) ==
    d.manifest = "whole" =>
        /\ kind[r] = "canary" /\ ~Refused(d) => sent[r] <= Reckoned(d)
        /\ kind[r] = "bounded" /\ "ledger" \in d.files \ d.cut =>
              sent[r] <= d.records + (IF d.success THEN 0 ELSE unwritten[r] + 1)

SpendIsBounded == \A r \in Runs : Counted(r, volume[r])

-----------------------------------------------------------------------------
(* The inductive invariant. *)

\* Where a container works under its own lease, before the result; and once its
\* action was started.
Leased == {"provenance", "bind", "act", "run", "publish", "salvage", "record", "result"}
Acting == {"run", "publish", "salvage", "record", "result", "manifest", "commit", "done"}

\* What is committed of a live container is what it sees, or has no manifest.
LeaseInv(r) ==
    /\ starts[r] <= 1
    /\ starts[r] > 0 => volume[r].there
    /\ pc[r] \in {"provenance", "bind", "act"} => starts[r] = 0
    /\ pc[r] \in Acting => starts[r] = 1
    /\ pc[r] \in Leased \cup {"manifest", "commit", "done"} => local[r].there
    /\ pc[r] = "act" => volume[r].there
    /\ starts[r] = 0 => sent[r] = 0
    /\ pc[r] \in Leased \cup {"manifest"} => local[r].manifest = "none"
    /\ local[r].manifest # "none" => local[r].there
    /\ volume[r].manifest # "none" => volume[r].there
    /\ Live(r) => /\ volume[r] = local[r] \/ volume[r].manifest = "none"
                  /\ volume[r].there => local[r].there
    /\ pc[r] = "lease" => volume[r] = local[r]
    /\ ~Live(r) => local[r] = Absent
    /\ r \in quarantined =>
          /\ pc[r] \in {"raised", "gone"}
          /\ local[r].manifest = "none" /\ volume[r].manifest = "none"

\* What is in the run directory where.
FilesInv(r) ==
    LET files == local[r].files
    IN /\ pc[r] \in {"provenance", "bind", "act", "run"} => files \subseteq {"context", "image"}
       /\ pc[r] \in (Leased \cup {"manifest"}) \ {"provenance"} =>
             {"context", "image"} \subseteq files
       /\ pc[r] \in Leased \ {"result"} => files \cap {"failure", "result"} = {}
       /\ pc[r] \in {"idle", "lease", "provenance", "bind", "act", "run", "gone"} =>
             batch[r] = {} /\ ~passed[r]
       /\ pc[r] \in {"run", "publish", "salvage", "record"} => kind[r] # "verify"
       /\ pc[r] = "publish" => passed[r] /\ batch[r] \in {{}, Artifacts(r)}
       /\ pc[r] = "record" => ~passed[r]
       /\ pc[r] = "result" =>
             /\ "result" \notin files
             /\ passed[r] \/ kind[r] = "verify" => "failure" \notin files
             /\ ~passed[r] /\ kind[r] # "verify" => "failure" \in files
       /\ pc[r] = "manifest" =>
             /\ local[r].success = passed[r]
             /\ passed[r] <=> "failure" \notin files
             /\ "result" \in files \/ (kind[r] = "verify" /\ ~passed[r])
       /\ pc[r] \in {"result", "manifest"} /\ passed[r] /\ kind[r] # "verify" =>
             Artifacts(r) \subseteq files
       /\ \/ pc[r] \in {"provenance", "bind", "act", "run", "publish"}
          \/ pc[r] \in {"result", "manifest"} /\ passed[r]
          => local[r].cut = {}

\* How the records of the staged ledger compare with what was sent.
SpendInv(r) ==
    LET records == staged[r].records
    IN /\ Provider(r) => sent[r] <= Limit(r)
       /\ ~Provider(r) => staged[r] = Unstaged
       /\ starts[r] = 0 => unwritten[r] = 0
       /\ pc[r] \in {"idle", "lease", "provenance", "bind", "act", "gone"} => staged[r] = Unstaged
       /\ pc[r] \in Acting => /\ staged[r].asked = sent[r]
                             /\ records <= sent[r]
                             /\ sent[r] <= records + unwritten[r] + 1
       /\ pc[r] = "run" =>
             sent[r] = records + unwritten[r] + (IF inflight[r] THEN 1 ELSE 0)
       /\ inflight[r] => pc[r] = "run" /\ staged[r].ledger = "open"
       /\ pc[r] \in {"publish", "result", "manifest"} /\ passed[r] /\ Provider(r) =>
             records = Limit(r)
       /\ pc[r] \in Acting /\ "ledger" \in local[r].files \ local[r].cut =>
             local[r].records = records

\* What was concluded from a source run still holds.
SourceInv(r) ==
    LET s == volume[Source[r]]
    IN /\ seen[r].manifest = "whole" => seen[r] = s
       /\ kind[r] = "verify" /\ passed[r] => Verified(s)
       /\ kind[r] = "verify" /\ local[r].manifest = "whole" /\ local[r].success => Verified(s)
       /\ kind[r] = "resume" /\ pc[r] \notin Ended \cup {"raised"} => Verified(s) /\ s.success

\* The container's copy and the Volume's say what is so.
TruthInv(r) ==
    \A d \in {local[r], volume[r]} : Truthful(r, d) /\ Counted(r, d)

\* Inductive: the safety properties above follow from it.
RemoteInv ==
    /\ TypeOK
    /\ \A r \in Runs :
          LeaseInv(r) /\ FilesInv(r) /\ SpendInv(r) /\ TruthInv(r) /\ SourceInv(r) /\ Grounded(r)

=============================================================================
