--------------------------- MODULE ActionJournal ---------------------------
(***************************************************************************)
(* The paid-action journal of one workspace: the launcher that runs one    *)
(* CLI process per attempt (scripts/launch_modal.py), the scanner that     *)
(* reads every receipt of every attempt before anything is launched        *)
(* (modal_action_journal.py), the recovery of orphaned attempts            *)
(* (scripts/recover_modal_action_journal.py) and the final seal            *)
(* (create_modal_migration_lineage).  All of them hold one flock; the CLI  *)
(* does not, and outlives a launcher that is killed.                       *)
(*                                                                         *)
(* pc of a launcher: idle; gate (lock held, journal scanned); prepare      *)
(* (validation); fresh, reserve, intend, recheck; popen; mark; wait;       *)
(* close; report (one receipt, then the lock is released); done; dead.     *)
(*                                                                         *)
(* Receipts are create-only.  A receipt whose writer dies or fails half-   *)
(* way stays torn for good, and a torn receipt makes every later scan      *)
(* raise: "torn" stands for it.  A pid may be given to a foreign process   *)
(* once its process group is gone (reused).                                *)
(*                                                                         *)
(* Abstracted: the cohorts (an earlier owner of a run id may or may not    *)
(* belong to the cohort of the attempt), return codes 0 and 2 (completed), *)
(* digests and schemas, the approval chain (it holds or it fails), and     *)
(* what the snapshot of a recovery says (complete or not).                 *)
(***************************************************************************)
EXTENDS Naturals, FiniteSets, Sequences, Functions

CONSTANTS
    Attempts,
    Runs,        \* remote run ids
    Plans,       \* which run ids the launchers may be asked for, in order
    Recoverer, Sealer, Nobody,
    MaxBoots,    \* bound: boot sessions
    MaxFaults    \* bound: failed or torn writes, and killed processes

ASSUME JournalAssumption ==
    /\ Plans \subseteq [Attempts -> Seq(Runs) \ {<<>>}]
    /\ {Recoverer, Sealer, Nobody} \cap Attempts = {}
    /\ Recoverer # Sealer /\ Nobody \notin {Recoverer, Sealer}
    /\ MaxBoots \in Nat \ {0} /\ MaxFaults \in Nat

VARIABLES
    lock,        \* holder of outputs/readiness/.modal_action.lock
    plan,        \* for each attempt, the run ids that its arguments name
    pc,
    outcome,     \* what a launcher will write, or wrote, into its receipt
    boot,        \* current boot session
    reserved,    \* for each run id, the attempt that reserved it
    intents,     \* for each attempt, the boot session in its intent (0: none)
    markers,     \* attempts with a process-start marker
    terminals,   \* attempts with a terminal receipt in the cohort
    rejections,  \* attempts with a global rejection
    aggregates,  \* attempts with an aggregate outcome
    recovery,    \* for each attempt, its recovery stages
    torn,        \* some receipt is torn
    seal,        \* none, rejections or lineage
    cli,         \* for each attempt: none, starting, running, lingering, gone
    exit,        \* return code that a live launcher can collect from the CLI:
                 \* none, completed or failed
    reused,      \* attempts whose pid belongs to a foreign process
    recoverer,   \* the running recovery
    lost,        \* history: attempts whose Popen was interrupted after the fork
    faults

receipts == <<reserved, intents, markers, terminals, rejections, recovery, torn, seal>>
processes == <<boot, cli, exit, reused>>
launching == <<plan, pc, outcome, lost>>

vars == <<lock, launching, receipts, aggregates, processes, recoverer, faults>>

RunsOf(a) == Range(plan[a])
Canaries(a) == Len(plan[a]) > 1
Owned(a) == {r \in Runs : reserved[r] = a}

Idle == [at |-> "idle", of |-> Nobody, basis |-> "none", snapshot |-> "none"]
NotRecovered == [stage |-> 0, branch |-> "none", basis |-> "none", snapshot |-> "none"]

Nothing ==
    [roster |-> FALSE, owned |-> FALSE, started |-> FALSE, bound |-> FALSE,
     closed |-> FALSE, completed |-> FALSE]

Alive(a) == cli[a] \in {"starting", "running", "lingering"}

-----------------------------------------------------------------------------
(* The scan. *)

\* Mutant: a group whose leader has ended is taken for gone.
Probe_Leader(a) ==
    IF intents[a] # boot THEN "different_boot_session"
    ELSE IF a \in reused THEN "identity_changed"
    ELSE IF cli[a] \in {"starting", "running"} THEN "exists" ELSE "absent"

Probe(a) ==
    IF intents[a] # boot THEN "different_boot_session"
    ELSE IF a \in reused THEN "identity_changed"
    ELSE IF Alive(a) THEN "exists" ELSE "absent"

\* Blockers of a before its recovery stages are read.
OrphanCodes(a) ==
    LET o == outcome[a]
        code(c, holds) == IF holds THEN {c} ELSE {}
    IN UNION {
        code("global_rejection_reservations_require_recovery",
             a \in rejections /\ o.roster),
        code("partial_reservation_publication",
             a \in rejections /\ o.roster /\ Owned(a) # RunsOf(a)),
        code("reservation_without_journal_owner",
             Owned(a) # {} /\ intents[a] = 0 /\ a \notin rejections),
        code("intent_without_terminal", intents[a] # 0 /\ a \notin terminals),
        code("unbound_process_marker",
             a \in markers /\ a \in terminals /\ ~o.bound),
        code("started_process_marker_missing_or_unbound",
             a \in terminals /\ o.started /\ ~(a \in markers /\ o.bound)),
        code("process_group_not_closed",
             a \in terminals /\ o.started /\ ~o.closed),
        code("owned_process_group_exists", a \in markers /\ Probe(a) = "exists")}

Recovered(a) == recovery[a].stage = 3

Codes(a) ==
    IF Recovered(a) THEN {}
    ELSE OrphanCodes(a) \cup
         (IF recovery[a].stage > 0 THEN {"incomplete_recovery_journal"} ELSE {})

InJournal(a) ==
    \/ Owned(a) # {} \/ intents[a] # 0
    \/ a \in terminals \cup rejections \cup markers

\* An aggregate and a completed terminal of a canaries action go together.
AggregateSound(a) ==
    LET eligible == /\ a \in terminals /\ Canaries(a)
                    /\ outcome[a].started /\ outcome[a].completed
    IN (a \in aggregates) = eligible

\* The recovery stages of a are well founded.
RecoverySound(a) ==
    recovery[a].stage > 0 =>
        /\ OrphanCodes(a) # {}
        /\ recovery[a].basis = "same_boot_absent" =>
              Probe(a) \in {"absent", "different_boot_session"}

\* Every leaf of the journal parses, is canonical and complete.
Readable == ~torn

\* scan_modal_global_action_journal returns; otherwise it raises.
ScanOK ==
    /\ Readable
    /\ \A a \in Attempts :
          /\ a \in rejections => intents[a] = 0
          /\ AggregateSound(a)
          /\ RecoverySound(a)
          /\ seal = "lineage" => Codes(a) = {}

Resolved == ScanOK /\ \A a \in Attempts : Codes(a) = {}

\* Mutant: a workspace whose launch rejections are sealed still launches.
GateClear_Unsealed(a) == Resolved /\ ~InJournal(a) /\ seal # "lineage"

\* require_modal_global_action_gate_clear
GateClear(a) == Resolved /\ ~InJournal(a) /\ seal = "none"

-----------------------------------------------------------------------------
Init ==
    /\ lock = Nobody
    /\ plan \in Plans
    /\ pc = [a \in Attempts |-> "idle"]
    /\ outcome = [a \in Attempts |-> Nothing]
    /\ boot = 1
    /\ reserved = [r \in Runs |-> Nobody]
    /\ intents = [a \in Attempts |-> 0]
    /\ markers = {} /\ terminals = {} /\ rejections = {} /\ aggregates = {}
    /\ recovery = [a \in Attempts |-> NotRecovered]
    /\ torn = FALSE
    /\ seal = "none"
    /\ cli = [a \in Attempts |-> "none"]
    /\ exit = [a \in Attempts |-> "none"]
    /\ reused = {}
    /\ recoverer = Idle
    /\ lost = {}
    /\ faults = 0

Goto(a, from, to) == pc[a] = from /\ pc' = [pc EXCEPT ![a] = to]
Set(a, field) == outcome' = [outcome EXCEPT ![a][field] = TRUE]
Fault == faults < MaxFaults /\ faults' = faults + 1
NoFault == UNCHANGED faults

-----------------------------------------------------------------------------
(* The launcher of attempt a. *)

Acquire(a) ==
    /\ lock = Nobody
    /\ Goto(a, "idle", "gate")
    /\ lock' = a
    /\ UNCHANGED <<plan, outcome, lost, receipts, aggregates, processes, recoverer, faults>>

\* Mutant: the gate does not look at the other attempts' blockers.
PassGate_Blind(a) ==
    /\ ScanOK /\ ~InJournal(a) /\ seal = "none"
    /\ Goto(a, "gate", "prepare")
    /\ UNCHANGED <<lock, plan, outcome, lost, receipts, aggregates, processes, recoverer, faults>>

PassGate(a) ==
    /\ GateClear(a)
    /\ Goto(a, "gate", "prepare")
    /\ UNCHANGED <<lock, plan, outcome, lost, receipts, aggregates, processes, recoverer, faults>>

\* A refusal leaves no record: it could not be told from the evidence.
RefuseGate(a) ==
    /\ ~GateClear(a)
    /\ Goto(a, "gate", "idle")
    /\ lock' = Nobody
    /\ UNCHANGED <<plan, outcome, lost, receipts, aggregates, processes, recoverer, faults>>

\* Host anchor, approval chain and containment; from here on a rejection
\* names the planned reservations.
Prepare(a) ==
    /\ \/ Goto(a, "prepare", "fresh") /\ Set(a, "roster")
       \/ Goto(a, "prepare", "report") /\ UNCHANGED outcome
    /\ UNCHANGED <<lock, plan, lost, receipts, aggregates, processes, recoverer, faults>>

\* A run id of an intent of the same cohort, or a changed binding, is refused
\* before anything is reserved.
CheckFresh(a) ==
    /\ \/ Goto(a, "fresh", "reserve") /\ NoFault
       \/ /\ Goto(a, "fresh", "report")
          /\ \/ /\ \E b \in Attempts : intents[b] # 0 /\ RunsOf(a) \cap RunsOf(b) # {}
                /\ NoFault
             \/ Fault
    /\ UNCHANGED <<lock, plan, outcome, lost, receipts, aggregates, processes, recoverer>>

\* The first planned run id that a has not reserved yet.
NextRun(a) ==
    plan[a][CHOOSE k \in 1 .. Len(plan[a]) :
                 /\ plan[a][k] \notin Owned(a)
                 /\ \A j \in 1 .. (k - 1) : plan[a][j] \in Owned(a)]

Claim(a, r) == reserved' = [reserved EXCEPT ![r] = a]

\* Mutant: a run id that another attempt reserved is taken over.
Reserve_Shared(a) ==
    LET r == NextRun(a)
    IN /\ RunsOf(a) \ Owned(a) # {}
       /\ \/ Goto(a, "reserve", "reserve") /\ Claim(a, r) /\ NoFault /\ UNCHANGED torn
          \/ /\ Goto(a, "reserve", "report") /\ Fault
             /\ reserved[r] = Nobody
             /\ \/ UNCHANGED <<reserved, torn>>
                \/ Claim(a, r) /\ UNCHANGED torn
                \/ UNCHANGED reserved /\ torn' = TRUE
       /\ UNCHANGED <<lock, plan, outcome, lost, intents, markers, terminals, rejections,
                      recovery, seal, aggregates, processes, recoverer>>

\* _publish_global_remote_run_reservations: one create-only file per run id.
\* A failure may leave no file, the whole file or a torn one.
Reserve(a) ==
    LET r == NextRun(a)
    IN /\ RunsOf(a) \ Owned(a) # {}
       /\ \/ /\ reserved[r] = Nobody
             /\ Goto(a, "reserve", "reserve") /\ Claim(a, r) /\ NoFault /\ UNCHANGED torn
          \/ /\ reserved[r] # Nobody
             /\ Goto(a, "reserve", "report") /\ NoFault /\ UNCHANGED <<reserved, torn>>
          \/ /\ reserved[r] = Nobody
             /\ Goto(a, "reserve", "report") /\ Fault
             /\ \/ UNCHANGED <<reserved, torn>>
                \/ Claim(a, r) /\ UNCHANGED torn
                \/ UNCHANGED reserved /\ torn' = TRUE
       /\ UNCHANGED <<lock, plan, outcome, lost, intents, markers, terminals, rejections,
                      recovery, seal, aggregates, processes, recoverer>>

WriteIntent(a) == intents' = [intents EXCEPT ![a] = boot]

\* The intent makes the cohort own the attempt.  When its write fails, the
\* launcher reads it back: whole, the attempt is owned; absent or unreadable,
\* the attempt is rejected, even if the intent is there.
Intend(a) ==
    /\ RunsOf(a) \subseteq Owned(a)
    /\ \/ /\ Goto(a, "reserve", "recheck") /\ NoFault
          /\ WriteIntent(a) /\ Set(a, "owned") /\ UNCHANGED torn
       \/ /\ Goto(a, "reserve", "report") /\ Fault
          /\ \/ WriteIntent(a) /\ Set(a, "owned") /\ UNCHANGED torn
             \/ WriteIntent(a) /\ UNCHANGED <<outcome, torn>>
             \/ UNCHANGED <<intents, outcome, torn>>
             \/ UNCHANGED <<intents, outcome>> /\ torn' = TRUE
    /\ UNCHANGED <<lock, plan, lost, reserved, markers, terminals, rejections, recovery,
                   seal, aggregates, processes, recoverer>>

\* Every binding is validated again before the process is started.
Recheck(a) ==
    /\ \/ Goto(a, "recheck", "popen")
       \/ Goto(a, "recheck", "report")
    /\ UNCHANGED <<lock, plan, outcome, lost, receipts, aggregates, processes, recoverer, faults>>

\* Popen returns a process or raises; an interrupt that arrives after the
\* fork loses the process.
Popen(a) ==
    /\ \/ /\ Goto(a, "popen", "mark") /\ NoFault
          /\ cli' = [cli EXCEPT ![a] = "starting"]
          /\ Set(a, "started") /\ UNCHANGED lost
       \/ /\ Goto(a, "popen", "report") /\ Fault
          /\ \/ UNCHANGED <<cli, lost>>
             \/ cli' = [cli EXCEPT ![a] = "starting"] /\ lost' = lost \cup {a}
          /\ UNCHANGED outcome
    /\ UNCHANGED <<lock, plan, receipts, aggregates, boot, exit, reused, recoverer>>

\* _publish_modal_local_process_start
Mark(a) ==
    /\ \/ /\ Goto(a, "mark", "wait") /\ NoFault
          /\ markers' = markers \cup {a} /\ Set(a, "bound") /\ UNCHANGED torn
       \/ /\ Goto(a, "mark", "close") /\ Fault /\ UNCHANGED outcome
          /\ \/ UNCHANGED <<markers, torn>>
             \/ markers' = markers \cup {a} /\ UNCHANGED torn
             \/ UNCHANGED markers /\ torn' = TRUE
    /\ UNCHANGED <<lock, plan, lost, reserved, intents, terminals, rejections, recovery,
                   seal, aggregates, processes, recoverer>>

\* The leader ends, or the deadline or an interrupt ends the wait.
Wait(a) ==
    /\ Goto(a, "wait", "close")
    /\ \/ exit[a] = "completed" /\ Set(a, "completed")
       \/ UNCHANGED outcome
    /\ exit' = [exit EXCEPT ![a] = "none"]
    /\ UNCHANGED <<lock, plan, lost, receipts, aggregates, boot, cli, reused, recoverer,
                   faults>>

\* The process group is terminated; the checks and the cleanup after it may
\* still take the return code away.
Close(a) ==
    /\ Goto(a, "close", "report")
    /\ \/ /\ cli' = [cli EXCEPT ![a] = "gone"]
          /\ \/ Set(a, "closed") /\ NoFault
             \/ /\ outcome' = [outcome EXCEPT ![a].closed = TRUE, ![a].completed = FALSE]
                /\ Fault
       \/ /\ outcome' = [outcome EXCEPT ![a].completed = FALSE]
          /\ UNCHANGED cli /\ Fault
    /\ exit' = [exit EXCEPT ![a] = "none"]
    /\ UNCHANGED <<lock, plan, lost, receipts, aggregates, boot, reused, recoverer>>

\* Mutant: a launcher whose receipt cannot be written goes away with its lock.
Report_Leaky(a) ==
    /\ Goto(a, "report", "done")
    /\ \/ /\ IF outcome[a].owned
             THEN terminals' = terminals \cup {a} /\ UNCHANGED rejections
             ELSE rejections' = rejections \cup {a} /\ UNCHANGED terminals
          /\ NoFault /\ UNCHANGED torn /\ lock' = Nobody
       \/ UNCHANGED <<terminals, rejections, lock>> /\ Fault /\ torn' \in {torn, TRUE}
    /\ UNCHANGED <<plan, outcome, lost, reserved, intents, markers, recovery, seal,
                   aggregates, processes, recoverer>>

\* The receipt of an owned attempt is its terminal, of any other a global
\* rejection; then the lock is released, whatever became of the receipt.
Report(a) ==
    /\ Goto(a, "report", "done")
    /\ lock' = Nobody
    /\ \/ /\ IF outcome[a].owned
             THEN terminals' = terminals \cup {a} /\ UNCHANGED rejections
             ELSE rejections' = rejections \cup {a} /\ UNCHANGED terminals
          /\ NoFault /\ UNCHANGED torn
       \/ UNCHANGED <<terminals, rejections>> /\ Fault /\ torn' \in {torn, TRUE}
    /\ UNCHANGED <<plan, outcome, lost, reserved, intents, markers, recovery, seal,
                   aggregates, processes, recoverer>>

\* The launcher is killed, perhaps in the middle of a write.
Kill(a) ==
    /\ pc[a] \notin {"idle", "done", "dead"}
    /\ pc' = [pc EXCEPT ![a] = "dead"]
    /\ lock' = Nobody
    /\ \/ UNCHANGED torn
       \/ pc[a] \in {"reserve", "mark", "report"} /\ torn' = TRUE
    /\ exit' = [exit EXCEPT ![a] = "none"]
    /\ Fault
    /\ UNCHANGED <<plan, outcome, lost, reserved, intents, markers, terminals, rejections,
                   recovery, seal, aggregates, boot, cli, reused, recoverer>>

-----------------------------------------------------------------------------
(* The CLI process of attempt a, and the host. *)

\* The entrypoint refuses to go on without its intent, in a sealed cohort,
\* or after its terminal receipt.
CLICheck(a) ==
    /\ cli[a] = "starting"
    /\ IF intents[a] = boot /\ a \notin terminals /\ seal # "lineage"
       THEN cli' = [cli EXCEPT ![a] = "running"] /\ UNCHANGED exit
       ELSE /\ cli' = [cli EXCEPT ![a] = "gone"]
            /\ exit' = [exit EXCEPT ![a] = IF lock = a THEN "failed" ELSE "none"]
    /\ UNCHANGED <<lock, launching, receipts, aggregates, boot, reused, recoverer, faults>>

\* _persist_provider_canary_aggregate_outcome
CLIAggregate(a) ==
    /\ cli[a] = "running" /\ Canaries(a) /\ a \notin aggregates
    /\ \/ aggregates' = aggregates \cup {a} /\ UNCHANGED torn /\ NoFault
       \/ torn' = TRUE /\ UNCHANGED aggregates /\ Fault
    /\ UNCHANGED <<lock, launching, reserved, intents, markers, terminals, rejections,
                   recovery, seal, processes, recoverer>>

\* The leader exits, perhaps before the rest of its group.
CLIExit(a) ==
    /\ cli[a] \in {"starting", "running"}
    /\ \E code \in {"completed", "failed"}, left \in {"gone", "lingering"} :
          /\ code = "completed" =>
                cli[a] = "running" /\ (Canaries(a) => a \in aggregates)
          /\ exit' = [exit EXCEPT ![a] = IF lock = a THEN code ELSE "none"]
          /\ cli' = [cli EXCEPT ![a] = left]
    /\ UNCHANGED <<lock, launching, receipts, aggregates, boot, reused, recoverer, faults>>

CLIEnd(a) ==
    /\ cli[a] = "lingering"
    /\ cli' = [cli EXCEPT ![a] = "gone"]
    /\ UNCHANGED <<lock, launching, receipts, aggregates, boot, exit, reused, recoverer, faults>>

\* The kernel gives the pid of a gone group to another process; only a marker
\* still names it.
ReusePid(a) ==
    /\ cli[a] = "gone" /\ a \in markers /\ intents[a] = boot
    /\ a \notin reused
    /\ reused' = reused \cup {a}
    /\ Fault
    /\ UNCHANGED <<lock, launching, receipts, aggregates, boot, cli, exit, recoverer>>

FreePid(a) ==
    /\ a \in reused
    /\ reused' = reused \ {a}
    /\ UNCHANGED <<lock, launching, receipts, aggregates, boot, cli, exit, recoverer, faults>>

Reboot ==
    /\ boot < MaxBoots
    /\ boot' = boot + 1
    /\ lock' = Nobody
    /\ pc' = [a \in Attempts |-> IF pc[a] \in {"idle", "done"} THEN pc[a] ELSE "dead"]
    /\ cli' = [a \in Attempts |-> IF cli[a] = "none" THEN "none" ELSE "gone"]
    /\ reused' = {}
    /\ recoverer' = Idle
    /\ exit' = [a \in Attempts |-> "none"]
    /\ UNCHANGED <<plan, outcome, lost, receipts, aggregates, faults>>

-----------------------------------------------------------------------------
(* Recovery of an orphaned attempt, one stage file after the other. *)

Branch(a) ==
    IF recovery[a].stage > 0 THEN recovery[a].branch
    ELSE IF /\ intents[a] = 0 /\ Owned(a) # {}
            /\ a \notin markers \cup terminals
         THEN "definitely_not_started"
    ELSE IF intents[a] # 0 /\ Codes(a) # {}
         THEN "may_have_started"
    ELSE "none"

\* Mutant: absence in the same boot is believed without a bound marker.
Basis_Trusting(a) ==
    IF Branch(a) = "definitely_not_started" THEN "pre_popen"
    ELSE IF Branch(a) = "none" THEN "none"
    ELSE IF intents[a] < boot THEN "later_boot"
    ELSE IF a \notin markers \/ Probe(a) = "absent" THEN "same_boot_absent"
    ELSE "none"

\* Why the process of the attempt, if any, is known to be gone.
Basis(a) ==
    IF Branch(a) = "definitely_not_started" THEN "pre_popen"
    ELSE IF Branch(a) = "none" THEN "none"
    ELSE IF intents[a] < boot THEN "later_boot"
    ELSE IF /\ a \in terminals /\ outcome[a].started
            /\ a \in markers /\ outcome[a].bound
            /\ Probe(a) = "absent"
         THEN "same_boot_absent"
    ELSE "none"

\* resolve: under the lock the journal is scanned and the branch planned.
Recover(a, snapshot) ==
    /\ lock = Nobody /\ recoverer = Idle
    /\ ScanOK
    /\ InJournal(a) /\ ~Recovered(a)
    /\ Basis(a) # "none"
    /\ snapshot = "none" <=> Branch(a) = "definitely_not_started"
    /\ recovery[a].stage > 0 => snapshot = recovery[a].snapshot
    /\ lock' = Recoverer
    /\ recoverer' = [at |-> "repair", of |-> a, basis |-> Basis(a), snapshot |-> snapshot]
    /\ UNCHANGED <<launching, receipts, aggregates, processes, faults>>

Abandon == lock' = Nobody /\ recoverer' = Idle

\* The missing reservations of a roster are published, before the first stage.
Repair ==
    LET a == recoverer.of
        r == NextRun(a)
        missing == RunsOf(a) \ Owned(a) # {}
    IN /\ recoverer.at = "repair"
       /\ IF missing /\ recovery[a].stage = 0
          THEN IF reserved[r] = Nobody
               THEN Claim(a, r) /\ UNCHANGED <<lock, recoverer>>
               ELSE Abandon /\ UNCHANGED reserved
          ELSE recoverer' = [recoverer EXCEPT !.at = "stages"] /\ UNCHANGED <<lock, reserved>>
       /\ UNCHANGED <<launching, intents, markers, terminals, rejections, recovery, torn,
                      seal, aggregates, processes, faults>>

\* Intent, host containment, resolution: each is published on a sound scan,
\* and the resolution only from a complete snapshot.
PublishStage ==
    LET a == recoverer.of
        now == recovery[a]
    IN /\ recoverer.at = "stages"
       /\ IF /\ ScanOK
             /\ now.stage = 2 => now.snapshot # "incomplete"
             /\ now.stage < 3
          THEN /\ recovery' = [recovery EXCEPT ![a] =
                     CASE now.stage = 0 ->
                            [stage |-> 1, branch |-> Branch(a), basis |-> "none",
                             snapshot |-> recoverer.snapshot]
                       [] now.stage = 1 -> [now EXCEPT !.stage = 2, !.basis = recoverer.basis]
                       [] now.stage = 2 -> [now EXCEPT !.stage = 3]]
               /\ UNCHANGED <<lock, recoverer>>
          ELSE Abandon /\ UNCHANGED recovery
       /\ UNCHANGED <<launching, reserved, intents, markers, terminals, rejections, torn,
                      seal, aggregates, processes, faults>>

\* The recovery fails or is killed, perhaps in the middle of a write.
StopRecovery ==
    /\ recoverer # Idle
    /\ Abandon
    /\ torn' \in {torn, TRUE}
    /\ Fault
    /\ UNCHANGED <<launching, reserved, intents, markers, terminals, rejections, recovery,
                   seal, aggregates, processes>>

-----------------------------------------------------------------------------
(* The final seal: the rejections first, the lineage from a second scan. *)

BeginSeal ==
    /\ lock = Nobody /\ seal # "lineage"
    /\ Resolved
    /\ lock' = Sealer
    /\ UNCHANGED <<launching, receipts, aggregates, processes, recoverer, faults>>

PublishSeal ==
    /\ lock = Sealer
    /\ \/ /\ seal = "none" /\ seal' = "rejections"
          /\ NoFault /\ UNCHANGED <<lock, torn>>
       \/ /\ seal = "rejections" /\ Resolved /\ seal' = "lineage"
          /\ lock' = Nobody /\ NoFault /\ UNCHANGED torn
       \/ /\ seal = "rejections" /\ ~Resolved
          /\ lock' = Nobody /\ NoFault /\ UNCHANGED <<seal, torn>>
       \/ Fault /\ lock' = Nobody /\ torn' \in {torn, TRUE} /\ UNCHANGED seal
    /\ UNCHANGED <<launching, reserved, intents, markers, terminals, rejections, recovery,
                   aggregates, processes, recoverer>>

-----------------------------------------------------------------------------
Launch(a) ==
    \/ Acquire(a) \/ PassGate(a) \/ RefuseGate(a) \/ Prepare(a) \/ CheckFresh(a)
    \/ Reserve(a) \/ Intend(a) \/ Recheck(a) \/ Popen(a) \/ Mark(a) \/ Wait(a)
    \/ Close(a) \/ Report(a)

Process(a) == CLICheck(a) \/ CLIAggregate(a) \/ CLIExit(a) \/ CLIEnd(a)

Host(a) == Kill(a) \/ ReusePid(a) \/ FreePid(a)

Snapshots == {"none", "complete", "incomplete"}

Next ==
    \/ \E a \in Attempts :
          \/ Launch(a) \/ Process(a) \/ Host(a)
          \/ \E s \in Snapshots : Recover(a, s)
    \/ Repair \/ PublishStage \/ StopRecovery
    \/ BeginSeal \/ PublishSeal
    \/ Reboot

Spec == Init /\ [][Next]_vars

\* Who holds the lock does not stop on its own: the wait for the CLI and the
\* termination of its group have deadlines.  An operator goes on calling
\* resolve until it finds the lock free.
HolderStep ==
    \/ \E a \in Attempts : Launch(a) /\ lock = a
    \/ Repair \/ PublishStage \/ PublishSeal

Fairness ==
    /\ WF_vars(HolderStep)
    /\ \A a \in Attempts : SF_vars(\E s \in Snapshots : Recover(a, s))

FairSpec == Spec /\ Fairness

-----------------------------------------------------------------------------
TypeOK ==
    /\ lock \in Attempts \cup {Recoverer, Sealer, Nobody}
    /\ plan \in Plans
    /\ pc \in [Attempts -> {"idle", "gate", "prepare", "fresh", "reserve", "recheck",
                            "popen", "mark", "wait", "close", "report", "done", "dead"}]
    /\ outcome \in [Attempts -> [roster : BOOLEAN, owned : BOOLEAN, started : BOOLEAN,
                                 bound : BOOLEAN, closed : BOOLEAN, completed : BOOLEAN]]
    /\ boot \in 1 .. MaxBoots
    /\ reserved \in [Runs -> Attempts \cup {Nobody}]
    /\ intents \in [Attempts -> 0 .. MaxBoots]
    /\ markers \cup terminals \cup rejections \cup aggregates \subseteq Attempts
    /\ recovery \in [Attempts ->
          [stage : 0 .. 3, snapshot : Snapshots,
           branch : {"none", "definitely_not_started", "may_have_started"},
           basis : {"none", "pre_popen", "later_boot", "same_boot_absent"}]]
    /\ torn \in BOOLEAN
    /\ seal \in {"none", "rejections", "lineage"}
    /\ cli \in [Attempts -> {"none", "starting", "running", "lingering", "gone"}]
    /\ exit \in [Attempts -> {"none", "completed", "failed"}]
    /\ reused \subseteq Attempts /\ lost \subseteq Attempts
    /\ recoverer \in [at : {"idle", "repair", "stages"}, of : Attempts \cup {Nobody},
                      snapshot : Snapshots,
                      basis : {"none", "pre_popen", "later_boot", "same_boot_absent"}]
    /\ faults \in 0 .. MaxFaults

Working(a) == pc[a] \notin {"idle", "done", "dead"}

LockInv ==
    /\ \A a \in Attempts : Working(a) <=> lock = a
    /\ lock = Recoverer <=> recoverer.at # "idle"
    /\ recoverer.at = "idle" <=> recoverer = Idle
    /\ recoverer.at # "idle" => recoverer.of \in Attempts

\* What the place of a launcher says of its receipts.
PlaceInv(a) ==
    /\ pc[a] \in {"idle", "gate", "prepare", "fresh"} => ~InJournal(a)
    /\ pc[a] \in {"idle", "gate", "prepare", "fresh", "reserve"} =>
          intents[a] = 0 /\ ~outcome[a].owned
    /\ pc[a] \in {"recheck", "popen", "mark", "wait", "close"} => outcome[a].owned
    /\ pc[a] \in {"recheck", "popen"} => cli[a] = "none" /\ intents[a] = boot
    /\ pc[a] \in {"mark", "wait", "close"} => outcome[a].started
    /\ pc[a] \notin {"done", "dead"} =>
          a \notin terminals \cup rejections /\ recovery[a].stage = 0
    /\ pc[a] \in {"fresh", "reserve"} \/ Owned(a) # {} => outcome[a].roster

\* What the receipts of an attempt say of its process.
ReceiptInv(a) ==
    /\ outcome[a].owned => intents[a] # 0
    /\ intents[a] # 0 => RunsOf(a) \subseteq Owned(a)
    /\ cli[a] # "none" \/ outcome[a].started => outcome[a].owned
    /\ cli[a] # "none" /\ a \notin lost => outcome[a].started
    /\ Alive(a) => intents[a] = boot
    /\ a \in terminals => outcome[a].owned
    /\ a \in rejections => ~outcome[a].owned
    /\ outcome[a].bound => a \in markers
    /\ a \in markers => outcome[a].started
    /\ outcome[a].closed => ~Alive(a) /\ pc[a] \in {"report", "done", "dead"}

\* What a recovery knows of the process: it never was, or it is gone.
RecoveryInv(a) ==
    /\ recovery[a].stage > 0 => pc[a] \in {"done", "dead"} /\ ~Alive(a) /\ InJournal(a)
    /\ recovery[a].stage = 0 <=> recovery[a].branch = "none"
    /\ recovery[a].branch = "definitely_not_started" => intents[a] = 0
    /\ recoverer.of = a =>
          pc[a] \in {"done", "dead"} /\ ~Alive(a) /\ InJournal(a) /\ Branch(a) # "none"

\* Past the gate, and once the seal is begun, every other attempt is settled.
Admitted(a) == Working(a) /\ pc[a] # "gate"

QuietInv ==
    /\ \A a \in Attempts : Admitted(a) =>
          seal = "none" /\ \A b \in Attempts : b # a => Codes(b) = {}
    /\ lock = Sealer \/ seal # "none" => \A b \in Attempts : Codes(b) = {}
    /\ recoverer.at # "idle" => seal = "none"

JournalInv ==
    /\ TypeOK /\ LockInv /\ QuietInv
    /\ \A a \in Attempts : PlaceInv(a) /\ ReceiptInv(a) /\ RecoveryInv(a)

\* Two paid processes never live at the same time, whatever is killed,
\* rebooted, torn or recovered (a process that Popen lost apart).
OneLiveAction ==
    \A a, b \in Attempts \ lost : Alive(a) /\ Alive(b) => a = b

\* No remote run id is handed to the processes of two attempts.
OneStartPerRun ==
    \A a, b \in Attempts :
        a # b /\ cli[a] # "none" /\ cli[b] # "none" => RunsOf(a) \cap RunsOf(b) = {}

\* A rejection and a recovery as definitely_not_started are true: no process
\* of the attempt ever existed.  A terminal that says so is true unless the
\* fork was interrupted.
UnstartedIsTrue ==
    \A a \in Attempts :
        /\ a \in rejections \/ recovery[a].branch = "definitely_not_started" =>
              cli[a] = "none"
        /\ a \in terminals /\ ~outcome[a].started /\ a \notin lost => cli[a] = "none"

\* An attempt that the scan takes for settled has no process left, and what
\* is sealed is settled (README.md:617: marker bound, group closed), or is
\* quarantined by a complete recovery.
SettledIsQuiet ==
    \A a \in Attempts \ lost :
        /\ InJournal(a) /\ Codes(a) = {} => ~Alive(a)
        /\ seal # "none" /\ cli[a] # "none" =>
              \/ Recovered(a)
              \/ /\ a \in markers \cap terminals
                 /\ outcome[a].bound /\ outcome[a].closed

\* What the receipts and the recoveries claim of processes is so.
ReceiptsAreTrue == UnstartedIsTrue /\ SettledIsQuiet

\* The journal implements the abstract gate: one attempt open at a time,
\* none opened again, none opened after the seal.
Gate == INSTANCE ActionGate WITH
    phase <- [a \in Attempts |->
                 IF ~InJournal(a) THEN "unknown"
                 ELSE IF Codes(a) = {} THEN "settled" ELSE "open"],
    sealed <- seal # "none"

ImplementsGate == Gate!Spec

\* The lock is never kept for good.
LockIsFreed == lock # Nobody ~> lock = Nobody

\* A recovery that was begun is completed by calling it again, from whatever
\* stage it was interrupted in, unless its snapshot was incomplete, the
\* journal became unreadable or the pid is in use again.
RecoveryCompletes ==
    \A a \in Attempts :
        recovery[a].stage > 0 /\ recovery[a].snapshot # "incomplete" ~>
            Recovered(a) \/ ~ScanOK \/ a \in reused

\* The lock is freed, and a recovery that was begun can be ended.
JournalProgresses == LockIsFreed /\ RecoveryCompletes

-----------------------------------------------------------------------------
(* What the documents say. *)

\* README.md:1184: a global rejection before Popen is an orphan that
\* definitely_not_started recovers.
RejectionsRecoverable ==
    \A a \in Attempts :
        a \in rejections /\ Codes(a) # {} /\ ScanOK => Basis(a) = "pre_popen"

=============================================================================
