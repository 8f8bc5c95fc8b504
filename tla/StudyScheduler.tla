--------------------------- MODULE StudyScheduler ---------------------------
(***************************************************************************)
(* The frozen-order sequential scheduler and its accelerator lease         *)
(* (study/scheduling.py), run by several processes on one study directory, *)
(* as the loop of scripts/study_scientific_run.py drives it:               *)
(*                                                                         *)
(*    scheduler = SequentialAcceleratorScheduler(...)                      *)
(*    while True:                                                          *)
(*        try: claim = scheduler.claim_next()                              *)
(*        except NoPendingRuns: break                                      *)
(*        with claim as run: ...execute the run...                         *)
(*                                                                         *)
(* Shared: schedule_state.json (`schedule', written by create_json_        *)
(* exclusive once and by atomic_write_json from then on) and the lease     *)
(* file, created with O_EXCL.  Each read, each write, each create and each *)
(* unlink is a step of its own; `seen' is the copy of the schedule that a  *)
(* process works on between its read and its write.                        *)
(*                                                                         *)
(* A process may also be an operator's call of                             *)
(* authorize_infrastructure_resume.  A process may be killed anywhere      *)
(* (Crash), and every read or write may raise (the Fails actions): a disk  *)
(* error or an interrupt.  A killed process leaves its lease behind; one   *)
(* that raises gives it back, also when it leaves a run active.  Nothing   *)
(* in the code ever removes what was left behind.                          *)
(*                                                                         *)
(* Abstracted: identities, execution metadata, revision and timestamps;    *)
(* the execution of a run (StudyEngine) is one step that ends normally or  *)
(* by an exception; preparing the run directory is part of EnterWrites.    *)
(***************************************************************************)
EXTENDS Naturals, FiniteSets

CONSTANTS
    Campaigners, \* processes that run the campaign loop
    Operators,   \* processes that authorize a resume
    RunCount,    \* runs of the frozen plan, numbered in frozen order
    NoRun,       \* no active run
    NoProc,      \* no owner
    MaxFailures, \* bound: how often executing a run raises
    MaxCrashes,  \* bound: how often a process is killed
    MaxAuthorizations, \* bound: how often an operator asks for a resume
    MaxFaults    \* bound: how often a read or a write of a file raises

ASSUME SchedulerAssumption ==
    /\ RunCount \in Nat \ {0}
    /\ NoRun \notin Nat
    /\ Campaigners \cap Operators = {}
    /\ NoProc \notin Campaigners \cup Operators
    /\ MaxFailures \in Nat /\ MaxCrashes \in Nat /\ MaxAuthorizations \in Nat
    /\ MaxFaults \in Nat

Procs == Campaigners \cup Operators

Runs == 1 .. RunCount

VARIABLES
    schedule,   \* schedule_state.json: absent, torn, or whole with a content
    lease,      \* the lease file: owner (its token) and whether it is filled
    pc,
    seen,       \* each process's copy of the schedule
    claim,      \* the run each process is claiming, executing or authorizing
    failures, crashes, authorizations, faults,
    completions \* history: how often each run was executed to its end

vars == <<schedule, lease, pc, seen, claim, failures, crashes, authorizations,
          faults, completions>>

counters == <<failures, crashes, authorizations, faults>>

Statuses == {"pending", "running", "completed", "interrupted"}

Fresh == [file |-> "whole", status |-> [r \in Runs |-> "pending"],
          active |-> NoRun]

NoSchedule == [Fresh EXCEPT !.file = "absent"]

NoLease == [owner |-> NoProc, filled |-> FALSE]

Held == lease.owner # NoProc

Completed(s, r) == s.status[r] = "completed"

\* _next_pending: the run whose turn it is, if it is pending; a running or
\* interrupted one is never skipped.
NextPending(s) ==
    LET turn == {r \in Runs : /\ s.status[r] = "pending"
                              /\ \A q \in 1 .. (r - 1) : Completed(s, q)}
    IN IF turn = {} THEN NoRun ELSE CHOOSE r \in turn : TRUE

\* A process goes from one place to another.
Goto(p, from, to) == pc[p] = from /\ pc' = [pc EXCEPT ![p] = to]

\* An exception ends the process.
Raise(p, from) == Goto(p, from, "idle")

\* The copy of the schedule is a local variable, not used any more.
Forget(p) == seen' = [seen EXCEPT ![p] = NoSchedule]

\* The claim, or the operator's call, is over, and what it knew is gone.
CallOver(p) == Forget(p) /\ claim' = [claim EXCEPT ![p] = NoRun]

-----------------------------------------------------------------------------
Init ==
    /\ schedule = NoSchedule
    /\ lease = NoLease
    /\ pc = [p \in Procs |-> "idle"]
    /\ seen = [p \in Procs |-> NoSchedule]
    /\ claim = [p \in Procs |-> NoRun]
    /\ failures = 0
    /\ crashes = 0
    /\ authorizations = 0
    /\ faults = 0
    /\ completions = [r \in Runs |-> 0]

Start(p) ==
    /\ Goto(p, "idle", "construct") \/ Goto(p, "done", "construct")
    /\ CallOver(p)
    /\ UNCHANGED <<schedule, lease, counters, completions>>

\* __init__: state_path.exists(), then create or read.
FindSchedule(p) ==
    /\ Goto(p, "construct",
            IF schedule.file = "absent" THEN "create" ELSE "load")
    /\ UNCHANGED <<schedule, lease, seen, claim, counters, completions>>

CreateSchedule(p) ==
    /\ IF schedule.file = "absent"
         THEN /\ Goto(p, "create", "fill_schedule")
              /\ schedule' = [Fresh EXCEPT !.file = "torn"]
         ELSE /\ Goto(p, "create", "load")
              /\ UNCHANGED schedule
    /\ UNCHANGED <<lease, seen, claim, counters, completions>>

FillSchedule(p) ==
    /\ Goto(p, "fill_schedule", "next")
    /\ schedule' = Fresh
    /\ UNCHANGED <<lease, seen, claim, counters, completions>>

\* A schedule file that another process is still writing is no JSON.
LoadSchedule(p) ==
    /\ Goto(p, "load", IF schedule.file = "whole" THEN "check" ELSE "idle")
    /\ seen' = [seen EXCEPT ![p] = schedule]
    /\ UNCHANGED <<schedule, lease, claim, counters, completions>>

\* "schedule records an active run but its accelerator lease is missing".
CheckLease(p) ==
    /\ Goto(p, "check", IF seen[p].active # NoRun /\ ~Held
                          THEN "alarm" ELSE "next")
    /\ Forget(p)
    /\ UNCHANGED <<schedule, lease, claim, counters, completions>>

AlarmRaised(p) ==
    /\ Raise(p, "alarm")
    /\ UNCHANGED <<schedule, lease, seen, claim, counters, completions>>

-----------------------------------------------------------------------------
\* claim_next reads the schedule without the lease.
ClaimNext(p) ==
    /\ p \in Campaigners
    /\ schedule.active = NoRun
    /\ NextPending(schedule) # NoRun
    /\ Goto(p, "next", "acquire")
    /\ claim' = [claim EXCEPT ![p] = NextPending(schedule)]
    /\ UNCHANGED <<schedule, lease, seen, counters, completions>>

\* Another run is active, or an interrupted run blocks the order.
ClaimRefused(p) ==
    /\ p \in Campaigners
    /\ \/ schedule.active # NoRun
       \/ \E r \in Runs : schedule.status[r] = "interrupted"
    /\ Raise(p, "next")
    /\ UNCHANGED <<schedule, lease, seen, claim, counters, completions>>

\* NoPendingRuns ends the loop.
LoopEnds(p) ==
    /\ p \in Campaigners
    /\ \A r \in Runs : Completed(schedule, r)
    /\ Goto(p, "next", "done")
    /\ UNCHANGED <<schedule, lease, seen, claim, counters, completions>>

\* Mutant: the lease is created without O_EXCL.
Acquire_Shared(p) ==
    /\ Goto(p, "acquire", "fill") \/ Goto(p, "auth", "auth_fill")
    /\ lease' = [owner |-> p, filled |-> FALSE]
    /\ UNCHANGED <<schedule, seen, claim, counters, completions>>

\* AcceleratorLease.acquire: O_EXCL create, then write and fsync.
Acquire(p) ==
    /\ ~Held
    /\ \/ Goto(p, "acquire", "fill") \/ Goto(p, "auth", "auth_fill")
    /\ lease' = [owner |-> p, filled |-> FALSE]
    /\ UNCHANGED <<schedule, seen, claim, counters, completions>>

LeaseBusy(p) ==
    /\ Held
    /\ \/ Raise(p, "acquire") \/ Raise(p, "auth")
    /\ CallOver(p)
    /\ UNCHANGED <<schedule, lease, counters, completions>>

FillLease(p) ==
    /\ \/ Goto(p, "fill", "reread") \/ Goto(p, "auth_fill", "auth_read")
    /\ lease' = [lease EXCEPT !.filled = TRUE]
    /\ UNCHANGED <<schedule, seen, claim, counters, completions>>

\* Mutant: the schedule is not read again under the lease.
EnterReads_Stale(p) ==
    /\ Goto(p, "reread",
            IF schedule.active = NoRun /\ NextPending(schedule) = claim[p]
              THEN "enter" ELSE "release_and_raise")
    /\ UNCHANGED <<schedule, lease, seen, claim, counters, completions>>

\* _RunClaim.__enter__, under the lease: the schedule may have advanced.
EnterReads(p) ==
    /\ seen' = [seen EXCEPT ![p] = schedule]
    /\ Goto(p, "reread",
            IF schedule.active = NoRun /\ NextPending(schedule) = claim[p]
              THEN "enter" ELSE "release_and_raise")
    /\ UNCHANGED <<schedule, lease, claim, counters, completions>>

\* The claimed run becomes the active one.
Activated(p) == [seen[p] EXCEPT !.status[claim[p]] = "running", !.active = claim[p]]

EnterWrites(p) ==
    /\ Goto(p, "enter", "executing")
    /\ schedule' = Activated(p)
    /\ Forget(p)
    /\ UNCHANGED <<lease, claim, counters, completions>>

Execute(p) ==
    /\ Goto(p, "executing", "exit_completed")
    /\ completions' = [completions EXCEPT ![claim[p]] = @ + 1]
    /\ UNCHANGED <<schedule, lease, seen, claim, counters>>

ExecuteRaises(p) ==
    /\ failures < MaxFailures
    /\ Goto(p, "executing", "exit_interrupted")
    /\ failures' = failures + 1
    /\ UNCHANGED <<schedule, lease, seen, claim, crashes, authorizations, faults,
                   completions>>

\* _RunClaim.__exit__: read, check, write, and release in any case.
ExitReads(p) ==
    /\ seen' = [seen EXCEPT ![p] = schedule]
    /\ IF schedule.active = claim[p]
         THEN \/ Goto(p, "exit_completed", "write_completed")
              \/ Goto(p, "exit_interrupted", "write_interrupted")
         ELSE \/ Goto(p, "exit_completed", "release_and_raise")
              \/ Goto(p, "exit_interrupted", "release_and_raise")
    /\ UNCHANGED <<schedule, lease, claim, counters, completions>>

\* The claimed run ends as completed or interrupted, and no run is active.
Ended(p, status) == [seen[p] EXCEPT !.status[claim[p]] = status, !.active = NoRun]

\* Mutant: the test on the exception is inverted.
ExitWrites_Swapped(p) ==
    /\ \/ /\ Goto(p, "write_completed", "release")
          /\ schedule' = Ended(p, "interrupted")
       \/ /\ Goto(p, "write_interrupted", "release_and_raise")
          /\ schedule' = Ended(p, "completed")
    /\ UNCHANGED <<lease, seen, claim, counters, completions>>

ExitWrites(p) ==
    /\ \/ /\ Goto(p, "write_completed", "release")
          /\ schedule' = Ended(p, "completed")
       \/ /\ Goto(p, "write_interrupted", "release_and_raise")
          /\ schedule' = Ended(p, "interrupted")
    /\ Forget(p)
    /\ UNCHANGED <<lease, claim, counters, completions>>

\* release reads the token of the lease file, then unlinks it.
Owns(p) == lease.owner = p /\ lease.filled

ReleaseReads(p) ==
    /\ IF Owns(p)
         THEN \/ Goto(p, "release", "unlink")
              \/ Goto(p, "release_and_raise", "unlink_and_raise")
         ELSE Raise(p, "release") \/ Raise(p, "release_and_raise")
    /\ UNCHANGED <<schedule, lease, seen, claim, counters, completions>>

\* Mutant: the lease file is left in place.
ReleaseUnlinks_Leaves(p) ==
    /\ \/ Goto(p, "unlink", "next") \/ Raise(p, "unlink_and_raise")
    /\ CallOver(p)
    /\ UNCHANGED <<schedule, lease, counters, completions>>

ReleaseUnlinks(p) ==
    /\ \/ Goto(p, "unlink", "next") \/ Raise(p, "unlink_and_raise")
    /\ lease' = NoLease
    /\ CallOver(p)
    /\ UNCHANGED <<schedule, counters, completions>>

-----------------------------------------------------------------------------
\* authorize_infrastructure_resume(r), in a process of the operator's.
Authorize(p, r) ==
    /\ p \in Operators
    /\ authorizations < MaxAuthorizations
    /\ Goto(p, "next", "auth")
    /\ claim' = [claim EXCEPT ![p] = r]
    /\ authorizations' = authorizations + 1
    /\ UNCHANGED <<schedule, lease, seen, failures, crashes, faults, completions>>

\* Mutant: any run may be authorized.
AuthorizeReads_Any(p) ==
    /\ seen' = [seen EXCEPT ![p] = schedule]
    /\ Goto(p, "auth_read", IF schedule.active = NoRun
                              THEN "auth_write" ELSE "release_and_raise")
    /\ UNCHANGED <<schedule, lease, claim, counters, completions>>

AuthorizeReads(p) ==
    /\ seen' = [seen EXCEPT ![p] = schedule]
    /\ Goto(p, "auth_read",
            IF /\ schedule.active = NoRun
               /\ schedule.status[claim[p]] = "interrupted"
              THEN "auth_write" ELSE "release_and_raise")
    /\ UNCHANGED <<schedule, lease, claim, counters, completions>>

\* The authorized run is to be executed again.
Reopened(p) == [seen[p] EXCEPT !.status[claim[p]] = "pending"]

\* The operator's process ends once the lease is released.
AuthorizeWrites(p) ==
    /\ Goto(p, "auth_write", "release_and_raise")
    /\ schedule' = Reopened(p)
    /\ Forget(p)
    /\ UNCHANGED <<lease, claim, counters, completions>>

Crash(p) ==
    /\ crashes < MaxCrashes
    /\ pc[p] \notin {"idle", "done"}
    /\ pc' = [pc EXCEPT ![p] = "idle"]
    /\ crashes' = crashes + 1
    /\ CallOver(p)
    /\ UNCHANGED <<schedule, lease, failures, authorizations, faults, completions>>

-----------------------------------------------------------------------------
\* A read or a write raises: a disk error, a full disk, an interrupt.
Fault ==
    /\ faults < MaxFaults
    /\ faults' = faults + 1
    /\ UNCHANGED <<failures, crashes, authorizations, completions>>

\* Before the lease is taken the exception ends the process.  release, too,
\* may fail to read or to unlink the lease file: it then stays.
CallFails(p) ==
    /\ Fault
    /\ \E from \in {"construct", "create", "load", "check", "next", "acquire", "auth",
                    "release", "release_and_raise", "unlink", "unlink_and_raise"} :
         Raise(p, from)
    /\ CallOver(p)
    /\ UNCHANGED <<schedule, lease>>

\* "Never remove or replace a partially written frozen record."
CreateFails(p) ==
    /\ Fault
    /\ Raise(p, "fill_schedule")
    /\ schedule' \in {schedule, Fresh}
    /\ CallOver(p)
    /\ UNCHANGED lease

\* acquire removes a lease file that it could not fill.
FillFails(p) ==
    /\ Fault
    /\ Raise(p, "fill") \/ Raise(p, "auth_fill")
    /\ lease' = NoLease
    /\ CallOver(p)
    /\ UNCHANGED schedule

\* A read under the lease raises: the lease is given back, and a run that was
\* executed stays active.
ReadFails(p) ==
    /\ Fault
    /\ \E from \in {"reread", "exit_completed", "exit_interrupted", "auth_read"} :
         Goto(p, from, "release_and_raise")
    /\ UNCHANGED <<schedule, lease, seen, claim>>

\* A write under the lease raises, before or after the file was replaced (its
\* directory is synchronized afterwards): the lease is given back.
WriteFails(p) ==
    /\ Fault
    /\ \/ /\ Goto(p, "enter", "release_and_raise")
          /\ schedule' \in {schedule, Activated(p)}
       \/ /\ Goto(p, "write_completed", "release_and_raise")
          /\ schedule' \in {schedule, Ended(p, "completed")}
       \/ /\ Goto(p, "write_interrupted", "release_and_raise")
          /\ schedule' \in {schedule, Ended(p, "interrupted")}
       \/ /\ Goto(p, "auth_write", "release_and_raise")
          /\ schedule' \in {schedule, Reopened(p)}
    /\ Forget(p)
    /\ UNCHANGED <<lease, claim>>

Fails(p) ==
    CallFails(p) \/ CreateFails(p) \/ FillFails(p) \/ ReadFails(p) \/ WriteFails(p)

-----------------------------------------------------------------------------
ProcessStep(p) ==
    \/ FindSchedule(p) \/ CreateSchedule(p) \/ FillSchedule(p)
    \/ LoadSchedule(p) \/ CheckLease(p) \/ AlarmRaised(p)
    \/ ClaimNext(p) \/ ClaimRefused(p) \/ LoopEnds(p)
    \/ Acquire(p) \/ LeaseBusy(p) \/ FillLease(p)
    \/ EnterReads(p) \/ EnterWrites(p) \/ Execute(p) \/ ExitReads(p)
    \/ ExitWrites(p) \/ ReleaseReads(p) \/ ReleaseUnlinks(p)
    \/ AuthorizeReads(p) \/ AuthorizeWrites(p)

Next ==
    \E p \in Procs :
       \/ Start(p) \/ ProcessStep(p) \/ ExecuteRaises(p) \/ Crash(p) \/ Fails(p)
       \/ \E r \in Runs : Authorize(p, r)

Spec == Init /\ [][Next]_vars

\* Campaign processes are started again whenever they ended, and no process
\* stops halfway; whether and when an operator acts is left open.
FairSpec ==
    /\ Spec
    /\ \A p \in Procs : WF_vars(ProcessStep(p))
    /\ \A p \in Campaigners : WF_vars(Start(p))

-----------------------------------------------------------------------------
Places ==
    {"idle", "construct", "create", "fill_schedule", "load", "check", "alarm",
     "next", "acquire", "fill", "reread", "enter", "executing",
     "exit_completed", "exit_interrupted", "write_completed",
     "write_interrupted", "release", "release_and_raise", "unlink",
     "unlink_and_raise", "auth", "auth_fill", "auth_read", "auth_write", "done"}

ScheduleType ==
    [file : {"absent", "torn", "whole"}, status : [Runs -> Statuses],
     active : Runs \cup {NoRun}]

\* Types of the variables.
TypeOK ==
    /\ schedule \in ScheduleType
    /\ lease \in [owner : Procs \cup {NoProc}, filled : BOOLEAN]
    /\ pc \in [Procs -> Places]
    /\ seen \in [Procs -> ScheduleType]
    /\ claim \in [Procs -> Runs \cup {NoRun}]
    /\ failures \in Nat /\ crashes \in Nat /\ authorizations \in Nat
    /\ faults \in Nat
    /\ completions \in [Runs -> Nat]

\* Between the create of the lease file and the write of its content.
Filling == {"fill", "auth_fill"}

\* Between the writes that make a run active and inactive.
Running == {"executing", "exit_completed", "exit_interrupted", "write_completed",
            "write_interrupted"}

\* Between the read of a schedule under the lease and the write of it.
Writing == {"enter", "write_completed", "write_interrupted", "auth_write"}

Claiming == {"acquire", "reread", "enter", "auth", "auth_read", "auth_write"}
              \cup Filling \cup Running

\* Where a process works on the schedule under the lease.
InLease(p) ==
    pc[p] \in Running \cup Writing \cup
               {"reread", "release", "release_and_raise", "unlink",
                "unlink_and_raise", "auth_read"}

\* "At most one accelerator lease may exist across the study": whoever works
\* under the lease is its recorded owner, so no two processes do, and what it
\* executes is the run the schedule names as active.
LeaseExclusive ==
    \A p \in Procs :
      /\ InLease(p) => Owns(p)
      /\ pc[p] \in Running => schedule.active = claim[p]

\* The copy that a process is about to write back is still what the file
\* holds: no update of another process is lost.
SeenIsCurrent ==
    \A p \in Procs :
      pc[p] \in Writing => seen[p] = schedule

\* An active run is covered by a lease file, also when a process was killed at
\* any point, until a read or a write raises: only a process that raises gives
\* the lease back while its run is active, which the constructor then reports.
ActiveIsLeased == schedule.active # NoRun /\ faults = 0 => Held

\* _validate_state never refuses the file: the running runs are the active one.
ScheduleConsistent ==
    {r \in Runs : schedule.status[r] = "running"} =
      IF schedule.active = NoRun THEN {} ELSE {schedule.active}

\* "Never skip a nonterminal earlier assignment and bias later conditions":
\* a run leaves "pending" only when every run before it is completed.
FrozenOrder ==
    \A r \in Runs : schedule.status[r] # "pending" =>
      \A q \in 1 .. (r - 1) : Completed(schedule, q)

\* No run is executed to its end twice, whatever is killed, interrupted or
\* authorized again, and a completed run was really executed.
ExecutedOnce ==
    \A r \in Runs : /\ completions[r] <= 1
                    /\ Completed(schedule, r) => completions[r] = 1

\* Nothing is claimed before the schedule file has its first content, and one
\* process gives it.
FileFirst ==
    /\ schedule.file # "whole" =>
         /\ schedule = [Fresh EXCEPT !.file = schedule.file]
         /\ \A p \in Procs : pc[p] \in {"idle", "construct", "create", "load",
                                         "fill_schedule"}
    /\ \A p \in Procs : pc[p] = "fill_schedule" =>
         /\ schedule.file = "torn"
         /\ \A q \in Procs : pc[q] = "fill_schedule" => q = p

\* An execution is counted from its end on, and once.
ExecutionCounted ==
    /\ \A r \in Runs :
         /\ schedule.status[r] \in {"pending", "interrupted"} => completions[r] = 0
         /\ schedule.status[r] = "running" => completions[r] \in {0, 1}
         /\ schedule.status[r] = "completed" => completions[r] = 1
    /\ \A p \in Procs : pc[p] \in Running =>
         completions[claim[p]] =
           IF pc[p] \in {"exit_completed", "write_completed"} THEN 1 ELSE 0

\* What process p relies on at the place where it is: that the lease is its
\* own, which run is active, and what it found in the schedule.
Relies(p) ==
    /\ pc[p] \in Claiming => claim[p] \in Runs
    /\ pc[p] \in Filling => lease.owner = p
    /\ InLease(p) => Owns(p)
    /\ pc[p] \in Running => schedule.active = claim[p]
    /\ (InLease(p) \/ pc[p] \in Filling) /\ pc[p] \notin Running =>
         schedule.active = NoRun \/ faults > 0
    /\ pc[p] \in Writing \ Running => schedule.active = NoRun
    /\ pc[p] \in Writing => seen[p] = schedule
    /\ pc[p] = "enter" => NextPending(schedule) = claim[p]
    /\ pc[p] = "auth_write" => schedule.status[claim[p]] = "interrupted"

\* Inductive: every safety property above follows from it.
SchedulerInv ==
    /\ TypeOK
    /\ FileFirst
    /\ \A p \in Procs : Relies(p)
    /\ ActiveIsLeased
    /\ ScheduleConsistent
    /\ FrozenOrder
    /\ ExecutionCounted

\* "never a completed run": once completed, a run stays completed.
CompletedIsFinal ==
    [][\A r \in Runs : Completed(schedule, r) => Completed(schedule', r)]_vars

\* "schedule records an active run but its accelerator lease is missing": true
\* whenever the constructor says it.
AlarmIsTrue ==
    \A p \in Procs : pc[p] = "alarm" => schedule.active # NoRun /\ ~Held

\* A run that is active while no process is between its start and its end, since
\* one was killed or raised there, stays active for good: nothing in the code
\* clears it, claims past it or executes it again.
StrandedStays ==
    [][schedule.active # NoRun /\ (\A p \in Procs : pc[p] \notin Running) =>
         schedule' = schedule]_vars

\* What a process that was killed or raised may leave behind: a schedule file
\* without content, an active run, a lease.
Abandoned ==
    \/ /\ schedule.file = "torn"
       /\ \A p \in Procs : pc[p] # "fill_schedule"
    \/ /\ schedule.active # NoRun
       /\ \A p \in Procs : pc[p] \notin Running
    \/ /\ Held
       /\ \A p \in Procs : ~InLease(p) /\ pc[p] \notin Filling

\* A campaign gets through its runs, however its processes get into each other's
\* way: it completes, waits for an operator, or a process that was killed or
\* raised left something that only an operator can remove.
CampaignProgresses ==
    []<>(\/ crashes + faults > 0 /\ Abandoned
         \/ \A r \in Runs : Completed(schedule, r)
         \/ \E r \in Runs : schedule.status[r] = "interrupted")

=============================================================================
