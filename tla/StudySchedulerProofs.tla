------------------------ MODULE StudySchedulerProofs ------------------------
(***************************************************************************)
(* Proofs about StudyScheduler, for every number of campaign processes,    *)
(* operators, runs, failures, faults, crashes and authorizations.          *)
(*                                                                         *)
(* SchedulerInv is inductive.  Each step is a step of one process p, and   *)
(* Relies(q) says what a process q depends on.  A step that touches        *)
(* neither file keeps Relies(q) for q # p because q does not move; a step  *)
(* that writes a file is made by the owner of the lease (or before the     *)
(* first content of the schedule), so that q depends on nothing it writes. *)
(***************************************************************************)
EXTENDS StudyScheduler, TLAPS

-----------------------------------------------------------------------------
\* The step is one of process p alone, and keeps the types of what is its own.
Moves(p) ==
    /\ pc' \in [Procs -> Places]
    /\ claim' \in [Procs -> Runs \cup {NoRun}]
    /\ seen' \in [Procs -> ScheduleType]
    /\ failures' \in Nat /\ crashes' \in Nat /\ authorizations' \in Nat
    /\ faults' \in Nat /\ faults' >= faults
    /\ \A q \in Procs : q # p => /\ pc'[q] = pc[q]
                                 /\ claim'[q] = claim[q]
                                 /\ seen'[q] = seen[q]

LEMMA NoScheduleTyped == NoSchedule \in ScheduleType
  BY DEF NoSchedule, Fresh, ScheduleType, Statuses

\* A process that forgets its copy of the schedule changes nobody else's.
LEMMA ForgetTyped ==
    ASSUME TypeOK, NEW p \in Procs, Forget(p)
    PROVE  /\ seen' \in [Procs -> ScheduleType]
           /\ \A q \in Procs : q # p => seen'[q] = seen[q]
  BY NoScheduleTyped DEF Forget, TypeOK

LEMMA CallOverTyped ==
    ASSUME TypeOK, NEW p \in Procs, CallOver(p)
    PROVE  /\ seen' \in [Procs -> ScheduleType]
           /\ claim' \in [Procs -> Runs \cup {NoRun}]
           /\ \A q \in Procs : q # p => seen'[q] = seen[q] /\ claim'[q] = claim[q]
  BY NoScheduleTyped DEF CallOver, Forget, TypeOK

\* What it means to go from one place to another.
LEMMA GotoMoves ==
    ASSUME TypeOK, NEW p \in Procs, NEW from, NEW to \in Places,
           Goto(p, from, to)
    PROVE  /\ pc[p] = from /\ pc'[p] = to
           /\ pc' \in [Procs -> Places]
           /\ \A q \in Procs : q # p => pc'[q] = pc[q]
  BY DEF Goto, TypeOK

\* The run whose turn it is is pending, and every run before it is completed.
LEMMA TurnOf ==
    ASSUME NEW s, NextPending(s) # NoRun
    PROVE  /\ NextPending(s) \in Runs
           /\ s.status[NextPending(s)] = "pending"
           /\ \A q \in 1 .. (NextPending(s) - 1) : Completed(s, q)
  <1> DEFINE turn == {r \in Runs : /\ s.status[r] = "pending"
                                   /\ \A q \in 1 .. (r - 1) : Completed(s, q)}
  <1>1. turn # {} /\ NextPending(s) = CHOOSE r \in turn : TRUE
    BY DEF NextPending
  <1>2. NextPending(s) \in turn
    BY <1>1
  <1> QED BY <1>2

\* A process that did not move keeps what it relies on, the files being as
\* they were.
LEMMA Unmoved ==
    ASSUME NEW q \in Procs, Relies(q), UNCHANGED <<schedule, lease>>,
           pc'[q] = pc[q], claim'[q] = claim[q], seen'[q] = seen[q],
           faults > 0 => faults' > 0
    PROVE  Relies(q)'
  BY DEF Relies, InLease, Owns, Filling, Running, Writing, Claiming

\* Nor does a process depend on the files outside the lease.
LEMMA Aside ==
    ASSUME NEW q \in Procs, Relies(q), ~InLease(q), pc[q] \notin Filling,
           pc'[q] = pc[q], claim'[q] = claim[q]
    PROVE  Relies(q)'
  BY DEF Relies, InLease, Filling, Running, Writing, Claiming

\* Where process p, or nobody, owns the lease, no other process is under it.
LEMMA OwnerAlone ==
    ASSUME SchedulerInv, NEW p \in Procs, NEW q \in Procs, q # p,
           lease.owner \in {p, NoProc}
    PROVE  ~InLease(q) /\ pc[q] \notin Filling
  <1>1. Relies(q) /\ q # NoProc
    BY SchedulerAssumption DEF SchedulerInv, Procs
  <1> QED BY <1>1 DEF Relies, Owns

-----------------------------------------------------------------------------
Executed == {"exit_completed", "write_completed"}

\* A step of process p that touches neither file nor a run keeps the invariant
\* if p may rely on what it needs where it arrives.
LEMMA QuietKeeps ==
    ASSUME SchedulerInv, NEW p \in Procs, Moves(p),
           UNCHANGED <<schedule, lease, completions>>,
           Relies(p)',
           pc'[p] # "fill_schedule",
           schedule.file # "whole" =>
             pc'[p] \in {"idle", "construct", "create", "load"},
           pc'[p] \in Running =>
             completions[claim'[p]] = IF pc'[p] \in Executed THEN 1 ELSE 0
    PROVE  SchedulerInv'
  <1>1. TypeOK'
    BY DEF SchedulerInv, TypeOK, Moves
  <1>2. FileFirst'
    BY DEF SchedulerInv, FileFirst, Moves
  <1>3. \A q \in Procs : Relies(q)'
    <2> TAKE q \in Procs
    <2>1. CASE q # p
      BY <2>1, Unmoved DEF SchedulerInv, TypeOK, Moves
    <2> QED BY <2>1
  <1>4. ActiveIsLeased' /\ ScheduleConsistent' /\ FrozenOrder'
    BY DEF SchedulerInv, TypeOK, Moves, ActiveIsLeased, ScheduleConsistent,
           FrozenOrder, Held, Completed
  <1>5. ExecutionCounted'
    <2>1. \A q \in Procs : pc'[q] \in Running =>
            completions[claim'[q]] = IF pc'[q] \in Executed THEN 1 ELSE 0
      BY DEF SchedulerInv, ExecutionCounted, Moves, Executed
    <2> QED BY <2>1 DEF SchedulerInv, ExecutionCounted, Executed, Running
  <1> QED BY <1>1, <1>2, <1>3, <1>4, <1>5 DEF SchedulerInv

\* The places where a process relies on nothing.
Free == {"idle", "construct", "create", "fill_schedule", "load", "check",
         "alarm", "next", "done"}

LEMMA FreeRelies ==
    ASSUME NEW p \in Procs, pc'[p] \in Free
    PROVE  Relies(p)' /\ pc'[p] \notin Running
  BY DEF Relies, InLease, Free, Filling, Running, Writing, Claiming

\* Steps outside the lease.
LEMMA FreeStepKeeps ==
    ASSUME SchedulerInv, NEW p \in Procs,
           \/ Start(p) \/ FindSchedule(p) \/ LoadSchedule(p) \/ CheckLease(p)
           \/ AlarmRaised(p) \/ ClaimRefused(p) \/ LoopEnds(p) \/ LeaseBusy(p)
           \/ Crash(p) \/ CallFails(p)
    PROVE  SchedulerInv'
  <1>1. PICK to \in Free \ {"fill_schedule"} :
           /\ pc' = [pc EXCEPT ![p] = to]
           /\ schedule.file # "whole" => to \in {"idle", "construct", "create", "load"}
    <2> USE DEF Goto, Raise, Free, SchedulerInv, FileFirst
    <2>1. CASE Start(p) BY <2>1 DEF Start
    <2>2. CASE FindSchedule(p) BY <2>2 DEF FindSchedule
    <2>3. CASE LoadSchedule(p) BY <2>3 DEF LoadSchedule
    <2>4. CASE CheckLease(p) BY <2>4 DEF CheckLease
    <2>5. CASE AlarmRaised(p) BY <2>5 DEF AlarmRaised
    <2>6. CASE ClaimRefused(p) BY <2>6 DEF ClaimRefused
    <2>7. CASE LoopEnds(p) BY <2>7 DEF LoopEnds
    <2>8. CASE LeaseBusy(p) BY <2>8 DEF LeaseBusy
    <2>9. CASE Crash(p) BY <2>9 DEF Crash
    <2>10. CASE CallFails(p) BY <2>10 DEF CallFails
    <2> QED BY <2>1, <2>2, <2>3, <2>4, <2>5, <2>6, <2>7, <2>8, <2>9, <2>10
  <1>2. UNCHANGED <<schedule, lease, completions>>
    BY DEF Start, FindSchedule, LoadSchedule, CheckLease, AlarmRaised,
           ClaimRefused, LoopEnds, LeaseBusy, Crash, CallFails, Fault
  <1>3. Moves(p)
    <2>1. /\ seen' = seen \/ \E s \in ScheduleType : seen' = [seen EXCEPT ![p] = s]
          /\ claim' = claim \/ claim' = [claim EXCEPT ![p] = NoRun]
          /\ failures' \in Nat /\ crashes' \in Nat /\ authorizations' \in Nat
          /\ faults' \in Nat /\ faults' >= faults
      <3>1. schedule \in ScheduleType /\ NoSchedule \in ScheduleType
        BY NoScheduleTyped DEF SchedulerInv, TypeOK
      <3> QED BY <3>1 DEF SchedulerInv, TypeOK, Forget, CallOver, Start, FindSchedule,
                 LoadSchedule, CheckLease, AlarmRaised, ClaimRefused, LoopEnds, LeaseBusy,
                 Crash, CallFails, Fault, counters
    <2>2. Free \subseteq Places
      BY DEF Free, Places
    <2> QED BY <1>1, <2>1, <2>2 DEF Moves, SchedulerInv, TypeOK
  <1>4. pc'[p] \in Free \ {"fill_schedule"}
    BY <1>1 DEF SchedulerInv, TypeOK
  <1>5. schedule.file # "whole" => pc'[p] \in {"idle", "construct", "create", "load"}
    BY <1>1 DEF SchedulerInv, TypeOK
  <1> QED BY <1>2, <1>3, <1>4, <1>5, FreeRelies, QuietKeeps

-----------------------------------------------------------------------------
\* A process past its start finds the schedule whole.
LEMMA WholeOnceStarted ==
    ASSUME SchedulerInv, NEW p \in Procs,
           pc[p] \notin {"idle", "construct", "create", "load", "fill_schedule"}
    PROVE  schedule.file = "whole"
  BY DEF SchedulerInv, FileFirst

\* A claim, or an operator's wish to authorize a resume: no lease yet.
LEMMA ClaimKeeps ==
    ASSUME SchedulerInv, NEW p \in Procs,
           ClaimNext(p) \/ \E r \in Runs : Authorize(p, r)
    PROVE  SchedulerInv'
  <1>1. PICK r \in Runs, to \in {"acquire", "auth"} :
           /\ Goto(p, "next", to)
           /\ claim' = [claim EXCEPT ![p] = r]
    BY TurnOf DEF ClaimNext, Authorize
  <1>2. /\ UNCHANGED <<schedule, lease, completions, seen>>
        /\ failures' \in Nat /\ crashes' \in Nat /\ authorizations' \in Nat
        /\ faults' \in Nat /\ faults' >= faults
    BY DEF ClaimNext, Authorize, SchedulerInv, TypeOK, counters
  <1>3. pc[p] = "next" /\ pc'[p] = to /\ claim'[p] = r
    BY <1>1 DEF Goto, SchedulerInv, TypeOK
  <1>4. Moves(p)
    BY <1>1, <1>2, GotoMoves DEF Moves, SchedulerInv, TypeOK, Places
  <1>5. Relies(p)' /\ pc'[p] \notin Running
    BY <1>3 DEF Relies, InLease, Filling, Running, Writing, Claiming
  <1>6. schedule.file = "whole"
    BY <1>3, WholeOnceStarted
  <1> QED BY <1>2, <1>3, <1>4, <1>5, <1>6, QuietKeeps

\* The reads under the lease: the copy of the schedule is the schedule, and
\* what was checked in it holds.
LEMMA ReadKeeps ==
    ASSUME SchedulerInv, NEW p \in Procs,
           EnterReads(p) \/ ExitReads(p) \/ AuthorizeReads(p)
    PROVE  SchedulerInv'
  <1>1. PICK from \in {"reread", "exit_completed", "exit_interrupted", "auth_read"},
             to \in {"enter", "write_completed", "write_interrupted", "auth_write",
                     "release_and_raise"} :
           /\ Goto(p, from, to)
           /\ to = "enter" => from = "reread" /\ NextPending(schedule) = claim[p]
           /\ to = "auth_write" => /\ from = "auth_read"
                                   /\ schedule.status[claim[p]] = "interrupted"
           /\ to \in {"enter", "auth_write"} => schedule.active = NoRun
           /\ to = "write_completed" => from = "exit_completed"
           /\ to = "write_interrupted" => from = "exit_interrupted"
           /\ to = "release_and_raise" => from \in {"reread", "auth_read"}
    <2>1. CASE EnterReads(p) BY <2>1 DEF EnterReads
    <2>2. CASE ExitReads(p)
      <3>1. pc[p] \in {"exit_completed", "exit_interrupted"}
        BY <2>2 DEF ExitReads, Goto
      <3>2. schedule.active = claim[p]
        BY <3>1 DEF SchedulerInv, Relies, Running
      <3> QED BY <2>2, <3>2 DEF ExitReads
    <2>3. CASE AuthorizeReads(p) BY <2>3 DEF AuthorizeReads
    <2> QED BY <2>1, <2>2, <2>3
  <1>2. /\ UNCHANGED <<schedule, lease, completions, claim, counters>>
        /\ seen' = [seen EXCEPT ![p] = schedule]
    BY DEF EnterReads, ExitReads, AuthorizeReads
  <1>3. pc[p] = from /\ pc'[p] = to /\ seen'[p] = schedule
    BY <1>1, <1>2 DEF Goto, SchedulerInv, TypeOK
  <1>4. Moves(p)
    BY <1>1, <1>2, GotoMoves DEF Moves, SchedulerInv, TypeOK, Places, counters
  <1>5. Relies(p)'
    <2>1. Relies(p)
      BY DEF SchedulerInv
    <2> QED BY <1>1, <1>2, <1>3, <2>1
            DEF Relies, InLease, Owns, Filling, Running, Writing, Claiming, counters,
                SchedulerInv, TypeOK
  <1>6. pc'[p] \in Running =>
          completions[claim'[p]] = IF pc'[p] \in Executed THEN 1 ELSE 0
    BY <1>1, <1>2, <1>3 DEF SchedulerInv, ExecutionCounted, Running, Executed
  <1>7. schedule.file = "whole"
    BY <1>1, <1>3, WholeOnceStarted
  <1> QED BY <1>1, <1>2, <1>3, <1>4, <1>5, <1>6, <1>7, QuietKeeps

\* An execution that raises, and the read of the lease's token.
LEMMA LeaveKeeps ==
    ASSUME SchedulerInv, NEW p \in Procs, ExecuteRaises(p) \/ ReleaseReads(p)
    PROVE  SchedulerInv'
  <1>1. PICK from \in {"executing", "release", "release_and_raise"},
             to \in {"exit_interrupted", "unlink", "unlink_and_raise"} :
           /\ Goto(p, from, to)
           /\ to = "exit_interrupted" <=> from = "executing"
    <2>1. CASE ExecuteRaises(p) BY <2>1 DEF ExecuteRaises
    <2>2. CASE ReleaseReads(p)
      <3>1. pc[p] \in {"release", "release_and_raise"}
        BY <2>2 DEF ReleaseReads, Goto, Raise
      <3>2. Owns(p)
        BY <3>1 DEF SchedulerInv, Relies, InLease
      <3> QED BY <2>2, <3>2 DEF ReleaseReads
    <2> QED BY <2>1, <2>2
  <1>2. /\ UNCHANGED <<schedule, lease, completions, claim, seen>>
        /\ failures' \in Nat /\ crashes' \in Nat /\ authorizations' \in Nat
        /\ faults' \in Nat /\ faults' >= faults
    BY DEF ExecuteRaises, ReleaseReads, SchedulerInv, TypeOK, counters
  <1>3. pc[p] = from /\ pc'[p] = to
    BY <1>1 DEF Goto, SchedulerInv, TypeOK
  <1>4. Moves(p)
    BY <1>1, <1>2, GotoMoves DEF Moves, SchedulerInv, TypeOK, Places
  <1>5. Relies(p)'
    <2>1. Relies(p)
      BY DEF SchedulerInv
    <2> QED BY <1>1, <1>2, <1>3, <2>1
            DEF Relies, InLease, Owns, Filling, Running, Writing, Claiming, counters,
                SchedulerInv, TypeOK
  <1>6. pc'[p] \in Running =>
          completions[claim'[p]] = IF pc'[p] \in Executed THEN 1 ELSE 0
    BY <1>1, <1>2, <1>3 DEF SchedulerInv, ExecutionCounted, Running, Executed
  <1>7. schedule.file = "whole"
    BY <1>1, <1>3, WholeOnceStarted
  <1> QED BY <1>1, <1>2, <1>3, <1>4, <1>5, <1>6, <1>7, QuietKeeps

-----------------------------------------------------------------------------
\* The file is created by the first process that finds it absent.
LEMMA CreateKeeps ==
    ASSUME SchedulerInv, NEW p \in Procs, CreateSchedule(p)
    PROVE  SchedulerInv'
  <1>1. /\ UNCHANGED <<lease, seen, claim, counters, completions>>
        /\ pc[p] = "create"
    BY DEF CreateSchedule, Goto
  <1>2. CASE schedule.file # "absent"
    <2>1. Goto(p, "create", "load") /\ schedule' = schedule
      BY <1>2 DEF CreateSchedule
    <2>2. Moves(p)
      BY <1>1, <2>1, GotoMoves DEF Moves, SchedulerInv, TypeOK, Places, counters
    <2>3. pc'[p] = "load"
      BY <2>1 DEF Goto, SchedulerInv, TypeOK
    <2> QED BY <1>1, <2>1, <2>2, <2>3, FreeRelies, QuietKeeps DEF Free
  <1>3. CASE schedule.file = "absent"
    <2>1. /\ Goto(p, "create", "fill_schedule")
          /\ schedule' = [Fresh EXCEPT !.file = "torn"]
      BY <1>3 DEF CreateSchedule
    <2>2. Moves(p)
      BY <1>1, <2>1, GotoMoves DEF Moves, SchedulerInv, TypeOK, Places, counters
    <2>3. schedule = [Fresh EXCEPT !.file = schedule.file]
      BY <1>3 DEF SchedulerInv, FileFirst
    <2>4. /\ schedule' \in ScheduleType /\ schedule'.file = "torn"
          /\ schedule'.status = schedule.status
          /\ schedule'.active = schedule.active
      BY <2>1, <2>3 DEF Fresh, ScheduleType, Statuses
    <2>5. \A q \in Procs : pc[q] \in {"idle", "construct", "create", "load"}
      BY <1>3 DEF SchedulerInv, FileFirst
    <2>6. pc'[p] = "fill_schedule"
      BY <2>1 DEF Goto, SchedulerInv, TypeOK
    <2>7. TypeOK'
      BY <1>1, <2>2, <2>4 DEF Moves, SchedulerInv, TypeOK
    <2>8. FileFirst'
      <3>1. schedule' = [Fresh EXCEPT !.file = schedule'.file]
        BY <2>1, <2>4
      <3> QED BY <2>2, <2>4, <2>5, <2>6, <3>1 DEF FileFirst, Moves
    <2>9. \A q \in Procs : Relies(q)' /\ pc'[q] \notin Running
      <3> TAKE q \in Procs
      <3>1. pc'[q] \in Free
        BY <2>2, <2>5, <2>6 DEF Moves, Free
      <3> QED BY <3>1, FreeRelies
    <2>10. /\ ActiveIsLeased' /\ ScheduleConsistent' /\ FrozenOrder'
           /\ ExecutionCounted'
      BY <1>1, <2>4, <2>9 DEF SchedulerInv, ActiveIsLeased, ScheduleConsistent,
         FrozenOrder, ExecutionCounted, Held, Completed, counters
    <2> QED BY <2>7, <2>8, <2>9, <2>10 DEF SchedulerInv
  <1> QED BY <1>2, <1>3

\* Its creator alone gives it its first content.
LEMMA FillScheduleKeeps ==
    ASSUME SchedulerInv, NEW p \in Procs,
           FillSchedule(p) \/ CreateFails(p), schedule' = Fresh
    PROVE  SchedulerInv'
  <1>1. PICK to \in {"next", "idle"} : Goto(p, "fill_schedule", to)
    BY DEF FillSchedule, CreateFails, Raise
  <1>0. /\ UNCHANGED <<lease, completions>>
        /\ failures' \in Nat /\ crashes' \in Nat /\ authorizations' \in Nat
        /\ faults' \in Nat /\ faults' >= faults
        /\ (seen' = seen /\ claim' = claim) \/ CallOver(p)
    BY DEF FillSchedule, CreateFails, Fault, counters, SchedulerInv, TypeOK
  <1>2. pc[p] = "fill_schedule" /\ pc'[p] = to /\ Moves(p)
    BY <1>0, <1>1, GotoMoves, CallOverTyped DEF Moves, SchedulerInv, TypeOK, Places
  <1>3. /\ schedule.file = "torn"
        /\ schedule = [Fresh EXCEPT !.file = schedule.file]
        /\ \A q \in Procs : pc[q] \in {"idle", "construct", "create", "load",
                                       "fill_schedule"}
        /\ \A q \in Procs : pc[q] = "fill_schedule" => q = p
    BY <1>2 DEF SchedulerInv, FileFirst
  <1>4. /\ schedule' \in ScheduleType /\ schedule'.file = "whole"
        /\ schedule'.status = schedule.status
        /\ schedule'.active = schedule.active
    BY <1>3 DEF Fresh, ScheduleType, Statuses
  <1>5. TypeOK'
    BY <1>0, <1>2, <1>4 DEF Moves, SchedulerInv, TypeOK
  <1>6. FileFirst'
    BY <1>2, <1>3, <1>4 DEF FileFirst, Moves
  <1>7. \A q \in Procs : Relies(q)' /\ pc'[q] \notin Running
    <2> TAKE q \in Procs
    <2>1. pc'[q] \in Free
      BY <1>2, <1>3 DEF Moves, Free
    <2> QED BY <2>1, FreeRelies
  <1>8. /\ ActiveIsLeased' /\ ScheduleConsistent' /\ FrozenOrder'
        /\ ExecutionCounted'
    BY <1>0, <1>4, <1>7 DEF SchedulerInv, TypeOK, ActiveIsLeased,
       ScheduleConsistent, FrozenOrder, ExecutionCounted, Held, Completed
  <1> QED BY <1>5, <1>6, <1>7, <1>8 DEF SchedulerInv

-----------------------------------------------------------------------------
\* Every execution was counted once, as far as the schedule tells.
CountedByStatus ==
    \A r \in Runs :
      /\ schedule.status[r] \in {"pending", "interrupted"} => completions[r] = 0
      /\ schedule.status[r] = "running" => completions[r] \in {0, 1}
      /\ schedule.status[r] = "completed" => completions[r] = 1

\* A step of a process that owns the lease, or takes it, keeps the invariant if
\* it keeps the parts that are not about the other processes.
LEMMA OwnerKeeps ==
    ASSUME SchedulerInv, NEW p \in Procs, Moves(p), lease.owner \in {p, NoProc},
           schedule.file = "whole" /\ schedule'.file = "whole",
           schedule' \in ScheduleType,
           lease' \in [owner : Procs \cup {NoProc}, filled : BOOLEAN],
           completions' \in [Runs -> Nat],
           Relies(p)', pc'[p] # "fill_schedule",
           ActiveIsLeased', ScheduleConsistent', FrozenOrder', CountedByStatus',
           pc'[p] \in Running =>
             completions'[claim'[p]] = IF pc'[p] \in Executed THEN 1 ELSE 0
    PROVE  SchedulerInv'
  <1>1. TypeOK'
    BY DEF SchedulerInv, TypeOK, Moves
  <1>2. \A q \in Procs : q # p => ~InLease(q) /\ pc[q] \notin Filling
    BY OwnerAlone
  <1>3. \A q \in Procs : Relies(q)'
    <2> TAKE q \in Procs
    <2>1. CASE q # p
      BY <2>1, <1>2, Aside DEF SchedulerInv, Moves
    <2> QED BY <2>1
  <1>4. \A q \in Procs : q # p => pc'[q] \notin Running
    BY <1>2 DEF Moves, InLease
  <1>5. ExecutionCounted'
    BY <1>4 DEF ExecutionCounted, CountedByStatus, Executed
  <1>6. FileFirst'
    BY DEF SchedulerInv, FileFirst, Moves
  <1> QED BY <1>1, <1>3, <1>5, <1>6 DEF SchedulerInv

\* Taking, filling and removing the lease file, and the end of an execution:
\* the schedule stays as it is.
LEMMA LeaseStepKeeps ==
    ASSUME SchedulerInv, NEW p \in Procs,
           \/ Acquire(p) \/ FillLease(p) \/ FillFails(p) \/ ReleaseUnlinks(p)
           \/ Execute(p)
    PROVE  SchedulerInv'
  <1>0. /\ Relies(p) /\ p # NoProc
        /\ schedule' = schedule
        /\ failures' \in Nat /\ crashes' \in Nat /\ authorizations' \in Nat
        /\ faults' \in Nat /\ faults' >= faults
        /\ (seen' = seen /\ claim' = claim) \/ CallOver(p)
    BY SchedulerAssumption DEF SchedulerInv, TypeOK, Procs, Acquire, FillLease,
       FillFails, ReleaseUnlinks, Execute, Fault, counters
  <1>1. PICK from \in {"acquire", "auth", "fill", "auth_fill", "unlink",
                      "unlink_and_raise", "executing"},
             to \in {"fill", "auth_fill", "reread", "auth_read", "next", "idle",
                     "exit_completed"} :
           /\ Goto(p, from, to)
           /\ from \in {"acquire", "auth"} => Acquire(p) /\ to \in Filling
           /\ from \in Filling =>
                \/ FillLease(p) /\ to \in {"reread", "auth_read"}
                \/ FillFails(p) /\ to = "idle"
           /\ from \in {"unlink", "unlink_and_raise"} =>
                ReleaseUnlinks(p) /\ to \in {"next", "idle"}
           /\ from = "executing" => Execute(p) /\ to = "exit_completed"
    <2> USE DEF Raise, Filling
    <2>1. CASE Acquire(p) BY <2>1 DEF Acquire
    <2>2. CASE FillLease(p)
      <3>1. PICK from \in Filling, to \in {"reread", "auth_read"} : Goto(p, from, to)
        BY <2>2 DEF FillLease
      <3> QED BY <2>2, <3>1
    <2>3. CASE ReleaseUnlinks(p) BY <2>3 DEF ReleaseUnlinks
    <2>4. CASE Execute(p) BY <2>4 DEF Execute
    <2>5. CASE FillFails(p)
      <3>1. CASE Goto(p, "fill", "idle") BY <2>5, <3>1
      <3>2. CASE Goto(p, "auth_fill", "idle") BY <2>5, <3>2
      <3> QED BY <2>5, <3>1, <3>2 DEF FillFails
    <2> QED BY <2>1, <2>2, <2>3, <2>4, <2>5
  <1>2. pc[p] = from /\ pc'[p] = to
    BY <1>1 DEF Goto, SchedulerInv, TypeOK
  <1>3. Moves(p)
    BY <1>0, <1>1, GotoMoves, CallOverTyped DEF Moves, SchedulerInv, TypeOK, Places
  <1>4. schedule.file = "whole" /\ schedule \in ScheduleType
    BY <1>2, WholeOnceStarted DEF SchedulerInv, TypeOK
  <1>5. ScheduleConsistent' /\ FrozenOrder'
    BY <1>0 DEF SchedulerInv, ScheduleConsistent, FrozenOrder, Completed
  <1>6. CountedByStatus
    BY DEF SchedulerInv, ExecutionCounted, CountedByStatus
  <1>7. CASE from \in {"acquire", "auth"}
    <2>1. /\ lease.owner = NoProc /\ lease' = [owner |-> p, filled |-> FALSE]
          /\ completions' = completions /\ to \in Filling
          /\ claim' = claim /\ faults' = faults
      BY <1>1, <1>7 DEF Acquire, Held, counters
    <2>2. schedule.active = NoRun \/ faults > 0
      BY <2>1 DEF SchedulerInv, TypeOK, ActiveIsLeased, Held
    <2>3. Relies(p)'
      BY <1>0, <1>2, <1>7, <2>1, <2>2
         DEF Relies, InLease, Owns, Filling, Running, Writing, Claiming
    <2>4. ActiveIsLeased'
      BY <1>0, <2>1 DEF ActiveIsLeased, Held
    <2>5. /\ lease' \in [owner : Procs \cup {NoProc}, filled : BOOLEAN]
          /\ completions' \in [Runs -> Nat] /\ CountedByStatus'
      BY <1>0, <1>6, <2>1 DEF SchedulerInv, TypeOK, CountedByStatus
    <2> QED BY <1>0, <1>2, <1>3, <1>4, <1>5, <2>1, <2>3, <2>4, <2>5, OwnerKeeps
            DEF Filling, Running
  <1>8. CASE from \in Filling /\ FillLease(p) /\ to \in {"reread", "auth_read"}
    <2>1. /\ lease' = [lease EXCEPT !.filled = TRUE]
          /\ completions' = completions /\ to \in {"reread", "auth_read"}
          /\ claim' = claim /\ faults' = faults
      BY <1>8 DEF FillLease, counters
    <2>2. /\ lease.owner = p /\ lease'.owner = p /\ lease'.filled
          /\ lease' \in [owner : Procs \cup {NoProc}, filled : BOOLEAN]
      BY <1>0, <1>2, <1>8, <2>1 DEF Relies, SchedulerInv, TypeOK
    <2>3. Relies(p)'
      BY <1>0, <1>2, <1>8, <2>1, <2>2
         DEF Relies, InLease, Owns, Filling, Running, Writing, Claiming
    <2>4. ActiveIsLeased'
      BY <1>0, <2>2 DEF ActiveIsLeased, Held
    <2>5. completions' \in [Runs -> Nat] /\ CountedByStatus'
      BY <1>0, <1>6, <2>1 DEF SchedulerInv, TypeOK, CountedByStatus
    <2> QED BY <1>0, <1>2, <1>3, <1>4, <1>5, <2>1, <2>2, <2>3, <2>4, <2>5, OwnerKeeps
            DEF Running
  <1>9. CASE \/ from \in {"unlink", "unlink_and_raise"}
             \/ from \in Filling /\ FillFails(p) /\ to = "idle"
    <2>1. /\ lease' = NoLease /\ completions' = completions
          /\ to \in {"next", "idle"}
      BY <1>1, <1>9 DEF ReleaseUnlinks, FillFails, Fault
    <2>2. lease.owner = p /\ (schedule.active = NoRun \/ faults > 0)
      BY <1>0, <1>2, <1>9 DEF Relies, InLease, Owns, Running, Filling
    <2>3. Relies(p)' /\ pc'[p] \notin Running
      BY <1>2, <2>1, FreeRelies DEF Free
    <2>4. ActiveIsLeased'
      BY <1>0, <2>2 DEF ActiveIsLeased, SchedulerInv, TypeOK
    <2>5. /\ lease' \in [owner : Procs \cup {NoProc}, filled : BOOLEAN]
          /\ completions' \in [Runs -> Nat] /\ CountedByStatus'
      BY <1>0, <1>6, <2>1 DEF SchedulerInv, TypeOK, CountedByStatus, NoLease
    <2> QED BY <1>0, <1>2, <1>3, <1>4, <1>5, <2>1, <2>2, <2>3, <2>4, <2>5, OwnerKeeps
  <1>10. CASE from = "executing"
    <2>1. /\ completions' = [completions EXCEPT ![claim[p]] = @ + 1]
          /\ lease' = lease /\ to = "exit_completed"
          /\ claim' = claim /\ faults' = faults
      BY <1>1, <1>10 DEF Execute, counters
    <2>2. /\ lease.owner = p /\ claim[p] \in Runs
          /\ schedule.active = claim[p]
      BY <1>0, <1>2, <1>10 DEF Relies, InLease, Owns, Running, Claiming
    <2>3. completions[claim[p]] = 0
      BY <1>2, <1>10 DEF SchedulerInv, ExecutionCounted, Running
    <2>4. /\ completions' \in [Runs -> Nat] /\ completions'[claim[p]] = 1
          /\ \A r \in Runs : r # claim[p] => completions'[r] = completions[r]
      BY <2>1, <2>2, <2>3 DEF SchedulerInv, TypeOK
    <2>5. schedule.status[claim[p]] = "running"
      BY <2>2, SchedulerAssumption DEF SchedulerInv, ScheduleConsistent, Runs
    <2>6. CountedByStatus'
      BY <1>0, <1>6, <2>4, <2>5 DEF CountedByStatus
    <2>7. Relies(p)'
      BY <1>0, <1>2, <1>10, <2>1
         DEF Relies, InLease, Owns, Filling, Running, Writing, Claiming
    <2>8. /\ ActiveIsLeased'
          /\ lease' \in [owner : Procs \cup {NoProc}, filled : BOOLEAN]
      BY <1>0, <2>1 DEF SchedulerInv, TypeOK, ActiveIsLeased, Held
    <2> QED BY <1>0, <1>2, <1>3, <1>4, <1>5, <2>1, <2>2, <2>4, <2>6, <2>7, <2>8,
               OwnerKeeps DEF Executed
  <1> QED BY <1>1, <1>7, <1>8, <1>9, <1>10 DEF Filling

-----------------------------------------------------------------------------
\* What a write of the schedule under the lease is: run c gets a status, and
\* is or is not the active run.
Writes(c, status, active) ==
    /\ schedule'.file = "whole" /\ schedule' \in ScheduleType
    /\ schedule'.active = active
    /\ schedule'.status[c] = status
    /\ \A r \in Runs : r # c => schedule'.status[r] = schedule.status[r]

LEMMA WriteOfSchedule ==
    ASSUME SchedulerInv, NEW c \in Runs, NEW status \in Statuses,
           NEW active \in Runs \cup {NoRun}, schedule.file = "whole",
           schedule' = [schedule EXCEPT !.status[c] = status, !.active = active]
    PROVE  Writes(c, status, active)
  <1>1. schedule \in ScheduleType
    BY DEF SchedulerInv, TypeOK
  <1> QED BY <1>1 DEF Writes, ScheduleType

\* A write of a run that is not completed keeps the frozen order, if every run
\* before it is completed or it becomes pending.
LEMMA OrderKept ==
    ASSUME SchedulerInv, NEW c \in Runs, NEW status, NEW active,
           Writes(c, status, active), ~Completed(schedule, c),
           status = "pending" \/ \A q \in 1 .. (c - 1) : Completed(schedule, q)
    PROVE  FrozenOrder'
  <1>1. \A q \in Runs : Completed(schedule, q) => Completed(schedule', q)
    BY DEF Writes, Completed
  <1>2. \A r \in Runs : \A q \in 1 .. (r - 1) : q \in Runs
    BY SchedulerAssumption DEF Runs
  <1>3. ASSUME NEW r \in Runs, schedule'.status[r] # "pending",
               NEW q \in 1 .. (r - 1)
        PROVE  Completed(schedule', q)
    <2>1. CASE r = c
      BY <1>1, <1>2, <1>3, <2>1 DEF Writes
    <2>2. CASE r # c
      BY <1>1, <1>2, <1>3, <2>2 DEF Writes, SchedulerInv, FrozenOrder
    <2> QED BY <2>1, <2>2
  <1> QED BY <1>3 DEF FrozenOrder

\* The places where the schedule is written, and what holds there.
LEMMA AtWrite ==
    ASSUME SchedulerInv, NEW p \in Procs, pc[p] \in Writing
    PROVE  /\ seen[p] = schedule /\ schedule.file = "whole"
           /\ lease.owner = p /\ lease.filled
           /\ claim[p] \in Runs /\ claim[p] # NoRun
           /\ pc[p] \in Running => schedule.active = claim[p]
           /\ pc[p] \notin Running => schedule.active = NoRun
  <1>1. Relies(p)
    BY DEF SchedulerInv
  <1>2. schedule.file = "whole"
    BY WholeOnceStarted DEF Writing
  <1> QED BY <1>1, <1>2, SchedulerAssumption
          DEF Relies, InLease, Owns, Writing, Claiming, Running, Runs

\* The counters of a step, whoever counts.
Counted ==
    /\ failures' \in Nat /\ crashes' \in Nat /\ authorizations' \in Nat
    /\ faults' \in Nat /\ faults' >= faults

\* _RunClaim.__enter__ makes the pending run whose turn it is the active one.
LEMMA EnterKeeps ==
    ASSUME SchedulerInv, NEW p \in Procs, NEW to \in {"executing", "release_and_raise"},
           Goto(p, "enter", to), schedule' = Activated(p), Forget(p),
           UNCHANGED <<lease, claim, completions>>, Counted,
           to = "release_and_raise" => faults' > 0
    PROVE  SchedulerInv'
  <1> DEFINE c == claim[p]
  <1>1. schedule' = [seen[p] EXCEPT !.status[c] = "running", !.active = c]
    BY DEF Activated
  <1>2. pc[p] = "enter" /\ pc'[p] = to /\ Moves(p)
    BY GotoMoves, ForgetTyped DEF Moves, Counted, SchedulerInv, TypeOK, Places
  <1>3. /\ seen[p] = schedule /\ schedule.file = "whole"
        /\ lease.owner = p /\ lease.filled /\ c \in Runs /\ c # NoRun
        /\ schedule.active = NoRun
    BY <1>2, AtWrite DEF Writing, Running
  <1>4. Writes(c, "running", c)
    BY <1>1, <1>3, WriteOfSchedule DEF Statuses
  <1>5. /\ schedule.status[c] = "pending"
        /\ \A q \in 1 .. (c - 1) : Completed(schedule, q)
    <2>1. NextPending(schedule) = c
      BY <1>2 DEF SchedulerInv, Relies
    <2> QED BY <2>1, <1>3, TurnOf
  <1>6. completions[c] = 0
    BY <1>3, <1>5 DEF SchedulerInv, ExecutionCounted
  <1> HIDE DEF c
  <1>7. ScheduleConsistent'
    BY <1>3, <1>4 DEF SchedulerInv, ScheduleConsistent, Writes
  <1>8. FrozenOrder'
    BY <1>3, <1>4, <1>5, OrderKept DEF Completed
  <1>9. CountedByStatus'
    BY <1>4, <1>6 DEF SchedulerInv, ExecutionCounted, CountedByStatus, Writes
  <1>10. ActiveIsLeased'
    BY <1>3, SchedulerAssumption DEF ActiveIsLeased, Held, Procs
  <1>11. Relies(p)'
    <2> QED BY <1>2, <1>3, <1>4
            DEF Relies, InLease, Owns, Filling, Running, Writing, Claiming, Writes, c
  <1>12. completions'[claim'[p]] = 0
    BY <1>6 DEF c
  <1>13. /\ lease' \in [owner : Procs \cup {NoProc}, filled : BOOLEAN]
         /\ completions' \in [Runs -> Nat]
    BY DEF SchedulerInv, TypeOK
  <1> QED BY <1>2, <1>3, <1>4, <1>7, <1>8, <1>9, <1>10, <1>11, <1>12, <1>13,
             OwnerKeeps DEF Writes, Executed, Running

\* _RunClaim.__exit__ completes or interrupts the active run.
LEMMA ExitKeeps ==
    ASSUME SchedulerInv, NEW p \in Procs,
           NEW from \in {"write_completed", "write_interrupted"},
           NEW to \in {"release", "release_and_raise"},
           NEW status \in {"completed", "interrupted"},
           Goto(p, from, to), schedule' = Ended(p, status), Forget(p),
           from = "write_completed" <=> status = "completed",
           UNCHANGED <<lease, claim, completions>>, Counted
    PROVE  SchedulerInv'
  <1> DEFINE c == claim[p]
  <1>1. schedule' = [seen[p] EXCEPT !.status[c] = status, !.active = NoRun]
    BY DEF Ended
  <1>3. pc[p] = from /\ pc'[p] = to /\ Moves(p)
    BY GotoMoves, ForgetTyped DEF Moves, Counted, SchedulerInv, TypeOK, Places
  <1>4. /\ seen[p] = schedule /\ schedule.file = "whole"
        /\ lease.owner = p /\ lease.filled /\ c \in Runs /\ c # NoRun
        /\ schedule.active = c
    BY <1>3, AtWrite DEF Writing, Running
  <1>5. Writes(c, status, NoRun)
    <2>1. status \in Statuses
      BY DEF Statuses
    <2>2. schedule' = [schedule EXCEPT !.status[c] = status, !.active = NoRun]
      BY <1>1, <1>4
    <2> QED BY <1>4, <2>1, <2>2, WriteOfSchedule
  <1>6. completions[c] = IF status = "completed" THEN 1 ELSE 0
    BY <1>1, <1>3 DEF SchedulerInv, ExecutionCounted, Running
  <1>7. schedule.status[c] = "running"
    BY <1>4 DEF SchedulerInv, ScheduleConsistent
  <1> HIDE DEF c
  <1>8. ScheduleConsistent'
    BY <1>4, <1>5 DEF SchedulerInv, ScheduleConsistent, Writes
  <1>9. FrozenOrder'
    <2>1. \A q \in 1 .. (c - 1) : Completed(schedule, q)
      BY <1>4, <1>7 DEF SchedulerInv, FrozenOrder
    <2> QED BY <1>4, <1>5, <1>7, <2>1, OrderKept DEF Completed
  <1>10. CountedByStatus'
    BY <1>5, <1>6 DEF SchedulerInv, ExecutionCounted, CountedByStatus, Writes
  <1>11. ActiveIsLeased'
    BY <1>5 DEF ActiveIsLeased, Writes
  <1>12. Relies(p)' /\ pc'[p] \notin Running
    <2> QED BY <1>3, <1>4, <1>5
            DEF Relies, InLease, Owns, Filling, Running, Writing, Claiming, Writes
  <1>13. /\ lease' \in [owner : Procs \cup {NoProc}, filled : BOOLEAN]
         /\ completions' \in [Runs -> Nat]
    BY DEF SchedulerInv, TypeOK
  <1> QED BY <1>3, <1>4, <1>5, <1>8, <1>9, <1>10, <1>11, <1>12, <1>13,
             OwnerKeeps DEF Writes

\* An operator makes an interrupted run pending again.
LEMMA AuthorizeKeeps ==
    ASSUME SchedulerInv, NEW p \in Procs,
           Goto(p, "auth_write", "release_and_raise"), schedule' = Reopened(p),
           Forget(p), UNCHANGED <<lease, claim, completions>>, Counted
    PROVE  SchedulerInv'
  <1> DEFINE c == claim[p]
  <1>1. schedule' = [seen[p] EXCEPT !.status[c] = "pending"]
    BY DEF Reopened
  <1>2. pc[p] = "auth_write" /\ pc'[p] = "release_and_raise" /\ Moves(p)
    BY GotoMoves, ForgetTyped DEF Moves, Counted, SchedulerInv, TypeOK, Places
  <1>3. /\ seen[p] = schedule /\ schedule.file = "whole"
        /\ lease.owner = p /\ lease.filled /\ c \in Runs /\ c # NoRun
        /\ schedule.active = NoRun
    BY <1>2, AtWrite DEF Writing, Running
  <1>4. Writes(c, "pending", NoRun)
    <2>1. schedule \in ScheduleType
      BY DEF SchedulerInv, TypeOK
    <2> QED BY <1>1, <1>3, <2>1 DEF Writes, ScheduleType, Statuses
  <1>5. schedule.status[c] = "interrupted"
    BY <1>2 DEF SchedulerInv, Relies
  <1>6. completions[c] = 0
    BY <1>3, <1>5 DEF SchedulerInv, ExecutionCounted
  <1> HIDE DEF c
  <1>7. ScheduleConsistent'
    BY <1>3, <1>4, <1>5 DEF SchedulerInv, ScheduleConsistent, Writes
  <1>8. FrozenOrder'
    BY <1>3, <1>4, <1>5, OrderKept DEF Completed
  <1>9. CountedByStatus'
    BY <1>4, <1>6 DEF SchedulerInv, ExecutionCounted, CountedByStatus, Writes
  <1>10. ActiveIsLeased'
    BY <1>4 DEF ActiveIsLeased, Writes
  <1>11. Relies(p)' /\ pc'[p] \notin Running
    <2> QED BY <1>2, <1>3, <1>4
            DEF Relies, InLease, Owns, Filling, Running, Writing, Claiming, Writes
  <1>12. /\ lease' \in [owner : Procs \cup {NoProc}, filled : BOOLEAN]
         /\ completions' \in [Runs -> Nat]
    BY DEF SchedulerInv, TypeOK
  <1> QED BY <1>2, <1>3, <1>4, <1>7, <1>8, <1>9, <1>10, <1>11, <1>12,
             OwnerKeeps DEF Writes

\* The three writes, in calls that go on.
LEMMA WriteKeeps ==
    ASSUME SchedulerInv, NEW p \in Procs,
           EnterWrites(p) \/ ExitWrites(p) \/ AuthorizeWrites(p)
    PROVE  SchedulerInv'
  <1>1. /\ Counted /\ Forget(p) /\ UNCHANGED <<lease, claim, completions>>
    BY DEF EnterWrites, ExitWrites, AuthorizeWrites, counters, Counted, SchedulerInv,
           TypeOK
  <1>2. CASE EnterWrites(p)
    BY <1>1, <1>2, EnterKeeps DEF EnterWrites
  <1>3. CASE ExitWrites(p)
    BY <1>1, <1>3, ExitKeeps DEF ExitWrites
  <1>4. CASE AuthorizeWrites(p)
    BY <1>1, <1>4, AuthorizeKeeps DEF AuthorizeWrites
  <1> QED BY <1>2, <1>3, <1>4

\* A write that raises did what it does otherwise, or nothing; a run that it
\* leaves active is so because of the fault.
LEMMA WriteFailsKeeps ==
    ASSUME SchedulerInv, NEW p \in Procs, WriteFails(p)
    PROVE  SchedulerInv'
  <1>1. /\ Counted /\ Forget(p) /\ UNCHANGED <<lease, claim, completions>>
        /\ faults' > 0
    BY DEF WriteFails, Fault, Counted, SchedulerInv, TypeOK
  <1>2. CASE schedule' = schedule
    <2>1. PICK from \in Writing : Goto(p, from, "release_and_raise")
      BY DEF WriteFails, Writing
    <2>2. pc[p] = from /\ pc'[p] = "release_and_raise" /\ Moves(p)
      BY <1>1, <2>1, GotoMoves, ForgetTyped
         DEF Moves, Counted, SchedulerInv, TypeOK, Places
    <2>3. schedule.file = "whole" /\ lease.owner = p /\ lease.filled
      BY <2>2, AtWrite
    <2>4. Relies(p)' /\ pc'[p] \notin Running
      BY <1>1, <1>2, <2>2, <2>3
         DEF Relies, InLease, Owns, Filling, Running, Writing, Claiming
    <2> QED BY <1>1, <1>2, <2>2, <2>3, <2>4, QuietKeeps
  <1>3. CASE Goto(p, "enter", "release_and_raise") /\ schedule' = Activated(p)
    BY <1>1, <1>3, EnterKeeps
  <1>4. CASE Goto(p, "write_completed", "release_and_raise")
               /\ schedule' = Ended(p, "completed")
    BY <1>1, <1>4, ExitKeeps
  <1>5. CASE Goto(p, "write_interrupted", "release_and_raise")
               /\ schedule' = Ended(p, "interrupted")
    BY <1>1, <1>5, ExitKeeps
  <1>6. CASE Goto(p, "auth_write", "release_and_raise") /\ schedule' = Reopened(p)
    BY <1>1, <1>6, AuthorizeKeeps
  <1> QED BY <1>2, <1>3, <1>4, <1>5, <1>6 DEF WriteFails

\* A read under the lease that raises.
LEMMA ReadFailsKeeps ==
    ASSUME SchedulerInv, NEW p \in Procs, ReadFails(p)
    PROVE  SchedulerInv'
  <1>1. PICK from \in {"reread", "exit_completed", "exit_interrupted", "auth_read"} :
           Goto(p, from, "release_and_raise")
    BY DEF ReadFails
  <1>2. /\ Counted /\ UNCHANGED <<schedule, lease, seen, claim, completions>>
        /\ faults' > 0
    BY DEF ReadFails, Fault, Counted, SchedulerInv, TypeOK
  <1>3. pc[p] = from /\ pc'[p] = "release_and_raise" /\ Moves(p)
    BY <1>1, <1>2, GotoMoves DEF Moves, Counted, SchedulerInv, TypeOK, Places
  <1>4. schedule.file = "whole" /\ Owns(p)
    BY <1>1, <1>3, WholeOnceStarted DEF SchedulerInv, Relies, InLease, Running
  <1>5. Relies(p)' /\ pc'[p] \notin Running
    BY <1>2, <1>3, <1>4 DEF Relies, InLease, Owns, Filling, Running, Writing, Claiming
  <1> QED BY <1>2, <1>3, <1>4, <1>5, QuietKeeps

\* A create that raises leaves the file torn, or whole.
LEMMA CreateFailsKeeps ==
    ASSUME SchedulerInv, NEW p \in Procs, CreateFails(p)
    PROVE  SchedulerInv'
  <1>1. CASE schedule' = Fresh
    BY <1>1, FillScheduleKeeps
  <1>2. CASE schedule' = schedule
    <2>1. /\ Counted /\ CallOver(p) /\ UNCHANGED <<lease, completions>>
          /\ Goto(p, "fill_schedule", "idle")
      BY DEF CreateFails, Raise, Fault, Counted, SchedulerInv, TypeOK
    <2>2. pc'[p] = "idle" /\ Moves(p)
      BY <2>1, GotoMoves, CallOverTyped
         DEF Moves, Counted, SchedulerInv, TypeOK, Places
    <2>3. Relies(p)' /\ pc'[p] \notin Running
      BY <2>2, FreeRelies DEF Free
    <2> QED BY <1>2, <2>1, <2>2, <2>3, QuietKeeps
  <1> QED BY <1>1, <1>2 DEF CreateFails

-----------------------------------------------------------------------------
LEMMA SchedulerInvInit == Init => SchedulerInv
  <1> SUFFICES ASSUME Init
               PROVE  SchedulerInv
    OBVIOUS
  <1> USE DEF Init
  <1>1. /\ schedule.file = "absent" /\ schedule.active = NoRun
        /\ schedule.status = [r \in Runs |-> "pending"]
        /\ schedule \in ScheduleType
        /\ schedule = [Fresh EXCEPT !.file = schedule.file]
    BY DEF NoSchedule, Fresh, ScheduleType, Statuses
  <1>2. TypeOK
    BY <1>1 DEF TypeOK, NoLease, Places
  <1>3. FileFirst
    BY <1>1 DEF FileFirst
  <1>4. \A p \in Procs : Relies(p) /\ pc[p] \notin Running
    BY DEF Relies, InLease, Filling, Running, Writing, Claiming
  <1>5. /\ ActiveIsLeased /\ ScheduleConsistent /\ FrozenOrder
        /\ ExecutionCounted
    BY <1>1, <1>4 DEF ActiveIsLeased, ScheduleConsistent, FrozenOrder,
       ExecutionCounted
  <1> QED BY <1>2, <1>3, <1>4, <1>5 DEF SchedulerInv

LEMMA SchedulerInvStep == SchedulerInv /\ [Next]_vars => SchedulerInv'
  <1> SUFFICES ASSUME SchedulerInv, [Next]_vars
               PROVE  SchedulerInv'
    OBVIOUS
  <1>1. CASE UNCHANGED vars
    BY <1>1 DEF vars, counters, SchedulerInv, TypeOK, FileFirst, Relies, InLease,
       Owns, ActiveIsLeased, Held, ScheduleConsistent, FrozenOrder, Completed,
       ExecutionCounted
  <1>2. CASE Next
    <2>1. PICK p \in Procs :
             \/ Start(p) \/ ProcessStep(p) \/ ExecuteRaises(p) \/ Crash(p)
             \/ Fails(p)
             \/ \E r \in Runs : Authorize(p, r)
      BY <1>2 DEF Next
    <2>2. CASE \/ Start(p) \/ FindSchedule(p) \/ LoadSchedule(p)
               \/ CheckLease(p) \/ AlarmRaised(p) \/ ClaimRefused(p)
               \/ LoopEnds(p) \/ LeaseBusy(p) \/ Crash(p) \/ CallFails(p)
      BY <2>2, FreeStepKeeps
    <2>3. CASE CreateSchedule(p) BY <2>3, CreateKeeps
    <2>4. CASE FillSchedule(p) \/ CreateFails(p)
      BY <2>4, FillScheduleKeeps, CreateFailsKeeps DEF FillSchedule
    <2>5. CASE ClaimNext(p) \/ \E r \in Runs : Authorize(p, r)
      BY <2>5, ClaimKeeps
    <2>6. CASE \/ Acquire(p) \/ FillLease(p) \/ FillFails(p) \/ ReleaseUnlinks(p)
               \/ Execute(p)
      BY <2>6, LeaseStepKeeps
    <2>7. CASE EnterReads(p) \/ ExitReads(p) \/ AuthorizeReads(p) \/ ReadFails(p)
      BY <2>7, ReadKeeps, ReadFailsKeeps
    <2>8. CASE ExecuteRaises(p) \/ ReleaseReads(p) BY <2>8, LeaveKeeps
    <2>9. CASE EnterWrites(p) \/ ExitWrites(p) \/ AuthorizeWrites(p)
      BY <2>9, WriteKeeps
    <2>10. CASE WriteFails(p) BY <2>10, WriteFailsKeeps
    <2> QED BY <2>1, <2>2, <2>3, <2>4, <2>5, <2>6, <2>7, <2>8, <2>9, <2>10
            DEF ProcessStep, Fails
  <1> QED BY <1>1, <1>2

-----------------------------------------------------------------------------
\* The inductive invariant holds of every execution, whatever is killed or raises.
THEOREM SchedulerInvariant == Spec => []SchedulerInv
  BY SchedulerInvInit, SchedulerInvStep, PTL DEF Spec

\* Types of the scheduler's variables.
THEOREM SchedulerTypes == Spec => []TypeOK
  <1>1. SchedulerInv => TypeOK
    BY DEF SchedulerInv
  <1> QED BY <1>1, SchedulerInvariant, PTL

\* However many processes claim runs of one study, at most one works under the
\* accelerator lease, and what it executes is the run the schedule names.
THEOREM LeaseIsExclusive == Spec => []LeaseExclusive
  <1>1. SchedulerInv => LeaseExclusive
    BY DEF SchedulerInv, LeaseExclusive, Relies
  <1> QED BY <1>1, SchedulerInvariant, PTL

\* No process overwrites an update of another one.
THEOREM NoLostUpdate == Spec => []SeenIsCurrent
  <1>1. SchedulerInv => SeenIsCurrent
    BY DEF SchedulerInv, SeenIsCurrent, Relies
  <1> QED BY <1>1, SchedulerInvariant, PTL

\* An active run is the only running one, and is covered by a lease file as long
\* as no read and no write raised: a kill alone never leaves it uncovered.
THEOREM FilesAgree == Spec => [](ActiveIsLeased /\ ScheduleConsistent)
  <1>1. SchedulerInv => ActiveIsLeased /\ ScheduleConsistent
    BY DEF SchedulerInv
  <1> QED BY <1>1, SchedulerInvariant, PTL

\* Runs are taken in the frozen order.
THEOREM OrderIsFrozen == Spec => []FrozenOrder
  <1>1. SchedulerInv => FrozenOrder
    BY DEF SchedulerInv
  <1> QED BY <1>1, SchedulerInvariant, PTL

\* No run is executed to its end twice, and a completed run was executed.
THEOREM RunsExecutedOnce == Spec => []ExecutedOnce
  <1>1. SchedulerInv => ExecutedOnce
    <2> SUFFICES ASSUME SchedulerInv, NEW r \in Runs
                 PROVE  /\ completions[r] <= 1
                        /\ Completed(schedule, r) => completions[r] = 1
      BY DEF ExecutedOnce
    <2>1. schedule.status[r] \in Statuses
      BY DEF SchedulerInv, TypeOK, ScheduleType
    <2> QED BY <2>1 DEF SchedulerInv, ExecutionCounted, Statuses, Completed
  <1> QED BY <1>1, SchedulerInvariant, PTL

\* A completed run stays completed, whatever is authorized, claimed or killed.
THEOREM CompletionIsFinal == Spec => CompletedIsFinal
  <1>1. SchedulerInv /\ [Next]_vars =>
          [\A r \in Runs : Completed(schedule, r) => Completed(schedule', r)]_vars
    <2> SUFFICES ASSUME SchedulerInv, Next, NEW r \in Runs, Completed(schedule, r)
                 PROVE  Completed(schedule', r)
      OBVIOUS
    <2>1. PICK p \in Procs :
             \/ Start(p) \/ ProcessStep(p) \/ ExecuteRaises(p) \/ Crash(p)
             \/ Fails(p)
             \/ \E q \in Runs : Authorize(p, q)
      BY DEF Next
    <2>2. CASE CreateSchedule(p) \/ FillSchedule(p) \/ CreateFails(p)
      <3>1. CASE schedule' = schedule BY <3>1 DEF Completed
      <3>2. CASE schedule' # schedule
        <4>1. schedule.file # "whole"
          BY <2>2, <3>2 DEF CreateSchedule, FillSchedule, CreateFails, Goto, Raise,
                            SchedulerInv, FileFirst
        <4>2. schedule = [Fresh EXCEPT !.file = schedule.file]
          BY <4>1 DEF SchedulerInv, FileFirst
        <4>3. schedule.status[r] = "pending"
          BY <4>2 DEF Fresh
        <4> QED BY <4>3 DEF Completed
      <3> QED BY <3>1, <3>2
    <2>3. CASE EnterWrites(p) \/ ExitWrites(p) \/ AuthorizeWrites(p) \/ WriteFails(p)
      <3>1. pc[p] \in Writing
        BY <2>3 DEF EnterWrites, ExitWrites, AuthorizeWrites, WriteFails, Goto, Writing
      <3>2. /\ seen[p] = schedule /\ claim[p] \in Runs
            /\ schedule.status[claim[p]] # "completed"
        <4>1. pc[p] = "enter" => schedule.status[claim[p]] = "pending"
          BY <3>1, AtWrite, TurnOf DEF SchedulerInv, Relies
        <4>2. pc[p] = "auth_write" => schedule.status[claim[p]] = "interrupted"
          BY DEF SchedulerInv, Relies
        <4>3. pc[p] \in Running => schedule.status[claim[p]] = "running"
          BY <3>1, AtWrite DEF SchedulerInv, ScheduleConsistent
        <4> QED BY <3>1, <4>1, <4>2, <4>3, AtWrite DEF Writing, Running
      <3>3. \/ \E s \in Statuses, a \in Runs \cup {NoRun} :
                 schedule' = [schedule EXCEPT !.status[claim[p]] = s, !.active = a]
            \/ schedule' = [schedule EXCEPT !.status[claim[p]] = "pending"]
            \/ schedule' = schedule
        BY <2>3, <3>2 DEF EnterWrites, ExitWrites, AuthorizeWrites, WriteFails, Statuses,
                          Activated, Ended, Reopened
      <3>4. schedule \in ScheduleType
        BY DEF SchedulerInv, TypeOK
      <3>5. r # claim[p]
        BY <3>2 DEF Completed
      <3>6. schedule'.status[r] = schedule.status[r]
        BY <3>3, <3>4, <3>5 DEF ScheduleType
      <3> QED BY <3>6 DEF Completed
    <2>4. CASE UNCHANGED schedule BY <2>4 DEF Completed
    <2> QED BY <2>1, <2>2, <2>3, <2>4
         DEF ProcessStep, Start, FindSchedule, LoadSchedule, CheckLease, AlarmRaised,
             ClaimNext, ClaimRefused, LoopEnds, Acquire, LeaseBusy, FillLease,
             EnterReads, Execute, ExecuteRaises, ExitReads, ReleaseReads,
             ReleaseUnlinks, Authorize, AuthorizeReads, Crash, Fails, CallFails,
             FillFails, ReadFails
  <1> QED BY <1>1, SchedulerInvariant, PTL DEF Spec, CompletedIsFinal

\* A run that a killed or failed process left active is never cleared, claimed
\* past or executed again: the schedule stays as it is for the operator.
THEOREM StrandedIsFinal == Spec => StrandedStays
  <1> DEFINE Stranded == schedule.active # NoRun /\ \A p \in Procs : pc[p] \notin Running
  <1>1. SchedulerInv /\ [Next]_vars => [Stranded => schedule' = schedule]_vars
    <2> SUFFICES ASSUME SchedulerInv, Next, Stranded
                 PROVE  schedule' = schedule
      OBVIOUS
    <2>1. PICK p \in Procs :
             \/ Start(p) \/ ProcessStep(p) \/ ExecuteRaises(p) \/ Crash(p)
             \/ Fails(p)
             \/ \E q \in Runs : Authorize(p, q)
      BY DEF Next
    <2>2. CASE CreateSchedule(p) \/ FillSchedule(p) \/ CreateFails(p)
      <3>1. schedule.file # "whole" => schedule.active = NoRun
        BY DEF SchedulerInv, FileFirst, Fresh
      <3>2. pc[p] = "fill_schedule" => schedule.file = "torn"
        BY DEF SchedulerInv, FileFirst
      <3> QED BY <2>2, <3>1, <3>2 DEF CreateSchedule, FillSchedule, CreateFails, Goto, Raise
    <2>3. CASE EnterWrites(p) \/ ExitWrites(p) \/ AuthorizeWrites(p) \/ WriteFails(p)
      <3>1. pc[p] \in Writing
        BY <2>3 DEF EnterWrites, ExitWrites, AuthorizeWrites, WriteFails, Goto, Writing
      <3> QED BY <3>1, AtWrite
    <2> QED BY <2>1, <2>2, <2>3
         DEF ProcessStep, Start, FindSchedule, LoadSchedule, CheckLease, AlarmRaised,
             ClaimNext, ClaimRefused, LoopEnds, Acquire, LeaseBusy, FillLease,
             EnterReads, Execute, ExecuteRaises, ExitReads, ReleaseReads,
             ReleaseUnlinks, Authorize, AuthorizeReads, Crash, Fails, CallFails,
             FillFails, ReadFails
  <1> QED BY <1>1, SchedulerInvariant, PTL DEF Spec, StrandedStays

=============================================================================
