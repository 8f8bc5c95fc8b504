------------------------ MODULE ActionJournalProofs ------------------------
(***************************************************************************)
(* Proofs about ActionJournal, for every set of attempts and of run ids,   *)
(* every plan, and every number of boot sessions and faults.               *)
(*                                                                         *)
(* JournalInv is inductive.  Each step is a step of one launcher, of one   *)
(* CLI process, of the recovery of one attempt, of the seal or of the host. *)
(* What an attempt says of itself (Own) depends on no other attempt; that  *)
(* the others are settled while one acts (QuietInv) stays so because being *)
(* settled depends on receipts only, which nobody but the attempt's        *)
(* launcher and its recovery write, and never on a process.                *)
(***************************************************************************)
EXTENDS ActionJournal, TLAPS

Own(a) == PlaceInv(a) /\ ReceiptInv(a) /\ RecoveryInv(a)

-----------------------------------------------------------------------------
(* When the scan takes an attempt for settled. *)

\* The blockers of a, without the probe of its process.
Settled(a) ==
    \/ recovery[a].stage = 3
    \/ /\ recovery[a].stage = 0
       /\ ~(a \in rejections /\ outcome[a].roster)
       /\ Owned(a) = {} \/ intents[a] # 0 \/ a \in rejections
       /\ intents[a] = 0 \/ a \in terminals
       /\ a \in terminals /\ outcome[a].started =>
             a \in markers /\ outcome[a].bound /\ outcome[a].closed

CodesSay(a) ==
    TypeOK /\ ReceiptInv(a) =>
        /\ Codes(a) = {} <=> Settled(a)
        /\ recovery[a].stage = 0 => (OrphanCodes(a) = {} <=> Settled(a))

CodesSayWhatIsSettled == \A a \in Attempts : CodesSay(a)

LEMMA CodesAre == CodesSayWhatIsSettled
  <1> SUFFICES ASSUME NEW a \in Attempts, ReceiptInv(a), TypeOK
               PROVE  /\ Codes(a) = {} <=> Settled(a)
                      /\ recovery[a].stage = 0 => (OrphanCodes(a) = {} <=> Settled(a))
    BY DEF CodesSayWhatIsSettled, CodesSay
  <1>1. OrphanCodes(a) = {} <=>
                /\ ~(a \in rejections /\ outcome[a].roster)
                /\ ~(a \in rejections /\ outcome[a].roster /\ Owned(a) # RunsOf(a))
                /\ ~(Owned(a) # {} /\ intents[a] = 0 /\ a \notin rejections)
                /\ ~(intents[a] # 0 /\ a \notin terminals)
                /\ ~(a \in markers /\ a \in terminals /\ ~outcome[a].bound)
                /\ ~(a \in terminals /\ outcome[a].started /\ ~(a \in markers /\ outcome[a].bound))
                /\ ~(a \in terminals /\ outcome[a].started /\ ~outcome[a].closed)
                /\ ~(a \in markers /\ Probe(a) = "exists")
    BY DEF OrphanCodes
  <1>2. a \in markers /\ Probe(a) = "exists" => a \notin terminals \/ ~outcome[a].closed
    BY DEF ReceiptInv, Probe
  <1>3. a \in markers => intents[a] # 0 /\ outcome[a].started
    BY DEF ReceiptInv
  <1>4. OrphanCodes(a) = {} <=>
                /\ ~(a \in rejections /\ outcome[a].roster)
                /\ Owned(a) = {} \/ intents[a] # 0 \/ a \in rejections
                /\ intents[a] = 0 \/ a \in terminals
                /\ a \in terminals /\ outcome[a].started =>
                     a \in markers /\ outcome[a].bound /\ outcome[a].closed
    BY <1>1, <1>2, <1>3
  <1>5. Codes(a) = {} <=> Settled(a)
    <2>1. recovery[a].stage \in 0 .. 3
      BY DEF TypeOK
    <2>2. Codes(a) = {} <=>
             recovery[a].stage = 3 \/ (OrphanCodes(a) = {} /\ ~(recovery[a].stage > 0))
      BY DEF Codes, Recovered
    <2> QED BY <1>4, <2>1, <2>2 DEF Settled
  <1>6. recovery[a].stage = 0 => (OrphanCodes(a) = {} <=> Settled(a))
    BY <1>4 DEF Settled
  <1> QED BY <1>5, <1>6

LEMMA CodesWillBe == CodesSayWhatIsSettled'
  BY CodesAre, PTL

-----------------------------------------------------------------------------
(* Types. *)

Outcomes ==
    [roster : BOOLEAN, owned : BOOLEAN, started : BOOLEAN,
     bound : BOOLEAN, closed : BOOLEAN, completed : BOOLEAN]

Places ==
    {"idle", "gate", "prepare", "fresh", "reserve", "recheck", "popen", "mark", "wait",
     "close", "report", "done", "dead"}

\* What a launcher leaves alone, and what it may do to the rest.
LauncherLeaves(a) ==
    /\ UNCHANGED <<plan, boot, recovery, seal, reused, recoverer, aggregates>>
    /\ torn' \in {torn, TRUE} /\ lock' \in {lock, a, Nobody}
    /\ faults' = faults \/ (faults < MaxFaults /\ faults' = faults + 1)
    /\ markers' \in {markers, markers \cup {a}}
    /\ terminals' \in {terminals, terminals \cup {a}}
    /\ rejections' \in {rejections, rejections \cup {a}}
    /\ lost' \in {lost, lost \cup {a}}

LauncherWrites(a) ==
    /\ \E to \in Places : pc' = [pc EXCEPT ![a] = to]
    /\ \/ outcome' = outcome
       \/ \E o \in Outcomes : outcome' = [outcome EXCEPT ![a] = o]
    /\ \/ reserved' = reserved
       \/ \E r : reserved[r] = Nobody /\ reserved' = [reserved EXCEPT ![r] = a]
    /\ intents' = intents \/ intents' = [intents EXCEPT ![a] = boot]
    /\ \/ cli' = cli
       \/ \E v \in {"starting", "gone"} : cli' = [cli EXCEPT ![a] = v]
    /\ exit' = exit \/ exit' = [exit EXCEPT ![a] = "none"]

LEMMA LauncherChanges ==
    ASSUME TypeOK, NEW a \in Attempts, Launch(a)
    PROVE  LauncherLeaves(a) /\ LauncherWrites(a)
  <1> USE DEF Goto, Fault, NoFault, Set, receipts, processes, launching
  <1>1. /\ UNCHANGED <<plan, boot, recovery, seal, reused, recoverer, aggregates>>
        /\ torn' \in {torn, TRUE} /\ lock' \in {lock, a, Nobody}
        /\ faults' = faults \/ (faults < MaxFaults /\ faults' = faults + 1)
    <2>1. CASE Acquire(a) \/ PassGate(a) \/ RefuseGate(a) \/ Prepare(a) \/ CheckFresh(a)
      BY <2>1 DEF Acquire, PassGate, RefuseGate, Prepare, CheckFresh
    <2>2. CASE Reserve(a) \/ Intend(a)
      BY <2>2 DEF Reserve, Intend, Claim, WriteIntent
    <2>3. CASE Recheck(a) \/ Popen(a) \/ Mark(a)
      BY <2>3 DEF Recheck, Popen, Mark
    <2>4. CASE Wait(a) \/ Close(a) \/ Report(a)
      BY <2>4 DEF Wait, Close, Report
    <2> QED BY <2>1, <2>2, <2>3, <2>4 DEF Launch
  <1>2. /\ markers' \in {markers, markers \cup {a}}
        /\ terminals' \in {terminals, terminals \cup {a}}
        /\ rejections' \in {rejections, rejections \cup {a}}
        /\ lost' \in {lost, lost \cup {a}}
    <2>1. CASE Acquire(a) \/ PassGate(a) \/ RefuseGate(a) \/ Prepare(a) \/ CheckFresh(a)
      BY <2>1 DEF Acquire, PassGate, RefuseGate, Prepare, CheckFresh
    <2>2. CASE Reserve(a) \/ Intend(a)
      BY <2>2 DEF Reserve, Intend, Claim, WriteIntent
    <2>3. CASE Recheck(a) \/ Popen(a) \/ Mark(a)
      BY <2>3 DEF Recheck, Popen, Mark
    <2>4. CASE Wait(a) \/ Close(a) \/ Report(a)
      BY <2>4 DEF Wait, Close, Report
    <2> QED BY <2>1, <2>2, <2>3, <2>4 DEF Launch
  <1>3. \E to \in Places : pc' = [pc EXCEPT ![a] = to]
    <2> USE DEF Places
    <2>1. CASE Acquire(a) \/ PassGate(a) \/ RefuseGate(a) \/ Prepare(a) \/ CheckFresh(a)
      BY <2>1 DEF Acquire, PassGate, RefuseGate, Prepare, CheckFresh
    <2>2. CASE Reserve(a) \/ Intend(a)
      BY <2>2 DEF Reserve, Intend, Claim, WriteIntent
    <2>3. CASE Recheck(a) \/ Popen(a) \/ Mark(a)
      BY <2>3 DEF Recheck, Popen, Mark
    <2>4. CASE Wait(a) \/ Close(a) \/ Report(a)
      BY <2>4 DEF Wait, Close, Report
    <2> QED BY <2>1, <2>2, <2>3, <2>4 DEF Launch
  <1>4. \/ outcome' = outcome
        \/ \E o \in Outcomes : outcome' = [outcome EXCEPT ![a] = o]
    <2> outcome[a] \in Outcomes
      BY DEF TypeOK, Outcomes
    <2>5. \A f \in {"roster", "owned", "started", "bound", "closed", "completed"}, v \in BOOLEAN :
             [outcome[a] EXCEPT ![f] = v] \in Outcomes
      BY DEF Outcomes
    <2>6. [outcome[a] EXCEPT !.closed = TRUE, !.completed = FALSE] \in Outcomes
      BY DEF Outcomes
    <2>1. CASE UNCHANGED outcome
      BY <2>1
    <2>2. CASE \E f \in {"roster", "owned", "started", "bound", "closed", "completed"} : Set(a, f)
      BY <2>2, <2>5
    <2>3. CASE outcome' = [outcome EXCEPT ![a].closed = TRUE, ![a].completed = FALSE]
      BY <2>3, <2>6
    <2>4. CASE outcome' = [outcome EXCEPT ![a].completed = FALSE]
      <3>1. [outcome[a] EXCEPT !.completed = FALSE] \in Outcomes
        BY DEF Outcomes
      <3> QED BY <2>4, <3>1
    <2> HIDE DEF Set
    <2>7. \/ UNCHANGED outcome
          \/ \E f \in {"roster", "owned", "started", "bound", "closed", "completed"} : Set(a, f)
          \/ outcome' = [outcome EXCEPT ![a].closed = TRUE, ![a].completed = FALSE]
          \/ outcome' = [outcome EXCEPT ![a].completed = FALSE]
      <3>1. CASE Acquire(a) \/ PassGate(a) \/ RefuseGate(a) \/ Prepare(a) \/ CheckFresh(a)
        BY <3>1 DEF Acquire, PassGate, RefuseGate, Prepare, CheckFresh
      <3>2. CASE Reserve(a) \/ Intend(a)
        BY <3>2 DEF Reserve, Intend
      <3>3. CASE Recheck(a) \/ Popen(a) \/ Mark(a)
        BY <3>3 DEF Recheck, Popen, Mark
      <3>4. CASE Wait(a) \/ Close(a) \/ Report(a)
        BY <3>4 DEF Wait, Close, Report
      <3> QED BY <3>1, <3>2, <3>3, <3>4 DEF Launch
    <2> QED BY <2>1, <2>2, <2>3, <2>4, <2>7
  <1>5. /\ \/ reserved' = reserved
           \/ \E r : reserved[r] = Nobody /\ reserved' = [reserved EXCEPT ![r] = a]
        /\ intents' = intents \/ intents' = [intents EXCEPT ![a] = boot]
    <2>1. CASE Acquire(a) \/ PassGate(a) \/ RefuseGate(a) \/ Prepare(a) \/ CheckFresh(a)
      BY <2>1 DEF Acquire, PassGate, RefuseGate, Prepare, CheckFresh
    <2>2. CASE Reserve(a) \/ Intend(a)
      BY <2>2 DEF Reserve, Intend, Claim, WriteIntent
    <2>3. CASE Recheck(a) \/ Popen(a) \/ Mark(a)
      BY <2>3 DEF Recheck, Popen, Mark
    <2>4. CASE Wait(a) \/ Close(a) \/ Report(a)
      BY <2>4 DEF Wait, Close, Report
    <2> QED BY <2>1, <2>2, <2>3, <2>4 DEF Launch
  <1>6. /\ \/ cli' = cli
           \/ \E v \in {"starting", "gone"} : cli' = [cli EXCEPT ![a] = v]
        /\ exit' = exit \/ exit' = [exit EXCEPT ![a] = "none"]
    <2>1. CASE Acquire(a) \/ PassGate(a) \/ RefuseGate(a) \/ Prepare(a) \/ CheckFresh(a)
      BY <2>1 DEF Acquire, PassGate, RefuseGate, Prepare, CheckFresh
    <2>2. CASE Reserve(a) \/ Intend(a)
      BY <2>2 DEF Reserve, Intend, Claim, WriteIntent
    <2>3. CASE Recheck(a) \/ Popen(a) \/ Mark(a)
      BY <2>3 DEF Recheck, Popen, Mark
    <2>4. CASE Wait(a) \/ Close(a) \/ Report(a)
      BY <2>4 DEF Wait, Close, Report
    <2> QED BY <2>1, <2>2, <2>3, <2>4 DEF Launch
  <1> QED BY <1>1, <1>2, <1>3, <1>4, <1>5, <1>6 DEF LauncherLeaves, LauncherWrites

\* A function changed at one place only.
LEMMA Update ==
    ASSUME NEW S, NEW f \in [Attempts -> S], NEW g, NEW a \in Attempts, NEW v \in S,
           g = f \/ g = [f EXCEPT ![a] = v]
    PROVE  g \in [Attempts -> S] /\ \A b \in Attempts : b # a => g[b] = f[b]
  OBVIOUS

LEMMA LauncherTypes ==
    ASSUME TypeOK, NEW a \in Attempts, Launch(a)
    PROVE  TypeOK'
  <1>1. LauncherLeaves(a) /\ LauncherWrites(a)
    BY LauncherChanges
  <1>2. /\ lock' \in Attempts \cup {Recoverer, Sealer, Nobody}
        /\ plan' \in Plans /\ boot' \in 1 .. MaxBoots
        /\ markers' \cup terminals' \cup rejections' \cup aggregates' \subseteq Attempts
        /\ torn' \in BOOLEAN /\ seal' \in {"none", "rejections", "lineage"}
        /\ reused' \subseteq Attempts /\ lost' \subseteq Attempts
    BY <1>1 DEF TypeOK, LauncherLeaves
  <1>3. faults' \in 0 .. MaxFaults
    BY <1>1, JournalAssumption DEF TypeOK, LauncherLeaves
  <1>4. recovery' = recovery /\ recoverer' = recoverer
    BY <1>1 DEF LauncherLeaves
  <1>5. pc' \in [Attempts -> Places]
    BY <1>1, Update DEF TypeOK, LauncherWrites, Places
  <1>6. outcome' \in [Attempts -> Outcomes]
    <2>1. outcome \in [Attempts -> Outcomes]
      BY DEF TypeOK, Outcomes
    <2> QED BY <1>1, <2>1 DEF LauncherWrites
  <1>7. reserved' \in [Runs -> Attempts \cup {Nobody}]
    BY <1>1 DEF TypeOK, LauncherWrites
  <1>8. intents' \in [Attempts -> 0 .. MaxBoots]
    <2>1. boot \in 0 .. MaxBoots
      BY DEF TypeOK
    <2>2. intents \in [Attempts -> 0 .. MaxBoots]
      BY DEF TypeOK
    <2> QED BY <1>1, <2>1, <2>2 DEF LauncherWrites
  <1>9. cli' \in [Attempts -> {"none", "starting", "running", "lingering", "gone"}]
    BY <1>1 DEF TypeOK, LauncherWrites
  <1>10. exit' \in [Attempts -> {"none", "completed", "failed"}]
    BY <1>1 DEF TypeOK, LauncherWrites
  <1> QED BY <1>2, <1>3, <1>4, <1>5, <1>6, <1>7, <1>8, <1>9, <1>10
           DEF TypeOK, Places, Outcomes
\* What a process, or the host around attempt a, leaves alone.
HostLeaves(a) ==
    /\ UNCHANGED <<plan, outcome, lost, reserved, intents, markers, terminals, rejections,
                   recovery, seal, boot, recoverer>>
    /\ torn' \in {torn, TRUE} /\ aggregates' \in {aggregates, aggregates \cup {a}}
    /\ reused' \subseteq reused \cup {a}
    /\ faults' = faults \/ (faults < MaxFaults /\ faults' = faults + 1)
    /\ \/ pc' = pc /\ lock' = lock
       \/ Working(a) /\ pc' = [pc EXCEPT ![a] = "dead"] /\ lock' = Nobody
    /\ \/ cli' = cli
       \/ /\ Alive(a)
          /\ \E v \in {"running", "lingering", "gone"} : cli' = [cli EXCEPT ![a] = v]
    /\ \/ exit' = exit
       \/ \E v \in {"none", "completed", "failed"} : exit' = [exit EXCEPT ![a] = v]

LEMMA HostChanges ==
    ASSUME NEW a \in Attempts, Process(a) \/ Host(a)
    PROVE  HostLeaves(a)
  <1> USE DEF Fault, NoFault, receipts, processes, launching, HostLeaves
  <1>1. CASE CLICheck(a)
    BY <1>1 DEF CLICheck, Alive
  <1>2. CASE CLIAggregate(a)
    BY <1>2 DEF CLIAggregate
  <1>3. CASE CLIExit(a)
    BY <1>3 DEF CLIExit, Alive
  <1>4. CASE CLIEnd(a)
    BY <1>4 DEF CLIEnd, Alive
  <1>5. CASE Kill(a)
    BY <1>5 DEF Kill, Working
  <1>6. CASE ReusePid(a)
    BY <1>6 DEF ReusePid
  <1>7. CASE FreePid(a)
    BY <1>7 DEF FreePid
  <1> QED BY <1>1, <1>2, <1>3, <1>4, <1>5, <1>6, <1>7 DEF Process, Host

LEMMA HostTypes ==
    ASSUME TypeOK, NEW a \in Attempts, Process(a) \/ Host(a)
    PROVE  TypeOK'
  <1>1. HostLeaves(a)
    BY HostChanges
  <1>2. /\ lock' \in Attempts \cup {Recoverer, Sealer, Nobody}
        /\ markers' \cup terminals' \cup rejections' \cup aggregates' \subseteq Attempts
        /\ torn' \in BOOLEAN /\ reused' \subseteq Attempts /\ lost' \subseteq Attempts
    BY <1>1 DEF TypeOK, HostLeaves
  <1>3. faults' \in 0 .. MaxFaults
    BY <1>1, JournalAssumption DEF TypeOK, HostLeaves
  <1>4. pc' \in [Attempts -> Places]
    BY <1>1, Update DEF TypeOK, HostLeaves, Places
  <1>5. cli' \in [Attempts -> {"none", "starting", "running", "lingering", "gone"}]
    BY <1>1 DEF TypeOK, HostLeaves
  <1>6. exit' \in [Attempts -> {"none", "completed", "failed"}]
    BY <1>1 DEF TypeOK, HostLeaves
  <1>7. UNCHANGED <<plan, outcome, reserved, intents, recovery, seal, boot, recoverer>>
    BY <1>1 DEF HostLeaves
  <1> QED BY <1>2, <1>3, <1>4, <1>5, <1>6, <1>7 DEF TypeOK, Places

\* A recovery, or the seal, changes the lock, the recoverer, what it publishes
\* and nothing else.
Recovers == \E a \in Attempts, s \in Snapshots : Recover(a, s)

Bases == {"none", "pre_popen", "later_boot", "same_boot_absent"}
Branches == {"none", "definitely_not_started", "may_have_started"}

Stages == [stage : 0 .. 3, snapshot : Snapshots, branch : Branches, basis : Bases]

LEMMA StageOf ==
    ASSUME NEW n \in Stages, NEW b \in Bases, NEW branch \in Branches, NEW s \in Snapshots
    PROVE  /\ [stage |-> 1, branch |-> branch, basis |-> "none", snapshot |-> s] \in Stages
           /\ [n EXCEPT !.stage = 2, !.basis = b] \in Stages
           /\ [n EXCEPT !.stage = 3] \in Stages
  <1>1. [stage |-> 1, branch |-> branch, basis |-> "none", snapshot |-> s] \in Stages
    BY DEF Stages, Bases
  <1>2. [n EXCEPT !.stage = 2, !.basis = b] \in Stages
    <2>1. [n EXCEPT !.stage = 2] \in Stages
      BY DEF Stages
    <2>2. \A m \in Stages : [m EXCEPT !.basis = b] \in Stages
      BY DEF Stages
    <2>3. [n EXCEPT !.stage = 2, !.basis = b] = [[n EXCEPT !.stage = 2] EXCEPT !.basis = b]
      OBVIOUS
    <2> QED BY <2>1, <2>2, <2>3
  <1>3. [n EXCEPT !.stage = 3] \in Stages
    BY DEF Stages
  <1> QED BY <1>1, <1>2, <1>3

LEMMA PlansAre ==
    ASSUME TypeOK, NEW a \in Attempts
    PROVE  Branch(a) \in Branches /\ Basis(a) \in Bases
  <1>1. recovery[a].branch \in Branches
    BY DEF TypeOK, Branches
  <1> QED BY <1>1 DEF Branch, Basis, Branches, Bases

LEMMA RecoveryTypes ==
    ASSUME TypeOK, LockInv, Recovers \/ Repair \/ PublishStage \/ StopRecovery
    PROVE  TypeOK'
  <1> USE DEF Fault, NoFault, receipts, processes, launching
  <1>1. CASE Recovers
    <2>1. PICK a \in Attempts, s \in Snapshots : Recover(a, s)
      BY <1>1 DEF Recovers
    <2>2. Basis(a) \in Bases
      BY PlansAre
    <2>3. lock' = Recoverer /\ recoverer' = [at |-> "repair", of |-> a, basis |-> Basis(a), snapshot |-> s]
      BY <2>1 DEF Recover
    <2>4. recoverer' \in [at : {"idle", "repair", "stages"}, of : Attempts \cup {Nobody},
                          snapshot : Snapshots, basis : Bases]
      BY <2>2, <2>3
    <2>5. UNCHANGED <<launching, receipts, aggregates, processes, faults>>
      BY <2>1 DEF Recover
    <2> QED BY <2>3, <2>4, <2>5 DEF TypeOK, Bases
  <1>2. CASE Repair
    <2>1. recoverer.at = "repair" /\ recoverer.of \in Attempts
      BY <1>2 DEF Repair, LockInv
    <2>2. \/ reserved' = reserved
          \/ \E r : reserved' = [reserved EXCEPT ![r] = recoverer.of]
      BY <1>2 DEF Repair, Claim
    <2>3. reserved' \in [Runs -> Attempts \cup {Nobody}]
      BY <2>1, <2>2 DEF TypeOK
    <2>4. /\ lock' \in {lock, Nobody}
          /\ recoverer' \in {recoverer, Idle, [recoverer EXCEPT !.at = "stages"]}
      BY <1>2 DEF Repair, Abandon
    <2>5. recoverer' \in [at : {"idle", "repair", "stages"}, of : Attempts \cup {Nobody},
                          snapshot : Snapshots, basis : Bases]
      BY <2>4 DEF TypeOK, Idle, Snapshots, Bases
    <2>6. UNCHANGED <<launching, intents, markers, terminals, rejections, recovery, torn,
                      seal, aggregates, processes, faults>>
      BY <1>2 DEF Repair
    <2> QED BY <2>3, <2>4, <2>5, <2>6 DEF TypeOK, Bases
  <1>3. CASE PublishStage
    <2> DEFINE a == recoverer.of
               now == recovery[a]
    <2>1. a \in Attempts /\ now \in Stages /\ recoverer.snapshot \in Snapshots
          /\ recoverer.basis \in Bases /\ recovery \in [Attempts -> Stages]
      BY <1>3 DEF PublishStage, LockInv, TypeOK, Bases, Branches, Stages
    <2>2. Branch(a) \in Branches
      BY <2>1, PlansAre
    <2>3. /\ [stage |-> 1, branch |-> Branch(a), basis |-> "none",
              snapshot |-> recoverer.snapshot] \in Stages
          /\ [now EXCEPT !.stage = 2, !.basis = recoverer.basis] \in Stages
          /\ [now EXCEPT !.stage = 3] \in Stages
      <3> HIDE DEF a, now
      <3> QED BY <2>1, <2>2, StageOf
    <2>4. recovery' \in [Attempts -> Stages]
      <3>1. CASE UNCHANGED recovery
        BY <3>1, <2>1
      <3>2. CASE ~UNCHANGED recovery
        <4>1. now.stage \in {0, 1, 2}
          BY <1>3, <2>1, <3>2 DEF PublishStage, Stages
        <4>2. \E v \in Stages : recovery' = [recovery EXCEPT ![a] = v]
          BY <1>3, <2>1, <2>3, <3>2, <4>1 DEF PublishStage
        <4> QED BY <4>2, <2>1
      <3> QED BY <3>1, <3>2
    <2>5. lock' \in {lock, Nobody} /\ recoverer' \in {recoverer, Idle}
      BY <1>3 DEF PublishStage, Abandon
    <2>6. UNCHANGED <<launching, reserved, intents, markers, terminals, rejections, torn,
                      seal, aggregates, processes, faults>>
      BY <1>3 DEF PublishStage
    <2>7. Idle \in [at : {"idle", "repair", "stages"}, of : Attempts \cup {Nobody},
                    snapshot : Snapshots, basis : Bases]
      BY DEF Idle, Snapshots, Bases
    <2> HIDE DEF a, now
    <2> QED BY <2>4, <2>5, <2>6, <2>7 DEF TypeOK, Bases, Branches, Stages
  <1>4. CASE StopRecovery
    <2>1. /\ lock' = Nobody /\ recoverer' = Idle
          /\ torn' \in {torn, TRUE} /\ faults < MaxFaults /\ faults' = faults + 1
          /\ UNCHANGED <<launching, reserved, intents, markers, terminals, rejections, recovery,
                   seal, aggregates, processes>>
      BY <1>4 DEF StopRecovery, Abandon
    <2>2. faults' \in 0 .. MaxFaults
      BY <2>1, JournalAssumption DEF TypeOK
    <2>3. Idle \in [at : {"idle", "repair", "stages"}, of : Attempts \cup {Nobody},
                    snapshot : Snapshots, basis : Bases]
      BY DEF Idle, Snapshots, Bases
    <2> QED BY <2>1, <2>2, <2>3 DEF TypeOK, Bases
  <1> QED BY <1>1, <1>2, <1>3, <1>4

LEMMA SealTypes ==
    ASSUME TypeOK, BeginSeal \/ PublishSeal \/ Reboot \/ UNCHANGED vars
    PROVE  TypeOK'
  <1> USE DEF Fault, NoFault, receipts, processes, launching
  <1>1. CASE BeginSeal
    BY <1>1 DEF TypeOK, BeginSeal
  <1>2. CASE PublishSeal
    <2>1. /\ seal' \in {seal, "rejections", "lineage"} /\ lock' \in {lock, Nobody}
          /\ torn' \in {torn, TRUE}
          /\ faults' = faults \/ (faults < MaxFaults /\ faults' = faults + 1)
      BY <1>2 DEF PublishSeal
    <2>2. faults' \in 0 .. MaxFaults
      BY <2>1, JournalAssumption DEF TypeOK
    <2>3. UNCHANGED <<launching, reserved, intents, markers, terminals, rejections, recovery,
                   aggregates, processes, recoverer>>
      BY <1>2 DEF PublishSeal
    <2> QED BY <2>1, <2>2, <2>3 DEF TypeOK
  <1>3. CASE Reboot
    BY <1>3, JournalAssumption DEF TypeOK, Reboot, Idle, Snapshots
  <1>4. CASE UNCHANGED vars
    BY <1>4 DEF TypeOK, vars
  <1> QED BY <1>1, <1>2, <1>3, <1>4

-----------------------------------------------------------------------------
(* The invariant without the scan's codes. *)

\* There is something to recover.
Planned(a) ==
    \/ recovery[a].stage > 0
    \/ intents[a] = 0 /\ Owned(a) # {} /\ a \notin markers \cup terminals
    \/ intents[a] # 0 /\ ~Settled(a)

Stopped(a) == pc[a] \in {"done", "dead"} /\ ~Alive(a) /\ InJournal(a)

OwnCore(a) ==
    /\ PlaceInv(a) /\ ReceiptInv(a)
    /\ recovery[a].stage > 0 => Stopped(a)
    /\ recovery[a].stage = 0 <=> recovery[a].branch = "none"
    /\ recovery[a].branch = "definitely_not_started" => intents[a] = 0
    /\ recoverer.of = a => Stopped(a) /\ Planned(a)

QuietCore ==
    /\ \A a \in Attempts : Admitted(a) =>
          seal = "none" /\ \A b \in Attempts : b # a => Settled(b)
    /\ lock = Sealer \/ seal # "none" => \A b \in Attempts : Settled(b)
    /\ recoverer.at # "idle" => seal = "none"

JournalCore ==
    /\ TypeOK /\ LockInv /\ QuietCore
    /\ \A a \in Attempts : OwnCore(a)

CoreIsInv == JournalInv <=> JournalCore

LEMMA CoreIs == CoreIsInv
  <1>1. ASSUME TypeOK, NEW a \in Attempts, ReceiptInv(a),
               recovery[a].stage = 0 <=> recovery[a].branch = "none"
        PROVE  Branch(a) # "none" <=> Planned(a)
    <2>1. CodesSay(a) /\ recovery[a].stage \in 0 .. 3
      <3>1. recovery[a].stage \in 0 .. 3
        BY <1>1 DEF TypeOK
      <3> QED BY <3>1, CodesAre DEF CodesSayWhatIsSettled
    <2>2. Codes(a) = {} <=> Settled(a)
      BY <1>1, <2>1 DEF CodesSay
    <2>3. CASE recovery[a].stage > 0
      BY <2>3, <1>1, <2>1 DEF Branch, Planned
    <2>4. CASE recovery[a].stage = 0
      BY <2>4, <2>2 DEF Branch, Planned
    <2> QED BY <2>1, <2>3, <2>4
  <1>2. ASSUME TypeOK, NEW a \in Attempts
        PROVE  Own(a) <=> OwnCore(a)
    BY <1>1, <1>2 DEF Own, OwnCore, RecoveryInv, Stopped
  <1>3. ASSUME TypeOK, \A a \in Attempts : OwnCore(a)
        PROVE  QuietInv <=> QuietCore
    <2>1. \A a \in Attempts : Codes(a) = {} <=> Settled(a)
      BY <1>3, CodesAre DEF CodesSayWhatIsSettled, CodesSay, OwnCore
    <2> QED BY <2>1 DEF QuietInv, QuietCore
  <1> QED BY <1>2, <1>3 DEF CoreIsInv, JournalInv, JournalCore, Own

LEMMA CoreWillBe == CoreIsInv'
  BY CoreIs, PTL

-----------------------------------------------------------------------------
(* What an attempt does not notice. *)

Same(b) ==
    /\ plan' = plan /\ boot' = boot
    /\ pc'[b] = pc[b] /\ outcome'[b] = outcome[b] /\ intents'[b] = intents[b]
    /\ recovery'[b] = recovery[b] /\ cli'[b] = cli[b] /\ Owned(b)' = Owned(b)
    /\ b \in markers' <=> b \in markers
    /\ b \in terminals' <=> b \in terminals
    /\ b \in rejections' <=> b \in rejections
    /\ b \in lost' <=> b \in lost
    /\ recoverer'.of = b => recoverer.of = b

LEMMA SameKeeps ==
    ASSUME NEW b \in Attempts, OwnCore(b), Same(b)
    PROVE  /\ OwnCore(b)'
           /\ Settled(b)' <=> Settled(b)
           /\ InJournal(b)' <=> InJournal(b)
           /\ Alive(b)' <=> Alive(b)
  <1>1. RunsOf(b)' = RunsOf(b)
    BY DEF Same, RunsOf
  <1>2. /\ Settled(b)' <=> Settled(b)
        /\ InJournal(b)' <=> InJournal(b)
        /\ Alive(b)' <=> Alive(b)
    BY DEF Same, Settled, InJournal, Alive
  <1>3. PlaceInv(b)'
    BY <1>2 DEF Same, OwnCore, PlaceInv
  <1>4. ReceiptInv(b)'
    BY <1>1, <1>2 DEF Same, OwnCore, ReceiptInv
  <1> QED BY <1>2, <1>3, <1>4 DEF Same, OwnCore, Stopped, Planned

\* A launcher takes nothing from the others.
LEMMA LauncherFrame ==
    ASSUME TypeOK, NEW a \in Attempts, Launch(a)
    PROVE  /\ \A b \in Attempts : b # a => Same(b)
           /\ Owned(a) \subseteq Owned(a)'
           /\ RunsOf(a)' = RunsOf(a)
  <1>1. LauncherLeaves(a) /\ LauncherWrites(a)
    BY LauncherChanges
  <1>2. /\ \A b \in Attempts : b # a => Owned(b)' = Owned(b)
        /\ Owned(a) \subseteq Owned(a)'
    <2>1. CASE reserved' = reserved
      BY <2>1 DEF Owned
    <2>2. ASSUME NEW r, reserved[r] = Nobody, reserved' = [reserved EXCEPT ![r] = a]
          PROVE  \A q \in Runs : reserved'[q] = IF q = r THEN a ELSE reserved[q]
      BY <2>2 DEF TypeOK
    <2>3. Nobody \notin Attempts
      BY JournalAssumption
    <2> QED BY <1>1, <2>1, <2>2, <2>3 DEF Owned, LauncherWrites
  <1>3. ASSUME NEW b \in Attempts, b # a
        PROVE  /\ pc'[b] = pc[b] /\ outcome'[b] = outcome[b] /\ intents'[b] = intents[b]
               /\ cli'[b] = cli[b]
    BY <1>1, <1>3 DEF LauncherWrites, TypeOK
  <1>4. RunsOf(a)' = RunsOf(a)
    BY <1>1 DEF LauncherLeaves, RunsOf
  <1> QED BY <1>1, <1>2, <1>3, <1>4 DEF Same, LauncherLeaves

\* What becomes of the outcome of a launcher.
Fields(a, roster, owned, started, bound, closed) ==
    /\ outcome'[a].roster = roster /\ outcome'[a].owned = owned
    /\ outcome'[a].started = started /\ outcome'[a].bound = bound
    /\ outcome'[a].closed = closed

LEMMA SetIs ==
    ASSUME TypeOK, NEW a \in Attempts
    PROVE  LET o == outcome[a]
           IN  /\ Set(a, "roster") => Fields(a, TRUE, o.owned, o.started, o.bound, o.closed)
               /\ Set(a, "owned") => Fields(a, o.roster, TRUE, o.started, o.bound, o.closed)
               /\ Set(a, "started") => Fields(a, o.roster, o.owned, TRUE, o.bound, o.closed)
               /\ Set(a, "bound") => Fields(a, o.roster, o.owned, o.started, TRUE, o.closed)
               /\ Set(a, "closed") => Fields(a, o.roster, o.owned, o.started, o.bound, TRUE)
               /\ Set(a, "completed") => Fields(a, o.roster, o.owned, o.started, o.bound, o.closed)
               /\ UNCHANGED outcome => Fields(a, o.roster, o.owned, o.started, o.bound, o.closed)
               /\ outcome' = [outcome EXCEPT ![a].closed = TRUE, ![a].completed = FALSE] =>
                    Fields(a, o.roster, o.owned, o.started, o.bound, TRUE)
               /\ outcome' = [outcome EXCEPT ![a].completed = FALSE] =>
                    Fields(a, o.roster, o.owned, o.started, o.bound, o.closed)
  BY DEF TypeOK, Set, Fields

\* A launcher keeps its own invariant.
LEMMA LauncherKeeps ==
    ASSUME TypeOK, LockInv, NEW a \in Attempts, OwnCore(a), Launch(a)
    PROVE  OwnCore(a)'
  <1> USE DEF Goto, receipts, processes, launching
  <1> DEFINE o == outcome[a]
  <1>a. /\ Owned(a) \subseteq Owned(a)' /\ RunsOf(a)' = RunsOf(a) /\ RunsOf(a) # {}
        /\ recoverer.of # a /\ recoverer' = recoverer
        /\ recovery' = recovery /\ boot' = boot /\ boot # 0
        /\ pc[a] \in Places /\ intents[a] \in Nat
    <2>1. recoverer.of # a
      <3>1. lock \in {a, Nobody}
        BY DEF LockInv, Working, Launch, Acquire, PassGate, RefuseGate, Prepare, CheckFresh,
           Reserve, Intend, Recheck, Popen, Mark, Wait, Close, Report
      <3>2. recoverer = Idle
        BY <3>1, JournalAssumption DEF LockInv
      <3> QED BY <3>2, JournalAssumption DEF Idle
    <2>2. RunsOf(a) # {}
      <3>1. plan[a] \in Seq(Runs) /\ plan[a] # <<>>
        BY JournalAssumption DEF TypeOK
      <3>2. 1 \in DOMAIN plan[a]
        BY <3>1
      <3> QED BY <3>2 DEF RunsOf, Range
    <2>3. recoverer' = recoverer /\ recovery' = recovery /\ boot' = boot
      BY LauncherChanges DEF LauncherLeaves
    <2>4. boot # 0 /\ pc[a] \in Places /\ intents[a] \in Nat
      BY DEF TypeOK, Places
    <2> QED BY <2>1, <2>2, <2>3, <2>4, LauncherFrame
  <1>1. CASE Acquire(a)
    BY <1>1, <1>a DEF TypeOK, Acquire, Set, OwnCore, PlaceInv, ReceiptInv, Stopped,
          Alive, InJournal, Owned
  <1>2. CASE PassGate(a)
    BY <1>2, <1>a DEF TypeOK, PassGate, Set, OwnCore, PlaceInv, ReceiptInv, Stopped,
          Alive, InJournal, Owned
  <1>3. CASE RefuseGate(a)
    BY <1>3, <1>a DEF TypeOK, RefuseGate, Set, OwnCore, PlaceInv, ReceiptInv, Stopped,
          Alive, InJournal, Owned
  <1>4. CASE Prepare(a)
    <2>1. /\ pc[a] = "prepare"
          /\ \/ pc'[a] = "fresh" /\ Fields(a, TRUE, o.owned, o.started, o.bound, o.closed)
             \/ pc'[a] = "report" /\ Fields(a, o.roster, o.owned, o.started, o.bound, o.closed)
      BY <1>4, SetIs DEF TypeOK, Prepare
    <2>2. UNCHANGED <<markers, terminals, rejections, lost, cli, intents, reserved>>
      BY <1>4 DEF Prepare
    <2>3. Owned(a)' = Owned(a)
      BY <2>2 DEF Owned
    <2> HIDE DEF o
    <2>4. PlaceInv(a)' /\ ReceiptInv(a)'
      BY <2>1, <2>2, <2>3, <1>a DEF Fields, OwnCore, PlaceInv, ReceiptInv, Stopped, Alive,
         InJournal, o
    <2> QED BY <2>1, <2>2, <2>3, <2>4, <1>a DEF OwnCore, PlaceInv, Stopped
  <1>5. CASE CheckFresh(a)
    BY <1>5, <1>a DEF TypeOK, CheckFresh, Set, OwnCore, PlaceInv, ReceiptInv, Stopped,
          Alive, InJournal, Owned
  <1>6. CASE Reserve(a)
    BY <1>6, <1>a DEF TypeOK, Reserve, Claim, Set, OwnCore, PlaceInv, ReceiptInv, Stopped,
          Alive, InJournal, Owned
  <1>7. CASE Intend(a)
    <2>1. /\ pc[a] = "reserve" /\ pc'[a] \in {"recheck", "report"}
          /\ RunsOf(a) \subseteq Owned(a)
          /\ \/ /\ Fields(a, o.roster, TRUE, o.started, o.bound, o.closed)
                /\ intents'[a] = boot
             \/ /\ Fields(a, o.roster, o.owned, o.started, o.bound, o.closed)
                /\ pc'[a] = "report" /\ intents'[a] \in {boot, intents[a]}
      <3>1. /\ pc[a] = "reserve" /\ pc'[a] \in {"recheck", "report"}
            /\ RunsOf(a) \subseteq Owned(a)
            /\ \/ Set(a, "owned") /\ WriteIntent(a)
               \/ pc'[a] = "report" /\ UNCHANGED outcome /\ (WriteIntent(a) \/ UNCHANGED intents)
        BY <1>7 DEF TypeOK, Intend
      <3>2. WriteIntent(a) => intents'[a] = boot
        BY DEF WriteIntent, TypeOK
      <3> QED BY <3>1, <3>2, SetIs
    <2>2. UNCHANGED <<markers, terminals, rejections, lost, cli, reserved>>
      BY <1>7 DEF Intend, WriteIntent
    <2>3. Owned(a)' = Owned(a)
      BY <2>2 DEF Owned
    <2> HIDE DEF o
    <2>4. PlaceInv(a)' /\ ReceiptInv(a)'
      BY <2>1, <2>2, <2>3, <1>a DEF Fields, OwnCore, PlaceInv, ReceiptInv, Stopped, Alive,
         InJournal, o
    <2> QED BY <2>1, <2>2, <2>3, <2>4, <1>a DEF OwnCore, PlaceInv, Stopped
  <1>8. CASE Recheck(a)
    BY <1>8, <1>a DEF TypeOK, Recheck, Set, OwnCore, PlaceInv, ReceiptInv, Stopped,
          Alive, InJournal, Owned
  <1>9. CASE Popen(a)
    <2>1. /\ pc[a] = "popen"
          /\ \/ /\ pc'[a] = "mark" /\ cli'[a] = "starting" /\ UNCHANGED lost
                /\ Fields(a, o.roster, o.owned, TRUE, o.bound, o.closed)
             \/ /\ pc'[a] = "report" /\ ((cli'[a] = cli[a] /\ UNCHANGED lost) \/ a \in lost')
                /\ cli'[a] \in {cli[a], "starting"}
                /\ Fields(a, o.roster, o.owned, o.started, o.bound, o.closed)
      <3>1. /\ pc[a] = "popen"
            /\ \/ /\ pc'[a] = "mark" /\ cli'[a] = "starting" /\ UNCHANGED lost
                  /\ Set(a, "started")
               \/ /\ pc'[a] = "report" /\ ((cli'[a] = cli[a] /\ UNCHANGED lost) \/ a \in lost')
                  /\ cli'[a] \in {cli[a], "starting"}
                  /\ UNCHANGED outcome
        BY <1>9 DEF TypeOK, Popen
      <3> QED BY <3>1, SetIs
    <2>2. UNCHANGED <<markers, terminals, rejections, intents, reserved>>
      BY <1>9 DEF Popen
    <2>3. Owned(a)' = Owned(a)
      BY <2>2 DEF Owned
    <2> HIDE DEF o
    <2>4. PlaceInv(a)' /\ ReceiptInv(a)'
      BY <2>1, <2>2, <2>3, <1>a DEF Fields, OwnCore, PlaceInv, ReceiptInv, Stopped, Alive,
         InJournal, o
    <2> QED BY <2>1, <2>2, <2>3, <2>4, <1>a DEF OwnCore, PlaceInv, Stopped
  <1>10. CASE Mark(a)
    <2>1. /\ pc[a] = "mark"
          /\ \/ /\ pc'[a] = "wait" /\ a \in markers'
                /\ Fields(a, o.roster, o.owned, o.started, TRUE, o.closed)
             \/ /\ pc'[a] = "close" /\ (a \in markers => a \in markers')
                /\ Fields(a, o.roster, o.owned, o.started, o.bound, o.closed)
      BY <1>10, SetIs DEF TypeOK, Mark
    <2>2. UNCHANGED <<terminals, rejections, lost, cli, intents, reserved>>
      BY <1>10 DEF Mark
    <2>3. Owned(a)' = Owned(a)
      BY <2>2 DEF Owned
    <2> HIDE DEF o
    <2>4. PlaceInv(a)' /\ ReceiptInv(a)'
      BY <2>1, <2>2, <2>3, <1>a DEF Fields, OwnCore, PlaceInv, ReceiptInv, Stopped, Alive,
         InJournal, o
    <2> QED BY <2>1, <2>2, <2>3, <2>4, <1>a DEF OwnCore, PlaceInv, Stopped
  <1>11. CASE Wait(a)
    <2>1. /\ pc[a] = "wait" /\ pc'[a] = "close"
          /\ Fields(a, o.roster, o.owned, o.started, o.bound, o.closed)
      BY <1>11, SetIs DEF TypeOK, Wait
    <2>2. UNCHANGED <<markers, terminals, rejections, lost, cli, intents, reserved>>
      BY <1>11 DEF Wait
    <2>3. Owned(a)' = Owned(a)
      BY <2>2 DEF Owned
    <2> HIDE DEF o
    <2>4. PlaceInv(a)' /\ ReceiptInv(a)'
      BY <2>1, <2>2, <2>3, <1>a DEF Fields, OwnCore, PlaceInv, ReceiptInv, Stopped, Alive,
         InJournal, o
    <2> QED BY <2>1, <2>2, <2>3, <2>4, <1>a DEF OwnCore, PlaceInv, Stopped
  <1>12. CASE Close(a)
    <2>1. /\ pc[a] = "close" /\ pc'[a] = "report"
          /\ \/ /\ Fields(a, o.roster, o.owned, o.started, o.bound, TRUE)
                /\ cli'[a] = "gone"
             \/ /\ Fields(a, o.roster, o.owned, o.started, o.bound, o.closed)
                /\ cli'[a] = cli[a]
      <3>1. /\ pc[a] = "close" /\ pc'[a] = "report"
            /\ \/ /\ cli'[a] = "gone"
                  /\ \/ Set(a, "closed")
                     \/ outcome' = [outcome EXCEPT ![a].closed = TRUE, ![a].completed = FALSE]
               \/ /\ cli'[a] = cli[a]
                  /\ outcome' = [outcome EXCEPT ![a].completed = FALSE]
        BY <1>12 DEF TypeOK, Close
      <3> QED BY <3>1, SetIs
    <2>2. UNCHANGED <<markers, terminals, rejections, lost, intents, reserved>>
      BY <1>12 DEF Close
    <2>3. Owned(a)' = Owned(a)
      BY <2>2 DEF Owned
    <2> HIDE DEF o
    <2>4. PlaceInv(a)' /\ ReceiptInv(a)'
      BY <2>1, <2>2, <2>3, <1>a DEF Fields, OwnCore, PlaceInv, ReceiptInv, Stopped, Alive,
         InJournal, o
    <2> QED BY <2>1, <2>2, <2>3, <2>4, <1>a DEF OwnCore, PlaceInv, Stopped
  <1>13. CASE Report(a)
    <2>1. /\ pc[a] = "report" /\ pc'[a] = "done"
          /\ a \in terminals' /\ a \notin terminals => o.owned
          /\ a \in rejections' /\ a \notin rejections => ~o.owned
      BY <1>13, SetIs DEF TypeOK, Report
    <2>2. UNCHANGED <<markers, lost, cli, intents, reserved, outcome>>
      BY <1>13 DEF Report
    <2>3. Owned(a)' = Owned(a)
      BY <2>2 DEF Owned
    <2> HIDE DEF o
    <2>4. PlaceInv(a)' /\ ReceiptInv(a)'
      BY <2>1, <2>2, <2>3, <1>a DEF Fields, OwnCore, PlaceInv, ReceiptInv, Stopped, Alive,
         InJournal, o
    <2> QED BY <2>1, <2>2, <2>3, <2>4, <1>a DEF OwnCore, PlaceInv, Stopped
  <1> QED BY <1>1, <1>2, <1>3, <1>4, <1>5, <1>6, <1>7, <1>8, <1>9, <1>10, <1>11, <1>12, <1>13 DEF Launch

\* What it does to the lock, and when it is admitted.
LEMMA LauncherLocks ==
    ASSUME TypeOK, LockInv, NEW a \in Attempts, Launch(a)
    PROVE  /\ lock = a \/ (lock = Nobody /\ ~Working(a))
           /\ (Working(a)' /\ lock' = a) \/ (~Working(a)' /\ lock' = Nobody)
           /\ Admitted(a)' => Admitted(a) \/ PassGate(a)
           /\ ~Admitted(a) /\ ~PassGate(a) =>
                 UNCHANGED <<outcome, receipts>>
  <1> USE DEF LockInv, Working, Admitted, Goto, receipts, launching, TypeOK
  <1>1. CASE Acquire(a) \/ PassGate(a) \/ RefuseGate(a)
    BY <1>1 DEF Acquire, PassGate, RefuseGate
  <1>2. CASE Prepare(a) \/ CheckFresh(a)
    BY <1>2 DEF Prepare, CheckFresh
  <1>3. CASE Reserve(a)
    BY <1>3 DEF Reserve
  <1>4. CASE Intend(a)
    BY <1>4 DEF Intend
  <1>5. CASE Recheck(a) \/ Popen(a)
    BY <1>5 DEF Recheck, Popen
  <1>6. CASE Mark(a) \/ Wait(a)
    BY <1>6 DEF Mark, Wait
  <1>7. CASE Close(a) \/ Report(a)
    BY <1>7 DEF Close, Report
  <1> QED BY <1>1, <1>2, <1>3, <1>4, <1>5, <1>6, <1>7 DEF Launch

\* What the scan says is what the invariant knows.
LEMMA ResolvedIsSettled ==
    ASSUME TypeOK, \A a \in Attempts : OwnCore(a), Resolved
    PROVE  \A a \in Attempts : Settled(a)
  BY CodesAre DEF CodesSayWhatIsSettled, CodesSay, OwnCore, Resolved

LEMMA LauncherStep ==
    ASSUME JournalCore, NEW a \in Attempts, Launch(a)
    PROVE  JournalCore'
  <1>1. TypeOK /\ LockInv /\ QuietCore /\ \A b \in Attempts : OwnCore(b)
    BY DEF JournalCore
  <1>2. TypeOK'
    BY <1>1, LauncherTypes
  <1>3. \A b \in Attempts : b # a => Same(b)
    BY <1>1, LauncherFrame
  <1>4. \A b \in Attempts : OwnCore(b)'
    BY <1>1, <1>3, LauncherKeeps, SameKeeps
  <1>5. /\ lock = a \/ (lock = Nobody /\ ~Working(a))
        /\ (Working(a)' /\ lock' = a) \/ (~Working(a)' /\ lock' = Nobody)
        /\ Admitted(a)' => Admitted(a) \/ PassGate(a)
        /\ ~Admitted(a) /\ ~PassGate(a) => UNCHANGED <<outcome, receipts>>
    BY <1>1, LauncherLocks
  <1>6. recoverer' = recoverer /\ seal' = seal
    BY <1>1, LauncherChanges DEF LauncherLeaves
  <1>7. LockInv'
    <2>1. \A b \in Attempts : b # a => (Working(b)' <=> Working(b))
      BY <1>3 DEF Same, Working
    <2> QED BY <1>1, <1>5, <1>6, <2>1, JournalAssumption DEF LockInv
  <1>8. QuietCore'
    <2>1. ASSUME NEW b \in Attempts, Admitted(b)'
          PROVE  seal' = "none" /\ \A c \in Attempts : c # b => Settled(c)'
      <3>1. b = a
        BY <1>5, <1>7, <2>1, JournalAssumption DEF LockInv, Admitted
      <3>2. seal = "none" /\ \A c \in Attempts : c # a => Settled(c)
        <4>1. CASE Admitted(a)
          BY <1>1, <4>1 DEF QuietCore
        <4>2. CASE PassGate(a)
          BY <1>1, <4>2, ResolvedIsSettled DEF PassGate, GateClear
        <4> QED BY <1>5, <2>1, <3>1, <4>1, <4>2
      <3> QED BY <1>1, <1>3, <1>6, <3>1, <3>2, SameKeeps
    <2>2. ASSUME lock' = Sealer \/ seal' # "none", NEW b \in Attempts
          PROVE  Settled(b)'
      <3>1. seal # "none"
        BY <1>5, <1>6, <2>2, JournalAssumption
      <3>2. ~Admitted(a) /\ ~PassGate(a)
        BY <1>1, <3>1 DEF QuietCore, PassGate, GateClear
      <3>3. Settled(b)
        BY <1>1, <3>1 DEF QuietCore
      <3> QED BY <1>5, <3>2, <3>3 DEF Settled, receipts, Owned
    <2>3. recoverer'.at # "idle" => seal' = "none"
      BY <1>1, <1>6 DEF QuietCore
    <2> QED BY <2>1, <2>2, <2>3 DEF QuietCore
  <1> QED BY <1>2, <1>4, <1>7, <1>8 DEF JournalCore

-----------------------------------------------------------------------------
(* The processes, the host, the recovery and the seal. *)

LEMMA HostStep ==
    ASSUME JournalCore, NEW a \in Attempts, Process(a) \/ Host(a)
    PROVE  JournalCore'
  <1>1. TypeOK /\ LockInv /\ QuietCore /\ \A b \in Attempts : OwnCore(b)
    BY DEF JournalCore
  <1>2. TypeOK'
    BY <1>1, HostTypes
  <1>3. HostLeaves(a)
    BY HostChanges
  <1>4. \A b \in Attempts :
           /\ Owned(b)' = Owned(b) /\ RunsOf(b)' = RunsOf(b)
           /\ InJournal(b)' <=> InJournal(b)
           /\ Settled(b)' <=> Settled(b)
    BY <1>3 DEF HostLeaves, Owned, RunsOf, InJournal, Settled
  <1>5. \A b \in Attempts : b # a => Same(b)
    BY <1>1, <1>3, <1>4 DEF HostLeaves, Same, TypeOK
  <1>6. OwnCore(a)'
    <2>1. pc'[a] = pc[a] \/ (Working(a) /\ pc'[a] = "dead")
      BY <1>1, <1>3 DEF HostLeaves, TypeOK
    <2>2. cli'[a] = cli[a] \/ (Alive(a) /\ cli'[a] \in {"running", "lingering", "gone"})
      BY <1>1, <1>3 DEF HostLeaves, TypeOK
    <2>3. UNCHANGED <<outcome, lost, intents, markers, terminals, rejections,
                      recovery, boot, recoverer>>
      BY <1>3 DEF HostLeaves
    <2>4. OwnCore(a)
      BY <1>1
    <2>5. PlaceInv(a)'
      BY <1>4, <2>1, <2>2, <2>3, <2>4 DEF OwnCore, PlaceInv, Alive
    <2>6. ReceiptInv(a)'
      BY <1>4, <2>1, <2>2, <2>3, <2>4 DEF OwnCore, ReceiptInv, Alive
    <2> QED BY <1>4, <2>1, <2>2, <2>3, <2>4, <2>5, <2>6
            DEF OwnCore, Stopped, Planned, Alive, Working
  <1>7. LockInv'
    <2>1. recoverer' = recoverer
      BY <1>3 DEF HostLeaves
    <2>2. CASE pc' = pc /\ lock' = lock
      BY <1>1, <2>1, <2>2 DEF LockInv, Working
    <2>3. CASE Working(a) /\ pc' = [pc EXCEPT ![a] = "dead"] /\ lock' = Nobody
      <3>1. lock = a
        BY <1>1, <2>3 DEF LockInv
      <3>2. \A b \in Attempts : ~Working(b)'
        BY <1>1, <2>3, <3>1 DEF LockInv, Working, TypeOK
      <3>3. recoverer.at = "idle"
        BY <1>1, <3>1, JournalAssumption DEF LockInv
      <3> QED BY <1>1, <2>1, <2>3, <3>2, <3>3, JournalAssumption DEF LockInv
    <2> QED BY <1>3, <2>2, <2>3 DEF HostLeaves
  <1>8. QuietCore'
    <2>1. \A b \in Attempts : Admitted(b)' => Admitted(b)
      BY <1>1, <1>3 DEF HostLeaves, Admitted, Working, TypeOK
    <2>2. lock' = Sealer => lock = Sealer
      BY <1>3, JournalAssumption DEF HostLeaves
    <2>3. recoverer' = recoverer /\ seal' = seal
      BY <1>3 DEF HostLeaves
    <2> QED BY <1>1, <1>4, <2>1, <2>2, <2>3 DEF QuietCore
  <1>9. \A b \in Attempts : OwnCore(b)'
    BY <1>1, <1>5, <1>6, SameKeeps
  <1> QED BY <1>2, <1>7, <1>8, <1>9 DEF JournalCore

\* A recovery is planned for an attempt that is not settled and whose process
\* never was, or is gone.
LEMMA RecoverKnows ==
    ASSUME JournalCore, NEW a \in Attempts, NEW s \in Snapshots, Recover(a, s)
    PROVE  Stopped(a) /\ Planned(a) /\ ~Settled(a)
  <1>1. TypeOK /\ LockInv /\ OwnCore(a)
    BY DEF JournalCore
  <1>2. /\ lock = Nobody /\ InJournal(a) /\ recovery[a].stage # 3
        /\ Basis(a) # "none" /\ Branch(a) # "none"
    BY DEF Recover, Recovered, Basis
  <1>3. recovery[a].stage \in 0 .. 3 /\ intents[a] \in 0 .. MaxBoots
    BY <1>1 DEF TypeOK
  <1>4. Planned(a)
    <2>1. CASE recovery[a].stage > 0
      BY <2>1 DEF Planned
    <2>2. CASE recovery[a].stage = 0
      <3>1. Codes(a) = {} <=> Settled(a)
        BY <1>1, CodesAre DEF CodesSayWhatIsSettled, CodesSay, OwnCore
      <3> QED BY <1>2, <2>2, <3>1 DEF Branch, Planned
    <2> QED BY <1>3, <2>1, <2>2
  <1>5. ~Settled(a)
    BY <1>1, <1>2, <1>3, <1>4 DEF Planned, Settled, OwnCore, PlaceInv
  <1>6. pc[a] \in {"done", "dead"}
    <2>1. ~Working(a)
      BY <1>1, <1>2, JournalAssumption DEF LockInv
    <2> QED BY <1>1, <1>2, <2>1 DEF Working, OwnCore, PlaceInv
  <1>7. ~Alive(a)
    <2>1. CASE Branch(a) = "definitely_not_started"
      <3>1. intents[a] = 0
        BY <1>1, <2>1 DEF Branch, OwnCore
      <3>2. cli[a] = "none"
        BY <1>1, <3>1 DEF OwnCore, ReceiptInv
      <3> QED BY <3>2 DEF Alive
    <2>2. CASE intents[a] < boot
      BY <1>1, <2>2 DEF OwnCore, ReceiptInv, TypeOK
    <2>3. CASE Probe(a) = "absent"
      BY <2>3 DEF Probe
    <2> QED BY <1>2, <2>1, <2>2, <2>3 DEF Basis
  <1> QED BY <1>2, <1>4, <1>5, <1>6, <1>7 DEF Stopped

\* While a recovery runs, no launcher is under way and nothing is sealed.
LEMMA RecoveryAlone ==
    ASSUME TypeOK, LockInv, QuietCore, recoverer.at # "idle"
    PROVE  /\ lock = Recoverer /\ seal = "none" /\ recoverer.of \in Attempts
           /\ \A a \in Attempts : ~Working(a)
  BY JournalAssumption DEF LockInv, QuietCore

LEMMA RecoverStep ==
    ASSUME JournalCore, NEW a \in Attempts, NEW s \in Snapshots, Recover(a, s)
    PROVE  JournalCore'
  <1>1. TypeOK /\ LockInv /\ QuietCore /\ \A b \in Attempts : OwnCore(b)
    BY DEF JournalCore
  <1>2. Stopped(a) /\ Planned(a) /\ ~Settled(a)
    BY RecoverKnows
  <1>3. TypeOK'
    BY <1>1, RecoveryTypes DEF Recovers
  <1>4. /\ lock = Nobody /\ lock' = Recoverer
        /\ recoverer'.at = "repair" /\ recoverer'.of = a
    BY DEF Recover
  <1>5. UNCHANGED <<launching, receipts, aggregates, processes>>
    BY DEF Recover
  <1>6. \A b \in Attempts :
           /\ PlaceInv(b)' <=> PlaceInv(b)
           /\ ReceiptInv(b)' <=> ReceiptInv(b)
           /\ Stopped(b)' <=> Stopped(b)
           /\ Planned(b)' <=> Planned(b)
           /\ Settled(b)' <=> Settled(b)
           /\ Working(b)' <=> Working(b)
           /\ recovery'[b] = recovery[b] /\ intents'[b] = intents[b]
    <2> USE <1>5 DEF launching, receipts, processes
    <2>1. \A b \in Attempts : /\ Owned(b)' = Owned(b) /\ RunsOf(b)' = RunsOf(b)
                              /\ Alive(b)' <=> Alive(b)
      BY DEF Owned, RunsOf, Alive
    <2>2. \A b \in Attempts : InJournal(b)' <=> InJournal(b)
      BY <2>1 DEF InJournal
    <2>3. \A b \in Attempts : PlaceInv(b)' <=> PlaceInv(b)
      BY <2>1, <2>2 DEF PlaceInv
    <2>4. \A b \in Attempts : ReceiptInv(b)' <=> ReceiptInv(b)
      BY <2>1 DEF ReceiptInv
    <2>5. \A b \in Attempts : Settled(b)' <=> Settled(b)
      BY <2>1 DEF Settled
    <2> QED BY <2>1, <2>2, <2>3, <2>4, <2>5 DEF Stopped, Planned, Working
  <1>7. \A b \in Attempts : OwnCore(b)'
    BY <1>1, <1>2, <1>4, <1>6 DEF OwnCore
  <1>8. \A b \in Attempts : ~Working(b)'
    BY <1>1, <1>4, <1>6, JournalAssumption DEF LockInv
  <1>9. LockInv'
    BY <1>4, <1>8, JournalAssumption DEF LockInv, Idle
  <1>10. QuietCore'
    <2>1. seal = "none" /\ seal' = "none"
      BY <1>1, <1>2, <1>5 DEF QuietCore, receipts
    <2> QED BY <1>4, <1>8, <2>1, JournalAssumption DEF QuietCore, Admitted
  <1> QED BY <1>3, <1>7, <1>9, <1>10 DEF JournalCore

\* A step of the recovery of a leaves the launchers, the processes and the
\* seal alone, and the receipts of the other attempts.
LEMMA RepairStep ==
    ASSUME JournalCore, NEW a \in Attempts, a = recoverer.of, Repair
    PROVE  JournalCore'
  <1>1. TypeOK /\ LockInv /\ QuietCore /\ \A b \in Attempts : OwnCore(b)
    BY DEF JournalCore
  <1>2. recoverer.at = "repair" /\ UNCHANGED <<launching, intents, markers, terminals,
           rejections, recovery, torn, seal, aggregates, processes, faults>>
    BY DEF Repair
  <1>3. /\ lock = Recoverer /\ seal = "none" /\ a \in Attempts
        /\ \A b \in Attempts : ~Working(b)
    BY <1>1, <1>2, RecoveryAlone
  <1>4. TypeOK'
    BY <1>1, RecoveryTypes
  <1>5. \/ reserved' = reserved
        \/ /\ \E r : reserved[r] = Nobody /\ reserved' = [reserved EXCEPT ![r] = a]
           /\ RunsOf(a) \ Owned(a) # {} /\ recovery[a].stage = 0
    BY DEF Repair, Claim
  <1>6. /\ \A b \in Attempts : b # a => Owned(b)' = Owned(b)
        /\ Owned(a) \subseteq Owned(a)'
        /\ Owned(a)' = Owned(a) \/ (RunsOf(a) \ Owned(a) # {} /\ recovery[a].stage = 0)
    <2>1. CASE reserved' = reserved
      BY <2>1 DEF Owned
    <2>2. ASSUME NEW r, reserved[r] = Nobody, reserved' = [reserved EXCEPT ![r] = a]
          PROVE  \A q \in Runs : reserved'[q] = IF q = r THEN a ELSE reserved[q]
      BY <1>1, <2>2 DEF TypeOK
    <2>3. Nobody \notin Attempts
      BY JournalAssumption
    <2> QED BY <1>3, <1>5, <2>1, <2>2, <2>3 DEF Owned
  <1>7. /\ \/ lock' = lock /\ recoverer' = recoverer
           \/ lock' = Nobody /\ recoverer' = Idle
           \/ lock' = lock /\ recoverer' = [recoverer EXCEPT !.at = "stages"]
    BY DEF Repair, Abandon
  <1>8. recoverer'.of = a \/ recoverer'.of = Nobody
    BY <1>1, <1>7 DEF Idle, TypeOK
  <1>9. \A b \in Attempts : b # a => Same(b)
    BY <1>2, <1>6, <1>8, JournalAssumption DEF Same, launching, processes
  <1>10. OwnCore(a)'
    <2>1. OwnCore(a) /\ Stopped(a) /\ Planned(a)
      BY <1>1, <1>3 DEF OwnCore
    <2>2. RunsOf(a)' = RunsOf(a) /\ (Alive(a)' <=> Alive(a))
      BY <1>2 DEF RunsOf, Alive, launching, processes
    <2>3. Owned(a)' = Owned(a) \/ (intents[a] = 0 /\ recovery[a].stage = 0)
      BY <1>6, <2>1 DEF OwnCore, ReceiptInv
    <2>4. Planned(a)' /\ (Owned(a)' # {} => outcome[a].roster)
      <3>1. CASE Owned(a)' = Owned(a)
        BY <1>2, <2>1, <3>1 DEF OwnCore, PlaceInv, Planned, Settled, launching, processes
      <3>2. CASE intents[a] = 0 /\ recovery[a].stage = 0
        BY <1>2, <1>6, <2>1, <3>2 DEF OwnCore, PlaceInv, Planned, launching, processes
      <3> QED BY <2>3, <3>1, <3>2
    <2>5. PlaceInv(a)'
      BY <1>2, <2>1, <2>4 DEF OwnCore, PlaceInv, Stopped, launching, processes
    <2>6. ReceiptInv(a)'
      BY <1>2, <1>6, <2>1, <2>2 DEF OwnCore, ReceiptInv, launching, processes
    <2>7. Stopped(a)'
      BY <1>2, <1>6, <2>1, <2>2 DEF Stopped, InJournal, launching
    <2> QED BY <1>2, <2>1, <2>4, <2>5, <2>6, <2>7 DEF OwnCore
  <1>11. \A b \in Attempts : ~Working(b)'
    BY <1>2, <1>3 DEF Working, launching
  <1>12. LockInv'
    BY <1>1, <1>2, <1>3, <1>7, <1>11, JournalAssumption DEF LockInv, Idle, TypeOK
  <1>13. QuietCore'
    BY <1>2, <1>3, <1>7, <1>11, JournalAssumption DEF QuietCore, Admitted
  <1>14. \A b \in Attempts : OwnCore(b)'
    BY <1>1, <1>9, <1>10, SameKeeps
  <1> QED BY <1>4, <1>12, <1>13, <1>14 DEF JournalCore

LEMMA StageStep ==
    ASSUME JournalCore, NEW a \in Attempts, a = recoverer.of, PublishStage
    PROVE  JournalCore'
  <1>1. TypeOK /\ LockInv /\ QuietCore /\ \A b \in Attempts : OwnCore(b)
    BY DEF JournalCore
  <1>2. recoverer.at = "stages" /\ UNCHANGED <<launching, reserved, intents, markers,
           terminals, rejections, torn, seal, aggregates, processes, faults>>
    BY DEF PublishStage
  <1>3. /\ lock = Recoverer /\ seal = "none" /\ a \in Attempts
        /\ \A b \in Attempts : ~Working(b)
    BY <1>1, <1>2, RecoveryAlone
  <1>4. TypeOK'
    BY <1>1, RecoveryTypes
  <1>5. \/ lock' = lock /\ recoverer' = recoverer
        \/ lock' = Nobody /\ recoverer' = Idle
    BY DEF PublishStage, Abandon
  <1>6. Stopped(a) /\ Planned(a) /\ OwnCore(a)
    BY <1>1, <1>3 DEF OwnCore
  <1>7. Branch(a) # "none"
    <2>1. Codes(a) = {} <=> Settled(a)
      BY <1>1, <1>3, CodesAre DEF CodesSayWhatIsSettled, CodesSay, OwnCore
    <2>2. recovery[a].stage \in 0 .. 3
      BY <1>1, <1>3 DEF TypeOK
    <2> QED BY <1>6, <2>1, <2>2 DEF Branch, Planned, OwnCore
  <1>8. \/ recovery' = recovery
        \/ /\ recovery[a].stage = 0
           /\ recovery' = [recovery EXCEPT ![a] =
                 [stage |-> 1, branch |-> Branch(a), basis |-> "none",
                  snapshot |-> recoverer.snapshot]]
        \/ /\ recovery[a].stage = 1
           /\ recovery' = [recovery EXCEPT ![a] =
                 [recovery[a] EXCEPT !.stage = 2, !.basis = recoverer.basis]]
        \/ /\ recovery[a].stage = 2
           /\ recovery' = [recovery EXCEPT ![a] = [recovery[a] EXCEPT !.stage = 3]]
    <2>1. recovery[a].stage \in 0 .. 3
      BY <1>1, <1>3 DEF TypeOK
    <2> QED BY <2>1 DEF PublishStage
  <1>9. /\ \A b \in Attempts : b # a => recovery'[b] = recovery[b]
        /\ \/ recovery'[a] = recovery[a]
           \/ /\ recovery'[a].stage > 0
              /\ \/ recovery'[a].branch = recovery[a].branch /\ recovery[a].stage > 0
                 \/ recovery'[a].branch = Branch(a) /\ recovery[a].stage = 0
    <2>1. recovery \in [Attempts -> Stages]
      BY <1>1 DEF TypeOK, Stages, Branches, Bases
    <2>2. ASSUME NEW v, recovery' = [recovery EXCEPT ![a] = v]
          PROVE  recovery'[a] = v /\ \A b \in Attempts : b # a => recovery'[b] = recovery[b]
      BY <2>1, <2>2
    <2> DEFINE bound == [recovery[a] EXCEPT !.stage = 2, !.basis = recoverer.basis]
               ended == [recovery[a] EXCEPT !.stage = 3]
    <2>3. bound.stage = 2 /\ bound.branch = recovery[a].branch
      BY <2>1 DEF Stages
    <2>4. ended.stage = 3 /\ ended.branch = recovery[a].branch
      BY <2>1 DEF Stages
    <2>5. CASE recovery' = recovery
      BY <2>5
    <2>6. CASE recovery' # recovery
      <3>1. \E v : recovery' = [recovery EXCEPT ![a] = v]
        BY <1>8, <2>6
      <3>2. \A b \in Attempts : b # a => recovery'[b] = recovery[b]
        BY <2>2, <3>1
      <3>3. CASE recovery[a].stage = 0
        BY <1>8, <2>2, <2>6, <3>2, <3>3
      <3>4. CASE recovery[a].stage = 1
        <4>1. recovery' = [recovery EXCEPT ![a] = bound]
          BY <1>8, <2>6, <3>4
        <4> HIDE DEF bound
        <4>2. recovery'[a] = bound
          BY <2>2, <4>1
        <4> QED BY <2>3, <3>2, <3>4, <4>2
      <3>5. CASE recovery[a].stage = 2
        <4>1. recovery' = [recovery EXCEPT ![a] = ended]
          BY <1>8, <2>6, <3>5
        <4> HIDE DEF ended
        <4>2. recovery'[a] = ended
          BY <2>2, <4>1
        <4> QED BY <2>4, <3>2, <3>5, <4>2
      <3> QED BY <1>8, <2>6, <3>3, <3>4, <3>5
    <2> QED BY <2>5, <2>6
  <1>10. \A b \in Attempts :
           /\ Owned(b)' = Owned(b) /\ RunsOf(b)' = RunsOf(b)
           /\ Alive(b)' <=> Alive(b)
    BY <1>2 DEF Owned, RunsOf, Alive, launching, processes
  <1>11. \A b \in Attempts : b # a => Same(b)
    BY <1>2, <1>5, <1>9, <1>10, JournalAssumption DEF Same, Idle, launching, processes
  <1>12. OwnCore(a)'
    <2>1. Stopped(a)'
      BY <1>2, <1>6, <1>10, <1>3 DEF Stopped, InJournal, launching
    <2>2. PlaceInv(a)'
      BY <1>2, <1>3, <1>6, <1>10, <2>1 DEF OwnCore, PlaceInv, Stopped, launching, processes
    <2>3. ReceiptInv(a)'
      BY <1>2, <1>3, <1>6, <1>10 DEF OwnCore, ReceiptInv, launching, processes
    <2>4. Planned(a)'
      BY <1>2, <1>3, <1>6, <1>9, <1>10 DEF Planned, Settled, launching
    <2>5. /\ recovery'[a].stage = 0 <=> recovery'[a].branch = "none"
          /\ recovery'[a].branch = "definitely_not_started" => intents'[a] = 0
      BY <1>2, <1>6, <1>7, <1>9 DEF OwnCore, Branch
    <2> QED BY <2>1, <2>2, <2>3, <2>4, <2>5 DEF OwnCore
  <1>13. \A b \in Attempts : ~Working(b)'
    BY <1>2, <1>3 DEF Working, launching
  <1>14. LockInv'
    BY <1>1, <1>3, <1>5, <1>13, JournalAssumption DEF LockInv, Idle
  <1>15. QuietCore'
    BY <1>2, <1>3, <1>5, <1>13, JournalAssumption DEF QuietCore, Admitted
  <1>16. \A b \in Attempts : OwnCore(b)'
    BY <1>1, <1>11, <1>12, SameKeeps
  <1> QED BY <1>4, <1>14, <1>15, <1>16 DEF JournalCore

\* The recovery stops; a seal begins or goes on; the host reboots.
LEMMA OtherStep ==
    ASSUME JournalCore, StopRecovery \/ BeginSeal \/ PublishSeal \/ Reboot \/ UNCHANGED vars
    PROVE  JournalCore'
  <1>1. TypeOK /\ LockInv /\ QuietCore /\ \A b \in Attempts : OwnCore(b)
    BY DEF JournalCore
  <1>2. TypeOK'
    BY <1>1, RecoveryTypes, SealTypes
  <1>3. CASE StopRecovery
    <2>1. /\ lock' = Nobody /\ recoverer' = Idle /\ recoverer # Idle
          /\ UNCHANGED <<launching, reserved, intents, markers, terminals, rejections,
                         recovery, seal, aggregates, processes>>
      BY <1>3 DEF StopRecovery, Abandon
    <2>2. /\ seal = "none" /\ \A b \in Attempts : ~Working(b)
      BY <1>1, <2>1, RecoveryAlone DEF LockInv
    <2>3. \A b \in Attempts : Same(b)
      BY <2>1, JournalAssumption DEF Same, Idle, Owned, launching, processes
    <2>4. \A b \in Attempts : OwnCore(b)'
      BY <1>1, <2>3, SameKeeps
    <2>5. \A b \in Attempts : ~Working(b)'
      BY <2>1, <2>2 DEF Working, launching
    <2>6. LockInv'
      BY <2>1, <2>5, JournalAssumption DEF LockInv, Idle
    <2>7. QuietCore'
      BY <2>1, <2>2, <2>5, JournalAssumption DEF QuietCore, Admitted, Idle
    <2> QED BY <1>2, <2>4, <2>6, <2>7 DEF JournalCore
  <1>4. CASE BeginSeal \/ PublishSeal
    <2>1. /\ lock \in {Nobody, Sealer} /\ lock' \in {Nobody, Sealer}
          /\ seal' # seal => lock = Sealer
          /\ lock' = Sealer => lock = Sealer \/ Resolved
          /\ UNCHANGED <<launching, reserved, intents, markers, terminals, rejections,
                         recovery, aggregates, processes, recoverer>>
      BY <1>4 DEF BeginSeal, PublishSeal, receipts
    <2>2. \A b \in Attempts : ~Working(b)
      BY <1>1, <2>1, JournalAssumption DEF LockInv
    <2>3. \A b \in Attempts : Same(b)
      BY <2>1 DEF Same, Owned, launching, processes
    <2>4. \A b \in Attempts : OwnCore(b)' /\ (Settled(b)' <=> Settled(b))
      BY <1>1, <2>3, SameKeeps
    <2>5. \A b \in Attempts : ~Working(b)'
      BY <2>1, <2>2 DEF Working, launching
    <2>6. LockInv'
      BY <1>1, <2>1, <2>5, JournalAssumption DEF LockInv
    <2>7. lock' = Sealer \/ seal' # "none" => \A b \in Attempts : Settled(b)
      BY <1>1, <2>1, ResolvedIsSettled DEF QuietCore
    <2>8. recoverer'.at = "idle"
      BY <1>1, <2>1, JournalAssumption DEF LockInv
    <2>9. QuietCore'
      BY <2>4, <2>5, <2>7, <2>8 DEF QuietCore, Admitted
    <2> QED BY <1>2, <2>4, <2>6, <2>9 DEF JournalCore
  <1>5. CASE Reboot
    <2>1. /\ lock' = Nobody /\ recoverer' = Idle
          /\ UNCHANGED <<plan, outcome, lost, receipts, aggregates>>
      BY <1>5 DEF Reboot
    <2>2. \A b \in Attempts :
             /\ ~Working(b)' /\ ~Alive(b)'
             /\ pc'[b] = IF pc[b] \in {"idle", "done"} THEN pc[b] ELSE "dead"
             /\ cli'[b] = IF cli[b] = "none" THEN "none" ELSE "gone"
      BY <1>5 DEF Reboot, Working, Alive
    <2>3. \A b \in Attempts :
             /\ Owned(b)' = Owned(b) /\ RunsOf(b)' = RunsOf(b)
             /\ InJournal(b)' <=> InJournal(b)
             /\ Settled(b)' <=> Settled(b)
      BY <2>1 DEF Owned, RunsOf, InJournal, Settled, receipts
    <2>4. ASSUME NEW b \in Attempts
          PROVE  OwnCore(b)'
      <3>1. PlaceInv(b)'
        BY <1>1, <2>1, <2>2, <2>3 DEF OwnCore, PlaceInv, receipts
      <3>2. ReceiptInv(b)'
        BY <1>1, <2>1, <2>2, <2>3 DEF OwnCore, ReceiptInv, receipts
      <3>3. recovery'[b].stage > 0 => Stopped(b)'
        BY <1>1, <2>1, <2>2, <2>3 DEF OwnCore, Stopped, receipts
      <3> QED BY <1>1, <2>1, <3>1, <3>2, <3>3, JournalAssumption DEF OwnCore, Idle, receipts
    <2>5. LockInv'
      BY <2>1, <2>2, JournalAssumption DEF LockInv, Idle
    <2>6. QuietCore'
      BY <1>1, <2>1, <2>2, <2>3, JournalAssumption DEF QuietCore, Admitted, Idle, receipts
    <2> QED BY <1>2, <2>4, <2>5, <2>6 DEF JournalCore
  <1>6. CASE UNCHANGED vars
    <2>1. \A b \in Attempts : Same(b)
      BY <1>6 DEF vars, Same, Owned, launching, processes, receipts
    <2>2. \A b \in Attempts : OwnCore(b)' /\ (Settled(b)' <=> Settled(b))
      BY <1>1, <2>1, SameKeeps
    <2>3. LockInv' /\ QuietCore'
      BY <1>1, <1>6, <2>2 DEF LockInv, QuietCore, Admitted, Working, vars, launching, receipts
    <2> QED BY <1>2, <2>2, <2>3 DEF JournalCore
  <1> QED BY <1>3, <1>4, <1>5, <1>6

-----------------------------------------------------------------------------
(* The theorems. *)

LEMMA JournalStart ==
    ASSUME Init
    PROVE  JournalCore
  <1>1. TypeOK
    <2>1. NotRecovered \in Stages
      BY DEF NotRecovered, Stages, Snapshots, Branches, Bases
    <2>2. Nothing \in Outcomes
      BY DEF Nothing, Outcomes
    <2>3. Idle \in [at : {"idle", "repair", "stages"}, of : Attempts \cup {Nobody},
                    snapshot : Snapshots, basis : Bases]
      BY DEF Idle, Snapshots, Bases
    <2>4. /\ plan \in Plans /\ lock = Nobody /\ torn = FALSE /\ seal = "none"
          /\ boot = 1 /\ faults = 0 /\ boot \in 1 .. MaxBoots /\ faults \in 0 .. MaxFaults
          /\ markers = {} /\ terminals = {} /\ rejections = {} /\ aggregates = {}
          /\ reused = {} /\ lost = {} /\ recoverer = Idle
      BY JournalAssumption DEF Init
    <2>5. recovery \in [Attempts -> Stages] /\ outcome \in [Attempts -> Outcomes]
      BY <2>1, <2>2 DEF Init
    <2>6. /\ pc \in [Attempts -> Places] /\ intents \in [Attempts -> 0 .. MaxBoots]
          /\ reserved \in [Runs -> Attempts \cup {Nobody}]
          /\ cli \in [Attempts -> {"none", "starting", "running", "lingering", "gone"}]
          /\ exit \in [Attempts -> {"none", "completed", "failed"}]
      BY JournalAssumption DEF Init, Places
    <2> QED BY <2>3, <2>4, <2>5, <2>6 DEF TypeOK, Stages, Branches, Bases, Outcomes, Places
  <1>2. LockInv
    BY JournalAssumption DEF Init, LockInv, Idle, Working
  <1>3. \A a \in Attempts : Owned(a) = {}
    BY JournalAssumption DEF Init, Owned
  <1>4. \A a \in Attempts : OwnCore(a)
    BY <1>3, JournalAssumption DEF Init, OwnCore, PlaceInv, ReceiptInv, InJournal, Nothing,
       NotRecovered, Idle, Alive
  <1>5. QuietCore
    BY JournalAssumption DEF Init, QuietCore, Admitted, Working, Idle
  <1> QED BY <1>1, <1>2, <1>4, <1>5 DEF JournalCore

LEMMA JournalStep ==
    ASSUME JournalInv, [Next]_vars
    PROVE  JournalInv'
  <1>1. JournalCore
    BY CoreIs DEF CoreIsInv
  <1>2. SUFFICES JournalCore'
    BY CoreWillBe DEF CoreIsInv
  <1>3. CASE \E a \in Attempts : Launch(a)
    BY <1>1, <1>3, LauncherStep
  <1>4. CASE \E a \in Attempts : Process(a) \/ Host(a)
    BY <1>1, <1>4, HostStep
  <1>5. CASE \E a \in Attempts, s \in Snapshots : Recover(a, s)
    BY <1>1, <1>5, RecoverStep
  <1>6. CASE Repair \/ PublishStage
    <2>1. recoverer.of \in Attempts
      BY <1>1, <1>6 DEF JournalCore, LockInv, Repair, PublishStage
    <2> QED BY <1>1, <1>6, <2>1, RepairStep, StageStep
  <1>7. CASE StopRecovery \/ BeginSeal \/ PublishSeal \/ Reboot \/ UNCHANGED vars
    BY <1>1, <1>7, OtherStep
  <1> QED BY <1>3, <1>4, <1>5, <1>6, <1>7 DEF Next

\* The journal's types, who holds the lock and what place, receipts and
\* recovery of an attempt say of its process: always so, whatever fails.
THEOREM JournalInvariant == Spec => []JournalInv
  <1>1. Init => JournalInv
    BY JournalStart, CoreIs DEF CoreIsInv
  <1>2. JournalInv /\ [Next]_vars => JournalInv'
    BY JournalStep
  <1> QED BY <1>1, <1>2, PTL DEF Spec

\* A run id that two attempts name starts the process of one of them only
\* (_publish_global_remote_run_reservations is create-only).
THEOREM RunsStartOnce == Spec => []OneStartPerRun
  <1>1. JournalInv => OneStartPerRun
    BY DEF JournalInv, ReceiptInv, OneStartPerRun, Owned
  <1> QED BY <1>1, JournalInvariant, PTL

\* What rejections, terminals, recoveries and the seal say of processes is so.
THEOREM ReceiptsTellTheTruth == Spec => []ReceiptsAreTrue
  <1>1. ASSUME JournalCore, NEW a \in Attempts
        PROVE  /\ a \in rejections \/ recovery[a].branch = "definitely_not_started" =>
                     cli[a] = "none"
               /\ a \in terminals /\ ~outcome[a].started /\ a \notin lost => cli[a] = "none"
    BY <1>1 DEF JournalCore, OwnCore, ReceiptInv
  <1>2. ASSUME JournalCore, NEW a \in Attempts \ lost
        PROVE  /\ InJournal(a) /\ Codes(a) = {} => ~Alive(a)
               /\ seal # "none" /\ cli[a] # "none" =>
                     \/ Recovered(a)
                     \/ /\ a \in markers \cap terminals
                        /\ outcome[a].bound /\ outcome[a].closed
    <2>1. TypeOK /\ OwnCore(a) /\ QuietCore
      BY <1>2 DEF JournalCore
    <2>2. Codes(a) = {} <=> Settled(a)
      BY <2>1, CodesAre DEF CodesSayWhatIsSettled, CodesSay, OwnCore
    <2>3. Settled(a) /\ cli[a] # "none" =>
             \/ Recovered(a)
             \/ /\ a \in markers \cap terminals
                /\ outcome[a].bound /\ outcome[a].closed
      BY <2>1 DEF OwnCore, ReceiptInv, Settled, Recovered
    <2>4. Settled(a) => ~Alive(a)
      BY <2>1, <2>3 DEF OwnCore, ReceiptInv, Recovered, Stopped, Alive
    <2> QED BY <2>1, <2>2, <2>3, <2>4 DEF QuietCore
  <1>3. JournalInv => ReceiptsAreTrue
    BY <1>1, <1>2, CoreIs DEF CoreIsInv, ReceiptsAreTrue, UnstartedIsTrue, SettledIsQuiet
  <1> QED BY <1>3, JournalInvariant, PTL

\* Only Popen starts a process.
LEMMA OnlyPopenStarts ==
    ASSUME TypeOK, [Next]_vars
    PROVE  \A b \in Attempts : Alive(b)' => Alive(b) \/ Popen(b)
  <1> USE DEF Alive, launching, processes
  <1>1. ASSUME NEW a \in Attempts, Launch(a), ~Popen(a)
        PROVE  cli' = cli \/ cli' = [cli EXCEPT ![a] = "gone"]
    <2>1. CASE Acquire(a) \/ PassGate(a) \/ RefuseGate(a) \/ Prepare(a) \/ CheckFresh(a)
      BY <2>1 DEF Acquire, PassGate, RefuseGate, Prepare, CheckFresh
    <2>2. CASE Reserve(a) \/ Intend(a) \/ Recheck(a) \/ Mark(a)
      BY <2>2 DEF Reserve, Intend, Recheck, Mark
    <2>3. CASE Wait(a) \/ Close(a) \/ Report(a)
      BY <2>3 DEF Wait, Close, Report
    <2> QED BY <1>1, <2>1, <2>2, <2>3 DEF Launch
  <1>2. CASE \E a \in Attempts : Launch(a)
    <2>1. PICK a \in Attempts : Launch(a)
      BY <1>2
    <2>2. CASE Popen(a)
      BY <2>2 DEF Popen, TypeOK
    <2>3. CASE ~Popen(a)
      BY <1>1, <2>1, <2>3 DEF TypeOK
    <2> QED BY <2>2, <2>3
  <1>3. CASE \E a \in Attempts : Process(a) \/ Host(a)
    <2>1. PICK a \in Attempts : HostLeaves(a)
      BY <1>3, HostChanges
    <2> QED BY <2>1 DEF HostLeaves, TypeOK
  <1>4. CASE \E a \in Attempts, s \in Snapshots : Recover(a, s)
    BY <1>4 DEF Recover
  <1>5. CASE Repair \/ PublishStage \/ StopRecovery \/ BeginSeal \/ PublishSeal
    BY <1>5 DEF Repair, PublishStage, StopRecovery, BeginSeal, PublishSeal
  <1>6. CASE Reboot
    BY <1>6 DEF Reboot, TypeOK
  <1>7. CASE UNCHANGED vars
    BY <1>7 DEF vars
  <1> QED BY <1>2, <1>3, <1>4, <1>5, <1>6, <1>7 DEF Next

\* A process that Popen lost stays lost.
LEMMA LostStaysLost ==
    ASSUME TypeOK, [Next]_vars
    PROVE  lost \subseteq lost'
  <1> USE DEF launching
  <1>1. CASE \E a \in Attempts : Launch(a)
    BY <1>1, LauncherChanges DEF LauncherLeaves
  <1>2. CASE \E a \in Attempts : Process(a) \/ Host(a)
    BY <1>2, HostChanges DEF HostLeaves
  <1>3. CASE \E a \in Attempts, s \in Snapshots : Recover(a, s)
    BY <1>3 DEF Recover
  <1>4. CASE Repair \/ PublishStage \/ StopRecovery \/ BeginSeal \/ PublishSeal \/ Reboot
    BY <1>4 DEF Repair, PublishStage, StopRecovery, BeginSeal, PublishSeal, Reboot
  <1>5. CASE UNCHANGED vars
    BY <1>5 DEF vars
  <1> QED BY <1>1, <1>2, <1>3, <1>4, <1>5 DEF Next

LEMMA SettledIsGone ==
    ASSUME JournalCore, NEW a \in Attempts \ lost, Settled(a)
    PROVE  ~Alive(a)
  <1>1. OwnCore(a)
    BY DEF JournalCore
  <1>2. recovery[a].stage = 3 \/ cli[a] = "none" \/ outcome[a].closed
    BY <1>1 DEF OwnCore, ReceiptInv, Settled
  <1> QED BY <1>1, <1>2 DEF OwnCore, ReceiptInv, Stopped, Alive

\* Two paid processes never live at the same time: the gate opens only when
\* every other attempt is settled, and a settled attempt has no process left.
THEOREM OneActionLives == Spec => []OneLiveAction
  <1>1. Init => OneLiveAction
    BY DEF Init, OneLiveAction, Alive
  <1>2. ASSUME JournalInv, OneLiveAction, [Next]_vars
        PROVE  OneLiveAction'
    <2>1. JournalCore /\ TypeOK /\ QuietCore
      BY <1>2, CoreIs DEF CoreIsInv, JournalCore
    <2>2. lost \subseteq lost' /\ \A b \in Attempts : Alive(b)' => Alive(b) \/ Popen(b)
      BY <1>2, <2>1, OnlyPopenStarts, LostStaysLost
    <2>3. ASSUME NEW c \in Attempts, Popen(c), NEW b \in Attempts \ lost, b # c
          PROVE  ~Alive(b)
      <3>1. Admitted(c)
        BY <2>3 DEF Popen, Goto, Admitted, Working
      <3> QED BY <2>1, <2>3, <3>1, SettledIsGone DEF QuietCore
    <2>4. ASSUME NEW a \in Attempts \ lost', NEW b \in Attempts \ lost', Alive(a)', Alive(b)'
          PROVE  a = b
      <3>1. a \in Attempts \ lost /\ b \in Attempts \ lost
        BY <2>2
      <3>2. CASE \E c \in Attempts : Popen(c)
        <4>1. PICK c \in Attempts : Popen(c)
          BY <3>2
        <4>2. ASSUME NEW x \in Attempts \ lost, Alive(x)', x # c
              PROVE  FALSE
          <5>1. ~Alive(x) /\ Popen(x)
            BY <2>2, <2>3, <4>1, <4>2
          <5>2. lock = c /\ lock = x
            BY <2>1, <4>1, <5>1 DEF JournalCore, LockInv, Working, Popen, Goto
          <5> QED BY <4>2, <5>2
        <4> QED BY <2>4, <3>1, <4>2
      <3>3. CASE ~\E c \in Attempts : Popen(c)
        BY <1>2, <2>2, <2>4, <3>1, <3>3 DEF OneLiveAction
      <3> QED BY <3>2, <3>3
    <2> QED BY <2>4 DEF OneLiveAction
  <1> QED BY <1>1, <1>2, JournalInvariant, PTL DEF Spec

-----------------------------------------------------------------------------
(* The journal implements the gate. *)

Phase(a) ==
    IF ~InJournal(a) THEN "unknown" ELSE IF Settled(a) THEN "settled" ELSE "open"

PhasesAre ==
    JournalCore =>
        Gate!vars = <<[a \in Attempts |-> Phase(a)], seal # "none">>

LEMMA PhaseIs == PhasesAre
  <1>1. ASSUME JournalCore, NEW a \in Attempts
        PROVE  Codes(a) = {} <=> Settled(a)
    BY <1>1, CodesAre DEF CodesSayWhatIsSettled, CodesSay, JournalCore, OwnCore
  <1> QED BY <1>1 DEF PhasesAre, Gate!vars, Phase

LEMMA PhaseWillBe == PhasesAre'
  BY PhaseIs, PTL

\* What a step of the gate looks like: one attempt is opened or settled, while
\* no other is open, or nothing changes.
LEMMA GateMoves ==
    ASSUME JournalCore, JournalCore', NEW a \in Attempts, seal' = seal,
           \A b \in Attempts : b # a => Phase(b)' = Phase(b),
           \/ Phase(a)' = Phase(a)
           \/ /\ seal = "none" /\ Phase(a)' \in {"open", "settled"}
              /\ \/ Phase(a) = "open"
                 \/ Phase(a) = "unknown" /\ \A b \in Attempts : Phase(b) # "open"
    PROVE  [Gate!Next]_(Gate!vars)
  <1> DEFINE before == [b \in Attempts |-> Phase(b)]
             after == [b \in Attempts |-> Phase(b)']
  <1>1. Gate!vars = <<before, seal # "none">> /\ Gate!vars' = <<after, seal' # "none">>
    BY PhaseIs, PhaseWillBe DEF PhasesAre
  <1>2. CASE Phase(a)' = Phase(a)
    <2>1. before = after
      BY <1>2
    <2> QED BY <1>1, <2>1
  <1>3. CASE Phase(a)' # Phase(a)
    <2>1. after = [before EXCEPT ![a] = Phase(a)']
      OBVIOUS
    <2> QED BY <1>1, <1>3, <2>1 DEF Gate!Next, Gate!Open, Gate!Settle, Gate!vars
  <1> QED BY <1>2, <1>3

LEMMA PhaseKept ==
    ASSUME NEW a \in Attempts,
           UNCHANGED <<outcome, reserved, intents, markers, terminals, rejections, recovery>>
    PROVE  Phase(a)' = Phase(a)
  <1>1. Owned(a)' = Owned(a)
    BY DEF Owned
  <1> QED BY <1>1 DEF Phase, InJournal, Settled

\* Past the gate an attempt is not settled, and whoever recovers one finds it
\* open.
LEMMA AdmittedIsNotSettled ==
    ASSUME JournalCore, NEW a \in Attempts, Admitted(a)
    PROVE  Phase(a) # "settled"
  <1>1. OwnCore(a) /\ intents[a] \in Nat
    BY DEF JournalCore, TypeOK
  <1> QED BY <1>1 DEF OwnCore, PlaceInv, ReceiptInv, Admitted, Working, Phase, InJournal, Settled

LEMMA RecoveredWasOpen ==
    ASSUME JournalCore, NEW a \in Attempts, a = recoverer.of, recovery[a].stage # 3
    PROVE  Phase(a) = "open"
  <1>1. /\ OwnCore(a) /\ InJournal(a) /\ Planned(a)
        /\ recovery[a].stage \in 0 .. 3 /\ intents[a] \in Nat
    BY DEF JournalCore, OwnCore, Stopped, TypeOK
  <1>2. ~Settled(a)
    BY <1>1 DEF Settled, Planned, OwnCore, PlaceInv
  <1> QED BY <1>1, <1>2 DEF Phase

LEMMA LauncherGate ==
    ASSUME JournalCore, JournalCore', NEW a \in Attempts, Launch(a)
    PROVE  [Gate!Next]_(Gate!vars)
  <1>1. TypeOK /\ LockInv /\ QuietCore /\ \A b \in Attempts : OwnCore(b)
    BY DEF JournalCore
  <1>2. LauncherLeaves(a) /\ LauncherWrites(a)
    BY <1>1, LauncherChanges
  <1>3. \A b \in Attempts : b # a => Phase(b)' = Phase(b)
    BY <1>1, LauncherFrame, SameKeeps DEF Phase
  <1>4. CASE ~Admitted(a)
    <2>1. UNCHANGED <<outcome, receipts>>
      BY <1>1, <1>4, LauncherLocks DEF PassGate, receipts
    <2>2. Phase(a)' = Phase(a)
      BY <2>1, PhaseKept DEF receipts
    <2> QED BY <1>2, <1>3, <2>2, GateMoves DEF LauncherLeaves
  <1>5. CASE Admitted(a)
    <2>1. seal = "none" /\ \A b \in Attempts : b # a => Phase(b) # "open"
      BY <1>1, <1>5 DEF QuietCore, Phase
    <2>2. Phase(a) \in {"unknown", "open"}
      BY <1>5, AdmittedIsNotSettled DEF Phase
    <2>3. InJournal(a) => InJournal(a)'
      <3>1. Owned(a) \subseteq Owned(a)'
        BY <1>1, LauncherFrame
      <3>2. intents'[a] = intents[a] \/ intents'[a] # 0
        BY <1>1, <1>2 DEF LauncherWrites, TypeOK
      <3> QED BY <1>2, <3>1, <3>2 DEF InJournal, LauncherLeaves
    <2>4. Phase(a)' = Phase(a) \/ Phase(a)' \in {"open", "settled"}
      BY <2>2, <2>3 DEF Phase
    <2> QED BY <1>2, <1>3, <2>1, <2>2, <2>4, GateMoves DEF LauncherLeaves
  <1> QED BY <1>4, <1>5

LEMMA RecoveryGate ==
    ASSUME JournalCore, JournalCore', NEW a \in Attempts, a = recoverer.of,
           Repair \/ PublishStage
    PROVE  [Gate!Next]_(Gate!vars)
  <1>1. TypeOK /\ LockInv /\ QuietCore /\ OwnCore(a)
    BY DEF JournalCore
  <1>2. seal = "none" /\ seal' = "none"
    BY <1>1 DEF QuietCore, Repair, PublishStage
  <1>3. UNCHANGED <<outcome, intents, markers, terminals, rejections>>
    BY DEF Repair, PublishStage, launching
  <1>4. CASE recovery[a].stage = 3
    <2>1. UNCHANGED <<reserved, recovery>>
      BY <1>4 DEF Repair, PublishStage
    <2>2. \A b \in Attempts : Phase(b)' = Phase(b)
      BY <1>3, <2>1, PhaseKept
    <2> QED BY <1>2, <2>2, GateMoves
  <1>5. CASE recovery[a].stage # 3
    <2>1. Phase(a) = "open"
      BY <1>5, RecoveredWasOpen
    <2>2. /\ \A b \in Attempts : b # a =>
                Owned(b)' = Owned(b) /\ recovery'[b] = recovery[b]
          /\ Owned(a) \subseteq Owned(a)'
      <3>1. CASE Repair
        <4>1. UNCHANGED recovery
          BY <3>1 DEF Repair
        <4>2. \/ reserved' = reserved
              \/ \E r : reserved[r] = Nobody /\ reserved' = [reserved EXCEPT ![r] = a]
          BY <3>1 DEF Repair, Claim
        <4>3. ASSUME NEW r, reserved[r] = Nobody, reserved' = [reserved EXCEPT ![r] = a]
              PROVE  \A q \in Runs : reserved'[q] = IF q = r THEN a ELSE reserved[q]
          BY <1>1, <4>3 DEF TypeOK
        <4> QED BY <4>1, <4>2, <4>3, JournalAssumption DEF Owned
      <3>2. CASE PublishStage
        <4>1. UNCHANGED reserved
          BY <3>2 DEF PublishStage
        <4>2. recovery' = recovery \/ \E v : recovery' = [recovery EXCEPT ![a] = v]
          BY <3>2 DEF PublishStage
        <4> QED BY <1>1, <4>1, <4>2 DEF Owned, TypeOK
      <3> QED BY <3>1, <3>2
    <2>3. \A b \in Attempts : b # a => Phase(b)' = Phase(b)
      BY <1>3, <2>2 DEF Phase, InJournal, Settled
    <2>4. Phase(a)' \in {"open", "settled"}
      BY <1>3, <2>1, <2>2 DEF Phase, InJournal
    <2> QED BY <1>2, <2>1, <2>3, <2>4, GateMoves
  <1> QED BY <1>4, <1>5

\* What else moves no phase; the first step of the seal is the gate's.
LEMMA OtherGate ==
    ASSUME JournalCore, JournalCore', BeginSeal \/ PublishSeal
    PROVE  [Gate!Next]_(Gate!vars)
  <1>1. lock = Sealer \/ seal' = seal
    BY DEF BeginSeal, PublishSeal, receipts
  <1>2. \A b \in Attempts : Phase(b)' = Phase(b)
    BY PhaseKept DEF BeginSeal, PublishSeal, launching, receipts
  <1>3. /\ Gate!vars = <<[b \in Attempts |-> Phase(b)], seal # "none">>
        /\ Gate!vars' = <<[b \in Attempts |-> Phase(b)'], seal' # "none">>
    BY PhaseIs, PhaseWillBe DEF PhasesAre
  <1>4. [b \in Attempts |-> Phase(b)'] = [b \in Attempts |-> Phase(b)]
    BY <1>2
  <1>5. CASE seal' = seal
    BY <1>3, <1>4, <1>5
  <1>6. CASE seal' # seal
    <2>1. \A b \in Attempts : Phase(b) # "open"
      BY <1>1, <1>6 DEF JournalCore, QuietCore, Phase
    <2>2. seal' # "none"
      BY <1>6 DEF BeginSeal, PublishSeal, receipts
    <2> QED BY <1>3, <1>4, <2>1, <2>2 DEF Gate!Next, Gate!Seal, Gate!vars
  <1> QED BY <1>5, <1>6

\* The journal of receipts behaves like the gate: at most one attempt is open,
\* a settled one is never opened again, and nothing is opened after the seal.
THEOREM JournalIsAGate == Spec => ImplementsGate
  <1>1. Init => Gate!Init
    <2> SUFFICES ASSUME Init
                 PROVE  Gate!Init
      OBVIOUS
    <2>1. JournalCore
      BY JournalStart
    <2>2. \A a \in Attempts : Phase(a) = "unknown"
      BY JournalAssumption DEF Init, Phase, InJournal, Owned
    <2>3. seal = "none"
      BY DEF Init
    <2> QED BY <2>1, <2>2, <2>3, PhaseIs DEF PhasesAre, Gate!Init, Gate!vars
  <1>2. JournalInv /\ JournalInv' /\ [Next]_vars => [Gate!Next]_(Gate!vars)
    <2> SUFFICES ASSUME JournalInv, JournalInv', [Next]_vars
                 PROVE  [Gate!Next]_(Gate!vars)
      OBVIOUS
    <2>1. JournalCore /\ JournalCore'
      BY CoreIs, CoreWillBe DEF CoreIsInv
    <2>2. CASE \E a \in Attempts : Launch(a)
      BY <2>1, <2>2, LauncherGate
    <2>3. CASE Repair \/ PublishStage
      <3>1. recoverer.of \in Attempts
        BY <2>1, <2>3 DEF JournalCore, LockInv, Repair, PublishStage
      <3> QED BY <2>1, <2>3, <3>1, RecoveryGate
    <2>4. CASE BeginSeal \/ PublishSeal
      BY <2>1, <2>4, OtherGate
    <2>5. ASSUME UNCHANGED <<outcome, receipts>> \/
                 UNCHANGED <<outcome, reserved, intents, markers, terminals, rejections,
                             recovery, seal>>
          PROVE  [Gate!Next]_(Gate!vars)
      <3>1. seal' = seal /\ \A a \in Attempts : Phase(a)' = Phase(a)
        BY <2>5, PhaseKept DEF receipts
      <3>2. [a \in Attempts |-> Phase(a)'] = [a \in Attempts |-> Phase(a)]
        BY <3>1
      <3>3. /\ Gate!vars = <<[a \in Attempts |-> Phase(a)], seal # "none">>
            /\ Gate!vars' = <<[a \in Attempts |-> Phase(a)'], seal' # "none">>
        BY <2>1, PhaseIs, PhaseWillBe DEF PhasesAre
      <3> QED BY <3>1, <3>2, <3>3
    <2>6. CASE \E a \in Attempts : Process(a) \/ Host(a)
      BY <2>5, <2>6, HostChanges DEF HostLeaves
    <2>7. CASE \E a \in Attempts, s \in Snapshots : Recover(a, s)
      BY <2>5, <2>7 DEF Recover, launching
    <2>8. CASE StopRecovery \/ Reboot
      BY <2>5, <2>8 DEF StopRecovery, Reboot, launching
    <2>9. CASE UNCHANGED vars
      BY <2>5, <2>9 DEF vars, launching
    <2> QED BY <2>2, <2>3, <2>4, <2>6, <2>7, <2>8, <2>9 DEF Next
  <1> QED BY <1>1, <1>2, JournalInvariant, PTL DEF Spec, ImplementsGate, Gate!Spec

=============================================================================
