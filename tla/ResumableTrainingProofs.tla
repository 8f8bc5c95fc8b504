---------------------- MODULE ResumableTrainingProofs ----------------------
(***************************************************************************)
(* Proofs about ResumableTraining, for every number of trainers, steps,    *)
(* intervals, qualities and crashes:                                       *)
(*                                                                         *)
(*   TrainingTypes     the type invariant                                  *)
(*   CrashesInvisible  a success names, and its file is, the best step of  *)
(*                     a training that nothing interrupted                 *)
(*                                                                         *)
(* Both follow from TrainingInv: the checkpoints hold the best of the      *)
(* steps they cover, the best_checkpoint file is that of a training that   *)
(* came at least as far, and only the holder of a directory's lock writes  *)
(* in it.  The file may be ahead of the trainer that resumes; when that    *)
(* one completes, both have come to the last step.                         *)
(***************************************************************************)
EXTENDS ResumableTraining, SequenceTheorems, TLAPS

Events == [step : 0 .. MaxSteps, decision : Decisions]
Evaluated == {s \in 1 .. MaxSteps : Validated(s)}

-----------------------------------------------------------------------------
\* The evaluated steps are numbers, and so are their qualities.
LEMMA Evaluations ==
    ASSUME quality \in [Evaluated -> Qualities]
    PROVE  /\ DOMAIN quality = Evaluated
           /\ \A t \in DOMAIN quality : t \in 1 .. MaxSteps /\ t \in Nat /\ quality[t] \in Nat
  <1>1. DOMAIN quality = Evaluated /\ \A t \in Evaluated : quality[t] \in Qualities
    OBVIOUS
  <1>2. \A t \in Evaluated : t \in 1 .. MaxSteps
    BY DEF Evaluated
  <1>3. MaxSteps \in Nat /\ Qualities \subseteq Nat
    BY TrainingAssumption
  <1>4. \A t \in Evaluated : t \in Nat
    BY <1>2, <1>3
  <1>5. \A t \in Evaluated : quality[t] \in Nat
    BY <1>1, <1>3
  <1> QED BY <1>1, <1>2, <1>4, <1>5

\* Step 0 has nothing evaluated before it.
LEMMA NothingYet ==
    ASSUME quality \in [Evaluated -> Qualities]
    PROVE  IsBest(0, 0)
  <1>1. DOMAIN quality \subseteq 1 .. MaxSteps
    BY DEF Evaluated
  <1>2. MaxSteps \in Nat
    BY TrainingAssumption
  <1> QED BY <1>1, <1>2 DEF IsBest

\* checkpoint_is_better, step after step, keeps the best of the steps so far.
LEMMA BestOfOneMore ==
    ASSUME quality \in [Evaluated -> Qualities],
           NEW n \in 0 .. MaxSteps - 1, NEW b \in 0 .. MaxSteps, IsBest(b, n)
    PROVE  IsBest(IF Validated(n + 1) /\ Better(n + 1, b) THEN n + 1 ELSE b, n + 1)
  <1> DEFINE s == n + 1
             before == {t \in DOMAIN quality : t <= n}
             after == {t \in DOMAIN quality : t <= s}
  <1>1. MaxSteps \in Nat /\ Qualities \subseteq Nat /\ s \in 1 .. MaxSteps
    BY TrainingAssumption
  <1>2. \A t \in DOMAIN quality : t \in Nat /\ t > 0 /\ quality[t] \in Nat
    BY <1>1, Evaluations
  <1>3. s \in DOMAIN quality <=> Validated(s)
    BY <1>1, Evaluations DEF Evaluated
  <1>4. after = IF Validated(s) THEN before \union {s} ELSE before
    BY <1>1, <1>2, <1>3
  <1>5. CASE ~Validated(s)
    BY <1>4, <1>5 DEF IsBest
  <1>6. CASE Validated(s) /\ Better(s, b)
    <2>1. \A t \in before : quality[s] > quality[t]
      BY <1>2, <1>3, <1>6 DEF IsBest, Better
    <2>2. \A t \in after : quality[s] > quality[t] \/ (quality[s] = quality[t] /\ s <= t)
      BY <1>1, <1>2, <1>3, <1>4, <1>6, <2>1
    <2> QED BY <1>1, <1>3, <1>6, <2>2 DEF IsBest
  <1>7. CASE Validated(s) /\ ~Better(s, b)
    <2>1. b \in before
      BY <1>7 DEF IsBest, Better
    <2>2. quality[b] >= quality[s] /\ b <= s
      BY <1>1, <1>2, <1>3, <1>7, <2>1 DEF Better
    <2>3. \A t \in after : quality[b] > quality[t] \/ (quality[b] = quality[t] /\ b <= t)
      BY <1>1, <1>2, <1>3, <1>4, <1>7, <2>1, <2>2 DEF IsBest, Better
    <2> QED BY <1>4, <1>7, <2>1, <2>3 DEF IsBest
  <1> QED BY <1>5, <1>6, <1>7

\* There is one best of the steps up to a step.
LEMMA BestIsUnique ==
    ASSUME quality \in [Evaluated -> Qualities],
           NEW n, NEW a, NEW b, IsBest(a, n), IsBest(b, n)
    PROVE  a = b
  <1>1. \A t \in DOMAIN quality : t \in Nat /\ quality[t] \in Nat
    BY Evaluations
  <1> QED BY <1>1 DEF IsBest

\* Up to the last step, it is the best step of the training.
LEMMA BestOfAll ==
    ASSUME quality \in [Evaluated -> Qualities], NEW b, IsBest(b, MaxSteps)
    PROVE  b = BestOf
  <1>1. MaxSteps \in Nat \ {0} /\ Qualities \subseteq Nat
    BY TrainingAssumption
  <1>2. \A t \in DOMAIN quality : t \in Nat /\ t <= MaxSteps /\ quality[t] \in Nat
    BY <1>1, Evaluations
  <1>3. MaxSteps \in DOMAIN quality
    BY <1>1, Evaluations DEF Evaluated, Validated
  <1> DEFINE Top(s) == \A t \in DOMAIN quality :
                          quality[s] > quality[t] \/ (quality[s] = quality[t] /\ s <= t)
  <1>4. b \in DOMAIN quality /\ Top(b)
    BY <1>2, <1>3 DEF IsBest
  <1>5. BestOf \in DOMAIN quality /\ Top(BestOf)
    BY <1>4 DEF BestOf
  <1> QED BY <1>2, <1>4, <1>5

\* The file of a training that came to the last step is the best of all.
LEMMA FileIsBest ==
    ASSUME quality \in [Evaluated -> Qualities], NEW d,
           FileReaches(d, MaxSteps), dir[d].best # 0
    PROVE  dir[d].best = BestOf
  <1>1. MaxSteps \in Nat
    BY TrainingAssumption
  <1>2. IsBest(dir[d].best, MaxSteps)
    BY <1>1 DEF FileReaches
  <1> QED BY <1>2, BestOfAll

-----------------------------------------------------------------------------
\* What was the best is.
LEMMA BestStays ==
    ASSUME quality' = quality, NEW b, NEW n
    PROVE  IsBest(b, n)' <=> IsBest(b, n)
  BY DEF IsBest

\* A file that reached a step still does when it stays.
LEMMA FileStays ==
    ASSUME quality' = quality, NEW d, dir'[d].best = dir[d].best, NEW n
    PROVE  FileReaches(d, n)' <=> FileReaches(d, n)
  BY BestStays DEF FileReaches

LEMMA TypeInit == Init => TypeOK
  <1> SUFFICES ASSUME Init PROVE TypeOK
    OBVIOUS
  <1>1. MaxSteps \in Nat /\ 0 \in 0 .. MaxSteps
    BY TrainingAssumption
  <1>2. Unused \in Files /\ NoJob \in Jobs
    BY <1>1 DEF Unused, NoJob, Step0, Files, Jobs, Checkpoints, Decisions, Places
  <1> QED BY <1>2 DEF Init, TypeOK

\* Every step keeps the types.
LEMMA TypeStep == TypeOK /\ [Next]_vars => TypeOK'
  <1> SUFFICES ASSUME TypeOK, [Next]_vars PROVE TypeOK'
    OBVIOUS
  <1>1. MaxSteps \in Nat /\ 0 \in 0 .. MaxSteps
    BY TrainingAssumption
  <1>2. CASE UNCHANGED vars
    BY <1>2 DEF vars, TypeOK
  <1>3. ASSUME NEW p \in Trainers, Launch(p) \/ Stage(p) \/ Step(p) \/ Crash(p)
        PROVE  TypeOK'
    <2> DEFINE d == job[p].place
    <2>1. job[p] \in Jobs /\ d \in Places /\ dir[d] \in Files /\ dir["source"] \in Files
      BY DEF TypeOK, Jobs, Places
    <2>2. NoJob \in Jobs /\ Unused \in Files /\ Step0 \in Checkpoints
      BY <1>1 DEF Unused, NoJob, Step0, Files, Jobs, Checkpoints, Decisions, Places
    <2>3. CASE Launch(p)
      BY <2>1, <2>2, <2>3 DEF Launch, Goto, TypeOK, Jobs, Files
    <2>4. CASE Stage(p)
      <3> DEFINE source == dir["source"]
                 log == SubSeq(source.events, 1, source.partial.step)
                 staged == [Unused EXCEPT !.used = TRUE, !.latest = source.partial,
                                          !.partial = source.partial, !.events = log]
      <3>1. source.events \in Seq(Events) /\ source.partial \in Checkpoints
        BY <2>1 DEF Files, Events
      <3>2. source.partial.step \in 0 .. Len(source.events)
        BY <3>1, <2>4 DEF Stage, Checkpoints
      <3>3. log \in Seq(Events)
        BY <3>1, <3>2, SubSeqProperties
      <3>4. staged \in Files
        BY <2>2, <3>1, <3>3 DEF Files, Events
      <3>5. dir' = [dir EXCEPT !["attempt"] = staged]
        BY <2>4 DEF Stage
      <3> HIDE DEF staged
      <3>6. dir' \in [Places -> Files]
        BY <3>4, <3>5 DEF TypeOK
      <3> QED BY <2>2, <2>4, <3>6 DEF Stage, Goto, TypeOK, Jobs, Places
    <2>5. CASE Lock(p)
      BY <2>1, <2>5 DEF Lock, Goto, TypeOK
    <2>6. CASE OpenFresh(p)
      BY <2>1, <2>6 DEF OpenFresh, Goto, TypeOK, Files
    <2>7. CASE OpenRefused(p)
      BY <2>1, <2>2, <2>7 DEF OpenRefused, Leave, TypeOK
    <2>8. CASE OpenResume(p)
      BY <2>1, <2>8 DEF OpenResume, Goto, TypeOK, Restored, Jobs, Files, Checkpoints
    <2>9. CASE OpenWithout(p)
      BY <2>1, <2>2, <2>9 DEF OpenWithout, Fail, Leave, TypeOK, Files
    <2>10. CASE Train(p)
      <3> DEFINE s == job[p].step + 1
                 better == Validated(s) /\ Better(s, job[p].best)
                 best == IF better THEN s ELSE job[p].best
                 file == IF better THEN s ELSE dir[d].best
                 decision == IF better THEN "best_development" ELSE "none"
      <3>1. s \in 0 .. MaxSteps
        BY <1>1, <2>1, <2>10 DEF Train, Jobs
      <3>2. best \in 0 .. MaxSteps /\ file \in 0 .. MaxSteps /\ decision \in Decisions
        BY <2>1, <3>1 DEF Jobs, Files, Decisions
      <3>3. /\ job' = [job EXCEPT ![p].step = s, ![p].best = best, ![p].decision = decision]
            /\ dir' = [dir EXCEPT ![d].best = file]
            /\ pc' = [pc EXCEPT ![p] = "log"]
            /\ UNCHANGED <<quality, lock, crashes>>
        BY <2>10 DEF Train, Goto
      <3> HIDE DEF s, best, file, decision
      <3>4. job' \in [Trainers -> Jobs]
        BY <2>1, <3>1, <3>2, <3>3 DEF Jobs, TypeOK
      <3>5. dir' \in [Places -> Files]
        BY <2>1, <3>2, <3>3 DEF Files, TypeOK
      <3> QED BY <3>3, <3>4, <3>5 DEF TypeOK
    <2>11. CASE Log(p)
      <3> DEFINE event == [step |-> job[p].step, decision |-> job[p].decision]
                 log == Append(dir[d].events, event)
      <3>1. event \in Events /\ dir[d].events \in Seq(Events)
        BY <2>1 DEF Jobs, Files, Events
      <3>2. log \in Seq(Events)
        BY <3>1
      <3>3. dir' = [dir EXCEPT ![d].events = log]
        BY <2>11 DEF Log
      <3> HIDE DEF log
      <3>4. dir' \in [Places -> Files]
        BY <2>1, <3>2, <3>3 DEF Files, Events, TypeOK
      <3> QED BY <2>11, <3>4 DEF Log, Goto, TypeOK
    <2>12. CASE Checkpoint(p)
      BY <2>1, <2>12 DEF Checkpoint, Payload, Goto, TypeOK, Jobs, Files, Checkpoints
    <2>13. CASE Keep(p)
      BY <2>1, <2>13 DEF Keep, Payload, Goto, TypeOK, Jobs, Files, Checkpoints
    <2>14. CASE Attest(p)
      BY <2>1, <2>14 DEF Attest, TypeOK, Files
    <2>15. CASE Refuse(p)
      BY <2>1, <2>2, <2>15 DEF Refuse, Fail, Leave, TypeOK, Files
    <2>16. CASE Return(p)
      BY <2>1, <2>2, <2>16 DEF Return, Leave, TypeOK, Files
    <2>17. CASE Crash(p)
      BY <2>1, <2>2, <2>17 DEF Crash, Leave, TypeOK
    <2> QED BY <1>3, <2>3, <2>4, <2>5, <2>6, <2>7, <2>8, <2>9, <2>10, <2>11, <2>12,
               <2>13, <2>14, <2>15, <2>16, <2>17 DEF Step
  <1> QED BY <1>2, <1>3 DEF Next

-----------------------------------------------------------------------------
\* A trainer that does not step stays where it is, if its directory does.
LEMMA BystanderStays ==
    ASSUME NEW q \in Trainers, AtWork(q),
           quality' = quality, pc'[q] = pc[q], job'[q] = job[q],
           Inside(q) => /\ lock'[job[q].place] = lock[job[q].place]
                        /\ dir'[job[q].place] = dir[job[q].place],
           dir["attempt"].used => dir'["attempt"].used
    PROVE  AtWork(q)'
  <1>1. Working(q) => Inside(q)
    BY DEF Working, Inside
  <1>2. (Inside(q)' <=> Inside(q)) /\ (Working(q)' <=> Working(q))
    BY DEF Working, Inside
  <1>3. ASSUME Working(q)
        PROVE  IsBest(job[q].best, job[q].step)' /\ FileReaches(job[q].place, job[q].step)'
    <2>1. IsBest(job[q].best, job[q].step) /\ FileReaches(job[q].place, job[q].step)
      BY <1>3 DEF AtWork
    <2>2. IsBest(job[q].best, job[q].step)'
      BY <2>1 DEF IsBest
    <2>3. FileReaches(job[q].place, job[q].step)'
      BY <1>1, <1>3, <2>1 DEF FileReaches, IsBest
    <2> QED BY <2>2, <2>3
  <1>4. pc[q] = "return" => Inside(q)
    BY DEF Inside
  <1> QED BY <1>1, <1>2, <1>3, <1>4 DEF AtWork

\* A step of one trainer leaves the others where they are: it writes in the
\* directory whose lock it holds, or stages one that nobody came to.
LEMMA OthersStay ==
    ASSUME TypeOK, \A q \in Trainers : AtWork(q), NEW p \in Trainers,
           Launch(p) \/ Stage(p) \/ Step(p) \/ Crash(p)
    PROVE  /\ quality' = quality
           /\ \A q \in Trainers \ {p} : AtWork(q)'
  <1> DEFINE d == job[p].place
  <1>1. /\ quality' = quality
        /\ \A q \in Trainers \ {p} : pc'[q] = pc[q] /\ job'[q] = job[q]
    BY DEF TypeOK, Launch, Stage, Step, Crash, Lock, OpenFresh, OpenRefused, OpenResume,
           OpenWithout, Train, Log, Checkpoint, Keep, Attest, Refuse, Return, Fail, Leave, Goto
  <1>2. dir["attempt"].used => dir'["attempt"].used
    <2>1. d \in Places /\ "attempt" \in Places /\ dir \in [Places -> Files]
      BY DEF TypeOK, Jobs, Places
    <2>2. \A e \in Places : dir[e] \in Files
      BY <2>1
    <2>3. CASE Launch(p) \/ Lock(p) \/ OpenRefused(p) \/ OpenResume(p) \/ Crash(p)
      BY <2>3 DEF Launch, Lock, OpenRefused, OpenResume, Crash
    <2>4. CASE Stage(p)
      BY <2>1, <2>4 DEF Stage
    <2>5. CASE OpenFresh(p)
      BY <2>1, <2>2, <2>5 DEF OpenFresh, Files
    <2>6. CASE OpenWithout(p) \/ Refuse(p)
      <3>1. dir' = [dir EXCEPT ![d].used = TRUE, ![d].summary = "failure"]
        BY <2>6 DEF OpenWithout, Refuse, Fail
      <3> QED BY <2>1, <2>2, <3>1 DEF Files
    <2>7. CASE Train(p)
      BY <2>1, <2>2, <2>7 DEF Train, Files
    <2>8. CASE Log(p)
      BY <2>1, <2>2, <2>8 DEF Log, Files
    <2>9. CASE Checkpoint(p)
      BY <2>1, <2>2, <2>9 DEF Checkpoint, Files
    <2>10. CASE Keep(p)
      BY <2>1, <2>2, <2>10 DEF Keep, Files
    <2>11. CASE Attest(p)
      BY <2>1, <2>2, <2>11 DEF Attest, Files
    <2>12. CASE Return(p)
      BY <2>1, <2>2, <2>12 DEF Return, Files
    <2> QED BY <2>3, <2>4, <2>5, <2>6, <2>7, <2>8, <2>9, <2>10, <2>11, <2>12 DEF Step
  <1>3. ASSUME NEW q \in Trainers \ {p}, Inside(q)
        PROVE  lock'[job[q].place] = lock[job[q].place] /\ dir'[job[q].place] = dir[job[q].place]
    <2>1. lock[job[q].place] = q /\ q # p /\ q # Nobody
      BY <1>3, TrainingAssumption DEF AtWork
    <2>2. job[q].place \in Places /\ d \in Places
      BY DEF TypeOK, Jobs
    <2>3. Inside(p) => d # job[q].place
      BY <2>1 DEF AtWork
    <2>4. CASE Launch(p)
      BY <2>4 DEF Launch
    <2>5. CASE Stage(p)
      <3>1. job[q].place # "attempt"
        BY <1>3, <2>5 DEF Stage, AtWork, Inside
      <3> QED BY <2>2, <2>5, <3>1 DEF Stage, TypeOK
    <2>6. CASE Lock(p)
      BY <2>1, <2>2, <2>6 DEF Lock, Free, TypeOK
    <2>7. CASE Crash(p)
      BY <2>1, <2>2, <2>7 DEF Crash, Leave, TypeOK
    <2>8. CASE Step(p) /\ ~Lock(p)
      <3>1. Inside(p)
        BY <2>8 DEF Step, OpenFresh, OpenRefused, OpenResume, OpenWithout, Train, Log,
                    Checkpoint, Keep, Attest, Refuse, Return, Complete, Goto, At, Inside
      <3>2. lock'[job[q].place] = lock[job[q].place]
        BY <2>2, <2>3, <2>8, <3>1
           DEF TypeOK, Step, OpenFresh, OpenRefused, OpenResume, OpenWithout, Train, Log,
               Checkpoint, Keep, Attest, Refuse, Return, Fail, Leave
      <3>3. dir'[job[q].place] = dir[job[q].place]
        BY <2>2, <2>3, <2>8, <3>1
           DEF TypeOK, Step, OpenFresh, OpenRefused, OpenResume, OpenWithout, Train, Log,
               Checkpoint, Keep, Attest, Refuse, Return, Fail
      <3> QED BY <3>2, <3>3
    <2> QED BY <2>4, <2>5, <2>6, <2>7, <2>8
  <1> QED BY <1>1, <1>2, <1>3, BystanderStays

\* Whoever left the process is nowhere.
LEMMA IdleIsNowhere ==
    ASSUME TypeOK, NEW p \in Trainers, pc'[p] = "idle"
    PROVE  AtWork(p)'
  BY DEF AtWork, Inside, Working

\* A directory of which only a file that is no checkpoint changes.
LEMMA RetainedStays ==
    ASSUME NEW d, Retained(d), quality' = quality,
           dir'[d].latest = dir[d].latest, dir'[d].partial = dir[d].partial,
           dir'[d].best = dir[d].best, dir'[d].used \/ dir'[d] = dir[d]
    PROVE  Retained(d)'
  <1>1. /\ IsBest(dir[d].latest.best, dir[d].latest.step)'
        /\ IsBest(dir[d].partial.best, dir[d].partial.step)'
    BY DEF Retained, IsBest
  <1>2. FileReaches(d, dir[d].latest.step)'
    BY DEF Retained, FileReaches, IsBest
  <1> QED BY <1>1, <1>2 DEF Retained, Unused

LEMMA RetainedSame ==
    ASSUME NEW d, Retained(d), quality' = quality, dir'[d] = dir[d]
    PROVE  Retained(d)'
  BY RetainedStays

-----------------------------------------------------------------------------
\* What a step owes for the trainer that takes it and for the directories.
Owed(p) == /\ AtWork(p)'
           /\ \A d \in Places : Retained(d)'

\* What the steps start from.
Before(p) == /\ TypeOK
             /\ \A d \in Places : Retained(d)
             /\ AtWork(p)
             /\ quality' = quality

\* A launch touches no directory.
LEMMA LaunchOwes ==
    ASSUME NEW p \in Trainers, Before(p), Launch(p)
    PROVE  Owed(p)
  <1>1. pc'[p] = "lock" /\ job'[p].place = "source" /\ job'[p].step = 0 /\ job'[p].best = 0
    BY DEF Before, Launch, Goto, TypeOK, NoJob
  <1>2. AtWork(p)'
    BY <1>1 DEF AtWork, Inside, Working
  <1>3. \A d \in Places : Retained(d)'
    BY RetainedStays DEF Before, Launch
  <1> QED BY <1>2, <1>3 DEF Owed

\* A staged directory has a checkpoint of the source, and no best file.
LEMMA StageOwes ==
    ASSUME NEW p \in Trainers, Before(p), Stage(p)
    PROVE  Owed(p)
  <1> DEFINE kept == dir["source"].partial
  <1>1. "attempt" \in Places /\ "source" \in Places
    BY DEF Places
  <1>2. /\ dir'["attempt"].used /\ dir'["attempt"].best = 0
        /\ dir'["attempt"].latest = kept /\ dir'["attempt"].partial = kept
        /\ dir'["source"] = dir["source"]
    BY <1>1 DEF Before, Stage, TypeOK, Unused
  <1>3. IsBest(kept.best, kept.step)
    BY <1>1 DEF Before, Retained
  <1>4. Retained("attempt")'
    <2>1. IsBest(dir["attempt"].latest.best, dir["attempt"].latest.step)'
      BY <1>2, <1>3 DEF Before, IsBest
    <2> QED BY <1>2, <2>1 DEF Retained, FileReaches
  <1>5. Retained("source")'
    BY <1>1, <1>2, RetainedStays DEF Before
  <1>6. pc'[p] = "lock" /\ job'[p].step = 0 /\ job'[p].best = 0
    BY DEF Before, Stage, Goto, TypeOK, NoJob
  <1>7. AtWork(p)'
    BY <1>2, <1>6 DEF AtWork, Inside, Working
  <1> QED BY <1>4, <1>5, <1>7 DEF Owed, Places

\* With the lock it is inside.
LEMMA LockOwes ==
    ASSUME NEW p \in Trainers, Before(p), Lock(p)
    PROVE  Owed(p)
  <1>1. \A d \in Places : Retained(d)'
    BY RetainedStays DEF Before, Lock
  <1>2. AtWork(p)'
    BY DEF Before, Lock, Goto, TypeOK, Jobs, AtWork, Inside, Working
  <1> QED BY <1>1, <1>2 DEF Owed

\* Out of the directory, whatever summary was left in it.
LEMMA LeaveOwes ==
    ASSUME NEW p \in Trainers, Before(p),
           OpenRefused(p) \/ OpenWithout(p) \/ Refuse(p) \/ Return(p) \/ Crash(p)
    PROVE  Owed(p)
  <1> DEFINE d == job[p].place
  <1>1. d \in Places /\ dir \in [Places -> Files] /\ dir[d] \in Files
    BY DEF Before, TypeOK, Jobs
  <1>2. pc'[p] = "idle"
    BY DEF Before, TypeOK, OpenRefused, OpenWithout, Refuse, Return, Crash, Fail, Leave
  <1>3. CASE dir' = dir
    <2>1. \A e \in Places : Retained(e)'
      BY <1>3, RetainedStays DEF Before
    <2> QED BY <1>2, <2>1, IdleIsNowhere DEF Before, Owed
  <1>4. CASE OpenWithout(p) \/ Refuse(p)
    <2>1. dir' = [dir EXCEPT ![d].used = TRUE, ![d].summary = "failure"]
      BY <1>4 DEF OpenWithout, Refuse, Fail
    <2>2. ASSUME NEW e \in Places PROVE Retained(e)'
      <3>1. /\ dir'[e].latest = dir[e].latest /\ dir'[e].partial = dir[e].partial
            /\ dir'[e].best = dir[e].best /\ (dir'[e].used \/ dir'[e] = dir[e])
        BY <1>1, <2>1 DEF Files
      <3> QED BY <3>1, RetainedStays DEF Before
    <2> QED BY <1>2, <2>2, IdleIsNowhere DEF Before, Owed
  <1>5. CASE Return(p)
    <2>1. dir' = [dir EXCEPT ![d].summary = "success"]
      BY <1>5 DEF Return
    <2>2. dir[d].used
      BY <1>1, <1>5 DEF Return, Complete, At, Before, Retained, AtWork, Unused
    <2>3. ASSUME NEW e \in Places PROVE Retained(e)'
      <3>1. /\ dir'[e].latest = dir[e].latest /\ dir'[e].partial = dir[e].partial
            /\ dir'[e].best = dir[e].best /\ (dir'[e].used \/ dir'[e] = dir[e])
        BY <1>1, <2>1, <2>2 DEF Files
      <3> QED BY <3>1, RetainedStays DEF Before
    <2> QED BY <1>2, <2>3, IdleIsNowhere DEF Before, Owed
  <1> QED BY <1>3, <1>4, <1>5 DEF OpenRefused, Crash

-----------------------------------------------------------------------------
\* What holds of a trainer that works, and of its directory.
LEMMA WorkBefore ==
    ASSUME NEW p \in Trainers, Before(p), Working(p), NEW d, d = job[p].place
    PROVE  /\ MaxSteps \in Nat /\ quality \in [Evaluated -> Qualities]
           /\ d \in Places /\ dir \in [Places -> Files] /\ dir[d] \in Files
           /\ job \in [Trainers -> Jobs] /\ job[p] \in Jobs
           /\ dir[d].latest.step \in Nat /\ dir[d].latest.step <= job[p].step
           /\ job[p].step \in 0 .. MaxSteps
           /\ lock[d] = p /\ dir[d].used
           /\ IsBest(job[p].best, job[p].step) /\ FileReaches(d, job[p].step)
  <1>1. /\ quality \in [Evaluated -> Qualities] /\ dir \in [Places -> Files]
        /\ job \in [Trainers -> Jobs] /\ job[p] \in Jobs
    BY DEF Before, TypeOK, Evaluated
  <1>2. d \in Places /\ job[p].step \in 0 .. MaxSteps
    BY <1>1 DEF Jobs
  <1>3. dir[d] \in Files
    BY <1>1, <1>2
  <1>4. dir[d].latest \in Checkpoints
    BY <1>3 DEF Files
  <1>5. MaxSteps \in Nat /\ dir[d].latest.step \in Nat
    BY <1>4, TrainingAssumption DEF Checkpoints
  <1>6. Inside(p)
    BY DEF Inside, Working
  <1>7. /\ lock[d] = p /\ dir[d].used /\ dir[d].latest.step <= job[p].step
        /\ IsBest(job[p].best, job[p].step) /\ FileReaches(d, job[p].step)
    BY <1>6 DEF Before, AtWork
  <1> QED BY <1>1, <1>2, <1>3, <1>5, <1>7

\* What makes the trainer fit its directory again.
LEMMA WorkAfter ==
    ASSUME NEW p \in Trainers, NEW d, quality' = quality,
           pc'[p] \in {"train", "log", "checkpoint", "keep"},
           job'[p].place = d, lock'[d] = p, dir'[d].used,
           IsBest(job'[p].best, job'[p].step),
           dir'[d].best = 0 \/ \E m \in job'[p].step .. MaxSteps : IsBest(dir'[d].best, m),
           dir'[d].latest.step <= job'[p].step
    PROVE  AtWork(p)'
  <1>1. IsBest(job[p].best, job[p].step)' /\ FileReaches(job[p].place, job[p].step)'
    BY DEF IsBest, FileReaches
  <1> QED BY <1>1 DEF AtWork

\* What makes a directory that was written one that is retained.
LEMMA RetainedAfter ==
    ASSUME NEW d, quality' = quality, dir'[d].used,
           IsBest(dir'[d].latest.best, dir'[d].latest.step),
           IsBest(dir'[d].partial.best, dir'[d].partial.step),
           dir'[d].best = 0
             \/ \E m \in dir'[d].latest.step .. MaxSteps : IsBest(dir'[d].best, m)
    PROVE  Retained(d)'
  BY DEF Retained, IsBest, FileReaches

\* A fresh training has the empty directory for itself.
LEMMA OpenFreshOwes ==
    ASSUME NEW p \in Trainers, Before(p), OpenFresh(p)
    PROVE  Owed(p)
  <1> DEFINE d == job[p].place
  <1>1. d \in Places /\ dir \in [Places -> Files] /\ dir[d] = Unused
    BY DEF Before, TypeOK, Jobs, Retained, OpenFresh
  <1>2. dir'[d] = [Unused EXCEPT !.used = TRUE] /\ \A e \in Places \ {d} : dir'[e] = dir[e]
    BY <1>1 DEF OpenFresh
  <1>3. ASSUME NEW e \in Places PROVE Retained(e)'
    <2>1. /\ dir'[e].latest = dir[e].latest /\ dir'[e].partial = dir[e].partial
          /\ dir'[e].best = dir[e].best /\ (dir'[e].used \/ dir'[e] = dir[e])
      BY <1>1, <1>2 DEF Unused
    <2> QED BY <2>1, RetainedStays DEF Before
  <1>4. AtWork(p)'
    <2>1. /\ job'[p] = job[p] /\ job[p].step = 0 /\ job[p].best = 0 /\ pc'[p] = "train"
          /\ lock'[d] = p
      BY DEF Before, OpenFresh, Goto, AtWork, Inside, TypeOK
    <2>2. IsBest(0, 0)
      BY NothingYet DEF Before, TypeOK, Evaluated
    <2>3. dir'[d].best = 0 /\ dir'[d].latest.step = 0 /\ dir'[d].used
      BY <1>2 DEF Unused, Step0
    <2> QED BY <2>1, <2>2, <2>3, WorkAfter DEF Before
  <1> QED BY <1>3, <1>4 DEF Owed

\* A resumed one goes on from the best of the latest checkpoint.
LEMMA OpenResumeOwes ==
    ASSUME NEW p \in Trainers, Before(p), OpenResume(p)
    PROVE  Owed(p)
  <1> DEFINE d == job[p].place
  <1>1. \A e \in Places : Retained(e)'
    BY RetainedStays DEF Before, OpenResume
  <1>2. d \in Places /\ dir[d].latest \in Checkpoints /\ dir[d].used
    <2>1. d \in Places /\ dir[d] \in Files /\ dir[d] # Unused
      BY DEF Before, TypeOK, Jobs, OpenResume, Unused
    <2> QED BY <2>1 DEF Before, Retained, Files
  <1>3. /\ job'[p].place = d /\ job'[p].step = dir[d].latest.step
        /\ job'[p].best = dir[d].latest.best
        /\ pc'[p] = "train" /\ dir' = dir /\ lock' = lock
    BY DEF Before, OpenResume, Restored, Goto, TypeOK, Jobs
  <1>4. lock[d] = p
    BY DEF Before, AtWork, OpenResume, Goto, Inside
  <1>5. /\ IsBest(dir[d].latest.best, dir[d].latest.step)
        /\ FileReaches(d, dir[d].latest.step)
    BY <1>2 DEF Before, Retained
  <1>6. dir[d].latest.step <= dir[d].latest.step
    BY <1>2, TrainingAssumption DEF Checkpoints
  <1>7. AtWork(p)'
    BY <1>2, <1>3, <1>4, <1>5, <1>6, WorkAfter DEF Before, FileReaches
  <1> QED BY <1>1, <1>7 DEF Owed

\* A better step becomes the file; a worse one finds the file not behind.
LEMMA TrainOwes ==
    ASSUME NEW p \in Trainers, Before(p), Train(p)
    PROVE  Owed(p)
  <1> DEFINE d == job[p].place
             s == job[p].step + 1
             better == Validated(s) /\ Better(s, job[p].best)
             best == IF better THEN s ELSE job[p].best
             file == IF better THEN s ELSE dir[d].best
  <1>1. Working(p) /\ job[p].step < MaxSteps
    BY DEF Train, Goto, Working
  <1>2. /\ MaxSteps \in Nat /\ quality \in [Evaluated -> Qualities]
        /\ d \in Places /\ dir \in [Places -> Files] /\ dir[d] \in Files
        /\ dir[d].latest.step \in Nat /\ dir[d].latest.step <= job[p].step
        /\ job[p] \in Jobs /\ job[p].step \in 0 .. MaxSteps
        /\ lock[d] = p /\ dir[d].used
        /\ IsBest(job[p].best, job[p].step) /\ FileReaches(d, job[p].step)
    BY <1>1, WorkBefore
  <1>3. job[p].step \in 0 .. MaxSteps - 1 /\ job[p].best \in 0 .. MaxSteps
    BY <1>1, <1>2 DEF Jobs
  <1>4. /\ job'[p].place = d /\ job'[p].step = s /\ job'[p].best = best
        /\ dir' = [dir EXCEPT ![d].best = file]
        /\ pc'[p] = "log" /\ lock' = lock
    BY DEF Before, Train, Goto, TypeOK, Jobs
  <1>5. IsBest(best, s)
    BY <1>2, <1>3, BestOfOneMore
  <1>6. /\ dir'[d].latest = dir[d].latest /\ dir'[d].partial = dir[d].partial
        /\ dir'[d].used = dir[d].used /\ dir'[d].best = file
        /\ \A e \in Places \ {d} : dir'[e] = dir[e]
    BY <1>2, <1>4 DEF Files
  <1>7. file = 0 \/ \E m \in s .. MaxSteps : IsBest(file, m)
    <2>1. CASE better
      <3>1. s \in s .. MaxSteps
        BY <1>2, <1>3
      <3> QED BY <1>5, <2>1, <3>1
    <2>2. CASE ~better /\ dir[d].best # 0
      <3>1. PICK m \in job[p].step .. MaxSteps : IsBest(dir[d].best, m)
        BY <1>2, <2>2 DEF FileReaches
      <3>2. CASE m = job[p].step
        <4>1. dir[d].best = job[p].best
          BY <1>2, <3>1, <3>2, BestIsUnique
        <4>2. s \in s .. MaxSteps
          BY <1>2, <1>3
        <4> QED BY <1>5, <2>2, <4>1, <4>2
      <3>3. CASE m # job[p].step
        <4>1. m \in s .. MaxSteps
          BY <1>2, <3>3
        <4> QED BY <2>2, <3>1, <4>1
      <3> QED BY <3>2, <3>3
    <2> QED BY <2>1, <2>2
  <1>8. dir[d].latest.step <= s /\ s .. MaxSteps \subseteq dir[d].latest.step .. MaxSteps
    BY <1>2
  <1>9. AtWork(p)'
    <2> HIDE DEF d, s, best, file
    <2>1. dir'[d].best = 0 \/ \E m \in job'[p].step .. MaxSteps : IsBest(dir'[d].best, m)
      BY <1>4, <1>6, <1>7
    <2>2. IsBest(job'[p].best, job'[p].step) /\ dir'[d].latest.step <= job'[p].step
      BY <1>4, <1>5, <1>6, <1>8
    <2>3. job'[p].place = d /\ lock'[d] = p /\ dir'[d].used /\ pc'[p] = "log"
      BY <1>2, <1>4, <1>6
    <2> QED BY <2>1, <2>2, <2>3, WorkAfter DEF Before
  <1>10. ASSUME NEW e \in Places, e = d PROVE Retained(e)'
    <2>1. /\ IsBest(dir[d].latest.best, dir[d].latest.step)
          /\ IsBest(dir[d].partial.best, dir[d].partial.step)
      BY <1>2 DEF Before, Retained
    <2> HIDE DEF d, s, best, file
    <2>2. file = 0 \/ \E m \in dir[d].latest.step .. MaxSteps : IsBest(file, m)
      BY <1>7, <1>8
    <2> QED BY <1>2, <1>6, <1>10, <2>1, <2>2, RetainedAfter DEF Before
  <1>11. ASSUME NEW e \in Places \ {d} PROVE Retained(e)'
    BY <1>6, RetainedSame DEF Before
  <1> QED BY <1>9, <1>10, <1>11 DEF Owed

\* Nothing but the log of events.
LEMMA LogOwes ==
    ASSUME NEW p \in Trainers, Before(p), Log(p)
    PROVE  Owed(p)
  <1> DEFINE d == job[p].place
  <1>1. Working(p)
    BY DEF Log, Goto, Working
  <1>2. /\ d \in Places /\ dir \in [Places -> Files] /\ dir[d] \in Files
        /\ dir[d].latest.step <= job[p].step /\ lock[d] = p /\ dir[d].used
        /\ IsBest(job[p].best, job[p].step) /\ FileReaches(d, job[p].step)
    BY <1>1, WorkBefore
  <1>3. pc'[p] \in {"checkpoint", "train"} /\ job' = job /\ lock' = lock
    BY DEF Before, Log, Goto, TypeOK
  <1>4. /\ dir'[d].latest = dir[d].latest /\ dir'[d].partial = dir[d].partial
        /\ dir'[d].used = dir[d].used /\ dir'[d].best = dir[d].best
        /\ \A e \in Places \ {d} : dir'[e] = dir[e]
    BY <1>2 DEF Log, Files
  <1>5. AtWork(p)'
    BY <1>2, <1>3, <1>4, WorkAfter DEF Before, FileReaches
  <1>6. ASSUME NEW e \in Places PROVE Retained(e)'
    BY <1>2, <1>4, RetainedStays DEF Before
  <1> QED BY <1>5, <1>6 DEF Owed

\* What is checkpointed is what is in memory.
LEMMA CheckpointOwes ==
    ASSUME NEW p \in Trainers, Before(p), Checkpoint(p) \/ Keep(p)
    PROVE  Owed(p)
  <1> DEFINE d == job[p].place
             payload == Payload(p)
  <1>1. Working(p)
    BY DEF Checkpoint, Keep, Goto, Working
  <1>2. /\ d \in Places /\ dir \in [Places -> Files] /\ dir[d] \in Files
        /\ MaxSteps \in Nat /\ job[p].step \in 0 .. MaxSteps
        /\ dir[d].latest.step <= job[p].step /\ lock[d] = p /\ dir[d].used
        /\ IsBest(job[p].best, job[p].step) /\ FileReaches(d, job[p].step)
    BY <1>1, WorkBefore
  <1>3. pc'[p] \in {"keep", "train"} /\ job' = job /\ lock' = lock
    BY DEF Before, Checkpoint, Keep, Goto, TypeOK
  <1>4. /\ dir'[d].latest \in {dir[d].latest, payload}
        /\ dir'[d].partial \in {dir[d].partial, payload}
        /\ dir'[d].used = dir[d].used /\ dir'[d].best = dir[d].best
        /\ \A e \in Places \ {d} : dir'[e] = dir[e]
    <2>1. CASE Checkpoint(p)
      BY <1>2, <2>1 DEF Checkpoint, Files
    <2>2. CASE Keep(p)
      BY <1>2, <2>2 DEF Keep, Files
    <2> QED BY <2>1, <2>2
  <1>5. payload.step = job[p].step /\ payload.best = job[p].best
    BY DEF Payload
  <1> HIDE DEF payload
  <1>6. AtWork(p)'
    <2>1. dir'[d].latest.step <= job[p].step
      BY <1>2, <1>4, <1>5
    <2> QED BY <1>2, <1>3, <1>4, <2>1, WorkAfter DEF Before, FileReaches
  <1>7. ASSUME NEW e \in Places, e = d PROVE Retained(e)'
    <2>1. /\ IsBest(dir[d].latest.best, dir[d].latest.step)
          /\ IsBest(dir[d].partial.best, dir[d].partial.step)
          /\ FileReaches(d, dir[d].latest.step)
      BY <1>2 DEF Before, Retained
    <2>2. /\ IsBest(dir'[d].latest.best, dir'[d].latest.step)
          /\ IsBest(dir'[d].partial.best, dir'[d].partial.step)
      BY <1>2, <1>4, <1>5, <2>1
    <2>3. dir[d].best = 0 \/ \E m \in dir'[d].latest.step .. MaxSteps : IsBest(dir[d].best, m)
      BY <1>2, <1>4, <1>5, <2>1 DEF FileReaches
    <2> QED BY <1>2, <1>4, <1>7, <2>2, <2>3, RetainedAfter DEF Before
  <1>8. ASSUME NEW e \in Places \ {d} PROVE Retained(e)'
    BY <1>4, RetainedSame DEF Before
  <1> QED BY <1>6, <1>7, <1>8 DEF Owed

\* A resumed training that is complete has a best file to return.
LEMMA AttestOwes ==
    ASSUME NEW p \in Trainers, Before(p), Attest(p)
    PROVE  Owed(p)
  <1> DEFINE d == job[p].place
  <1>1. Working(p) /\ job[p].step = MaxSteps /\ dir[d].best # 0
    BY DEF Attest, Complete, At, Working
  <1>2. /\ d \in Places /\ dir \in [Places -> Files] /\ dir[d] \in Files
        /\ dir[d].latest.step <= job[p].step /\ lock[d] = p /\ dir[d].used
        /\ IsBest(job[p].best, job[p].step) /\ FileReaches(d, job[p].step)
    BY <1>1, WorkBefore
  <1>3. pc'[p] = "return" /\ job' = job /\ lock' = lock
    BY DEF Before, Attest, TypeOK
  <1>4. /\ dir'[d].latest = dir[d].latest /\ dir'[d].partial = dir[d].partial
        /\ dir'[d].used = dir[d].used /\ dir'[d].best = dir[d].best
        /\ \A e \in Places \ {d} : dir'[e] = dir[e]
    BY <1>2 DEF Attest, Files
  <1>5. AtWork(p)'
    <2>1. IsBest(job[p].best, job[p].step)'
      BY <1>2, <1>3 DEF Before, IsBest
    <2>2. \/ dir'[d].best = 0
          \/ \E m \in job[p].step .. MaxSteps : IsBest(dir'[d].best, m)
      BY <1>2, <1>4 DEF FileReaches
    <2>3. FileReaches(job[p].place, job[p].step)'
      BY <1>3, <2>2 DEF Before, IsBest, FileReaches
    <2> QED BY <1>1, <1>2, <1>3, <1>4, <2>1, <2>3 DEF AtWork
  <1>6. ASSUME NEW e \in Places PROVE Retained(e)'
    BY <1>2, <1>4, RetainedStays DEF Before
  <1> QED BY <1>5, <1>6 DEF Owed

-----------------------------------------------------------------------------
\* A success is returned at the last step, by the trainer whose directory it is.
LEMMA ReturnIsBest ==
    ASSUME NEW p \in Trainers, Before(p), Return(p), CrashInvisible
    PROVE  CrashInvisible'
  <1> DEFINE d == job[p].place
  <1>1. Working(p)
    BY DEF Return, Complete, At, Working
  <1>2. job[p].step = MaxSteps /\ dir[d].best # 0
    BY DEF Return, Complete, At, Before, AtWork
  <1>3. /\ quality \in [Evaluated -> Qualities]
        /\ IsBest(job[p].best, MaxSteps) /\ FileReaches(d, MaxSteps)
    BY <1>1, <1>2, WorkBefore
  <1>4. job[p].best = BestOf /\ dir[d].best = BestOf
    BY <1>2, <1>3, BestOfAll, FileIsBest
  <1>5. BestOf' = BestOf
    BY DEF Before, BestOf
  <1> QED BY <1>4, <1>5 DEF Return, CrashInvisible

\* No other step adds a result.
LEMMA ResultsStay ==
    ASSUME NEW p \in Trainers, CrashInvisible,
           Launch(p) \/ Stage(p) \/ (Step(p) /\ ~Return(p)) \/ Crash(p), quality' = quality
    PROVE  CrashInvisible'
  <1>1. results' = results
    BY DEF Launch, Stage, Step, Crash, Lock, OpenFresh, OpenRefused, OpenResume, OpenWithout,
           Train, Log, Checkpoint, Keep, Attest, Refuse, Fail
  <1>2. BestOf' = BestOf
    BY DEF BestOf
  <1> QED BY <1>1, <1>2 DEF CrashInvisible

LEMMA TrainingInvInit == Init => TrainingInv
  <1> SUFFICES ASSUME Init PROVE TrainingInv
    OBVIOUS
  <1>1. TypeOK
    BY TypeInit
  <1>2. IsBest(0, 0)
    BY <1>1, NothingYet DEF TypeOK, Evaluated
  <1>3. ASSUME NEW d \in Places PROVE Retained(d)
    BY <1>2, <1>3 DEF Init, Retained, Unused, Step0, FileReaches
  <1>4. ASSUME NEW p \in Trainers PROVE AtWork(p)
    BY <1>4 DEF Init, AtWork, Inside, Working
  <1> QED BY <1>1, <1>3, <1>4 DEF TrainingInv, Init, CrashInvisible

\* Every step keeps the invariant.
LEMMA TrainingInvStep == TrainingInv /\ [Next]_vars => TrainingInv'
  <1> SUFFICES ASSUME TrainingInv, [Next]_vars PROVE TrainingInv'
    OBVIOUS
  <1>1. TypeOK'
    BY TypeStep DEF TrainingInv
  <1>2. CASE UNCHANGED vars
    <2>1. \A q \in Trainers : AtWork(q)'
      BY <1>2, BystanderStays DEF TrainingInv, vars
    <2>2. \A d \in Places : Retained(d)'
      BY <1>2, RetainedStays DEF TrainingInv, vars
    <2>3. CrashInvisible'
      BY <1>2 DEF TrainingInv, vars, CrashInvisible, BestOf
    <2> QED BY <1>1, <2>1, <2>2, <2>3 DEF TrainingInv
  <1>3. ASSUME NEW p \in Trainers, Launch(p) \/ Stage(p) \/ Step(p) \/ Crash(p)
        PROVE  TrainingInv'
    <2>1. quality' = quality /\ \A q \in Trainers \ {p} : AtWork(q)'
      BY <1>3, OthersStay DEF TrainingInv
    <2>2. Before(p)
      BY <2>1 DEF TrainingInv, Before
    <2>3. Owed(p)
      BY <1>3, <2>2, LaunchOwes, StageOwes, LockOwes, LeaveOwes, OpenFreshOwes, OpenResumeOwes,
         TrainOwes, LogOwes, CheckpointOwes, AttestOwes DEF Step
    <2>4. CrashInvisible'
      BY <1>3, <2>1, <2>2, ReturnIsBest, ResultsStay DEF TrainingInv, Step
    <2> QED BY <1>1, <2>1, <2>3, <2>4 DEF TrainingInv, Owed
  <1> QED BY <1>2, <1>3 DEF Next

-----------------------------------------------------------------------------
\* The inductive invariant holds of every execution, whoever is killed.
THEOREM TrainingInvariant == Spec => []TrainingInv
  BY TrainingInvInit, TrainingInvStep, PTL DEF Spec

\* Types of the variables of the training.
THEOREM TrainingTypes == Spec => []TypeOK
  <1>1. TrainingInv => TypeOK
    BY DEF TrainingInv
  <1> QED BY <1>1, TrainingInvariant, PTL

\* However a training was killed, resumed in place, staged elsewhere or raced
\* for, a success names the best step of an uninterrupted training and its
\* best_checkpoint file is the one of that step.
THEOREM CrashesInvisible == Spec => []CrashInvisible
  <1>1. TrainingInv => CrashInvisible
    BY DEF TrainingInv
  <1> QED BY <1>1, TrainingInvariant, PTL
=============================================================================
