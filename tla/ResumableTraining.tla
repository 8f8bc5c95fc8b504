------------------------- MODULE ResumableTraining -------------------------
(***************************************************************************)
(* A training that survives its process (common/trainer.py,                *)
(* training_worker.py) and the resume attempt that continues its retained  *)
(* checkpoint elsewhere (modal_app.py).                                    *)
(*                                                                         *)
(* A trainer holds the flock of its host while it prepares the output      *)
(* directory, restores the latest checkpoint if it was told to resume,     *)
(* and trains: a step that is evaluated may save the best checkpoint, then *)
(* the event is logged, then at its interval the latest checkpoint is      *)
(* replaced and the first one retained.  Any of these may be its last act. *)
(*                                                                         *)
(* "source" is a directory that operators train in place, resuming when    *)
(* they find it used; "attempt" is filled once from a finished source and  *)
(* resumed there.                                                          *)
(*                                                                         *)
(* Abstracted: the model's state by its step, which the restored RNG and   *)
(* the data of the step determine; a development evaluation by its         *)
(* quality, a function of the step chosen at the start; manifests, hashes  *)
(* and identity checks, which hold here.  The wall-time limit is not       *)
(* reached.                                                                *)
(***************************************************************************)
EXTENDS Naturals, Sequences

CONSTANTS
    Trainers,
    Nobody,
    MaxSteps,
    ValidationInterval,
    CheckpointInterval,
    Qualities,      \* how good an evaluation may turn out, as numbers
    MaxCrashes      \* bound: trainers killed

\* validate(): version-2 nonterminal checkpoints coincide with validation.
ASSUME TrainingAssumption ==
    /\ Nobody \notin Trainers
    /\ {MaxSteps, ValidationInterval, CheckpointInterval} \subseteq Nat \ {0}
    /\ CheckpointInterval < MaxSteps => CheckpointInterval % ValidationInterval = 0
    /\ Qualities \subseteq Nat /\ MaxCrashes \in Nat

Places == {"source", "attempt"}
Step0 == [step |-> 0, best |-> 0]
Unused == [used |-> FALSE, latest |-> Step0, partial |-> Step0, best |-> 0,
           events |-> <<>>, attested |-> FALSE, summary |-> "none"]
NoJob == [place |-> "source", resume |-> FALSE, from |-> 0, step |-> 0, best |-> 0,
          decision |-> "none"]

VARIABLES
    quality,    \* of the evaluation at each evaluated step
    dir,        \* the files of each place; step 0 is a checkpoint not there
    lock,       \* the holder of each place's flock
    pc,         \* idle, lock, open, train, log, checkpoint, keep, attest, return
    job,        \* what each trainer has in memory
    results,    \* history: the successes returned
    crashes

vars == <<quality, dir, lock, pc, job, results, crashes>>

At(p, from) == pc[p] = from
Goto(p, from, to) == pc[p] = from /\ pc' = [pc EXCEPT ![p] = to]

Validated(s) == s % ValidationInterval = 0 \/ s = MaxSteps
Checkpointed(s) == s % CheckpointInterval = 0 \/ s = MaxSteps

\* Mutant: there must be a best one to be better than.
Better_Follower(s, best) == best # 0 /\ quality[s] > quality[best]

\* checkpoint_is_better; of equals the earlier one stays.
Better(s, best) == best = 0 \/ quality[s] > quality[best]

-----------------------------------------------------------------------------
Init ==
    /\ quality \in [{s \in 1 .. MaxSteps : Validated(s)} -> Qualities]
    /\ dir = [d \in Places |-> Unused]
    /\ lock = [d \in Places |-> Nobody]
    /\ pc = [p \in Trainers |-> "idle"]
    /\ job = [p \in Trainers |-> NoJob]
    /\ results = {}
    /\ crashes = 0

\* An operator trains the source, and resumes what has been begun.
Launch(p) ==
    /\ Goto(p, "idle", "lock")
    /\ dir["source"].summary # "success"
    /\ job' = [job EXCEPT ![p] = [NoJob EXCEPT !.resume = dir["source"].used]]
    /\ UNCHANGED <<quality, dir, lock, results, crashes>>

\* _execute_staged_resume_attempt: the retained checkpoint, as the latest, and
\* the events up to it.  A log that is not the exact roster is refused.
Stage(p) ==
    LET source == dir["source"] IN
    /\ Goto(p, "idle", "lock")
    /\ ~dir["attempt"].used
    /\ source.summary = "success"
    /\ source.partial # Step0
    /\ Len(source.events) = MaxSteps
    /\ \A i \in 1 .. MaxSteps : source.events[i].step = i
    /\ dir' = [dir EXCEPT !["attempt"] =
                  [Unused EXCEPT !.used = TRUE,
                                 !.latest = source.partial, !.partial = source.partial,
                                 !.events = SubSeq(source.events, 1, source.partial.step)]]
    /\ job' = [job EXCEPT ![p] = [NoJob EXCEPT !.place = "attempt", !.resume = TRUE]]
    /\ UNCHANGED <<quality, lock, results, crashes>>

Free(d) == lock[d] = Nobody

\* exclusive_training_lock
Lock(p) ==
    /\ Goto(p, "lock", "open")
    /\ Free(job[p].place)
    /\ lock' = [lock EXCEPT ![job[p].place] = p]
    /\ UNCHANGED <<quality, dir, job, results, crashes>>

\* Out of the lock, and out of the process.
Leave(p) ==
    /\ pc' = [pc EXCEPT ![p] = "idle"]
    /\ job' = [job EXCEPT ![p] = NoJob]
    /\ lock' = [lock EXCEPT ![job[p].place] = IF @ = p THEN Nobody ELSE @]

\* An exception in the prepared directory leaves failure.json and a summary.
Fail(p) ==
    /\ dir' = [dir EXCEPT ![job[p].place].used = TRUE, ![job[p].place].summary = "failure"]
    /\ Leave(p)
    /\ UNCHANGED <<quality, results, crashes>>

\* A fresh training of an empty directory.
OpenFresh(p) ==
    /\ Goto(p, "open", "train")
    /\ ~job[p].resume
    /\ ~dir[job[p].place].used
    /\ dir' = [dir EXCEPT ![job[p].place].used = TRUE]
    /\ UNCHANGED <<quality, lock, job, results, crashes>>

\* A used directory is not trained in without --resume.
OpenRefused(p) ==
    /\ At(p, "open")
    /\ ~job[p].resume
    /\ dir[job[p].place].used
    /\ Leave(p)
    /\ UNCHANGED <<quality, dir, results, crashes>>

\* Mutant: the best step so far is not restored.
Restored_Worse(latest) == [latest EXCEPT !.best = 0]

\* The step, its state, and the best so far.
Restored(latest) == latest

\* --resume: the latest checkpoint is restored.
OpenResume(p) ==
    LET latest == Restored(dir[job[p].place].latest) IN
    /\ Goto(p, "open", "train")
    /\ job[p].resume
    /\ dir[job[p].place].latest # Step0
    /\ job' = [job EXCEPT ![p].from = latest.step, ![p].step = latest.step,
                          ![p].best = latest.best]
    /\ UNCHANGED <<quality, dir, lock, results, crashes>>

OpenWithout(p) ==
    /\ At(p, "open")
    /\ job[p].resume
    /\ dir[job[p].place].latest = Step0
    /\ Fail(p)

-----------------------------------------------------------------------------
\* One optimizer step, and its evaluation; a better one replaces best_checkpoint.
Train(p) ==
    LET s == job[p].step + 1
        better == Validated(s) /\ Better(s, job[p].best)
    IN
    /\ Goto(p, "train", "log")
    /\ job[p].step < MaxSteps
    /\ job' = [job EXCEPT ![p].step = s,
                          ![p].best = IF better THEN s ELSE @,
                          ![p].decision = IF better THEN "best_development" ELSE "none"]
    /\ dir' = [dir EXCEPT ![job[p].place].best = IF better THEN s ELSE @]
    /\ UNCHANGED <<quality, lock, results, crashes>>

\* _append_event
Log(p) ==
    LET event == [step |-> job[p].step, decision |-> job[p].decision] IN
    /\ Goto(p, "log", IF Checkpointed(job[p].step) THEN "checkpoint" ELSE "train")
    /\ dir' = [dir EXCEPT ![job[p].place].events = Append(@, event)]
    /\ UNCHANGED <<quality, lock, job, results, crashes>>

\* The payload of latest_resume_checkpoint.
Payload(p) == [step |-> job[p].step, best |-> job[p].best]

Checkpoint(p) ==
    LET d == job[p].place IN
    /\ Goto(p, "checkpoint",
            IF job[p].step < MaxSteps /\ dir[d].partial = Step0 THEN "keep" ELSE "train")
    /\ dir' = [dir EXCEPT ![d].latest = Payload(p)]
    /\ UNCHANGED <<quality, lock, job, results, crashes>>

\* partial_resume_checkpoint: the first nonterminal one, retained.
Keep(p) ==
    /\ Goto(p, "keep", "train")
    /\ dir' = [dir EXCEPT ![job[p].place].partial = Payload(p)]
    /\ UNCHANGED <<quality, lock, job, results, crashes>>

\* A resumed training proves that it went beyond its source, once.
Attestable(p) ==
    /\ dir[job[p].place].latest.step > job[p].from
    /\ ~dir[job[p].place].attested

Complete(p) == At(p, "train") /\ job[p].step = MaxSteps

\* The attestation of a resumed training.
Attest(p) ==
    /\ Complete(p)
    /\ dir[job[p].place].best # 0
    /\ job[p].resume /\ Attestable(p)
    /\ pc' = [pc EXCEPT ![p] = "return"]
    /\ dir' = [dir EXCEPT ![job[p].place].attested = TRUE]
    /\ UNCHANGED <<quality, lock, job, results, crashes>>

\* There is no best checkpoint, or nothing to attest.
Refuse(p) ==
    /\ Complete(p)
    /\ dir[job[p].place].best = 0 \/ (job[p].resume /\ ~Attestable(p))
    /\ Fail(p)

\* The result, with the hash of whatever best_checkpoint is there.
Return(p) ==
    LET d == job[p].place IN
    /\ At(p, "return") \/ (Complete(p) /\ ~job[p].resume /\ dir[d].best # 0)
    /\ dir' = [dir EXCEPT ![d].summary = "success"]
    /\ results' = results \union {[place |-> d, best |-> job[p].best, file |-> dir[d].best]}
    /\ Leave(p)
    /\ UNCHANGED <<quality, crashes>>

\* A trainer is killed; the kernel drops its lock.
Crash(p) ==
    /\ crashes < MaxCrashes
    /\ ~At(p, "idle")
    /\ Leave(p)
    /\ crashes' = crashes + 1
    /\ UNCHANGED <<quality, dir, results>>

Step(p) ==
    \/ Lock(p) \/ OpenFresh(p) \/ OpenRefused(p) \/ OpenResume(p) \/ OpenWithout(p)
    \/ Train(p) \/ Log(p) \/ Checkpoint(p) \/ Keep(p)
    \/ Attest(p) \/ Refuse(p) \/ Return(p)

Next == \E p \in Trainers : Launch(p) \/ Stage(p) \/ Step(p) \/ Crash(p)

Spec == Init /\ [][Next]_vars

\* A trainer that runs goes on, a lock that is free again and again is got, and
\* a source that has not succeeded is launched again.
Fairness ==
    \A p \in Trainers : /\ WF_vars(Step(p))
                        /\ SF_vars(Lock(p))
                        /\ WF_vars(Launch(p))

FairSpec == Spec /\ Fairness

-----------------------------------------------------------------------------
(* Properties *)

\* The best step of a training that nothing interrupts.
BestOf ==
    CHOOSE s \in DOMAIN quality :
        \A t \in DOMAIN quality :
            quality[s] > quality[t] \/ (quality[s] = quality[t] /\ s <= t)

\* However a training was killed, resumed in place or raced for by two
\* operators, a success names the best step of an uninterrupted training, and
\* the checkpoint file is the one of that step (trainer.py, the order of its
\* writes).
CrashInvisible ==
    \A r \in results : r.best = BestOf /\ r.file = BestOf

-----------------------------------------------------------------------------
(* The inductive invariant *)

Checkpoints == [step : 0 .. MaxSteps, best : 0 .. MaxSteps]
Decisions == {"none", "best_development"}
Files == [used : BOOLEAN, latest : Checkpoints, partial : Checkpoints, best : 0 .. MaxSteps,
          events : Seq([step : 0 .. MaxSteps, decision : Decisions]),
          attested : BOOLEAN, summary : {"none", "failure", "success"}]
Jobs == [place : Places, resume : BOOLEAN, from : 0 .. MaxSteps, step : 0 .. MaxSteps,
         best : 0 .. MaxSteps, decision : Decisions]

TypeOK ==
    /\ quality \in [{s \in 1 .. MaxSteps : Validated(s)} -> Qualities]
    /\ dir \in [Places -> Files]
    /\ lock \in [Places -> Trainers \union {Nobody}]
    /\ pc \in [Trainers -> {"idle", "lock", "open", "train", "log", "checkpoint", "keep",
                            "return"}]
    /\ job \in [Trainers -> Jobs]
    /\ crashes \in Nat

\* b is the best evaluated step up to step n; 0 when there is none.
IsBest(b, n) ==
    LET evaluated == {t \in DOMAIN quality : t <= n} IN
    \/ b = 0 /\ evaluated = {}
    \/ /\ b \in evaluated
       /\ \A t \in evaluated :
             quality[b] > quality[t] \/ (quality[b] = quality[t] /\ b <= t)

\* The best_checkpoint file is that of a training that came to step n or
\* beyond; a staged directory may have none.
FileReaches(d, n) ==
    dir[d].best = 0 \/ \E m \in n .. MaxSteps : IsBest(dir[d].best, m)

Inside(p) == pc[p] \in {"open", "train", "log", "checkpoint", "keep", "return"}
Working(p) == pc[p] \in {"train", "log", "checkpoint", "keep", "return"}

\* Both retained checkpoints hold the best of the steps they cover, and the
\* file is not behind the latest.
Retained(d) ==
    /\ IsBest(dir[d].latest.best, dir[d].latest.step)
    /\ IsBest(dir[d].partial.best, dir[d].partial.step)
    /\ FileReaches(d, dir[d].latest.step)
    /\ ~dir[d].used => dir[d] = Unused

\* Who is in a directory holds its lock; what it has in memory is the best of
\* its steps, and the files fit it.
AtWork(p) ==
    LET d == job[p].place IN
    /\ Inside(p) => lock[d] = p
    /\ pc[p] # "idle" /\ d = "attempt" => dir["attempt"].used
    /\ pc[p] \in {"lock", "open"} => job[p].step = 0 /\ job[p].best = 0
    /\ Working(p) => /\ dir[d].used
                     /\ IsBest(job[p].best, job[p].step)
                     /\ FileReaches(d, job[p].step)
                     /\ dir[d].latest.step <= job[p].step
    /\ pc[p] = "return" => job[p].step = MaxSteps /\ dir[d].best # 0

TrainingInv ==
    /\ TypeOK
    /\ \A d \in Places : Retained(d)
    /\ \A p \in Trainers : AtWork(p)
    /\ CrashInvisible

-----------------------------------------------------------------------------
\* Killed before its first checkpoint: neither trained nor resumed any more.
TooEarly == dir["source"].used /\ dir["source"].latest = Step0

\* Killed after its last: a resume has nothing left to prove.
TooLate == dir["source"].latest.step = MaxSteps

\* A training that is launched again until it succeeds does so, unless a crash
\* caught it where the trainer cannot recover.
TrainingSettles ==
    <>(\/ dir["source"].summary = "success"
       \/ crashes > 0 /\ TooEarly
       \/ crashes > 0 /\ TooLate)

\* README.md:1065-1076: an attempt resumes a successful source and completes.
ResumeSucceeds == dir["attempt"].summary # "failure"
=============================================================================
