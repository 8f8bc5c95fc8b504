---------------------------- MODULE NativeSearch ----------------------------
(***************************************************************************)
(* The native controllers: run_greedy_autoresearch and                     *)
(* run_semantic_autoresearch (agents/), and OpenEvolve driven by           *)
(* common/openevolve_runner.py.  Each of them evaluates a seed and goes    *)
(* through a fixed number of proposal opportunities: a retained parent, a  *)
(* proposal, a claim of its architecture in the run's registry, a          *)
(* training, a record.  They differ in what they retain and write.         *)
(*                                                                         *)
(* Greedy keeps one incumbent ("plateau": with accept_valid_plateau_moves).*)
(* Semantic keeps the best candidate of each categorical cell.  Both take  *)
(* one opportunity after the other.  OpenEvolve submits several from a     *)
(* snapshot of its database; a worker records the end of an opportunity,   *)
(* and the main process adds the child later, in any order.                *)
(*                                                                         *)
(* at[i]: waiting; asked (the provider has the request); proposed;         *)
(* claimed; judged; recorded; saved (the incumbent file is, the commit is  *)
(* not); done; lost (OpenEvolve's worker died or its result was dropped).  *)
(*                                                                         *)
(* Abstracted: an architecture stands for the candidate that has it (the   *)
(* registry lets it be trained once); a score stands for the accuracy,     *)
(* which is the search score; prompts, artifacts and the manifest.         *)
(* No controller resumes: a directory that is not fresh is refused.  The   *)
(* database of OpenEvolve (external) is never full enough to evict.        *)
(***************************************************************************)
EXTENDS Naturals, FiniteSets, Sequences

CONSTANTS
    Architectures,
    Seed,           \* the architecture of the initial candidate
    NoArchitecture, \* the provider failed, or its text is no valid IR
    Cells,          \* categorical signatures
    Scores,
    Opportunities,  \* how many
    Ahead           \* bound: opportunities that OpenEvolve has submitted

ASSUME SearchAssumption ==
    /\ Seed \in Architectures /\ NoArchitecture \notin Architectures
    /\ Cells # {}
    /\ Scores \subseteq Nat
    /\ Opportunities \in Nat /\ Ahead \in Nat

VARIABLES
    kind,       \* the controller
    phase,      \* fresh, prepared, seeded, search, closed, failed or killed
    registry,   \* marker files of claimed architectures
    at,
    parent,     \* the number that the parent was found at
    child,      \* what was proposed
    view,       \* what the evaluator said; the seed is number 0
    pool,       \* memory: what may be a parent
    ledger,     \* lineage.jsonl, or OpenEvolve's terminal outcomes
    archive,    \* semantic_archive.json
    incumbent,  \* incumbent.ir.json; NoArchitecture while there is none, or a torn one
    accepted,   \* the head of accepted_lineage
    result,     \* run_summary.json or run_result.json
    trained     \* history: the numbers that were trained

opportunity == <<at, parent, child, view>>
saved == <<archive, incumbent, accepted>>
vars == <<kind, phase, registry, opportunity, pool, ledger, saved, result, trained>>

-----------------------------------------------------------------------------
Numbers == 1 .. Opportunities
Kinds == {"greedy", "plateau", "semantic", "openevolve"}
Sequential == kind # "openevolve"

\* eligible_for_parent, the score and the signature of an evaluation; an
\* evaluation that raised, or is bound to another request, has none.
Rejected == [eligible |-> FALSE, score |-> 0, cell |-> CHOOSE c \in Cells : TRUE]
Views == {[eligible |-> TRUE, score |-> s, cell |-> c] : s \in Scores, c \in Cells}

ViewsOf(k) ==
    {Rejected} \cup (IF k = "semantic" THEN Views ELSE {v \in Views : v.cell = Rejected.cell})

Entry(i, a, v) == [found |-> i, arch |-> a, score |-> v.score, cell |-> v.cell, uses |-> 0]

Opened(i) == at[i] # "waiting"
Underway(i) == at[i] \notin {"waiting", "done", "lost"}

InOrder(i) == \A j \in 1 .. (i - 1) : IF Sequential THEN at[j] = "done" ELSE Opened(j)

Goto(i, from, to) ==
    /\ phase = "search"
    /\ at[i] = from
    /\ at' = [at EXCEPT ![i] = to]

-----------------------------------------------------------------------------
\* _is_better and the key of select_parent prefer a score, then the earlier.
Better(e, f) == e.score > f.score \/ (e.score = f.score /\ e.found < f.found)

Best(p) == {e \in p : \A f \in p \ {e} : Better(e, f)}

\* select_parent: the least used cell, then the better candidate.
LeastUsed(p) ==
    {e \in p : \A f \in p \ {e} : e.uses < f.uses \/ (e.uses = f.uses /\ Better(e, f))}

\* OpenEvolve samples any eligible program.
Choices == IF kind = "semantic" THEN LeastUsed(pool) ELSE pool

\* Mutant: a candidate that takes over a cell starts with no uses.
Considered_Resets(p, e) ==
    LET rivals == {f \in p : f.cell = e.cell}
    IN  IF \A f \in rivals : e.score > f.score
          THEN (p \ rivals) \cup {e}
          ELSE p

\* FrozenSemanticArchive.consider: a new cell, or a higher score in the cell,
\* which keeps the uses of the candidate that it replaces.
Considered(p, e) ==
    LET rivals == {f \in p : f.cell = e.cell}
    IN  IF \E f \in rivals : e.score <= f.score
          THEN p
          ELSE (p \ rivals) \cup
                 {IF rivals = {} THEN e ELSE [e EXCEPT !.uses = (CHOOSE f \in rivals : TRUE).uses]}

\* The decision of the greedy controller.
Accepts(v) ==
    /\ v.eligible
    /\ \A f \in pool : v.score > f.score \/ (kind = "plateau" /\ v.score = f.score)

-----------------------------------------------------------------------------
Init ==
    /\ kind \in Kinds
    /\ phase = "fresh"
    /\ registry = {}
    /\ at = [i \in Numbers |-> "waiting"]
    /\ parent = [i \in Numbers |-> 0]
    /\ child = [i \in Numbers |-> NoArchitecture]
    /\ view = [i \in 0 .. Opportunities |-> Rejected]
    /\ pool = {}
    /\ ledger = <<>>
    /\ archive = {} /\ incumbent = NoArchitecture /\ accepted = NoArchitecture
    /\ result = [completed |-> FALSE, best |-> {}]
    /\ trained = {}

\* The directory, the seed's claim, and greedy's first incumbent.
Prepare ==
    /\ phase = "fresh"
    /\ phase' = "prepared"
    /\ registry' = {Seed}
    /\ incumbent' = IF kind \in {"greedy", "plateau"} THEN Seed ELSE incumbent
    /\ UNCHANGED <<kind, opportunity, pool, ledger, archive, accepted, result, trained>>

\* The seed is evaluated and recorded.  A controller raises if it may not be
\* a parent; OpenEvolve is left without anything to sample.
EvaluateSeed(v) ==
    /\ phase = "prepared"
    /\ phase' = IF Sequential /\ ~v.eligible THEN "failed"
                ELSE IF Sequential THEN "seeded" ELSE "search"
    /\ view' = [view EXCEPT ![0] = v]
    /\ trained' = {0}
    /\ pool' = IF v.eligible THEN {Entry(0, Seed, v)} ELSE {}
    /\ ledger' = IF Sequential
                   THEN <<[number |-> 0, parent |-> 0, arch |-> Seed, view |-> v]>>
                   ELSE ledger
    /\ UNCHANGED <<kind, registry, at, parent, child, saved, result>>

\* semantic_archive.json, or the first commit of accepted_lineage.
SaveSeed ==
    /\ phase = "seeded"
    /\ phase' = "search"
    /\ archive' = IF kind = "semantic" THEN pool ELSE archive
    /\ accepted' = IF kind = "semantic" THEN accepted ELSE Seed
    /\ UNCHANGED <<kind, registry, opportunity, pool, ledger, incumbent, result, trained>>

-----------------------------------------------------------------------------
\* The parent is selected, or sampled for a worker, and the provider asked.
Ask(i) ==
    /\ Goto(i, "waiting", "asked")
    /\ InOrder(i)
    /\ ~Sequential => Cardinality({j \in Numbers : Underway(j)}) < Ahead
    /\ \E e \in Choices :
          /\ parent' = [parent EXCEPT ![i] = e.found]
          /\ pool' = IF kind = "semantic"
                       THEN (pool \ {e}) \cup {[e EXCEPT !.uses = @ + 1]}
                       ELSE pool
    /\ UNCHANGED <<kind, phase, registry, child, view, ledger, saved, result, trained>>

Answer(i, a) ==
    /\ Goto(i, "asked", IF a = NoArchitecture THEN "judged" ELSE "proposed")
    /\ child' = [child EXCEPT ![i] = a]
    /\ UNCHANGED <<kind, phase, registry, parent, view, pool, ledger, saved, result, trained>>

ParentArchitecture(i) == IF parent[i] = 0 THEN Seed ELSE child[parent[i]]

\* Mutant: a proposal is only compared with its parent.
Claim_ParentOnly(i) ==
    /\ IF child[i] = ParentArchitecture(i)
         THEN Goto(i, "proposed", "judged") /\ UNCHANGED registry
         ELSE Goto(i, "proposed", "claimed") /\ registry' = registry \cup {child[i]}
    /\ UNCHANGED <<kind, phase, parent, child, view, pool, ledger, saved, result, trained>>

\* mutation_no_change, duplicate_architecture, or a marker of its own.
Claim(i) ==
    /\ IF child[i] = ParentArchitecture(i) \/ child[i] \in registry
         THEN Goto(i, "proposed", "judged") /\ UNCHANGED registry
         ELSE Goto(i, "proposed", "claimed") /\ registry' = registry \cup {child[i]}
    /\ UNCHANGED <<kind, phase, parent, child, view, pool, ledger, saved, result, trained>>

Train(i, v) ==
    /\ Goto(i, "claimed", "judged")
    /\ view' = [view EXCEPT ![i] = v]
    /\ trained' = trained \cup {i}
    /\ UNCHANGED <<kind, phase, registry, parent, child, pool, ledger, saved, result>>

\* The archive considers the child before its record is appended.
Record(i) ==
    /\ Goto(i, "judged", "recorded")
    /\ pool' = IF kind = "semantic" /\ view[i].eligible
                 THEN Considered(pool, Entry(i, child[i], view[i]))
                 ELSE pool
    /\ ledger' = Append(ledger, [number |-> i, parent |-> parent[i],
                                 arch |-> child[i], view |-> view[i]])
    /\ UNCHANGED <<kind, phase, registry, parent, child, view, saved, result, trained>>

SaveArchive(i) ==
    /\ kind = "semantic"
    /\ Goto(i, "recorded", "done")
    /\ archive' = pool
    /\ UNCHANGED <<kind, phase, registry, parent, child, view, pool, ledger,
                   incumbent, accepted, result, trained>>

\* shutil.copy2 truncates the incumbent's file ...
TruncateIncumbent(i) ==
    /\ kind \in {"greedy", "plateau"}
    /\ phase = "search" /\ at[i] = "recorded"
    /\ Accepts(view[i]) /\ incumbent # NoArchitecture
    /\ incumbent' = NoArchitecture
    /\ UNCHANGED <<kind, phase, registry, opportunity, pool, ledger,
                   archive, accepted, result, trained>>

\* ... and then fills it; a candidate that is not accepted leaves it alone.
SaveIncumbent(i) ==
    /\ kind \in {"greedy", "plateau"}
    /\ IF Accepts(view[i])
         THEN /\ incumbent = NoArchitecture /\ incumbent' = child[i]
              /\ Goto(i, "recorded", "saved")
         ELSE Goto(i, "recorded", "done") /\ UNCHANGED incumbent
    /\ UNCHANGED <<kind, phase, registry, parent, child, view, pool, ledger,
                   archive, accepted, result, trained>>

Commit(i) ==
    /\ Goto(i, "saved", "done")
    /\ accepted' = child[i]
    /\ pool' = {Entry(i, child[i], view[i])}
    /\ UNCHANGED <<kind, phase, registry, parent, child, view, ledger,
                   archive, incumbent, result, trained>>

\* validity_gated_add: only an eligible child joins the pools.
AddChild(i) ==
    /\ ~Sequential
    /\ Goto(i, "recorded", "done")
    /\ pool' = IF view[i].eligible THEN pool \cup {Entry(i, child[i], view[i])} ELSE pool
    /\ UNCHANGED <<kind, phase, registry, parent, child, view, ledger, saved, result, trained>>

LoseChild(i) ==
    /\ ~Sequential
    /\ \E from \in {"asked", "proposed", "claimed", "judged", "recorded"} : Goto(i, from, "lost")
    /\ UNCHANGED <<kind, phase, registry, parent, child, view, pool, ledger, saved, result, trained>>

\* Mutant: OpenEvolve's result does not look at the terminal outcomes.
Close_Unchecked ==
    /\ phase = "search"
    /\ \A i \in Numbers : ~Underway(i) /\ (Sequential => at[i] = "done")
    /\ phase' = "closed"
    /\ result' = [completed |-> pool # {}, best |-> Best(pool)]
    /\ UNCHANGED <<kind, registry, opportunity, pool, ledger, saved, trained>>

\* Every opportunity is terminal, or OpenEvolve stopped early; its result is
\* completed when each has one terminal outcome and there is a best program.
Close ==
    /\ phase = "search"
    /\ \A i \in Numbers : ~Underway(i) /\ (Sequential => at[i] = "done")
    /\ phase' = "closed"
    /\ result' = [completed |-> /\ pool # {}
                                /\ \A i \in Numbers :
                                     Cardinality({j \in DOMAIN ledger : ledger[j].number = i}) = 1,
                  best |-> Best(pool)]
    /\ UNCHANGED <<kind, registry, opportunity, pool, ledger, saved, trained>>

\* The controller's process is killed, or git fails under it.
Kill ==
    /\ phase \in {"prepared", "seeded", "search"}
    /\ phase' = "killed"
    /\ UNCHANGED <<kind, registry, opportunity, pool, ledger, saved, result, trained>>

Next ==
    \/ Prepare
    \/ \E v \in ViewsOf(kind) : EvaluateSeed(v)
    \/ SaveSeed \/ Close \/ Kill
    \/ \E i \in Numbers :
          \/ Ask(i) \/ Claim(i) \/ Record(i)
          \/ \E a \in Architectures \cup {NoArchitecture} : Answer(i, a)
          \/ \E v \in ViewsOf(kind) : Train(i, v)
          \/ SaveArchive(i) \/ TruncateIncumbent(i) \/ SaveIncumbent(i) \/ Commit(i)
          \/ AddChild(i) \/ LoseChild(i)

Spec == Init /\ [][Next]_vars

-----------------------------------------------------------------------------
Entries == [found : 0 .. Opportunities, arch : Architectures, score : Scores,
            cell : Cells, uses : Nat]

Records == [number : 0 .. Opportunities, parent : 0 .. Opportunities,
            arch : Architectures \cup {NoArchitecture}, view : {Rejected} \cup Views]

TypeOK ==
    /\ kind \in Kinds
    /\ phase \in {"fresh", "prepared", "seeded", "search", "closed", "failed", "killed"}
    /\ registry \subseteq Architectures
    /\ at \in [Numbers -> {"waiting", "asked", "proposed", "claimed", "judged",
                           "recorded", "saved", "done", "lost"}]
    /\ parent \in [Numbers -> 0 .. Opportunities]
    /\ child \in [Numbers -> Architectures \cup {NoArchitecture}]
    /\ view \in [0 .. Opportunities -> {Rejected} \cup Views]
    /\ pool \subseteq Entries /\ archive \subseteq Entries
    /\ ledger \in Seq(Records)
    /\ incumbent \in Architectures \cup {NoArchitecture}
    /\ accepted \in Architectures \cup {NoArchitecture}
    /\ result \in [completed : BOOLEAN, best : SUBSET Entries]
    /\ trained \subseteq 0 .. Opportunities

ArchitectureOf(i) == IF i = 0 THEN Seed ELSE child[i]

Training == trained \cup {i \in Numbers : at[i] = "claimed"}

\* An architecture is trained at most once in a run, however many workers have
\* it at the same time, and it was claimed before.
TrainedOnce ==
    \A i, j \in Training :
        /\ ArchitectureOf(i) \in registry
        /\ ArchitectureOf(i) = ArchitectureOf(j) => i = j

\* A parent is a candidate of this run that was trained, was eligible, and
\* precedes its child: the lineage is a tree that ends in the seed.
ParentsAreTrained ==
    \A i \in Numbers : Opened(i) =>
        parent[i] < i /\ parent[i] \in trained /\ view[parent[i]].eligible

\* What the memory of a controller may hold.
PoolIsTrained ==
    /\ \A e \in pool : e.found \in trained /\ view[e.found].eligible
    /\ \A i \in 0 .. Opportunities : view[i].eligible => i \in trained
    /\ \A i \in Numbers : at[i] = "saved" => view[i].eligible

\* Opportunities are opened in order, each is trained after it was claimed, and
\* none is opened before the seed is evaluated.
OpenedInOrder ==
    /\ \A i, j \in Numbers : Opened(i) /\ j < i => Opened(j)
    /\ \A i \in Numbers \cap trained :
          at[i] \notin {"waiting", "asked", "proposed", "claimed"}
    /\ \A i \in Numbers :
          at[i] \in {"proposed", "claimed"} \/ i \in trained => child[i] # NoArchitecture
    /\ phase \in {"fresh", "prepared"} =>
          trained = {} /\ pool = {} /\ \A i \in Numbers : at[i] = "waiting"
    /\ phase = "prepared" => Seed \in registry

SearchInv ==
    /\ TypeOK
    /\ TrainedOnce
    /\ ParentsAreTrained
    /\ PoolIsTrained
    /\ OpenedInOrder

\* Of two records of a cell: the better score, then the first (plateau: the last).
Outranks(l, j, k) ==
    \/ l[j].view.score > l[k].view.score
    \/ l[j].view.score = l[k].view.score /\ (j < k <=> kind # "plateau")

\* What the records of a lineage say should be retained: of each cell, the
\* eligible record that outranks the others.
KeptAt(l) ==
    {j \in DOMAIN l : l[j].view.eligible /\
        \A k \in DOMAIN l \ {j} :
            l[k].view.eligible /\ l[k].view.cell = l[j].view.cell => Outranks(l, j, k)}

Kept(l) == {l[j] : j \in KeptAt(l)}

Before(j) == SubSeq(ledger, 1, j - 1)

HeadOf(l) == {r.arch : r \in Kept(l)}

UsesOf(l, c) == Cardinality({j \in DOMAIN l \ {1} : view[l[j].parent].cell = c})

EntryOf(r, uses) == [Entry(r.number, r.arch, r.view) EXCEPT !.uses = uses]

ArchiveOf(l) == {EntryOf(r, UsesOf(l, r.view.cell)) : r \in Kept(l)}

\* No cell is used twice more than a cell that was there before it.
FairlyUsed(p) ==
    LET Found(e) == {j \in DOMAIN ledger : ledger[j].view.eligible /\ ledger[j].view.cell = e.cell}
    IN  \A e, f \in p :
          (\E j \in Found(f) : \A k \in Found(e) : j < k) => e.uses <= f.uses + 1

\* The lineage alone says what a controller that takes one opportunity after
\* the other retained, wherever it is killed: every recorded parent was the best
\* of its cell by the records before it; the archive, with the uses of each
\* cell, the incumbent and the head of accepted_lineage are those of the lineage
\* or of all but its last record, and the head is not ahead of the incumbent.
\* The copy of the incumbent is not atomic: a kill within it leaves a torn file,
\* but only when the last record is the one retained and the head precedes it,
\* so that the lineage still says what the file should hold.
LineageExplainsState ==
    (Sequential /\ Kept(ledger) # {}) =>
        LET ends == {ledger, Before(Len(ledger))}
        IN  /\ \A j \in DOMAIN ledger \ {1} :
                  \E r \in Kept(Before(j)) : r.number = ledger[j].parent
            /\ IF kind = "semantic"
                 THEN archive \in {ArchiveOf(l) : l \in ends} /\ FairlyUsed(archive)
                 ELSE /\ {accepted} \ {NoArchitecture} \in {HeadOf(l) : l \in ends}
                      /\ IF incumbent = NoArchitecture
                           THEN /\ Kept(ledger) = {ledger[Len(ledger)]}
                                /\ {accepted} = HeadOf(Before(Len(ledger)))
                           ELSE /\ {incumbent} \in {HeadOf(l) : l \in ends}
                                /\ {accepted} = HeadOf(ledger) => incumbent = accepted

\* A search that reports its end has one terminal record of every opportunity,
\* and its best candidate is the first of the best eligible candidates that
\* were trained and not lost, in whatever order the workers' children came.
ResultIsTrue ==
    phase = "closed" =>
        /\ Sequential => result.completed
        /\ result.completed => \A i \in Numbers :
              Cardinality({j \in DOMAIN ledger : ledger[j].number = i}) = 1
        /\ LET candidates == {i \in trained : view[i].eligible /\ (i = 0 \/ at[i] # "lost")}
           IN  kind \in {"greedy", "openevolve"} =>
                 {e.found : e \in result.best} =
                   {i \in candidates : \A j \in candidates \ {i} :
                        \/ view[i].score > view[j].score
                        \/ view[i].score = view[j].score /\ i < j}

-----------------------------------------------------------------------------
(* The inductive invariant behind ResultIsTrue. *)

Recorded(i) == at[i] \in {"recorded", "saved", "done"}

\* A sequential controller has ended every opportunity before the one it is in,
\* and has one record of each that it recorded, after the seed's.
TakenInTurn ==
    Sequential =>
        /\ \A i, j \in Numbers : Opened(i) /\ j < i => at[j] = "done"
        /\ \A i \in Numbers : Recorded(i) => i + 1 \in DOMAIN ledger
        /\ \A j \in DOMAIN ledger :
              ledger[j].number = j - 1 /\ (j # 1 => Recorded(j - 1))
        /\ phase \in {"seeded", "search"} => 1 \in DOMAIN ledger /\ pool # {}

Candidates == {i \in trained : view[i].eligible /\ (i = 0 \/ at[i] = "done")}

Precedes(v, i, w, j) == v.score > w.score \/ (v.score = w.score /\ i < j)

\* The pool of a controller that keeps the best has it, and one entry of each.
PoolHasBest ==
    kind \in {"greedy", "openevolve"} =>
        /\ \A e \in pool : e.found \in Candidates /\ e.score = view[e.found].score
        /\ \A e, f \in pool : e.found = f.found => e = f
        /\ \A i \in Candidates : \E e \in pool :
              e.found = i \/ Precedes(view[e.found], e.found, view[i], i)
        /\ \A i \in Numbers : at[i] = "saved" => kind = "greedy" /\ Accepts(view[i])

ResultInv ==
    /\ SearchInv
    /\ TakenInTurn
    /\ PoolHasBest
    /\ ResultIsTrue

-----------------------------------------------------------------------------
(* The inductive invariant behind LineageExplainsState. *)

\* The lineage without a record whose candidate is not retained yet.
Retained ==
    IF \E i \in Numbers : at[i] \in {"recorded", "saved"}
      THEN Before(Len(ledger)) ELSE ledger

InProgress(i) == at[i] \in {"asked", "proposed", "claimed", "judged"}

\* The use of a cell that no record tells yet.
UseInProgress(c) ==
    IF \E i \in Numbers : InProgress(i) /\ view[parent[i]].cell = c THEN 1 ELSE 0

\* Records say what was proposed and judged, each parent was one of those that
\* the records before it say are kept, and of each cell there is a record that
\* outranks the others.
RecordsTellSearch ==
    /\ \A j \in DOMAIN ledger :
          ledger[j].arch = ArchitectureOf(j - 1) /\ ledger[j].view = view[j - 1]
    /\ \A j \in DOMAIN ledger \ {1} :
          \E r \in Kept(Before(j)) : r.number = ledger[j].parent
    /\ \A i \in Numbers : InProgress(i) => \E r \in Kept(ledger) : r.number = parent[i]
    /\ \A k \in DOMAIN ledger : ledger[k].view.eligible =>
          \E j \in KeptAt(ledger) : /\ ledger[j].view.cell = ledger[k].view.cell
                                   /\ (j = k \/ Outranks(ledger, j, k))

\* The memory of a controller is what the lineage says it is.
PoolIsKept ==
    IF kind = "semantic"
      THEN /\ pool = {EntryOf(r, UsesOf(ledger, r.view.cell) + UseInProgress(r.view.cell)) :
                        r \in Kept(ledger)}
           /\ FairlyUsed(pool)
           /\ \A i \in Numbers : at[i] # "saved"
      ELSE /\ pool = {EntryOf(r, 0) : r \in Kept(Retained)}
           /\ \A i \in Numbers : at[i] = "saved" => Kept(ledger) = {ledger[Len(ledger)]}

\* The incumbent's file is truncated: the last record is the one to retain.
Copying ==
    /\ incumbent = NoArchitecture
    /\ \E i \in Numbers : at[i] = "recorded"
    /\ Kept(ledger) = {ledger[Len(ledger)]}

\* How far the files are behind it.
FilesFollow ==
    /\ phase \in {"fresh", "prepared"} => ledger = <<>>
    /\ phase \in {"fresh", "prepared", "seeded"} => archive = {} /\ accepted = NoArchitecture
    /\ phase \in {"prepared", "seeded"} /\ kind # "semantic" => incumbent = Seed
    /\ phase = "seeded" => Len(ledger) = 1 /\ \A i \in Numbers : at[i] = "waiting"
    /\ phase = "search" =>
         IF kind = "semantic"
           THEN archive = ArchiveOf(Retained) /\ FairlyUsed(archive)
           ELSE /\ {accepted} = HeadOf(Retained)
                /\ \/ {incumbent} = HeadOf(IF \E i \in Numbers : at[i] = "saved"
                                             THEN ledger ELSE Retained)
                   \/ Copying

LineageInv ==
    /\ SearchInv
    /\ TakenInTurn
    /\ LineageExplainsState
    /\ kind # "semantic" => \A i \in 0 .. Opportunities : view[i].cell = Rejected.cell
    /\ Sequential => RecordsTellSearch /\ PoolIsKept /\ FilesFollow

=============================================================================
