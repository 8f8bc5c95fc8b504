------------------------- MODULE NativeSearchProofs -------------------------
(***************************************************************************)
(* SearchInv is an invariant of every native controller, for any number of *)
(* opportunities, architectures, cells and scores, and of workers ahead.   *)
(*                                                                         *)
(* That two trained opportunities never share an architecture is carried   *)
(* by the registry: what is claimed or trained is in it, and a claim adds  *)
(* what was not.  That a parent was trained is carried by the pool, and    *)
(* that it precedes its child by the opening of opportunities in order.    *)
(*                                                                         *)
(* A report is true by ResultInv: opportunities taken in turn leave one    *)
(* record each, and the pool never loses the first of the best candidates. *)
(*                                                                         *)
(* The lineage explains the files by LineageInv.  What a lineage keeps is  *)
(* a function of it (KeptBy), and a record that is appended takes its cell *)
(* or leaves what is kept as it was (KeptAppended).  The memory is what is *)
(* kept, with the uses that records and the opportunity in progress tell   *)
(* (PoolIsKept), and a file is the memory of now or of one record before   *)
(* (FilesFollow).  A lemma about this state is one about the next state    *)
(* by PTL (TellsNext, SoleNext, ExplainedNext).                            *)
(***************************************************************************)
EXTENDS NativeSearch, SequenceTheorems, FiniteSetTheorems, TLAPS

-----------------------------------------------------------------------------
(* What the operators return. *)

LEMMA ViewFacts ==
    /\ \A v \in Views : v.eligible /\ v.score \in Scores /\ v.cell \in Cells
    /\ ~Rejected.eligible
    /\ ViewsOf(kind) \subseteq {Rejected} \cup Views
  BY DEF Views, Rejected, ViewsOf

LEMMA EntryFacts ==
    ASSUME NEW i \in 0 .. Opportunities, NEW a \in Architectures,
           NEW v \in {Rejected} \cup Views, v.eligible
    PROVE  Entry(i, a, v) \in Entries /\ Entry(i, a, v).found = i
  BY ViewFacts DEF Entry, Entries

LEMMA ConsideredFacts ==
    ASSUME NEW p, p \subseteq Entries, NEW e \in Entries
    PROVE  /\ Considered(p, e) \subseteq Entries
           /\ \A x \in Considered(p, e) : x \in p \/ x.found = e.found
  <1> DEFINE rivals == {f \in p : f.cell = e.cell}
             new == IF rivals = {} THEN e
                    ELSE [e EXCEPT !.uses = (CHOOSE f \in rivals : TRUE).uses]
  <1>1. new \in Entries /\ new.found = e.found
    <2>1. CASE rivals = {}
      BY <2>1
    <2>2. CASE rivals # {}
      <3>1. (CHOOSE f \in rivals : TRUE) \in rivals
        BY <2>2
      <3>2. (CHOOSE f \in rivals : TRUE).uses \in Nat
        BY <3>1 DEF Entries
      <3> QED BY <2>2, <3>2 DEF Entries
    <2> QED BY <2>1, <2>2
  <1>2. Considered(p, e) = p \/ Considered(p, e) = (p \ rivals) \cup {new}
    BY DEF Considered
  <1> HIDE DEF rivals, new
  <1> QED BY <1>1, <1>2

\* A step that moves one opportunity.
LEMMA GotoFacts ==
    ASSUME TypeOK, NEW i \in Numbers, NEW from, NEW to, Goto(i, from, to)
    PROVE  /\ phase = "search" /\ at[i] = from /\ at'[i] = to
           /\ \A j \in Numbers \ {i} : at'[j] = at[j]
  BY DEF TypeOK, Goto

-----------------------------------------------------------------------------
(* The initial state, and the steps that move no opportunity. *)

LEMMA InitEstablishes == Init => SearchInv
  <1> SUFFICES ASSUME Init
               PROVE  SearchInv
    OBVIOUS
  <1> USE SearchAssumption DEF Init
  <1>1. TypeOK
    BY DEF TypeOK, Numbers
  <1>2. TrainedOnce /\ ParentsAreTrained
    BY DEF TrainedOnce, Training, ParentsAreTrained, Opened
  <1>3. PoolIsTrained /\ OpenedInOrder
    BY ViewFacts DEF PoolIsTrained, OpenedInOrder, Opened
  <1> QED BY <1>1, <1>2, <1>3 DEF SearchInv

LEMMA StutterPreserves ==
    ASSUME SearchInv, UNCHANGED vars
    PROVE  SearchInv'
  BY DEF SearchInv, vars, opportunity, saved, TypeOK, TrainedOnce, Training, ArchitectureOf,
     ParentsAreTrained, PoolIsTrained, OpenedInOrder, Opened

LEMMA PreparePreserves ==
    ASSUME SearchInv, Prepare
    PROVE  SearchInv'
  <1> USE SearchAssumption DEF SearchInv, Prepare, opportunity
  <1>1. trained = {} /\ pool = {} /\ \A i \in Numbers : at[i] = "waiting"
    BY DEF OpenedInOrder
  <1>2. TypeOK'
    BY DEF TypeOK
  <1>3. TrainedOnce' /\ ParentsAreTrained'
    BY <1>1 DEF TrainedOnce, Training, ParentsAreTrained, Opened
  <1>4. PoolIsTrained' /\ OpenedInOrder'
    BY <1>1 DEF PoolIsTrained, OpenedInOrder, Opened
  <1> QED BY <1>2, <1>3, <1>4

LEMMA EvaluateSeedPreserves ==
    ASSUME SearchInv, NEW v \in ViewsOf(kind), EvaluateSeed(v)
    PROVE  SearchInv'
  <1> USE SearchAssumption DEF SearchInv, EvaluateSeed, saved
  <1>1. trained = {} /\ pool = {} /\ Seed \in registry /\ \A i \in Numbers : at[i] = "waiting"
    BY DEF OpenedInOrder
  <1>2. v \in {Rejected} \cup Views
    BY ViewFacts
  <1>3. /\ view'[0] = v /\ \A i \in (0 .. Opportunities) \ {0} : view'[i] = view[i]
        /\ view' \in [0 .. Opportunities -> {Rejected} \cup Views]
    BY <1>2 DEF TypeOK
  <1>4. pool' \subseteq Entries /\ \A e \in pool' : e.found = 0 /\ v.eligible
    BY <1>2, EntryFacts
  <1>5. ledger' \in Seq(Records)
    <2>1. Sequential => [number |-> 0, parent |-> 0, arch |-> Seed, view |-> v] \in Records
      BY <1>2 DEF Records
    <2> QED BY <2>1 DEF TypeOK
  <1>6. TypeOK'
    BY <1>3, <1>4, <1>5 DEF TypeOK
  <1>7. TrainedOnce' /\ ParentsAreTrained'
    BY <1>1 DEF TrainedOnce, Training, ParentsAreTrained, Opened, ArchitectureOf, Numbers
  <1>8. PoolIsTrained'
    BY <1>1, <1>3, <1>4 DEF PoolIsTrained
  <1>9. OpenedInOrder'
    BY <1>1 DEF OpenedInOrder, Opened, Numbers
  <1> QED BY <1>6, <1>7, <1>8, <1>9

\* SaveSeed, Close and Kill write files and the phase.
LEMMA WritePreserves ==
    ASSUME SearchInv, SaveSeed \/ Close \/ Kill
    PROVE  SearchInv'
  <1> USE SearchAssumption DEF SearchInv, opportunity, saved
  <1>1. /\ UNCHANGED <<kind, registry, at, parent, child, view, pool, ledger, trained>>
        /\ phase' \notin {"fresh", "prepared"}
    BY DEF SaveSeed, Close, Kill
  <1>2. TypeOK'
    <2>1. CASE SaveSeed
      BY <2>1 DEF TypeOK, SaveSeed
    <2>2. CASE Close
      <3>1. Best(pool) \subseteq Entries
        BY DEF Best, TypeOK
      <3>2. result' \in [completed : BOOLEAN, best : SUBSET Entries]
        BY <2>2, <3>1 DEF Close
      <3> QED BY <2>2, <3>2 DEF TypeOK, Close
    <2>3. CASE Kill
      BY <2>3 DEF TypeOK, Kill
    <2> QED BY <2>1, <2>2, <2>3
  <1>3. TrainedOnce' /\ ParentsAreTrained'
    BY <1>1 DEF TrainedOnce, Training, ParentsAreTrained, Opened, ArchitectureOf
  <1>4. PoolIsTrained' /\ OpenedInOrder'
    BY <1>1 DEF PoolIsTrained, OpenedInOrder, Opened
  <1> QED BY <1>2, <1>3, <1>4

-----------------------------------------------------------------------------
(* The steps of an opportunity. *)

LEMMA AskPreserves ==
    ASSUME SearchInv, NEW i \in Numbers, Ask(i)
    PROVE  SearchInv'
  <1> USE SearchAssumption DEF SearchInv
  <1>1. PICK e \in Choices :
          /\ parent' = [parent EXCEPT ![i] = e.found]
          /\ pool' = IF kind = "semantic"
                       THEN (pool \ {e}) \cup {[e EXCEPT !.uses = @ + 1]}
                       ELSE pool
    BY DEF Ask
  <1>2. UNCHANGED <<kind, phase, registry, child, view, ledger, saved, result, trained>>
    BY DEF Ask
  <1>3. /\ phase = "search" /\ at[i] = "waiting" /\ at'[i] = "asked"
        /\ \A j \in Numbers \ {i} : at'[j] = at[j]
    BY GotoFacts DEF Ask
  <1>4. /\ at' \in [Numbers -> {"waiting", "asked", "proposed", "claimed", "judged",
                               "recorded", "saved", "done", "lost"}]
        /\ \A j \in 1 .. (i - 1) : Opened(j)
    BY DEF Ask, Goto, TypeOK, InOrder, Opened
  <1>5. e \in pool /\ e \in Entries
    BY DEF Choices, LeastUsed, TypeOK
  <1>6. /\ pool' \subseteq Entries
        /\ \A x \in pool' : \E y \in pool : x.found = y.found
    <2> DEFINE used == [e EXCEPT !.uses = @ + 1]
    <2>1. used \in Entries /\ used.found = e.found
      BY <1>5 DEF Entries
    <2>2. pool' \subseteq pool \cup {used} /\ pool \subseteq Entries
      BY <1>1 DEF TypeOK
    <2> HIDE DEF used
    <2> QED BY <1>5, <2>1, <2>2
  <1>7. /\ e.found \in trained /\ view[e.found].eligible
        /\ e.found \in 0 .. Opportunities
    BY <1>5 DEF PoolIsTrained, TypeOK
  <1>8. e.found < i
    <2>1. i \in Nat /\ i >= 1 /\ i \in 1 .. Opportunities /\ Opportunities \in Nat
      BY DEF Numbers
    <2>2. e.found # 0 => e.found \in Numbers /\ Opened(e.found)
      BY <1>7, <2>1 DEF OpenedInOrder, Opened, Numbers
    <2>3. ~Opened(i)
      BY <1>3 DEF Opened
    <2> QED BY <1>7, <2>1, <2>2, <2>3 DEF OpenedInOrder
  <1>9. TypeOK'
    BY <1>1, <1>2, <1>4, <1>6, <1>7 DEF TypeOK, saved
  <1>10. TrainedOnce'
    BY <1>2, <1>3 DEF TrainedOnce, Training, ArchitectureOf
  <1>11. ParentsAreTrained'
    BY <1>1, <1>2, <1>3, <1>7, <1>8 DEF ParentsAreTrained, Opened, TypeOK
  <1>12. PoolIsTrained'
    BY <1>2, <1>3, <1>6 DEF PoolIsTrained
  <1>13. OpenedInOrder'
    BY <1>2, <1>3, <1>4 DEF OpenedInOrder, Opened, Numbers
  <1> QED BY <1>9, <1>10, <1>11, <1>12, <1>13

LEMMA AnswerPreserves ==
    ASSUME SearchInv, NEW i \in Numbers, NEW a \in Architectures \cup {NoArchitecture}, Answer(i, a)
    PROVE  SearchInv'
  <1> USE SearchAssumption DEF SearchInv, Answer
  <1>1. /\ phase = "search" /\ at[i] = "asked"
        /\ at'[i] = IF a = NoArchitecture THEN "judged" ELSE "proposed"
        /\ \A j \in Numbers \ {i} : at'[j] = at[j]
    BY GotoFacts
  <1>2. child'[i] = a /\ \A j \in Numbers \ {i} : child'[j] = child[j]
    BY DEF TypeOK
  <1>3. i \notin trained /\ i # 0
    BY <1>1 DEF OpenedInOrder, Numbers
  <1>4. TypeOK'
    BY DEF TypeOK, saved, Goto
  <1>5. TrainedOnce'
    BY <1>1, <1>2, <1>3 DEF TrainedOnce, Training, ArchitectureOf, Numbers, TypeOK
  <1>6. ParentsAreTrained' /\ PoolIsTrained'
    BY <1>1 DEF ParentsAreTrained, PoolIsTrained, Opened
  <1>7. OpenedInOrder'
    BY <1>1, <1>2, <1>3 DEF OpenedInOrder, Opened
  <1> QED BY <1>4, <1>5, <1>6, <1>7

LEMMA ClaimPreserves ==
    ASSUME SearchInv, NEW i \in Numbers, Claim(i)
    PROVE  SearchInv'
  <1> USE SearchAssumption DEF SearchInv
  <1>1. UNCHANGED <<kind, phase, parent, child, view, pool, ledger, saved, result, trained>>
    BY DEF Claim
  <1>2. /\ phase = "search" /\ at[i] = "proposed" /\ at'[i] \in {"judged", "claimed"}
        /\ \A j \in Numbers \ {i} : at'[j] = at[j]
        /\ at' \in [Numbers -> {"waiting", "asked", "proposed", "claimed", "judged",
                               "recorded", "saved", "done", "lost"}]
    BY GotoFacts DEF Claim, Goto, TypeOK
  <1>3. child[i] \in Architectures /\ i \notin trained /\ i # 0
    BY <1>2 DEF OpenedInOrder, Numbers, TypeOK
  <1>4. /\ at'[i] = "judged" => registry' = registry
        /\ at'[i] = "claimed" => child[i] \notin registry /\ registry' = registry \cup {child[i]}
    BY <1>2, GotoFacts DEF Claim
  <1>5. registry \subseteq registry' /\ registry' \subseteq Architectures
    BY <1>2, <1>3, <1>4 DEF TypeOK
  <1>6. TypeOK'
    BY <1>1, <1>2, <1>5 DEF TypeOK, saved
  <1>7. TrainedOnce'
    <2>1. Training' \subseteq Training \cup {i}
      BY <1>1, <1>2 DEF Training
    <2>2. \A j : ArchitectureOf(j)' = ArchitectureOf(j)
      BY <1>1 DEF ArchitectureOf
    <2>3. CASE at'[i] = "judged"
      BY <1>1, <1>2, <1>3, <1>5, <2>1, <2>2, <2>3 DEF TrainedOnce, Training
    <2>4. CASE at'[i] = "claimed"
      <3>1. \A j \in Training : ArchitectureOf(j) \in registry /\ ArchitectureOf(j) # child[i]
        BY <1>4, <2>4 DEF TrainedOnce
      <3>2. ArchitectureOf(i) = child[i] /\ child[i] \in registry'
        BY <1>3, <1>4, <2>4 DEF ArchitectureOf
      <3> QED BY <1>5, <2>1, <2>2, <3>1, <3>2 DEF TrainedOnce
    <2> QED BY <1>2, <2>3, <2>4
  <1>8. ParentsAreTrained' /\ PoolIsTrained'
    BY <1>1, <1>2 DEF ParentsAreTrained, PoolIsTrained, Opened
  <1>9. OpenedInOrder'
    BY <1>1, <1>2, <1>3 DEF OpenedInOrder, Opened
  <1> QED BY <1>6, <1>7, <1>8, <1>9

LEMMA TrainPreserves ==
    ASSUME SearchInv, NEW i \in Numbers, NEW v \in ViewsOf(kind), Train(i, v)
    PROVE  SearchInv'
  <1> USE SearchAssumption DEF SearchInv, Train
  <1>1. /\ phase = "search" /\ at[i] = "claimed" /\ at'[i] = "judged"
        /\ \A j \in Numbers \ {i} : at'[j] = at[j]
    BY GotoFacts
  <1>2. v \in {Rejected} \cup Views /\ i \in 0 .. Opportunities
    BY ViewFacts DEF Numbers
  <1>3. /\ view'[i] = v /\ \A j \in (0 .. Opportunities) \ {i} : view'[j] = view[j]
        /\ view' \in [0 .. Opportunities -> {Rejected} \cup Views]
    BY <1>2 DEF TypeOK
  <1>4. i \notin trained /\ child[i] # NoArchitecture
    BY <1>1 DEF OpenedInOrder
  <1>5. TypeOK'
    BY <1>2, <1>3 DEF TypeOK, saved, Goto
  <1>6. Training' = Training
    BY <1>1 DEF Training
  <1>7. TrainedOnce'
    BY <1>6 DEF TrainedOnce, ArchitectureOf
  <1>8. ParentsAreTrained'
    <2>1. \A j \in Numbers : parent[j] \in 0 .. Opportunities
      BY DEF TypeOK
    <2> QED BY <1>1, <1>3, <1>4, <2>1 DEF ParentsAreTrained, Opened
  <1>9. PoolIsTrained'
    <2>1. \A e \in pool : e.found \in trained /\ e.found \in 0 .. Opportunities
      BY DEF PoolIsTrained, TypeOK
    <2> QED BY <1>1, <1>3, <1>4, <2>1 DEF PoolIsTrained, Numbers
  <1>10. OpenedInOrder'
    BY <1>1, <1>4 DEF OpenedInOrder, Opened
  <1> QED BY <1>5, <1>7, <1>8, <1>9, <1>10

\* Record, SaveArchive, SaveIncumbent, Commit, AddChild and LoseChild train and
\* claim nothing: an opportunity goes on, and what joins the pool was eligible.
GoesOn(i) ==
    /\ UNCHANGED <<kind, phase, registry, parent, child, view, result, trained>>
    /\ phase = "search"
    /\ at[i] # "waiting" /\ at'[i] \in {"recorded", "saved", "done", "lost"}
    /\ \A j \in Numbers \ {i} : at'[j] = at[j]
    /\ at'[i] = "saved" => view[i].eligible
    /\ \A e \in pool' : e.found \in {f.found : f \in pool} \/ (e.found = i /\ view[i].eligible)

LEMMA GoingOnPreserves ==
    ASSUME SearchInv, NEW i \in Numbers, GoesOn(i), TypeOK'
    PROVE  SearchInv'
  <1> USE SearchAssumption DEF SearchInv, GoesOn
  <1>1. i \in 0 .. Opportunities
    BY DEF Numbers
  <1>2. TrainedOnce'
    BY DEF TrainedOnce, Training, ArchitectureOf
  <1>3. ParentsAreTrained'
    BY DEF ParentsAreTrained, Opened
  <1>4. PoolIsTrained'
    BY <1>1 DEF PoolIsTrained
  <1>5. OpenedInOrder'
    BY DEF OpenedInOrder, Opened
  <1> QED BY <1>2, <1>3, <1>4, <1>5

\* What an eligible child adds to the pool is an entry of its own.
LEMMA ChildFacts ==
    ASSUME SearchInv, NEW i \in Numbers, view[i].eligible
    PROVE  /\ Entry(i, child[i], view[i]) \in Entries
           /\ Entry(i, child[i], view[i]).found = i
  <1>1. i \in 0 .. Opportunities
    BY SearchAssumption DEF Numbers
  <1>2. i \in trained
    BY <1>1 DEF SearchInv, PoolIsTrained
  <1>3. child[i] \in Architectures /\ view[i] \in {Rejected} \cup Views
    BY <1>1, <1>2 DEF SearchInv, OpenedInOrder, TypeOK
  <1> QED BY <1>1, <1>3, EntryFacts

LEMMA RecordPreserves ==
    ASSUME SearchInv, NEW i \in Numbers, Record(i)
    PROVE  SearchInv'
  <1> USE SearchAssumption DEF SearchInv, Record
  <1>1. /\ phase = "search" /\ at[i] = "judged" /\ at'[i] = "recorded"
        /\ \A j \in Numbers \ {i} : at'[j] = at[j]
    BY GotoFacts
  <1>2. /\ pool' \subseteq Entries
        /\ \A e \in pool' : e \in pool \/ (e.found = i /\ view[i].eligible)
    <2>1. CASE kind = "semantic" /\ view[i].eligible
      <3> DEFINE entry == Entry(i, child[i], view[i])
      <3>1. entry \in Entries /\ entry.found = i
        BY <2>1, ChildFacts
      <3>2. pool' = Considered(pool, entry) /\ pool \subseteq Entries
        BY <2>1 DEF TypeOK
      <3> HIDE DEF entry
      <3> QED BY <2>1, <3>1, <3>2, ConsideredFacts
    <2>2. CASE ~(kind = "semantic" /\ view[i].eligible)
      BY <2>2 DEF TypeOK
    <2> QED BY <2>1, <2>2
  <1>3. [number |-> i, parent |-> parent[i], arch |-> child[i], view |-> view[i]] \in Records
    BY DEF Records, Numbers, TypeOK
  <1>4. ledger' \in Seq(Records)
    BY <1>3, AppendProperties DEF TypeOK
  <1>5. TypeOK'
    BY <1>2, <1>4 DEF TypeOK, saved, Goto
  <1>6. GoesOn(i)
    BY <1>1, <1>2 DEF GoesOn
  <1> QED BY <1>5, <1>6, GoingOnPreserves

LEMMA SavePreserves ==
    ASSUME SearchInv, NEW i \in Numbers, SaveArchive(i) \/ SaveIncumbent(i) \/ TruncateIncumbent(i) \/ LoseChild(i)
    PROVE  SearchInv'
  <1> USE SearchAssumption DEF SearchInv, saved
  <1>1. UNCHANGED <<kind, phase, registry, parent, child, view, pool, ledger, result, trained>>
    BY DEF SaveArchive, SaveIncumbent, TruncateIncumbent, LoseChild, opportunity
  <1>2. /\ phase = "search" /\ at[i] # "waiting" /\ at'[i] \in {"recorded", "saved", "done", "lost"}
        /\ at'[i] = "recorded" => at[i] = "recorded"
        /\ at'[i] = "saved" => view[i].eligible
        /\ \A j \in Numbers \ {i} : at'[j] = at[j]
        /\ at' \in [Numbers -> {"waiting", "asked", "proposed", "claimed", "judged",
                               "recorded", "saved", "done", "lost"}]
    BY DEF SaveArchive, SaveIncumbent, TruncateIncumbent, LoseChild, Goto, TypeOK, Accepts, opportunity
  <1>3. TypeOK'
    BY <1>1, <1>2 DEF TypeOK, SaveArchive, SaveIncumbent, TruncateIncumbent, LoseChild
  <1>4. GoesOn(i)
    BY <1>1, <1>2 DEF GoesOn
  <1> QED BY <1>3, <1>4, GoingOnPreserves

LEMMA AddPreserves ==
    ASSUME SearchInv, NEW i \in Numbers, Commit(i) \/ AddChild(i)
    PROVE  SearchInv'
  <1> USE SearchAssumption DEF SearchInv, saved
  <1>1. UNCHANGED <<kind, phase, registry, parent, child, view, ledger, archive, incumbent,
                    result, trained>>
    BY DEF Commit, AddChild
  <1>2. /\ phase = "search" /\ at[i] \in {"saved", "recorded"} /\ at'[i] = "done"
        /\ \A j \in Numbers \ {i} : at'[j] = at[j]
        /\ at' \in [Numbers -> {"waiting", "asked", "proposed", "claimed", "judged",
                               "recorded", "saved", "done", "lost"}]
    BY DEF Commit, AddChild, Goto, TypeOK
  <1>3. at[i] = "saved" => view[i].eligible
    BY DEF PoolIsTrained
  <1>4. /\ pool' \subseteq Entries
        /\ \A e \in pool' : e \in pool \/ (e.found = i /\ view[i].eligible)
    BY <1>3, ChildFacts DEF Commit, AddChild, Goto, TypeOK
  <1>5. accepted' \in Architectures \cup {NoArchitecture}
    BY DEF Commit, AddChild, TypeOK
  <1>6. TypeOK'
    BY <1>1, <1>2, <1>4, <1>5 DEF TypeOK
  <1>7. GoesOn(i)
    BY <1>1, <1>2, <1>4 DEF GoesOn
  <1> QED BY <1>6, <1>7, GoingOnPreserves

-----------------------------------------------------------------------------
\* Every step preserves the invariant.
LEMMA SearchPreserved ==
    ASSUME SearchInv, [Next]_vars
    PROVE  SearchInv'
  <1>1. CASE Prepare
    BY <1>1, PreparePreserves
  <1>2. CASE \E v \in ViewsOf(kind) : EvaluateSeed(v)
    BY <1>2, EvaluateSeedPreserves
  <1>3. CASE SaveSeed \/ Close \/ Kill
    BY <1>3, WritePreserves
  <1>4. ASSUME NEW i \in Numbers, Ask(i) \/ Claim(i) \/ Record(i)
        PROVE  SearchInv'
    BY <1>4, AskPreserves, ClaimPreserves, RecordPreserves
  <1>5. ASSUME NEW i \in Numbers, \E a \in Architectures \cup {NoArchitecture} : Answer(i, a)
        PROVE  SearchInv'
    BY <1>5, AnswerPreserves
  <1>6. ASSUME NEW i \in Numbers, \E v \in ViewsOf(kind) : Train(i, v)
        PROVE  SearchInv'
    BY <1>6, TrainPreserves
  <1>7. ASSUME NEW i \in Numbers, SaveArchive(i) \/ SaveIncumbent(i) \/ TruncateIncumbent(i) \/ LoseChild(i)
        PROVE  SearchInv'
    BY <1>7, SavePreserves
  <1>8. ASSUME NEW i \in Numbers, Commit(i) \/ AddChild(i)
        PROVE  SearchInv'
    BY <1>8, AddPreserves
  <1>9. CASE UNCHANGED vars
    BY <1>9, StutterPreserves
  <1> QED BY <1>1, <1>2, <1>3, <1>4, <1>5, <1>6, <1>7, <1>8, <1>9 DEF Next

\* Whatever a provider proposes and in whatever order workers end: the inductive
\* invariant of the native controllers; in particular no architecture is trained
\* twice, and every parent was trained, was eligible and precedes its child.
THEOREM SearchInvariant == Spec => []SearchInv
  <1>1. SearchInv /\ [Next]_vars => SearchInv'
    BY SearchPreserved
  <1> QED BY <1>1, InitEstablishes, PTL DEF Spec

-----------------------------------------------------------------------------
(* What is reported: TakenInTurn. *)

LEMMA AtType ==
    ASSUME TypeOK
    PROVE  /\ \A i \in Numbers : i \in Nat /\ i >= 1 /\ i <= Opportunities /\ Opportunities \in Nat
           /\ ledger \in Seq(Records) /\ Len(ledger) \in Nat /\ DOMAIN ledger = 1 .. Len(ledger)
  BY SearchAssumption DEF TypeOK, Numbers

\* The opportunity that a sequential controller is in is the only one.
LEMMA OneAtATime ==
    ASSUME TypeOK, TakenInTurn, Sequential, NEW i \in Numbers, at[i] # "done",
           Opened(i) \/ InOrder(i)
    PROVE  \A j \in Numbers : /\ j < i => at[j] = "done"
                              /\ j > i => at[j] = "waiting"
  <1>1. \A j \in Numbers : j < i => at[j] = "done"
    BY AtType DEF TakenInTurn, InOrder, Numbers
  <1> QED BY <1>1, AtType DEF TakenInTurn, Opened

\* A step of an opportunity that records nothing.
LEMMA TurnKept ==
    ASSUME TypeOK, TypeOK', TakenInTurn, NEW i \in Numbers, at[i] # "done",
           Sequential => Opened(i) \/ InOrder(i),
           \A j \in Numbers \ {i} : at'[j] = at[j],
           Recorded(i)' <=> Recorded(i),
           phase = "search", UNCHANGED <<kind, phase, ledger>>, pool # {} => pool' # {}
    PROVE  TakenInTurn'
  <1> SUFFICES ASSUME Sequential
               PROVE  TakenInTurn'
    BY DEF TakenInTurn, Sequential
  <1>1. \A j \in Numbers : /\ j < i => at[j] = "done"
                           /\ j > i => at[j] = "waiting"
    BY OneAtATime
  <1>2. \A j \in Numbers : Recorded(j)' <=> Recorded(j)
    BY DEF Recorded
  <1>3. \A j, k \in Numbers : Opened(j)' /\ k < j => at'[k] = "done"
    BY <1>1, AtType DEF Opened
  <1>4. \A j \in DOMAIN ledger : j # 1 => j - 1 \in Numbers
    <2> SUFFICES ASSUME NEW j \in DOMAIN ledger, j # 1
                 PROVE  j - 1 \in Numbers
      OBVIOUS
    <2>1. j \in Nat /\ j >= 1 /\ ledger[j] \in Records /\ ledger[j].number = j - 1
      BY AtType DEF TakenInTurn
    <2> QED BY <2>1, SearchAssumption DEF Records, Numbers
  <1> QED BY <1>2, <1>3, <1>4 DEF TakenInTurn, Sequential

\* The record of an opportunity is the next of the lineage.
LEMMA TurnRecorded ==
    ASSUME SearchInv, SearchInv', TakenInTurn, NEW i \in Numbers, Record(i)
    PROVE  TakenInTurn'
  <1> SUFFICES ASSUME Sequential
               PROVE  TakenInTurn'
    BY DEF TakenInTurn, Sequential, Record
  <1> USE DEF SearchInv
  <1>1. /\ phase = "search" /\ at[i] = "judged" /\ at'[i] = "recorded"
        /\ \A j \in Numbers \ {i} : at'[j] = at[j]
    BY GotoFacts DEF Record
  <1>2. \A j \in Numbers : /\ j < i => at[j] = "done"
                           /\ j > i => at[j] = "waiting"
    BY <1>1, OneAtATime DEF Opened
  <1>3. \A j \in DOMAIN ledger : j # 1 => j - 1 \in Numbers /\ j - 1 < i
    <2> SUFFICES ASSUME NEW j \in DOMAIN ledger, j # 1
                 PROVE  j - 1 \in Numbers /\ j - 1 < i
      OBVIOUS
    <2>1. j \in Nat /\ j >= 1 /\ ledger[j] \in Records /\ ledger[j].number = j - 1
      BY AtType DEF TakenInTurn
    <2>2. j - 1 \in Numbers /\ Recorded(j - 1)
      BY <2>1, SearchAssumption DEF Records, Numbers, TakenInTurn
    <2> QED BY <1>1, <1>2, <2>1, <2>2, AtType DEF Recorded
  <1>4. Len(ledger) = i
    <2>1. 1 \in DOMAIN ledger
      BY <1>1 DEF TakenInTurn
    <2>2. Len(ledger) <= i
      BY <1>3, <2>1, AtType
    <2>3. CASE i = 1
      BY <2>1, <2>2, <2>3, AtType
    <2>4. CASE i # 1
      <3>1. i - 1 \in Numbers /\ i - 1 < i
        BY <2>4, AtType DEF Numbers
      <3>2. i \in DOMAIN ledger
        BY <1>2, <3>1, AtType DEF TakenInTurn, Recorded
      <3> QED BY <2>2, <3>2, AtType
    <2> QED BY <2>3, <2>4
  <1> DEFINE record == [number |-> i, parent |-> parent[i], arch |-> child[i], view |-> view[i]]
  <1>5. /\ Len(ledger') = i + 1 /\ DOMAIN ledger' = 1 .. (i + 1)
        /\ \A j \in 1 .. i : ledger'[j] = ledger[j]
        /\ ledger'[i + 1].number = i
    <2>1. record \in Records
      BY SearchAssumption DEF Records, Numbers, TypeOK
    <2>2. ledger' = Append(ledger, record) /\ record.number = i
      BY DEF Record
    <2> HIDE DEF record
    <2> QED BY <1>4, <2>1, <2>2, AppendProperties, AtType
  <1>6. \A j \in Numbers : Recorded(j)' <=> Recorded(j) \/ j = i
    BY <1>1 DEF Recorded
  <1>7. \A j, k \in Numbers : Opened(j)' /\ k < j => at'[k] = "done"
    BY <1>1, <1>2, AtType DEF Opened
  <1>8. pool # {} => pool' # {}
    BY DEF Record, Considered
  <1>9. \A j \in Numbers : Recorded(j)' => j + 1 \in DOMAIN ledger'
    BY <1>1, <1>2, <1>5, <1>6, AtType DEF Recorded
  <1>10. \A j \in DOMAIN ledger' : ledger'[j].number = j - 1 /\ (j # 1 => Recorded(j - 1)')
    BY <1>3, <1>4, <1>5, <1>6, AtType DEF TakenInTurn
  <1>11. phase' = "search" => 1 \in DOMAIN ledger' /\ pool' # {}
    BY <1>1, <1>5, <1>8, AtType DEF TakenInTurn
  <1> QED BY <1>1, <1>7, <1>9, <1>10, <1>11 DEF TakenInTurn, Sequential, Record

LEMMA TurnPreserved ==
    ASSUME SearchInv, SearchInv', TakenInTurn, [Next]_vars
    PROVE  TakenInTurn'
  <1> USE DEF SearchInv
  <1>1. CASE Prepare
    <2>1. \A i \in Numbers : at[i] = "waiting"
      BY <1>1 DEF Prepare, OpenedInOrder
    <2> QED BY <1>1, <2>1 DEF Prepare, opportunity, TakenInTurn, Sequential, Opened, Recorded
  <1>2. ASSUME NEW v \in ViewsOf(kind), EvaluateSeed(v)
        PROVE  TakenInTurn'
    <2>1. \A i \in Numbers : at[i] = "waiting"
      BY <1>2 DEF EvaluateSeed, OpenedInOrder
    <2>2. Sequential => /\ DOMAIN ledger' = {1} /\ ledger'[1].number = 0
                        /\ phase' \in {"seeded", "search"} => pool' # {}
      BY <1>2 DEF EvaluateSeed, Sequential
    <2> QED BY <1>2, <2>1, <2>2 DEF EvaluateSeed, TakenInTurn, Sequential, Opened, Recorded
  <1>3. CASE SaveSeed \/ Close \/ Kill \/ UNCHANGED vars \/ \E i \in Numbers : TruncateIncumbent(i)
    <2>1. UNCHANGED <<kind, at, ledger, pool>> /\ (phase' = phase \/ phase' \notin {"seeded", "search"}
                                                    \/ phase = "seeded")
      BY <1>3 DEF SaveSeed, Close, Kill, TruncateIncumbent, vars, opportunity, saved
    <2> QED BY <2>1 DEF TakenInTurn, Sequential, Opened, Recorded
  <1>4. ASSUME NEW i \in Numbers, Ask(i)
        PROVE  TakenInTurn'
    <2>1. /\ phase = "search" /\ at[i] = "waiting" /\ at'[i] = "asked"
          /\ \A j \in Numbers \ {i} : at'[j] = at[j]
      BY <1>4, GotoFacts DEF Ask
    <2>2. InOrder(i) /\ UNCHANGED <<kind, phase, ledger>> /\ (pool # {} => pool' # {})
      BY <1>4 DEF Ask
    <2> QED BY <2>1, <2>2, TurnKept DEF Recorded
  <1>5. ASSUME NEW i \in Numbers,
               \/ \E a \in Architectures \cup {NoArchitecture} : Answer(i, a)
               \/ \E v \in ViewsOf(kind) : Train(i, v)
               \/ Claim(i)
        PROVE  TakenInTurn'
    <2>1. /\ phase = "search" /\ at[i] \in {"asked", "proposed", "claimed"}
          /\ at'[i] \in {"proposed", "claimed", "judged"}
          /\ \A j \in Numbers \ {i} : at'[j] = at[j]
      BY <1>5, GotoFacts DEF Answer, Train, Claim
    <2>2. UNCHANGED <<kind, phase, ledger, pool>>
      BY <1>5 DEF Answer, Train, Claim
    <2> QED BY <2>1, <2>2, TurnKept DEF Recorded, Opened
  <1>6. ASSUME NEW i \in Numbers, Record(i)
        PROVE  TakenInTurn'
    BY <1>6, TurnRecorded
  <1>7. ASSUME NEW i \in Numbers, SaveArchive(i) \/ SaveIncumbent(i) \/ Commit(i)
        PROVE  TakenInTurn'
    <2>1. /\ phase = "search" /\ at[i] \in {"recorded", "saved"} /\ at'[i] \in {"saved", "done"}
          /\ \A j \in Numbers \ {i} : at'[j] = at[j]
      BY <1>7, GotoFacts DEF SaveArchive, SaveIncumbent, Commit
    <2>2. UNCHANGED <<kind, phase, ledger>> /\ (pool # {} => pool' # {})
      BY <1>7 DEF SaveArchive, SaveIncumbent, Commit
    <2> QED BY <2>1, <2>2, TurnKept DEF Recorded, Opened
  <1>8. ASSUME NEW i \in Numbers, AddChild(i) \/ LoseChild(i)
        PROVE  TakenInTurn'
    BY <1>8 DEF AddChild, LoseChild, TakenInTurn, Sequential
  <1> QED BY <1>1, <1>2, <1>3, <1>4, <1>5, <1>6, <1>7, <1>8 DEF Next

-----------------------------------------------------------------------------
(* What is reported: PoolHasBest. *)

LEMMA ScoresAreNumbers ==
    ASSUME TypeOK
    PROVE  /\ \A i \in 0 .. Opportunities : view[i].eligible => view[i].score \in Nat
           /\ \A e \in Entries : e.score \in Nat /\ e.found \in Nat
           /\ Candidates \subseteq 0 .. Opportunities
           /\ \A i \in Candidates : i \in Nat /\ view[i].eligible /\ view[i].score \in Nat
  <1>1. \A i \in 0 .. Opportunities : view[i] = Rejected \/ view[i] \in Views
    BY DEF TypeOK
  <1>2. \A i \in 0 .. Opportunities : view[i].eligible => view[i].score \in Nat
    BY <1>1, ViewFacts, SearchAssumption
  <1>3. \A e \in Entries : e.score \in Nat /\ e.found \in Nat
    <2> TAKE e \in Entries
    <2>1. e.score \in Scores /\ e.found \in 0 .. Opportunities
      BY DEF Entries
    <2>2. e.score \in Nat
      BY <2>1, SearchAssumption
    <2>3. e.found \in Nat
      BY <2>1, SearchAssumption
    <2> QED BY <2>2, <2>3
  <1>4. Candidates \subseteq trained /\ \A i \in Candidates : view[i].eligible
    BY DEF Candidates
  <1>5. trained \subseteq 0 .. Opportunities /\ 0 .. Opportunities \subseteq Nat
    BY SearchAssumption DEF TypeOK
  <1> QED BY <1>2, <1>3, <1>4, <1>5

\* An opportunity that is not done is no candidate, whatever it does.
LEMMA CandidatesStay ==
    ASSUME TypeOK, NEW i \in Numbers, at[i] # "done", at'[i] # "done",
           \A j \in Numbers \ {i} : at'[j] = at[j],
           trained' = trained \/ trained' = trained \cup {i},
           \A j \in (0 .. Opportunities) \ {i} : view'[j] = view[j]
    PROVE  Candidates' = Candidates
  <1>1. i # 0 /\ i \in 0 .. Opportunities /\ trained \subseteq 0 .. Opportunities
    BY SearchAssumption DEF Numbers, TypeOK
  <1>2. i \notin Candidates /\ i \notin Candidates'
    BY <1>1 DEF Candidates
  <1>3. \A j \in 0 .. Opportunities : j # i => (j \in Candidates' <=> j \in Candidates)
    <2> SUFFICES ASSUME NEW j \in 0 .. Opportunities, j # i
                 PROVE  j \in Candidates' <=> j \in Candidates
      OBVIOUS
    <2>1. j = 0 \/ j \in Numbers
      BY SearchAssumption DEF Numbers
    <2> QED BY <2>1 DEF Candidates
  <1>4. Candidates \subseteq 0 .. Opportunities /\ Candidates' \subseteq 0 .. Opportunities
    BY <1>1 DEF Candidates
  <1>5. \A j : j \in Candidates' <=> j \in Candidates
    BY <1>2, <1>3, <1>4
  <1> QED BY <1>5

\* A step that ends no opportunity and adds nothing to the pool.
LEMMA PoolKept ==
    ASSUME TypeOK, PoolHasBest, UNCHANGED kind,
           kind \in {"greedy", "openevolve"} =>
              /\ Candidates' = Candidates /\ pool' = pool
              /\ \A i \in Candidates : view'[i] = view[i]
              /\ \A i \in Numbers : at'[i] = "saved" => at[i] = "saved" /\ view'[i] = view[i]
    PROVE  PoolHasBest'
  <1> SUFFICES ASSUME kind \in {"greedy", "openevolve"}
               PROVE  PoolHasBest'
    BY DEF PoolHasBest
  <1>1. \A i \in Numbers : at'[i] = "saved" => kind' = "greedy" /\ Accepts(view[i])'
    BY DEF PoolHasBest, Accepts
  <1>2. \A e \in pool : view'[e.found] = view[e.found]
    BY DEF PoolHasBest
  <1> QED BY <1>1, <1>2 DEF PoolHasBest

\* A child that is done joins the candidates.
LEMMA CandidateDone ==
    ASSUME SearchInv, NEW i \in Numbers, at[i] # "done", at'[i] = "done",
           \A j \in Numbers \ {i} : at'[j] = at[j], UNCHANGED <<view, trained>>
    PROVE  /\ Candidates' = IF view[i].eligible THEN Candidates \cup {i} ELSE Candidates
           /\ i \notin Candidates
  <1>1. i # 0 /\ i \in 0 .. Opportunities /\ trained \subseteq 0 .. Opportunities
    BY SearchAssumption DEF Numbers, SearchInv, TypeOK
  <1>2. view[i].eligible => i \in trained
    BY <1>1 DEF SearchInv, PoolIsTrained
  <1>3. i \notin Candidates /\ (i \in Candidates' <=> view[i].eligible)
    BY <1>1, <1>2 DEF Candidates
  <1>4. \A j \in trained : j # i => (j \in Candidates' <=> j \in Candidates)
    <2>1. \A j \in trained : j = 0 \/ j \in Numbers
      BY <1>1, SearchAssumption DEF Numbers
    <2> QED BY <2>1 DEF Candidates
  <1>5. Candidates \subseteq trained /\ Candidates' \subseteq trained
    BY DEF Candidates
  <1> QED BY <1>3, <1>4, <1>5

LEMMA PoolSaved ==
    ASSUME SearchInv, SearchInv', TakenInTurn, PoolHasBest, NEW i \in Numbers, SaveIncumbent(i)
    PROVE  PoolHasBest'
  <1> USE DEF SearchInv
  <1> SUFFICES ASSUME kind = "greedy"
               PROVE  PoolHasBest'
    BY DEF SaveIncumbent, PoolHasBest
  <1>1. /\ phase = "search" /\ at[i] = "recorded"
        /\ at'[i] = IF Accepts(view[i]) THEN "saved" ELSE "done"
        /\ \A j \in Numbers \ {i} : at'[j] = at[j]
        /\ UNCHANGED <<kind, view, pool, trained>>
    BY GotoFacts DEF SaveIncumbent
  <1>2. \A j \in Numbers : j # i => at[j] # "saved"
    BY <1>1, OneAtATime, AtType DEF Opened, Sequential
  <1>3. CASE Accepts(view[i])
    <2>1. Candidates' = Candidates
      BY <1>1, <1>3, CandidatesStay
    <2>2. Accepts(view[i])'
      BY <1>1, <1>3 DEF Accepts
    <2> QED BY <1>1, <1>2, <2>1, <2>2 DEF PoolHasBest
  <1>4. CASE ~Accepts(view[i])
    <2>1. /\ Candidates' = IF view[i].eligible THEN Candidates \cup {i} ELSE Candidates
          /\ i \notin Candidates
      BY <1>1, <1>4, CandidateDone
    <2>2. view[i].eligible => \E e \in pool : Precedes(view[e.found], e.found, view[i], i)
      <3> SUFFICES ASSUME view[i].eligible
                   PROVE  \E e \in pool : Precedes(view[e.found], e.found, view[i], i)
        OBVIOUS
      <3>1. PICK e \in pool : ~(view[i].score > e.score)
        BY <1>4 DEF Accepts
      <3>2. e \in Entries /\ e.found \in Candidates /\ e.score = view[e.found].score
        BY DEF PoolHasBest, TypeOK
      <3>3. view[i].score \in Nat /\ view[e.found].score \in Nat /\ e.found \in Nat
        BY <3>2, ScoresAreNumbers, SearchAssumption DEF Numbers
      <3>4. e.found < i
        <4>1. e.found # 0 => e.found \in Numbers /\ at[e.found] = "done"
          BY <3>2, ScoresAreNumbers, SearchAssumption DEF Candidates, Numbers
        <4> QED BY <1>1, <3>3, <4>1, OneAtATime, AtType DEF Opened, Sequential
      <3> QED BY <3>1, <3>2, <3>3, <3>4 DEF Precedes
    <2>3. \A j \in Numbers : at'[j] # "saved"
      BY <1>1, <1>2, <1>4
    <2>4. \A j \in Candidates' : \E e \in pool :
             e.found = j \/ Precedes(view[e.found], e.found, view[j], j)
      BY <2>1, <2>2 DEF PoolHasBest
    <2> QED BY <1>1, <2>1, <2>3, <2>4 DEF PoolHasBest
  <1> QED BY <1>3, <1>4

\* What is accepted is better than everything before it.
LEMMA PoolCommitted ==
    ASSUME SearchInv, SearchInv', TakenInTurn, PoolHasBest, NEW i \in Numbers, Commit(i)
    PROVE  PoolHasBest'
  <1> USE DEF SearchInv
  <1> SUFFICES ASSUME kind \in {"greedy", "openevolve"}
               PROVE  PoolHasBest'
    BY DEF Commit, PoolHasBest
  <1>1. /\ phase = "search" /\ at[i] = "saved" /\ at'[i] = "done"
        /\ \A j \in Numbers \ {i} : at'[j] = at[j]
        /\ UNCHANGED <<kind, view, trained>>
        /\ pool' = {Entry(i, child[i], view[i])}
    BY GotoFacts DEF Commit
  <1>2. kind = "greedy" /\ view[i].eligible /\ \A f \in pool : view[i].score > f.score
    BY <1>1 DEF PoolHasBest, Accepts
  <1>3. \A j \in Numbers : j # i => at[j] # "saved"
    BY <1>1, <1>2, OneAtATime, AtType DEF Opened, Sequential
  <1>4. Candidates' = Candidates \cup {i}
    BY <1>1, <1>2, CandidateDone
  <1>5. Entry(i, child[i], view[i]).found = i /\ Entry(i, child[i], view[i]).score = view[i].score
    BY DEF Entry
  <1>6. \A j \in Candidates : Precedes(view[i], i, view[j], j)
    <2> SUFFICES ASSUME NEW j \in Candidates
                 PROVE  view[i].score > view[j].score
      BY DEF Precedes
    <2>1. PICK e \in pool : e.found = j \/ Precedes(view[e.found], e.found, view[j], j)
      BY <1>2 DEF PoolHasBest
    <2>2. e.found \in Candidates /\ e.score = view[e.found].score /\ view[i].score > e.score
      BY <1>2 DEF PoolHasBest
    <2>3. view[i].score \in Nat /\ view[j].score \in Nat /\ view[e.found].score \in Nat
      BY <1>2, <2>2, ScoresAreNumbers, SearchAssumption DEF Numbers
    <2> QED BY <2>1, <2>2, <2>3 DEF Precedes
  <1> QED BY <1>1, <1>2, <1>3, <1>4, <1>5, <1>6 DEF PoolHasBest

LEMMA PoolJoined ==
    ASSUME SearchInv, SearchInv', PoolHasBest, NEW i \in Numbers, AddChild(i)
    PROVE  PoolHasBest'
  <1> USE DEF SearchInv
  <1> DEFINE entry == Entry(i, child[i], view[i])
  <1>1. /\ kind = "openevolve" \/ kind \notin {"greedy", "openevolve"}
        /\ at[i] = "recorded" /\ at'[i] = "done"
        /\ \A j \in Numbers \ {i} : at'[j] = at[j]
        /\ UNCHANGED <<kind, view, trained>>
        /\ pool' = IF view[i].eligible THEN pool \cup {entry} ELSE pool
    BY GotoFacts DEF AddChild, Sequential
  <1>2. /\ Candidates' = IF view[i].eligible THEN Candidates \cup {i} ELSE Candidates
        /\ i \notin Candidates
    BY <1>1, CandidateDone
  <1>3. entry.found = i /\ entry.score = view[i].score
    BY DEF Entry
  <1> HIDE DEF entry
  <1> QED BY <1>1, <1>2, <1>3 DEF PoolHasBest

LEMMA PoolPreserved ==
    ASSUME SearchInv, SearchInv', TakenInTurn, PoolHasBest, [Next]_vars
    PROVE  PoolHasBest'
  <1> USE DEF SearchInv
  <1>1. CASE \/ Prepare \/ SaveSeed \/ Close \/ Kill \/ UNCHANGED vars
             \/ \E i \in Numbers : TruncateIncumbent(i)
    <2>1. UNCHANGED <<kind, at, view, pool, trained>>
      BY <1>1 DEF Prepare, SaveSeed, Close, Kill, TruncateIncumbent, vars, opportunity, saved
    <2> QED BY <2>1, PoolKept DEF Candidates
  <1>2. ASSUME NEW v \in ViewsOf(kind), EvaluateSeed(v)
        PROVE  PoolHasBest'
    <2>1. \A i \in Numbers : at[i] = "waiting"
      BY <1>2 DEF EvaluateSeed, OpenedInOrder
    <2>2. view'[0] = v /\ trained' = {0} /\ UNCHANGED <<kind, at>>
          /\ pool' = IF v.eligible THEN {Entry(0, Seed, v)} ELSE {}
      BY <1>2, SearchAssumption DEF EvaluateSeed, TypeOK
    <2>3. Candidates' = IF v.eligible THEN {0} ELSE {}
      BY <2>2 DEF Candidates
    <2>4. Entry(0, Seed, v).found = 0 /\ Entry(0, Seed, v).score = v.score
      BY DEF Entry
    <2> QED BY <2>1, <2>2, <2>3, <2>4 DEF PoolHasBest
  <1>3. ASSUME NEW i \in Numbers,
               \/ Ask(i) \/ Claim(i) \/ Record(i) \/ LoseChild(i)
               \/ \E a \in Architectures \cup {NoArchitecture} : Answer(i, a)
        PROVE  PoolHasBest'
    <2>1. /\ at[i] # "done" /\ at'[i] \notin {"done", "saved"}
          /\ \A j \in Numbers \ {i} : at'[j] = at[j]
      BY <1>3, GotoFacts DEF Ask, Claim, Record, LoseChild, Answer
    <2>2. UNCHANGED <<kind, view, trained>> /\ (kind # "semantic" => pool' = pool)
      BY <1>3 DEF Ask, Claim, Record, LoseChild, Answer
    <2>3. Candidates' = Candidates
      BY <2>1, <2>2, CandidatesStay
    <2> QED BY <2>1, <2>2, <2>3, PoolKept
  <1>4. ASSUME NEW i \in Numbers, NEW v \in ViewsOf(kind), Train(i, v)
        PROVE  PoolHasBest'
    <2>1. /\ at[i] = "claimed" /\ at'[i] = "judged"
          /\ \A j \in Numbers \ {i} : at'[j] = at[j]
      BY <1>4, GotoFacts DEF Train
    <2>2. /\ UNCHANGED <<kind, pool>> /\ trained' = trained \cup {i} /\ i # 0
          /\ \A j \in (0 .. Opportunities) \ {i} : view'[j] = view[j]
      BY <1>4, SearchAssumption DEF Train, TypeOK, Numbers
    <2>3. Candidates' = Candidates
      BY <2>1, <2>2, CandidatesStay
    <2>4. i \notin Candidates /\ Candidates \subseteq 0 .. Opportunities
      BY <2>1, <2>2, ScoresAreNumbers DEF Candidates
    <2>5. \A j \in Numbers : at'[j] = "saved" => at[j] = "saved" /\ view'[j] = view[j]
      BY <2>1, <2>2, SearchAssumption DEF Numbers
    <2> QED BY <2>2, <2>3, <2>4, <2>5, PoolKept
  <1>5. ASSUME NEW i \in Numbers, SaveArchive(i)
        PROVE  PoolHasBest'
    BY <1>5 DEF SaveArchive, PoolHasBest
  <1>6. ASSUME NEW i \in Numbers, SaveIncumbent(i) \/ Commit(i) \/ AddChild(i)
        PROVE  PoolHasBest'
    BY <1>6, PoolSaved, PoolCommitted, PoolJoined
  <1> QED BY <1>1, <1>2, <1>3, <1>4, <1>5, <1>6 DEF Next

-----------------------------------------------------------------------------
(* The report itself. *)

\* The best entry of the pool is the first of the best candidates.
LEMMA BestIsFirst ==
    ASSUME TypeOK, PoolHasBest, kind \in {"greedy", "openevolve"}
    PROVE  {e.found : e \in Best(pool)} =
             {i \in Candidates : \A j \in Candidates \ {i} : Precedes(view[i], i, view[j], j)}
  <1>1. /\ \A e \in pool : /\ e.found \in Candidates /\ e.score = view[e.found].score
                           /\ e.found \in Nat /\ e.score \in Nat
        /\ \A i \in Candidates : i \in Nat /\ view[i].score \in Nat
    BY ScoresAreNumbers DEF PoolHasBest, TypeOK
  <1>2. ASSUME NEW e \in Best(pool), NEW j \in Candidates \ {e.found}
        PROVE  Precedes(view[e.found], e.found, view[j], j)
    <2>1. PICK f \in pool : f.found = j \/ Precedes(view[f.found], f.found, view[j], j)
      BY DEF PoolHasBest
    <2>2. e \in pool /\ (f # e => Better(e, f))
      BY DEF Best
    <2> QED BY <1>1, <2>1, <2>2 DEF Better, Precedes
  <1>3. ASSUME NEW i \in Candidates, \A j \in Candidates \ {i} : Precedes(view[i], i, view[j], j)
        PROVE  \E e \in Best(pool) : e.found = i
    <2>1. PICK e \in pool : e.found = i \/ Precedes(view[e.found], e.found, view[i], i)
      BY DEF PoolHasBest
    <2>2. e.found = i
      BY <1>1, <1>3, <2>1 DEF Precedes
    <2>3. \A f \in pool \ {e} : Better(e, f)
      <3> SUFFICES ASSUME NEW f \in pool \ {e}
                   PROVE  Better(e, f)
        OBVIOUS
      <3>1. f.found # i
        BY <2>2 DEF PoolHasBest
      <3> QED BY <1>1, <1>3, <2>2, <3>1 DEF Better, Precedes
    <2> QED BY <2>2, <2>3 DEF Best
  <1>4. Best(pool) \subseteq pool
    BY DEF Best
  <1> QED BY <1>1, <1>2, <1>3, <1>4

LEMMA ReportPreserved ==
    ASSUME SearchInv, SearchInv', TakenInTurn, PoolHasBest, ResultIsTrue, [Next]_vars
    PROVE  ResultIsTrue'
  <1> USE DEF SearchInv
  <1>1. CASE Close
    <2>1. /\ phase = "search" /\ UNCHANGED <<kind, at, view, trained, ledger, pool>>
          /\ \A i \in Numbers : at[i] \in {"waiting", "done", "lost"} /\ (Sequential => at[i] = "done")
          /\ result' = [completed |-> /\ pool # {}
                                      /\ \A i \in Numbers :
                                           Cardinality({j \in DOMAIN ledger : ledger[j].number = i}) = 1,
                        best |-> Best(pool)]
      BY <1>1 DEF Close, Underway, opportunity
    <2>2. Sequential => \A i \in Numbers : Cardinality({j \in DOMAIN ledger : ledger[j].number = i}) = 1
      <3> SUFFICES ASSUME Sequential, NEW i \in Numbers
                   PROVE  Cardinality({j \in DOMAIN ledger : ledger[j].number = i}) = 1
        OBVIOUS
      <3>1. i + 1 \in DOMAIN ledger /\ \A j \in DOMAIN ledger : ledger[j].number = j - 1
        BY <2>1 DEF TakenInTurn, Recorded
      <3>2. {j \in DOMAIN ledger : ledger[j].number = i} = {i + 1}
        BY <3>1, AtType
      <3> QED BY <3>2, FS_Singleton
    <2>3. Sequential => pool # {}
      BY <2>1 DEF TakenInTurn
    <2>4. Candidates = {i \in trained : view[i].eligible /\ (i = 0 \/ at[i] # "lost")}
      <3>1. \A i \in trained : i = 0 \/ (i \in Numbers /\ at[i] \in {"done", "lost"})
        <4>1. \A i \in trained : i = 0 \/ i \in Numbers
          BY SearchAssumption DEF TypeOK, Numbers
        <4> QED BY <2>1, <4>1 DEF OpenedInOrder
      <3> QED BY <3>1 DEF Candidates
    <2>5. kind \in {"greedy", "openevolve"} =>
             {e.found : e \in Best(pool)} =
               {i \in Candidates : \A j \in Candidates \ {i} : Precedes(view[i], i, view[j], j)}
      BY BestIsFirst
    <2> QED BY <2>1, <2>2, <2>3, <2>4, <2>5 DEF ResultIsTrue, Sequential, Precedes
  <1>2. CASE phase' # "closed"
    BY <1>2 DEF ResultIsTrue
  <1>3. CASE UNCHANGED vars
    BY <1>3 DEF vars, opportunity, saved, ResultIsTrue, Sequential
  <1>4. CASE ~Close /\ Next
    <2>1. phase' # "closed"
      BY <1>4 DEF Next, Prepare, EvaluateSeed, SaveSeed, Kill, Ask, Claim, Record, Answer, Train,
         SaveArchive, TruncateIncumbent, SaveIncumbent, Commit, AddChild, LoseChild, Goto
    <2> QED BY <1>2, <2>1
  <1> QED BY <1>1, <1>3, <1>4

\* A controller that reports its end has ended every opportunity once, and its
\* best candidate is the first of the best, whatever order the workers came in.
THEOREM ReportsAreTrue == Spec => []ResultIsTrue
  <1>1. Init => ResultInv
    <2>1. Init => TakenInTurn /\ PoolHasBest /\ ResultIsTrue
      BY DEF Init, TakenInTurn, PoolHasBest, ResultIsTrue, Opened, Recorded, Candidates, Sequential
    <2> QED BY <2>1, InitEstablishes DEF ResultInv
  <1>2. SearchInv' /\ ResultInv /\ [Next]_vars => ResultInv'
    BY TurnPreserved, PoolPreserved, ReportPreserved DEF ResultInv
  <1>3. ResultInv => ResultIsTrue
    BY DEF ResultInv
  <1> QED BY <1>1, <1>2, <1>3, SearchInvariant, PTL DEF Spec

-----------------------------------------------------------------------------
(* What the lineage explains: the records that are kept. *)

\* The operators on lineages, with the variables they read as parameters.
OutranksBy(c, l, j, k) ==
    \/ l[j].view.score > l[k].view.score
    \/ l[j].view.score = l[k].view.score /\ (j < k <=> c # "plateau")

KeptAtBy(c, l) ==
    {j \in DOMAIN l : l[j].view.eligible /\
        \A k \in DOMAIN l \ {j} :
            l[k].view.eligible /\ l[k].view.cell = l[j].view.cell => OutranksBy(c, l, j, k)}

KeptBy(c, l) == {l[j] : j \in KeptAtBy(c, l)}

HeadBy(c, l) == {r.arch : r \in KeptBy(c, l)}

UsesBy(w, l, c) == Cardinality({j \in DOMAIN l \ {1} : w[l[j].parent].cell = c})

ArchiveBy(c, w, l) == {EntryOf(r, UsesBy(w, l, r.view.cell)) : r \in KeptBy(c, l)}

FairBy(l, p) ==
    LET Found(e) == {j \in DOMAIN l : l[j].view.eligible /\ l[j].view.cell = e.cell}
    IN  \A e, f \in p :
          (\E j \in Found(f) : \A k \in Found(e) : j < k) => e.uses <= f.uses + 1

\* Of each cell there is a record that outranks the others.
CellsHaveBest(c, l) ==
    \A k \in DOMAIN l : l[k].view.eligible =>
        \E j \in KeptAtBy(c, l) : /\ l[j].view.cell = l[k].view.cell
                                  /\ (j = k \/ OutranksBy(c, l, j, k))

\* The score v takes the cell from the score w.
Surpasses(c, v, w) == v.score > w.score \/ (v.score = w.score /\ c = "plateau")

\* The record r is kept when it is appended to the lineage l.
Takes(c, l, r) ==
    /\ r.view.eligible
    /\ \A q \in KeptBy(c, l) : q.view.cell = r.view.cell => Surpasses(c, r.view, q.view)

\* The scores of eligible records are numbers.
LEMMA RecordScores ==
    ASSUME NEW r \in Records
    PROVE  /\ r.view.eligible => r.view.score \in Nat /\ r.view.cell \in Cells
           /\ r.number \in Nat /\ r.parent \in Nat
           /\ r.number \in 0 .. Opportunities /\ r.parent \in 0 .. Opportunities
  <1>1. /\ r.view \in {Rejected} \cup Views
        /\ r.number \in 0 .. Opportunities /\ r.parent \in 0 .. Opportunities
    BY DEF Records
  <1>2. r.view.eligible => r.view.score \in Nat /\ r.view.cell \in Cells
    BY <1>1, ViewFacts, SearchAssumption
  <1> QED BY <1>1, <1>2, SearchAssumption

\* Two records of a cell are not both kept.
LEMMA KeptOnce ==
    ASSUME NEW c, NEW l \in Seq(Records), NEW j \in KeptAtBy(c, l), NEW k \in KeptAtBy(c, l),
           l[j].view.cell = l[k].view.cell
    PROVE  j = k
  <1> SUFFICES ASSUME j # k PROVE FALSE
    OBVIOUS
  <1>1. /\ j \in DOMAIN l /\ k \in DOMAIN l /\ l[j].view.eligible /\ l[k].view.eligible
        /\ OutranksBy(c, l, j, k) /\ OutranksBy(c, l, k, j)
    BY DEF KeptAtBy
  <1>2. j \in Nat /\ k \in Nat /\ l[j] \in Records /\ l[k] \in Records
    BY <1>1, LenProperties, ElementOfSeq
  <1>3. l[j].view.score \in Nat /\ l[k].view.score \in Nat
    BY <1>1, <1>2, RecordScores
  <1> QED BY <1>1, <1>2, <1>3 DEF OutranksBy

\* What is kept of a lineage with one more record.
LEMMA KeptAppended ==
    ASSUME NEW c, NEW l \in Seq(Records), NEW r \in Records, CellsHaveBest(c, l)
    PROVE  /\ KeptBy(c, Append(l, r)) =
                IF Takes(c, l, r) THEN {q \in KeptBy(c, l) : q.view.cell # r.view.cell} \cup {r}
                                  ELSE KeptBy(c, l)
           /\ CellsHaveBest(c, Append(l, r))
  <1> DEFINE n == Len(l)
             u == Append(l, r)
             K == KeptAtBy(c, l)
             Rival(k) == l[k].view.eligible /\ l[k].view.cell = r.view.cell
  <1>1. /\ n \in Nat /\ DOMAIN l = 1 .. n /\ DOMAIN u = 1 .. n + 1 /\ n + 1 \notin 1 .. n
        /\ \A j \in 1 .. n : u[j] = l[j] /\ l[j] \in Records /\ j < n + 1 /\ j \in Nat
        /\ u[n + 1] = r
        /\ \A j \in 1 .. n + 1 : j \in 1 .. n \/ j = n + 1
    <2>1. n \in Nat /\ DOMAIN l = 1 .. n
      BY LenProperties
    <2>2. Len(u) = n + 1 /\ u \in Seq(Records) /\ u[n + 1] = r /\ \A j \in 1 .. n : u[j] = l[j]
      BY AppendProperties
    <2>3. DOMAIN u = 1 .. n + 1
      BY <2>2, LenProperties
    <2> QED BY <2>1, <2>2, <2>3, ElementOfSeq
  <1> HIDE DEF n, u
  <1>2. /\ \A j \in 1 .. n : l[j].view.eligible => l[j].view.score \in Nat
        /\ r.view.eligible => r.view.score \in Nat
    BY <1>1, RecordScores
  <1>3. \A j, k \in 1 .. n : OutranksBy(c, u, j, k) <=> OutranksBy(c, l, j, k)
    BY <1>1 DEF OutranksBy
  <1>4. \A k \in 1 .. n : OutranksBy(c, u, n + 1, k) <=> Surpasses(c, r.view, l[k].view)
    BY <1>1 DEF OutranksBy, Surpasses
  <1>5. \A k \in 1 .. n : l[k].view.eligible /\ r.view.eligible =>
           (OutranksBy(c, u, k, n + 1) <=> ~Surpasses(c, r.view, l[k].view))
    BY <1>1, <1>2 DEF OutranksBy, Surpasses
  <1>6. K \subseteq 1 .. n /\ \A j \in K : l[j].view.eligible
    BY <1>1 DEF KeptAtBy
  <1>7. \A j \in 1 .. n : j \in KeptAtBy(c, u) <=>
            j \in K /\ (r.view.eligible /\ r.view.cell = l[j].view.cell
                          => ~Surpasses(c, r.view, l[j].view))
    <2> SUFFICES ASSUME NEW j \in 1 .. n
                 PROVE  j \in KeptAtBy(c, u) <=>
                          j \in K /\ (r.view.eligible /\ r.view.cell = l[j].view.cell
                                        => ~Surpasses(c, r.view, l[j].view))
      OBVIOUS
    <2>1. j \in KeptAtBy(c, u) <=>
            /\ l[j].view.eligible
            /\ \A k \in 1 .. n : k # j =>
                 (l[k].view.eligible /\ l[k].view.cell = l[j].view.cell => OutranksBy(c, u, j, k))
            /\ r.view.eligible /\ r.view.cell = l[j].view.cell => OutranksBy(c, u, j, n + 1)
      BY <1>1 DEF KeptAtBy
    <2>2. j \in K <=>
            /\ l[j].view.eligible
            /\ \A k \in 1 .. n : k # j =>
                 (l[k].view.eligible /\ l[k].view.cell = l[j].view.cell => OutranksBy(c, l, j, k))
      BY <1>1 DEF KeptAtBy
    <2> QED BY <1>3, <1>5, <2>1, <2>2
  <1>8. n + 1 \in KeptAtBy(c, u) <=>
           r.view.eligible /\ \A k \in 1 .. n : Rival(k) => Surpasses(c, r.view, l[k].view)
    <2>1. n + 1 \in KeptAtBy(c, u) <=>
            /\ r.view.eligible
            /\ \A k \in 1 .. n : Rival(k) => OutranksBy(c, u, n + 1, k)
      BY <1>1 DEF KeptAtBy
    <2> QED BY <1>4, <2>1
  <1>9. Takes(c, l, r) <=>
           r.view.eligible /\ \A j \in K : l[j].view.cell = r.view.cell
                                             => Surpasses(c, r.view, l[j].view)
    BY DEF Takes, KeptBy
  <1>10. n + 1 \in KeptAtBy(c, u) <=> Takes(c, l, r)
    <2>1. ASSUME Takes(c, l, r), NEW k \in 1 .. n, Rival(k)
          PROVE  Surpasses(c, r.view, l[k].view)
      <3>1. PICK j \in K : /\ l[j].view.cell = l[k].view.cell
                           /\ (j = k \/ OutranksBy(c, l, j, k))
        BY <1>1, <2>1 DEF CellsHaveBest
      <3>2. Surpasses(c, r.view, l[j].view)
        BY <1>9, <2>1, <3>1
      <3>3. /\ r.view.score \in Nat /\ l[j].view.score \in Nat /\ l[k].view.score \in Nat
        BY <1>2, <1>6, <1>9, <2>1
      <3> QED BY <3>1, <3>2, <3>3 DEF Surpasses, OutranksBy
    <2> QED BY <1>6, <1>8, <1>9, <2>1
  <1>11. KeptAtBy(c, u) = IF Takes(c, l, r) THEN {j \in K : l[j].view.cell # r.view.cell} \cup {n + 1}
                                            ELSE K
    <2>1. KeptAtBy(c, u) \subseteq 1 .. n + 1
      BY <1>1 DEF KeptAtBy
    <2>2. CASE Takes(c, l, r)
      <3>1. \A j \in 1 .. n : j \in KeptAtBy(c, u) <=> j \in K /\ l[j].view.cell # r.view.cell
        BY <1>7, <1>9, <2>2
      <3> QED BY <1>1, <1>6, <1>10, <2>1, <2>2, <3>1
    <2>3. CASE ~Takes(c, l, r)
      <3>1. \A j \in K : r.view.eligible /\ r.view.cell = l[j].view.cell
                           => ~Surpasses(c, r.view, l[j].view)
        <4> SUFFICES ASSUME NEW j \in K, r.view.eligible, r.view.cell = l[j].view.cell
                     PROVE  ~Surpasses(c, r.view, l[j].view)
          OBVIOUS
        <4>1. PICK m \in K : /\ l[m].view.cell = r.view.cell
                             /\ ~Surpasses(c, r.view, l[m].view)
          BY <1>9, <2>3
        <4>2. m = j
          BY <4>1, KeptOnce
        <4> QED BY <4>1, <4>2
      <3>2. \A j \in 1 .. n : j \in KeptAtBy(c, u) <=> j \in K
        BY <1>7, <3>1
      <3>3. n + 1 \notin KeptAtBy(c, u)
        BY <1>10, <2>3
      <3>4. KeptAtBy(c, u) \subseteq 1 .. n
        BY <1>1, <2>1, <3>3
      <3> HIDE DEF K
      <3>5. KeptAtBy(c, u) = K
        BY <1>6, <3>2, <3>4
      <3> QED BY <2>3, <3>5
    <2> QED BY <2>2, <2>3
  <1>12. KeptBy(c, u) = IF Takes(c, l, r) THEN {q \in KeptBy(c, l) : q.view.cell # r.view.cell} \cup {r}
                                          ELSE KeptBy(c, l)
    <2>1. KeptBy(c, u) = {u[j] : j \in KeptAtBy(c, u)} /\ KeptBy(c, l) = {l[j] : j \in K}
      BY DEF KeptBy
    <2>2. \A j \in K : u[j] = l[j]
      BY <1>1, <1>6
    <2> HIDE DEF K
    <2>3. CASE Takes(c, l, r)
      BY <1>1, <1>11, <2>1, <2>2, <2>3
    <2>4. CASE ~Takes(c, l, r)
      BY <1>11, <2>1, <2>2, <2>4
    <2> QED BY <2>3, <2>4
  <1>13. CellsHaveBest(c, u)
    <2>1. ASSUME NEW k \in 1 .. n, l[k].view.eligible
          PROVE  \E j \in KeptAtBy(c, u) : /\ u[j].view.cell = u[k].view.cell
                                           /\ (j = k \/ OutranksBy(c, u, j, k))
      <3>1. PICK j \in K : /\ l[j].view.cell = l[k].view.cell
                           /\ (j = k \/ OutranksBy(c, l, j, k))
        BY <1>1, <2>1 DEF CellsHaveBest
      <3>2. j \in 1 .. n
        BY <1>6
      <3>3. CASE j \in KeptAtBy(c, u)
        BY <1>1, <1>3, <3>1, <3>2, <3>3
      <3>4. CASE j \notin KeptAtBy(c, u)
        <4>1. Takes(c, l, r) /\ l[j].view.cell = r.view.cell
          BY <1>11, <3>4
        <4>2. n + 1 \in KeptAtBy(c, u) /\ Surpasses(c, r.view, l[k].view)
          BY <1>8, <1>10, <2>1, <3>1, <4>1
        <4> QED BY <1>1, <1>4, <3>1, <4>1, <4>2
      <3> QED BY <3>3, <3>4
    <2>2. ASSUME r.view.eligible
          PROVE  \E j \in KeptAtBy(c, u) : /\ u[j].view.cell = u[n + 1].view.cell
                                           /\ (j = n + 1 \/ OutranksBy(c, u, j, n + 1))
      <3>1. CASE Takes(c, l, r)
        BY <1>10, <3>1
      <3>2. CASE ~Takes(c, l, r)
        <4>1. PICK m \in K : /\ l[m].view.cell = r.view.cell
                             /\ ~Surpasses(c, r.view, l[m].view)
          BY <1>9, <2>2, <3>2
        <4>2. m \in KeptAtBy(c, u) /\ m \in 1 .. n /\ l[m].view.eligible
          BY <1>6, <1>11, <3>2
        <4> QED BY <1>1, <1>5, <2>2, <4>1, <4>2
      <3> QED BY <3>1, <3>2
    <2> QED BY <1>1, <2>1, <2>2 DEF CellsHaveBest
  <1> QED BY <1>12, <1>13 DEF u

\* What is kept of no record and of one.
LEMMA KeptOfFew ==
    ASSUME NEW c
    PROVE  /\ KeptBy(c, <<>>) = {} /\ CellsHaveBest(c, <<>>)
           /\ \A r \in Records : /\ KeptBy(c, <<r>>) = IF r.view.eligible THEN {r} ELSE {}
                                 /\ CellsHaveBest(c, <<r>>)
  <1>1. KeptBy(c, <<>>) = {} /\ CellsHaveBest(c, <<>>)
    BY DEF KeptBy, KeptAtBy, CellsHaveBest
  <1>2. ASSUME NEW r \in Records
        PROVE  /\ KeptBy(c, <<r>>) = IF r.view.eligible THEN {r} ELSE {}
               /\ CellsHaveBest(c, <<r>>)
    <2>1. <<>> \in Seq(Records) /\ Append(<<>>, r) = <<r>>
      OBVIOUS
    <2>2. Takes(c, <<>>, r) <=> r.view.eligible
      BY <1>1 DEF Takes
    <2> QED BY <1>1, <2>1, <2>2, KeptAppended
  <1> QED BY <1>1, <1>2

\* The records before one of a lineage with one more record.
LEMMA BeforeAppended ==
    ASSUME NEW l \in Seq(Records), NEW r \in Records
    PROVE  /\ SubSeq(Append(l, r), 1, Len(l)) = l
           /\ \A j \in 1 .. Len(l) :
                 SubSeq(Append(l, r), 1, j - 1) = SubSeq(l, 1, j - 1)
           /\ Len(Append(l, r)) - 1 = Len(l)
  <1> DEFINE n == Len(l)
             u == Append(l, r)
  <1>1. /\ n \in Nat /\ Len(u) = n + 1 /\ u \in Seq(Records)
        /\ \A i \in 1 .. n : u[i] = l[i]
        /\ DOMAIN l = 1 .. n
    BY AppendProperties, LenProperties
  <1>2. ASSUME NEW m \in 0 .. n
        PROVE  SubSeq(u, 1, m) = SubSeq(l, 1, m)
    <2>1. m \in Nat /\ m \in 0 .. Len(u) /\ m \in 0 .. Len(l)
      BY <1>1
    <2>2. \A i \in 1 .. m : u[i] = l[i] /\ i \in DOMAIN l
      BY <1>1
    <2> HIDE DEF u, n
    <2>3. SubSeq(u, 1, m) = Restrict(u, 1 .. m) /\ SubSeq(l, 1, m) = Restrict(l, 1 .. m)
      BY <1>1, <2>1, SubSeqRestrict
    <2> QED BY <2>2, <2>3 DEF Restrict
  <1>3. SubSeq(l, 1, n) = l
    BY SubSeqFull
  <1>4. \A j \in 1 .. n : j - 1 \in 0 .. n
    BY <1>1
  <1> HIDE DEF u, n
  <1>5. n \in 0 .. n /\ Len(u) - 1 = n
    BY <1>1
  <1>6. \A j \in 1 .. n : SubSeq(u, 1, j - 1) = SubSeq(l, 1, j - 1)
    BY <1>2, <1>4
  <1> QED BY <1>2, <1>3, <1>5, <1>6 DEF u, n

\* One more record is one more use of the cell of its parent.
LEMMA UsesAppended ==
    ASSUME NEW w, NEW l \in Seq(Records), NEW r \in Records, l # <<>>, NEW c
    PROVE  /\ UsesBy(w, l, c) \in Nat
           /\ UsesBy(w, Append(l, r), c) =
                UsesBy(w, l, c) + (IF w[r.parent].cell = c THEN 1 ELSE 0)
  <1> DEFINE n == Len(l)
             u == Append(l, r)
             S == {j \in DOMAIN l \ {1} : w[l[j].parent].cell = c}
             T == {j \in DOMAIN u \ {1} : w[u[j].parent].cell = c}
  <1>1. /\ n \in Nat /\ n # 0 /\ DOMAIN l = 1 .. n /\ DOMAIN u = 1 .. n + 1
        /\ \A j \in 1 .. n : u[j] = l[j]
        /\ u[n + 1] = r
    BY AppendProperties, LenProperties, EmptySeq
  <1> HIDE DEF n, u
  <1>2. IsFiniteSet(S)
    <2>1. IsFiniteSet(1 .. n) /\ S \in SUBSET (1 .. n)
      BY <1>1, FS_Interval
    <2> QED BY <2>1, FS_Subset
  <1>3. T = IF w[r.parent].cell = c THEN S \cup {n + 1} ELSE S
    BY <1>1
  <1>4. n + 1 \notin S
    BY <1>1
  <1>5. UsesBy(w, l, c) = Cardinality(S) /\ UsesBy(w, u, c) = Cardinality(T)
    BY DEF UsesBy
  <1> HIDE DEF S, T
  <1>6. Cardinality(S) \in Nat /\ Cardinality(S \cup {n + 1}) = Cardinality(S) + 1
    BY <1>2, <1>4, FS_CardinalityType, FS_AddElement
  <1> QED BY <1>3, <1>5, <1>6 DEF u

\* One record uses no cell.
LEMMA UsesOfOne ==
    ASSUME NEW w, NEW r, NEW c
    PROVE  UsesBy(w, <<r>>, c) = 0
  <1>1. {j \in DOMAIN <<r>> \ {1} : w[<<r>>[j].parent].cell = c} = {}
    OBVIOUS
  <1> QED BY <1>1, FS_EmptySet DEF UsesBy

-----------------------------------------------------------------------------
(* The invariant in the terms of these operators. *)

\* The definitions of the module read the variables of this state.
LEMMA ReadNow ==
    /\ \A l : Kept(l) = KeptBy(kind, l) /\ HeadOf(l) = HeadBy(kind, l)
    /\ \A l : ArchiveOf(l) = ArchiveBy(kind, view, l)
    /\ \A l, c : UsesOf(l, c) = UsesBy(view, l, c)
    /\ \A p : FairlyUsed(p) <=> FairBy(ledger, p)
    /\ \A j : Before(j) = SubSeq(ledger, 1, j - 1)
  BY DEF Kept, KeptBy, KeptAt, KeptAtBy, Outranks, OutranksBy, HeadOf, HeadBy, UsesOf, UsesBy,
     ArchiveOf, ArchiveBy, FairlyUsed, FairBy, Before

\* Those of the next state.
LEMMA ReadNext ==
    /\ \A l : Kept(l)' = KeptBy(kind', l) /\ HeadOf(l)' = HeadBy(kind', l)
    /\ \A l : ArchiveOf(l)' = ArchiveBy(kind', view', l)
    /\ \A l, c : UsesOf(l, c)' = UsesBy(view', l, c)
    /\ \A p : FairlyUsed(p)' <=> FairBy(ledger', p)
    /\ \A j : Before(j)' = SubSeq(ledger', 1, j - 1)
  BY DEF Kept, KeptBy, KeptAt, KeptAtBy, Outranks, OutranksBy, HeadOf, HeadBy, UsesOf, UsesBy,
     ArchiveOf, ArchiveBy, FairlyUsed, FairBy, Before

\* Records tell what was proposed and judged.
Told == \A j \in DOMAIN ledger : ledger[j].arch = ArchitectureOf(j - 1) /\ ledger[j].view = view[j - 1]

\* The parent of each record was kept before it.
Founded(c, l) ==
    \A j \in DOMAIN l \ {1} : \E r \in KeptBy(c, SubSeq(l, 1, j - 1)) : r.number = l[j].parent

\* The parent of the opportunity in progress is kept.
Grounded == \A i \in Numbers : InProgress(i) => \E r \in KeptBy(kind, ledger) : r.number = parent[i]

Tells == RecordsTellSearch <=> /\ Told
                               /\ Founded(kind, ledger)
                               /\ Grounded
                               /\ CellsHaveBest(kind, ledger)

LEMMA TellsNow == Tells
  BY DEF Tells, RecordsTellSearch, Told, Founded, Grounded, CellsHaveBest,
     Kept, KeptBy, KeptAt, KeptAtBy, Outranks, OutranksBy, Before

LEMMA TellsNext == Tells'
  BY TellsNow, PTL

\* What the entries of the archive and of the pool are, in a cell used so often.
EntriesBy(V, K) == {EntryOf(r, V[r.view.cell]) : r \in K}

\* No opportunity but i has begun without being done.
Sole(i) == \A j \in Numbers \ {i} : at[j] \in {"waiting", "done"}

\* What is true of the one opportunity is true of the search.
SoleFacts ==
    \A i \in Numbers : Sole(i) =>
        /\ Retained = IF at[i] \in {"recorded", "saved"} THEN SubSeq(ledger, 1, Len(ledger) - 1)
                                                         ELSE ledger
        /\ \A c : UseInProgress(c) =
                    IF InProgress(i) /\ view[parent[i]].cell = c THEN 1 ELSE 0
        /\ (\E j \in Numbers : at[j] = "saved") <=> at[i] = "saved"
        /\ (\E j \in Numbers : at[j] = "recorded") <=> at[i] = "recorded"
        /\ \A j \in Numbers : InProgress(j) => j = i

LEMMA SoleNow == SoleFacts
  BY DEF SoleFacts, Sole, Retained, UseInProgress, InProgress, Before

LEMMA SoleNext == SoleFacts'
  BY SoleNow, PTL

\* No opportunity has begun without being done.
NoneFacts ==
    (\A j \in Numbers : at[j] \in {"waiting", "done"}) =>
        /\ Retained = ledger
        /\ \A c : UseInProgress(c) = 0
        /\ \A j \in Numbers : at[j] # "saved" /\ ~InProgress(j)

LEMMA NoneNow == NoneFacts
  BY DEF NoneFacts, Retained, UseInProgress, InProgress

LEMMA NoneNext == NoneFacts'
  BY NoneNow, PTL

\* What is kept of a lineage is an eligible record of it.
LEMMA KeptIsRecord ==
    ASSUME NEW c, NEW l \in Seq(Records), NEW r \in KeptBy(c, l)
    PROVE  r \in Records /\ r.view.eligible /\ \E j \in DOMAIN l : r = l[j]
  <1>1. PICK j \in KeptAtBy(c, l) : r = l[j]
    BY DEF KeptBy
  <1>2. j \in DOMAIN l /\ l[j].view.eligible
    BY DEF KeptAtBy
  <1> QED BY <1>1, <1>2, ElementOfSeq

\* The first records of a lineage.
LEMMA FirstRecords ==
    ASSUME NEW l \in Seq(Records), NEW m \in 0 .. Len(l)
    PROVE  /\ SubSeq(l, 1, m) \in Seq(Records) /\ Len(SubSeq(l, 1, m)) = m
           /\ DOMAIN SubSeq(l, 1, m) = 1 .. m
           /\ \A j \in 1 .. m : SubSeq(l, 1, m)[j] = l[j] /\ j \in DOMAIN l
  <1>1. Len(l) \in Nat /\ m \in Nat /\ m <= Len(l) /\ DOMAIN l = 1 .. Len(l)
    BY LenProperties
  <1>2. SubSeq(l, 1, m) = Restrict(l, 1 .. m)
    BY <1>1, SubSeqRestrict
  <1>3. \A j \in 1 .. m : j \in DOMAIN l
    BY <1>1
  <1>4. DOMAIN SubSeq(l, 1, m) = 1 .. m /\ \A j \in 1 .. m : SubSeq(l, 1, m)[j] = l[j]
    BY <1>2, <1>3 DEF Restrict
  <1>5. SubSeq(l, 1, m) \in Seq(Records)
    BY <1>1, <1>3, <1>4, ElementOfSeq, SubSeqProperties
  <1>6. Len(SubSeq(l, 1, m)) = m
    BY <1>1, <1>4, <1>5, LenProperties
  <1> QED BY <1>3, <1>4, <1>5, <1>6

\* The records of a sequential controller are numbered from the seed's, and
\* the parents of records are recorded.
LEMMA RecordedParents ==
    ASSUME TypeOK, TakenInTurn, Sequential, Told, Founded(kind, ledger)
    PROVE  /\ \A r \in KeptBy(kind, ledger) :
                /\ r.number \in 0 .. Opportunities /\ r.number + 1 \in DOMAIN ledger
                /\ r = ledger[r.number + 1] /\ r.view = view[r.number] /\ r.view.eligible
                /\ r.arch = ArchitectureOf(r.number)
           /\ \A j \in DOMAIN ledger \ {1} :
                /\ ledger[j].parent \in 0 .. Opportunities
                /\ ledger[j].parent + 1 \in DOMAIN ledger
                /\ ledger[ledger[j].parent + 1].view = view[ledger[j].parent]
                /\ view[ledger[j].parent].eligible
  <1>1. /\ ledger \in Seq(Records) /\ Len(ledger) \in Nat /\ DOMAIN ledger = 1 .. Len(ledger)
        /\ \A j \in DOMAIN ledger : ledger[j] \in Records /\ ledger[j].number = j - 1
    BY AtType, ElementOfSeq DEF TakenInTurn
  <1>2. \A j \in DOMAIN ledger : /\ ledger[j].number + 1 = j
                                 /\ ledger[j].number \in 0 .. Opportunities
                                 /\ ledger[j].view = view[ledger[j].number]
                                 /\ ledger[j].arch = ArchitectureOf(ledger[j].number)
    BY <1>1, RecordScores DEF Told
  <1>3. ASSUME NEW r \in KeptBy(kind, ledger)
        PROVE  /\ r.number \in 0 .. Opportunities /\ r.number + 1 \in DOMAIN ledger
               /\ r = ledger[r.number + 1] /\ r.view = view[r.number] /\ r.view.eligible
               /\ r.arch = ArchitectureOf(r.number)
    <2>1. PICK j \in DOMAIN ledger : r = ledger[j]
      BY <1>1, KeptIsRecord
    <2> QED BY <1>1, <1>2, <2>1, KeptIsRecord
  <1>4. ASSUME NEW j \in DOMAIN ledger \ {1}
        PROVE  /\ ledger[j].parent \in 0 .. Opportunities
               /\ ledger[j].parent + 1 \in DOMAIN ledger
               /\ ledger[ledger[j].parent + 1].view = view[ledger[j].parent]
               /\ view[ledger[j].parent].eligible
    <2>1. j - 1 \in 0 .. Len(ledger)
      BY <1>1
    <2>2. PICK s : s = SubSeq(ledger, 1, j - 1)
      OBVIOUS
    <2>3. s \in Seq(Records) /\ DOMAIN s = 1 .. (j - 1)
          /\ \A k \in 1 .. (j - 1) : s[k] = ledger[k] /\ k \in DOMAIN ledger
      BY <1>1, <2>1, <2>2, FirstRecords
    <2>4. PICK r \in KeptBy(kind, s) : r.number = ledger[j].parent
      BY <2>2 DEF Founded
    <2>5. r.view.eligible /\ \E k \in DOMAIN s : r = s[k]
      <3>1. s \in Seq(Records)
        BY <2>3
      <3> QED BY ONLY <3>1, <2>4, KeptIsRecord
    <2>6. PICK k \in DOMAIN ledger : r = ledger[k]
      BY <2>3, <2>5
    <2> QED BY <1>2, <2>4, <2>5, <2>6
  <1> QED BY <1>3, <1>4

\* Uses are counted.
LEMMA UsesAreCounted ==
    ASSUME NEW w, NEW l \in Seq(Records), NEW c
    PROVE  UsesBy(w, l, c) \in Nat
  <1>1. IsFiniteSet(1 .. Len(l)) /\ DOMAIN l = 1 .. Len(l)
    BY LenProperties, FS_Interval
  <1>2. {j \in DOMAIN l \ {1} : w[l[j].parent].cell = c} \in SUBSET (1 .. Len(l))
    BY <1>1
  <1> QED BY <1>1, <1>2, FS_Subset, FS_CardinalityType DEF UsesBy

\* The invariant explains the files, once the seed is recorded.
Explained ==
    /\ SearchInv /\ TakenInTurn
    /\ Sequential => RecordsTellSearch /\ PoolIsKept /\ FilesFollow
    /\ phase \in {"fresh", "prepared", "seeded", "search"}
    => LineageExplainsState

LEMMA ExplainedNow == Explained
  <1> SUFFICES ASSUME SearchInv, TakenInTurn, Sequential, RecordsTellSearch, PoolIsKept, FilesFollow,
                      phase \in {"fresh", "prepared", "seeded", "search"},
                      Kept(ledger) # {}
               PROVE  LineageExplainsState
    BY DEF Explained, LineageExplainsState
  <1> DEFINE short == Before(Len(ledger))
             some == \E i \in Numbers : at[i] = "saved"
  <1>1. TypeOK /\ ledger \in Seq(Records) /\ NoArchitecture \notin Architectures /\ Seed \in Architectures
    BY SearchAssumption DEF SearchInv, TypeOK
  <1>2. Told /\ Founded(kind, ledger)
    BY TellsNow DEF Tells
  <1>3. \A j \in DOMAIN ledger \ {1} : \E r \in Kept(Before(j)) : r.number = ledger[j].parent
    BY DEF RecordsTellSearch
  <1>4. ledger # <<>> /\ phase \notin {"fresh", "prepared"}
    <2>1. Kept(<<>>) = {}
      BY ReadNow, KeptOfFew
    <2> QED BY <2>1 DEF FilesFollow
  <1>5. CASE phase = "search"
    <2>1. Retained \in {ledger, short}
      BY DEF Retained
    <2>2. CASE kind = "semantic"
      BY <1>3, <1>5, <2>1, <2>2 DEF FilesFollow, LineageExplainsState
    <2>3. CASE kind # "semantic"
      <3>1. /\ {accepted} = HeadOf(Retained)
            /\ {incumbent} = HeadOf(IF some THEN ledger ELSE Retained) \/ Copying
        BY <1>5, <2>3 DEF FilesFollow
      <3>2. accepted # NoArchitecture
        <4>1. PICK r \in Kept(Retained) : accepted = r.arch
          BY <3>1 DEF HeadOf
        <4>2. EntryOf(r, 0) \in pool
          BY <2>3, <4>1 DEF PoolIsKept
        <4>3. EntryOf(r, 0).arch = r.arch
          BY DEF EntryOf, Entry
        <4>4. accepted \in Architectures
          BY <1>1, <4>1, <4>2, <4>3 DEF TypeOK, Entries
        <4> QED BY <1>1, <4>4
      <3>3. {accepted} \ {NoArchitecture} = HeadOf(Retained)
        BY <3>1, <3>2
      <3>8. {accepted} \ {NoArchitecture} \in {HeadOf(l) : l \in {ledger, short}}
        <4>1. HeadOf(Retained) \in {HeadOf(l) : l \in {ledger, short}}
          BY <2>1
        <4> HIDE DEF short
        <4> QED BY <3>3, <4>1
      <3>9. CASE Copying
        <4>1. Retained = short /\ incumbent = NoArchitecture
              /\ Kept(ledger) = {ledger[Len(ledger)]}
          BY <3>9 DEF Copying, Retained
        <4>2. {accepted} = HeadOf(Before(Len(ledger)))
          BY <3>1, <4>1
        <4> QED BY <1>3, <2>3, <3>8, <4>1, <4>2 DEF LineageExplainsState
      <3>10. ASSUME {incumbent} = HeadOf(IF some THEN ledger ELSE Retained)
             PROVE  incumbent # NoArchitecture
        <4>1. CASE some
          <5>1. PICK r \in Kept(ledger) : incumbent = r.arch
            BY <3>10, <4>1 DEF HeadOf
          <5>2. r \in KeptBy(kind, ledger)
            BY <5>1, ReadNow
          <5>3. /\ r.number \in 0 .. Opportunities /\ view[r.number].eligible
                /\ r.arch = ArchitectureOf(r.number)
            BY <1>1, <1>2, <5>2, RecordedParents
          <5>4. r.number = 0 \/ (r.number \in Numbers /\ r.number \in trained)
            BY <5>3, SearchAssumption DEF SearchInv, PoolIsTrained, Numbers
          <5>5. r.arch # NoArchitecture
            BY <1>1, <5>3, <5>4 DEF ArchitectureOf, SearchInv, OpenedInOrder
          <5> QED BY <5>1, <5>5
        <4>2. CASE ~some
          BY <3>1, <3>2, <3>10, <4>2
        <4> QED BY <4>1, <4>2
      <3>11. SUFFICES ASSUME {incumbent} = HeadOf(IF some THEN ledger ELSE Retained)
                      PROVE  LineageExplainsState
        BY <3>1, <3>9
      <3>12. incumbent # NoArchitecture
        BY <3>10, <3>11
      <3>4. {accepted} = HeadOf(ledger) => incumbent = accepted
        BY <3>1, <3>11
      <3>5. HeadOf(IF some THEN ledger ELSE Retained) \in {HeadOf(l) : l \in {ledger, short}}
        BY <2>1
      <3> HIDE DEF short, some
      <3>6. {incumbent} \in {HeadOf(l) : l \in {ledger, short}}
        BY <3>5, <3>11
      <3> QED BY <1>3, <2>3, <3>4, <3>6, <3>8, <3>12 DEF LineageExplainsState, short
    <2> QED BY <2>2, <2>3
  <1>6. CASE phase = "seeded"
    <2>1. /\ Len(ledger) = 1 /\ archive = {} /\ accepted = NoArchitecture
          /\ kind # "semantic" => incumbent = Seed
      BY <1>6 DEF FilesFollow
    <2>2. short = <<>>
      <3>1. 0 \in 0 .. Len(ledger)
        BY <2>1
      <3>2. Before(Len(ledger)) = SubSeq(ledger, 1, 0)
        BY <2>1 DEF Before
      <3>3. SubSeq(ledger, 1, 0) \in Seq(Records) /\ Len(SubSeq(ledger, 1, 0)) = 0
        BY <1>1, <3>1, FirstRecords
      <3> QED BY <3>2, <3>3, EmptySeq
    <2>3. Kept(<<>>) = {}
      BY ReadNow, KeptOfFew
    <2>4. HeadOf(short) = {} /\ ArchiveOf(short) = {}
      BY <2>2, <2>3 DEF HeadOf, ArchiveOf
    <2>5. HeadOf(ledger) = {Seed}
      <3>1. ASSUME NEW r \in Kept(ledger)
            PROVE  r.arch = Seed
        <4>1. r \in KeptBy(kind, ledger)
          BY ReadNow
        <4>2. r.number + 1 \in DOMAIN ledger /\ r.arch = ArchitectureOf(r.number)
              /\ r.number \in 0 .. Opportunities
          BY <1>1, <1>2, <4>1, RecordedParents
        <4>3. r.number = 0
          BY <1>1, <2>1, <4>2, LenProperties, SearchAssumption
        <4> QED BY <4>2, <4>3 DEF ArchitectureOf
      <3> QED BY <3>1 DEF HeadOf
    <2>6. FairlyUsed(archive)
      BY <2>1 DEF FairlyUsed
    <2> HIDE DEF short
    <2>7. kind = "semantic" => archive \in {ArchiveOf(l) : l \in {ledger, short}}
      BY <2>1, <2>4
    <2>8. kind # "semantic" => /\ {incumbent} \in {HeadOf(l) : l \in {ledger, short}}
                               /\ {accepted} \ {NoArchitecture} \in {HeadOf(l) : l \in {ledger, short}}
                               /\ {accepted} # HeadOf(ledger) /\ incumbent # NoArchitecture
      BY <1>1, <2>1, <2>4, <2>5
    <2> QED BY <1>3, <2>6, <2>7, <2>8 DEF LineageExplainsState, short
  <1> QED BY <1>4, <1>5, <1>6

LEMMA ExplainedNext == Explained'
  BY ExplainedNow, PTL

-----------------------------------------------------------------------------
(* The steps that move no opportunity. *)

\* A sequential controller with the invariant.
InTurn == SearchInv /\ TakenInTurn /\ Sequential /\ RecordsTellSearch /\ PoolIsKept /\ FilesFollow

\* What is kept does not change with the phase and the files.
LEMMA RestPreserved ==
    ASSUME RecordsTellSearch, PoolIsKept, UNCHANGED <<kind, opportunity, pool, ledger>>
    PROVE  /\ RecordsTellSearch' /\ PoolIsKept'
           /\ Retained' = Retained
           /\ \A l : ArchiveOf(l)' = ArchiveOf(l) /\ HeadOf(l)' = HeadOf(l)
           /\ \A p : FairlyUsed(p)' <=> FairlyUsed(p)
           /\ Kept(ledger)' = Kept(ledger)
           /\ UNCHANGED incumbent => (Copying' <=> Copying)
  <1>1. /\ \A l : Kept(l)' = Kept(l) /\ KeptAt(l)' = KeptAt(l)
        /\ \A l, c : UsesOf(l, c)' = UsesOf(l, c)
        /\ \A l : ArchiveOf(l)' = ArchiveOf(l) /\ HeadOf(l)' = HeadOf(l)
        /\ \A p : FairlyUsed(p)' <=> FairlyUsed(p)
    BY DEF Kept, KeptAt, Outranks, UsesOf, ArchiveOf, HeadOf, FairlyUsed, opportunity
  <1>2. /\ Retained' = Retained /\ \A c : UseInProgress(c)' = UseInProgress(c)
    BY DEF Retained, Before, UseInProgress, InProgress, opportunity
  <1>3. PoolIsKept'
    BY <1>1, <1>2 DEF PoolIsKept, opportunity
  <1>4. RecordsTellSearch'
    BY <1>1 DEF RecordsTellSearch, Outranks, Before, InProgress, ArchitectureOf, opportunity
  <1>5. Kept(ledger)' = Kept(ledger)
    BY DEF Kept, KeptAt, Outranks
  <1>6. UNCHANGED incumbent => (Copying' <=> Copying)
    BY <1>5 DEF Copying, opportunity
  <1> QED BY <1>1, <1>2, <1>3, <1>4, <1>5, <1>6

LEMMA PrepareLineage ==
    ASSUME InTurn, Prepare
    PROVE  RecordsTellSearch' /\ PoolIsKept' /\ FilesFollow'
  <1>1. RecordsTellSearch' /\ PoolIsKept'
    BY RestPreserved DEF InTurn, Prepare
  <1>2. ledger = <<>> /\ archive = {} /\ accepted = NoArchitecture
    BY DEF InTurn, FilesFollow, Prepare
  <1>3. ledger' = <<>> /\ archive' = {} /\ accepted' = NoArchitecture /\ phase' = "prepared"
        /\ (kind' # "semantic" => incumbent' = Seed)
    BY <1>2 DEF InTurn, Prepare, SearchInv, TypeOK, Kinds, Sequential
  <1> QED BY <1>1, <1>3 DEF FilesFollow

\* The search ends, or the controller is killed.
LEMMA StopLineage ==
    ASSUME InTurn, Close \/ Kill \/ UNCHANGED vars
    PROVE  RecordsTellSearch' /\ PoolIsKept' /\ FilesFollow'
  <1>1. UNCHANGED <<kind, opportunity, pool, ledger, saved>>
        /\ (phase' \in {"closed", "killed"} \/ phase' = phase)
    BY DEF Close, Kill, vars
  <1>2. /\ RecordsTellSearch' /\ PoolIsKept'
        /\ Retained' = Retained
        /\ \A l : ArchiveOf(l)' = ArchiveOf(l) /\ HeadOf(l)' = HeadOf(l)
        /\ \A p : FairlyUsed(p)' <=> FairlyUsed(p)
        /\ Copying' <=> Copying
    BY <1>1, RestPreserved DEF InTurn, saved
  <1>3. FilesFollow'
    <2>1. CASE phase' \in {"closed", "killed"}
      BY <2>1 DEF FilesFollow
    <2>2. CASE phase' = phase
      BY <1>1, <1>2, <2>2 DEF InTurn, FilesFollow, opportunity, saved
    <2> QED BY <1>1, <2>1, <2>2
  <1> QED BY <1>2, <1>3

LEMMA SaveSeedLineage ==
    ASSUME InTurn, SaveSeed
    PROVE  RecordsTellSearch' /\ PoolIsKept' /\ FilesFollow'
  <1>1. UNCHANGED <<kind, opportunity, pool, ledger, incumbent>> /\ phase = "seeded" /\ phase' = "search"
        /\ UNCHANGED <<at, view>>
    BY DEF SaveSeed, opportunity
  <1>2. /\ RecordsTellSearch' /\ PoolIsKept'
        /\ Retained' = Retained
        /\ \A l : ArchiveOf(l)' = ArchiveOf(l) /\ HeadOf(l)' = HeadOf(l)
        /\ \A p : FairlyUsed(p)' <=> FairlyUsed(p)
    BY <1>1, RestPreserved DEF InTurn
  <1>3. /\ Len(ledger) = 1 /\ \A i \in Numbers : at[i] = "waiting"
        /\ kind # "semantic" => incumbent = Seed
        /\ pool # {}
    BY <1>1 DEF InTurn, FilesFollow, TakenInTurn
  <1>4. /\ Retained = ledger /\ (\A c : UseInProgress(c) = 0)
        /\ ~ \E i \in Numbers : at'[i] = "saved"
    BY <1>1, <1>3, NoneNow DEF NoneFacts
  <1>5. ledger \in Seq(Records) /\ TypeOK /\ Told /\ Founded(kind, ledger)
    BY TellsNow DEF InTurn, SearchInv, TypeOK, Tells
  <1>6. CASE kind = "semantic"
    <2>1. archive' = pool
      BY <1>6 DEF SaveSeed
    <2>2. \A c : UsesOf(ledger, c) + UseInProgress(c) = UsesOf(ledger, c)
      <3>1. \A c : UsesOf(ledger, c) \in Nat
        BY <1>5, ReadNow, UsesAreCounted
      <3> QED BY <1>4, <3>1
    <2>3. pool = ArchiveOf(ledger) /\ FairlyUsed(pool)
      BY <1>6, <2>2 DEF InTurn, PoolIsKept, ArchiveOf
    <2>4. archive' = ArchiveOf(Retained)' /\ FairlyUsed(archive)'
      <3>1. archive' = ArchiveOf(Retained)
        BY <1>4, <2>1, <2>3
      <3>2. ArchiveOf(Retained)' = ArchiveOf(Retained)
        BY <1>1 DEF ArchiveOf, Kept, KeptAt, Outranks, UsesOf, Retained, Before
      <3>3. FairlyUsed(archive)' <=> FairlyUsed(pool)
        BY <1>1, <2>1 DEF FairlyUsed
      <3> QED BY <2>3, <3>1, <3>2, <3>3
    <2> QED BY <1>1, <1>2, <1>6, <2>4 DEF FilesFollow
  <1>7. CASE kind # "semantic"
    <2>1. accepted' = Seed /\ incumbent' = Seed
      BY <1>1, <1>3, <1>7 DEF SaveSeed
    <2>2. HeadOf(ledger) = {Seed}
      <3>1. ASSUME NEW r \in Kept(ledger)
            PROVE  r.arch = Seed
        <4>1. r \in KeptBy(kind, ledger)
          BY ReadNow
        <4>2. r.number + 1 \in DOMAIN ledger /\ r.arch = ArchitectureOf(r.number)
              /\ r.number \in 0 .. Opportunities
          BY <1>5, <4>1, RecordedParents DEF InTurn
        <4>3. r.number = 0
          BY <1>5, <1>3, <4>2, LenProperties, SearchAssumption
        <4> QED BY <4>2, <4>3 DEF ArchitectureOf
      <3>2. Kept(ledger) # {}
        BY <1>3, <1>4, <1>7 DEF InTurn, PoolIsKept
      <3> QED BY <3>1, <3>2 DEF HeadOf
    <2>3. HeadOf(Retained)' = {Seed}
      <3>1. HeadOf(Retained)' = HeadOf(Retained)
        BY <1>1 DEF HeadOf, Kept, KeptAt, Outranks, Retained, Before
      <3> QED BY <1>4, <2>2, <3>1
    <2> QED BY <1>1, <1>2, <1>4, <1>7, <2>1, <2>3 DEF FilesFollow
  <1> QED BY <1>2, <1>6, <1>7

LEMMA EvaluateSeedLineage ==
    ASSUME InTurn, SearchInv', NEW v \in ViewsOf(kind), EvaluateSeed(v)
    PROVE  RecordsTellSearch' /\ PoolIsKept' /\ FilesFollow'
  <1> DEFINE rec == [number |-> 0, parent |-> 0, arch |-> Seed, view |-> v]
  <1>1. /\ phase = "prepared" /\ phase' \in {"failed", "seeded"}
        /\ UNCHANGED <<kind, at, parent, child, archive, incumbent, accepted>>
        /\ ledger' = <<rec>> /\ view' = [view EXCEPT ![0] = v]
        /\ pool' = IF v.eligible THEN {Entry(0, Seed, v)} ELSE {}
    BY DEF InTurn, EvaluateSeed, Sequential, saved
  <1>2. /\ \A i \in Numbers : at'[i] = "waiting"
        /\ view'[0] = v
    BY <1>1, SearchAssumption DEF InTurn, SearchInv, OpenedInOrder, TypeOK
  <1>3. rec \in Records
    BY ViewFacts, SearchAssumption DEF Records
  <1>4. /\ KeptBy(kind', ledger') = (IF v.eligible THEN {rec} ELSE {})
        /\ CellsHaveBest(kind', ledger')
    BY <1>1, <1>3, KeptOfFew
  <1>5. DOMAIN ledger' = {1} /\ ledger'[1] = rec /\ Len(ledger') = 1
    BY <1>1
  <1>6. Retained' = ledger' /\ (\A c : UseInProgress(c)' = 0)
        /\ \A i \in Numbers : at'[i] # "saved" /\ ~InProgress(i)'
    BY <1>2, NoneNext DEF NoneFacts
  <1>7. RecordsTellSearch'
    <2>1. Told'
      BY <1>2, <1>5 DEF Told, ArchitectureOf
    <2>2. Founded(kind, ledger)' /\ Grounded'
      BY <1>5, <1>6 DEF Founded, Grounded
    <2>3. CellsHaveBest(kind, ledger)'
      BY <1>4 DEF CellsHaveBest, KeptAtBy, OutranksBy
    <2> QED BY <2>1, <2>2, <2>3, TellsNext DEF Tells
  <1>8. EntryOf(rec, 0) = Entry(0, Seed, v)
    BY DEF EntryOf, Entry
  <1>9. \A c : UsesOf(ledger, c)' = 0
    <2>1. \A c : UsesBy(view', <<rec>>, c) = 0
      BY UsesOfOne
    <2> QED BY <1>1, <2>1 DEF UsesOf, UsesBy
  <1>10. Kept(ledger)' = IF v.eligible THEN {rec} ELSE {}
    <2>1. Kept(ledger)' = KeptBy(kind', ledger')
      BY DEF Kept, KeptAt, Outranks, KeptBy, KeptAtBy, OutranksBy
    <2> QED BY <1>4, <2>1
  <1> HIDE DEF rec
  <1>11. PoolIsKept'
    <2>1. CASE kind = "semantic"
      <3>1. \A c : UsesOf(ledger, c)' + UseInProgress(c)' = 0
        BY <1>6, <1>9
      <3>2. pool' = {EntryOf(r, UsesOf(ledger, r.view.cell)' + UseInProgress(r.view.cell)') : r \in Kept(ledger)'}
        BY <1>1, <1>8, <1>10, <3>1
      <3>3. \A e \in pool' : e.uses = 0
        BY <1>1 DEF Entry
      <3>4. FairlyUsed(pool)'
        BY <3>3 DEF FairlyUsed
      <3> QED BY <1>1, <1>6, <2>1, <3>2, <3>4 DEF PoolIsKept
    <2>2. CASE kind # "semantic"
      <3>1. Kept(Retained)' = Kept(ledger)'
        BY <1>6 DEF Kept, KeptAt, Outranks
      <3>2. pool' = {EntryOf(r, 0) : r \in Kept(Retained)'}
        BY <1>1, <1>8, <1>10, <3>1
      <3> QED BY <1>1, <1>6, <2>2, <3>2 DEF PoolIsKept
    <2> QED BY <2>1, <2>2
  <1>12. FilesFollow'
    BY <1>1, <1>2, <1>5 DEF InTurn, FilesFollow
  <1> QED BY <1>7, <1>11, <1>12

-----------------------------------------------------------------------------
(* The steps that record nothing. *)

\* The opportunity that moves is the only one, before the step and after it.
LEMMA MovesAlone ==
    ASSUME InTurn, NEW i \in Numbers, at[i] # "done", Opened(i) \/ InOrder(i),
           \A j \in Numbers \ {i} : at'[j] = at[j]
    PROVE  /\ Sole(i) /\ Sole(i)'
           /\ Retained = IF at[i] \in {"recorded", "saved"} THEN SubSeq(ledger, 1, Len(ledger) - 1)
                                                            ELSE ledger
           /\ Retained' = IF at'[i] \in {"recorded", "saved"} THEN SubSeq(ledger', 1, Len(ledger') - 1)
                                                              ELSE ledger'
           /\ \A c : UseInProgress(c) =
                       IF InProgress(i) /\ view[parent[i]].cell = c THEN 1 ELSE 0
           /\ \A c : UseInProgress(c)' =
                       IF InProgress(i)' /\ view'[parent'[i]].cell = c THEN 1 ELSE 0
           /\ (\E j \in Numbers : at[j] = "saved") <=> at[i] = "saved"
           /\ (\E j \in Numbers : at'[j] = "saved") <=> at'[i] = "saved"
           /\ (\E j \in Numbers : at[j] = "recorded") <=> at[i] = "recorded"
           /\ (\E j \in Numbers : at'[j] = "recorded") <=> at'[i] = "recorded"
           /\ \A j \in Numbers : InProgress(j) => j = i
           /\ \A j \in Numbers : InProgress(j)' => j = i
  <1>1. \A j \in Numbers : /\ j < i => at[j] = "done"
                           /\ j > i => at[j] = "waiting"
    BY OneAtATime DEF InTurn, SearchInv
  <1>2. \A j \in Numbers \ {i} : j < i \/ j > i
    BY AtType DEF InTurn, SearchInv
  <1>3. Sole(i) /\ Sole(i)'
    BY <1>1, <1>2 DEF Sole
  <1>4. SoleFacts /\ SoleFacts'
    BY SoleNow, SoleNext
  <1> QED BY <1>3, <1>4 DEF SoleFacts

\* Two entries of a pool that a lineage explains have different cells.
LEMMA CellsApart ==
    ASSUME NEW c, NEW l \in Seq(Records), NEW q \in KeptBy(c, l), NEW r \in KeptBy(c, l),
           q.view.cell = r.view.cell
    PROVE  q = r
  <1>1. PICK j \in KeptAtBy(c, l), k \in KeptAtBy(c, l) : q = l[j] /\ r = l[k]
    BY DEF KeptBy
  <1>2. j = k
    BY <1>1, KeptOnce
  <1> QED BY <1>1, <1>2

\* One more use of the least used cell is fair.
LEMMA FairUse ==
    ASSUME NEW l, NEW p \in SUBSET Entries, FairBy(l, p), NEW e \in LeastUsed(p)
    PROVE  FairBy(l, (p \ {e}) \cup {[e EXCEPT !.uses = @ + 1]})
  <1> DEFINE Found(x) == {j \in DOMAIN l : l[j].view.eligible /\ l[j].view.cell = x.cell}
             used == [e EXCEPT !.uses = @ + 1]
             new == (p \ {e}) \cup {used}
  <1>1. e \in p /\ e \in Entries
    BY DEF LeastUsed
  <1>2. \A x \in p : x.uses \in Nat
    BY DEF Entries
  <1>3. used.uses = e.uses + 1 /\ used.cell = e.cell
    BY <1>1 DEF Entries
  <1>4. \A x \in p \ {e} : e.uses <= x.uses
    BY <1>1, <1>2 DEF LeastUsed
  <1>5. Found(used) = Found(e)
    BY <1>3
  <1>6. \A x, y \in p : (\E j \in Found(y) : \A k \in Found(x) : j < k) => x.uses <= y.uses + 1
    BY DEF FairBy
  <1>7. ASSUME NEW x \in new, NEW y \in new, \E j \in Found(y) : \A k \in Found(x) : j < k
        PROVE  x.uses <= y.uses + 1
    <2>1. (x \in p /\ x # e) \/ x = used
      BY <1>7
    <2>2. (y \in p /\ y # e) \/ y = used
      BY <1>7
    <2> HIDE DEF new, used, Found
    <2>3. CASE x \in p /\ x # e /\ y \in p /\ y # e
      BY <1>6, <1>7, <2>3
    <2>4. CASE x = used /\ y = used
      BY <1>1, <1>2, <1>3, <2>4
    <2>5. CASE x = used /\ y \in p /\ y # e
      <3>1. e.uses <= y.uses /\ e.uses \in Nat /\ y.uses \in Nat
        BY <1>1, <1>2, <1>4, <2>5
      <3> QED BY <1>3, <2>5, <3>1
    <2>6. CASE x \in p /\ x # e /\ y = used
      <3>1. x.uses <= e.uses + 1
        BY <1>1, <1>5, <1>6, <1>7, <2>6
      <3>2. x.uses \in Nat /\ e.uses \in Nat /\ y.uses = e.uses + 1
        BY <1>1, <1>2, <1>3, <2>6
      <3> QED BY <3>1, <3>2
    <2> QED BY <2>1, <2>2, <2>3, <2>4, <2>5, <2>6
  <1> QED BY <1>7 DEF FairBy

\* Nothing that the lineage says of a file changes with the opportunity.
LEMMA FilesStay ==
    ASSUME TypeOK, UNCHANGED <<kind, phase, ledger, saved>>, phase = "search", FilesFollow,
           \A l : kind = "semantic" => ArchiveOf(l)' = ArchiveOf(l),
           Retained' = Retained,
           (\E j \in Numbers : at'[j] = "saved") <=> (\E j \in Numbers : at[j] = "saved"),
           (\E j \in Numbers : at'[j] = "recorded") <=> (\E j \in Numbers : at[j] = "recorded")
    PROVE  FilesFollow'
  <1>1. \A l : HeadOf(l)' = HeadOf(l)
    BY DEF HeadOf, Kept, KeptAt, Outranks
  <1>2. FairlyUsed(archive)' <=> FairlyUsed(archive)
    BY DEF FairlyUsed, saved
  <1>3. UNCHANGED <<archive, accepted, incumbent>>
    BY DEF saved
  <1>4. CASE kind = "semantic"
    <2>1. ArchiveOf(Retained)' = ArchiveBy(kind', view', Retained')
          /\ ArchiveOf(Retained) = ArchiveBy(kind, view, Retained)
      BY DEF ArchiveOf, ArchiveBy, Kept, KeptAt, KeptBy, KeptAtBy, Outranks, OutranksBy, UsesOf, UsesBy
    <2>2. ArchiveBy(kind', view', Retained) = ArchiveBy(kind, view, Retained)
      <3>1. \A l : ArchiveBy(kind', view', l) = ArchiveBy(kind, view, l)
        BY <1>4, ReadNow, ReadNext
      <3> QED BY <3>1
    <2> QED BY <1>2, <1>3, <1>4, <2>1, <2>2 DEF FilesFollow
  <1>5. CASE kind # "semantic"
    <2>1. HeadOf(Retained)' = HeadOf(Retained)
          /\ HeadOf(IF \E i \in Numbers : at[i] = "saved" THEN ledger ELSE Retained)'
               = HeadOf(IF \E i \in Numbers : at[i] = "saved" THEN ledger ELSE Retained)
      BY DEF HeadOf, Kept, KeptAt, Outranks
    <2>2. Kept(ledger)' = Kept(ledger)
      BY DEF Kept, KeptAt, Outranks
    <2>3. Copying' <=> Copying
      BY <1>3, <2>2 DEF Copying
    <2> QED BY <1>3, <1>5, <2>1, <2>3 DEF FilesFollow
  <1> QED BY <1>4, <1>5

LEMMA AskLineage ==
    ASSUME InTurn, SearchInv', NEW i \in Numbers, Ask(i)
    PROVE  RecordsTellSearch' /\ PoolIsKept' /\ FilesFollow'
  <1>1. /\ TypeOK /\ TypeOK' /\ Told /\ Founded(kind, ledger) /\ Grounded /\ CellsHaveBest(kind, ledger)
        /\ ledger \in Seq(Records)
    BY TellsNow DEF InTurn, SearchInv, Tells, TypeOK
  <1>2. /\ phase = "search" /\ at[i] = "waiting" /\ at'[i] = "asked" /\ InOrder(i)
        /\ \A j \in Numbers \ {i} : at'[j] = at[j]
        /\ UNCHANGED <<kind, phase, child, view, ledger, saved>>
    BY <1>1, GotoFacts DEF Ask
  <1>3. PICK e \in Choices : /\ parent' = [parent EXCEPT ![i] = e.found]
                             /\ pool' = IF kind = "semantic"
                                          THEN (pool \ {e}) \cup {[e EXCEPT !.uses = @ + 1]}
                                          ELSE pool
    BY DEF Ask
  <1>4. /\ Retained = ledger /\ Retained' = ledger
        /\ \A c : UseInProgress(c) = 0
        /\ \A c : UseInProgress(c)' = IF view[parent'[i]].cell = c THEN 1 ELSE 0
        /\ \A j \in Numbers : at[j] # "saved" /\ at'[j] # "saved"
        /\ \A j \in Numbers : at[j] # "recorded" /\ at'[j] # "recorded"
        /\ \A j \in Numbers : InProgress(j)' => j = i
    BY <1>2, MovesAlone DEF InProgress
  <1>5. parent'[i] = e.found
    BY <1>1, <1>3 DEF TypeOK
  <1>6. e \in pool
    BY DEF Choices, LeastUsed
  <1>7. PICK q \in KeptBy(kind, ledger) : \E u : e = EntryOf(q, u)
    <2>1. Kept(ledger) = KeptBy(kind, ledger) /\ Kept(Retained) = KeptBy(kind, ledger)
      BY <1>4, ReadNow
    <2>2. CASE kind = "semantic"
      BY <1>6, <2>1, <2>2 DEF InTurn, PoolIsKept
    <2>3. CASE kind # "semantic"
      BY <1>6, <2>1, <2>3 DEF InTurn, PoolIsKept
    <2> QED BY <2>2, <2>3
  <1>8. e.found = q.number /\ e.cell = q.view.cell
    BY <1>7 DEF EntryOf, Entry
  <1>9. view[parent'[i]].cell = e.cell
    BY <1>1, <1>5, <1>8, RecordedParents DEF InTurn
  <1>10. RecordsTellSearch'
    <2>1. Told'
      BY <1>1, <1>2 DEF Told, ArchitectureOf
    <2>2. Founded(kind, ledger)' /\ CellsHaveBest(kind, ledger)'
      BY <1>1, <1>2
    <2>3. Grounded'
      BY <1>2, <1>4, <1>5, <1>8 DEF Grounded
    <2> QED BY <2>1, <2>2, <2>3, TellsNext DEF Tells
  <1>11. PoolIsKept'
    <2>1. CASE kind = "semantic"
      <3> DEFINE K == Kept(ledger)
                 V(c) == UsesOf(ledger, c)
                 W(c) == UsesOf(ledger, c) + (IF c = e.cell THEN 1 ELSE 0)
                 used == [e EXCEPT !.uses = @ + 1]
      <3>1. \A c : V(c) \in Nat
        BY <1>1, ReadNow, UsesAreCounted
      <3>2. pool = {EntryOf(r, V(r.view.cell)) : r \in K}
        <4>1. \A c : V(c) + UseInProgress(c) = V(c)
          BY <1>4, <3>1
        <4> QED BY <2>1, <4>1 DEF InTurn, PoolIsKept
      <3>3. PICK m \in K : e = EntryOf(m, V(m.view.cell))
        BY <1>6, <3>2
      <3>4. m.view.cell = e.cell
        BY <3>3 DEF EntryOf, Entry
      <3>5. used = EntryOf(m, W(m.view.cell))
        BY <3>1, <3>3, <3>4 DEF EntryOf, Entry
      <3>6. \A r \in K : r.view.cell = e.cell => r = m
        BY <1>1, <3>4, ReadNow, CellsApart
      <3>7. \A r \in K : r # m => EntryOf(r, V(r.view.cell)) = EntryOf(r, W(r.view.cell))
        BY <3>1, <3>6
      <3>8. \A r \in K : EntryOf(r, V(r.view.cell)).cell = r.view.cell
        BY DEF EntryOf, Entry
      <3>9. \A r \in K : r # m => EntryOf(r, V(r.view.cell)) # e
        BY <3>6, <3>8
      <3>10. (pool \ {e}) \cup {used} = {EntryOf(r, W(r.view.cell)) : r \in K}
        <4> HIDE DEF K, V, W, used
        <4> QED BY <3>2, <3>3, <3>5, <3>7, <3>9
      <3>11. Kept(ledger)' = K
        BY <1>2, ReadNow, ReadNext
      <3>12. \A c : UsesOf(ledger, c)' + UseInProgress(c)' = W(c)
        <4>1. \A c : UsesOf(ledger, c)' = V(c)
          BY <1>2, ReadNow, ReadNext
        <4> QED BY <1>4, <1>9, <4>1
      <3>13. pool' = {EntryOf(r, UsesOf(ledger, r.view.cell)' + UseInProgress(r.view.cell)') : r \in Kept(ledger)'}
        <4>1. pool' = (pool \ {e}) \cup {used}
          BY <1>3, <2>1
        <4> HIDE DEF K, V, W, used
        <4> QED BY <3>10, <3>11, <3>12, <4>1
      <3>14. FairlyUsed(pool)'
        <4>1. pool \in SUBSET Entries /\ FairBy(ledger, pool) /\ e \in LeastUsed(pool)
          BY <1>1, <2>1, ReadNow DEF TypeOK, Choices, InTurn, PoolIsKept
        <4>2. FairBy(ledger, pool')
          BY <1>3, <2>1, <4>1, FairUse
        <4>3. FairlyUsed(pool)' <=> FairBy(ledger', pool')
          BY DEF FairlyUsed, FairBy
        <4> QED BY <1>2, <4>2, <4>3
      <3> QED BY <1>2, <1>4, <2>1, <3>13, <3>14 DEF PoolIsKept
    <2>2. CASE kind # "semantic"
      <3>1. Kept(Retained)' = Kept(Retained)
        BY <1>2, <1>4 DEF Kept, KeptAt, Outranks
      <3> QED BY <1>2, <1>3, <1>4, <2>2, <3>1 DEF InTurn, PoolIsKept
    <2> QED BY <2>1, <2>2
  <1>12. FilesFollow'
    <2>1. \A l : ArchiveOf(l)' = ArchiveOf(l)
      BY <1>2, ReadNow, ReadNext
    <2> QED BY <1>1, <1>2, <1>4, <2>1, FilesStay DEF InTurn
  <1> QED BY <1>10, <1>11, <1>12

\* An opportunity is answered, claimed or trained.
LEMMA JudgeLineage ==
    ASSUME InTurn, TypeOK', NEW i \in Numbers,
           at[i] \in {"asked", "proposed", "claimed"}, at'[i] \in {"proposed", "claimed", "judged"},
           phase = "search", UNCHANGED <<kind, phase, parent, pool, ledger, saved>>,
           \A j \in Numbers \ {i} : at'[j] = at[j] /\ child'[j] = child[j],
           \A j \in (0 .. Opportunities) \ {i} : view'[j] = view[j]
    PROVE  RecordsTellSearch' /\ PoolIsKept' /\ FilesFollow'
  <1>1. /\ TypeOK /\ Told /\ Founded(kind, ledger) /\ Grounded /\ CellsHaveBest(kind, ledger)
        /\ ledger \in Seq(Records) /\ DOMAIN ledger = 1 .. Len(ledger) /\ Len(ledger) \in Nat
        /\ i \in Nat /\ i # 0 /\ i <= Opportunities
    BY TellsNow, AtType DEF InTurn, SearchInv, Tells
  <1>2. /\ Retained = ledger /\ Retained' = ledger
        /\ \A c : UseInProgress(c) = IF view[parent[i]].cell = c THEN 1 ELSE 0
        /\ \A c : UseInProgress(c)' = IF view'[parent[i]].cell = c THEN 1 ELSE 0
        /\ \A j \in Numbers : at[j] # "saved" /\ at'[j] # "saved"
        /\ \A j \in Numbers : at[j] # "recorded" /\ at'[j] # "recorded"
        /\ \A j \in Numbers : InProgress(j) => j = i
        /\ \A j \in Numbers : InProgress(j)' => j = i
        /\ InProgress(i)
    BY MovesAlone DEF InProgress, Opened
  <1>3. \A j \in DOMAIN ledger : j - 1 # i /\ j - 1 \in 0 .. Opportunities
    <2>1. \A j \in DOMAIN ledger : ledger[j].number = j - 1 /\ (j # 1 => Recorded(j - 1))
      BY DEF InTurn, TakenInTurn
    <2>2. \A j \in DOMAIN ledger : ledger[j] \in Records
      BY <1>1, ElementOfSeq
    <2>3. ~Recorded(i)
      BY DEF Recorded
    <2> QED BY <1>1, <2>1, <2>2, <2>3, RecordScores
  <1>4. \A j \in DOMAIN ledger \ {1} : view'[ledger[j].parent] = view[ledger[j].parent]
    BY <1>1, <1>3, RecordedParents DEF InTurn
  <1>5. view'[parent[i]] = view[parent[i]]
    <2>1. PICK r \in KeptBy(kind, ledger) : r.number = parent[i]
      BY <1>1, <1>2 DEF Grounded
    <2> QED BY <1>1, <1>3, <2>1, RecordedParents DEF InTurn
  <1>6. \A c : UsesBy(view', ledger, c) = UsesBy(view, ledger, c)
    BY <1>4 DEF UsesBy
  <1>7. \A c : UsesOf(ledger, c)' = UsesOf(ledger, c) /\ UseInProgress(c)' = UseInProgress(c)
    BY <1>2, <1>5, <1>6, ReadNow, ReadNext
  <1>8. RecordsTellSearch'
    <2>1. Told'
      <3>1. ASSUME NEW j \in DOMAIN ledger
            PROVE  ArchitectureOf(j - 1)' = ArchitectureOf(j - 1) /\ view'[j - 1] = view[j - 1]
        <4>1. j - 1 # 0 => j - 1 \in Numbers \ {i}
          BY <1>1, <1>3 DEF Numbers
        <4> QED BY <1>3, <4>1 DEF ArchitectureOf
      <3> QED BY <1>1, <3>1 DEF Told
    <2>2. Founded(kind, ledger)' /\ CellsHaveBest(kind, ledger)'
      BY <1>1
    <2>3. Grounded'
      BY <1>1, <1>2 DEF Grounded
    <2> QED BY <2>1, <2>2, <2>3, TellsNext DEF Tells
  <1>9. \A l : Kept(l)' = Kept(l)
    BY ReadNow, ReadNext
  <1>10. FairlyUsed(pool)' <=> FairlyUsed(pool)
    BY DEF FairlyUsed
  <1>11. PoolIsKept'
    <2>1. Kept(ledger)' = Kept(ledger) /\ Kept(Retained)' = Kept(ledger)
      BY <1>2, ReadNow DEF Kept, KeptAt, Outranks
    <2>2. CASE kind = "semantic"
      BY <1>2, <1>7, <1>10, <2>1, <2>2 DEF InTurn, PoolIsKept
    <2>3. CASE kind # "semantic"
      BY <1>2, <2>1, <2>3 DEF InTurn, PoolIsKept
    <2> QED BY <2>2, <2>3
  <1>12. FilesFollow'
    <2>1. ArchiveOf(Retained)' = ArchiveOf(ledger)
      <3>1. ArchiveOf(Retained)' = ArchiveBy(kind', view', ledger)
        BY <1>2 DEF ArchiveOf, ArchiveBy, Kept, KeptAt, KeptBy, KeptAtBy, Outranks, OutranksBy, UsesOf, UsesBy
      <3>2. ArchiveBy(kind', view', ledger) = ArchiveBy(kind, view, ledger)
        BY <1>6 DEF ArchiveBy
      <3> QED BY <3>1, <3>2, ReadNow
    <2>2. CASE kind = "semantic"
      <3>1. FairlyUsed(archive)' <=> FairlyUsed(archive)
        BY DEF FairlyUsed, saved
      <3> QED BY <1>2, <2>1, <2>2, <3>1 DEF InTurn, FilesFollow, saved
    <2>3. CASE kind # "semantic"
      <3>1. HeadOf(Retained)' = HeadOf(Retained)
            /\ HeadOf(IF \E j \in Numbers : at[j] = "saved" THEN ledger ELSE Retained)'
                 = HeadOf(IF \E j \in Numbers : at[j] = "saved" THEN ledger ELSE Retained)
        BY <1>2 DEF HeadOf, Kept, KeptAt, Outranks
      <3> QED BY <1>2, <2>3, <3>1 DEF InTurn, FilesFollow, Copying, saved
    <2> QED BY <2>2, <2>3
  <1> QED BY <1>8, <1>11, <1>12

-----------------------------------------------------------------------------
(* The steps that record an opportunity and save what it changed. *)

\* The last record of a cell says nothing of those that came before it.
LEMMA FairAppended ==
    ASSUME NEW l \in Seq(Records), NEW r \in Records, NEW p, FairBy(l, p),
           \A e \in p : \E k \in DOMAIN l : l[k].view.eligible /\ l[k].view.cell = e.cell
    PROVE  FairBy(Append(l, r), p)
  <1> DEFINE n == Len(l)
             u == Append(l, r)
             Found(x) == {j \in DOMAIN l : l[j].view.eligible /\ l[j].view.cell = x.cell}
             Later(x) == {j \in DOMAIN u : u[j].view.eligible /\ u[j].view.cell = x.cell}
  <1>1. /\ n \in Nat /\ DOMAIN l = 1 .. n /\ DOMAIN u = 1 .. n + 1
        /\ \A j \in 1 .. n : u[j] = l[j]
    BY AppendProperties, LenProperties
  <1> HIDE DEF n, u
  <1>2. \A x : Found(x) \subseteq Later(x) /\ Found(x) = Later(x) \cap (1 .. n)
    BY <1>1
  <1>3. \A x : Found(x) \subseteq 1 .. n /\ Later(x) \subseteq 1 .. n + 1
    BY <1>1
  <1>4. \A x, y \in p : (\E j \in Found(y) : \A k \in Found(x) : j < k) => x.uses <= y.uses + 1
    BY DEF FairBy
  <1>5. \A x \in p : Found(x) # {}
    OBVIOUS
  <1> HIDE DEF Found, Later
  <1>6. ASSUME NEW x \in p, NEW y \in p, NEW j \in Later(y), \A k \in Later(x) : j < k
        PROVE  x.uses <= y.uses + 1
    <2>1. PICK k \in Found(x) : TRUE
      BY <1>5
    <2>2. k \in 1 .. n /\ k \in Later(x) /\ j \in 1 .. n + 1
      BY <1>2, <1>3
    <2>3. j < k
      BY <1>6, <2>2
    <2>4. j \in 1 .. n
      BY <1>1, <2>2, <2>3
    <2>5. j \in Found(y) /\ \A m \in Found(x) : j < m
      BY <1>2, <1>6, <2>4
    <2> QED BY <1>4, <2>5
  <1> QED BY <1>6 DEF FairBy, u, Later

\* The archive considers the candidate of a record that is appended.
LEMMA ConsideredKept ==
    ASSUME NEW l \in Seq(Records), NEW r \in Records, r.view.eligible,
           CellsHaveBest("semantic", l), NEW V \in [Cells -> Nat],
           (\A q \in KeptBy("semantic", l) : q.view.cell # r.view.cell) => V[r.view.cell] = 0
    PROVE  Considered(EntriesBy(V, KeptBy("semantic", l)), EntryOf(r, 0)) =
             EntriesBy(V, KeptBy("semantic", Append(l, r)))
  <1> DEFINE K == KeptBy("semantic", l)
             p == EntriesBy(V, K)
             e == EntryOf(r, 0)
             rivals == {f \in p : f.cell = e.cell}
             new == EntryOf(r, V[r.view.cell])
             E(q) == EntryOf(q, V[q.view.cell])
  <1>1. \A q \in Records : \A n : /\ EntryOf(q, n).cell = q.view.cell /\ EntryOf(q, n).score = q.view.score
                              /\ EntryOf(q, n).uses = n
    BY DEF EntryOf, Entry
  <1>2. K \subseteq Records /\ \A q \in K : q.view.eligible
    BY KeptIsRecord
  <1>3. p = {E(q) : q \in K}
    BY DEF EntriesBy
  <1>4. KeptBy("semantic", Append(l, r)) =
          IF Takes("semantic", l, r) THEN {q \in K : q.view.cell # r.view.cell} \cup {r} ELSE K
    BY KeptAppended
  <1>5. Takes("semantic", l, r) <=> \A q \in K : q.view.cell = r.view.cell => r.view.score > q.view.score
    BY DEF Takes, Surpasses
  <1>6. /\ r.view.score \in Nat
        /\ \A q \in K : q.view.score \in Nat
    BY <1>2, RecordScores
  <1> HIDE DEF K
  <1>7. \A q \in K : /\ E(q).cell = q.view.cell /\ E(q).score = q.view.score
                     /\ E(q).uses = V[q.view.cell]
    BY <1>1, <1>2
  <1>8. e.cell = r.view.cell /\ e.score = r.view.score
    BY <1>1
  <1>9. (\E f \in rivals : e.score <= f.score) <=> ~Takes("semantic", l, r)
    <2>1. (\E f \in rivals : e.score <= f.score)
            <=> \E q \in K : q.view.cell = r.view.cell /\ r.view.score <= q.view.score
      BY <1>3, <1>7, <1>8
    <2> QED BY <1>5, <1>6, <2>1
  <1>10. [e EXCEPT !.uses = V[r.view.cell]] = new
    BY DEF EntryOf, Entry
  <1>11. IF rivals = {} THEN e = new ELSE [e EXCEPT !.uses = (CHOOSE f \in rivals : TRUE).uses] = new
    <2>1. CASE rivals = {}
      <3>1. \A q \in K : q.view.cell # r.view.cell
        BY <1>3, <1>7, <1>8, <2>1
      <3> QED BY <2>1, <3>1 DEF K
    <2>2. CASE rivals # {}
      <3>1. (CHOOSE f \in rivals : TRUE) \in rivals
        BY <2>2
      <3>2. \A f \in rivals : f.uses = V[r.view.cell]
        BY <1>3, <1>7, <1>8
      <3>3. (CHOOSE f \in rivals : TRUE).uses = V[r.view.cell]
        BY <3>1, <3>2
      <3> QED BY <1>10, <2>2, <3>3
    <2> QED BY <2>1, <2>2
  <1>12. p \ rivals = {E(q) : q \in {x \in K : x.view.cell # r.view.cell}}
    <2>1. \A q \in K : E(q) \in rivals <=> q.view.cell = r.view.cell
      BY <1>3, <1>7, <1>8
    <2> HIDE DEF rivals, E, e, p
    <2> QED BY <1>3, <2>1
  <1>13. Considered(p, e) = IF \E f \in rivals : e.score <= f.score THEN p ELSE (p \ rivals) \cup {new}
    BY <1>11 DEF Considered
  <1>14. CASE Takes("semantic", l, r)
    <2>1. EntriesBy(V, KeptBy("semantic", Append(l, r))) =
            {E(q) : q \in {x \in K : x.view.cell # r.view.cell} \cup {r}}
      BY <1>4, <1>14 DEF EntriesBy
    <2>2. E(r) = new
      OBVIOUS
    <2>3. Considered(p, e) = (p \ rivals) \cup {new}
      BY <1>9, <1>13, <1>14
    <2>4. {E(q) : q \in {x \in K : x.view.cell # r.view.cell} \cup {r}}
            = {E(q) : q \in {x \in K : x.view.cell # r.view.cell}} \cup {new}
      <3> HIDE DEF E, new
      <3> QED BY <2>2
    <2> QED BY <1>12, <2>1, <2>3, <2>4 DEF K
  <1>15. CASE ~Takes("semantic", l, r)
    BY <1>4, <1>9, <1>13, <1>15 DEF K
  <1> QED BY <1>14, <1>15

\* It is as fair as before.
LEMMA FairRecord ==
    ASSUME NEW l \in Seq(Records), NEW r \in Records, CellsHaveBest("semantic", l),
           NEW V \in [Cells -> Nat],
           (\A q \in KeptBy("semantic", l) : q.view.cell # r.view.cell) => V[r.view.cell] = 0,
           FairBy(l, EntriesBy(V, KeptBy("semantic", l)))
    PROVE  FairBy(Append(l, r), EntriesBy(V, KeptBy("semantic", Append(l, r))))
  <1> DEFINE n == Len(l)
             u == Append(l, r)
             K == KeptBy("semantic", l)
             p == EntriesBy(V, K)
             new == EntriesBy(V, KeptBy("semantic", u))
             Old(x) == \E e \in p : e.cell = x.cell /\ e.uses = x.uses
             Later(x) == {j \in DOMAIN u : u[j].view.eligible /\ u[j].view.cell = x.cell}
  <1>1. /\ n \in Nat /\ DOMAIN l = 1 .. n /\ DOMAIN u = 1 .. n + 1
        /\ (\A j \in 1 .. n : u[j] = l[j]) /\ u[n + 1] = r
        /\ \A j \in 1 .. n + 1 : j \in 1 .. n \/ j = n + 1
    BY AppendProperties, LenProperties
  <1>2. \A q \in Records : \A m : EntryOf(q, m).cell = q.view.cell /\ EntryOf(q, m).uses = m
    BY DEF EntryOf, Entry
  <1>3. K \subseteq Records /\ \A q \in K : /\ q.view.eligible /\ q.view.cell \in Cells
                                            /\ \E j \in DOMAIN l : q = l[j]
    BY KeptIsRecord, RecordScores
  <1>4. KeptBy("semantic", u) \subseteq K \cup {r} /\ (r \in KeptBy("semantic", u) \ K => r.view.eligible)
    BY KeptAppended DEF Takes
  <1>5. \A e \in p : \E k \in DOMAIN l : l[k].view.eligible /\ l[k].view.cell = e.cell
    BY <1>2, <1>3 DEF EntriesBy
  <1>6. FairBy(u, p)
    BY <1>5, FairAppended
  <1>7. \A x, y \in p : (\E j \in Later(y) : \A k \in Later(x) : j < k) => x.uses <= y.uses + 1
    BY <1>6 DEF FairBy
  <1>8. \A q \in K : Old(EntryOf(q, V[q.view.cell]))
    BY DEF EntriesBy
  <1>9. ASSUME NEW x \in new
        PROVE  \/ Old(x)
               \/ /\ x.uses = 0 /\ x.cell = r.view.cell
                  /\ \A k \in 1 .. n : l[k].view.eligible => l[k].view.cell # r.view.cell
    <2>1. PICK q \in KeptBy("semantic", u) : x = EntryOf(q, V[q.view.cell])
      BY DEF EntriesBy
    <2>2. CASE q \in K
      BY <1>8, <2>1, <2>2
    <2>3. CASE q = r
      <3>1. x.cell = r.view.cell /\ x.uses = V[r.view.cell]
        BY <1>2, <2>1, <2>3
      <3>2. CASE \E m \in K : m.view.cell = r.view.cell
        <4>1. PICK m \in K : m.view.cell = r.view.cell
          BY <3>2
        <4>2. EntryOf(m, V[m.view.cell]) \in p /\ EntryOf(m, V[m.view.cell]).cell = x.cell
              /\ EntryOf(m, V[m.view.cell]).uses = x.uses
          BY <1>2, <1>3, <3>1, <4>1 DEF EntriesBy
        <4> QED BY <4>2
      <3>3. CASE \A m \in K : m.view.cell # r.view.cell
        <4>1. \A k \in 1 .. n : l[k].view.eligible => l[k].view.cell # r.view.cell
          BY <1>1, <3>3 DEF CellsHaveBest, KeptBy
        <4>2. V[r.view.cell] = 0
          BY <3>3
        <4> QED BY <3>1, <4>1, <4>2
      <3> QED BY <3>2, <3>3
    <2> QED BY <1>4, <2>1, <2>2, <2>3
  <1>10. \A y \in new : y.uses \in Nat
    <2>1. \A q \in KeptBy("semantic", u) : q \in Records /\ q.view.eligible
      BY <1>3, <1>4
    <2>2. \A q \in KeptBy("semantic", u) : V[q.view.cell] \in Nat
      BY <2>1, RecordScores
    <2> QED BY <1>2, <2>1, <2>2 DEF EntriesBy
  <1> HIDE DEF n, u, K, new
  <1>11. ASSUME NEW x \in new, NEW y \in new, NEW j \in Later(y), \A k \in Later(x) : j < k
         PROVE  x.uses <= y.uses + 1
    <2>1. CASE ~Old(x)
      BY <1>9, <1>10, <2>1
    <2>2. CASE Old(x) /\ Old(y)
      <3>1. PICK e \in p, f \in p : e.cell = x.cell /\ e.uses = x.uses /\ f.cell = y.cell /\ f.uses = y.uses
        BY <2>2
      <3>2. Later(e) = Later(x) /\ Later(f) = Later(y)
        BY <3>1
      <3> QED BY <1>7, <1>11, <3>1, <3>2
    <2>3. CASE Old(x) /\ ~Old(y)
      <3>1. PICK e \in p : e.cell = x.cell
        BY <2>3
      <3>2. PICK k \in DOMAIN l : l[k].view.eligible /\ l[k].view.cell = x.cell
        BY <1>5, <3>1
      <3>3. k \in 1 .. n /\ k \in Later(x)
        BY <1>1, <3>2
      <3>4. j \in 1 .. n + 1 /\ u[j].view.eligible /\ u[j].view.cell = r.view.cell
        BY <1>1, <1>9, <2>3
      <3>5. j = n + 1
        BY <1>1, <1>9, <2>3, <3>4
      <3>6. j < k
        BY <1>11, <3>3
      <3> QED BY <1>1, <3>3, <3>5, <3>6
    <2> QED BY <2>1, <2>2, <2>3
  <1> QED BY <1>11 DEF FairBy, u, new

\* The entries that a lineage explains have a record of their cell.
LEMMA EntriesAreFound ==
    ASSUME NEW c, NEW l \in Seq(Records), NEW V, NEW e \in EntriesBy(V, KeptBy(c, l))
    PROVE  \E k \in DOMAIN l : l[k].view.eligible /\ l[k].view.cell = e.cell
  <1>1. PICK q \in KeptBy(c, l) : e = EntryOf(q, V[q.view.cell])
    BY DEF EntriesBy
  <1>2. e.cell = q.view.cell
    BY <1>1 DEF EntryOf, Entry
  <1> QED BY <1>2, KeptIsRecord

LEMMA RecordLineage ==
    ASSUME InTurn, SearchInv', TakenInTurn', NEW i \in Numbers, Record(i)
    PROVE  RecordsTellSearch' /\ PoolIsKept' /\ FilesFollow'
  <1> DEFINE n == Len(ledger)
             rec == [number |-> i, parent |-> parent[i], arch |-> child[i], view |-> view[i]]
  <1>1. /\ TypeOK /\ TypeOK' /\ Told /\ Founded(kind, ledger) /\ Grounded /\ CellsHaveBest(kind, ledger)
        /\ ledger \in Seq(Records) /\ DOMAIN ledger = 1 .. n /\ n \in Nat
        /\ i \in Nat /\ i # 0 /\ i <= Opportunities
    BY TellsNow, AtType DEF InTurn, SearchInv, Tells
  <1>2. /\ phase = "search" /\ at[i] = "judged" /\ at'[i] = "recorded"
        /\ \A j \in Numbers \ {i} : at'[j] = at[j]
        /\ UNCHANGED <<kind, phase, parent, child, view, saved>>
        /\ ledger' = Append(ledger, rec)
        /\ pool' = IF kind = "semantic" /\ view[i].eligible
                     THEN Considered(pool, Entry(i, child[i], view[i])) ELSE pool
    BY <1>1, GotoFacts DEF Record
  <1>3. rec \in Records
    BY <1>1, SearchAssumption DEF TypeOK, Records, Numbers
  <1>4. /\ Len(ledger') = n + 1 /\ DOMAIN ledger' = 1 .. n + 1 /\ ledger'[n + 1] = rec
        /\ \A j \in 1 .. n : ledger'[j] = ledger[j]
        /\ SubSeq(ledger', 1, n) = ledger
        /\ \A j \in 1 .. n : SubSeq(ledger', 1, j - 1) = SubSeq(ledger, 1, j - 1)
    <2>1. Append(ledger, rec) \in Seq(Records) /\ Len(Append(ledger, rec)) = n + 1
      BY <1>1, <1>3, AppendProperties
    <2>2. DOMAIN Append(ledger, rec) = 1 .. n + 1
      BY <2>1, LenProperties
    <2>3. /\ Append(ledger, rec)[n + 1] = rec
          /\ \A j \in 1 .. n : Append(ledger, rec)[j] = ledger[j]
      BY <1>1, <1>3, AppendProperties
    <2> QED BY <1>1, <1>2, <1>3, <2>1, <2>2, <2>3, BeforeAppended
  <1>5. n = i
    <2>1. \A j \in DOMAIN ledger' : ledger'[j].number = j - 1
      BY <1>2 DEF InTurn, TakenInTurn, Sequential
    <2> HIDE DEF n
    <2>2. ledger'[n + 1].number = (n + 1) - 1
      BY <1>1, <1>4, <2>1
    <2> QED BY <1>1, <1>4, <2>2
  <1>6. /\ Retained = ledger /\ Retained' = ledger
        /\ \A c : UseInProgress(c) = IF view[parent[i]].cell = c THEN 1 ELSE 0
        /\ \A c : UseInProgress(c)' = 0
        /\ \A j \in Numbers : at[j] # "saved" /\ at'[j] # "saved" /\ at[j] # "recorded"
        /\ \A j \in Numbers : ~InProgress(j)'
        /\ InProgress(i)
    <2>1. SubSeq(ledger', 1, Len(ledger') - 1) = ledger
      BY <1>1, <1>4
    <2> QED BY <1>2, <2>1, MovesAlone DEF InProgress, Opened
  <1>7. \A j \in 1 .. n + 1 : j \in 1 .. n \/ j = n + 1
    BY <1>1
  <1> HIDE DEF n, rec
  <1>8. RecordsTellSearch'
    <2>1. Told'
      <3>1. ASSUME NEW j \in DOMAIN ledger'
            PROVE  ledger'[j].arch = ArchitectureOf(j - 1) /\ ledger'[j].view = view[j - 1]
        <4>1. CASE j \in 1 .. n
          BY <1>1, <1>4, <4>1 DEF Told
        <4>2. CASE j = n + 1
          <5>1. j - 1 = i
            BY <1>1, <1>5, <4>2
          <5> QED BY <1>1, <1>4, <4>2, <5>1 DEF rec, ArchitectureOf
        <4> QED BY <1>4, <1>7, <4>1, <4>2
      <3> QED BY <1>2, <3>1 DEF Told, ArchitectureOf
    <2>2. Founded(kind, ledger)'
      <3>1. ASSUME NEW j \in DOMAIN ledger' \ {1}
            PROVE  \E r \in KeptBy(kind, SubSeq(ledger', 1, j - 1)) : r.number = ledger'[j].parent
        <4>1. CASE j \in 1 .. n
          BY <1>1, <1>4, <4>1 DEF Founded
        <4>2. CASE j = n + 1
          <5>1. j - 1 = n
            BY <1>1, <4>2
          <5>2. SubSeq(ledger', 1, j - 1) = ledger
            BY <1>4, <5>1
          <5>3. ledger'[j].parent = parent[i]
            BY <1>4, <4>2 DEF rec
          <5>4. \E r \in KeptBy(kind, ledger) : r.number = parent[i]
            BY <1>1, <1>6 DEF Grounded
          <5> QED BY <5>2, <5>3, <5>4
        <4> QED BY <1>4, <1>7, <4>1, <4>2
      <3> QED BY <1>2, <3>1 DEF Founded
    <2>3. Grounded'
      BY <1>6 DEF Grounded
    <2>4. CellsHaveBest(kind, ledger)'
      <3>1. CellsHaveBest(kind, ledger')
        BY <1>1, <1>2, <1>3, KeptAppended
      <3> QED BY <1>2, <3>1
    <2> QED BY <2>1, <2>2, <2>3, <2>4, TellsNext DEF Tells
  <1>9. CASE kind # "semantic"
    <2>1. Kept(Retained)' = Kept(Retained)
      BY <1>2, <1>6 DEF Kept, KeptAt, Outranks
    <2>2. PoolIsKept'
      BY <1>2, <1>6, <1>9, <2>1 DEF InTurn, PoolIsKept
    <2>3. HeadOf(Retained)' = HeadOf(Retained)
      BY <1>2, <1>6 DEF HeadOf, Kept, KeptAt, Outranks
    <2>4. FilesFollow'
      <3>1. /\ {accepted} = HeadOf(Retained) /\ {incumbent} = HeadOf(Retained)
        BY <1>2, <1>6, <1>9 DEF InTurn, FilesFollow, Copying
      <3>2. HeadOf(IF \E j \in Numbers : at[j] = "saved" THEN ledger ELSE Retained)' = HeadOf(Retained)'
        <4>1. (IF \E j \in Numbers : at[j] = "saved" THEN ledger ELSE Retained)' = Retained'
          BY <1>6
        <4> QED BY <4>1 DEF HeadOf, Kept, KeptAt, Outranks
      <3> QED BY <1>2, <1>9, <2>3, <3>1, <3>2 DEF FilesFollow, saved
    <2> QED BY <1>8, <2>2, <2>4
  <1>10. CASE kind = "semantic"
    <2> DEFINE K == KeptBy("semantic", ledger)
               L == KeptBy("semantic", ledger')
               V == [c \in Cells |-> UsesBy(view, ledger', c)]
    <2>1. ledger # <<>>
      BY <1>1, <1>5, LenProperties
    <2>2. \A c : /\ UsesBy(view, ledger, c) \in Nat
                 /\ UsesBy(view, ledger', c) =
                      UsesBy(view, ledger, c) + (IF view[parent[i]].cell = c THEN 1 ELSE 0)
      BY <1>1, <1>2, <1>3, <2>1, UsesAppended DEF rec
    <2>3. V \in [Cells -> Nat]
      <3>1. \A c : UsesBy(view, ledger', c) \in Nat
        BY <2>2
      <3> QED BY <3>1
    <2>4. \A r \in K \cup L : r.view.cell \in Cells
      <3>1. ledger' \in Seq(Records)
        BY <1>1 DEF TypeOK
      <3> QED BY <1>1, <3>1, KeptIsRecord, RecordScores
    <2>5. \A c : UsesOf(ledger, c) + UseInProgress(c) = UsesBy(view, ledger', c)
      BY <1>6, <2>2, ReadNow
    <2>6. \A c : UsesOf(ledger, c)' + UseInProgress(c)' = UsesBy(view, ledger', c)
      <3>1. \A c : UsesOf(ledger, c)' = UsesBy(view', ledger', c)
        BY DEF UsesOf, UsesBy
      <3>2. \A c : UsesBy(view, ledger', c) + 0 = UsesBy(view, ledger', c)
        <4>1. \A c : UsesBy(view, ledger', c) \in Nat
          BY <2>2
        <4> QED BY <4>1
      <3> QED BY <1>2, <1>6, <3>1, <3>2
    <2>7. pool = EntriesBy(V, K) /\ FairBy(ledger, pool)
      <3>1. pool = {EntryOf(r, UsesBy(view, ledger', r.view.cell)) : r \in K}
        BY <1>10, <2>5, ReadNow DEF InTurn, PoolIsKept
      <3>2. \A r \in K : V[r.view.cell] = UsesBy(view, ledger', r.view.cell)
        BY <2>4
      <3> HIDE DEF V, K
      <3>3. pool = EntriesBy(V, K)
        BY <3>1, <3>2 DEF EntriesBy
      <3> QED BY <1>10, <3>3, ReadNow DEF InTurn, PoolIsKept
    <2>8. rec.view.eligible /\ (\A q \in K : q.view.cell # rec.view.cell) => V[rec.view.cell] = 0
      <3> SUFFICES ASSUME rec.view.eligible, \A q \in K : q.view.cell # rec.view.cell
                   PROVE  V[rec.view.cell] = 0
        OBVIOUS
      <3>1. rec.view.cell \in Cells
        BY <1>3, RecordScores
      <3>2. \A k \in DOMAIN ledger : ledger[k].view.eligible => ledger[k].view.cell # rec.view.cell
        BY <1>1, <1>10 DEF CellsHaveBest, KeptBy
      <3>3. \A j \in DOMAIN ledger \ {1} : view[ledger[j].parent].cell # rec.view.cell
        BY <1>1, <3>2, RecordedParents DEF InTurn
      <3>4. view[parent[i]].cell # rec.view.cell
        <4>1. PICK r \in KeptBy(kind, ledger) : r.number = parent[i]
          BY <1>1, <1>6 DEF Grounded
        <4>2. r.view = view[parent[i]]
          BY <1>1, <4>1, RecordedParents DEF InTurn
        <4> QED BY <1>10, <4>1, <4>2
      <3>5. UsesBy(view, ledger, rec.view.cell) = 0
        <4>1. {j \in DOMAIN ledger \ {1} : view[ledger[j].parent].cell = rec.view.cell} = {}
          BY <3>3
        <4> QED BY <4>1, FS_EmptySet DEF UsesBy
      <3> QED BY <2>2, <3>1, <3>4, <3>5
    <2>9. EntryOf(rec, 0) = Entry(i, child[i], view[i]) /\ rec.view = view[i]
      BY DEF EntryOf, Entry, rec
    <2>10. pool' = EntriesBy(V, L)
      <3>1. CASE rec.view.eligible
        <4>1. Considered(EntriesBy(V, K), EntryOf(rec, 0)) = EntriesBy(V, L)
          <5> HIDE DEF V
          <5> QED BY <1>1, <1>2, <1>3, <1>10, <2>3, <2>8, <3>1, ConsideredKept
        <4> QED BY <1>2, <1>10, <2>7, <2>9, <3>1, <4>1
      <3>2. CASE ~rec.view.eligible
        <4>1. L = K
          BY <1>1, <1>2, <1>3, <1>10, <3>2, KeptAppended DEF Takes
        <4> QED BY <1>2, <2>7, <2>9, <3>2, <4>1
      <3> QED BY <3>1, <3>2
    <2>11. FairBy(ledger', pool')
      <3>1. CASE rec.view.eligible
        <4> HIDE DEF V
        <4>1. FairBy(Append(ledger, rec), EntriesBy(V, KeptBy("semantic", Append(ledger, rec))))
          BY <1>1, <1>3, <1>10, <2>3, <2>7, <2>8, <3>1, FairRecord
        <4> QED BY <1>2, <2>10, <4>1
      <3>2. CASE ~rec.view.eligible
        <4>1. L = K
          BY <1>1, <1>2, <1>3, <1>10, <3>2, KeptAppended DEF Takes
        <4>2. \A e \in EntriesBy(V, K) : \E k \in DOMAIN ledger :
                 ledger[k].view.eligible /\ ledger[k].view.cell = e.cell
          BY <1>1, EntriesAreFound
        <4>3. pool' = pool
          BY <2>7, <2>10, <4>1
        <4> QED BY <1>1, <1>2, <1>3, <2>7, <4>2, <4>3, FairAppended
      <3> QED BY <3>1, <3>2
    <2>12. PoolIsKept'
      <3>1. Kept(ledger)' = L
        BY <1>2, <1>10 DEF Kept, KeptBy, KeptAt, KeptAtBy, Outranks, OutranksBy
      <3>2. \A r \in L : V[r.view.cell] = UsesBy(view, ledger', r.view.cell)
        BY <2>4
      <3> HIDE DEF V, L
      <3>3. pool' = {EntryOf(r, UsesBy(view, ledger', r.view.cell)) : r \in L}
        BY <2>10, <3>2 DEF EntriesBy
      <3>4. pool' = {EntryOf(r, UsesOf(ledger, r.view.cell)' + UseInProgress(r.view.cell)') : r \in Kept(ledger)'}
        BY <2>6, <3>1, <3>3
      <3>5. FairlyUsed(pool)'
        BY <2>11 DEF FairlyUsed, FairBy
      <3> QED BY <1>2, <1>6, <1>10, <3>4, <3>5 DEF PoolIsKept
    <2>13. FilesFollow'
      <3>1. archive = ArchiveBy(kind, view, ledger) /\ FairBy(ledger, archive)
        BY <1>2, <1>6, <1>10, ReadNow DEF InTurn, FilesFollow
      <3>2. ArchiveOf(Retained)' = ArchiveBy(kind', view', ledger)
        BY <1>6 DEF ArchiveOf, ArchiveBy, Kept, KeptAt, KeptBy, KeptAtBy, Outranks, OutranksBy, UsesOf, UsesBy
      <3>3. \A e \in archive : \E k \in DOMAIN ledger :
               ledger[k].view.eligible /\ ledger[k].view.cell = e.cell
        <4>1. archive = {EntryOf(r, UsesBy(view, ledger, r.view.cell)) : r \in KeptBy("semantic", ledger)}
          BY <1>10, <3>1 DEF ArchiveBy
        <4>2. \A q, m : EntryOf(q, m).cell = q.view.cell
          BY DEF EntryOf, Entry
        <4>3. \A e \in archive : \E q \in KeptBy("semantic", ledger) : e.cell = q.view.cell
          BY <4>1, <4>2
        <4> QED BY <1>1, <4>3, KeptIsRecord
      <3>4. FairBy(Append(ledger, rec), archive)
        BY <1>1, <1>3, <3>1, <3>3, FairAppended
      <3>5. FairlyUsed(archive)'
        <4>1. archive' = archive
          BY <1>2 DEF saved
        <4>2. FairBy(ledger', archive')
          BY <1>2, <3>4, <4>1
        <4> QED BY <4>2 DEF FairlyUsed, FairBy
      <3> QED BY <1>2, <1>10, <3>1, <3>2, <3>5 DEF FilesFollow, saved
    <2> QED BY <1>8, <2>12, <2>13
  <1> QED BY <1>9, <1>10

\* The last record is that of the opportunity that was recorded last.
LEMMA LastRecord ==
    ASSUME InTurn, NEW i \in Numbers, at[i] \in {"recorded", "saved"}
    PROVE  /\ Len(ledger) = i + 1 /\ i + 1 \in DOMAIN ledger
           /\ ledger[i + 1] \in Records
           /\ ledger[i + 1].number = i /\ ledger[i + 1].arch = child[i] /\ ledger[i + 1].view = view[i]
           /\ SubSeq(ledger, 1, i) \in Seq(Records)
           /\ ledger = Append(SubSeq(ledger, 1, i), ledger[i + 1])
           /\ Len(ledger) - 1 = i
  <1>1. /\ TypeOK /\ Told /\ ledger \in Seq(Records)
        /\ DOMAIN ledger = 1 .. Len(ledger) /\ Len(ledger) \in Nat
        /\ i \in Nat /\ i # 0 /\ i <= Opportunities
    BY TellsNow, AtType DEF InTurn, SearchInv, Tells
  <1>2. /\ \A j \in Numbers : Recorded(j) => j + 1 \in DOMAIN ledger
        /\ \A j \in DOMAIN ledger : ledger[j].number = j - 1 /\ (j # 1 => Recorded(j - 1))
        /\ \A j \in DOMAIN ledger : ledger[j] \in Records
    BY <1>1, ElementOfSeq DEF InTurn, TakenInTurn
  <1>3. i + 1 \in DOMAIN ledger
    BY <1>2 DEF Recorded
  <1>4. \A j \in Numbers : j > i => at[j] = "waiting"
    BY <1>1, OneAtATime DEF InTurn, Opened
  <1>5. Len(ledger) = i + 1
    <2>1. ASSUME Len(ledger) > i + 1
          PROVE  FALSE
      <3>1. i + 2 \in DOMAIN ledger /\ i + 2 # 1 /\ (i + 2) - 1 = i + 1
        BY <1>1, <2>1
      <3>2. Recorded(i + 1) /\ ledger[i + 2].number = i + 1 /\ ledger[i + 2] \in Records
        BY <1>2, <3>1
      <3>3. i + 1 \in Numbers /\ i + 1 > i
        BY <1>1, <3>2, RecordScores, SearchAssumption DEF Numbers
      <3> QED BY <1>4, <3>2, <3>3 DEF Recorded
    <2>2. i + 1 <= Len(ledger) /\ i + 1 \in Nat
      BY <1>1, <1>3
    <2>3. ~(Len(ledger) > i + 1)
      BY <2>1
    <2>4. \A m, k \in Nat : k <= m /\ ~(m > k) => m = k
      OBVIOUS
    <2>5. Len(ledger) \in Nat
      BY <1>1
    <2> QED BY ONLY <2>2, <2>3, <2>4, <2>5
  <1>6. ledger[i + 1].arch = child[i] /\ ledger[i + 1].view = view[i] /\ ledger[i + 1].number = i
    <2>1. (i + 1) - 1 = i
      BY <1>1
    <2> QED BY <1>1, <1>2, <1>3, <2>1 DEF Told, ArchitectureOf
  <1>7. SubSeq(ledger, 1, i) \in Seq(Records) /\ Len(SubSeq(ledger, 1, i)) = i
        /\ \A j \in 1 .. i : SubSeq(ledger, 1, i)[j] = ledger[j]
    <2>1. i \in 0 .. Len(ledger)
      BY <1>1, <1>5
    <2> QED BY <1>1, <2>1, FirstRecords
  <1>8. ledger = Append(SubSeq(ledger, 1, i), ledger[i + 1])
    <2> DEFINE s == SubSeq(ledger, 1, i)
               u == Append(s, ledger[i + 1])
    <2>1. ledger[i + 1] \in Records
      BY <1>2, <1>3
    <2>2. u \in Seq(Records) /\ Len(u) = i + 1 /\ u[i + 1] = ledger[i + 1]
          /\ \A j \in 1 .. i : u[j] = ledger[j]
      BY <1>7, <2>1, AppendProperties
    <2>3. \A j \in 1 .. i + 1 : j \in 1 .. i \/ j = i + 1
      BY <1>1
    <2> HIDE DEF u
    <2>4. \A j \in 1 .. Len(ledger) : u[j] = ledger[j]
      BY <1>5, <2>2, <2>3
    <2>5. u = ledger
      BY <1>1, <1>5, <2>2, <2>4, SeqEqual
    <2> QED BY <2>5 DEF u
  <1> QED BY <1>1, <1>2, <1>3, <1>5, <1>6, <1>7, <1>8

\* What is retained is what is recorded, when its opportunity is done.
LEMMA DoneLineage ==
    ASSUME InTurn, TypeOK', NEW i \in Numbers, at[i] \in {"recorded", "saved"}, at'[i] = "done",
           phase = "search", \A j \in Numbers \ {i} : at'[j] = at[j],
           UNCHANGED <<kind, phase, parent, child, view, ledger>>
    PROVE  /\ RecordsTellSearch' /\ Retained' = ledger
           /\ \A j \in Numbers : at'[j] # "saved"
           /\ kind = "semantic" =>
                /\ pool = ArchiveBy(kind, view, ledger) /\ FairBy(ledger, pool)
                /\ pool' = pool => PoolIsKept'
           /\ kind # "semantic" =>
                (pool' = {EntryOf(r, 0) : r \in KeptBy(kind, ledger)} => PoolIsKept')
  <1>1. /\ TypeOK /\ Told /\ Founded(kind, ledger) /\ CellsHaveBest(kind, ledger)
        /\ ledger \in Seq(Records)
    BY TellsNow DEF InTurn, SearchInv, Tells, TypeOK
  <1>2. /\ Retained' = ledger
        /\ \A c : UseInProgress(c) = 0
        /\ \A c : UseInProgress(c)' = 0
        /\ \A j \in Numbers : at'[j] # "saved"
        /\ \A j \in Numbers : ~InProgress(j)'
    BY MovesAlone DEF InProgress, Opened
  <1>3. RecordsTellSearch'
    <2>1. Told'
      BY <1>1 DEF Told, ArchitectureOf
    <2>2. Founded(kind, ledger)' /\ CellsHaveBest(kind, ledger)'
      BY <1>1
    <2>3. Grounded'
      BY <1>2 DEF Grounded
    <2> QED BY <2>1, <2>2, <2>3, TellsNext DEF Tells
  <1>4. \A c : UsesOf(ledger, c) + UseInProgress(c) = UsesBy(view, ledger, c)
               /\ UsesOf(ledger, c)' + UseInProgress(c)' = UsesBy(view, ledger, c)
    <2>1. \A c : UsesBy(view, ledger, c) \in Nat
      BY <1>1, UsesAreCounted
    <2>2. \A c : UsesOf(ledger, c) = UsesBy(view, ledger, c) /\ UsesOf(ledger, c)' = UsesBy(view, ledger, c)
      BY DEF UsesOf, UsesBy
    <2> QED BY <1>2, <2>1, <2>2
  <1>5. Kept(ledger)' = KeptBy(kind, ledger) /\ Kept(Retained)' = KeptBy(kind, ledger)
    BY <1>2 DEF Kept, KeptBy, KeptAt, KeptAtBy, Outranks, OutranksBy
  <1>6. ASSUME kind = "semantic"
        PROVE  /\ pool = ArchiveBy(kind, view, ledger) /\ FairBy(ledger, pool)
               /\ pool' = pool => PoolIsKept'
    <2>1. pool = ArchiveBy(kind, view, ledger) /\ FairBy(ledger, pool)
      BY <1>4, <1>6, ReadNow DEF InTurn, PoolIsKept, ArchiveBy
    <2>2. ASSUME pool' = pool
          PROVE  PoolIsKept'
      <3>1. pool' = {EntryOf(r, UsesOf(ledger, r.view.cell)' + UseInProgress(r.view.cell)') : r \in Kept(ledger)'}
        BY <1>4, <1>5, <2>1, <2>2 DEF ArchiveBy
      <3>2. FairlyUsed(pool)'
        BY <2>1, <2>2 DEF FairlyUsed, FairBy
      <3> QED BY <1>2, <1>6, <3>1, <3>2 DEF PoolIsKept
    <2> QED BY <2>1, <2>2
  <1>7. ASSUME kind # "semantic", pool' = {EntryOf(r, 0) : r \in KeptBy(kind, ledger)}
        PROVE  PoolIsKept'
    BY <1>2, <1>5, <1>7 DEF PoolIsKept
  <1> QED BY <1>2, <1>3, <1>6, <1>7

LEMMA SaveArchiveLineage ==
    ASSUME InTurn, SearchInv', NEW i \in Numbers, SaveArchive(i)
    PROVE  RecordsTellSearch' /\ PoolIsKept' /\ FilesFollow'
  <1>1. /\ kind = "semantic" /\ phase = "search" /\ at[i] = "recorded" /\ at'[i] = "done"
        /\ \A j \in Numbers \ {i} : at'[j] = at[j]
        /\ UNCHANGED <<kind, phase, parent, child, view, pool, ledger>>
        /\ archive' = pool
    BY GotoFacts DEF InTurn, SearchInv, SaveArchive
  <1>2. /\ RecordsTellSearch' /\ PoolIsKept' /\ Retained' = ledger
        /\ pool = ArchiveBy(kind, view, ledger) /\ FairBy(ledger, pool)
    BY <1>1, DoneLineage DEF SearchInv
  <1>3. ArchiveOf(Retained)' = ArchiveBy(kind, view, ledger)
    BY <1>1, <1>2 DEF ArchiveOf, ArchiveBy, Kept, KeptAt, KeptBy, KeptAtBy, Outranks, OutranksBy,
         UsesOf, UsesBy
  <1>4. FairlyUsed(archive)'
    BY <1>1, <1>2 DEF FairlyUsed, FairBy
  <1> QED BY <1>1, <1>2, <1>3, <1>4 DEF FilesFollow

\* The decision of the greedy controller keeps the record.
LEMMA AcceptsKept ==
    ASSUME InTurn, NEW i \in Numbers, phase = "search", at[i] = "recorded", kind # "semantic",
           \A j \in 0 .. Opportunities : view[j].cell = Rejected.cell
    PROVE  /\ Retained = SubSeq(ledger, 1, i)
           /\ pool = {EntryOf(r, 0) : r \in KeptBy(kind, SubSeq(ledger, 1, i))}
           /\ KeptBy(kind, ledger) = IF Accepts(view[i]) THEN {ledger[i + 1]}
                                                         ELSE KeptBy(kind, SubSeq(ledger, 1, i))
  <1> DEFINE l == SubSeq(ledger, 1, i)
             r == ledger[i + 1]
             K == KeptBy(kind, l)
  <1>1. /\ TypeOK /\ Told /\ ledger \in Seq(Records) /\ DOMAIN ledger = 1 .. Len(ledger)
        /\ i \in Nat /\ i # 0 /\ i <= Opportunities
    BY TellsNow, AtType DEF InTurn, SearchInv, Tells
  <1>2. /\ Len(ledger) - 1 = i /\ l \in Seq(Records) /\ r \in Records /\ r.view = view[i]
        /\ ledger = Append(l, r)
    BY LastRecord
  <1>3. Retained = l
    <2>1. Before(Len(ledger)) = l
      BY <1>2 DEF Before
    <2> QED BY <2>1 DEF Retained
  <1>4. pool = {EntryOf(q, 0) : q \in K} /\ pool # {}
    BY <1>3, ReadNow DEF InTurn, PoolIsKept, TakenInTurn
  <1>5. \A j \in DOMAIN ledger : ledger[j].view.cell = Rejected.cell
    <2>1. \A j \in DOMAIN ledger : j - 1 \in 0 .. Opportunities
      <3>1. \A j \in DOMAIN ledger : ledger[j] \in Records /\ ledger[j].number = j - 1
        BY <1>1, ElementOfSeq DEF InTurn, TakenInTurn
      <3> QED BY <3>1, RecordScores
    <2> QED BY <1>1, <2>1 DEF Told
  <1>6. \A j \in DOMAIN l : l[j].view.cell = Rejected.cell
    <2>1. i \in 0 .. Len(ledger)
      BY <1>1, <1>2, LenProperties
    <2>2. DOMAIN l = 1 .. i /\ \A j \in 1 .. i : l[j] = ledger[j] /\ j \in DOMAIN ledger
      BY <1>1, <2>1, FirstRecords
    <2> QED BY <1>5, <2>2
  <1>7. r.view.cell = Rejected.cell
    BY <1>5, LastRecord
  <1>8. \A q \in K : q.view.cell = Rejected.cell
    <2>1. l \in Seq(Records)
      BY <1>2
    <2>2. ASSUME NEW q \in K
          PROVE  \E j \in DOMAIN l : q = l[j]
      <3> HIDE DEF l
      <3> QED BY <2>1, KeptIsRecord
    <2> HIDE DEF l, K
    <2> QED BY <1>6, <2>2
  <1> HIDE DEF l, r
  <1>9. CellsHaveBest(kind, l)
    <2>1. PICK m \in KeptAtBy(kind, l) : TRUE
      BY <1>4 DEF KeptBy
    <2>2. \A k \in DOMAIN l : l[k].view.eligible /\ k # m => OutranksBy(kind, l, m, k)
      BY <1>6 DEF KeptAtBy
    <2>3. m \in DOMAIN l
      BY DEF KeptAtBy
    <2> QED BY <1>6, <2>2, <2>3 DEF CellsHaveBest
  <1>10. Accepts(view[i]) <=> Takes(kind, l, r)
    <2>1. \A q \in K : EntryOf(q, 0).score = q.view.score
      BY DEF EntryOf, Entry
    <2>2. (\A f \in pool : view[i].score > f.score \/ (kind = "plateau" /\ view[i].score = f.score))
            <=> \A q \in K : view[i].score > q.view.score \/ (kind = "plateau" /\ view[i].score = q.view.score)
      BY <1>4, <2>1
    <2>3. Takes(kind, l, r) <=> /\ r.view.eligible
                                /\ \A q \in K : Surpasses(kind, r.view, q.view)
      BY <1>7, <1>8 DEF Takes
    <2> QED BY <1>2, <2>2, <2>3 DEF Accepts, Surpasses
  <1>11. KeptBy(kind, ledger) = IF Takes(kind, l, r) THEN {q \in K : q.view.cell # r.view.cell} \cup {r} ELSE K
    BY <1>2, <1>9, KeptAppended
  <1>12. {q \in K : q.view.cell # r.view.cell} = {}
    BY <1>7, <1>8
  <1> QED BY <1>3, <1>4, <1>10, <1>11, <1>12 DEF l, r

LEMMA SaveIncumbentLineage ==
    ASSUME InTurn, SearchInv', NEW i \in Numbers, SaveIncumbent(i),
           kind # "semantic" => \A j \in 0 .. Opportunities : view[j].cell = Rejected.cell
    PROVE  RecordsTellSearch' /\ PoolIsKept' /\ FilesFollow'
  <1> DEFINE l == SubSeq(ledger, 1, i)
  <1>1. /\ kind # "semantic" /\ phase = "search" /\ at[i] = "recorded"
        /\ \A j \in Numbers \ {i} : at'[j] = at[j]
        /\ UNCHANGED <<kind, phase, parent, child, view, pool, ledger, accepted>>
        /\ Accepts(view[i]) => at'[i] = "saved" /\ incumbent' = child[i]
        /\ ~Accepts(view[i]) => at'[i] = "done" /\ incumbent' = incumbent
    BY GotoFacts DEF InTurn, SearchInv, SaveIncumbent
  <1>2. /\ TypeOK /\ TypeOK' /\ Told /\ Founded(kind, ledger) /\ Grounded /\ CellsHaveBest(kind, ledger)
    BY TellsNow DEF InTurn, SearchInv, Tells
  <1>3. /\ Retained = l /\ pool = {EntryOf(r, 0) : r \in KeptBy(kind, l)}
        /\ KeptBy(kind, ledger) = IF Accepts(view[i]) THEN {ledger[i + 1]} ELSE KeptBy(kind, l)
    BY <1>1, AcceptsKept
  <1>4. Len(ledger) - 1 = i /\ Len(ledger) = i + 1 /\ ledger[i + 1].arch = child[i]
    BY <1>1, LastRecord
  <1>5. {accepted} = HeadBy(kind, l) /\ ({incumbent} = HeadBy(kind, l) \/ Copying)
    <2>1. \A j \in Numbers : at[j] # "saved"
      BY <1>1, MovesAlone DEF Opened
    <2> QED BY <1>1, <1>3, <2>1, ReadNow DEF InTurn, FilesFollow
  <1>8. ~Accepts(view[i]) => ~Copying
    <2> SUFFICES ASSUME ~Accepts(view[i]), Copying
                 PROVE  FALSE
      OBVIOUS
    <2>1. ledger[i + 1] \in KeptBy(kind, l)
      BY <1>3, <1>4, ReadNow DEF Copying
    <2>2. /\ ledger \in Seq(Records) /\ i \in 0 .. Len(ledger) /\ i \in Nat
          /\ l \in Seq(Records) /\ ledger[i + 1].number = i
      BY <1>1, <1>2, <1>4, LastRecord, AtType DEF InTurn, SearchInv
    <2>3. PICK j \in DOMAIN l : ledger[i + 1] = l[j]
      <3> HIDE DEF l
      <3> QED BY <2>1, <2>2, KeptIsRecord
    <2>4. j \in 1 .. i /\ l[j] = ledger[j] /\ j \in DOMAIN ledger
      <3>1. /\ DOMAIN l = 1 .. i
            /\ \A k \in 1 .. i : l[k] = ledger[k] /\ k \in DOMAIN ledger
        BY <2>2, FirstRecords
      <3> HIDE DEF l
      <3> QED BY <2>3, <3>1
    <2>5. ledger[j].number = j - 1
      BY <2>4 DEF InTurn, TakenInTurn
    <2> QED BY <2>2, <2>3, <2>4, <2>5
  <1> HIDE DEF l
  <1>6. CASE Accepts(view[i])
    <2>1. /\ Retained' = l
          /\ \E j \in Numbers : at'[j] = "saved"
          /\ \A j \in Numbers : ~InProgress(j)'
      BY <1>1, <1>4, <1>6, MovesAlone DEF InProgress, Opened, l
    <2>2. RecordsTellSearch'
      <3>1. Told'
        BY <1>1, <1>2 DEF Told, ArchitectureOf
      <3>2. Founded(kind, ledger)' /\ CellsHaveBest(kind, ledger)'
        BY <1>1, <1>2
      <3>3. Grounded'
        BY <2>1 DEF Grounded
      <3> QED BY <3>1, <3>2, <3>3, TellsNext DEF Tells
    <2>3. Kept(Retained)' = KeptBy(kind, l) /\ Kept(ledger)' = KeptBy(kind, ledger)
      BY <1>1, <2>1 DEF Kept, KeptBy, KeptAt, KeptAtBy, Outranks, OutranksBy
    <2>4. PoolIsKept'
      BY <1>1, <1>3, <1>4, <1>6, <2>3 DEF PoolIsKept
    <2>5. HeadOf(Retained)' = HeadBy(kind, l) /\ HeadOf(ledger)' = {child[i]}
      BY <1>3, <1>4, <1>6, <2>3 DEF HeadOf, HeadBy
    <2>6. HeadOf(IF \E j \in Numbers : at[j] = "saved" THEN ledger ELSE Retained)' = HeadOf(ledger)'
      <3>1. (IF \E j \in Numbers : at[j] = "saved" THEN ledger ELSE Retained)' = ledger'
        BY <2>1
      <3> QED BY <3>1 DEF HeadOf, Kept, KeptAt, Outranks
    <2>7. FilesFollow'
      BY <1>1, <1>5, <1>6, <2>5, <2>6 DEF FilesFollow
    <2> QED BY <2>2, <2>4, <2>7
  <1>7. CASE ~Accepts(view[i])
    <2>1. /\ RecordsTellSearch' /\ PoolIsKept' /\ Retained' = ledger
          /\ \A j \in Numbers : at'[j] # "saved"
      BY <1>1, <1>2, <1>3, <1>7, DoneLineage
    <2>2. HeadOf(Retained)' = HeadBy(kind, l)
      <3>1. HeadOf(Retained)' = HeadBy(kind', Retained')
        BY DEF HeadOf, HeadBy, Kept, KeptBy, KeptAt, KeptAtBy, Outranks, OutranksBy
      <3>2. KeptBy(kind, ledger) = KeptBy(kind, l)
        BY <1>3, <1>7
      <3> QED BY <1>1, <2>1, <3>1, <3>2 DEF HeadBy
    <2>3. HeadOf(IF \E j \in Numbers : at[j] = "saved" THEN ledger ELSE Retained)' = HeadOf(Retained)'
      <3>1. (IF \E j \in Numbers : at[j] = "saved" THEN ledger ELSE Retained)' = Retained'
        BY <2>1
      <3> QED BY <3>1 DEF HeadOf, Kept, KeptAt, Outranks
    <2>4. FilesFollow'
      BY <1>1, <1>5, <1>7, <1>8, <2>2, <2>3 DEF FilesFollow
    <2> QED BY <2>1, <2>4
  <1> QED BY <1>6, <1>7

\* Only the file of a candidate that the record retains is truncated.
LEMMA TruncateIncumbentLineage ==
    ASSUME InTurn, SearchInv', NEW i \in Numbers, TruncateIncumbent(i),
           kind # "semantic" => \A j \in 0 .. Opportunities : view[j].cell = Rejected.cell
    PROVE  RecordsTellSearch' /\ PoolIsKept' /\ FilesFollow'
  <1>1. /\ kind # "semantic" /\ phase = "search" /\ at[i] = "recorded" /\ Accepts(view[i])
        /\ UNCHANGED <<kind, phase, opportunity, pool, ledger, archive, accepted>>
        /\ at' = at /\ incumbent' = NoArchitecture
    BY DEF TruncateIncumbent, opportunity
  <1>2. /\ RecordsTellSearch' /\ PoolIsKept'
        /\ Retained' = Retained /\ Kept(ledger)' = Kept(ledger)
        /\ \A l : HeadOf(l)' = HeadOf(l)
    BY <1>1, RestPreserved DEF InTurn
  <1>3. KeptBy(kind, ledger) = {ledger[i + 1]} /\ Len(ledger) = i + 1
    BY <1>1, AcceptsKept, LastRecord
  <1>4. Copying'
    BY <1>1, <1>2, <1>3, ReadNow DEF Copying
  <1>5. {accepted} = HeadOf(Retained)
    BY <1>1 DEF InTurn, FilesFollow
  <1>6. HeadOf(Retained)' = HeadOf(Retained)
    BY <1>1, <1>2 DEF HeadOf, Kept, KeptAt, Outranks
  <1> QED BY <1>1, <1>2, <1>4, <1>5, <1>6 DEF FilesFollow

LEMMA CommitLineage ==
    ASSUME InTurn, SearchInv', NEW i \in Numbers, Commit(i)
    PROVE  RecordsTellSearch' /\ PoolIsKept' /\ FilesFollow'
  <1>1. /\ phase = "search" /\ at[i] = "saved" /\ at'[i] = "done"
        /\ \A j \in Numbers \ {i} : at'[j] = at[j]
        /\ UNCHANGED <<kind, phase, parent, child, view, ledger, incumbent>>
        /\ accepted' = child[i] /\ pool' = {Entry(i, child[i], view[i])}
    BY GotoFacts DEF InTurn, SearchInv, Commit
  <1>2. kind # "semantic" /\ KeptBy(kind, ledger) = {ledger[i + 1]}
    <2>1. Len(ledger) = i + 1
      BY <1>1, LastRecord
    <2> QED BY <1>1, <2>1, ReadNow DEF InTurn, PoolIsKept
  <1>3. ledger[i + 1].number = i /\ ledger[i + 1].arch = child[i] /\ ledger[i + 1].view = view[i]
    BY <1>1, LastRecord
  <1>4. pool' = {EntryOf(r, 0) : r \in KeptBy(kind, ledger)}
    <2>1. EntryOf(ledger[i + 1], 0) = Entry(i, child[i], view[i])
      BY <1>3 DEF EntryOf, Entry
    <2> QED BY <1>1, <1>2, <2>1
  <1>5. /\ RecordsTellSearch' /\ PoolIsKept' /\ Retained' = ledger
        /\ \A j \in Numbers : at'[j] # "saved"
    BY <1>1, <1>2, <1>4, DoneLineage DEF SearchInv
  <1>6. HeadBy(kind, ledger) = {child[i]}
    BY <1>2, <1>3 DEF HeadBy
  <1>7. incumbent = child[i]
    <2>1. \A j \in Numbers : at[j] # "recorded"
      BY <1>1, MovesAlone DEF Opened
    <2>2. {incumbent} = HeadOf(ledger)
      BY <1>1, <1>2, <2>1 DEF InTurn, FilesFollow, Copying
    <2> QED BY <1>6, <2>2, ReadNow
  <1>8. HeadOf(Retained)' = {child[i]}
    BY <1>1, <1>5, <1>6 DEF HeadOf, HeadBy, Kept, KeptBy, KeptAt, KeptAtBy, Outranks, OutranksBy
  <1>9. HeadOf(IF \E j \in Numbers : at[j] = "saved" THEN ledger ELSE Retained)' = HeadOf(Retained)'
    <2>1. (IF \E j \in Numbers : at[j] = "saved" THEN ledger ELSE Retained)' = Retained'
      BY <1>5
    <2> QED BY <2>1 DEF HeadOf, Kept, KeptAt, Outranks
  <1>10. FilesFollow'
    BY <1>1, <1>2, <1>7, <1>8, <1>9 DEF FilesFollow
  <1> QED BY <1>5, <1>10

-----------------------------------------------------------------------------
(* The whole search. *)

\* A controller that keeps no cells looks at no signature.
OneCell == kind # "semantic" => \A i \in 0 .. Opportunities : view[i].cell = Rejected.cell

LEMMA OneCellPreserved ==
    ASSUME TypeOK, OneCell, [Next]_vars
    PROVE  OneCell'
  <1>1. ASSUME NEW v \in ViewsOf(kind), EvaluateSeed(v)
        PROVE  OneCell'
    BY <1>1 DEF EvaluateSeed, ViewsOf, OneCell, TypeOK
  <1>2. ASSUME NEW i \in Numbers, NEW v \in ViewsOf(kind), Train(i, v)
        PROVE  OneCell'
    BY <1>2 DEF Train, ViewsOf, OneCell, TypeOK
  <1>3. CASE Prepare \/ SaveSeed \/ Close \/ Kill \/ UNCHANGED vars
    <2>1. UNCHANGED <<kind, view>>
      BY <1>3 DEF Prepare, SaveSeed, Close, Kill, vars, opportunity
    <2> QED BY <2>1 DEF OneCell
  <1>4. ASSUME NEW i \in Numbers,
               \/ Ask(i) \/ Claim(i) \/ Record(i) \/ SaveArchive(i) \/ SaveIncumbent(i)
               \/ TruncateIncumbent(i) \/ Commit(i) \/ AddChild(i) \/ LoseChild(i)
               \/ \E a \in Architectures \cup {NoArchitecture} : Answer(i, a)
        PROVE  OneCell'
    <2>1. UNCHANGED <<kind, view>>
      BY <1>4 DEF Ask, Claim, Record, SaveArchive, SaveIncumbent, TruncateIncumbent, Commit,
         AddChild, LoseChild, Answer, opportunity
    <2> QED BY <2>1 DEF OneCell
  <1> QED BY <1>1, <1>2, <1>3, <1>4 DEF Next

\* A step of a sequential controller keeps what its lineage says.
LEMMA LineageKept ==
    ASSUME InTurn, SearchInv', TakenInTurn', OneCell, [Next]_vars
    PROVE  RecordsTellSearch' /\ PoolIsKept' /\ FilesFollow'
  <1>1. TypeOK /\ TypeOK' /\ Sequential
    BY DEF InTurn, SearchInv
  <1>2. CASE Prepare \/ SaveSeed \/ Close \/ Kill \/ UNCHANGED vars
    BY <1>2, PrepareLineage, SaveSeedLineage, StopLineage
  <1>3. ASSUME NEW v \in ViewsOf(kind), EvaluateSeed(v)
        PROVE  RecordsTellSearch' /\ PoolIsKept' /\ FilesFollow'
    BY <1>3, EvaluateSeedLineage
  <1>4. ASSUME NEW i \in Numbers, Ask(i)
        PROVE  RecordsTellSearch' /\ PoolIsKept' /\ FilesFollow'
    BY <1>4, AskLineage
  <1>5. ASSUME NEW i \in Numbers,
               \/ Claim(i)
               \/ \E a \in Architectures \cup {NoArchitecture} : Answer(i, a)
               \/ \E v \in ViewsOf(kind) : Train(i, v)
        PROVE  RecordsTellSearch' /\ PoolIsKept' /\ FilesFollow'
    <2>1. /\ at[i] \in {"asked", "proposed", "claimed"} /\ at'[i] \in {"proposed", "claimed", "judged"}
          /\ phase = "search" /\ \A j \in Numbers \ {i} : at'[j] = at[j]
      BY <1>1, <1>5, GotoFacts DEF Claim, Answer, Train
    <2>2. UNCHANGED <<kind, phase, parent, pool, ledger, saved>>
      BY <1>5 DEF Claim, Answer, Train
    <2>3. /\ \A j \in Numbers \ {i} : child'[j] = child[j]
          /\ \A j \in (0 .. Opportunities) \ {i} : view'[j] = view[j]
      BY <1>1, <1>5 DEF Claim, Answer, Train, TypeOK
    <2> QED BY <1>1, <2>1, <2>2, <2>3, JudgeLineage
  <1>6. ASSUME NEW i \in Numbers, Record(i)
        PROVE  RecordsTellSearch' /\ PoolIsKept' /\ FilesFollow'
    BY <1>6, RecordLineage
  <1>7. ASSUME NEW i \in Numbers,
               SaveArchive(i) \/ TruncateIncumbent(i) \/ SaveIncumbent(i) \/ Commit(i)
        PROVE  RecordsTellSearch' /\ PoolIsKept' /\ FilesFollow'
    BY <1>7, SaveArchiveLineage, TruncateIncumbentLineage, SaveIncumbentLineage, CommitLineage
       DEF OneCell
  <1>8. ASSUME NEW i \in Numbers, AddChild(i) \/ LoseChild(i)
        PROVE  FALSE
    BY <1>1, <1>8 DEF AddChild, LoseChild
  <1> QED BY <1>2, <1>3, <1>4, <1>5, <1>6, <1>7, <1>8 DEF Next

\* A search that stopped still has the files that its lineage explains.
LEMMA ExplainedPreserved ==
    ASSUME LineageInv, SearchInv', TakenInTurn',
           Sequential' => RecordsTellSearch' /\ PoolIsKept' /\ FilesFollow', [Next]_vars
    PROVE  LineageExplainsState'
  <1> USE DEF LineageInv, SearchInv
  <1>1. CASE Close \/ Kill \/ UNCHANGED vars
    <2>1. UNCHANGED <<kind, view, ledger, archive, incumbent, accepted>>
      BY <1>1 DEF Close, Kill, vars, opportunity, saved
    <2>2. /\ \A l : Kept(l)' = Kept(l) /\ HeadOf(l)' = HeadOf(l) /\ ArchiveOf(l)' = ArchiveOf(l)
          /\ \A p : FairlyUsed(p)' <=> FairlyUsed(p)
          /\ \A j : Before(j)' = Before(j)
      BY <2>1, ReadNow, ReadNext
    <2>3. Kept(ledger)' = Kept(ledger) /\ Before(Len(ledger))' = Before(Len(ledger))
          /\ HeadOf(ledger)' = HeadOf(ledger)
          /\ HeadOf(Before(Len(ledger)))' = HeadOf(Before(Len(ledger)))
          /\ (FairlyUsed(archive)' <=> FairlyUsed(archive))
      BY <2>1 DEF Kept, KeptAt, Outranks, Before, HeadOf, FairlyUsed
    <2>4. {ArchiveOf(l) : l \in {ledger, Before(Len(ledger))}}' =
            {ArchiveOf(l) : l \in {ledger, Before(Len(ledger))}}
          /\ {HeadOf(l) : l \in {ledger, Before(Len(ledger))}}' =
               {HeadOf(l) : l \in {ledger, Before(Len(ledger))}}
      BY <2>1, <2>2, <2>3
    <2>5. (\A j \in DOMAIN ledger \ {1} : \E r \in Kept(Before(j)) : r.number = ledger[j].parent)'
            <=> (\A j \in DOMAIN ledger \ {1} : \E r \in Kept(Before(j)) : r.number = ledger[j].parent)
      BY <2>1 DEF Kept, KeptAt, Outranks, Before
    <2> QED BY <2>1, <2>3, <2>4, <2>5 DEF LineageExplainsState, Sequential
  <1>2. ASSUME NEW v \in ViewsOf(kind), EvaluateSeed(v), phase' = "failed"
        PROVE  LineageExplainsState'
    <2> DEFINE rec == [number |-> 0, parent |-> 0, arch |-> Seed, view |-> v]
    <2>1. ledger' = <<rec>> /\ ~v.eligible
      BY <1>2 DEF EvaluateSeed
    <2>2. rec \in Records
      BY ViewFacts, SearchAssumption DEF Records
    <2>3. KeptBy(kind', <<rec>>) = {}
      BY <2>1, <2>2, KeptOfFew
    <2>4. Kept(ledger)' = {}
      BY <2>1, <2>3 DEF Kept, KeptBy, KeptAt, KeptAtBy, Outranks, OutranksBy
    <2> QED BY <2>4 DEF LineageExplainsState
  <1>3. CASE phase' \in {"fresh", "prepared", "seeded", "search"}
    BY <1>3, ExplainedNext DEF Explained, Sequential
  <1>4. Close \/ Kill \/ UNCHANGED vars
          \/ (\E v \in ViewsOf(kind) : EvaluateSeed(v) /\ phase' = "failed")
          \/ phase' \in {"fresh", "prepared", "seeded", "search"}
    BY DEF Next, Prepare, EvaluateSeed, SaveSeed, Ask, Answer, Claim, Train, Record, SaveArchive,
       TruncateIncumbent, SaveIncumbent, Commit, AddChild, LoseChild, Goto
  <1> QED BY <1>1, <1>2, <1>3, <1>4

\* Before the seed there is no lineage.
LEMMA LineageInit == Init => LineageInv
  <1> SUFFICES ASSUME Init
               PROVE  LineageInv
    OBVIOUS
  <1>1. SearchInv /\ TakenInTurn
    BY InitEstablishes DEF Init, TakenInTurn, Opened, Recorded, Sequential
  <1>2. ledger = <<>> /\ pool = {} /\ archive = {} /\ accepted = NoArchitecture /\ phase = "fresh"
        /\ (\A i \in Numbers : at[i] = "waiting") /\ (\A i \in 0 .. Opportunities : view[i] = Rejected)
    BY DEF Init
  <1>3. Retained = ledger /\ \A j \in Numbers : at[j] # "saved" /\ ~InProgress(j)
    BY <1>2, NoneNow DEF NoneFacts
  <1>4. KeptBy(kind, <<>>) = {} /\ CellsHaveBest(kind, <<>>) /\ DOMAIN ledger = {}
    BY <1>2, KeptOfFew
  <1>5. RecordsTellSearch
    BY <1>2, <1>3, <1>4, TellsNow DEF Tells, Told, Founded, Grounded
  <1>6. Kept(ledger) = {}
    BY <1>2, <1>4, ReadNow
  <1>7. PoolIsKept
    <2>1. FairlyUsed(pool)
      BY <1>2 DEF FairlyUsed
    <2> QED BY <1>2, <1>3, <1>6, <2>1 DEF PoolIsKept
  <1>8. FilesFollow
    BY <1>2 DEF FilesFollow
  <1>9. LineageExplainsState
    BY <1>6 DEF LineageExplainsState
  <1> QED BY <1>1, <1>2, <1>5, <1>7, <1>8, <1>9 DEF LineageInv

\* The inductive invariant: what the lineage says of the memory and the files.
THEOREM LineageInvariant == Spec => []LineageInv
  <1>1. LineageInv /\ [Next]_vars => LineageInv'
    <2> SUFFICES ASSUME LineageInv, [Next]_vars
                 PROVE  LineageInv'
      OBVIOUS
    <2>1. SearchInv /\ TakenInTurn /\ OneCell /\ TypeOK
      BY DEF LineageInv, OneCell, SearchInv
    <2>2. SearchInv'
      BY <2>1, SearchPreserved
    <2>3. TakenInTurn' /\ OneCell'
      BY <2>1, <2>2, TurnPreserved, OneCellPreserved
    <2>4. Sequential' => Sequential
      BY DEF Next, Sequential, Prepare, EvaluateSeed, SaveSeed, Close, Kill, Ask, Answer, Claim,
         Train, Record, SaveArchive, TruncateIncumbent, SaveIncumbent, Commit, AddChild, LoseChild, vars
    <2>5. Sequential' => RecordsTellSearch' /\ PoolIsKept' /\ FilesFollow'
      BY <2>1, <2>2, <2>3, <2>4, LineageKept DEF InTurn, LineageInv
    <2>6. LineageExplainsState'
      BY <2>2, <2>3, <2>5, ExplainedPreserved
    <2> QED BY <2>2, <2>3, <2>5, <2>6 DEF LineageInv, OneCell
  <1> QED BY <1>1, LineageInit, PTL DEF Spec

\* Wherever a sequential controller is killed, its lineage explains its files.
THEOREM LineageExplains == Spec => []LineageExplainsState
  <1>1. LineageInv => LineageExplainsState
    BY DEF LineageInv
  <1> QED BY <1>1, LineageInvariant, PTL

=============================================================================
