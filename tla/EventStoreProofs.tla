-------------------------- MODULE EventStoreProofs --------------------------
(***************************************************************************)
(* Proofs about EventStore, for any number of processes, events, crashes   *)
(* and sequence directories.                                               *)
(*                                                                         *)
(* What a scan accepts is a CHOOSE over directories.  LastOpen fixes it:   *)
(* every directory but the last is sound, so that all or all but the last  *)
(* are accepted (CountOf).  A writer changes the last directory only: to   *)
(* open it and to add a torn attempt changes nothing that is accepted, and *)
(* to fill the attempt adds one event.                                     *)
(***************************************************************************)
EXTENDS EventStore, SequenceTheorems, TLAPS

Attempts == Seq(Records \cup {Torn})

-----------------------------------------------------------------------------
(* What a scan accepts. *)

\* A directory with one record holds that record.
LEMMA RecordOf ==
    ASSUME NEW s \in Attempts, NEW j \in 1 .. Len(s), Committed(s) = {j}
    PROVE  CommittedRecord(s) = s[j] /\ CommittedRecord(s) \in Records
<1>1. CommittedRecord(s) = s[j]
  BY DEF CommittedRecord
<1>2. s[j] # Torn
  BY DEF Committed
<1>3. QED
  BY <1>1, <1>2 DEF Attempts

\* Whether a directory is sound depends on it and those before.
LEMMA SoundSame ==
    ASSUME NEW d \in Seq(Attempts), NEW e \in Seq(Attempts), NEW k \in Nat,
           k <= Len(d), k <= Len(e), \A i \in 1 .. k : d[i] = e[i], k > 0
    PROVE  /\ Sound(d, k) = Sound(e, k)
           /\ AtMostOne(d, k) = AtMostOne(e, k)
<1>1. AtMostOne(d, k) = AtMostOne(e, k)
  BY DEF AtMostOne
<1>2. [j \in 1 .. (k - 1) |-> CommittedRecord(d[j]).event]
        = [j \in 1 .. (k - 1) |-> CommittedRecord(e[j]).event]
  OBVIOUS
<1>3. d[k] = e[k]
  OBVIOUS
<1>4. QED
  BY <1>1, <1>2, <1>3 DEF Sound

LEMMA SoundBelow ==
    ASSUME NEW d \in Seq(Attempts), NEW e \in Seq(Attempts), NEW n \in Nat,
           n <= Len(d), n <= Len(e), \A i \in 1 .. n : d[i] = e[i]
    PROVE  \A k \in 1 .. n : Sound(d, k) = Sound(e, k)
<1> TAKE k \in 1 .. n
<1>1. k \in Nat /\ k > 0 /\ k <= Len(d) /\ k <= Len(e)
  OBVIOUS
<1>2. \A i \in 1 .. k : d[i] = e[i]
  OBVIOUS
<1>3. QED
  BY <1>1, <1>2, SoundSame

\* All directories are accepted, or all but the last.
LEMMA CountOf ==
    ASSUME NEW d \in Seq(Attempts), LastOpen(d)
    PROVE  /\ AcceptedCount(d) \in 0 .. Len(d)
           /\ d = <<>> => AcceptedCount(d) = 0
           /\ d # <<>> /\ Sound(d, Len(d)) => AcceptedCount(d) = Len(d)
           /\ d # <<>> /\ ~Sound(d, Len(d)) =>
                 AcceptedCount(d) = Len(d) - 1 /\ Committed(d[Len(d)]) = {}
           /\ \A k \in 1 .. AcceptedCount(d) : Sound(d, k)
<1> DEFINE P(n) == /\ \A k \in 1 .. n : Sound(d, k)
                   /\ n < Len(d) => ~Sound(d, n + 1)
<1>1. Len(d) \in Nat /\ (d # <<>> => Len(d) > 0) /\ Len(<<>>) = 0
  OBVIOUS
<1>2. \A k \in 1 .. Len(d) : k < Len(d) => Sound(d, k)
  BY DEF LastOpen
<1>3. d # <<>> /\ ~Sound(d, Len(d)) => Committed(d[Len(d)]) = {}
  <2>1. d # <<>> => Len(d) \in 1 .. Len(d)
    BY <1>1
  <2>2. QED
    BY <2>1 DEF LastOpen
<1>4. ASSUME NEW n \in 0 .. Len(d), P(n)
      PROVE  IF d = <<>> \/ Sound(d, Len(d)) THEN n = Len(d) ELSE n = Len(d) - 1
  <2>1. n < Len(d) => n + 1 = Len(d)
    BY <1>2, <1>4, <1>1
  <2>2. QED
    BY <2>1, <1>4, <1>1
<1>5. \E n \in 0 .. Len(d) : P(n)
  <2>1. CASE d = <<>> \/ Sound(d, Len(d))
    <3>1. P(Len(d))
      BY <2>1, <1>1, <1>2
    <3>2. QED
      BY <3>1, <1>1
  <2>2. CASE ~(d = <<>> \/ Sound(d, Len(d)))
    <3>1. P(Len(d) - 1) /\ Len(d) - 1 \in 0 .. Len(d)
      BY <2>2, <1>1, <1>2
    <3>2. QED
      BY <3>1
  <2>3. QED
    BY <2>1, <2>2
<1>6. AcceptedCount(d) \in 0 .. Len(d) /\ P(AcceptedCount(d))
  BY <1>5 DEF AcceptedCount
<1> HIDE DEF P
<1>7. IF d = <<>> \/ Sound(d, Len(d))
        THEN AcceptedCount(d) = Len(d) ELSE AcceptedCount(d) = Len(d) - 1
  BY <1>4, <1>6
<1>8. \A k \in 1 .. AcceptedCount(d) : Sound(d, k)
  BY <1>6 DEF P
<1>9. QED
  BY <1>1, <1>3, <1>6, <1>7, <1>8

\* The accepted events are a sequence of events.
LEMMA AcceptedType ==
    ASSUME NEW d \in Seq(Attempts), LastOpen(d)
    PROVE  Accepted(d) \in Seq(Events) /\ Len(Accepted(d)) = AcceptedCount(d)
<1>1. AcceptedCount(d) \in Nat /\ AcceptedCount(d) <= Len(d)
  BY CountOf
<1>2. ASSUME NEW k \in 1 .. AcceptedCount(d)
      PROVE  CommittedRecord(d[k]).event \in Events
  <2>1. Sound(d, k) /\ d[k] \in Attempts
    BY CountOf, <1>1
  <2>2. CommittedRecord(d[k]) \in Records
    BY <2>1, RecordOf DEF Sound
  <2>3. QED
    BY <2>2 DEF Records
<1>3. QED
  BY <1>1, <1>2, IsASeq DEF Accepted

\* A scan is fatal when the last directory is not sound, and not the only one
\* with an unfinished attempt.
LEMMA FatalOf ==
    ASSUME NEW d \in Seq(Attempts), LastOpen(d)
    PROVE  Fatal(d) <=> d # <<>> /\ ~Sound(d, Len(d)) /\ ~AtMostOne(d, Len(d))
<1>1. CASE d = <<>>
  <2>1. AcceptedCount(d) = 0 /\ Len(d) = 0
    BY <1>1, CountOf
  <2>2. QED
    BY <2>1, <1>1 DEF Fatal
<1>2. CASE d # <<>> /\ Sound(d, Len(d))
  BY <1>2, CountOf DEF Fatal
<1>3. CASE d # <<>> /\ ~Sound(d, Len(d))
  <2>1. Len(d) \in Nat /\ Len(d) > 0
    BY <1>3
  <2>2. AcceptedCount(d) = Len(d) - 1 /\ Committed(d[Len(d)]) = {}
    BY <1>3, CountOf
  <2>3. QED
    BY <2>1, <2>2, <1>3 DEF Fatal
<1>4. QED
  BY <1>1, <1>2, <1>3

-----------------------------------------------------------------------------
(* The three writes of an append. *)

\* A directory that is opened after sound ones.
LEMMA OpenKeeps ==
    ASSUME NEW d \in Seq(Attempts), LastOpen(d), AcceptedCount(d) = Len(d),
           NEW e, e = Append(d, <<>>)
    PROVE  /\ e \in Seq(Attempts) /\ LastOpen(e) /\ Accepted(e) = Accepted(d)
           /\ Len(e) = Len(d) + 1 /\ e[Len(e)] = <<>>
           /\ AcceptedCount(e) = AcceptedCount(d)
<1>1. Len(d) \in Nat /\ <<>> \in Attempts
  BY DEF Attempts
<1>2. e \in Seq(Attempts) /\ Len(e) = Len(d) + 1 /\ e # <<>>
  BY <1>1
<1>3. e[Len(e)] = <<>> /\ \A i \in 1 .. Len(d) : e[i] = d[i]
  BY <1>1, <1>2
<1>4. Committed(e[Len(e)]) = {}
  BY <1>3 DEF Committed
<1>5. \A k \in 1 .. Len(d) : Sound(d, k)
  BY CountOf
<1>6. \A k \in 1 .. Len(d) : Sound(e, k)
  <2>1. Len(d) <= Len(e) /\ Len(d) <= Len(d)
    BY <1>1, <1>2
  <2>2. QED
    BY <1>1, <1>2, <1>3, <1>5, <2>1, SoundBelow
<1>7. LastOpen(e)
  BY <1>1, <1>2, <1>4, <1>6 DEF LastOpen
<1>8. ~Sound(e, Len(e))
  BY <1>4 DEF Sound
<1>9. AcceptedCount(e) = AcceptedCount(d)
  <2>1. AcceptedCount(e) = Len(e) - 1
    BY <1>2, <1>7, <1>8, CountOf
  <2>2. QED
    BY <1>1, <1>2, <2>1
<1>10. Accepted(e) = Accepted(d)
  BY <1>1, <1>3, <1>9 DEF Accepted
<1>11. QED
  BY <1>2, <1>3, <1>7, <1>9, <1>10

\* A last directory without a record gets something else without one.
LEMMA TearKeeps ==
    ASSUME NEW d \in Seq(Attempts), LastOpen(d), d # <<>>,
           Committed(d[Len(d)]) = {}, NEW s \in Attempts, Committed(s) = {},
           NEW e, e = [d EXCEPT ![Len(d)] = s]
    PROVE  /\ e \in Seq(Attempts) /\ LastOpen(e) /\ Accepted(e) = Accepted(d)
           /\ Len(e) = Len(d) /\ e[Len(e)] = s
           /\ AcceptedCount(e) = AcceptedCount(d) /\ AcceptedCount(d) = Len(d) - 1
<1>1. Len(d) \in Nat /\ Len(d) > 0
  OBVIOUS
<1>2. e \in Seq(Attempts) /\ Len(e) = Len(d) /\ e # <<>>
  BY <1>1
<1>3. e[Len(e)] = s /\ \A i \in 1 .. (Len(d) - 1) : e[i] = d[i]
  BY <1>1, <1>2
<1>4. ~Sound(d, Len(d)) /\ ~Sound(e, Len(e))
  BY <1>2, <1>3 DEF Sound
<1>5. \A k \in 1 .. (Len(d) - 1) : Sound(d, k)
  BY <1>1 DEF LastOpen
<1>6. \A k \in 1 .. (Len(d) - 1) : Sound(e, k)
  <2>1. Len(d) - 1 \in Nat /\ Len(d) - 1 <= Len(d) /\ Len(d) - 1 <= Len(e)
    BY <1>1, <1>2
  <2>2. \A k \in 1 .. (Len(d) - 1) : Sound(d, k) = Sound(e, k)
    <3> DEFINE m == Len(d) - 1
    <3>1. m \in Nat /\ m <= Len(d) /\ m <= Len(e) /\ \A i \in 1 .. m : d[i] = e[i]
      BY <1>3, <2>1
    <3> HIDE DEF m
    <3>2. \A k \in 1 .. m : Sound(d, k) = Sound(e, k)
      BY <1>2, <3>1, SoundBelow
    <3>3. QED
      BY <3>2 DEF m
  <2>3. QED
    BY <1>5, <2>2
<1>7. LastOpen(e)
  <2>1. \A k \in 1 .. Len(e) : k # Len(e) => Sound(e, k)
    <3>1. \A k \in 1 .. Len(e) : k # Len(e) => k \in 1 .. (Len(d) - 1)
      BY <1>1, <1>2
    <3>2. QED
      BY <1>6, <3>1
  <2>2. \A k \in 1 .. Len(e) : k < Len(e) => k # Len(e)
    BY <1>1, <1>2
  <2>3. QED
    BY <1>3, <2>1, <2>2 DEF LastOpen
<1>8. AcceptedCount(d) = Len(d) - 1
  BY <1>1, <1>4, CountOf
<1>9. AcceptedCount(e) = Len(e) - 1
  BY <1>1, <1>2, <1>4, <1>7, CountOf
<1>10. Accepted(e) = Accepted(d)
  <2>1. AcceptedCount(e) = Len(d) - 1
    BY <1>2, <1>9
  <2>2. [k \in 1 .. (Len(d) - 1) |-> CommittedRecord(e[k]).event]
          = [k \in 1 .. (Len(d) - 1) |-> CommittedRecord(d[k]).event]
    BY <1>3
  <2>3. QED
    BY <1>8, <2>1, <2>2 DEF Accepted
<1>11. QED
  BY <1>2, <1>3, <1>7, <1>8, <1>9, <1>10

\* The last attempt becomes the record of its directory.
LEMMA FillKeeps ==
    ASSUME NEW d \in Seq(Attempts), LastOpen(d), d # <<>>,
           Committed(d[Len(d)]) = {}, d[Len(d)] # <<>>,
           NEW r \in Records, Torn \notin Records, r.previous = Accepted(d),
           NEW e, e = [d EXCEPT ![Len(d)][Len(d[Len(d)])] = r],
           AtMostOne(e, Len(e))
    PROVE  /\ e \in Seq(Attempts) /\ LastOpen(e) /\ Len(e) = Len(d)
           /\ AcceptedCount(e) = Len(e) /\ AcceptedCount(d) = Len(d) - 1
           /\ Accepted(e) = Append(Accepted(d), r.event)
<1> DEFINE n == Len(d)
           m == Len(d[n])
<1>1. n \in Nat /\ n > 0 /\ d[n] \in Attempts
  OBVIOUS
<1>2. m \in Nat /\ m > 0 /\ d[n] \in Seq(Records \cup {Torn})
  BY <1>1 DEF Attempts
<1>3. r \in Records \cup {Torn} /\ r # Torn
  OBVIOUS
<1>4. [d[n] EXCEPT ![m] = r] \in Attempts
  BY <1>2, <1>3 DEF Attempts
<1>5. e \in Seq(Attempts) /\ Len(e) = n /\ e # <<>>
  BY <1>1, <1>4
<1>6. e[n] = [d[n] EXCEPT ![m] = r] /\ \A i \in 1 .. (n - 1) : e[i] = d[i]
  BY <1>1
<1>7. Len(e[n]) = m /\ e[n][m] = r /\ \A j \in 1 .. m : j # m => e[n][j] = d[n][j]
  BY <1>2, <1>6
<1>8. \A j \in 1 .. m : d[n][j] = Torn
  BY DEF Committed
<1>9. Committed(e[n]) = {m}
  BY <1>2, <1>3, <1>7, <1>8 DEF Committed
<1>10. CommittedRecord(e[n]) = r
  BY <1>7, <1>9 DEF CommittedRecord
<1>11. ~Sound(d, n)
  BY DEF Sound
<1>12. AcceptedCount(d) = n - 1
  BY <1>1, <1>11, CountOf
<1>13. Accepted(d) = [j \in 1 .. (n - 1) |-> CommittedRecord(e[j]).event]
  BY <1>1, <1>6, <1>12 DEF Accepted
<1>14. Sound(e, n)
  <2>1. m \in 1 .. Len(e[n])
    BY <1>2, <1>7
  <2>2. AtMostOne(e, n)
    BY <1>5
  <2>3. QED
    BY <1>9, <1>10, <1>13, <2>1, <2>2 DEF Sound
<1>15. \A k \in 1 .. (n - 1) : Sound(e, k)
  <2>1. \A k \in 1 .. (n - 1) : Sound(d, k)
    BY <1>1 DEF LastOpen
  <2>2. n - 1 \in Nat /\ n - 1 <= Len(d) /\ n - 1 <= Len(e)
    BY <1>1, <1>5
  <2>3. \A k \in 1 .. (n - 1) : Sound(d, k) = Sound(e, k)
    <3> DEFINE l == n - 1
    <3>1. l \in Nat /\ l <= Len(d) /\ l <= Len(e) /\ \A i \in 1 .. l : d[i] = e[i]
      BY <1>6, <2>2
    <3> HIDE DEF l
    <3>2. \A k \in 1 .. l : Sound(d, k) = Sound(e, k)
      BY <1>5, <3>1, SoundBelow
    <3>3. QED
      BY <3>2 DEF l
  <2>4. QED
    BY <2>1, <2>3
<1>16. LastOpen(e)
  <2>1. \A k \in 1 .. Len(e) : k # n => Sound(e, k)
    <3>1. \A k \in 1 .. Len(e) : k # n => k \in 1 .. (n - 1)
      BY <1>1, <1>5
    <3>2. QED
      BY <1>15, <3>1
  <2>2. QED
    BY <1>14, <2>1 DEF LastOpen
<1>17. AcceptedCount(e) = n
  BY <1>5, <1>14, <1>16, CountOf
<1>18. Accepted(e) = Append(Accepted(d), r.event)
  <2>1. Accepted(d) \in Seq(Events) /\ Len(Accepted(d)) = n - 1
    BY <1>12, AcceptedType
  <2>2. Accepted(e) = [j \in 1 .. n |-> CommittedRecord(e[j]).event]
    BY <1>17 DEF Accepted
  <2>3. \A j \in 1 .. (n - 1) : Accepted(d)[j] = CommittedRecord(e[j]).event
    BY <1>13
  <2>4. Accepted(e) \in Seq(Events) /\ Len(Accepted(e)) = n
    BY <1>5, <1>16, <1>17, AcceptedType
  <2>5. r.event \in Events
    BY DEF Records
  <2>6. Append(Accepted(d), r.event) \in Seq(Events)
          /\ Len(Append(Accepted(d), r.event)) = n
    BY <1>1, <2>1, <2>5
  <2>7. \A j \in 1 .. n : Accepted(e)[j] = Append(Accepted(d), r.event)[j]
    BY <1>1, <1>10, <2>1, <2>2, <2>3, <2>5
  <2>8. QED
    BY <2>4, <2>6, <2>7, SeqEqual
<1>19. QED
  BY <1>5, <1>12, <1>16, <1>17, <1>18

-----------------------------------------------------------------------------
(* Steps that leave the directories alone. *)

Quiet(p) ==
    \/ CreateContext(p) \/ WriteContext(p) \/ FindContext(p) \/ Reopen(p)
    \/ \E e \in Events : LockForAppend(p, e)
    \/ ScanFails(p) \/ AppendReturns(p)
    \/ LockForScan(p) \/ ScanReturns(p) \/ LoadPointer(p) \/ StartFreeze(p)
    \/ CreatePointer(p) \/ FindPointer(p) \/ WritePointer(p)

\* What such a step does to what the invariant speaks of.
Aside(p) ==
    /\ dirs' = dirs /\ crashes' = crashes
    /\ pc[p] \notin {"create", "write"} /\ pc'[p] \notin {"create", "write", "written"}
    /\ \A q \in Procs \ {p} : pc'[q] = pc[q] /\ seen'[q] = seen[q] /\ wanted'[q] = wanted[q]
    /\ seen'[p] \in {seen[p], Accepted(dirs)}
    /\ \/ pointer' = pointer
       \/ pointer'.file = "torn"
       \/ pointer' = [file |-> "whole", index |-> seen[p]]
    /\ \/ acked' = acked
       \/ pc[p] = "written" /\ acked' = acked \cup {<<Len(seen[p]) + 1, wanted[p]>>}

LEMMA MovesOf ==
    ASSUME TypeOK, NEW p \in Procs, NEW from, NEW to, Goto(p, from, to)
    PROVE  /\ pc[p] = from /\ pc'[p] = to
           /\ \A q \in Procs \ {p} : pc'[q] = pc[q]
           /\ to \in Places => pc' \in [Procs -> Places]
BY DEF TypeOK, Goto

LEMMA QuietAside ==
    ASSUME StoreInv, NEW p \in Procs, Quiet(p)
    PROVE  Aside(p)
<1>0. TypeOK
  BY DEF StoreInv
<1>1. CASE CreateContext(p) \/ WriteContext(p) \/ FindContext(p) \/ Reopen(p)
  BY <1>0, <1>1, MovesOf
  DEF CreateContext, WriteContext, FindContext, Reopen, Aside, files, history
<1>2. CASE \E e \in Events : LockForAppend(p, e)
  BY <1>0, <1>2, MovesOf DEF LockForAppend, Aside, files, history, TypeOK
<1>3. CASE ScanFails(p)
  BY <1>0, <1>3, MovesOf DEF ScanFails, Aside, files, history
<1>4. CASE AppendReturns(p)
  BY <1>0, <1>4, MovesOf DEF AppendReturns, Aside, files
<1>5. CASE LockForScan(p) \/ StartFreeze(p) \/ LoadPointer(p)
  BY <1>0, <1>5, MovesOf DEF LockForScan, StartFreeze, LoadPointer, Aside, files, history
<1>6. CASE ScanReturns(p)
  BY <1>0, <1>6, MovesOf DEF ScanReturns, Aside, files, history, TypeOK
<1>7. CASE CreatePointer(p)
  BY <1>0, <1>7, MovesOf DEF CreatePointer, Aside, history
<1>8. CASE FindPointer(p)
  BY <1>0, <1>8, MovesOf DEF FindPointer, Aside, files, history
<1>9. CASE WritePointer(p)
  BY <1>0, <1>9, MovesOf DEF WritePointer, Aside, history
<1>10. QED
  BY <1>1, <1>2, <1>3, <1>4, <1>5, <1>6, <1>7, <1>8, <1>9 DEF Quiet

LEMMA QuietTypes ==
    ASSUME StoreInv, NEW p \in Procs, Quiet(p)
    PROVE  TypeOK'
<1>0. TypeOK
  BY DEF StoreInv
<1>1. Accepted(dirs) \in Seq(Events)
  BY AcceptedType DEF StoreInv, TypeOK, Attempts
<1>2. pc' \in [Procs -> Places]
  BY <1>0, MovesOf
  DEF Quiet, CreateContext, WriteContext, FindContext, Reopen, LockForAppend, ScanFails,
      AppendReturns, LockForScan, ScanReturns, LoadPointer, StartFreeze, CreatePointer,
      FindPointer, WritePointer, Places
<1>3. CASE CreateContext(p) \/ WriteContext(p) \/ FindContext(p) \/ Reopen(p)
  BY <1>0, <1>2, <1>3
  DEF CreateContext, WriteContext, FindContext, Reopen, TypeOK, files, history
<1>4. CASE \E e \in Events : LockForAppend(p, e)
  <2>1. PICK e \in Events : LockForAppend(p, e)
    BY <1>4
  <2>2. wanted' \in [Procs -> Events]
    BY <1>0, <2>1 DEF LockForAppend, TypeOK
  <2>3. QED
    BY <1>0, <1>2, <2>1, <2>2 DEF LockForAppend, TypeOK, files, history
<1>5. CASE ScanFails(p)
  BY <1>0, <1>2, <1>5 DEF ScanFails, Unlock, TypeOK, files, history
<1>6. CASE AppendReturns(p)
  <2>1. acked' \subseteq Nat \X Events
    BY <1>0, <1>6 DEF AppendReturns, TypeOK
  <2>2. QED
    BY <1>0, <1>2, <1>6, <2>1 DEF AppendReturns, Unlock, TypeOK, files
<1>7. CASE LockForScan(p) \/ StartFreeze(p) \/ LoadPointer(p)
  BY <1>0, <1>2, <1>7 DEF LockForScan, StartFreeze, LoadPointer, TypeOK, files, history
<1>8. CASE ScanReturns(p)
  BY <1>0, <1>1, <1>2, <1>8 DEF ScanReturns, Unlock, TypeOK, files, history
<1>9. CASE CreatePointer(p) \/ FindPointer(p) \/ WritePointer(p)
  <2>1. <<>> \in Seq(Events) /\ seen[p] \in Seq(Events)
    BY <1>0 DEF TypeOK
  <2>2. pointer' \in [file : {"absent", "torn", "whole"}, index : Seq(Events)]
    <3>1. CASE CreatePointer(p)
      BY <2>1, <3>1 DEF CreatePointer
    <3>2. CASE FindPointer(p)
      BY <1>0, <3>2 DEF FindPointer, TypeOK, files
    <3>3. CASE WritePointer(p)
      BY <2>1, <3>3 DEF WritePointer
    <3>4. QED
      BY <1>9, <3>1, <3>2, <3>3
  <2>3. QED
    BY <1>0, <1>2, <1>9, <2>2
    DEF CreatePointer, FindPointer, WritePointer, TypeOK, files, history
<1>10. QED
  BY <1>3, <1>4, <1>5, <1>6, <1>7, <1>8, <1>9 DEF Quiet

\* A step of p that leaves the lock, takes it or gives it up.
LEMMA LockMoves ==
    ASSUME TypeOK, LockInv, NEW p \in Procs,
           \A q \in Procs \ {p} : pc'[q] = pc[q],
           \/ /\ lock' = lock
              /\ pc[p] \in Excluding <=> pc'[p] \in Excluding
              /\ pc[p] \in Sharing <=> pc'[p] \in Sharing
           \/ /\ Free /\ lock' = [lock EXCEPT !.exclusive = p]
              /\ pc'[p] \in Excluding
           \/ /\ lock.exclusive = Nobody
              /\ lock' = [lock EXCEPT !.shared = @ \cup {p}]
              /\ pc'[p] \in Sharing
           \/ /\ Unlock(p) /\ pc'[p] \notin Excluding \cup Sharing
    PROVE  LockInv'
<1>0. Nobody \notin Procs /\ Excluding \cap Sharing = {}
  BY StoreAssumption DEF Excluding, Sharing
<1>1. CASE /\ lock' = lock
           /\ pc[p] \in Excluding <=> pc'[p] \in Excluding
           /\ pc[p] \in Sharing <=> pc'[p] \in Sharing
  BY <1>1 DEF LockInv
<1>2. CASE Free /\ lock' = [lock EXCEPT !.exclusive = p] /\ pc'[p] \in Excluding
  <2>1. lock'.exclusive = p /\ lock'.shared = {}
    BY <1>2 DEF TypeOK, Free
  <2>2. \A q \in Procs : pc[q] \notin Excluding /\ pc[q] \notin Sharing
    BY <1>0, <1>2 DEF LockInv, Free
  <2>3. QED
    BY <1>0, <1>2, <2>1, <2>2 DEF LockInv
<1>3. CASE /\ lock.exclusive = Nobody
           /\ lock' = [lock EXCEPT !.shared = @ \cup {p}]
           /\ pc'[p] \in Sharing
  <2>1. lock'.exclusive = Nobody /\ lock'.shared = lock.shared \cup {p}
    BY <1>3 DEF TypeOK
  <2>2. QED
    BY <1>0, <1>3, <2>1 DEF LockInv
<1>4. CASE Unlock(p) /\ pc'[p] \notin Excluding \cup Sharing
  <2>1. /\ lock'.exclusive = IF lock.exclusive = p THEN Nobody ELSE lock.exclusive
        /\ lock'.shared = lock.shared \ {p}
    BY <1>4 DEF Unlock
  <2>2. QED
    BY <1>0, <1>4, <2>1 DEF LockInv
<1>5. QED
  BY <1>1, <1>2, <1>3, <1>4

LEMMA QuietLocks ==
    ASSUME StoreInv, NEW p \in Procs, Quiet(p)
    PROVE  LockInv'
<1>0. TypeOK /\ LockInv /\ \A q \in Procs \ {p} : pc'[q] = pc[q]
  BY QuietAside DEF StoreInv, Aside
<1>1. CASE CreateContext(p) \/ WriteContext(p) \/ FindContext(p) \/ Reopen(p)
           \/ LoadPointer(p) \/ CreatePointer(p) \/ FindPointer(p) \/ WritePointer(p)
  <2>1. /\ lock' = lock
        /\ pc[p] \notin Excluding \cup Sharing /\ pc'[p] \notin Excluding \cup Sharing
    BY <1>0, <1>1, MovesOf
    DEF CreateContext, WriteContext, FindContext, Reopen, LoadPointer, CreatePointer,
        FindPointer, WritePointer, Excluding, Sharing
  <2>2. QED
    BY <1>0, <2>1, LockMoves
<1>2. CASE \E e \in Events : LockForAppend(p, e)
  <2>1. Free /\ lock' = [lock EXCEPT !.exclusive = p] /\ pc'[p] \in Excluding
    BY <1>0, <1>2, MovesOf DEF LockForAppend, Excluding
  <2>2. QED
    BY <1>0, <2>1, LockMoves
<1>3. CASE LockForScan(p) \/ StartFreeze(p)
  <2>1. /\ lock.exclusive = Nobody
        /\ lock' = [lock EXCEPT !.shared = @ \cup {p}]
        /\ pc'[p] \in Sharing
    BY <1>0, <1>3, MovesOf DEF LockForScan, StartFreeze, Sharing
  <2>2. QED
    BY <1>0, <2>1, LockMoves
<1>4. CASE ScanFails(p) \/ AppendReturns(p) \/ ScanReturns(p)
  <2>1. Unlock(p) /\ pc'[p] \notin Excluding \cup Sharing
    BY <1>0, <1>4, MovesOf DEF ScanFails, AppendReturns, ScanReturns, Excluding, Sharing
  <2>2. QED
    BY <1>0, <2>1, LockMoves
<1>5. QED
  BY <1>1, <1>2, <1>3, <1>4 DEF Quiet

LEMMA PointerKeeps ==
    ASSUME StoreInv, NEW p \in Procs, Quiet(p)
    PROVE  PointerInv'
<1>0. TypeOK /\ PointerInv
  BY DEF StoreInv
<1>1. CASE pc'[p] # "pointer" /\ pc[p] # "pointer"
  <2>1. pointer' = pointer
    BY <1>0, <1>1, MovesOf
    DEF Quiet, CreateContext, WriteContext, FindContext, Reopen, LockForAppend, ScanFails,
        AppendReturns, LockForScan, ScanReturns, LoadPointer, StartFreeze, CreatePointer,
        FindPointer, WritePointer, files, history
  <2>2. QED
    BY <1>0, <1>1, <2>1, QuietAside DEF Aside, PointerInv
<1>2. CASE pc'[p] = "pointer" \/ pc[p] = "pointer"
  <2>1. CreatePointer(p) \/ WritePointer(p)
    BY <1>0, <1>2, MovesOf
    DEF Quiet, CreateContext, WriteContext, FindContext, Reopen, LockForAppend, ScanFails,
        AppendReturns, LockForScan, ScanReturns, LoadPointer, StartFreeze, CreatePointer,
        FindPointer, WritePointer
  <2>2. CASE CreatePointer(p)
    <3>1. pointer.file = "absent" /\ pointer'.file = "torn"
      BY <2>2 DEF CreatePointer
    <3>2. QED
      BY <1>0, <3>1, QuietAside DEF Aside, PointerInv
  <2>3. CASE WritePointer(p)
    <3>1. pc[p] = "pointer" /\ pc'[p] = "open"
      BY <1>0, <2>3, MovesOf DEF WritePointer
    <3>2. QED
      BY <1>0, <3>1, QuietAside DEF Aside, PointerInv
  <2>4. QED
    BY <2>1, <2>2, <2>3
<1>3. QED
  BY <1>1, <1>2

\* What was acknowledged and seen stays, and a step aside adds only what is so.
LEMMA AsideKeeps ==
    ASSUME StoreInv, NEW p \in Procs, Aside(p), TypeOK', LockInv', PointerInv'
    PROVE  StoreInv'
<1>0. /\ TypeOK /\ AckedKept /\ ViewsArePrefixes
      /\ LastOpen(dirs) /\ WriterInv /\ CrashInv
  BY DEF StoreInv
<1>1. Accepted(dirs') = Accepted(dirs) /\ AcceptedCount(dirs') = AcceptedCount(dirs)
  BY DEF Aside
<1>2. AckedKept'
  <2>1. CASE acked' = acked
    BY <1>0, <1>1, <2>1 DEF AckedKept
  <2>2. CASE pc[p] = "written" /\ acked' = acked \cup {<<Len(seen[p]) + 1, wanted[p]>>}
    <3>1. /\ Len(seen[p]) + 1 = AcceptedCount(dirs)
          /\ Accepted(dirs)[AcceptedCount(dirs)] = wanted[p]
      BY <1>0, <2>2 DEF WriterInv
    <3>2. AcceptedCount(dirs) \in 1 .. AcceptedCount(dirs)
      BY <1>0, <3>1 DEF TypeOK
    <3>3. QED
      BY <1>0, <1>1, <2>2, <3>1, <3>2 DEF AckedKept
  <2>3. QED
    BY <2>1, <2>2 DEF Aside
<1>3. ViewsArePrefixes'
  <2>1. Before(Accepted(dirs), Accepted(dirs))
    BY <1>0, AcceptedType DEF Before, TypeOK, Attempts
  <2>2. \A q \in Procs : Before(seen'[q], Accepted(dirs))
    BY <1>0, <2>1 DEF ViewsArePrefixes, Aside
  <2>3. pointer'.file = "whole" => Before(pointer'.index, Accepted(dirs))
    BY <1>0 DEF ViewsArePrefixes, Aside
  <2>4. QED
    BY <1>1, <2>2, <2>3 DEF ViewsArePrefixes
<1>4. WriterInv'
  BY <1>0, <1>1 DEF WriterInv, Aside
<1>5. CrashInv'
  <2>1. Writing' = Writing
    BY DEF Writing, Aside
  <2>2. \A h, a : Current(h, a)' <=> Current(h, a)
    BY DEF Current, Aside
  <2>3. QED
    BY <1>0, <2>1, <2>2 DEF CrashInv, Aside
<1>6. LastOpen(dirs)'
  BY <1>0 DEF Aside
<1>7. QED
  BY <1>2, <1>3, <1>4, <1>5, <1>6 DEF StoreInv

-----------------------------------------------------------------------------
(* The steps of a writer. *)

\* A step leaves no attempt behind that was not left behind before it.
NoNewLoss ==
    \A h \in 1 .. Len(dirs') : \A a \in Unfinished(dirs'[h]) :
        ~(Current(h, a)') =>
            h \in 1 .. Len(dirs) /\ a \in Unfinished(dirs[h]) /\ ~Current(h, a)

\* While p excludes, no other process writes.
LEMMA WriterAlone ==
    ASSUME LockInv, NEW p \in Procs, pc[p] \in Excluding
    PROVE  /\ \A q \in Procs \ {p} : pc[q] \notin Excluding
           /\ lock.exclusive = p
BY DEF LockInv

\* The types and the other parts that a step of a writer does not concern.
LEMMA WriterStep ==
    ASSUME StoreInv, NEW p \in Procs,
           ScanForAppend(p) \/ CreateAttempt(p) \/ WriteAttempt(p)
    PROVE  /\ \A q \in Procs \ {p} : pc'[q] = pc[q]
           /\ pc[p] \in {"append", "create", "write"}
           /\ pc'[p] \in {"create", "write", "written"}
           /\ pc' \in [Procs -> Places]
           /\ LockInv' /\ PointerInv'
           /\ <<context, pointer, lock, wanted, acked, crashes>>' =
                <<context, pointer, lock, wanted, acked, crashes>>
<1>0. TypeOK /\ LockInv /\ PointerInv
  BY DEF StoreInv
<1>1. /\ \A q \in Procs \ {p} : pc'[q] = pc[q]
      /\ pc[p] \in {"append", "create", "write"}
      /\ pc'[p] \in {"create", "write", "written"}
      /\ pc' \in [Procs -> Places]
  BY <1>0, MovesOf DEF ScanForAppend, CreateAttempt, WriteAttempt, Places
<1>2. <<context, pointer, lock, wanted, acked, crashes>>' =
        <<context, pointer, lock, wanted, acked, crashes>>
  BY DEF ScanForAppend, CreateAttempt, WriteAttempt, history
<1>3. LockInv'
  BY <1>0, <1>1, <1>2, LockMoves DEF Excluding, Sharing
<1>4. PointerInv'
  BY <1>0, <1>1, <1>2 DEF PointerInv
<1>5. QED
  BY <1>1, <1>2, <1>3, <1>4

LEMMA ScanKeeps ==
    ASSUME StoreInv, NEW p \in Procs, ScanForAppend(p)
    PROVE  StoreInv' /\ NoNewLoss
<1>0. /\ TypeOK /\ LockInv /\ AckedKept /\ ViewsArePrefixes
      /\ LastOpen(dirs) /\ WriterInv /\ CrashInv
      /\ dirs \in Seq(Attempts)
  BY DEF StoreInv, TypeOK, Attempts
<1>1. /\ \A q \in Procs \ {p} : pc'[q] = pc[q]
      /\ pc' \in [Procs -> Places] /\ LockInv' /\ PointerInv'
      /\ <<context, pointer, lock, wanted, acked, crashes>>' =
           <<context, pointer, lock, wanted, acked, crashes>>
  BY WriterStep
<1>2. pc[p] = "append" /\ pc'[p] = "create"
  BY <1>0, MovesOf DEF ScanForAppend
<1>3. \A q \in Procs \ {p} : pc[q] \notin Excluding
  BY <1>0, <1>2, WriterAlone DEF Excluding
<1>4. /\ seen' = [seen EXCEPT ![p] = Accepted(dirs)]
      /\ Accepted(dirs) \in Seq(Events) /\ Len(Accepted(dirs)) = AcceptedCount(dirs)
  BY <1>0, AcceptedType DEF ScanForAppend
<1>5. /\ dirs' \in Seq(Attempts) /\ LastOpen(dirs') /\ Accepted(dirs') = Accepted(dirs)
      /\ AcceptedCount(dirs') = AcceptedCount(dirs)
      /\ Len(dirs') = AcceptedCount(dirs) + 1 /\ Committed(dirs'[Len(dirs')]) = {}
      /\ AtMostOne(dirs, Len(dirs))
      /\ \/ dirs' = dirs
         \/ Len(dirs') = Len(dirs) + 1 /\ dirs'[Len(dirs')] = <<>>
      /\ \A h \in 1 .. Len(dirs) : dirs'[h] = dirs[h]
  <2>0. Len(dirs) \in Nat
    BY <1>0
  <2>1. CASE Len(dirs) = AcceptedCount(dirs)
    <3>1. dirs' = Append(dirs, <<>>)
      BY <2>1 DEF ScanForAppend
    <3>2. /\ dirs' \in Seq(Attempts) /\ LastOpen(dirs') /\ Accepted(dirs') = Accepted(dirs)
          /\ AcceptedCount(dirs') = AcceptedCount(dirs)
          /\ Len(dirs') = Len(dirs) + 1 /\ dirs'[Len(dirs')] = <<>>
      BY <1>0, <2>1, <3>1, OpenKeeps
    <3>3. Committed(dirs'[Len(dirs')]) = {}
      BY <3>2 DEF Committed
    <3>4. \A h \in 1 .. Len(dirs) : dirs'[h] = dirs[h]
      BY <1>0, <2>0, <3>1
    <3>5. AtMostOne(dirs, Len(dirs))
      <4>1. CASE Len(dirs) = 0
        BY <4>1 DEF AtMostOne
      <4>2. CASE Len(dirs) # 0
        <5>1. Len(dirs) \in 1 .. AcceptedCount(dirs)
          BY <2>0, <2>1, <4>2
        <5>2. QED
          BY <1>0, <5>1, CountOf DEF Sound
      <4>3. QED
        BY <4>1, <4>2
    <3>6. QED
      BY <2>1, <3>2, <3>3, <3>4, <3>5
  <2>2. CASE Len(dirs) # AcceptedCount(dirs)
    <3>1. dirs' = dirs
      BY <2>2 DEF ScanForAppend
    <3>2. /\ dirs # <<>> /\ ~Sound(dirs, Len(dirs))
          /\ AcceptedCount(dirs) = Len(dirs) - 1 /\ Committed(dirs[Len(dirs)]) = {}
      <4>1. dirs # <<>>
        <5>1. dirs = <<>> => AcceptedCount(dirs) = 0 /\ Len(dirs) = 0
          BY <1>0, CountOf
        <5>2. QED
          BY <2>2, <5>1
      <4>2. QED
        BY <1>0, <2>2, <4>1, CountOf
    <3>3. AtMostOne(dirs, Len(dirs))
      BY <1>0, <3>2, FatalOf DEF ScanForAppend
    <3>4. QED
      BY <1>0, <2>0, <3>1, <3>2, <3>3
  <2>3. QED
    BY <2>1, <2>2
<1>6. TypeOK'
  BY <1>0, <1>1, <1>4, <1>5 DEF TypeOK, Attempts
<1>7. AckedKept'
  BY <1>0, <1>1, <1>5 DEF AckedKept
<1>8. ViewsArePrefixes'
  <2>1. Before(Accepted(dirs), Accepted(dirs))
    BY <1>4 DEF Before
  <2>2. \A q \in Procs : Before(seen'[q], Accepted(dirs'))
    BY <1>0, <1>4, <1>5, <2>1 DEF ViewsArePrefixes, TypeOK
  <2>3. QED
    BY <1>0, <1>1, <1>5, <2>2 DEF ViewsArePrefixes
<1>9. WriterInv'
  <2>1. \A q \in Procs \ {p} : pc'[q] \notin Excluding
    BY <1>1, <1>3
  <2>2. seen'[p] = Accepted(dirs') /\ Len(dirs') = Len(seen'[p]) + 1
    BY <1>0, <1>4, <1>5 DEF TypeOK
  <2>3. QED
    BY <1>2, <1>5, <2>1, <2>2 DEF WriterInv, Excluding
<1>12. NoNewLoss
  <2>1. ASSUME NEW h \in 1 .. Len(dirs'), NEW a \in Unfinished(dirs'[h]), ~Current(h, a)'
        PROVE  h \in 1 .. Len(dirs) /\ a \in Unfinished(dirs[h]) /\ ~Current(h, a)
    <3>1. h = Len(dirs') => a # 0
      BY <1>2, <2>1 DEF Current
    <3>2. h \in 1 .. Len(dirs)
      BY <1>0, <1>5, <2>1, <3>1 DEF Unfinished
    <3>3. ~Current(h, a)
      BY <1>2, <1>3 DEF Current, Excluding
    <3>4. QED
      BY <1>5, <2>1, <3>2, <3>3
  <2>2. QED
    BY <2>1 DEF NoNewLoss
<1>10. CrashInv'
  <2>2. ASSUME NEW h \in 1 .. Len(dirs'), NEW i \in 1 .. Len(dirs'),
               NEW a \in Unfinished(dirs'[h]), NEW b \in Unfinished(dirs'[i]),
               ~Current(h, a)', ~Current(i, b)'
        PROVE  crashes > 0 /\ h = i /\ a = b
    <3>1. /\ h \in 1 .. Len(dirs) /\ a \in Unfinished(dirs[h]) /\ ~Current(h, a)
          /\ i \in 1 .. Len(dirs) /\ b \in Unfinished(dirs[i]) /\ ~Current(i, b)
      BY <1>12, <2>2 DEF NoNewLoss
    <3>2. crashes > 0
      BY <1>0, <3>1 DEF CrashInv
    <3>3. h = i /\ a = b
      <4>1. AtMostOne(dirs, Len(dirs))
        BY <1>5
      <4>2. QED
        BY <3>1, <4>1, Zenon DEF AtMostOne
    <3>4. QED
      BY <3>2, <3>3
  <2>3. QED
    BY <1>1, <2>2 DEF CrashInv
<1>11. QED
  BY <1>1, <1>5, <1>6, <1>7, <1>8, <1>9, <1>10, <1>12 DEF StoreInv

LEMMA CreateKeeps ==
    ASSUME StoreInv, NEW p \in Procs, CreateAttempt(p)
    PROVE  StoreInv' /\ NoNewLoss /\ Accepted(dirs') = Accepted(dirs)
<1>0. /\ TypeOK /\ LockInv /\ AckedKept /\ ViewsArePrefixes
      /\ LastOpen(dirs) /\ WriterInv /\ CrashInv
      /\ dirs \in Seq(Attempts) /\ Len(dirs) \in Nat
  BY DEF StoreInv, TypeOK, Attempts
<1>1. /\ \A q \in Procs \ {p} : pc'[q] = pc[q]
      /\ pc' \in [Procs -> Places] /\ LockInv' /\ PointerInv'
      /\ <<context, pointer, lock, wanted, acked, crashes>>' =
           <<context, pointer, lock, wanted, acked, crashes>>
      /\ seen' = seen
  BY WriterStep DEF CreateAttempt
<1>2. pc[p] = "create" /\ pc'[p] = "write"
  BY <1>0, MovesOf DEF CreateAttempt
<1>3. \A q \in Procs \ {p} : pc[q] \notin Excluding
  BY <1>0, <1>2, WriterAlone DEF Excluding
<1>4. /\ seen[p] = Accepted(dirs) /\ Len(dirs) = Len(seen[p]) + 1
      /\ Committed(dirs[Len(dirs)]) = {}
      /\ dirs # <<>>
  BY <1>0, <1>2 DEF WriterInv, TypeOK
<1> DEFINE n == Len(dirs)
           s == Append(dirs[n], Torn)
<1>5. dirs[n] \in Attempts /\ n > 0
  BY <1>0, <1>4
<1>6. s \in Attempts /\ Len(s) = Len(dirs[n]) + 1 /\ Len(dirs[n]) \in Nat
  BY <1>5 DEF Attempts
<1>7. \A j \in 1 .. Len(dirs[n]) : dirs[n][j] = Torn /\ s[j] = Torn
  BY <1>4, <1>5, <1>6 DEF Committed, Attempts
<1>8. Committed(s) = {}
  BY <1>5, <1>6, <1>7 DEF Committed, Attempts
<1>9. dirs' = [dirs EXCEPT ![n] = s]
  BY <1>4 DEF CreateAttempt
<1> HIDE DEF s
<1>10. /\ dirs' \in Seq(Attempts) /\ LastOpen(dirs') /\ Accepted(dirs') = Accepted(dirs)
       /\ Len(dirs') = n /\ dirs'[n] = s /\ AcceptedCount(dirs') = AcceptedCount(dirs)
  BY <1>0, <1>4, <1>6, <1>8, <1>9, TearKeeps
<1>11. TypeOK'
  BY <1>0, <1>1, <1>10 DEF TypeOK, Attempts
<1>12. AckedKept' /\ ViewsArePrefixes'
  BY <1>0, <1>1, <1>10 DEF AckedKept, ViewsArePrefixes
<1>13. WriterInv'
  <2>1. \A q \in Procs \ {p} : pc'[q] \notin Excluding
    BY <1>1, <1>3
  <2>2. dirs'[Len(dirs')] # <<>>
    BY <1>6, <1>10
  <2>3. QED
    BY <1>1, <1>2, <1>4, <1>8, <1>10, <2>1, <2>2 DEF WriterInv, Excluding
<1>16. NoNewLoss
  <2>1. ASSUME NEW h \in 1 .. Len(dirs'), NEW a \in Unfinished(dirs'[h]), ~Current(h, a)'
        PROVE  h \in 1 .. Len(dirs) /\ a \in Unfinished(dirs[h]) /\ ~Current(h, a)
    <3>1. CASE h # n
      <4>1. dirs'[h] = dirs[h] /\ h \in 1 .. n
        BY <1>0, <1>9, <1>10, <2>1, <3>1
      <4>2. QED
        BY <2>1, <3>1, <4>1 DEF Current
    <3>2. CASE h = n
      <4>1. a # Len(s)
        BY <1>2, <1>10, <2>1, <3>2 DEF Current
      <4>2. s # <<>> /\ a \in 1 .. Len(s)
        BY <1>6, <1>8, <1>10, <2>1, <3>2 DEF Unfinished
      <4>3. a \in 1 .. Len(dirs[n]) /\ a # 0 /\ dirs[n] # <<>>
        BY <1>6, <4>1, <4>2
      <4>4. a \in Unfinished(dirs[n])
        BY <1>4, <4>3 DEF Unfinished
      <4>5. ~Current(h, a)
        BY <1>2, <1>3, <4>3 DEF Current, Excluding
      <4>6. QED
        BY <1>10, <3>2, <4>4, <4>5
    <3>3. QED
      BY <3>1, <3>2
  <2>2. QED
    BY <2>1 DEF NoNewLoss
<1>14. CrashInv'
  <2>2. Writing
    BY <1>2 DEF Writing
  <2>3. QED
    BY <1>0, <1>1, <1>16, <2>2 DEF CrashInv, NoNewLoss
<1>15. QED
  BY <1>1, <1>10, <1>11, <1>12, <1>13, <1>14, <1>16 DEF StoreInv

LEMMA WriteKeeps ==
    ASSUME StoreInv, NEW p \in Procs, WriteAttempt(p)
    PROVE  /\ StoreInv' /\ NoNewLoss
           /\ \E e \in Events : Accepted(dirs') = Append(Accepted(dirs), e)
<1>0. /\ TypeOK /\ LockInv /\ AckedKept /\ ViewsArePrefixes
      /\ LastOpen(dirs) /\ WriterInv /\ CrashInv
      /\ dirs \in Seq(Attempts) /\ Len(dirs) \in Nat
  BY DEF StoreInv, TypeOK, Attempts
<1>1. /\ \A q \in Procs \ {p} : pc'[q] = pc[q]
      /\ pc' \in [Procs -> Places] /\ LockInv' /\ PointerInv'
      /\ <<context, pointer, lock, wanted, acked, crashes>>' =
           <<context, pointer, lock, wanted, acked, crashes>>
      /\ seen' = seen
  BY WriterStep DEF WriteAttempt
<1>2. pc[p] = "write" /\ pc'[p] = "written"
  BY <1>0, MovesOf DEF WriteAttempt
<1>3. \A q \in Procs \ {p} : pc[q] \notin Excluding
  BY <1>0, <1>2, WriterAlone DEF Excluding
<1>4. /\ seen[p] = Accepted(dirs) /\ Len(dirs) = Len(seen[p]) + 1
      /\ Committed(dirs[Len(dirs)]) = {} /\ dirs[Len(dirs)] # <<>>
      /\ dirs # <<>>
  BY <1>0, <1>2 DEF WriterInv, TypeOK
<1> DEFINE n == Len(dirs)
           m == Len(dirs[n])
           r == [event |-> wanted[p], previous |-> seen[p]]
<1>5. r \in Records /\ Torn \notin Records /\ r.previous = Accepted(dirs)
      /\ r.event = wanted[p] /\ wanted[p] \in Events
  BY <1>0, <1>4, StoreAssumption DEF TypeOK, Records
<1>6. dirs' = [dirs EXCEPT ![n][m] = r]
  BY <1>4 DEF WriteAttempt
<1> HIDE DEF r
<1>7. /\ n > 0 /\ dirs[n] \in Attempts /\ m \in Nat /\ m > 0
      /\ dirs[n] \in Seq(Records \cup {Torn})
  BY <1>0, <1>4 DEF Attempts
<1>8. /\ dirs' \in Seq(Attempts) /\ Len(dirs') = n
      /\ dirs'[n] = [dirs[n] EXCEPT ![m] = r] /\ \A h \in 1 .. (n - 1) : dirs'[h] = dirs[h]
  <2>1. [dirs[n] EXCEPT ![m] = r] \in Attempts
    BY <1>5, <1>7 DEF Attempts
  <2>2. QED
    BY <1>0, <1>6, <1>7, <2>1
<1>9. /\ Len(dirs'[n]) = m /\ dirs'[n] # <<>>
      /\ m \in Committed(dirs'[n])
      /\ \A j \in 1 .. m : j # m => dirs'[n][j] = dirs[n][j]
  <2>1. r # Torn
    BY <1>5
  <2>2. Len(dirs'[n]) = m /\ dirs'[n][m] = r
    BY <1>5, <1>7, <1>8
  <2>3. QED
    BY <1>5, <1>7, <1>8, <2>1, <2>2 DEF Committed
<1>10. ASSUME NEW h \in 1 .. n, NEW a \in Unfinished(dirs'[h])
       PROVE  a \in Unfinished(dirs[h]) /\ ~Current(h, a)
  <2>1. CASE h # n
    <3>1. dirs'[h] = dirs[h]
      BY <1>0, <1>8, <1>10, <2>1
    <3>2. QED
      BY <1>10, <2>1, <3>1 DEF Current
  <2>2. CASE h = n
    <3>1. a \in 1 .. m /\ a # m /\ a # 0
      BY <1>7, <1>9, <1>10, <2>2 DEF Unfinished
    <3>2. a \in Unfinished(dirs[n])
      BY <1>4, <3>1 DEF Unfinished
    <3>3. QED
      BY <1>2, <1>3, <2>2, <3>1, <3>2 DEF Current, Excluding
  <2>3. QED
    BY <2>1, <2>2
<1>11. Writing
  BY <1>2 DEF Writing
<1>12. AtMostOne(dirs', n)
  BY <1>0, <1>10, <1>11 DEF CrashInv, AtMostOne
<1>13. /\ LastOpen(dirs') /\ AcceptedCount(dirs') = n /\ AcceptedCount(dirs) = n - 1
       /\ Accepted(dirs') = Append(Accepted(dirs), wanted[p])
  <2>1. AtMostOne(dirs', Len(dirs'))
    BY <1>8, <1>12
  <2>2. /\ LastOpen(dirs') /\ AcceptedCount(dirs') = Len(dirs')
        /\ AcceptedCount(dirs) = Len(dirs) - 1
        /\ Accepted(dirs') = Append(Accepted(dirs), r.event)
    BY <1>0, <1>4, <1>5, <1>6, <2>1, FillKeeps
  <2>3. QED
    BY <1>5, <1>8, <2>2
<1>14. TypeOK'
  BY <1>0, <1>1, <1>8 DEF TypeOK, Attempts
<1>15. /\ Accepted(dirs) \in Seq(Events) /\ Len(Accepted(dirs)) = n - 1
       /\ Len(Accepted(dirs')) = n
       /\ Accepted(dirs')[n] = wanted[p]
       /\ \A k \in 1 .. (n - 1) : Accepted(dirs')[k] = Accepted(dirs)[k]
  <2>1. Accepted(dirs) \in Seq(Events) /\ Len(Accepted(dirs)) = n - 1
    BY <1>0, <1>13, AcceptedType
  <2>2. QED
    BY <1>0, <1>5, <1>7, <1>13, <2>1
<1>16. AckedKept'
  <2>1. ASSUME NEW x \in acked
        PROVE  x[1] \in 1 .. n /\ Accepted(dirs')[x[1]] = x[2]
    <3>1. x[1] \in 1 .. (n - 1) /\ Accepted(dirs)[x[1]] = x[2]
      BY <1>0, <1>13 DEF AckedKept
    <3>2. QED
      BY <1>0, <1>15, <3>1
  <2>2. QED
    BY <1>1, <1>13, <2>1 DEF AckedKept
<1>17. ViewsArePrefixes'
  <2>1. \A t \in Seq(Events) : Before(t, Accepted(dirs)) => Before(t, Accepted(dirs'))
    BY <1>0, <1>15 DEF Before
  <2>2. \A q \in Procs : seen[q] \in Seq(Events)
    BY <1>0 DEF TypeOK
  <2>3. pointer.index \in Seq(Events)
    BY <1>0 DEF TypeOK
  <2>4. QED
    BY <1>0, <1>1, <2>1, <2>2, <2>3 DEF ViewsArePrefixes
<1>18. WriterInv'
  <2>1. \A q \in Procs \ {p} : pc'[q] \notin Excluding
    BY <1>1, <1>3
  <2>2. QED
    BY <1>1, <1>2, <1>4, <1>8, <1>13, <1>15, <2>1 DEF WriterInv, Excluding
<1>19. CrashInv'
  <2>1. ASSUME NEW h \in 1 .. n, NEW i \in 1 .. n,
               NEW a \in Unfinished(dirs'[h]), NEW b \in Unfinished(dirs'[i])
        PROVE  crashes > 0 /\ h = i /\ a = b
    <3>1. /\ a \in Unfinished(dirs[h]) /\ ~Current(h, a)
          /\ b \in Unfinished(dirs[i]) /\ ~Current(i, b)
      BY <1>10, <2>1
    <3>2. QED
      BY <1>0, <1>11, <3>1 DEF CrashInv
  <2>2. crashes' = crashes /\ Len(dirs') = n
    BY <1>1, <1>8
  <2>3. QED
    BY <2>1, <2>2, Zenon DEF CrashInv
<1>21. NoNewLoss
  BY <1>8, <1>10 DEF NoNewLoss
<1>20. QED
  BY <1>1, <1>21, <1>5, <1>13, <1>14, <1>16, <1>17, <1>18, <1>19 DEF StoreInv

-----------------------------------------------------------------------------
(* A crash, the initial state, and every step. *)

LEMMA CrashKeeps ==
    ASSUME StoreInv, NEW p \in Procs, Crash(p)
    PROVE  StoreInv'
<1>0. /\ TypeOK /\ LockInv /\ AckedKept /\ ViewsArePrefixes /\ PointerInv
      /\ LastOpen(dirs) /\ WriterInv /\ CrashInv
  BY DEF StoreInv
<1>1. /\ pc'[p] = "closed" /\ \A q \in Procs \ {p} : pc'[q] = pc[q]
      /\ pc' \in [Procs -> Places]
      /\ <<context, dirs, pointer, wanted, seen, acked>>' =
           <<context, dirs, pointer, wanted, seen, acked>>
      /\ crashes' = crashes + 1 /\ crashes \in Nat
  BY <1>0 DEF Crash, TypeOK, Places, files
<1>2. TypeOK'
  BY <1>0, <1>1 DEF TypeOK, Crash, Unlock
<1>3. LockInv'
  BY <1>0, <1>1, LockMoves DEF Crash, Excluding, Sharing
<1>4. AckedKept' /\ ViewsArePrefixes' /\ LastOpen(dirs')
  BY <1>0, <1>1 DEF AckedKept, ViewsArePrefixes
<1>5. WriterInv' /\ PointerInv'
  BY <1>0, <1>1 DEF WriterInv, PointerInv
<1>6. CrashInv'
  <2>1. ASSUME NEW h \in 1 .. Len(dirs), NEW i \in 1 .. Len(dirs),
               NEW a \in Unfinished(dirs[h]), NEW b \in Unfinished(dirs[i]),
               ~Current(h, a)', ~Current(i, b)', crashes' = 1 \/ Writing'
        PROVE  h = i /\ a = b
    <3>1. CASE Writing'
      <4>1. PICK q \in Procs : q # p /\ pc[q] \in {"create", "write"}
        BY <1>1, <3>1 DEF Writing
      <4>2. pc[p] \notin Excluding
        BY <1>0, <4>1, WriterAlone DEF Excluding
      <4>3. ~Current(h, a) /\ ~Current(i, b) /\ Writing
        BY <1>1, <2>1, <4>1, <4>2 DEF Current, Writing, Excluding
      <4>4. QED
        BY <1>0, <4>3 DEF CrashInv
    <3>2. CASE crashes' = 1
      <4>1. crashes = 0
        BY <1>1, <3>2
      <4>2. Current(h, a) /\ Current(i, b)
        BY <1>0, <4>1 DEF CrashInv
      <4>3. PICK q \in Procs : \/ pc[q] = "create" /\ a = 0
                               \/ pc[q] = "write" /\ a = Len(dirs[h])
        BY <4>2, Zenon DEF Current
      <4>4. \A o \in Procs \ {q} : pc[o] \notin {"create", "write"}
        BY <1>0, <4>3, WriterAlone DEF Excluding
      <4>5. QED
        BY <4>2, <4>3, <4>4 DEF Current
    <3>3. QED
      BY <2>1, <3>1, <3>2
  <2>2. crashes' > 0
    BY <1>1
  <2>3. QED
    BY <1>1, <2>1, <2>2 DEF CrashInv
<1>7. QED
  BY <1>2, <1>3, <1>4, <1>5, <1>6 DEF StoreInv

LEMMA StoreInvInit == Init => StoreInv
<1> SUFFICES ASSUME Init PROVE StoreInv
  OBVIOUS
<1>1. dirs = <<>> /\ Len(dirs) = 0 /\ dirs \in Seq(Attempts)
  BY DEF Init
<1>2. LastOpen(dirs)
  BY <1>1 DEF LastOpen
<1>3. TypeOK
  BY <1>1 DEF Init, TypeOK, Places, Attempts
<1>4. LockInv
  BY StoreAssumption DEF Init, LockInv, Excluding, Sharing
<1>5. AckedKept
  BY DEF Init, AckedKept
<1>6. ViewsArePrefixes
  <2>1. Accepted(dirs) \in Seq(Events) /\ Len(Accepted(dirs)) \in Nat
    <3>1. Accepted(dirs) \in Seq(Events)
      BY <1>1, <1>2, AcceptedType
    <3>2. QED
      BY <3>1
  <2>2. Before(<<>>, Accepted(dirs))
    BY <2>1 DEF Before
  <2>3. QED
    BY <2>2 DEF Init, ViewsArePrefixes
<1>7. WriterInv /\ PointerInv
  BY DEF Init, WriterInv, PointerInv
<1>8. CrashInv
  BY <1>1 DEF CrashInv
<1>9. QED
  BY <1>2, <1>3, <1>4, <1>5, <1>6, <1>7, <1>8 DEF StoreInv

\* A step leaves the accepted events alone or adds one.
LEMMA StoreStep ==
    ASSUME StoreInv, NEW p \in Procs,
           \/ Quiet(p) \/ ScanForAppend(p) \/ CreateAttempt(p) \/ WriteAttempt(p) \/ Crash(p)
    PROVE  /\ StoreInv'
           /\ \/ Accepted(dirs') = Accepted(dirs)
              \/ /\ \E e \in Events : Accepted(dirs') = Append(Accepted(dirs), e)
                 /\ pointer' = pointer
<1>1. CASE Quiet(p)
  BY <1>1, QuietAside, QuietTypes, QuietLocks, PointerKeeps, AsideKeeps DEF Aside
<1>2. CASE ScanForAppend(p)
  <2>1. Accepted(dirs') = Accepted(dirs)
    <3>1. dirs \in Seq(Attempts) /\ LastOpen(dirs)
      BY DEF StoreInv, TypeOK, Attempts
    <3>2. QED
      BY <1>2, <3>1, OpenKeeps DEF ScanForAppend
  <2>2. QED
    BY <1>2, <2>1, ScanKeeps
<1>3. CASE CreateAttempt(p)
  BY <1>3, CreateKeeps
<1>4. CASE WriteAttempt(p)
  BY <1>4, WriteKeeps DEF WriteAttempt
<1>5. CASE Crash(p)
  BY <1>5, CrashKeeps DEF Crash, files
<1>6. QED
  BY <1>1, <1>2, <1>3, <1>4, <1>5

LEMMA NextOf ==
    Next => \E p \in Procs :
        \/ Quiet(p) \/ ScanForAppend(p) \/ CreateAttempt(p) \/ WriteAttempt(p) \/ Crash(p)
BY DEF Next, Quiet

LEMMA StoreInvStep == StoreInv /\ [Next]_vars => StoreInv'
<1> SUFFICES ASSUME StoreInv, [Next]_vars PROVE StoreInv'
  OBVIOUS
<1>1. CASE Next
  BY <1>1, NextOf, StoreStep
<1>2. CASE UNCHANGED vars
  BY <1>2 DEF vars, history, StoreInv, TypeOK, LockInv, AckedKept, ViewsArePrefixes, WriterInv,
             CrashInv, PointerInv, Current, Writing
<1>3. QED
  BY <1>1, <1>2

-----------------------------------------------------------------------------
(* The theorems. *)

\* StoreInv holds whatever processes append, scan and freeze, and wherever
\* they are killed (artifacts/store.py).
THEOREM StoreInvariant == Spec => []StoreInv
BY StoreInvInit, StoreInvStep, PTL DEF Spec

\* Before the context is whole no process is past opening the store.
LEMMA DamageStep ==
    ASSUME StoreInv, DamageInv, StoreInv', NEW p \in Procs,
           Quiet(p) \/ ScanForAppend(p) \/ CreateAttempt(p) \/ WriteAttempt(p)
    PROVE  DamageInv'
<1>0. /\ TypeOK /\ PointerInv /\ CrashInv
      /\ \A q \in Procs \ {p} : pc'[q] = pc[q]
      /\ crashes' = crashes
  BY QuietAside, WriterStep DEF StoreInv, Aside
<1>1. CASE pc[p] = "closed" \/ pc[p] = "opening" \/ pc[p] = "failed"
  <2>1. CreateContext(p) \/ WriteContext(p) \/ FindContext(p) \/ Reopen(p)
    BY <1>0, <1>1, MovesOf
    DEF Quiet, LockForAppend, ScanFails, AppendReturns, LockForScan, ScanReturns, LoadPointer,
        StartFreeze, CreatePointer, FindPointer, WritePointer, ScanForAppend, CreateAttempt,
        WriteAttempt
  <2>2. dirs' = dirs /\ pointer' = pointer
    BY <2>1 DEF CreateContext, WriteContext, FindContext, Reopen, files
  <2>3. pc'[p] \in {"opening", "open", "failed", "closed"}
    BY <1>0, <2>1, MovesOf DEF CreateContext, WriteContext, FindContext, Reopen
  <2>4. PointerLost' <=> PointerLost
    BY <1>0, <1>1, <2>2, <2>3 DEF PointerLost
  <2>5. AttemptLost' <=> AttemptLost
    <3>1. \A h, a : Current(h, a)' <=> Current(h, a)
      BY <1>0, <1>1, <2>2, <2>3 DEF Current
    <3>2. QED
      BY <2>2, <3>1 DEF AttemptLost
  <2>6. CASE CreateContext(p)
    <3>1. /\ context = "absent" /\ context' = "torn"
          /\ pc[p] = "closed" /\ pc'[p] = "opening"
      BY <1>0, <2>6, MovesOf DEF CreateContext
    <3>2. \A q \in Procs \ {p} : pc[q] # "opening"
      BY <3>1 DEF DamageInv
    <3>3. ~ContextLost'
      BY <3>1 DEF ContextLost
    <3>4. QED
      BY <1>0, <2>2, <2>4, <2>5, <3>1, <3>2, <3>3 DEF DamageInv
  <2>7. CASE WriteContext(p)
    <3>1. /\ pc[p] = "opening" /\ pc'[p] = "open" /\ context' = "whole"
      BY <1>0, <2>7, MovesOf DEF WriteContext
    <3>2. \A q \in Procs : pc'[q] # "opening"
      BY <1>0, <3>1 DEF DamageInv
    <3>3. ~ContextLost'
      BY <3>1 DEF ContextLost
    <3>4. QED
      BY <1>0, <2>4, <2>5, <3>1, <3>2, <3>3 DEF DamageInv
  <2>8. CASE FindContext(p) \/ Reopen(p)
    <3>1. /\ context' = context /\ pc[p] # "opening" /\ pc'[p] # "opening"
          /\ pc'[p] = "open" => context = "whole"
      BY <1>0, <2>8, MovesOf DEF FindContext, Reopen, files
    <3>2. ContextLost' <=> ContextLost
      BY <1>0, <3>1 DEF ContextLost
    <3>3. QED
      BY <1>0, <2>2, <2>3, <2>4, <2>5, <3>1, <3>2 DEF DamageInv
  <2>9. QED
    BY <2>1, <2>6, <2>7, <2>8
<1>2. CASE pc[p] # "closed" /\ pc[p] # "opening" /\ pc[p] # "failed"
  <2>1. context = "whole"
    BY <1>2 DEF DamageInv
  <2>2. /\ context' = context /\ pc'[p] # "opening"
    BY <1>0, <1>2, MovesOf
    DEF Quiet, CreateContext, WriteContext, FindContext, Reopen, LockForAppend, ScanFails,
        AppendReturns, LockForScan, ScanReturns, LoadPointer, StartFreeze, CreatePointer,
        FindPointer, WritePointer, ScanForAppend, CreateAttempt, WriteAttempt, files
  <2>3. \A q \in Procs : pc'[q] # "opening"
    BY <1>0, <2>1, <2>2 DEF DamageInv
  <2>4. PointerLost' => PointerLost
    <3>1. CASE pointer' = pointer /\ pc[p] # "pointer"
      BY <1>0, <3>1 DEF PointerLost
    <3>2. CASE CreatePointer(p)
      <4>1. pc'[p] = "pointer"
        BY <1>0, <3>2, MovesOf DEF CreatePointer
      <4>2. QED
        BY <4>1 DEF PointerLost
    <3>3. CASE WritePointer(p)
      <4>1. pointer'.file = "whole"
        BY <3>3 DEF WritePointer
      <4>2. QED
        BY <4>1 DEF PointerLost
    <3>4. QED
      BY <1>0, <1>2, <3>1, <3>2, <3>3, MovesOf
      DEF Quiet, CreateContext, WriteContext, FindContext, Reopen, LockForAppend, ScanFails,
          AppendReturns, LockForScan, ScanReturns, LoadPointer, StartFreeze,
          FindPointer, ScanForAppend, CreateAttempt, WriteAttempt, files
  <2>5. AttemptLost' => AttemptLost
    <3>1. CASE Quiet(p)
      <4>1. dirs' = dirs /\ \A h, a : Current(h, a)' <=> Current(h, a)
        BY <3>1, QuietAside DEF Aside, Current
      <4>2. QED
        BY <4>1 DEF AttemptLost
    <3>2. CASE ScanForAppend(p) \/ CreateAttempt(p) \/ WriteAttempt(p)
      <4>1. NoNewLoss
        BY <3>2, ScanKeeps, CreateKeeps, WriteKeeps
      <4>2. QED
        BY <4>1 DEF AttemptLost, NoNewLoss
    <3>3. QED
      BY <3>1, <3>2
  <2>6. ~ContextLost'
    BY <2>1, <2>2 DEF ContextLost
  <2>7. QED
    BY <1>0, <2>1, <2>2, <2>3, <2>4, <2>5, <2>6 DEF DamageInv
<1>3. QED
  BY <1>1, <1>2

\* A crash leaves behind what its process was at, which is one thing.
LEMMA DamageCrash ==
    ASSUME StoreInv, DamageInv, NEW p \in Procs, Crash(p)
    PROVE  DamageInv'
<1>0. TypeOK /\ PointerInv /\ CrashInv
  BY DEF StoreInv
<1>1. /\ pc'[p] = "closed" /\ \A q \in Procs \ {p} : pc'[q] = pc[q]
      /\ context' = context /\ dirs' = dirs /\ pointer' = pointer
      /\ crashes' = crashes + 1 /\ crashes \in Nat
  BY <1>0 DEF Crash, TypeOK, files
<1>2. ASSUME PointerLost', crashes' = 1
      PROVE  ~AttemptLost'
  <2>1. crashes = 0
    BY <1>1, <1>2
  <2>2. pc[p] = "pointer"
    <3>1. ~PointerLost
      BY <2>1 DEF DamageInv
    <3>2. QED
      BY <1>1, <1>2, <3>1 DEF PointerLost
  <2>3. \A h, a : Current(h, a)' <=> Current(h, a)
    BY <1>1, <2>2 DEF Current
  <2>4. ~AttemptLost
    BY <1>0, <2>1 DEF CrashInv, AttemptLost
  <2>5. QED
    BY <1>1, <2>3, <2>4 DEF AttemptLost
<1>3. QED
  BY <1>1, <1>2 DEF DamageInv

\* A torn context holds nothing and a torn pointer is the one thing torn after
\* one crash (artifacts/store.py, _initialize_context and freeze_index).
THEOREM DamageInvariant == Spec => []DamageInv
<1>1. Init => DamageInv
  BY DEF Init, DamageInv, ContextLost, PointerLost
<1>2. StoreInv /\ DamageInv /\ [Next]_vars => DamageInv'
  <2> SUFFICES ASSUME StoreInv, DamageInv, [Next]_vars PROVE DamageInv'
    OBVIOUS
  <2>1. StoreInv'
    BY StoreInvStep
  <2>2. CASE Next
    BY <2>1, <2>2, NextOf, DamageStep, DamageCrash
  <2>3. CASE UNCHANGED vars
    BY <2>3 DEF vars, history, DamageInv, ContextLost, PointerLost, AttemptLost, Current
  <2>4. QED
    BY <2>2, <2>3
<1>3. QED
  BY <1>1, <1>2, StoreInvariant, PTL DEF Spec

\* After a single crash no scan of the events fails, and a context or a pointer
\* that it tore is all that it tore (_scan_unlocked).
THEOREM OneCrashIsContained == Spec => []OneCrashContained
<1>1. StoreInv /\ DamageInv => OneCrashContained
  <2> SUFFICES ASSUME StoreInv, DamageInv, crashes <= 1, lock.exclusive = Nobody
               PROVE  /\ ~Fatal(dirs)
                      /\ ContextLost => crashes = 1 /\ dirs = <<>> /\ pointer.file = "absent"
                      /\ PointerLost => crashes = 1 /\ ~AttemptLost
    BY DEF OneCrashContained
  <2>1. dirs \in Seq(Attempts) /\ LastOpen(dirs) /\ LockInv /\ CrashInv /\ crashes \in Nat
    BY DEF StoreInv, TypeOK, Attempts
  <2>2. \A p \in Procs : pc[p] \notin {"create", "write"}
    BY <2>1, StoreAssumption DEF LockInv, Excluding
  <2>3. \A h, a : ~Current(h, a)
    BY <2>2 DEF Current
  <2>4. crashes > 0 => crashes = 1
    BY <2>1
  <2>5. AtMostOne(dirs, Len(dirs))
    BY <2>1, <2>3, <2>4, Zenon DEF CrashInv, AtMostOne
  <2>6. ~Fatal(dirs)
    BY <2>1, <2>5, FatalOf
  <2>7. /\ ContextLost => crashes = 1 /\ dirs = <<>> /\ pointer.file = "absent"
        /\ PointerLost => crashes = 1 /\ ~AttemptLost
    BY <2>4 DEF DamageInv, ContextLost
  <2>8. QED
    BY <2>6, <2>7
<1>2. QED
  BY <1>1, StoreInvariant, DamageInvariant, PTL

\* The log as EventLog sees it moves by a step of EventLog or not at all.
LEMMA LogStep ==
    ASSUME StoreInv, [Next]_vars
    PROVE  [Ledger!Next]_(Ledger!contents)
<1> DEFINE Frozen == IF pointer.file = "whole" THEN {pointer.index} ELSE {}
<1>0. StoreInv'
  BY StoreInvStep
<1>1. CASE UNCHANGED vars
  BY <1>1 DEF vars, Ledger!contents
<1>2. ASSUME NEW p \in Procs,
             \/ Quiet(p) \/ ScanForAppend(p) \/ CreateAttempt(p) \/ WriteAttempt(p) \/ Crash(p)
      PROVE  [Ledger!Next]_(Ledger!contents)
  <2>1. CASE /\ \E e \in Events : Accepted(dirs') = Append(Accepted(dirs), e)
             /\ pointer' = pointer
    BY <2>1 DEF Ledger!Next, Ledger!Extend
  <2>2. CASE Accepted(dirs') = Accepted(dirs)
    <3>1. CASE Frozen' = Frozen
      BY <2>2, <3>1 DEF Ledger!contents
    <3>2. CASE Frozen' # Frozen
      <4>1. CreatePointer(p) \/ WritePointer(p)
        BY <1>2, <3>2
        DEF Quiet, CreateContext, WriteContext, FindContext, Reopen, LockForAppend, ScanFails,
            AppendReturns, LockForScan, ScanReturns, LoadPointer, StartFreeze, CreatePointer,
            FindPointer, WritePointer, ScanForAppend, CreateAttempt, WriteAttempt, Crash,
            files, history
      <4>2. WritePointer(p)
        BY <3>2, <4>1 DEF CreatePointer
      <4>3. pc[p] = "pointer" /\ pointer.file = "torn"
        BY <4>2, MovesOf DEF WritePointer, StoreInv, PointerInv
      <4>4. Frozen = {} /\ Frozen' = {seen[p]}
        BY <4>2, <4>3 DEF WritePointer
      <4>5. /\ seen[p] \in Seq(Events) /\ Accepted(dirs) \in Seq(Events)
            /\ Before(seen[p], Accepted(dirs))
        BY AcceptedType DEF StoreInv, TypeOK, Attempts, ViewsArePrefixes
      <4>6. /\ Len(seen[p]) \in 0 .. Len(Accepted(dirs))
            /\ seen[p] = [i \in 1 .. Len(seen[p]) |-> Accepted(dirs)[i]]
        BY <4>5 DEF Before
      <4>7. Ledger!Freeze(Len(seen[p]))
        BY <2>2, <4>4, <4>6 DEF Ledger!Freeze
      <4>8. QED
        BY <4>6, <4>7 DEF Ledger!Next
    <3>3. QED
      BY <3>1, <3>2
  <2>3. QED
    BY <1>2, <2>1, <2>2, StoreStep
<1>3. QED
  BY <1>1, <1>2, NextOf

\* The store implements the append-only log with one frozen index
\* (artifacts/store.py).
THEOREM StoreIsALog == Spec => ImplementsLog
<1>1. Init => Ledger!Init
  <2> SUFFICES ASSUME Init PROVE Ledger!Init
    OBVIOUS
  <2>1. dirs \in Seq(Attempts) /\ LastOpen(dirs) /\ dirs = <<>>
    BY StoreInvInit DEF Init, StoreInv
  <2>2. Accepted(dirs) \in Seq(Events) /\ Len(Accepted(dirs)) = 0
    BY <2>1, CountOf, AcceptedType
  <2>3. Accepted(dirs) = <<>>
    BY <2>2, EmptySeq
  <2>4. QED
    BY <2>3 DEF Init, Ledger!Init
<1>2. StoreInv /\ [Next]_vars => [Ledger!Next]_(Ledger!contents)
  BY LogStep
<1>3. QED
  BY <1>1, <1>2, StoreInvariant, PTL DEF Spec, ImplementsLog, Ledger!Spec

=============================================================================
