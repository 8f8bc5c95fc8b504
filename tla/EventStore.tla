----------------------------- MODULE EventStore -----------------------------
(***************************************************************************)
(* RunArtifactStore (artifacts/store.py): the immutable event ledger of    *)
(* one run, a directory per sequence number that holds write-once attempt  *)
(* files, and the pointer to the index frozen at search completion.        *)
(*                                                                         *)
(* Several processes open the store, append, scan and freeze.  A lock file *)
(* (flock) orders them; the kernel drops the lock of a process that dies.  *)
(* A file that is created with O_EXCL is torn until its writer has filled  *)
(* it, and stays torn if the writer dies: it is never replaced.  A crash   *)
(* (Crash) also stands for an OSError out of a write.                      *)
(*                                                                         *)
(* pc: closed; opening (the context file is being written); open;          *)
(* append, create, write, written (the steps of append, under the lock);   *)
(* scan (under the shared lock); freeze_scan, freeze, pointer (the steps   *)
(* of freeze_index); failed (ArtifactIntegrityError or ValueError).        *)
(*                                                                         *)
(* Abstracted: a record's hash of its predecessor is the accepted sequence *)
(* it was appended to; objects (content-addressed) and the index payload;  *)
(* foreign files and rewritten bytes, which no code of this store makes.   *)
(***************************************************************************)
EXTENDS Naturals, Sequences

CONSTANTS
    Procs,
    Events,     \* what a process may append
    Nobody,     \* no exclusive holder of the lock
    Torn,       \* an attempt file without its final newline
    MaxEvents,  \* bound: sequence directories
    MaxCrashes  \* bound: how often a process is killed

\* A record names its event and, by the hash, the events it was appended to.
Records == [event : Events, previous : Seq(Events)]

ASSUME StoreAssumption ==
    /\ Nobody \notin Procs
    /\ Torn \notin Records
    /\ MaxEvents \in Nat /\ MaxCrashes \in Nat

VARIABLES
    context,    \* artifact_context.json: absent, torn or whole
    dirs,       \* for each sequence number, its attempt files in order
    pointer,    \* frozen_indexes/search_completion.json
    lock,       \* holders of the flock
    pc,
    wanted,     \* the event that a process is appending
    seen,       \* the events that a process's last scan returned
    acked,      \* history: <<sequence, event>> that append() returned
    crashes

vars == <<context, dirs, pointer, lock, pc, wanted, seen, acked, crashes>>

files == <<context, dirs, pointer>>
history == <<acked, crashes>>

-----------------------------------------------------------------------------
Committed(attempts) == {j \in 1 .. Len(attempts) : attempts[j] # Torn}

\* Attempts without a record; an empty directory counts as one.
Unfinished(attempts) ==
    IF attempts = <<>> THEN {0} ELSE (1 .. Len(attempts)) \ Committed(attempts)

\* Directories 1 .. k have at most one of them.
AtMostOne(d, k) ==
    \A h, i \in 1 .. k : \A a \in Unfinished(d[h]), b \in Unfinished(d[i]) :
        h = i /\ a = b

CommittedRecord(attempts) == attempts[CHOOSE j \in Committed(attempts) : TRUE]

\* _scan_unlocked accepts directory k, given that it accepted those before.
Sound(d, k) ==
    /\ \E j \in 1 .. Len(d[k]) : Committed(d[k]) = {j}
    /\ AtMostOne(d, k)
    /\ CommittedRecord(d[k]).previous =
         [j \in 1 .. (k - 1) |-> CommittedRecord(d[j]).event]

\* Number of directories before the scan breaks off.
AcceptedCount(d) ==
    CHOOSE n \in 0 .. Len(d) :
        /\ \A k \in 1 .. n : Sound(d, k)
        /\ n < Len(d) => ~Sound(d, n + 1)

Accepted(d) == [k \in 1 .. AcceptedCount(d) |-> CommittedRecord(d[k]).event]

\* Mutant: a trailing incomplete attempt is fatal.
Fatal_Trailing(d) == AcceptedCount(d) < Len(d)

\* Only a trailing directory without a record, and at most one incomplete
\* attempt in the whole store, is forgiven.
Fatal(d) ==
    LET n == AcceptedCount(d)
    IN n < Len(d) /\ ~(/\ n + 1 = Len(d)
                       /\ Committed(d[n + 1]) = {}
                       /\ AtMostOne(d, n + 1))

Free == lock.exclusive = Nobody /\ lock.shared = {}

Goto(p, from, to) == pc[p] = from /\ pc' = [pc EXCEPT ![p] = to]

Unlock(p) ==
    lock' = [exclusive |-> IF lock.exclusive = p THEN Nobody ELSE lock.exclusive,
             shared |-> lock.shared \ {p}]

-----------------------------------------------------------------------------
Init ==
    /\ context = "absent"
    /\ dirs = <<>>
    /\ pointer = [file |-> "absent", index |-> <<>>]
    /\ lock = [exclusive |-> Nobody, shared |-> {}]
    /\ pc = [p \in Procs |-> "closed"]
    /\ wanted \in [Procs -> Events]
    /\ seen = [p \in Procs |-> <<>>]
    /\ acked = {}
    /\ crashes = 0

\* _initialize_context: the first to open the store creates the context.
CreateContext(p) ==
    /\ context = "absent"
    /\ Goto(p, "closed", "opening")
    /\ context' = "torn"
    /\ UNCHANGED <<dirs, pointer, lock, wanted, seen, history>>

WriteContext(p) ==
    /\ Goto(p, "opening", "open")
    /\ context' = "whole"
    /\ UNCHANGED <<dirs, pointer, lock, wanted, seen, history>>

\* A torn context is that of another run, as far as its bytes tell: no process
\* ever opens this store again.
FindContext(p) ==
    /\ context # "absent"
    /\ Goto(p, "closed", IF context = "whole" THEN "open" ELSE "failed")
    /\ UNCHANGED <<files, lock, wanted, seen, history>>

\* The caller of a store that raised opens it again, in a new process.
Reopen(p) ==
    /\ Goto(p, "failed", "closed")
    /\ UNCHANGED <<files, lock, wanted, seen, history>>

-----------------------------------------------------------------------------
\* Mutant: append takes the shared lock.
LockForAppend_Shared(p, e) ==
    /\ Len(Accepted(dirs)) < MaxEvents
    /\ lock.exclusive = Nobody
    /\ Goto(p, "open", "append")
    /\ lock' = [lock EXCEPT !.shared = @ \cup {p}]
    /\ wanted' = [wanted EXCEPT ![p] = e]
    /\ UNCHANGED <<files, seen, history>>

LockForAppend(p, e) ==
    /\ Len(Accepted(dirs)) < MaxEvents
    /\ Free
    /\ Goto(p, "open", "append")
    /\ lock' = [lock EXCEPT !.exclusive = p]
    /\ wanted' = [wanted EXCEPT ![p] = e]
    /\ UNCHANGED <<files, seen, history>>

\* Scan, then make the directory of the next sequence number.
ScanForAppend(p) ==
    /\ ~Fatal(dirs)
    /\ Goto(p, "append", "create")
    /\ seen' = [seen EXCEPT ![p] = Accepted(dirs)]
    /\ dirs' = IF Len(dirs) = AcceptedCount(dirs) THEN Append(dirs, <<>>) ELSE dirs
    /\ UNCHANGED <<context, pointer, lock, wanted, history>>

\* ArtifactIntegrityError, from append or scan.
ScanFails(p) ==
    /\ Fatal(dirs)
    /\ \/ Goto(p, "append", "failed")
       \/ Goto(p, "scan", "failed")
       \/ Goto(p, "freeze_scan", "failed")
    /\ Unlock(p)
    /\ UNCHANGED <<files, wanted, seen, history>>

CreateAttempt(p) ==
    /\ Goto(p, "create", "write")
    /\ dirs' = [dirs EXCEPT ![Len(seen[p]) + 1] = Append(@, Torn)]
    /\ UNCHANGED <<context, pointer, lock, wanted, seen, history>>

\* Mutant: append returns before the bytes are in the file.
WriteAttempt_Early(p) ==
    /\ Goto(p, "write", "written")
    /\ acked' = acked \cup {<<Len(seen[p]) + 1, wanted[p]>>}
    /\ UNCHANGED <<files, lock, wanted, seen, crashes>>

WriteAttempt(p) ==
    /\ Goto(p, "write", "written")
    /\ LET k == Len(seen[p]) + 1
       IN dirs' = [dirs EXCEPT ![k][Len(dirs[k])] =
                     [event |-> wanted[p], previous |-> seen[p]]]
    /\ UNCHANGED <<context, pointer, lock, wanted, seen, history>>

AppendReturns(p) ==
    /\ Goto(p, "written", "open")
    /\ Unlock(p)
    /\ acked' = acked \cup {<<Len(seen[p]) + 1, wanted[p]>>}
    /\ UNCHANGED <<files, wanted, seen, crashes>>

-----------------------------------------------------------------------------
LockForScan(p) ==
    /\ lock.exclusive = Nobody
    /\ Goto(p, "open", "scan")
    /\ lock' = [lock EXCEPT !.shared = @ \cup {p}]
    /\ UNCHANGED <<files, wanted, seen, history>>

ScanReturns(p) ==
    /\ ~Fatal(dirs)
    /\ \/ Goto(p, "scan", "open")
       \/ Goto(p, "freeze_scan", "freeze")
    /\ seen' = [seen EXCEPT ![p] = Accepted(dirs)]
    /\ Unlock(p)
    /\ UNCHANGED <<files, wanted, history>>

\* load_frozen_index: a torn pointer is no JSON; if there is none, freeze.
LoadPointer(p) ==
    /\ pointer.file = "torn"
    /\ Goto(p, "open", "failed")
    /\ UNCHANGED <<files, lock, wanted, seen, history>>

StartFreeze(p) ==
    /\ pointer.file = "absent"
    /\ lock.exclusive = Nobody
    /\ Goto(p, "open", "freeze_scan")
    /\ lock' = [lock EXCEPT !.shared = @ \cup {p}]
    /\ UNCHANGED <<files, wanted, seen, history>>

CreatePointer(p) ==
    /\ pointer.file = "absent"
    /\ Goto(p, "freeze", "pointer")
    /\ pointer' = [file |-> "torn", index |-> <<>>]
    /\ UNCHANGED <<context, dirs, lock, wanted, seen, history>>

\* Another process froze the index meanwhile: fine if at the same head.
FindPointer(p) ==
    /\ pointer.file # "absent"
    /\ Goto(p, "freeze", IF pointer = [file |-> "whole", index |-> seen[p]]
                           THEN "open" ELSE "failed")
    /\ UNCHANGED <<files, lock, wanted, seen, history>>

WritePointer(p) ==
    /\ Goto(p, "pointer", "open")
    /\ pointer' = [file |-> "whole", index |-> seen[p]]
    /\ UNCHANGED <<context, dirs, lock, wanted, seen, history>>

Crash(p) ==
    /\ crashes < MaxCrashes
    /\ pc[p] \notin {"closed", "failed"}
    /\ pc' = [pc EXCEPT ![p] = "closed"]
    /\ crashes' = crashes + 1
    /\ Unlock(p)
    /\ UNCHANGED <<files, wanted, seen, acked>>

-----------------------------------------------------------------------------
Next ==
    \E p \in Procs :
       \/ CreateContext(p) \/ WriteContext(p) \/ FindContext(p) \/ Reopen(p)
       \/ \E e \in Events : LockForAppend(p, e)
       \/ ScanForAppend(p) \/ ScanFails(p) \/ CreateAttempt(p)
       \/ WriteAttempt(p) \/ AppendReturns(p)
       \/ LockForScan(p) \/ ScanReturns(p) \/ LoadPointer(p) \/ StartFreeze(p)
       \/ CreatePointer(p) \/ FindPointer(p) \/ WritePointer(p) \/ Crash(p)

Spec == Init /\ [][Next]_vars

-----------------------------------------------------------------------------
Places == {"closed", "opening", "open", "append", "create", "write", "written",
           "scan", "freeze_scan", "freeze", "pointer", "failed"}

\* Types of the variables.
TypeOK ==
    /\ context \in {"absent", "torn", "whole"}
    /\ dirs \in Seq(Seq(Records \cup {Torn}))
    /\ pointer \in [file : {"absent", "torn", "whole"}, index : Seq(Events)]
    /\ lock \in [exclusive : Procs \cup {Nobody}, shared : SUBSET Procs]
    /\ pc \in [Procs -> Places]
    /\ wanted \in [Procs -> Events]
    /\ seen \in [Procs -> Seq(Events)]
    /\ acked \subseteq (Nat \X Events)
    /\ crashes \in Nat

Excluding == {"append", "create", "write", "written"}
Sharing == {"scan", "freeze_scan"}

\* Who holds the lock.
LockInv ==
    /\ \A p \in Procs : lock.exclusive = p <=> pc[p] \in Excluding
    /\ \A p \in Procs : p \in lock.shared <=> pc[p] \in Sharing
    /\ lock.exclusive # Nobody => lock.shared = {}

\* An event that append() returned is in the accepted sequence for good, at
\* its number, whichever process was killed between any two steps.
AckedKept ==
    \A a \in acked : a[1] \in 1 .. AcceptedCount(dirs) /\ Accepted(dirs)[a[1]] = a[2]

Before(s, t) == Len(s) <= Len(t) /\ \A i \in 1 .. Len(s) : s[i] = t[i]

\* What a scan returned, and what an index froze, stays a prefix of the store.
ViewsArePrefixes ==
    /\ \A p \in Procs : Before(seen[p], Accepted(dirs))
    /\ pointer.file = "whole" => Before(pointer.index, Accepted(dirs))

\* Only the last directory may be without an accepted record.
LastOpen(d) ==
    \A k \in 1 .. Len(d) : k < Len(d) \/ Committed(d[k]) # {} => Sound(d, k)

\* What a writer under the lock has in the last directory.
WriterInv ==
    \A p \in Procs :
        /\ pc[p] \in {"create", "write"} =>
              /\ seen[p] = Accepted(dirs)
              /\ Len(dirs) = Len(seen[p]) + 1
              /\ Committed(dirs[Len(dirs)]) = {}
        /\ pc[p] = "write" => dirs[Len(dirs)] # <<>>
        /\ pc[p] = "written" =>
              /\ Len(dirs) = Len(seen[p]) + 1
              /\ AcceptedCount(dirs) = Len(dirs)
              /\ Accepted(dirs)[Len(dirs)] = wanted[p]

Writing == \E p \in Procs : pc[p] \in {"create", "write"}

\* The attempt that a writer is making: none is there yet, or the last one.
Current(h, a) ==
    /\ h = Len(dirs)
    /\ \E p \in Procs : \/ pc[p] = "create" /\ a = 0
                        \/ pc[p] = "write" /\ a = Len(dirs[h])

\* Crashes leave unfinished attempts: none without a crash, one after one; and
\* while there are two nobody writes any more.
CrashInv ==
    \A h, i \in 1 .. Len(dirs) : \A a \in Unfinished(dirs[h]), b \in Unfinished(dirs[i]) :
        ~Current(h, a) /\ ~Current(i, b) =>
            /\ crashes > 0
            /\ crashes = 1 \/ Writing => h = i /\ a = b

\* The pointer is filled by the process that created it.
PointerInv ==
    \A p, q \in Procs :
        /\ pc[p] = "pointer" => pointer.file = "torn"
        /\ pc[p] = "pointer" /\ pc[q] = "pointer" => p = q

\* What the store told anyone stays so: acknowledged events keep their numbers,
\* and no view that was returned or frozen is ever contradicted.
StoreInv ==
    /\ TypeOK /\ LockInv /\ AckedKept /\ ViewsArePrefixes
    /\ LastOpen(dirs) /\ WriterInv /\ CrashInv /\ PointerInv

\* What a crash can leave for good: a context or a pointer that is torn and that
\* nobody is filling, or an attempt that nobody is making.
ContextLost == context = "torn" /\ \A p \in Procs : pc[p] # "opening"
PointerLost == pointer.file = "torn" /\ \A p \in Procs : pc[p] # "pointer"
AttemptLost == \E h \in 1 .. Len(dirs) : \E a \in Unfinished(dirs[h]) : ~Current(h, a)

\* Where the damage is.  Before the context is whole nothing is in the store,
\* and a single crash that tore the pointer tore no attempt.
DamageInv ==
    /\ \A p, q \in Procs :
          /\ pc[p] = "opening" => context = "torn"
          /\ pc[p] = "opening" /\ pc[q] = "opening" => p = q
    /\ context # "whole" =>
          /\ dirs = <<>> /\ pointer.file = "absent"
          /\ \A p \in Procs : pc[p] \in {"closed", "opening", "failed"}
    /\ ContextLost \/ PointerLost => crashes > 0
    /\ PointerLost /\ crashes = 1 => ~AttemptLost

\* "only one crash-truncated event attempt can be tolerated" (_scan_unlocked):
\* after a single crash no scan of the events fails, wherever it struck.  The
\* two other files that it can tear are not repaired: a torn context closes the
\* store for good (FindContext), but then no event was ever in it; a torn
\* pointer bars the frozen index for good (LoadPointer, FindPointer), but then
\* every event is whole.  Without a crash neither is ever left behind.
OneCrashContained ==
    crashes <= 1 /\ lock.exclusive = Nobody =>
        /\ ~Fatal(dirs)
        /\ ContextLost => crashes = 1 /\ dirs = <<>> /\ pointer.file = "absent"
        /\ PointerLost => crashes = 1 /\ ~AttemptLost

\* The accepted events are the log, and a whole pointer is the frozen index.
Ledger == INSTANCE EventLog WITH
    log <- Accepted(dirs),
    frozen <- IF pointer.file = "whole" THEN {pointer.index} ELSE {}

\* The store implements the append-only log: no step, no crash and no recovery
\* drops, replaces or reorders an accepted event, or changes "an immutable
\* discoverable CAS pointer" (freeze_index).
ImplementsLog == Ledger!Spec

=============================================================================
