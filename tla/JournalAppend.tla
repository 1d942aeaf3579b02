---------------------------- MODULE JournalAppend ----------------------------
(***************************************************************************)
(* Appends to the Optuna journal and its replay by other processes, with   *)
(* storage admission on (AdmittedJournalFileBackend of research_journal.py).*)
(*                                                                         *)
(* A writer takes Optuna's lock, then an exclusive flock on the data file, *)
(* notes its length, writes a batch of records and, if that fails, cuts    *)
(* the file back to the noted length.  A replay holds a shared flock.      *)
(* Optuna's lock is a symlink that names no owner: whoever waits takes it  *)
(* over when it looks forgotten, and a release removes the link there is.  *)
(*                                                                         *)
(* A record is two pieces, of which the second ends its line; a batch is   *)
(* two records.  The checks of the file's identity (inode, links, owner)   *)
(* are left out with everything that could change it, and so is the lease  *)
(* of the append, which StorageAuthority models.                           *)
(***************************************************************************)
EXTENDS Integers, Sequences, SequencesExt, FiniteSetsExt

CONSTANTS
    Writers, Readers, None,
    MaxBatch,    \* bound: appends begun
    MaxFaults,   \* bound: opens, writes and rollbacks that fail
    MaxDeaths,   \* bound: writers that die inside an append
    MaxSteals    \* bound: times the link of a living writer is taken over

ASSUME BoundAssumption == {MaxBatch, MaxFaults, MaxDeaths, MaxSteals} \subseteq Nat

VARIABLES
    file,      \* the pieces in the data file
    link,      \* the writer whose symlink stands, or None
    exclusive, \* the writer with the exclusive flock, or None
    shared,    \* the readers with a shared flock
    pc,        \* where each writer is
    batch,     \* the batch it appends
    put,       \* the pieces of it in the file
    length,    \* original_length
    result,    \* what its append is about to report
    outcome,   \* what the append of each batch reported
    seen,      \* the records each reader has replayed
    torn,      \* history: an append was left half written
    begun, faults, deaths, steals

locks == <<link, exclusive, shared>>
append == <<batch, put, length, result>>
counters == <<faults, deaths, steals>>
vars == <<file, locks, pc, append, outcome, seen, torn, begun, counters>>

Batches == 1..MaxBatch
Pieces == [batch : Batches, record : 1..2, ends : BOOLEAN]
Results == {"done", "refused", "unsure"}

ASSUME NoneAssumption == None \notin Writers \cup Results

\* _encoded_logs: the pieces of a batch in their order.
Encoded(b) == << [batch |-> b, record |-> 1, ends |-> FALSE],
                 [batch |-> b, record |-> 1, ends |-> TRUE],
                 [batch |-> b, record |-> 2, ends |-> FALSE],
                 [batch |-> b, record |-> 2, ends |-> TRUE] >>

TypeOK ==
    /\ file \in Seq(Pieces)
    /\ link \in Writers \cup {None}
    /\ exclusive \in Writers \cup {None}
    /\ exclusive # None => pc[exclusive] \in {"write", "rollback", "unlock", "close"}
    /\ shared \subseteq Readers
    /\ pc \in [Writers -> {"idle", "lock", "open", "write", "rollback", "unlock", "close"}]
    /\ batch \in [Writers -> 0..MaxBatch]
    /\ put \in [Writers -> 0..4]
    /\ length \in [Writers -> Nat]
    /\ result \in [Writers -> Results]
    /\ outcome \in [Batches -> Results \cup {None}]
    /\ seen \in [Readers -> Seq(Pieces)]
    /\ torn \in BOOLEAN
    /\ begun \in 0..MaxBatch
    /\ faults \in 0..MaxFaults /\ deaths \in 0..MaxDeaths /\ steals \in 0..MaxSteals

Init ==
    /\ file = <<>>
    /\ link = None /\ exclusive = None /\ shared = {}
    /\ pc = [w \in Writers |-> "idle"]
    /\ batch = [w \in Writers |-> 0]
    /\ put = [w \in Writers |-> 0]
    /\ length = [w \in Writers |-> 0]
    /\ result = [w \in Writers |-> "unsure"]
    /\ outcome = [b \in Batches |-> None]
    /\ seen = [r \in Readers |-> <<>>]
    /\ torn = FALSE
    /\ begun = 0 /\ faults = 0 /\ deaths = 0 /\ steals = 0

-----------------------------------------------------------------------------
\* The j-th line has two pieces, of one record.
WholeLine(j) ==
    /\ ~file[2*j - 1].ends /\ file[2*j].ends
    /\ file[2*j].batch = file[2*j - 1].batch
    /\ file[2*j].record = file[2*j - 1].record

\* What Optuna's replay returns: the lines before the first damaged one.  A
\* damaged last line is skipped in silence, one with a successor raises.
SoundLines == {n \in 1..Len(file) : 2*n <= Len(file) /\ \A j \in 1..n : WholeLine(j)}

Records == [n \in SoundLines |-> file[2*n]]

Readable(b) == \A i \in {2, 4} : Contains(Records, Encoded(b)[i])

-----------------------------------------------------------------------------
Goto(w, label) == pc' = [pc EXCEPT ![w] = label]

\* The local variables of append_logs are gone.
Forget(w) ==
    /\ batch' = [batch EXCEPT ![w] = 0]
    /\ put' = [put EXCEPT ![w] = 0]
    /\ length' = [length EXCEPT ![w] = 0]
    /\ result' = [result EXCEPT ![w] = "unsure"]
    /\ Goto(w, "idle")

Fault == faults < MaxFaults /\ faults' = faults + 1

\* append_logs is called and its lease admitted.
Begin(w) ==
    /\ pc[w] = "idle" /\ begun < MaxBatch
    /\ begun' = begun + 1
    /\ batch' = [batch EXCEPT ![w] = begun + 1]
    /\ Goto(w, "lock")
    /\ UNCHANGED <<file, locks, put, length, result, outcome, seen, torn, counters>>

\* Its lease is refused: nothing has been touched.
Denied(w) ==
    /\ pc[w] = "idle" /\ begun < MaxBatch
    /\ Fault
    /\ begun' = begun + 1
    /\ outcome' = [outcome EXCEPT ![begun + 1] = "refused"]
    /\ UNCHANGED <<file, locks, pc, append, seen, torn, deaths, steals>>

\* get_lock_file: the link is made, or taken over from one that seems dead.
Forgotten == link # None /\ pc[link] \in {"idle", "lock"}

Acquire(w) ==
    /\ pc[w] = "lock"
    /\ \/ (link = None \/ Forgotten) /\ UNCHANGED steals
       \/ link # None /\ ~Forgotten /\ steals < MaxSteals /\ steals' = steals + 1
    /\ link' = w
    /\ Goto(w, "open")
    /\ UNCHANGED <<file, exclusive, shared, append, outcome, seen, torn, begun,
                   faults, deaths>>

\* Mutant of MayExclude: the writer relies on Optuna's lock.
MayExcludeByLink == shared = {}

\* flock(LOCK_EX) is granted.
MayExclude == exclusive = None /\ shared = {}

\* The file is opened, locked and measured.
Open(w) ==
    /\ pc[w] = "open"
    /\ MayExclude
    /\ exclusive' = w
    /\ length' = [length EXCEPT ![w] = Len(file)]
    /\ Goto(w, "write")
    /\ UNCHANGED <<file, link, shared, batch, put, result, outcome, seen, torn,
                   begun, counters>>

\* It cannot be opened: there is no length to roll back to.
OpenFails(w) ==
    /\ pc[w] = "open"
    /\ Fault
    /\ result' = [result EXCEPT ![w] = "refused"]
    /\ Goto(w, "unlock")
    /\ UNCHANGED <<file, locks, batch, put, length, outcome, seen, torn, begun,
                   deaths, steals>>

\* A flush writes some of the pieces.
Put(w) ==
    /\ pc[w] = "write" /\ put[w] < 4
    /\ \E n \in put[w] + 1..4 :
           /\ file' = file \o SubSeq(Encoded(batch[w]), put[w] + 1, n)
           /\ put' = [put EXCEPT ![w] = n]
    /\ UNCHANGED <<locks, pc, batch, length, result, outcome, seen, torn, begun,
                   counters>>

\* The whole batch is on disk.
Synced(w) ==
    /\ pc[w] = "write" /\ put[w] = 4
    /\ result' = [result EXCEPT ![w] = "done"]
    /\ Goto(w, "unlock")
    /\ UNCHANGED <<file, locks, batch, put, length, outcome, seen, torn, begun,
                   counters>>

\* The write, the flush or the fsync raises.
WriteFails(w) ==
    /\ pc[w] = "write"
    /\ Fault
    /\ Goto(w, "rollback")
    /\ UNCHANGED <<file, locks, append, outcome, seen, torn, begun, deaths, steals>>

\* ftruncate to original_length, which the flock keeps within the file.
RolledBack(w) == SubSeq(file, 1, Min({length[w], Len(file)}))

Rollback(w) ==
    /\ pc[w] = "rollback"
    /\ file' = RolledBack(w)
    /\ result' = [result EXCEPT ![w] = "refused"]
    /\ Goto(w, "unlock")
    /\ UNCHANGED <<locks, batch, put, length, outcome, seen, torn, begun, counters>>

HalfWritten(w) == pc[w] \in {"write", "rollback"} /\ put[w] \in 1..3

\* The rollback fails and is noted on the error.
RollbackFails(w) ==
    /\ pc[w] = "rollback"
    /\ Fault
    /\ torn' = (torn \/ HalfWritten(w))
    /\ result' = [result EXCEPT ![w] = "unsure"]
    /\ Goto(w, "unlock")
    /\ UNCHANGED <<file, locks, batch, put, length, outcome, seen, begun, deaths, steals>>

\* get_lock_file releases the link there is, whoever made it, and raises
\* when there is none.
Unlock(w) ==
    /\ pc[w] = "unlock"
    /\ link' = None
    /\ result' = [result EXCEPT ![w] = IF link = None /\ @ = "done" THEN "unsure" ELSE @]
    /\ Goto(w, "close")
    /\ UNCHANGED <<file, exclusive, shared, batch, put, length, outcome, seen, torn,
                   begun, counters>>

\* Mutant of Freed: the descriptor of a refused append stays open.
FreedIfDone(w) == IF result[w] = "done" THEN None ELSE exclusive

\* Closing lock_fd gives the flock up.
Freed(w) == IF exclusive = w THEN None ELSE exclusive

Close(w) ==
    /\ pc[w] = "close"
    /\ exclusive' = Freed(w)
    /\ outcome' = [outcome EXCEPT ![batch[w]] = result[w]]
    /\ Forget(w)
    /\ UNCHANGED <<file, link, shared, seen, torn, begun, counters>>

\* The process is killed and started again.  The kernel gives its flock up;
\* the link stays.
Die(w) ==
    /\ pc[w] # "idle" /\ deaths < MaxDeaths
    /\ deaths' = deaths + 1
    /\ exclusive' = IF exclusive = w THEN None ELSE exclusive
    /\ torn' = (torn \/ HalfWritten(w))
    /\ outcome' = [outcome EXCEPT ![batch[w]] = "unsure"]
    /\ Forget(w)
    /\ UNCHANGED <<file, link, shared, seen, begun, faults, steals>>

-----------------------------------------------------------------------------
\* Mutant of MayShare: a replay opens the file while it is being written.
MayShareAlways == TRUE

\* flock(LOCK_SH) is granted.
MayShare == exclusive = None

ReadOpen(r) ==
    /\ r \notin shared
    /\ MayShare
    /\ shared' = shared \cup {r}
    /\ UNCHANGED <<file, link, exclusive, pc, append, outcome, seen, torn, begun, counters>>

\* The replay goes on from the records it has, to the end.
ReadClose(r) ==
    /\ r \in shared
    /\ seen' = [seen EXCEPT ![r] = @ \o SubSeq(Records, Len(@) + 1, Len(Records))]
    /\ shared' = shared \ {r}
    /\ UNCHANGED <<file, link, exclusive, pc, append, outcome, torn, begun, counters>>

-----------------------------------------------------------------------------
Goes(w) ==
    \/ Acquire(w) \/ Open(w) \/ OpenFails(w)
    \/ Put(w) \/ Synced(w) \/ WriteFails(w)
    \/ Rollback(w) \/ RollbackFails(w)
    \/ Unlock(w) \/ Close(w)

Next ==
    \/ \E w \in Writers : Begin(w) \/ Denied(w) \/ Goes(w) \/ Die(w)
    \/ \E r \in Readers : ReadOpen(r) \/ ReadClose(r)

Spec == Init /\ [][Next]_vars

\* A writer in an append goes on; one that waits for a flock gets it, as
\* replays are short and the kernel wakes whoever waits.
FairSpec ==
    /\ Spec
    /\ \A w \in Writers : WF_vars(Goes(w)) /\ SF_vars(Open(w))
    /\ \A r \in Readers : WF_vars(ReadClose(r))

-----------------------------------------------------------------------------
(* What a replay has returned stays in the journal and is what any later   *)
(* replay starts with: no record of an append that is rolled back is ever  *)
(* seen, and no tear reaches back (read_logs, whose shared lock hides the  *)
(* interval between the write and its rollback).                           *)
ReplayStands == \A r \in Readers : IsPrefix(seen[r], Records)

(* An append that raised and was rolled back leaves nothing of its batch,  *)
(* and takes nothing of another's: whatever was reported done is in the    *)
(* file in one piece, whoever held Optuna's lock meanwhile, and until an   *)
(* append is torn every replay returns it (append_logs, read_logs).        *)
AppendsWhole ==
    \A b \in Batches :
        /\ outcome[b] = "refused" => \A i \in DOMAIN file : file[i].batch # b
        /\ outcome[b] = "done" =>
               /\ \E i \in 0..Len(file) - 4 : SubSeq(file, i + 1, i + 4) = Encoded(b)
               /\ ~torn => Readable(b)

(* Every append ends, though a writer died with Optuna's lock in its hand, *)
(* for its flock went with it and its link is taken over.                  *)
AppendsEnd == \A w \in Writers : pc[w] # "idle" ~> pc[w] = "idle"
=============================================================================
