------------------------ MODULE JournalAppendProofs ------------------------
(***************************************************************************)
(* No append leaves a part of itself behind, no replay sees what is rolled *)
(* back, and what was reported done is read, for any number of writers,    *)
(* readers, batches, failures and deaths, whoever takes Optuna's link.     *)
(***************************************************************************)
EXTENDS JournalAppend, SequenceTheorems, WellFoundedInduction, TLAPS

-----------------------------------------------------------------------------
(* The least number of a set.                                              *)

\* A set of numbers that is not empty has a least one.
LEMMA LeastExists ==
    ASSUME NEW S \in SUBSET Nat, S # {}
    PROVE  \E n \in S : \A m \in S : n <= m
<1> DEFINE below == OpToRel(<, Nat)
<1>1. IsWellFoundedOn(below, Nat)
  BY NatLessThanWellFounded
<1> HIDE DEF below
<1>2. \E n \in S : \A m \in S : <<m, n>> \notin below
  BY <1>1, WFMin
<1>3. \A m, n \in Nat : <<m, n>> \in below <=> m < n
  BY DEF below, OpToRel
<1>4. PICK n \in S : \A m \in S : <<m, n>> \notin below
  BY <1>2
<1>5. ASSUME NEW m \in S PROVE n <= m
  <2>1. n \in Nat /\ m \in Nat
    OBVIOUS
  <2>2. ~(m < n)
    BY <1>3, <1>4, <2>1, Zenon
  <2> QED
    BY <2>1, <2>2
<1> QED
  BY <1>5


---------------------------------------------------------------------------
(* The inductive invariant.                                                *)

Absent(b) == \A i \in 1..Len(file) : file[i].batch # b
Whole(b) == \E i \in 0..Len(file) : /\ i + 4 <= Len(file)
                                    /\ \A k \in 1..4 : file[i + k] = Encoded(b)[k]

HasFile(w) == pc[w] \in {"write", "rollback"}

(* The flock is held where the code counts on it.                          *)
LocksInv ==
    /\ \A w \in Writers : HasFile(w) => exclusive = w
    /\ exclusive # None => shared = {}

(* A batch belongs to one append, which reports once.                      *)
BatchInv ==
    /\ \A w \in Writers : pc[w] # "idle" => batch[w] \in 1..begun /\ outcome[batch[w]] = None
    /\ \A v, w \in Writers :
           pc[v] # "idle" /\ pc[w] # "idle" /\ v # w => batch[v] # batch[w]
    /\ \A b \in Batches : b > begun => outcome[b] = None
    /\ \A i \in 1..Len(file) : file[i].batch <= begun

(* What is in the file of a batch that is waiting, over or reported.       *)
ReportInv ==
    \A b \in Batches :
        /\ outcome[b] = "refused" => Absent(b)
        /\ outcome[b] = "done" => Whole(b)
        /\ \A w \in Writers : batch[w] = b =>
               /\ pc[w] \in {"lock", "open"} => Absent(b)
               /\ pc[w] \in {"unlock", "close"} =>
                      /\ result[w] = "refused" => Absent(b)
                      /\ result[w] = "done" => Whole(b)

(* The file of the writer that has it ends with what it put.               *)
TailInv ==
    \A w \in Writers :
        /\ pc[w] \in {"idle", "lock", "open"} => put[w] = 0
        /\ HasFile(w) => /\ Len(file) = length[w] + put[w]
                         /\ \A k \in 1..put[w] : file[length[w] + k] = Encoded(batch[w])[k]
                         /\ \A i \in 1..length[w] : file[i].batch # batch[w]

(* What was replayed lies before all that can be rolled back.              *)
SeenInv ==
    \A r \in Readers :
        /\ 2 * Len(seen[r]) <= Len(file)
        /\ \A j \in 1..Len(seen[r]) : WholeLine(j) /\ seen[r][j] = file[2*j]
        /\ \A w \in Writers : HasFile(w) => 2 * Len(seen[r]) <= length[w]

(* Until an append is torn the file is a row of whole batches, but for the *)
(* tail of the writer that has it.                                         *)
Formed(i) ==
    /\ file[i].record = IF i % 4 \in {1, 2} THEN 1 ELSE 2
    /\ file[i].ends <=> i % 2 = 0
    /\ i % 4 # 1 => file[i].batch = file[i - 1].batch

FormInv ==
    ~torn => /\ \A i \in 1..Len(file) : Formed(i)
             /\ \A w \in Writers : HasFile(w) => length[w] % 4 = 0
             /\ (\A w \in Writers : ~HalfWritten(w)) => Len(file) % 4 = 0

IInv == TypeOK /\ LocksInv /\ BatchInv /\ ReportInv /\ TailInv /\ SeenInv /\ FormInv

---------------------------------------------------------------------------
(* Batches and files.                                                      *)

LEMMA EncodedPieces ==
    ASSUME NEW b \in Batches
    PROVE  /\ Encoded(b) \in Seq(Pieces) /\ Len(Encoded(b)) = 4
           /\ \A k \in 1..4 : /\ Encoded(b)[k].batch = b
                              /\ Encoded(b)[k].record = IF k \in {1, 2} THEN 1 ELSE 2
                              /\ Encoded(b)[k].ends <=> k \in {2, 4}
  BY DEF Encoded, Pieces

LEMMA FilePieces ==
    ASSUME TypeOK, NEW i \in 1..Len(file)
    PROVE  file[i] \in Pieces /\ file[i].batch \in Batches /\ file[i].batch \in Nat
  <1>1. file[i] \in Pieces
    BY DEF TypeOK
  <1> QED BY <1>1, BoundAssumption DEF Pieces, Batches

(* A file that keeps its beginning keeps its whole batches and lines.      *)
LEMMA BeginningStays ==
    ASSUME file \in Seq(Pieces), file' \in Seq(Pieces),
           NEW n \in Nat, n <= Len(file), n <= Len(file'),
           \A i \in 1..n : file'[i] = file[i]
    PROVE  /\ \A j \in Nat : j > 0 /\ 2*j <= n => (WholeLine(j) <=> WholeLine(j)')
           /\ \A i \in 1..n : Formed(i) => Formed(i)'
  <1>1. ASSUME NEW j \in Nat, j > 0, 2*j <= n
        PROVE  WholeLine(j) <=> WholeLine(j)'
    <2>1. 2*j \in 1..n /\ 2*j - 1 \in 1..n
      BY <1>1
    <2> QED BY <2>1 DEF WholeLine
  <1>2. ASSUME NEW i \in 1..n, Formed(i)
        PROVE  Formed(i)'
    <2>1. i % 4 # 1 => i - 1 \in 1..n
      OBVIOUS
    <2> QED BY <1>2, <2>1 DEF Formed
  <1> QED BY <1>1, <1>2

LEMMA GrowingKeepsWhole ==
    ASSUME file \in Seq(Pieces), file' \in Seq(Pieces), Len(file) <= Len(file'),
           \A i \in 1..Len(file) : file'[i] = file[i],
           NEW b, Whole(b)
    PROVE  Whole(b)'
  <1>1. PICK i \in 0..Len(file) : i + 4 <= Len(file) /\ \A k \in 1..4 : file[i + k] = Encoded(b)[k]
    BY DEF Whole
  <1>2. i \in 0..Len(file') /\ i + 4 <= Len(file')
    BY <1>1
  <1>3. ASSUME NEW k \in 1..4 PROVE file'[i + k] = Encoded(b)[k]
    <2>1. i + k \in 1..Len(file)
      BY <1>1
    <2> QED BY <1>1, <2>1
  <1> QED BY <1>2, <1>3 DEF Whole, Encoded

(* What a step that leaves the file alone keeps.                           *)
LEMMA FileSame ==
    ASSUME UNCHANGED file
    PROVE  /\ \A b : Absent(b) <=> Absent(b)'
           /\ \A b : Whole(b) <=> Whole(b)'
           /\ \A j : WholeLine(j) <=> WholeLine(j)'
           /\ \A i : Formed(i) <=> Formed(i)'
  BY DEF Absent, Whole, WholeLine, Formed, Encoded

(* The type invariant in parts, of which a step mostly needs one.          *)
PlaceTypes ==
    /\ link \in Writers \cup {None}
    /\ exclusive \in Writers \cup {None}
    /\ exclusive # None => pc[exclusive] \in {"write", "rollback", "unlock", "close"}
    /\ shared \subseteq Readers
    /\ pc \in [Writers -> {"idle", "lock", "open", "write", "rollback", "unlock", "close"}]
    /\ batch \in [Writers -> 0..MaxBatch]
    /\ put \in [Writers -> 0..4]
    /\ length \in [Writers -> Nat]
    /\ result \in [Writers -> Results]

CountTypes ==
    /\ outcome \in [Batches -> Results \cup {None}]
    /\ torn \in BOOLEAN
    /\ begun \in 0..MaxBatch
    /\ faults \in 0..MaxFaults /\ deaths \in 0..MaxDeaths /\ steals \in 0..MaxSteals

LEMMA TypesSplit ==
    ASSUME TypeOK
    PROVE  /\ PlaceTypes /\ CountTypes
           /\ file \in Seq(Pieces) /\ Len(file) \in Nat
           /\ MaxBatch \in Nat /\ MaxFaults \in Nat /\ MaxDeaths \in Nat /\ MaxSteals \in Nat
  <1>1. PlaceTypes /\ CountTypes /\ file \in Seq(Pieces)
    BY DEF TypeOK, PlaceTypes, CountTypes
  <1> QED BY <1>1, BoundAssumption

LEMMA TypesKept ==
    ASSUME TypeOK, UNCHANGED <<file, seen>>, PlaceTypes', CountTypes'
    PROVE  TypeOK'
  BY DEF TypeOK, PlaceTypes, CountTypes

(* A writer that has the file goes on with what it put.                    *)
LEMMA TailSame ==
    ASSUME TailInv, file' = file,
           \A v \in Writers : pc'[v] \in {"idle", "lock", "open"} => put'[v] = 0,
           \A v \in Writers : HasFile(v)' =>
               HasFile(v) /\ put'[v] = put[v] /\ length'[v] = length[v] /\ batch'[v] = batch[v]
    PROVE  TailInv'
  <1> SUFFICES ASSUME NEW v \in Writers, HasFile(v)'
               PROVE  /\ Len(file') = length'[v] + put'[v]
                      /\ \A k \in 1..put'[v] :
                             file'[length'[v] + k] = (Encoded(batch[v])[k])'
                      /\ \A i \in 1..length'[v] : file'[i].batch # batch'[v]
    BY DEF TailInv, Encoded
  <1>1. HasFile(v) /\ put'[v] = put[v] /\ length'[v] = length[v] /\ batch'[v] = batch[v]
    OBVIOUS
  <1>2. /\ Len(file) = length[v] + put[v]
        /\ \A k \in 1..put[v] : file[length[v] + k] = Encoded(batch[v])[k]
        /\ \A i \in 1..length[v] : file[i].batch # batch[v]
    BY <1>1 DEF TailInv
  <1> QED BY <1>1, <1>2 DEF Encoded

---------------------------------------------------------------------------
(* The actions that leave the file alone.                                  *)

LEMMA InitIInv == Init => IInv
  <1> SUFFICES ASSUME Init PROVE IInv
    OBVIOUS
  <1> USE BoundAssumption, NoneAssumption
  <1>1. TypeOK
    <2>1. <<>> \in Seq(Pieces)
      OBVIOUS
    <2>2. file \in Seq(Pieces) /\ seen \in [Readers -> Seq(Pieces)]
      BY <2>1 DEF Init
    <2>3. outcome \in [Batches -> Results \cup {None}] /\ result \in [Writers -> Results]
      BY DEF Init, Results
    <2>4. /\ begun \in 0..MaxBatch /\ faults \in 0..MaxFaults
          /\ deaths \in 0..MaxDeaths /\ steals \in 0..MaxSteals
          /\ batch \in [Writers -> 0..MaxBatch] /\ put \in [Writers -> 0..4]
          /\ length \in [Writers -> Nat]
      BY DEF Init
    <2> QED BY <2>2, <2>3, <2>4 DEF Init, TypeOK
  <1>2. LocksInv /\ BatchInv /\ TailInv /\ ReportInv
    BY DEF Init, LocksInv, BatchInv, TailInv, ReportInv, HasFile, Batches, Results
  <1>3. SeenInv /\ FormInv
    BY DEF Init, SeenInv, FormInv, HasFile
  <1> QED BY <1>1, <1>2, <1>3 DEF IInv

LEMMA BeginIInv ==
    ASSUME IInv, NEW w \in Writers, Begin(w)
    PROVE  IInv'
  <1> USE BoundAssumption, NoneAssumption DEF IInv
  <1>1. TypeOK'
    <2>1. PlaceTypes'
      <3>1. begun + 1 \in 0..MaxBatch
        BY TypesSplit DEF Begin, CountTypes
      <3>2. batch' \in [Writers -> 0..MaxBatch]
        BY <3>1, TypesSplit DEF Begin, PlaceTypes
      <3>3. /\ pc' \in [Writers -> {"idle", "lock", "open", "write", "rollback", "unlock", "close"}]
            /\ exclusive # None => pc'[exclusive] \in {"write", "rollback", "unlock", "close"}
        BY TypesSplit DEF Begin, Goto, PlaceTypes
      <3>4. UNCHANGED <<link, exclusive, shared, put, length, result>>
        BY DEF Begin, locks
      <3> QED BY <3>2, <3>3, <3>4, TypesSplit DEF PlaceTypes
    <2>2. CountTypes'
      BY TypesSplit DEF Begin, Goto, locks, counters, CountTypes, Results
    <2>3. UNCHANGED <<file, seen>>
      BY DEF Begin
    <2> QED BY <2>1, <2>2, <2>3, TypesKept
  <1>2. LocksInv'
    BY TypesSplit DEF Begin, PlaceTypes, CountTypes, LocksInv, HasFile, Goto, locks
  <1>3. BatchInv'
    <2>1. begun + 1 \in Batches /\ outcome[begun + 1] = None
      BY TypesSplit DEF Begin, PlaceTypes, CountTypes, BatchInv, Batches
    <2>2. \A i \in 1..Len(file)' : file'[i].batch <= begun'
      <3>1. file' = file /\ begun' = begun + 1 /\ begun \in Nat
        BY TypesSplit DEF Begin, CountTypes
      <3>2. \A i \in 1..Len(file) : file[i].batch <= begun /\ file[i].batch \in Nat
        BY FilePieces DEF BatchInv
      <3> QED BY <3>1, <3>2
    <2>3. \A b \in Batches : b > begun' => outcome'[b] = None
      BY TypesSplit DEF Begin, PlaceTypes, CountTypes, BatchInv, Batches
    <2>4. \A v \in Writers : pc'[v] # "idle" =>
              batch'[v] \in 1..begun' /\ outcome'[batch'[v]] = None
      BY <2>1, TypesSplit DEF Begin, PlaceTypes, CountTypes, BatchInv, Goto
    <2>5. \A u, v \in Writers :
              pc'[u] # "idle" /\ pc'[v] # "idle" /\ u # v => batch'[u] # batch'[v]
      <3>1. \A v \in Writers : v # w => pc'[v] = pc[v] /\ batch'[v] = batch[v]
        BY TypesSplit DEF Begin, Goto, PlaceTypes
      <3>2. batch'[w] = begun + 1 /\ begun \in Nat
        BY TypesSplit DEF Begin, PlaceTypes, CountTypes
      <3>3. \A v \in Writers : v # w /\ pc'[v] # "idle" => batch'[v] \in 1..begun
        BY <3>1 DEF BatchInv
      <3>4. \A u, v \in Writers :
                u # w /\ v # w /\ pc'[u] # "idle" /\ pc'[v] # "idle" /\ u # v => batch'[u] # batch'[v]
        BY <3>1 DEF BatchInv
      <3> QED BY <3>2, <3>3, <3>4
    <2> QED BY <2>2, <2>3, <2>4, <2>5 DEF BatchInv
  <1>4. ReportInv'
    <2>1. Absent(begun + 1)
      <3>1. begun \in Nat
        BY TypesSplit DEF CountTypes
      <3>2. \A i \in 1..Len(file) : file[i].batch <= begun /\ file[i].batch \in Nat
        BY FilePieces DEF BatchInv
      <3> QED BY <3>1, <3>2 DEF Absent
    <2> QED BY <2>1, FileSame, TypesSplit DEF Begin, PlaceTypes, CountTypes, ReportInv, Goto, Batches
  <1>5. TailInv'
    <2>1. \A v \in Writers : pc'[v] \in {"idle", "lock", "open"} => put'[v] = 0
      BY TypesSplit DEF Begin, TailInv, HasFile, Goto, PlaceTypes
    <2>2. \A v \in Writers : HasFile(v)' =>
              HasFile(v) /\ put'[v] = put[v] /\ length'[v] = length[v] /\ batch'[v] = batch[v]
      BY TypesSplit DEF Begin, HasFile, Goto, PlaceTypes
    <2>3. file' = file
      BY DEF Begin
    <2> QED BY <2>1, <2>2, <2>3, TailSame
  <1>6. SeenInv'
    BY FileSame, TypesSplit DEF Begin, PlaceTypes, CountTypes, SeenInv, HasFile, Goto
  <1>7. FormInv'
    BY FileSame, TypesSplit DEF Begin, PlaceTypes, CountTypes, FormInv, HasFile, HalfWritten, Goto
  <1> QED BY <1>1, <1>2, <1>3, <1>4, <1>5, <1>6, <1>7

LEMMA DeniedIInv ==
    ASSUME IInv, NEW w \in Writers, Denied(w)
    PROVE  IInv'
  <1> USE BoundAssumption, NoneAssumption DEF IInv
  <1>1. TypeOK'
    <2>1. PlaceTypes'
      BY TypesSplit DEF Denied, Fault, Goto, locks, counters, append, PlaceTypes, Results
    <2>2. CountTypes'
      <3>1. begun + 1 \in Batches /\ begun' = begun + 1
        BY TypesSplit DEF Denied, CountTypes, Batches
      <3>2. outcome' \in [Batches -> Results \cup {None}]
        BY <3>1, TypesSplit DEF Denied, CountTypes, Results
      <3>3. faults' \in 0..MaxFaults
        BY TypesSplit DEF Denied, Fault, CountTypes
      <3> QED BY <3>1, <3>2, <3>3, TypesSplit DEF Denied, CountTypes, Batches
    <2>3. UNCHANGED <<file, seen>>
      BY DEF Denied
    <2> QED BY <2>1, <2>2, <2>3, TypesKept
  <1>2. LocksInv'
    BY TypesSplit DEF Denied, Fault, Goto, locks, counters, append, PlaceTypes, CountTypes, LocksInv, HasFile
  <1>3. BatchInv'
    <2>1. begun + 1 \in Batches /\ \A v \in Writers : pc[v] # "idle" => batch[v] # begun + 1
      BY TypesSplit DEF Denied, PlaceTypes, CountTypes, BatchInv, Batches
    <2>2. \A i \in 1..Len(file)' : file'[i].batch <= begun'
      <3>1. file' = file /\ begun' = begun + 1 /\ begun \in Nat
        BY TypesSplit DEF Denied, CountTypes
      <3>2. \A i \in 1..Len(file) : file[i].batch <= begun /\ file[i].batch \in Nat
        BY FilePieces DEF BatchInv
      <3> QED BY <3>1, <3>2
    <2>3. \A b \in Batches : b > begun' => outcome'[b] = None
      BY TypesSplit DEF Denied, PlaceTypes, CountTypes, BatchInv, Batches
    <2>4. \A v \in Writers : pc'[v] # "idle" =>
              batch'[v] \in 1..begun' /\ outcome'[batch'[v]] = None
      BY <2>1, TypesSplit DEF Denied, PlaceTypes, CountTypes, BatchInv, append, Batches
    <2>5. \A u, v \in Writers :
              pc'[u] # "idle" /\ pc'[v] # "idle" /\ u # v => batch'[u] # batch'[v]
      BY TypesSplit DEF Denied, PlaceTypes, CountTypes, BatchInv, append
    <2> QED BY <2>2, <2>3, <2>4, <2>5 DEF BatchInv
  <1>4. ReportInv'
    <2>1. Absent(begun + 1)
      <3>1. begun \in Nat
        BY TypesSplit DEF CountTypes
      <3>2. \A i \in 1..Len(file) : file[i].batch <= begun /\ file[i].batch \in Nat
        BY FilePieces DEF BatchInv
      <3> QED BY <3>1, <3>2 DEF Absent
    <2> QED BY <2>1, FileSame, TypesSplit DEF Denied, append, PlaceTypes, CountTypes, ReportInv, Batches
  <1>5. TailInv'
    <2>1. \A v \in Writers : pc'[v] \in {"idle", "lock", "open"} => put'[v] = 0
      BY TypesSplit DEF Denied, Fault, Goto, locks, counters, append, TailInv, HasFile, PlaceTypes
    <2>2. \A v \in Writers : HasFile(v)' =>
              HasFile(v) /\ put'[v] = put[v] /\ length'[v] = length[v] /\ batch'[v] = batch[v]
      BY TypesSplit DEF Denied, Fault, Goto, locks, counters, append, HasFile, PlaceTypes
    <2>3. file' = file
      BY DEF Denied
    <2> QED BY <2>1, <2>2, <2>3, TailSame
  <1>6. SeenInv'
    BY FileSame, TypesSplit DEF Denied, Fault, Goto, locks, counters, append, PlaceTypes, CountTypes, SeenInv, HasFile
  <1>7. FormInv'
    BY FileSame, TypesSplit DEF Denied, Fault, Goto, locks, counters, append, PlaceTypes, CountTypes, FormInv, HasFile, HalfWritten
  <1> QED BY <1>1, <1>2, <1>3, <1>4, <1>5, <1>6, <1>7

LEMMA AcquireIInv ==
    ASSUME IInv, NEW w \in Writers, Acquire(w)
    PROVE  IInv'
  <1> USE BoundAssumption, NoneAssumption DEF IInv
  <1>1. TypeOK'
    <2>1. PlaceTypes'
      BY TypesSplit DEF Acquire, Goto, locks, counters, append, PlaceTypes, Results
    <2>2. CountTypes'
      BY TypesSplit DEF Acquire, Goto, locks, counters, append, CountTypes, Results
    <2>3. UNCHANGED <<file, seen>>
      BY DEF Acquire
    <2> QED BY <2>1, <2>2, <2>3, TypesKept
  <1>2. LocksInv'
    BY TypesSplit DEF Acquire, Goto, locks, counters, append, PlaceTypes, CountTypes, LocksInv, HasFile
  <1>3. BatchInv'
    BY TypesSplit DEF Acquire, Goto, locks, counters, append, PlaceTypes, CountTypes, BatchInv, Batches
  <1>4. ReportInv'
    BY FileSame, TypesSplit DEF Acquire, Goto, locks, counters, append, PlaceTypes, CountTypes, ReportInv, Batches
  <1>5. TailInv'
    <2>1. \A v \in Writers : pc'[v] \in {"idle", "lock", "open"} => put'[v] = 0
      BY TypesSplit DEF Acquire, Goto, locks, counters, append, TailInv, HasFile, PlaceTypes
    <2>2. \A v \in Writers : HasFile(v)' =>
              HasFile(v) /\ put'[v] = put[v] /\ length'[v] = length[v] /\ batch'[v] = batch[v]
      BY TypesSplit DEF Acquire, Goto, locks, counters, append, HasFile, PlaceTypes
    <2>3. file' = file
      BY DEF Acquire
    <2> QED BY <2>1, <2>2, <2>3, TailSame
  <1>6. SeenInv'
    BY FileSame, TypesSplit DEF Acquire, Goto, locks, counters, append, PlaceTypes, CountTypes, SeenInv, HasFile
  <1>7. FormInv'
    BY FileSame, TypesSplit DEF Acquire, Goto, locks, counters, append, PlaceTypes, CountTypes, FormInv, HasFile, HalfWritten
  <1> QED BY <1>1, <1>2, <1>3, <1>4, <1>5, <1>6, <1>7

LEMMA OpenIInv ==
    ASSUME IInv, NEW w \in Writers, Open(w)
    PROVE  IInv'
  <1> USE BoundAssumption, NoneAssumption DEF IInv
  <1>1. TypeOK'
    <2>1. PlaceTypes'
      BY TypesSplit DEF Open, MayExclude, Goto, locks, counters, append, PlaceTypes, Results
    <2>2. CountTypes'
      BY TypesSplit DEF Open, MayExclude, Goto, locks, counters, append, CountTypes, Results
    <2>3. UNCHANGED <<file, seen>>
      BY DEF Open
    <2> QED BY <2>1, <2>2, <2>3, TypesKept
  <1>2. LocksInv'
    BY TypesSplit DEF Open, MayExclude, Goto, locks, counters, append, PlaceTypes, CountTypes, LocksInv, HasFile
  <1>3. BatchInv'
    BY TypesSplit DEF Open, MayExclude, Goto, locks, counters, append, PlaceTypes, CountTypes, BatchInv, Batches
  <1>4. ReportInv'
    BY FileSame, TypesSplit DEF Open, MayExclude, Goto, locks, counters, append, PlaceTypes, CountTypes, ReportInv, Batches
  <1>5. TailInv'
    <2>1. Absent(batch[w]) /\ put[w] = 0
      BY TypesSplit DEF Open, PlaceTypes, CountTypes, BatchInv, ReportInv, TailInv, Batches
    <2>2. ASSUME NEW v \in Writers, HasFile(v)'
          PROVE  /\ v = w /\ batch'[v] = batch[w] /\ put'[v] = 0
                 /\ length'[v] = Len(file) /\ file' = file
      BY <2>1, <2>2, TypesSplit DEF Open, MayExclude, Goto, LocksInv, HasFile, PlaceTypes, CountTypes
    <2>3. ASSUME NEW v \in Writers, HasFile(v)'
          PROVE  /\ Len(file') = length'[v] + put'[v]
                 /\ \A k \in 1..put'[v] : file'[length'[v] + k] = Encoded(batch'[v])[k]
                 /\ \A i \in 1..length'[v] : file'[i].batch # batch'[v]
      <3>1. /\ v = w /\ batch'[v] = batch[w] /\ put'[v] = 0
            /\ length'[v] = Len(file) /\ file' = file
        BY <2>2, <2>3
      <3>2. Len(file) \in Nat /\ \A i \in 1..Len(file) : file[i].batch # batch[w]
        BY <2>1, TypesSplit DEF Absent
      <3> QED BY <3>1, <3>2
    <2>4. \A v \in Writers : pc'[v] \in {"idle", "lock", "open"} => put'[v] = 0
      BY TypesSplit DEF Open, Goto, PlaceTypes, CountTypes, TailInv
    <2>5. \A v \in Writers : HasFile(v)' <=> pc'[v] \in {"write", "rollback"}
      BY DEF HasFile
    <2> QED BY <2>3, <2>4, <2>5 DEF TailInv, Encoded
  <1>6. SeenInv'
    BY FileSame, TypesSplit DEF Open, MayExclude, Goto, locks, counters, append, PlaceTypes, CountTypes, SeenInv, HasFile
  <1>7. FormInv'
    <2>1. put[w] = 0 /\ \A v \in Writers : ~HasFile(v)
      BY DEF Open, MayExclude, TailInv, LocksInv
    <2>2. \A v \in Writers : ~HalfWritten(v) /\ ~HalfWritten(v)'
      BY <2>1, TypesSplit DEF Open, Goto, PlaceTypes, CountTypes, HasFile, HalfWritten
    <2> QED BY <2>1, <2>2, FileSame, TypesSplit DEF Open, Goto, PlaceTypes, CountTypes, FormInv, HasFile
  <1> QED BY <1>1, <1>2, <1>3, <1>4, <1>5, <1>6, <1>7

LEMMA OpenFailsIInv ==
    ASSUME IInv, NEW w \in Writers, OpenFails(w)
    PROVE  IInv'
  <1> USE BoundAssumption, NoneAssumption DEF IInv
  <1>1. TypeOK'
    <2>1. PlaceTypes'
      BY TypesSplit DEF OpenFails, Fault, Goto, locks, counters, append, PlaceTypes, Results
    <2>2. CountTypes'
      BY TypesSplit DEF OpenFails, Fault, Goto, locks, counters, append, CountTypes, Results
    <2>3. UNCHANGED <<file, seen>>
      BY DEF OpenFails
    <2> QED BY <2>1, <2>2, <2>3, TypesKept
  <1>2. LocksInv'
    BY TypesSplit DEF OpenFails, Fault, Goto, locks, counters, append, PlaceTypes, CountTypes, LocksInv, HasFile
  <1>3. BatchInv'
    BY TypesSplit DEF OpenFails, Fault, Goto, locks, counters, append, PlaceTypes, CountTypes, BatchInv, Batches
  <1>4. ReportInv'
    BY FileSame, TypesSplit DEF OpenFails, Fault, Goto, locks, counters, append, PlaceTypes, CountTypes, ReportInv, Batches
  <1>5. TailInv'
    <2>1. \A v \in Writers : pc'[v] \in {"idle", "lock", "open"} => put'[v] = 0
      BY TypesSplit DEF OpenFails, Fault, Goto, locks, counters, append, TailInv, HasFile, PlaceTypes
    <2>2. \A v \in Writers : HasFile(v)' =>
              HasFile(v) /\ put'[v] = put[v] /\ length'[v] = length[v] /\ batch'[v] = batch[v]
      BY TypesSplit DEF OpenFails, Fault, Goto, locks, counters, append, HasFile, PlaceTypes
    <2>3. file' = file
      BY DEF OpenFails
    <2> QED BY <2>1, <2>2, <2>3, TailSame
  <1>6. SeenInv'
    BY FileSame, TypesSplit DEF OpenFails, Fault, Goto, locks, counters, append, PlaceTypes, CountTypes, SeenInv, HasFile
  <1>7. FormInv'
    BY FileSame, TypesSplit DEF OpenFails, Fault, Goto, locks, counters, append, PlaceTypes, CountTypes, FormInv, HasFile, HalfWritten
  <1> QED BY <1>1, <1>2, <1>3, <1>4, <1>5, <1>6, <1>7

LEMMA SyncedIInv ==
    ASSUME IInv, NEW w \in Writers, Synced(w)
    PROVE  IInv'
  <1> USE BoundAssumption, NoneAssumption DEF IInv
  <1>1. TypeOK'
    <2>1. PlaceTypes'
      BY TypesSplit DEF Synced, Goto, locks, counters, append, PlaceTypes, Results
    <2>2. CountTypes'
      BY TypesSplit DEF Synced, Goto, locks, counters, append, CountTypes, Results
    <2>3. UNCHANGED <<file, seen>>
      BY DEF Synced
    <2> QED BY <2>1, <2>2, <2>3, TypesKept
  <1>2. LocksInv'
    BY TypesSplit DEF Synced, Goto, locks, counters, append, PlaceTypes, CountTypes, LocksInv, HasFile
  <1>3. BatchInv'
    BY TypesSplit DEF Synced, Goto, locks, counters, append, PlaceTypes, CountTypes, BatchInv, Batches
  <1>4. ReportInv'
    <2>1. batch[w] \in Batches
      BY TypesSplit DEF Synced, PlaceTypes, CountTypes, BatchInv, Batches
    <2>2. Whole(batch[w])
      <3>1. /\ length[w] \in 0..Len(file) /\ length[w] + 4 <= Len(file)
            /\ \A k \in 1..4 : file[length[w] + k] = Encoded(batch[w])[k]
        <4>1. put[w] = 4 /\ HasFile(w)
          BY DEF Synced, HasFile
        <4>2. /\ Len(file) = length[w] + 4
              /\ \A k \in 1..4 : file[length[w] + k] = Encoded(batch[w])[k]
          BY <4>1 DEF TailInv
        <4>3. length[w] \in Nat
          BY TypesSplit DEF PlaceTypes
        <4> QED BY <4>2, <4>3
      <3> QED BY <3>1 DEF Whole
    <2> QED BY <2>1, <2>2, FileSame, TypesSplit DEF Synced, Goto, PlaceTypes, CountTypes, ReportInv
  <1>5. TailInv'
    <2>1. \A v \in Writers : pc'[v] \in {"idle", "lock", "open"} => put'[v] = 0
      BY TypesSplit DEF Synced, Goto, locks, counters, append, TailInv, HasFile, PlaceTypes
    <2>2. \A v \in Writers : HasFile(v)' =>
              HasFile(v) /\ put'[v] = put[v] /\ length'[v] = length[v] /\ batch'[v] = batch[v]
      BY TypesSplit DEF Synced, Goto, locks, counters, append, HasFile, PlaceTypes
    <2>3. file' = file
      BY DEF Synced
    <2> QED BY <2>1, <2>2, <2>3, TailSame
  <1>6. SeenInv'
    BY FileSame, TypesSplit DEF Synced, Goto, locks, counters, append, PlaceTypes, CountTypes, SeenInv, HasFile
  <1>7. FormInv'
    <2>1. /\ torn' = torn /\ file' = file /\ length' = length
          /\ \A v \in Writers : HasFile(v)' => HasFile(v)
          /\ \A v \in Writers : HalfWritten(v) => HalfWritten(v)'
      BY TypesSplit DEF Synced, Goto, PlaceTypes, HasFile, HalfWritten
    <2> QED BY <2>1, FileSame DEF FormInv
  <1> QED BY <1>1, <1>2, <1>3, <1>4, <1>5, <1>6, <1>7

LEMMA WriteFailsIInv ==
    ASSUME IInv, NEW w \in Writers, WriteFails(w)
    PROVE  IInv'
  <1> USE BoundAssumption, NoneAssumption DEF IInv
  <1>1. TypeOK'
    <2>1. PlaceTypes'
      BY TypesSplit DEF WriteFails, Fault, Goto, locks, counters, append, PlaceTypes, Results
    <2>2. CountTypes'
      BY TypesSplit DEF WriteFails, Fault, Goto, locks, counters, append, CountTypes, Results
    <2>3. UNCHANGED <<file, seen>>
      BY DEF WriteFails
    <2> QED BY <2>1, <2>2, <2>3, TypesKept
  <1>2. LocksInv'
    BY TypesSplit DEF WriteFails, Fault, Goto, locks, counters, append, PlaceTypes, CountTypes, LocksInv, HasFile
  <1>3. BatchInv'
    BY TypesSplit DEF WriteFails, Fault, Goto, locks, counters, append, PlaceTypes, CountTypes, BatchInv, Batches
  <1>4. ReportInv'
    BY FileSame, TypesSplit DEF WriteFails, Fault, Goto, locks, counters, append, PlaceTypes, CountTypes, ReportInv, Batches
  <1>5. TailInv'
    <2>1. \A v \in Writers : pc'[v] \in {"idle", "lock", "open"} => put'[v] = 0
      BY TypesSplit DEF WriteFails, Fault, Goto, locks, counters, append, TailInv, HasFile, PlaceTypes
    <2>2. \A v \in Writers : HasFile(v)' =>
              HasFile(v) /\ put'[v] = put[v] /\ length'[v] = length[v] /\ batch'[v] = batch[v]
      BY TypesSplit DEF WriteFails, Fault, Goto, locks, counters, append, HasFile, PlaceTypes
    <2>3. file' = file
      BY DEF WriteFails
    <2> QED BY <2>1, <2>2, <2>3, TailSame
  <1>6. SeenInv'
    BY FileSame, TypesSplit DEF WriteFails, Fault, Goto, locks, counters, append, PlaceTypes, CountTypes, SeenInv, HasFile
  <1>7. FormInv'
    BY FileSame, TypesSplit DEF WriteFails, Fault, Goto, locks, counters, append, PlaceTypes, CountTypes, FormInv, HasFile, HalfWritten
  <1> QED BY <1>1, <1>2, <1>3, <1>4, <1>5, <1>6, <1>7

LEMMA RollbackFailsIInv ==
    ASSUME IInv, NEW w \in Writers, RollbackFails(w)
    PROVE  IInv'
  <1> USE BoundAssumption, NoneAssumption DEF IInv
  <1>1. TypeOK'
    <2>1. PlaceTypes'
      BY TypesSplit DEF RollbackFails, Fault, Goto, locks, counters, append, PlaceTypes, Results
    <2>2. CountTypes'
      BY TypesSplit DEF RollbackFails, Fault, Goto, locks, counters, append, CountTypes, Results
    <2>3. UNCHANGED <<file, seen>>
      BY DEF RollbackFails
    <2> QED BY <2>1, <2>2, <2>3, TypesKept
  <1>2. LocksInv'
    BY TypesSplit DEF RollbackFails, Fault, Goto, locks, counters, append, PlaceTypes, CountTypes, LocksInv, HasFile
  <1>3. BatchInv'
    BY TypesSplit DEF RollbackFails, Fault, Goto, locks, counters, append, PlaceTypes, CountTypes, BatchInv, Batches
  <1>4. ReportInv'
    BY FileSame, TypesSplit DEF RollbackFails, Fault, Goto, locks, counters, append, PlaceTypes, CountTypes, ReportInv, Batches
  <1>5. TailInv'
    <2>1. \A v \in Writers : pc'[v] \in {"idle", "lock", "open"} => put'[v] = 0
      BY TypesSplit DEF RollbackFails, Fault, Goto, locks, counters, append, TailInv, HasFile, PlaceTypes
    <2>2. \A v \in Writers : HasFile(v)' =>
              HasFile(v) /\ put'[v] = put[v] /\ length'[v] = length[v] /\ batch'[v] = batch[v]
      BY TypesSplit DEF RollbackFails, Fault, Goto, locks, counters, append, HasFile, PlaceTypes
    <2>3. file' = file
      BY DEF RollbackFails
    <2> QED BY <2>1, <2>2, <2>3, TailSame
  <1>6. SeenInv'
    BY FileSame, TypesSplit DEF RollbackFails, Fault, Goto, locks, counters, append, PlaceTypes, CountTypes, SeenInv, HasFile
  <1>7. FormInv'
    BY FileSame, TypesSplit DEF RollbackFails, Fault, Goto, locks, counters, append, PlaceTypes, CountTypes, FormInv, HasFile, HalfWritten
  <1> QED BY <1>1, <1>2, <1>3, <1>4, <1>5, <1>6, <1>7

LEMMA UnlockIInv ==
    ASSUME IInv, NEW w \in Writers, Unlock(w)
    PROVE  IInv'
  <1> USE BoundAssumption, NoneAssumption DEF IInv
  <1>1. TypeOK'
    <2>1. PlaceTypes'
      BY TypesSplit DEF Unlock, Goto, locks, counters, append, PlaceTypes, Results
    <2>2. CountTypes'
      BY TypesSplit DEF Unlock, Goto, locks, counters, append, CountTypes, Results
    <2>3. UNCHANGED <<file, seen>>
      BY DEF Unlock
    <2> QED BY <2>1, <2>2, <2>3, TypesKept
  <1>2. LocksInv'
    BY TypesSplit DEF Unlock, Goto, locks, counters, append, PlaceTypes, CountTypes, LocksInv, HasFile
  <1>3. BatchInv'
    BY TypesSplit DEF Unlock, Goto, locks, counters, append, PlaceTypes, CountTypes, BatchInv, Batches
  <1>4. ReportInv'
    BY FileSame, TypesSplit DEF Unlock, Goto, locks, counters, append, PlaceTypes, CountTypes, ReportInv, Batches
  <1>5. TailInv'
    <2>1. \A v \in Writers : pc'[v] \in {"idle", "lock", "open"} => put'[v] = 0
      BY TypesSplit DEF Unlock, Goto, locks, counters, append, TailInv, HasFile, PlaceTypes
    <2>2. \A v \in Writers : HasFile(v)' =>
              HasFile(v) /\ put'[v] = put[v] /\ length'[v] = length[v] /\ batch'[v] = batch[v]
      BY TypesSplit DEF Unlock, Goto, locks, counters, append, HasFile, PlaceTypes
    <2>3. file' = file
      BY DEF Unlock
    <2> QED BY <2>1, <2>2, <2>3, TailSame
  <1>6. SeenInv'
    BY FileSame, TypesSplit DEF Unlock, Goto, locks, counters, append, PlaceTypes, CountTypes, SeenInv, HasFile
  <1>7. FormInv'
    BY FileSame, TypesSplit DEF Unlock, Goto, locks, counters, append, PlaceTypes, CountTypes, FormInv, HasFile, HalfWritten
  <1> QED BY <1>1, <1>2, <1>3, <1>4, <1>5, <1>6, <1>7

LEMMA CloseIInv ==
    ASSUME IInv, NEW w \in Writers, Close(w)
    PROVE  IInv'
  <1> USE BoundAssumption, NoneAssumption DEF IInv
  <1>1. TypeOK'
    <2>1. PlaceTypes'
      <3>1. batch' \in [Writers -> 0..MaxBatch] /\ put' \in [Writers -> 0..4]
        BY TypesSplit DEF Close, Forget, PlaceTypes
      <3>2. length' \in [Writers -> Nat] /\ result' \in [Writers -> Results]
        BY TypesSplit DEF Close, Forget, PlaceTypes, Results
      <3>3. /\ exclusive' \in Writers \cup {None}
            /\ pc' \in [Writers -> {"idle", "lock", "open", "write", "rollback", "unlock", "close"}]
            /\ exclusive' # None => pc'[exclusive'] \in {"write", "rollback", "unlock", "close"}
        BY TypesSplit DEF Close, Freed, Forget, Goto, PlaceTypes
      <3> QED BY <3>1, <3>2, <3>3, TypesSplit DEF Close, PlaceTypes
    <2>2. CountTypes'
      <3>1. batch[w] \in Batches
        BY TypesSplit DEF Close, CountTypes, BatchInv, Batches
      <3>2. outcome' \in [Batches -> Results \cup {None}]
        BY <3>1, TypesSplit DEF Close, PlaceTypes, CountTypes
      <3> QED BY <3>2, TypesSplit DEF Close, counters, CountTypes
    <2>3. UNCHANGED <<file, seen>>
      BY DEF Close
    <2> QED BY <2>1, <2>2, <2>3, TypesKept
  <1>2. LocksInv'
    BY DEF Close, Freed, Forget, Goto, locks, counters, append, TypeOK, LocksInv, HasFile
  <1>3. BatchInv'
    BY DEF Close, Freed, Forget, Goto, locks, counters, append, TypeOK, BatchInv, Batches
  <1>4. ReportInv'
    BY FileSame DEF Close, Freed, Forget, Goto, locks, counters, append, TypeOK, ReportInv, Batches
  <1>5. TailInv'
    BY DEF Close, Freed, Forget, Goto, locks, counters, append, TypeOK, TailInv, HasFile, Encoded
  <1>6. SeenInv'
    BY FileSame DEF Close, Freed, Forget, Goto, locks, counters, append, TypeOK, SeenInv, HasFile
  <1>7. FormInv'
    BY FileSame DEF Close, Freed, Forget, Goto, locks, counters, append, TypeOK, FormInv, HasFile, HalfWritten
  <1> QED BY <1>1, <1>2, <1>3, <1>4, <1>5, <1>6, <1>7

LEMMA DieIInv ==
    ASSUME IInv, NEW w \in Writers, Die(w)
    PROVE  IInv'
  <1> USE BoundAssumption, NoneAssumption DEF IInv
  <1>1. TypeOK'
    <2>1. batch[w] \in Batches
      BY DEF Die, TypeOK, BatchInv, Batches
    <2>2. outcome' \in [Batches -> Results \cup {None}]
      BY <2>1 DEF Die, TypeOK, Results
    <2>3. exclusive' # None => pc'[exclusive'] \in {"write", "rollback", "unlock", "close"}
      BY DEF Die, Forget, Goto, TypeOK
    <2>4. torn' \in BOOLEAN
      BY DEF Die, TypeOK
    <2>5. link' \in Writers \cup {None} /\ exclusive' \in Writers \cup {None}
      BY DEF Die, TypeOK
    <2>6. pc' \in [Writers -> {"idle", "lock", "open", "write", "rollback", "unlock", "close"}]
      BY DEF Die, Forget, Goto, TypeOK
    <2>7. /\ batch' \in [Writers -> 0..MaxBatch] /\ put' \in [Writers -> 0..4]
          /\ length' \in [Writers -> Nat] /\ result' \in [Writers -> Results]
      BY DEF Die, Forget, TypeOK, Results
    <2>8. outcome' \in [Batches -> Results \cup {None}] /\ deaths' \in 0..MaxDeaths
      BY <2>2 DEF Die, TypeOK, Results
    <2> QED BY <2>3, <2>4, <2>5, <2>6, <2>7, <2>8 DEF Die, TypeOK
  <1>2. LocksInv'
    BY DEF Die, Forget, Goto, locks, counters, append, TypeOK, LocksInv, HasFile
  <1>3. BatchInv'
    BY DEF Die, Forget, Goto, locks, counters, append, TypeOK, BatchInv, Batches
  <1>4. ReportInv'
    BY FileSame DEF Die, Forget, Goto, locks, counters, append, TypeOK, ReportInv, Batches
  <1>5. TailInv'
    <2> SUFFICES ASSUME NEW v \in Writers
                 PROVE  /\ pc'[v] \in {"idle", "lock", "open"} => put'[v] = 0
                        /\ HasFile(v)' =>
                             /\ Len(file') = length'[v] + put'[v]
                             /\ \A i \in 1..put'[v] :
                                  file'[length'[v] + i] = Encoded(batch'[v])[i]
                             /\ \A i \in 1..length'[v] : file'[i].batch # batch'[v]
      BY DEF TailInv, Encoded
    <2>1. CASE v = w
      BY <2>1 DEF Die, Forget, Goto, TypeOK, HasFile
    <2>2. CASE v # w
      <3>1. /\ pc'[v] = pc[v] /\ put'[v] = put[v] /\ length'[v] = length[v]
            /\ batch'[v] = batch[v] /\ file' = file
        BY <2>2 DEF Die, Forget, Goto, TypeOK
      <3> QED BY <3>1 DEF TailInv, HasFile
    <2> QED BY <2>1, <2>2
  <1>6. SeenInv'
    BY FileSame DEF Die, Forget, Goto, locks, counters, append, TypeOK, SeenInv, HasFile
  <1>7. FormInv'
    BY FileSame DEF Die, Forget, Goto, locks, counters, append, TypeOK, FormInv, HasFile, HalfWritten
  <1> QED BY <1>1, <1>2, <1>3, <1>4, <1>5, <1>6, <1>7

---------------------------------------------------------------------------
(* The actions that change the file.                                       *)

LEMMA Offset ==
    ASSUME NEW l \in Nat, NEW p \in 0..4, NEW n \in p + 1..4, NEW i \in l + p + 1..l + n
    PROVE  i - l \in 1..n /\ i - l \in 1..4 /\ i = l + (i - l)
  OBVIOUS

LEMMA WholeBefore ==
    ASSUME NEW l \in Nat, NEW k \in 1..4, l % 4 = 0
    PROVE  (l + k) % 4 = k % 4 /\ (l + k) % 2 = k % 2
  OBVIOUS

LEMMA PiecesAdded ==
    ASSUME NEW S, NEW f \in Seq(S), NEW e \in Seq(S),
           NEW p \in 0..Len(e), NEW n \in p + 1..Len(e)
    PROVE  /\ f \o SubSeq(e, p + 1, n) \in Seq(S)
           /\ Len(f \o SubSeq(e, p + 1, n)) = Len(f) + n - p
           /\ \A i \in 1..Len(f) : (f \o SubSeq(e, p + 1, n))[i] = f[i]
           /\ \A i \in 1..n - p : (f \o SubSeq(e, p + 1, n))[Len(f) + i] = e[p + i]
  BY SMT

LEMMA TailAdded ==
    ASSUME NEW S, NEW f \in Seq(S), NEW e \in Seq(S),
           NEW p \in 0..Len(e), NEW n \in p + 1..Len(e), NEW l \in Nat
    PROVE  Len(f) = l + p /\ (\A k \in 1..p : f[l + k] = e[k]) =>
               \A k \in 1..n : (f \o SubSeq(e, p + 1, n))[l + k] = e[k]
  <1> DEFINE g == f \o SubSeq(e, p + 1, n)
  <1> SUFFICES ASSUME Len(f) = l + p, \A k \in 1..p : f[l + k] = e[k], NEW k \in 1..n
               PROVE  g[l + k] = e[k]
    OBVIOUS
  <1>1. \A i \in 1..Len(f) : g[i] = f[i]
    BY PiecesAdded
  <1>2. \A i \in 1..n - p : g[Len(f) + i] = e[p + i]
    BY PiecesAdded
  <1> HIDE DEF g
  <1>3. CASE k <= p
    <2>1. l + k \in 1..Len(f) /\ k \in 1..p
      BY <1>3
    <2> QED BY <1>1, <2>1
  <1>4. CASE k > p
    <2>1. k - p \in 1..n - p /\ Len(f) + (k - p) = l + k /\ p + (k - p) = k
      BY <1>4
    <2> QED BY <1>2, <2>1
  <1> QED BY <1>3, <1>4

(* A flush adds pieces of the batch behind those that are there.           *)
LEMMA PutFile ==
    ASSUME IInv, NEW w \in Writers, Put(w)
    PROVE  /\ batch[w] \in Batches /\ exclusive = w
           /\ put'[w] \in put[w] + 1..4 /\ put' = [put EXCEPT ![w] = put'[w]]
           /\ file' \in Seq(Pieces) /\ Len(file') = length[w] + put'[w]
           /\ \A i \in 1..Len(file) : file'[i] = file[i]
           /\ \A k \in 1..put'[w] : file'[length[w] + k] = Encoded(batch[w])[k]
           /\ \A i \in Len(file) + 1..Len(file') : file'[i].batch = batch[w]
  <1>a. TypeOK /\ LocksInv /\ BatchInv /\ TailInv /\ pc[w] = "write"
    BY DEF IInv, Put
  <1>b. batch[w] \in Batches
    BY <1>a, BoundAssumption DEF TypeOK, BatchInv, Batches
  <1>c. put[w] \in 0..4 /\ length[w] \in Nat /\ file \in Seq(Pieces)
    BY <1>a DEF TypeOK
  <1>d. exclusive = w
    BY <1>a DEF LocksInv, HasFile
  <1>e. Len(file) = length[w] + put[w] /\ \A k \in 1..put[w] : file[length[w] + k] = Encoded(batch[w])[k]
    BY <1>a DEF TailInv, HasFile
  <1>1. batch[w] \in Batches /\ exclusive = w /\ Len(file) = length[w] + put[w]
        /\ put[w] \in 0..4 /\ length[w] \in Nat /\ file \in Seq(Pieces)
        /\ \A k \in 1..put[w] : file[length[w] + k] = Encoded(batch[w])[k]
    BY <1>b, <1>c, <1>d, <1>e
  <1>2. PICK n \in put[w] + 1..4 : /\ file' = file \o SubSeq(Encoded(batch[w]), put[w] + 1, n)
                             /\ put' = [put EXCEPT ![w] = n]
    BY DEF Put
  <1>3. Encoded(batch[w]) \in Seq(Pieces) /\ Len(Encoded(batch[w])) = 4
    BY <1>b, EncodedPieces
  <1>4. put'[w] = n
    BY <1>a, <1>2 DEF TypeOK
  <1>5. /\ file' \in Seq(Pieces) /\ Len(file') = length[w] + n
        /\ \A i \in 1..Len(file) : file'[i] = file[i]
        /\ \A k \in 1..n : file'[length[w] + k] = Encoded(batch[w])[k]
    <2>1. PICK e, l, p : e = Encoded(batch[w]) /\ l = length[w] /\ p = put[w]
      OBVIOUS
    <2>2. /\ file \in Seq(Pieces) /\ e \in Seq(Pieces) /\ l \in Nat
          /\ p \in 0..Len(e) /\ n \in p + 1..Len(e)
      BY <1>3, <1>c, <2>1
    <2>3. Len(file) = l + p /\ \A k \in 1..p : file[l + k] = e[k]
      BY <1>e, <2>1
    <2>4. /\ file \o SubSeq(e, p + 1, n) \in Seq(Pieces)
          /\ Len(file \o SubSeq(e, p + 1, n)) = Len(file) + n - p
          /\ \A i \in 1..Len(file) : (file \o SubSeq(e, p + 1, n))[i] = file[i]
      BY <2>2, PiecesAdded
    <2>5. \A k \in 1..n : (file \o SubSeq(e, p + 1, n))[l + k] = e[k]
      BY <2>2, <2>3, TailAdded
    <2>6. Len(file) + n - p = l + n
      BY <2>2, <2>3
    <2> QED BY <1>2, <2>1, <2>4, <2>5, <2>6, Zenon
  <1>7. ASSUME NEW i \in Len(file) + 1..Len(file') PROVE file'[i].batch = batch[w]
    <2>1. /\ i - length[w] \in 1..n /\ i - length[w] \in 1..4
          /\ i = length[w] + (i - length[w])
      <3>1. i \in length[w] + put[w] + 1..length[w] + n
        BY <1>5, <1>e
      <3> QED BY <1>c, <3>1, Offset, Zenon
    <2>2. file'[i] = Encoded(batch[w])[i - length[w]]
      BY <1>5, <2>1
    <2> QED BY <1>b, <2>1, <2>2, EncodedPieces
  <1> QED BY <1>b, <1>d, <1>2, <1>4, <1>5, <1>7

LEMMA PutIInv ==
    ASSUME IInv, NEW w \in Writers, Put(w)
    PROVE  IInv'
  <1>0. /\ pc[w] = "write"
        /\ UNCHANGED <<link, exclusive, shared, pc, batch, length, result, outcome, seen,
                       torn, begun, faults, deaths, steals>>
    BY DEF Put, locks, counters
  <1>a. TypeOK /\ LocksInv /\ BatchInv /\ ReportInv /\ TailInv /\ SeenInv /\ FormInv
    BY DEF IInv
  <1>b. batch[w] \in Batches /\ exclusive = w
    BY PutFile
  <1>c. put'[w] \in put[w] + 1..4 /\ put' = [put EXCEPT ![w] = put'[w]]
    BY PutFile
  <1>d. file' \in Seq(Pieces) /\ Len(file') = length[w] + put'[w]
    BY PutFile
  <1>e. \A i \in 1..Len(file) : file'[i] = file[i]
    BY PutFile
  <1>f. \A k \in 1..put'[w] : file'[length[w] + k] = Encoded(batch[w])[k]
    BY PutFile
  <1>g. \A i \in Len(file) + 1..Len(file') : file'[i].batch = batch[w]
    BY PutFile
  <1>h. length[w] \in Nat /\ put[w] \in 0..4 /\ file \in Seq(Pieces) /\ Len(file) \in Nat
    BY <1>a DEF TypeOK
  <1>i. Len(file) = length[w] + put[w]
    BY <1>0, <1>a DEF TailInv, HasFile
  <1>j. put'[w] \in 1..4 /\ Len(file') \in Nat /\ Len(file) <= Len(file')
    BY <1>c, <1>d, <1>h, <1>i
  <1>1. TypeOK'
    <2>1. put' \in [Writers -> 0..4]
      <3>1. PICK n : n = put'[w]
        OBVIOUS
      <3>2. n \in 0..4 /\ put' = [put EXCEPT ![w] = n] /\ put \in [Writers -> 0..4]
        BY <1>a, <1>c, <1>j, <3>1 DEF TypeOK
      <3> QED BY <3>2
    <2> QED BY <1>0, <1>a, <1>d, <2>1 DEF TypeOK
  <1>2. LocksInv'
    BY <1>0, <1>a DEF LocksInv, HasFile
  <1>3. BatchInv'
    <2>1. batch[w] <= begun
      BY <1>0, <1>a DEF TypeOK, BatchInv
    <2>2. ASSUME NEW i \in 1..Len(file')
          PROVE  file'[i].batch <= begun
      <3>1. CASE i \in 1..Len(file)
        <4>1. file[i].batch <= begun
          BY <1>a, <3>1 DEF BatchInv
        <4> QED BY <1>e, <3>1, <4>1
      <3>2. CASE i \in Len(file) + 1..Len(file')
        BY <1>g, <2>1, <3>2
      <3> QED BY <1>h, <1>j, <3>1, <3>2
    <2> QED BY <1>0, <1>a, <2>2 DEF BatchInv
  <1>4. ReportInv'
    <2>1. ASSUME NEW b, b # batch[w], Absent(b)
          PROVE  Absent(b)'
      <3> SUFFICES ASSUME NEW i \in 1..Len(file') PROVE file'[i].batch # b
        BY DEF Absent
      <3>1. CASE i \in 1..Len(file)
        <4>1. file[i].batch # b
          BY <2>1, <3>1 DEF Absent
        <4> QED BY <1>e, <3>1, <4>1
      <3>2. CASE i \in Len(file) + 1..Len(file')
        BY <1>g, <2>1, <3>2
      <3> QED BY <1>h, <1>j, <3>1, <3>2
    <2>2. ASSUME NEW b, Whole(b)
          PROVE  Whole(b)'
      BY <1>d, <1>e, <1>h, <1>j, <2>2, GrowingKeepsWhole
    <2>3. outcome[batch[w]] = None
      BY <1>0, <1>a DEF BatchInv
    <2>4. \A v \in Writers : pc[v] \in {"lock", "open", "unlock", "close"} => batch[v] # batch[w]
      BY <1>0, <1>a DEF BatchInv
    <2> QED BY <1>0, <1>a, NoneAssumption, <2>1, <2>2, <2>3, <2>4 DEF ReportInv, Results
  <1>5. TailInv'
    <2>1. ASSUME NEW v \in Writers, HasFile(v)'
          PROVE  v = w
      BY <1>0, <1>a, <1>b, <2>1 DEF HasFile, LocksInv
    <2>2. \A v \in Writers : pc'[v] \in {"idle", "lock", "open"} => put'[v] = 0
      BY <1>0, <1>a, <1>c DEF TypeOK, TailInv
    <2>3. ASSUME NEW i \in 1..length[w] PROVE file'[i].batch # batch[w]
      <3>1. file[i].batch # batch[w]
        BY <1>0, <1>a DEF TailInv, HasFile
      <3>2. i \in 1..Len(file)
        BY <1>h, <1>i
      <3> QED BY <1>e, <3>1, <3>2
    <2>4. /\ Len(file') = length'[w] + put'[w]
          /\ \A k \in 1..put'[w] : file'[length'[w] + k] = Encoded(batch'[w])[k]
          /\ \A i \in 1..length'[w] : file'[i].batch # batch'[w]
      BY <1>0, <1>d, <1>f, <2>3
    <2> QED BY <2>1, <2>2, <2>4 DEF TailInv, Encoded
  <1>6. SeenInv'
    <2>1. \A j \in Nat : j > 0 /\ 2*j <= Len(file) => (WholeLine(j) <=> WholeLine(j)')
      <3>1. PICK n \in Nat : n = Len(file)
        BY <1>h
      <3>2. /\ file \in Seq(Pieces) /\ file' \in Seq(Pieces)
            /\ n <= Len(file) /\ n <= Len(file')
            /\ \A i \in 1..n : file'[i] = file[i]
        BY <1>d, <1>e, <1>h, <1>j, <3>1
      <3>3. \A j \in Nat : j > 0 /\ 2*j <= n => (WholeLine(j) <=> WholeLine(j)')
        BY <3>2, BeginningStays
      <3> QED BY <3>1, <3>3
    <2> SUFFICES ASSUME NEW r \in Readers
                 PROVE  /\ 2 * Len(seen[r]) <= Len(file')
                        /\ \A j \in 1..Len(seen[r]) : WholeLine(j)' /\ seen[r][j] = file'[2*j]
                        /\ \A v \in Writers : HasFile(v) => 2 * Len(seen[r]) <= length[v]
      BY <1>0 DEF SeenInv, HasFile
    <2>2. Len(seen[r]) \in Nat /\ 2 * Len(seen[r]) <= Len(file)
      BY <1>a DEF TypeOK, SeenInv
    <2>3. 2 * Len(seen[r]) <= Len(file')
      BY <1>h, <1>j, <2>2
    <2>4. ASSUME NEW j \in 1..Len(seen[r])
          PROVE  WholeLine(j)' /\ seen[r][j] = file'[2*j]
      <3>1. 2*j \in 1..Len(file) /\ j \in Nat /\ j > 0 /\ 2*j <= Len(file)
        BY <1>h, <2>2
      <3>2. WholeLine(j) /\ seen[r][j] = file[2*j]
        BY <1>a DEF SeenInv
      <3> QED BY <1>e, <2>1, <3>1, <3>2
    <2> QED BY <1>a, <2>3, <2>4 DEF SeenInv
  <1>7. FormInv'
    <2> SUFFICES ASSUME ~torn
                 PROVE  /\ \A i \in 1..Len(file') : Formed(i)'
                        /\ \A v \in Writers : HasFile(v) => length[v] % 4 = 0
                        /\ (\A v \in Writers : ~HalfWritten(v)') => Len(file') % 4 = 0
      BY <1>0 DEF FormInv, HasFile
    <2>1. length[w] % 4 = 0
      BY <1>0, <1>a DEF FormInv, HasFile
    <2>2. ASSUME NEW i \in 1..Len(file')
          PROVE  Formed(i)'
      <3>1. CASE i \in 1..Len(file)
        <4>1. Formed(i)
          BY <1>a, <3>1 DEF FormInv
        <4> QED BY <1>d, <1>e, <1>h, <1>j, <3>1, <4>1, BeginningStays
      <3>2. CASE i \in Len(file) + 1..Len(file')
        <4>1. PICK k \in 1..put'[w] : i = length[w] + k
          <5>1. i - length[w] \in 1..put'[w] /\ i = length[w] + (i - length[w])
            <6>1. i \in length[w] + put[w] + 1..length[w] + put'[w]
              BY <1>d, <1>i, <3>2
            <6> QED BY <1>c, <1>h, <6>1, Offset
          <5> QED BY <5>1
        <4>2. k \in 1..4 /\ (k # 1 => k - 1 \in 1..put'[w] /\ k - 1 \in 1..4
                                      /\ i - 1 = length[w] + (k - 1))
          <5>1. PICK m, n : m = length[w] /\ n = put'[w]
            OBVIOUS
          <5>2. m \in Nat /\ n \in 1..4 /\ k \in 1..n /\ i = m + k
            BY <1>h, <1>j, <4>1, <5>1
          <5>3. k \in 1..4 /\ (k # 1 => k - 1 \in 1..n /\ k - 1 \in 1..4 /\ i - 1 = m + (k - 1))
            BY <5>2
          <5> QED BY <5>1, <5>3
        <4>3. file'[i] = Encoded(batch[w])[k] /\ (k # 1 => file'[i - 1] = Encoded(batch[w])[k - 1])
          BY <1>f, <4>1, <4>2
        <4>4. i % 4 = k % 4 /\ i % 2 = k % 2
          BY <1>h, <2>1, <4>1, <4>2, WholeBefore
        <4>5. \A m \in 1..4 : /\ Encoded(batch[w])[m].batch = batch[w]
                              /\ Encoded(batch[w])[m].record = IF m \in {1, 2} THEN 1 ELSE 2
                              /\ Encoded(batch[w])[m].ends <=> m \in {2, 4}
          BY <1>b, EncodedPieces
        <4>6. file'[i].batch = batch[w] /\ (k # 1 => file'[i - 1].batch = batch[w])
          BY <4>2, <4>3, <4>5
        <4>7. /\ file'[i].record = IF k \in {1, 2} THEN 1 ELSE 2
              /\ file'[i].ends <=> k \in {2, 4}
          BY <4>2, <4>3, <4>5
        <4>8. /\ i % 4 \in {1, 2} <=> k \in {1, 2}
              /\ i % 2 = 0 <=> k \in {2, 4}
              /\ i % 4 # 1 => k # 1
          BY <4>2, <4>4
        <4> QED BY <4>6, <4>7, <4>8 DEF Formed
      <3> QED BY <1>h, <1>j, <3>1, <3>2
    <2>3. ASSUME \A v \in Writers : ~HalfWritten(v)'
          PROVE  Len(file') % 4 = 0
      <3>1. put'[w] = 4
        BY <1>0, <1>j, <2>3 DEF HalfWritten
      <3> QED BY <1>d, <1>h, <2>1, <3>1
    <2>4. \A v \in Writers : HasFile(v) => length[v] % 4 = 0
      BY <1>a DEF FormInv
    <2> QED BY <2>2, <2>3, <2>4
  <1> QED BY <1>1, <1>2, <1>3, <1>4, <1>5, <1>6, <1>7 DEF IInv

(* A rollback cuts the file to the length it had at the open.              *)
LEMMA MinOfTwo ==
    ASSUME NEW a \in Nat, NEW c \in Nat, a <= c
    PROVE  Min({a, c}) = a
  BY DEF Min

LEMMA SeqCut ==
    ASSUME NEW S, NEW f \in Seq(S), NEW n \in 0..Len(f)
    PROVE  /\ SubSeq(f, 1, n) \in Seq(S) /\ Len(SubSeq(f, 1, n)) = n
           /\ \A i \in 1..n : SubSeq(f, 1, n)[i] = f[i]
  OBVIOUS

LEMMA RollbackFile ==
    ASSUME IInv, NEW w \in Writers, Rollback(w)
    PROVE  /\ batch[w] \in Batches /\ exclusive = w
           /\ length[w] \in 0..Len(file)
           /\ file' \in Seq(Pieces) /\ Len(file') = length[w]
           /\ \A i \in 1..length[w] : file'[i] = file[i]
           /\ \A i \in length[w] + 1..Len(file) : file[i].batch = batch[w]
  <1>a. TypeOK /\ LocksInv /\ BatchInv /\ TailInv /\ pc[w] = "rollback"
    BY DEF IInv, Rollback
  <1>b. batch[w] \in Batches
    BY <1>a, BoundAssumption DEF TypeOK, BatchInv, Batches
  <1>c. put[w] \in 0..4 /\ length[w] \in Nat /\ file \in Seq(Pieces) /\ Len(file) \in Nat
    BY <1>a DEF TypeOK
  <1>d. exclusive = w
    BY <1>a DEF LocksInv, HasFile
  <1>e. Len(file) = length[w] + put[w] /\ \A k \in 1..put[w] : file[length[w] + k] = Encoded(batch[w])[k]
    BY <1>a DEF TailInv, HasFile
  <1>f. length[w] \in 0..Len(file) /\ length[w] <= Len(file)
    BY <1>c, <1>e
  <1>1. file' = SubSeq(file, 1, length[w])
    BY <1>c, <1>f, MinOfTwo DEF Rollback, RolledBack
  <1>2. /\ file' \in Seq(Pieces) /\ Len(file') = length[w]
        /\ \A i \in 1..length[w] : file'[i] = file[i]
    BY <1>1, <1>c, <1>f, SeqCut
  <1>3. ASSUME NEW i \in length[w] + 1..Len(file)
        PROVE  file[i].batch = batch[w]
    <2>1. PICK k \in 1..put[w] : i = length[w] + k
      <3>1. i - length[w] \in 1..put[w] /\ i = length[w] + (i - length[w])
        BY <1>c, <1>e
      <3> QED BY <3>1
    <2>2. k \in 1..4 /\ file[i] = Encoded(batch[w])[k]
      BY <1>c, <1>e, <2>1
    <2>3. \A m \in 1..4 : Encoded(batch[w])[m].batch = batch[w]
      BY <1>b, EncodedPieces
    <2> QED BY <2>2, <2>3
  <1> QED BY <1>b, <1>d, <1>f, <1>2, <1>3

LEMMA RollbackIInv ==
    ASSUME IInv, NEW w \in Writers, Rollback(w)
    PROVE  IInv'
  <1>0. /\ pc[w] = "rollback" /\ pc' = [pc EXCEPT ![w] = "unlock"]
        /\ result' = [result EXCEPT ![w] = "refused"]
        /\ UNCHANGED <<link, exclusive, shared, put, batch, length, outcome, seen,
                       torn, begun, faults, deaths, steals>>
    BY DEF Rollback, Goto, locks, counters
  <1>a. TypeOK /\ LocksInv /\ BatchInv /\ ReportInv /\ TailInv /\ SeenInv /\ FormInv
    BY DEF IInv
  <1>b. batch[w] \in Batches /\ exclusive = w
    BY RollbackFile
  <1>c. length[w] \in 0..Len(file) /\ length[w] \in Nat /\ length[w] <= Len(file)
        /\ file \in Seq(Pieces) /\ Len(file) \in Nat
    BY RollbackFile, <1>a DEF TypeOK
  <1>d. file' \in Seq(Pieces) /\ Len(file') = length[w]
    BY RollbackFile
  <1>e. \A i \in 1..length[w] : file'[i] = file[i]
    BY RollbackFile
  <1>f. \A i \in length[w] + 1..Len(file) : file[i].batch = batch[w]
    BY RollbackFile
  <1>g. \A i \in 1..length[w] : i \in 1..Len(file)
    BY <1>c
  <1>h. \A v \in Writers : HasFile(v) => v = w
    BY <1>a, <1>b DEF LocksInv
  <1>k. \A v \in Writers : ~HasFile(v)'
    BY <1>0, <1>a, <1>h DEF TypeOK, HasFile
  <1>1. TypeOK'
    BY <1>0, <1>a, <1>d DEF TypeOK, Results
  <1>2. LocksInv'
    BY <1>0, <1>a, <1>k DEF LocksInv
  <1>3. BatchInv'
    <2>1. \A i \in 1..Len(file') : file'[i].batch <= begun
      BY <1>a, <1>d, <1>e, <1>g DEF BatchInv
    <2> QED BY <1>0, <1>a, <2>1 DEF BatchInv, TypeOK
  <1>4. ReportInv'
    <2>1. ASSUME NEW b, Absent(b)
          PROVE  Absent(b)'
      BY <1>d, <1>e, <1>g, <2>1 DEF Absent
    <2>2. Absent(batch[w])'
      BY <1>0, <1>a, <1>d, <1>e DEF Absent, TailInv, HasFile
    <2>3. ASSUME NEW b \in Batches, b # batch[w], Whole(b)
          PROVE  Whole(b)'
      <3>1. PICK i \in 0..Len(file) : i + 4 <= Len(file) /\ \A k \in 1..4 : file[i + k] = Encoded(b)[k]
        BY <2>3 DEF Whole
      <3>2. i + 4 \in 1..Len(file) /\ file[i + 4].batch = b
        <4>1. file[i + 4] = Encoded(b)[4] /\ Encoded(b)[4].batch = b
          BY <3>1, EncodedPieces
        <4> QED BY <1>c, <3>1, <4>1
      <3>3. i + 4 <= length[w]
        <4> SUFFICES ASSUME i + 4 \in length[w] + 1..Len(file) PROVE FALSE
          BY <1>c, <3>2
        <4> QED BY <1>f, <2>3, <3>2
      <3>4. i \in 0..Len(file') /\ i + 4 <= Len(file')
        BY <1>c, <1>d, <3>3
      <3>5. ASSUME NEW k \in 1..4
            PROVE  file'[i + k] = Encoded(b)[k]
        <4>1. i + k \in 1..length[w]
          BY <1>c, <3>3
        <4> QED BY <1>e, <3>1, <4>1
      <3> QED BY <3>4, <3>5 DEF Whole, Encoded
    <2>4. outcome[batch[w]] = None /\ \A v \in Writers : pc[v] # "idle" /\ v # w => batch[v] # batch[w]
      BY <1>0, <1>a DEF BatchInv
    <2> SUFFICES ASSUME NEW b \in Batches
                 PROVE  /\ outcome[b] = "refused" => Absent(b)'
                        /\ outcome[b] = "done" => Whole(b)'
                        /\ \A v \in Writers : batch[v] = b =>
                               /\ pc'[v] \in {"lock", "open"} => Absent(b)'
                               /\ pc'[v] \in {"unlock", "close"} =>
                                      /\ result'[v] = "refused" => Absent(b)'
                                      /\ result'[v] = "done" => Whole(b)'
      BY <1>0 DEF ReportInv
    <2>5. outcome[b] = "refused" => Absent(b)'
      BY <1>a, <2>1 DEF ReportInv
    <2>6. outcome[b] = "done" => Whole(b)'
      BY <1>a, <2>3, <2>4, NoneAssumption DEF ReportInv, Results
    <2>7. ASSUME NEW v \in Writers, batch[v] = b, v = w
          PROVE  /\ pc'[v] = "unlock" /\ result'[v] = "refused" /\ Absent(b)'
      BY <1>0, <1>a, <2>2, <2>7 DEF TypeOK
    <2>8. ASSUME NEW v \in Writers, batch[v] = b, v # w
          PROVE  /\ pc'[v] \in {"lock", "open"} => Absent(b)'
                 /\ pc'[v] \in {"unlock", "close"} =>
                        /\ result'[v] = "refused" => Absent(b)'
                        /\ result'[v] = "done" => Whole(b)'
      <3>1. pc'[v] = pc[v] /\ result'[v] = result[v]
        BY <1>0, <1>a, <2>8 DEF TypeOK
      <3> QED BY <1>a, <2>1, <2>3, <2>4, <2>8, <3>1 DEF ReportInv
    <2> QED BY <2>5, <2>6, <2>7, <2>8
  <1>5. TailInv'
    <2>1. \A v \in Writers : pc'[v] \in {"idle", "lock", "open"} => put'[v] = 0
      BY <1>0, <1>a DEF TypeOK, TailInv
    <2> QED BY <1>k, <2>1 DEF TailInv
  <1>6. SeenInv'
    <2>1. \A j \in Nat : j > 0 /\ 2*j <= length[w] => (WholeLine(j) <=> WholeLine(j)')
      BY <1>c, <1>d, <1>e, BeginningStays
    <2> SUFFICES ASSUME NEW r \in Readers
                 PROVE  /\ 2 * Len(seen[r]) <= Len(file')
                        /\ \A j \in 1..Len(seen[r]) : WholeLine(j)' /\ seen[r][j] = file'[2*j]
      BY <1>0, <1>k DEF SeenInv
    <2>2. Len(seen[r]) \in Nat /\ 2 * Len(seen[r]) <= length[w]
      BY <1>0, <1>a DEF TypeOK, SeenInv, HasFile
    <2>3. ASSUME NEW j \in 1..Len(seen[r])
          PROVE  WholeLine(j)' /\ seen[r][j] = file'[2*j]
      <3>1. 2*j \in 1..length[w] /\ j \in Nat /\ j > 0 /\ 2*j <= length[w]
        BY <1>c, <2>2
      <3>2. WholeLine(j) /\ seen[r][j] = file[2*j]
        BY <1>a DEF SeenInv
      <3> QED BY <1>e, <2>1, <3>1, <3>2
    <2> QED BY <1>d, <2>2, <2>3
  <1>7. FormInv'
    <2> SUFFICES ASSUME ~torn
                 PROVE  /\ \A i \in 1..Len(file') : Formed(i)'
                        /\ Len(file') % 4 = 0
      BY <1>0, <1>k DEF FormInv
    <2>1. length[w] % 4 = 0
      BY <1>0, <1>a DEF FormInv, HasFile
    <2>2. \A i \in 1..length[w] : Formed(i)
      BY <1>a, <1>g DEF FormInv
    <2>3. \A i \in 1..length[w] : Formed(i)'
      BY <1>c, <1>d, <1>e, <2>2, BeginningStays
    <2> QED BY <1>d, <2>1, <2>3
  <1> QED BY <1>1, <1>2, <1>3, <1>4, <1>5, <1>6, <1>7 DEF IInv

---------------------------------------------------------------------------
(* What a replay reads.                                                    *)

(* The records of the sound lines form a sequence.                         *)
LEMMA RecordsRead ==
    ASSUME TypeOK
    PROVE  \E N \in Nat :
               /\ SoundLines = 1..N /\ 2*N <= Len(file)
               /\ Records \in Seq(Pieces) /\ Len(Records) = N
               /\ \A j \in 1..N : WholeLine(j) /\ Records[j] = file[2*j]
  <1>1. file \in Seq(Pieces) /\ Len(file) \in Nat
    BY DEF TypeOK
  <1> DEFINE Over == {n \in Nat : n + 1 \notin SoundLines}
  <1>2. Len(file) \in Over
    BY <1>1 DEF SoundLines
  <1>3. PICK N \in Over : \A m \in Over : N <= m
    <2>1. Over \in SUBSET Nat /\ Over # {}
      BY <1>2
    <2> QED BY <2>1, LeastExists
  <1>4. ASSUME NEW j \in 1..N
        PROVE  j \in SoundLines
    <2>1. j - 1 \in Nat /\ j - 1 \notin Over
      BY <1>3
    <2> QED BY <2>1
  <1>5. ASSUME NEW j \in SoundLines, j \notin 1..N
        PROVE  FALSE
    <2>1. /\ j \in 1..Len(file) /\ 2*j <= Len(file)
          /\ \A i \in 1..j : WholeLine(i)
      BY <1>5 DEF SoundLines
    <2>2. N + 1 \in 1..Len(file) /\ 2*(N + 1) <= Len(file) /\ 1..N + 1 \subseteq 1..j
      BY <1>1, <1>3, <1>5, <2>1
    <2>3. N + 1 \in SoundLines
      BY <2>1, <2>2 DEF SoundLines
    <2> QED BY <1>3, <2>3
  <1>6. SoundLines = 1..N
    BY <1>4, <1>5
  <1>7. 2*N <= Len(file)
    <2>1. CASE N = 0
      BY <1>1, <2>1
    <2>2. CASE N # 0
      <3>1. N \in SoundLines
        BY <1>3, <1>4, <2>2
      <3> QED BY <3>1 DEF SoundLines
    <2> QED BY <2>1, <2>2
  <1>8. ASSUME NEW j \in 1..N
        PROVE  WholeLine(j) /\ file[2*j] \in Pieces
    <2>1. j \in SoundLines
      BY <1>4
    <2>2. WholeLine(j)
      BY <2>1 DEF SoundLines
    <2>3. 2*j \in 1..Len(file)
      BY <1>1, <1>3, <1>7
    <2> QED BY <1>1, <2>2, <2>3
  <1>9. Records = [j \in 1..N |-> file[2*j]]
    BY <1>6 DEF Records
  <1>10. Records \in Seq(Pieces) /\ Len(Records) = N
    BY <1>3, <1>8, <1>9
  <1> QED BY <1>3, <1>6, <1>7, <1>8, <1>9, <1>10

LEMMA ReadOpenIInv ==
    ASSUME IInv, NEW r \in Readers, ReadOpen(r)
    PROVE  IInv'
  <1> USE NoneAssumption DEF IInv, ReadOpen, append, counters
  <1>1. TypeOK'
    BY DEF TypeOK
  <1>2. LocksInv' /\ BatchInv' /\ TailInv'
    BY DEF MayShare, LocksInv, BatchInv, TailInv, HasFile, Encoded
  <1>3. ReportInv'
    BY FileSame DEF ReportInv
  <1>4. SeenInv' /\ FormInv'
    BY FileSame DEF SeenInv, FormInv, HasFile, HalfWritten
  <1> QED BY <1>1, <1>2, <1>3, <1>4

LEMMA ReadCloseIInv ==
    ASSUME IInv, NEW r \in Readers, ReadClose(r)
    PROVE  IInv'
  <1>a. TypeOK /\ LocksInv /\ BatchInv /\ ReportInv /\ TailInv /\ SeenInv /\ FormInv
    BY DEF IInv
  <1>0. /\ r \in shared /\ shared' = shared \ {r}
        /\ seen' = [seen EXCEPT ![r] = @ \o SubSeq(Records, Len(@) + 1, Len(Records))]
        /\ UNCHANGED <<file, link, exclusive, pc, batch, put, length, result, outcome,
                       torn, begun, faults, deaths, steals>>
    BY DEF ReadClose, append, counters
  <1>b. PICK N \in Nat : /\ SoundLines = 1..N /\ 2*N <= Len(file)
                        /\ Records \in Seq(Pieces) /\ Len(Records) = N
                        /\ \A j \in 1..N : WholeLine(j) /\ Records[j] = file[2*j]
    BY <1>a, RecordsRead
  <1>c. file \in Seq(Pieces) /\ Len(file) \in Nat /\ seen[r] \in Seq(Pieces) /\ Len(seen[r]) \in Nat
    BY <1>a DEF TypeOK
  <1>d. Len(seen[r]) <= N
    <2>1. CASE Len(seen[r]) = 0
      BY <2>1
    <2>2. CASE Len(seen[r]) # 0
      <3>1. 2 * Len(seen[r]) <= Len(file) /\ \A j \in 1..Len(seen[r]) : WholeLine(j)
        BY <1>a DEF SeenInv
      <3>2. Len(seen[r]) \in SoundLines
        BY <1>c, <2>2, <3>1 DEF SoundLines
      <3> QED BY <1>b, <3>2
    <2> QED BY <2>1, <2>2
  <1>e. /\ seen'[r] \in Seq(Pieces) /\ Len(seen'[r]) = N
        /\ \A j \in 1..N : seen'[r][j] = file[2*j]
    <2>1. PICK s, t : s = seen[r] /\ t = Records
      OBVIOUS
    <2>2. s \in Seq(Pieces) /\ t \in Seq(Pieces) /\ Len(t) = N /\ Len(s) <= Len(t)
          /\ Len(s) \in Nat
      BY <1>b, <1>c, <1>d, <2>1
    <2>3. /\ s \o SubSeq(t, Len(s) + 1, Len(t)) \in Seq(Pieces)
          /\ Len(s \o SubSeq(t, Len(s) + 1, Len(t))) = Len(t)
          /\ \A j \in 1..Len(s) : (s \o SubSeq(t, Len(s) + 1, Len(t)))[j] = s[j]
          /\ \A j \in Len(s) + 1..Len(t) : (s \o SubSeq(t, Len(s) + 1, Len(t)))[j] = t[j]
      BY <2>2
    <2>4. seen'[r] = s \o SubSeq(t, Len(s) + 1, Len(t))
      BY <1>0, <1>a, <2>1 DEF TypeOK
    <2>5. \A j \in 1..Len(s) : s[j] = file[2*j]
      BY <1>a, <2>1 DEF SeenInv
    <2>6. \A j \in 1..N : t[j] = file[2*j]
      BY <1>b, <2>1
    <2>7. \A j \in 1..N : j \in 1..Len(s) \/ j \in Len(s) + 1..Len(t)
      BY <2>2
    <2> QED BY <2>2, <2>3, <2>4, <2>5, <2>6, <2>7, Zenon
  <1>f. \A v \in Writers : ~HasFile(v)
    BY <1>0, <1>a, NoneAssumption DEF LocksInv, HasFile
  <1>1. TypeOK'
    <2>1. seen' \in [Readers -> Seq(Pieces)]
      <3>1. PICK q : q = seen'[r] /\ q \in Seq(Pieces)
        BY <1>e
      <3>2. seen' = [seen EXCEPT ![r] = q] /\ seen \in [Readers -> Seq(Pieces)]
        BY <1>0, <1>a, <3>1 DEF TypeOK
      <3> QED BY <3>1, <3>2
    <2> QED BY <1>0, <1>a, <2>1 DEF TypeOK
  <1>2. LocksInv' /\ BatchInv' /\ TailInv'
    BY <1>0, <1>a DEF LocksInv, BatchInv, TailInv, HasFile, Encoded
  <1>3. ReportInv'
    BY <1>0, <1>a, FileSame DEF ReportInv
  <1>4. SeenInv'
    <2> SUFFICES ASSUME NEW q \in Readers
                 PROVE  /\ 2 * Len(seen'[q]) <= Len(file)
                        /\ \A j \in 1..Len(seen'[q]) : WholeLine(j) /\ seen'[q][j] = file[2*j]
      BY <1>0, <1>f, FileSame DEF SeenInv, HasFile
    <2>1. CASE q = r
      BY <1>b, <1>e, <2>1
    <2>2. CASE q # r
      <3>1. seen'[q] = seen[q]
        BY <1>0, <1>a, <2>2 DEF TypeOK
      <3> QED BY <1>a, <3>1 DEF SeenInv
    <2> QED BY <2>1, <2>2
  <1>5. FormInv'
    BY <1>0, <1>a, FileSame DEF FormInv, HasFile, HalfWritten
  <1> QED BY <1>1, <1>2, <1>3, <1>4, <1>5 DEF IInv

---------------------------------------------------------------------------
(* The theorems.                                                           *)

LEMMA NextIInv == IInv /\ [Next]_vars => IInv'
  <1> SUFFICES ASSUME IInv, [Next]_vars PROVE IInv'
    OBVIOUS
  <1>1. CASE UNCHANGED vars
    <2>1. UNCHANGED <<file, link, exclusive, shared, pc, batch, put, length, result,
                      outcome, seen, torn, begun, faults, deaths, steals>>
      BY <1>1 DEF vars, locks, append, counters
    <2>2. TypeOK' /\ LocksInv' /\ BatchInv'
      BY <2>1 DEF IInv, TypeOK, LocksInv, BatchInv, HasFile
    <2>3. ReportInv' /\ SeenInv'
      BY <2>1, FileSame DEF IInv, ReportInv, SeenInv, HasFile
    <2>4. TailInv'
      BY <2>1 DEF IInv, TailInv, HasFile, Encoded
    <2>5. FormInv'
      BY <2>1, FileSame DEF IInv, FormInv, HasFile, HalfWritten
    <2> QED BY <2>2, <2>3, <2>4, <2>5 DEF IInv
  <1>2. ASSUME NEW w \in Writers, Begin(w) \/ Denied(w) \/ Goes(w) \/ Die(w)
        PROVE  IInv'
    BY <1>2, BeginIInv, DeniedIInv, AcquireIInv, OpenIInv, OpenFailsIInv, PutIInv,
       SyncedIInv, WriteFailsIInv, RollbackIInv, RollbackFailsIInv, UnlockIInv,
       CloseIInv, DieIInv
       DEF Goes
  <1>3. ASSUME NEW r \in Readers, ReadOpen(r) \/ ReadClose(r)
        PROVE  IInv'
    BY <1>3, ReadOpenIInv, ReadCloseIInv
  <1> QED BY <1>1, <1>2, <1>3 DEF Next

THEOREM Invariant == Spec => []IInv
  BY InitIInv, NextIInv, PTL DEF Spec

\* Every variable of the two files keeps its type, and the holder of the
\* exclusive flock is at a step that has it.
THEOREM TypeCorrect == Spec => []TypeOK
  <1>1. IInv => TypeOK
    BY DEF IInv
  <1> QED BY <1>1, Invariant, PTL

LEMMA SeenIsPrefix == IInv => ReplayStands
  <1> SUFFICES ASSUME IInv, NEW r \in Readers PROVE IsPrefix(seen[r], Records)
    BY DEF ReplayStands
  <1>a. TypeOK /\ SeenInv
    BY DEF IInv
  <1>b. PICK N \in Nat : /\ SoundLines = 1..N /\ 2*N <= Len(file)
                        /\ Records \in Seq(Pieces) /\ Len(Records) = N
                        /\ \A j \in 1..N : WholeLine(j) /\ Records[j] = file[2*j]
    BY <1>a, RecordsRead
  <1>c. file \in Seq(Pieces) /\ Len(file) \in Nat /\ seen[r] \in Seq(Pieces) /\ Len(seen[r]) \in Nat
    BY <1>a DEF TypeOK
  <1>d. Len(seen[r]) <= N
    <2>1. CASE Len(seen[r]) = 0
      BY <2>1
    <2>2. CASE Len(seen[r]) # 0
      <3>1. 2 * Len(seen[r]) <= Len(file) /\ \A j \in 1..Len(seen[r]) : WholeLine(j)
        BY <1>a DEF SeenInv
      <3>2. Len(seen[r]) \in SoundLines
        BY <1>c, <2>2, <3>1 DEF SoundLines
      <3> QED BY <1>b, <3>2
    <2> QED BY <2>1, <2>2
  <1>e. \A j \in 1..Len(seen[r]) : seen[r][j] = Records[j]
    <2>1. \A j \in 1..Len(seen[r]) : seen[r][j] = file[2*j]
      BY <1>a DEF SeenInv
    <2>2. \A j \in 1..Len(seen[r]) : j \in 1..N
      BY <1>c, <1>d
    <2> QED BY <1>b, <2>1, <2>2
  <1>f. PICK s, t : s = seen[r] /\ t = Records
    OBVIOUS
  <1>1. s \in Seq(Pieces) /\ t \in Seq(Pieces) /\ Len(s) <= Len(t) /\ Len(s) \in Nat
        /\ \A j \in 1..Len(s) : s[j] = t[j]
    BY <1>b, <1>c, <1>d, <1>e, <1>f
  <1>2. Len(s) \in 0..Len(s) /\ Len(s) \in 0..Len(t)
    BY <1>1
  <1>3. SubSeq(s, 1, Len(s)) = SubSeq(t, 1, Len(s))
    BY <1>1, <1>2, SeqCut, SeqEqual
  <1> QED BY <1>1, <1>3, <1>f DEF IsPrefix

\* What a replay has returned is what every later replay returns first: no
\* record of an append that is rolled back is ever seen.
THEOREM ReplaySafe == Spec => []ReplayStands
  BY SeenIsPrefix, Invariant, PTL

(* Until an append is torn all lines are whole.                            *)
LEMMA FormedLines ==
    ASSUME TypeOK, FormInv, ~torn, NEW j \in Nat, j > 0, 2*j <= Len(file)
    PROVE  WholeLine(j)
  <1>1. Len(file) \in Nat
    BY DEF TypeOK
  <1>2. 2*j - 1 \in 1..Len(file) /\ 2*j \in 1..Len(file)
    BY <1>1
  <1>3. Formed(2*j - 1) /\ Formed(2*j)
    BY <1>2 DEF FormInv
  <1>4. /\ (2*j - 1) % 2 # 0 /\ (2*j) % 2 = 0 /\ (2*j) % 4 # 1
        /\ (2*j - 1) % 4 \in {1, 2} <=> (2*j) % 4 \in {1, 2}
    OBVIOUS
  <1> QED BY <1>3, <1>4 DEF Formed, WholeLine

LEMMA DoneIsRead ==
    ASSUME IInv, ~torn, NEW b \in Batches, Whole(b)
    PROVE  Readable(b)
  <1>a. TypeOK /\ FormInv
    BY DEF IInv
  <1>b. PICK N \in Nat : /\ SoundLines = 1..N /\ 2*N <= Len(file)
                        /\ Records \in Seq(Pieces) /\ Len(Records) = N
                        /\ \A j \in 1..N : WholeLine(j) /\ Records[j] = file[2*j]
    BY <1>a, RecordsRead
  <1>c. Len(file) \in Nat
    BY <1>a DEF TypeOK
  <1>1. PICK i \in 0..Len(file) : i + 4 <= Len(file) /\ \A k \in 1..4 : file[i + k] = Encoded(b)[k]
    BY DEF Whole
  <1>2. PICK h \in Nat : i = 2*h
    <2>1. file[i + 2].ends
      BY <1>1, EncodedPieces
    <2>2. i + 2 \in 1..Len(file)
      BY <1>1, <1>c
    <2>3. (i + 2) % 2 = 0
      BY <1>a, <2>1, <2>2 DEF FormInv, Formed
    <2>4. i \div 2 \in Nat /\ i = 2 * (i \div 2)
      BY <2>3
    <2> QED BY <2>4
  <1>3. ASSUME NEW j \in Nat, j > 0, 2*j <= Len(file)
        PROVE  j \in 1..Len(Records) /\ Records[j] = file[2*j]
    <2>1. \A m \in 1..j : m \in Nat /\ m > 0 /\ 2*m <= Len(file)
      BY <1>3, <1>c
    <2>2. \A m \in 1..j : WholeLine(m)
      BY <1>a, <2>1, FormedLines
    <2>3. j \in SoundLines
      BY <1>3, <1>c, <2>2 DEF SoundLines
    <2> QED BY <1>b, <2>3
  <1>4. /\ h + 1 \in Nat /\ h + 1 > 0 /\ 2*(h + 1) = i + 2 /\ 2*(h + 1) <= Len(file)
        /\ h + 2 \in Nat /\ h + 2 > 0 /\ 2*(h + 2) = i + 4 /\ 2*(h + 2) <= Len(file)
    BY <1>1, <1>2, <1>c
  <1>5. /\ h + 1 \in 1..Len(Records) /\ Records[h + 1] = Encoded(b)[2]
        /\ h + 2 \in 1..Len(Records) /\ Records[h + 2] = Encoded(b)[4]
    <2>1. h + 1 \in 1..Len(Records) /\ Records[h + 1] = file[i + 2]
      BY <1>3, <1>4
    <2>2. h + 2 \in 1..Len(Records) /\ Records[h + 2] = file[i + 4]
      BY <1>3, <1>4
    <2>3. file[i + 2] = Encoded(b)[2] /\ file[i + 4] = Encoded(b)[4]
      BY <1>1
    <2> QED BY <2>1, <2>2, <2>3
  <1> QED BY <1>5 DEF Readable, Contains

LEMMA ReportsKept == IInv => AppendsWhole
  <1> SUFFICES ASSUME IInv, NEW b \in Batches
               PROVE  /\ outcome[b] = "refused" => \A i \in DOMAIN file : file[i].batch # b
                      /\ outcome[b] = "done" =>
                             /\ \E i \in 0..Len(file) - 4 : SubSeq(file, i + 1, i + 4) = Encoded(b)
                             /\ ~torn => Readable(b)
    BY DEF AppendsWhole
  <1>a. TypeOK /\ ReportInv
    BY DEF IInv
  <1>b. file \in Seq(Pieces) /\ Len(file) \in Nat /\ DOMAIN file = 1..Len(file)
    BY <1>a DEF TypeOK
  <1>1. outcome[b] = "refused" => \A i \in DOMAIN file : file[i].batch # b
    BY <1>a, <1>b DEF ReportInv, Absent
  <1>2. ASSUME outcome[b] = "done"
        PROVE  \E i \in 0..Len(file) - 4 : SubSeq(file, i + 1, i + 4) = Encoded(b)
    <2>1. Whole(b)
      BY <1>2, <1>a DEF ReportInv
    <2>2. PICK i \in 0..Len(file) : i + 4 <= Len(file) /\ \A k \in 1..4 : file[i + k] = Encoded(b)[k]
      BY <2>1 DEF Whole
    <2>3. PICK e : e = Encoded(b) /\ e \in Seq(Pieces) /\ Len(e) = 4
      BY EncodedPieces
    <2>4. \A k \in 1..4 : file[i + k] = e[k]
      BY <2>2, <2>3
    <2>5. /\ SubSeq(file, i + 1, i + 4) \in Seq(Pieces) /\ Len(SubSeq(file, i + 1, i + 4)) = 4
          /\ \A k \in 1..4 : SubSeq(file, i + 1, i + 4)[k] = file[i + k]
      BY <1>b, <2>2
    <2>6. SubSeq(file, i + 1, i + 4) = e
      <3>1. PICK cut : cut = SubSeq(file, i + 1, i + 4)
        OBVIOUS
      <3>2. cut \in Seq(Pieces) /\ Len(cut) = Len(e) /\ \A k \in 1..4 : cut[k] = e[k]
        BY <2>3, <2>4, <2>5, <3>1
      <3>3. Len(cut) = 4
        BY <2>3, <3>2
      <3>4. cut = e
        BY <2>3, <3>2, <3>3, SeqEqual
      <3> QED BY <3>1, <3>4
    <2>7. i \in 0..Len(file) - 4
      BY <1>b, <2>2
    <2> QED BY <2>3, <2>6, <2>7
  <1>3. outcome[b] = "done" /\ ~torn => Readable(b)
    BY <1>a, DoneIsRead DEF ReportInv
  <1> QED BY <1>1, <1>2, <1>3

\* An append that was refused leaves nothing of its batch and one that is
\* done stays in one piece, and is read until an append is torn.
THEOREM AppendsSafe == Spec => []AppendsWhole
  BY ReportsKept, Invariant, PTL
===========================================================================
