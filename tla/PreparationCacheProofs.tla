----------------------- MODULE PreparationCacheProofs -----------------------
(***************************************************************************)
(* Theorems about PreparationCache, for every number of processes, keys,   *)
(* sizes, limits, deaths, rotten artifacts and failing writes: an artifact *)
(* in use stays but for one gap, a key is built by one process at a time,  *)
(* and the cache stays within its limit but for what was never promised.   *)
(*                                                                         *)
(* Two inductive invariants carry them.  IInv says who holds which lock    *)
(* where, and what is on the disk for its holder.  Ledger says what is     *)
(* charged: every artifact that counts is recorded, also in the copy of    *)
(* the records that a trimmer is about to write, what is about to be       *)
(* committed was promised, and both together fit.                          *)
(***************************************************************************)
EXTENDS PreparationCache, FiniteSetTheorems, SequenceTheorems, TLAPS

\* The part of the type invariant about the locks and what they protect.
Shape ==
  /\ file \in [Key -> Content]
  /\ pc \in [Worker -> Pc]
  /\ key \in [Worker -> Key \union {None}]
  /\ lock \in [Worker -> {"none", "SH", "EX"}]
  /\ pinned \in [Worker -> BOOLEAN]

\* Where a process holds <key>.lock.
Holding == {"read", "check", "remove", "build", "publish", "commit", "retain", "using"}

\* Where it may have no key.
Keyless == {"idle", "quota", "sweep", "release"}

\* Which lock a process holds where.  In the gap between a builder's exclusive
\* lock and its shared one it has the pin.
Owned(w) ==
  /\ lock[w] # "none" => pc[w] \in Holding
  /\ pc[w] = "read" => lock[w] = "SH"
  /\ pc[w] \in {"check", "remove", "build", "publish", "commit"} => lock[w] = "EX"
  /\ pc[w] = "retain" => lock[w] # "none"
  /\ pc[w] = "convert" => pinned[w]
  /\ pc[w] = "using" => lock[w] = "SH"
  /\ pc[w] \notin Keyless => key[w] \in Key

\* What is on the disk for a process with a lock that nobody else can have had
\* since it looked.
Found(w) ==
  /\ pc[w] \in {"commit", "retain"} => file[key[w]] = "good"
  /\ pc[w] \in {"build", "publish"} => file[key[w]] = "absent"

\* An exclusive lock excludes.
Exclusive ==
  \A v, w \in Worker : v # w /\ key[v] = key[w] /\ lock[v] = "EX" => lock[w] = "none"

\* What the holder of the authority has in hand.
TrimRecord == trim = [by |-> trim.by, todo |-> trim.todo, left |-> trim.left]

\* Who evicts is trimming.
Trimming == TrimRecord /\ \A w \in Worker : trim.by = w => pc[w] \in {"quota", "sweep"}

IInv ==
  /\ Shape
  /\ Trimming
  /\ \A w \in Worker : Owned(w) /\ Found(w)
  /\ Exclusive

-----------------------------------------------------------------------------
(***************************************************************************)
(* What a step of one process leaves alone.                                *)
(***************************************************************************)

\* Only process w moved.
Only(w) ==
  \A v \in Worker : v # w =>
     pc'[v] = pc[v] /\ key'[v] = key[v] /\ lock'[v] = lock[v] /\ pinned'[v] = pinned[v]

\* A move of w that gives its lock back, keeps it, or gets one that is granted.
Granted(w) ==
  \/ lock'[w] = "none"
  \/ key'[w] = key[w] /\ lock'[w] = lock[w]
  \/ key'[w] = key[w] /\ Locks(w, lock'[w]) /\ lock'[w] \in {"SH", "EX"}

\* A granted lock excludes what it has to.
LEMMA GrantedExcludes ==
  ASSUME Exclusive, Shape, NEW w \in Worker, Only(w), Granted(w)
  PROVE  Exclusive'
<1> SUFFICES ASSUME NEW u \in Worker, NEW v \in Worker, u # v, key'[u] = key'[v], lock'[u] = "EX"
             PROVE  lock'[v] = "none"
  BY DEF Exclusive
<1>1. CASE u # w /\ v # w
  BY <1>1 DEF Only, Exclusive
<1>2. CASE u = w
  <2>1. key'[v] = key[v] /\ lock'[v] = lock[v]
    BY <1>2 DEF Only
  <2>2. CASE key'[w] = key[w] /\ lock'[w] = lock[w]
    BY <1>2, <2>1, <2>2 DEF Exclusive
  <2>3. CASE key'[w] = key[w] /\ Locks(w, lock'[w])
    <3>1. Others(w) = {}
      BY <1>2, <2>3 DEF Locks
    <3>2. v \notin Holders(key[w])
      BY <1>2, <3>1 DEF Others
    <3>q. QED BY <1>2, <2>1, <2>3, <3>2 DEF Holders
  <2>q. QED BY <1>2, <2>2, <2>3 DEF Granted
<1>3. CASE v = w
  <2>1. key'[u] = key[u] /\ lock[u] = "EX"
    BY <1>3 DEF Only
  <2>2. CASE key'[w] = key[w] /\ lock'[w] = lock[w]
    BY <1>3, <2>1, <2>2 DEF Exclusive
  <2>3. CASE key'[w] = key[w] /\ Locks(w, lock'[w]) /\ lock'[w] \in {"SH", "EX"}
    <3>1. u \in Others(w)
      BY <1>3, <2>1, <2>3 DEF Others, Holders
    <3>q. QED BY <2>1, <2>3, <3>1 DEF Locks
  <2>q. QED BY <1>3, <2>2, <2>3 DEF Granted
<1>q. QED BY <1>1, <1>2, <1>3

\* The files that the others rely on.
Spared(w) ==
  \A v \in Worker : v # w /\ pc[v] \in {"build", "publish", "commit", "retain", "using"} =>
     file'[key[v]] = file[key[v]]

\* The authority stays with its holder, or w takes or returns it.
Authority(w) ==
  /\ TrimRecord'
  /\ trim'.by \in {trim.by, w, None}
  /\ trim'.by = w => pc'[w] \in {"quota", "sweep"}

\* The invariant of every process follows from that of the one that moved.
LEMMA MoveKeeps ==
  ASSUME IInv, Shape', NEW w \in Worker, Only(w), Granted(w), Spared(w),
         Authority(w), Owned(w)', Found(w)'
  PROVE  IInv'
<1>1. Exclusive'
  BY GrantedExcludes DEF IInv
<1>2. ASSUME NEW v \in Worker, v # w PROVE Owned(v)' /\ Found(v)'
  <2>1. pc'[v] = pc[v] /\ key'[v] = key[v] /\ lock'[v] = lock[v] /\ pinned'[v] = pinned[v]
    BY <1>2 DEF Only
  <2>2. Owned(v) /\ Found(v)
    BY DEF IInv
  <2>3. Owned(v)'
    BY <2>1, <2>2 DEF Owned
  <2>4. Found(v)'
    BY <1>2, <2>1, <2>2 DEF Found, Spared
  <2>q. QED BY <2>3, <2>4
<1>3. Trimming'
  <2> SUFFICES ASSUME NEW v \in Worker, trim'.by = v PROVE pc'[v] \in {"quota", "sweep"}
    BY DEF Trimming, Authority
  <2>1. CASE v = w
    BY <2>1 DEF Authority
  <2>2. CASE v # w
    BY <2>2, CacheAssumption DEF Authority, Only, IInv, Trimming
  <2>q. QED BY <2>1, <2>2
<1>q. QED BY <1>1, <1>2, <1>3 DEF IInv

\* With every file in place, the others are spared.
LEMMA FilesSpared ==
  ASSUME file' = file, NEW w
  PROVE  Spared(w)
BY DEF Spared

\* A process that is not trimming has not the authority.
LEMMA AuthorityKept ==
  ASSUME IInv, NEW w \in Worker, pc[w] \notin {"quota", "sweep"}, trim' = trim
  PROVE  Authority(w)
BY DEF IInv, Trimming, Authority, TrimRecord

\* A process that holds no lock goes where it needs none.
LEMMA Wanders ==
  ASSUME IInv, NEW w \in Worker, NEW p \in Pc \ (Holding \union {"convert"}),
         pc[w] \notin Holding, Goto(w, p), UNCHANGED <<file, key, lock, pinned>>,
         p \notin Keyless => key[w] \in Key, Authority(w)
  PROVE  IInv'
<1>1. Shape /\ Owned(w)
  BY DEF IInv
<1>2. pc' \in [Worker -> Pc] /\ pc'[w] = p /\ \A v \in Worker : v # w => pc'[v] = pc[v]
  BY <1>1 DEF Goto, Shape
<1>3. Shape' /\ Only(w) /\ Granted(w) /\ Spared(w)
  BY <1>1, <1>2, FilesSpared DEF Shape, Only, Granted
<1>4. lock[w] = "none"
  BY <1>1 DEF Owned
<1>5. Owned(w)'
  BY <1>2, <1>4 DEF Owned, Holding
<1>6. Found(w)'
  BY <1>2 DEF Found, Holding
<1>q. QED BY <1>3, <1>5, <1>6, MoveKeeps

-----------------------------------------------------------------------------
(***************************************************************************)
(* One lemma per action.                                                   *)
(***************************************************************************)

\* A preparation begins.
LEMMA StartKeeps ==
  ASSUME IInv, NEW w \in Worker, Start(w)
  PROVE  IInv'
<1>1. PICK k \in Key : key' = [key EXCEPT ![w] = k] /\ Goto(w, IF Present(k) THEN "adopt" ELSE "again")
  BY DEF Start
<1>2. pc[w] = "idle" /\ UNCHANGED <<file, lock, pinned>>
  BY DEF Start
<1>3. Shape /\ Owned(w)
  BY DEF IInv
<1>4. /\ key' \in [Worker -> Key \union {None}] /\ key'[w] = k
      /\ \A v \in Worker : v # w => key'[v] = key[v]
  BY <1>1, <1>3 DEF Shape
<1>5. /\ pc' \in [Worker -> Pc] /\ pc'[w] \in {"adopt", "again"}
      /\ \A v \in Worker : v # w => pc'[v] = pc[v]
  BY <1>1, <1>3 DEF Shape, Goto, Pc
<1>6. lock'[w] = "none"
  BY <1>2, <1>3 DEF Owned, Holding
<1>7. Shape' /\ Only(w) /\ Granted(w) /\ Spared(w)
  BY <1>2, <1>3, <1>4, <1>5, <1>6, FilesSpared DEF Shape, Only, Granted
<1>8. Owned(w)' /\ Found(w)'
  BY <1>4, <1>5, <1>6 DEF Owned, Found
<1>9. Authority(w)
  BY <1>2, AuthorityKept DEF Start
<1>q. QED BY <1>7, <1>8, <1>9, MoveKeeps

\* The steps before a lock is held, and after it was let go.
LEMMA WandererKeeps ==
  ASSUME IInv, NEW w \in Worker,
         \/ Maintain(w) \/ Adopt(w) \/ LookAgain(w) \/ Reserve(w) \/ ReserveRefused(w)
         \/ Probe(w) \/ WaitTimeout(w)
  PROVE  IInv'
<1>1. Owned(w)
  BY DEF IInv
<1>2. UNCHANGED <<file, key, lock, pinned>>
  BY DEF Maintain, Adopt, LookAgain, Reserve, ReserveRefused, Probe, WaitTimeout, process
<1>3. pc[w] \in {"idle", "adopt", "again", "reserve", "probe", "shared", "exclusive"}
  BY DEF Maintain, Adopt, LookAgain, Reserve, ReserveRefused, Probe, WaitTimeout
<1>4. pc[w] \notin Holding
  BY <1>3 DEF Holding
<1>5. PICK p \in {"quota", "reserve", "probe", "release", "shared", "exclusive"} :
        Goto(w, p) /\ (p \notin Keyless => pc[w] # "idle")
  BY DEF Maintain, Adopt, LookAgain, Reserve, ReserveRefused, Probe, WaitTimeout, Keyless
<1>6. p \notin Keyless => key[w] \in Key
  BY <1>1, <1>3, <1>5 DEF Owned, Keyless
<1>7. p \in Pc \ (Holding \union {"convert"})
  BY DEF Pc, Holding
<1>8. Authority(w)
  BY <1>3, AuthorityKept
  DEF Maintain, Adopt, LookAgain, Reserve, ReserveRefused, Probe, WaitTimeout
<1>q. QED BY <1>2, <1>4, <1>5, <1>6, <1>7, <1>8, Wanders

\* Only a trimming process holds the authority.
LEMMA HolderTrims ==
  ASSUME IInv, NEW w \in Worker, trim.by = w
  PROVE  pc[w] \in {"quota", "sweep"}
BY DEF IInv, Trimming

\* A trim ends with the replaced state, or is refused.
LEMMA TrimEndsKeeps ==
  ASSUME IInv, NEW w \in Worker, TrimEnds(w)
  PROVE  IInv'
<1>1. Owned(w) /\ Shape
  BY DEF IInv
<1>2. UNCHANGED <<file, key, lock, pinned>> /\ trim' = NoTrim
  BY DEF TrimEnds, process
<1>3. PICK p \in {"sweep", "idle", "reserve", "again", "release"} :
        Goto(w, p) /\ (p \in {"reserve", "again"} => key[w] # None)
  BY DEF TrimEnds, AfterTrim
<1>4. p \notin Keyless => key[w] \in Key
  BY <1>1, <1>3 DEF Shape, Keyless
<1>5. p \in Pc \ (Holding \union {"convert"}) /\ pc[w] \notin Holding
  BY HolderTrims DEF Pc, Holding, TrimEnds, MayStop
<1>6. Authority(w)
  BY <1>2, CacheAssumption DEF Authority, NoTrim, TrimRecord
<1>q. QED BY <1>2, <1>3, <1>4, <1>5, <1>6, Wanders

\* Whoever removes or damages an idle key's artifact spares the users.
LEMMA IdleSpares ==
  ASSUME IInv, NEW k, Idle(k), NEW c \in Content, file' = [file EXCEPT ![k] = c], NEW w
  PROVE  Spared(w) /\ file' \in [Key -> Content]
<1>1. Shape
  BY DEF IInv
<1>2. ASSUME NEW v \in Worker, pc[v] \in {"build", "publish", "commit", "retain", "using"}
      PROVE  file'[key[v]] = file[key[v]]
  <2>1. Owned(v)
    BY DEF IInv
  <2>2. lock[v] # "none" \/ pinned[v]
    BY <1>2, <2>1 DEF Owned
  <2>3. key[v] # k
    BY <2>2 DEF Idle, Holders, Pinners
  <2>4. key[v] \in Key
    BY <1>2, <2>1 DEF Owned, Keyless
  <2>q. QED BY <1>1, <2>3, <2>4 DEF Shape
<1>q. QED BY <1>1, <1>2 DEF Spared, Shape

\* A step that leaves the processes where they are and the files of busy keys.
LEMMA FilesMove ==
  ASSUME IInv, NEW w \in Worker, UNCHANGED <<pc, key, lock, pinned>>, Authority(w),
         \/ file' = file
         \/ \E k : Idle(k) /\ file' = [file EXCEPT ![k] = "absent"]
  PROVE  IInv'
<1>1. Shape
  BY DEF IInv
<1>2. file' \in [Key -> Content] /\ \A v : Spared(v)
  BY <1>1, IdleSpares, FilesSpared DEF Shape, Content
<1>3. Shape' /\ Exclusive'
  BY <1>2 DEF IInv, Shape, Exclusive
<1>4. Trimming'
  BY CacheAssumption DEF IInv, Trimming, Authority
<1>5. ASSUME NEW v \in Worker PROVE Owned(v)' /\ Found(v)'
  <2>1. Owned(v) /\ Found(v)
    BY DEF IInv
  <2>2. None # v
    BY CacheAssumption
  <2>3. pc[v] \in {"build", "publish", "commit", "retain", "using"} =>
           file'[key[v]] = file[key[v]]
    BY <1>2, <2>2 DEF Spared
  <2>q. QED BY <2>1, <2>3 DEF Owned, Found
<1>q. QED BY <1>3, <1>4, <1>5 DEF IInv

\* The trimmer takes the authority, evicts an idle key or keeps a busy one.
LEMMA TrimmerKeeps ==
  ASSUME IInv, NEW w \in Worker, TakeAuthority(w) \/ Evict(w) \/ Keep(w)
  PROVE  IInv'
<1>1. CASE TakeAuthority(w)
  <2>1. UNCHANGED <<file, pc, key, lock, pinned>> /\ trim'.by = w /\ TrimRecord'
        /\ pc[w] \in {"quota", "sweep"}
    BY <1>1 DEF TakeAuthority, process, TrimRecord
  <2>q. QED BY <2>1, FilesMove DEF Authority
<1>2. CASE Evict(w) \/ Keep(w)
  <2>1. trim.by = w /\ pc[w] \in {"quota", "sweep"}
    BY <1>2, HolderTrims DEF Evict, Keep, MayTry
  <2>2. trim'.by = trim.by /\ TrimRecord' /\ UNCHANGED <<pc, key, lock, pinned>>
    <3>1. TrimRecord
      BY DEF IInv, Trimming
    <3>2. trim'.by = trim.by /\ TrimRecord'
      BY <1>2, <3>1 DEF TrimRecord, Evict, Keep
    <3>q. QED BY <1>2, <3>2 DEF Evict, Keep, process
  <2>3. \/ file' = file
        \/ \E k : Idle(k) /\ file' = [file EXCEPT ![k] = "absent"]
    BY <1>2 DEF Evict, Keep, Evictable, Forget
  <2>q. QED BY <2>1, <2>2, <2>3, FilesMove DEF Authority
<1>q. QED BY <1>1, <1>2

\* A lock is granted.
LEMMA TakeKeeps ==
  ASSUME IInv, NEW w \in Worker, TakeShared(w) \/ TakeExclusive(w) \/ Convert(w)
  PROVE  IInv'
<1>1. Shape /\ Owned(w) /\ Found(w)
  BY DEF IInv
<1>2. UNCHANGED <<file, key, pinned, trim>>
  BY DEF TakeShared, TakeExclusive, Convert
<1>3. PICK m \in {"SH", "EX"}, p \in {"read", "check", "using"} :
        /\ lock' = [lock EXCEPT ![w] = m] /\ Goto(w, p) /\ Locks(w, m)
        /\ p = "check" <=> m = "EX"
        /\ p = "using" <=> pc[w] = "convert"
  BY DEF TakeShared, TakeExclusive, Convert
<1>4. pc[w] \in {"shared", "exclusive", "convert"}
  BY DEF TakeShared, TakeExclusive, Convert
<1>5. /\ lock'[w] = m /\ pc'[w] = p
      /\ \A v \in Worker : v # w => lock'[v] = lock[v] /\ pc'[v] = pc[v]
      /\ lock' \in [Worker -> {"none", "SH", "EX"}] /\ pc' \in [Worker -> Pc]
  BY <1>1, <1>3 DEF Goto, Shape, Pc
<1>6. Shape' /\ Only(w) /\ Granted(w) /\ Spared(w)
  BY <1>1, <1>2, <1>3, <1>5, FilesSpared DEF Shape, Only, Granted
<1>7. Authority(w)
  BY <1>2, <1>4, AuthorityKept
<1>8. key[w] \in Key
  BY <1>1, <1>4 DEF Owned, Keyless
<1>9. Owned(w)'
  BY <1>2, <1>3, <1>5, <1>8 DEF Owned, Holding
<1>10. Found(w)'
  BY <1>1, <1>2, <1>3, <1>5 DEF Found
<1>q. QED BY <1>6, <1>7, <1>9, <1>10, MoveKeeps

\* A holder gives its lock back and goes where it needs none.
LEMMA LetGoKeeps ==
  ASSUME IInv, NEW w \in Worker, NEW p \in Pc \ (Holding \union {"convert"}),
         pc[w] \in Holding, Goto(w, p), lock' = [lock EXCEPT ![w] = "none"],
         UNCHANGED <<file, key, pinned, trim>>
  PROVE  IInv'
<1>1. Shape /\ Owned(w)
  BY DEF IInv
<1>2. /\ lock'[w] = "none" /\ pc'[w] = p
      /\ \A v \in Worker : v # w => lock'[v] = lock[v] /\ pc'[v] = pc[v]
      /\ lock' \in [Worker -> {"none", "SH", "EX"}] /\ pc' \in [Worker -> Pc]
  BY <1>1 DEF Goto, Shape
<1>3. Shape' /\ Only(w) /\ Granted(w) /\ Spared(w)
  BY <1>1, <1>2, FilesSpared DEF Shape, Only, Granted
<1>4. Authority(w)
  BY AuthorityKept DEF Holding
<1>5. key[w] \in Key
  BY <1>1 DEF Owned, Keyless, Holding
<1>6. Owned(w)' /\ Found(w)'
  BY <1>2, <1>5 DEF Owned, Found, Holding
<1>q. QED BY <1>3, <1>4, <1>6, MoveKeeps

\* A holder goes on with the lock it has.
LEMMA HoldsKeeps ==
  ASSUME IInv, NEW w \in Worker, NEW p \in Holding, pc[w] \in Holding, Goto(w, p),
         UNCHANGED <<lock, key, trim>>, pinned' \in [Worker -> BOOLEAN],
         \A v \in Worker : v # w => pinned'[v] = pinned[v],
         file' \in [Key -> Content], Spared(w),
         p \in {"check", "remove", "build", "publish", "commit"} => lock[w] = "EX",
         p \in {"read", "using"} => lock[w] = "SH",
         p \in {"commit", "retain"} => file'[key[w]] = "good",
         p \in {"build", "publish"} => file'[key[w]] = "absent"
  PROVE  IInv'
<1>1. Shape /\ Owned(w)
  BY DEF IInv
<1>2. /\ pc'[w] = p /\ pc' \in [Worker -> Pc]
      /\ \A v \in Worker : v # w => pc'[v] = pc[v]
  BY <1>1 DEF Goto, Shape, Holding, Pc
<1>3. Shape' /\ Only(w) /\ Granted(w)
  BY <1>1, <1>2 DEF Shape, Only, Granted
<1>4. Authority(w)
  BY AuthorityKept DEF Holding
<1>5. key[w] \in Key
  BY <1>1 DEF Owned, Keyless, Holding
<1>6. lock[w] # "none"
  BY <1>1 DEF Owned, Holding
<1>7. Owned(w)'
  BY <1>2, <1>5, <1>6 DEF Owned, Holding
<1>8. Found(w)'
  BY <1>2 DEF Found, Holding
<1>q. QED BY <1>3, <1>4, <1>7, <1>8, MoveKeeps

\* The artifact is committed, and kept or refused.
LEMMA CommitKeeps ==
  ASSUME IInv, NEW w \in Worker, Hit(w) \/ Commit(w, "commit")
  PROVE  IInv'
<1>1. Shape /\ Owned(w) /\ Found(w)
  BY DEF IInv
<1>2. pc[w] \in {"read", "check", "commit"} /\ file[key[w]] = "good"
  BY <1>1 DEF Hit, Commit, Found
<1>3. UNCHANGED <<file, key, pinned, trim>>
  BY DEF Hit, Commit
<1>4. \/ Goto(w, "release") /\ lock' = [lock EXCEPT ![w] = "none"]
      \/ Goto(w, "retain") /\ lock' = lock
  BY DEF Hit, Commit
<1>5. CASE Goto(w, "release") /\ lock' = [lock EXCEPT ![w] = "none"]
  BY <1>2, <1>3, <1>5, LetGoKeeps DEF Pc, Holding
<1>6. CASE Goto(w, "retain") /\ lock' = lock
  BY <1>1, <1>2, <1>3, <1>6, HoldsKeeps, FilesSpared DEF Holding, Shape
<1>q. QED BY <1>4, <1>5, <1>6

\* A reader or a builder gives up.
LEMMA GivesUpKeeps ==
  ASSUME IInv, NEW w \in Worker,
         ReadFails(w) \/ RebuildRefused(w) \/ BuildFails(w) \/ CommitFails(w)
  PROVE  IInv'
<1>1. PICK p \in {"exclusive", "refused", "release"} : Goto(w, p)
  BY DEF ReadFails, RebuildRefused, BuildFails, CommitFails
<1>2. pc[w] \in Holding
  BY DEF ReadFails, RebuildRefused, BuildFails, CommitFails, Holding
<1>3. lock' = [lock EXCEPT ![w] = "none"] /\ UNCHANGED <<file, key, pinned, trim>>
  BY DEF ReadFails, RebuildRefused, BuildFails, CommitFails
<1>4. p \in Pc \ (Holding \union {"convert"})
  BY DEF Pc, Holding
<1>q. QED BY <1>1, <1>2, <1>3, <1>4, LetGoKeeps

\* A check that fails keeps its lock.
LEMMA CheckFailsKeeps ==
  ASSUME IInv, NEW w \in Worker, CheckFails(w)
  PROVE  IInv'
<1>1. Shape /\ Owned(w)
  BY DEF IInv
<1>2. pc[w] = "check" /\ Goto(w, "remove") /\ UNCHANGED <<file, key, lock, pinned, trim>>
  BY DEF CheckFails, process
<1>3. lock[w] = "EX"
  BY <1>1, <1>2 DEF Owned
<1>q. QED BY <1>1, <1>2, <1>3, HoldsKeeps, FilesSpared DEF Holding, Shape

\* The holder of the exclusive lock writes where nobody else has a lock.
LEMMA WriterSpares ==
  ASSUME IInv, NEW w \in Worker, lock[w] = "EX",
         NEW c \in Content, file' = [file EXCEPT ![key[w]] = c]
  PROVE  Spared(w)
<1> SUFFICES ASSUME NEW v \in Worker, v # w,
                    pc[v] \in {"build", "publish", "commit", "retain", "using"}
             PROVE  file'[key[v]] = file[key[v]]
  BY DEF Spared
<1>1. Shape /\ Owned(v) /\ Exclusive
  BY DEF IInv
<1>2. key[v] \in Key /\ lock[v] # "none"
  BY <1>1 DEF Owned, Keyless
<1>3. key[v] # key[w]
  BY <1>1, <1>2 DEF Exclusive
<1>q. QED BY <1>1, <1>2, <1>3 DEF Shape

\* The builder removes what is there, builds and publishes.
LEMMA BuilderKeeps ==
  ASSUME IInv, NEW w \in Worker, Rebuild(w) \/ Build(w) \/ Publish(w)
  PROVE  IInv'
<1>1. Shape /\ Owned(w) /\ Found(w)
  BY DEF IInv
<1>2. pc[w] \in {"remove", "build", "publish"}
  BY DEF Rebuild, Build, Publish
<1>3. lock[w] = "EX" /\ key[w] \in Key
  BY <1>1, <1>2 DEF Owned, Keyless
<1>4. UNCHANGED <<lock, key, trim, pinned>>
  BY DEF Rebuild, Build, Publish, process
<1>5. CASE Rebuild(w)
  <2>1. file' = [file EXCEPT ![key[w]] = "absent"] /\ Goto(w, "build")
    BY <1>5 DEF Rebuild, Forget
  <2>2. Spared(w)
    BY <1>3, <2>1, WriterSpares DEF Content
  <2>3. file' \in [Key -> Content] /\ file'[key[w]] = "absent"
    BY <1>1, <1>3, <2>1 DEF Shape, Content
  <2>q. QED BY <1>1, <1>2, <1>3, <1>4, <2>1, <2>2, <2>3, HoldsKeeps DEF Holding, Shape
<1>6. CASE Build(w)
  <2>1. file' = file /\ Goto(w, "publish") /\ pc[w] = "build"
    BY <1>6 DEF Build
  <2>2. file[key[w]] = "absent"
    BY <1>1, <2>1 DEF Found
  <2>q. QED BY <1>1, <1>2, <1>3, <1>4, <2>1, <2>2, HoldsKeeps, FilesSpared DEF Holding, Shape
<1>7. CASE Publish(w)
  <2>1. file' = [file EXCEPT ![key[w]] = "good"] /\ Goto(w, "commit") /\ pc[w] = "publish"
    BY <1>7 DEF Publish
  <2>3. Spared(w)
    BY <1>3, <2>1, WriterSpares DEF Content
  <2>4. file' \in [Key -> Content] /\ file'[key[w]] = "good"
    BY <1>1, <1>3, <2>1 DEF Shape, Content
  <2>q. QED BY <1>1, <1>2, <1>3, <1>4, <2>1, <2>3, <2>4, HoldsKeeps DEF Holding, Shape
<1>q. QED BY <1>5, <1>6, <1>7

\* A process leaves the cache, or dies, without a lock.
LEMMA LeaveKeeps ==
  ASSUME IInv, NEW w \in Worker, Leave(w), lock' \in [Worker -> {"none", "SH", "EX"}],
         lock'[w] = "none", pinned' \in [Worker -> BOOLEAN],
         \A v \in Worker : v # w => lock'[v] = lock[v] /\ pinned'[v] = pinned[v],
         file' \in [Key -> Content], Spared(w), Authority(w)
  PROVE  IInv'
<1>1. Shape
  BY DEF IInv
<1>2. /\ pc'[w] = "idle" /\ pc' \in [Worker -> Pc]
      /\ key'[w] = None /\ key' \in [Worker -> Key \union {None}]
      /\ \A v \in Worker : v # w => pc'[v] = pc[v] /\ key'[v] = key[v]
  BY <1>1 DEF Leave, Goto, Shape, Pc
<1>3. Shape' /\ Only(w) /\ Granted(w)
  BY <1>2 DEF Shape, Only, Granted
<1>4. Owned(w)' /\ Found(w)'
  BY <1>2 DEF Owned, Found, Keyless
<1>q. QED BY <1>3, <1>4, MoveKeeps

\* The preparation ends: without pins, by its caller, or after a failure.
LEMMA EndsKeeps ==
  ASSUME IInv, NEW w \in Worker, ReturnUnpinned(w) \/ Done(w) \/ Release(w)
  PROVE  IInv'
<1>1. Shape /\ Owned(w)
  BY DEF IInv
<1>2. Leave(w) /\ file' = file /\ trim' = trim /\ pc[w] \in {"retain", "using", "refused", "release"}
  BY DEF ReturnUnpinned, Done, Release
<1>3. lock' = [lock EXCEPT ![w] = "none"] \/ (lock' = lock /\ pc[w] \in {"refused", "release"})
  BY DEF ReturnUnpinned, Done, Release
<1>4. pc[w] \in {"refused", "release"} => lock[w] = "none"
  BY <1>1 DEF Owned, Holding
<1>5. /\ lock' \in [Worker -> {"none", "SH", "EX"}] /\ lock'[w] = "none"
      /\ \A v \in Worker : v # w => lock'[v] = lock[v]
  BY <1>1, <1>3, <1>4 DEF Shape
<1>6. /\ pinned' \in [Worker -> BOOLEAN]
      /\ \A v \in Worker : v # w => pinned'[v] = pinned[v]
  BY <1>1 DEF ReturnUnpinned, Done, Release, Shape
<1>7. Authority(w) /\ Spared(w) /\ file' \in [Key -> Content]
  BY <1>1, <1>2, AuthorityKept, FilesSpared DEF Shape
<1>q. QED BY <1>2, <1>5, <1>6, <1>7, LeaveKeeps

\* The pin first, then the lock: a reader goes on, a builder enters the gap.
LEMMA RetainKeeps ==
  ASSUME IInv, NEW w \in Worker, Retain(w)
  PROVE  IInv'
<1>1. Shape /\ Owned(w) /\ Found(w)
  BY DEF IInv
<1>2. pc[w] = "retain" /\ UNCHANGED <<file, trim, key>>
  BY DEF Retain
<1>3. /\ pinned' \in [Worker -> BOOLEAN] /\ pinned'[w] = TRUE
      /\ \A v \in Worker : v # w => pinned'[v] = pinned[v]
  BY <1>1 DEF Retain, Shape
<1>4. key[w] \in Key /\ file[key[w]] = "good" /\ lock[w] # "none"
  BY <1>1, <1>2 DEF Owned, Found, Keyless
<1>5. CASE lock[w] = "SH"
  <2>1. Goto(w, "using") /\ lock' = lock
    BY <1>5 DEF Retain
  <2>q. QED BY <1>1, <1>2, <1>3, <1>4, <1>5, <2>1, HoldsKeeps, FilesSpared DEF Holding, Shape
<1>6. CASE lock[w] # "SH"
  <2>1. Goto(w, "convert") /\ lock' = [lock EXCEPT ![w] = "none"]
    BY <1>6 DEF Retain
  <2>2. /\ lock'[w] = "none" /\ pc'[w] = "convert"
        /\ \A v \in Worker : v # w => lock'[v] = lock[v] /\ pc'[v] = pc[v]
        /\ lock' \in [Worker -> {"none", "SH", "EX"}] /\ pc' \in [Worker -> Pc]
    BY <1>1, <2>1 DEF Goto, Shape, Pc
  <2>3. Shape' /\ Only(w) /\ Granted(w) /\ Spared(w)
    BY <1>1, <1>2, <1>3, <2>2, FilesSpared DEF Shape, Only, Granted
  <2>4. Authority(w)
    BY <1>2, AuthorityKept
  <2>5. Owned(w)' /\ Found(w)'
    BY <1>2, <1>3, <1>4, <2>2 DEF Owned, Found
  <2>q. QED BY <2>3, <2>4, <2>5, MoveKeeps
<1>q. QED BY <1>5, <1>6

\* A process is killed, perhaps while it removes an artifact.
LEMMA CrashKeeps ==
  ASSUME IInv, NEW w \in Worker, Crash(w)
  PROVE  IInv'
<1>1. Shape /\ Owned(w)
  BY DEF IInv
<1>2. Leave(w)
  BY DEF Crash
<1>3. /\ lock' \in [Worker -> {"none", "SH", "EX"}] /\ lock'[w] = "none"
      /\ pinned' \in [Worker -> BOOLEAN]
      /\ \A v \in Worker : v # w => lock'[v] = lock[v] /\ pinned'[v] = pinned[v]
  BY <1>1 DEF Crash, Shape
<1>4. Authority(w)
  <2>1. TrimRecord
    BY DEF IInv, Trimming
  <2>2. trim' = IF trim.by = w THEN NoTrim ELSE trim
    BY DEF Crash
  <2>q. QED BY <2>1, <2>2, CacheAssumption DEF Authority, TrimRecord, NoTrim
<1>5. Spared(w) /\ file' \in [Key -> Content]
  <2>1. CASE file' = file
    BY <1>1, <2>1, FilesSpared DEF Shape
  <2>2. CASE \E k \in Key : Removing(w, k) /\ file' = [file EXCEPT ![k] = "partial"]
    <3>1. PICK k \in Key : Removing(w, k) /\ file' = [file EXCEPT ![k] = "partial"]
      BY <2>2
    <3>2. CASE Evictable(k)
      BY <3>1, <3>2, IdleSpares DEF Evictable, Content
    <3>3. CASE pc[w] = "remove" /\ k = key[w] /\ file[k] \in {"good", "rotten"}
      <4>1. lock[w] = "EX"
        BY <1>1, <3>3 DEF Owned
      <4>q. QED BY <1>1, <3>1, <3>3, <4>1, WriterSpares DEF Content, Shape
    <3>q. QED BY <3>1, <3>2, <3>3 DEF Removing
  <2>q. QED BY <2>1, <2>2 DEF Crash
<1>q. QED BY <1>2, <1>3, <1>4, <1>5, LeaveKeeps

\* Nobody moves, and the files in use stay as they are.
LEMMA StillKeeps ==
  ASSUME IInv, UNCHANGED <<pc, key, lock, pinned, trim>>, file' \in [Key -> Content],
         \A v \in Worker : pc[v] \in {"build", "publish", "commit", "retain", "using"} =>
            file'[key[v]] = file[key[v]]
  PROVE  IInv'
<1>1. Shape' /\ Exclusive'
  BY DEF IInv, Shape, Exclusive
<1>2. Trimming'
  BY DEF IInv, Trimming, TrimRecord
<1>3. ASSUME NEW v \in Worker PROVE Owned(v)' /\ Found(v)'
  <2>1. Owned(v) /\ Found(v)
    BY DEF IInv
  <2>q. QED BY <2>1 DEF Owned, Found
<1>q. QED BY <1>1, <1>2, <1>3 DEF IInv

\* An artifact nobody uses rots.
LEMMA RotKeeps ==
  ASSUME IInv, NEW k \in Key, Rot(k)
  PROVE  IInv'
<1>1. /\ Idle(k) /\ file' = [file EXCEPT ![k] = "rotten"]
      /\ UNCHANGED <<pc, key, lock, pinned, trim>>
  BY DEF Rot, process
<1>2. Spared(None) /\ file' \in [Key -> Content]
  BY <1>1, IdleSpares DEF Content
<1>3. \A v \in Worker : v # None
  BY CacheAssumption
<1>4. \A v \in Worker : pc[v] \in {"build", "publish", "commit", "retain", "using"} =>
         file'[key[v]] = file[key[v]]
  BY <1>2, <1>3 DEF Spared
<1>q. QED BY <1>1, <1>2, <1>4, StillKeeps

-----------------------------------------------------------------------------
(***************************************************************************)
(* Sums.  A sum is the number of its units, so what the quota needs of     *)
(* sums follows from what is known of finite sets.                         *)
(***************************************************************************)

\* A unit of a sum belongs to one key.
LEMMA UnitOf ==
  ASSUME NEW f, NEW K, NEW u
  PROVE  u \in Units(f, K) <=> \E k \in K : \E i \in 1..f[k] : u = <<k, i>>
BY DEF Units

\* A finite sum is a number.
LEMMA SumType ==
  ASSUME NEW K, IsFiniteSet(K), NEW f, \A k \in K : f[k] \in Nat
  PROVE  IsFiniteSet(Units(f, K)) /\ Total(f, K) \in Nat
<1> DEFINE Column == {{k} \X (1..f[k]) : k \in K}
           g == [k \in K |-> {k} \X (1..f[k])]
<1>1. g \in Surjection(K, Column)
  BY DEF Surjection
<1>2. IsFiniteSet(Column)
  BY <1>1, FS_Surjection
<1>3. ASSUME NEW T \in Column PROVE IsFiniteSet(T)
  <2>1. PICK k \in K : T = {k} \X (1..f[k])
    OBVIOUS
  <2>2. IsFiniteSet({k})
    BY FS_Singleton
  <2>3. f[k] \in Int
    OBVIOUS
  <2>4. IsFiniteSet(1..f[k])
    BY <2>3, FS_Interval
  <2>q. QED BY <2>1, <2>2, <2>4, FS_Product
<1>4. IsFiniteSet(UNION Column)
  BY <1>2, <1>3, FS_UNION
<1>q. QED BY <1>4, FS_CardinalityType DEF Units, Total

\* A part of a sum is not larger.
LEMMA SumPart ==
  ASSUME NEW K, IsFiniteSet(K), NEW f, \A k \in K : f[k] \in Nat, NEW J \in SUBSET K
  PROVE  Total(f, J) <= Total(f, K)
<1>1. Units(f, J) \in SUBSET Units(f, K)
  BY UnitOf
<1>2. IsFiniteSet(Units(f, K))
  BY SumType
<1>q. QED BY <1>1, <1>2, FS_Subset DEF Total

\* Nor is a sum of smaller numbers.
LEMMA SumMonotone ==
  ASSUME NEW K, IsFiniteSet(K), NEW f, NEW g,
         \A k \in K : f[k] \in Nat /\ g[k] \in Nat /\ f[k] <= g[k]
  PROVE  Total(f, K) <= Total(g, K)
<1>1. Units(f, K) \in SUBSET Units(g, K)
  <2> SUFFICES ASSUME NEW u \in Units(f, K) PROVE u \in Units(g, K)
    OBVIOUS
  <2>1. PICK k \in K : \E i \in 1..f[k] : u = <<k, i>>
    BY UnitOf
  <2>2. PICK i \in 1..f[k] : u = <<k, i>>
    BY <2>1
  <2>3. i \in 1..g[k]
    OBVIOUS
  <2>q. QED BY <2>2, <2>3, UnitOf
<1>2. IsFiniteSet(Units(g, K))
  BY SumType
<1>q. QED BY <1>1, <1>2, FS_Subset DEF Total

\* One number more adds itself.
LEMMA SumAdd ==
  ASSUME NEW K, IsFiniteSet(K), NEW f, \A k \in K : f[k] \in Nat, NEW a, a \notin K, f[a] \in Nat
  PROVE  Total(f, K \union {a}) = Total(f, K) + f[a]
<1> DEFINE Own == {a} \X (1..f[a])
<1>1. IsFiniteSet(1..f[a]) /\ Cardinality(1..f[a]) = f[a]
  BY FS_Interval
<1>2. IsFiniteSet({a}) /\ Cardinality({a}) = 1
  BY FS_Singleton
<1>3. IsFiniteSet(Own) /\ Cardinality(Own) = f[a]
  <2>1. IsFiniteSet(Own) /\ Cardinality(Own) = Cardinality({a}) * Cardinality(1..f[a])
    BY <1>1, <1>2, FS_Product
  <2>2. \A n \in Nat : 1 * n = n
    OBVIOUS
  <2>q. QED BY <1>1, <1>2, <2>1, <2>2
<1>4. Units(f, K \union {a}) = Units(f, K) \union Own
  BY UnitOf
<1>5. Units(f, K) \cap Own = {}
  BY UnitOf
<1>6. IsFiniteSet(Units(f, K)) /\ Total(f, K) \in Nat
  BY SumType
<1>7. Cardinality(Units(f, K) \union Own)
        = Cardinality(Units(f, K)) + Cardinality(Own) - Cardinality(Units(f, K) \cap Own)
  BY <1>3, <1>6, FS_Union
<1>8. Cardinality(Units(f, K) \cap Own) = 0
  BY <1>5, FS_EmptySet
<1>9. Cardinality(Units(f, K \union {a})) = Cardinality(Units(f, K)) + f[a]
  <2> HIDE DEF Own
  <2>1. Cardinality(Units(f, K)) \in Nat
    BY <1>6, FS_CardinalityType
  <2>2. Cardinality(Units(f, K \union {a})) = Cardinality(Units(f, K) \union Own)
    BY <1>4
  <2>3. Cardinality(Units(f, K) \union Own) = Cardinality(Units(f, K)) + f[a] - 0
    BY <1>3, <1>7, <1>8
  <2>4. \A m, n \in Nat : m + n - 0 = m + n
    OBVIOUS
  <2>q. QED BY <2>1, <2>2, <2>3, <2>4
<1>q. QED BY <1>9 DEF Total

\* Equal numbers have the same sum.
LEMMA SumSame ==
  ASSUME NEW K, NEW f, NEW g, \A k \in K : f[k] = g[k]
  PROVE  Total(f, K) = Total(g, K)
BY DEF Total, Units

\* Another number in one place changes the sum by the difference.
LEMMA SumReplace ==
  ASSUME NEW K, IsFiniteSet(K), NEW f \in [K -> Nat], NEW g \in [K -> Nat], NEW a \in K,
         \A k \in K : k # a => g[k] = f[k]
  PROVE  Total(g, K) = Total(f, K) - f[a] + g[a]
<1> DEFINE J == K \ {a}
<1>1. IsFiniteSet(J) /\ K = J \union {a} /\ a \notin J
  BY FS_Difference
<1>2. Total(f, J) = Total(g, J)
  BY SumSame
<1>3. Total(f, K) = Total(f, J) + f[a]
  BY <1>1, SumAdd
<1>4. Total(g, K) = Total(g, J) + g[a]
  BY <1>1, SumAdd
<1>5. Total(f, J) \in Nat /\ f[a] \in Nat /\ g[a] \in Nat
  BY <1>1, SumType
<1>q. QED BY <1>2, <1>3, <1>4, <1>5

\* A number is at most the sum it is part of.
LEMMA SumBounds ==
  ASSUME NEW K, IsFiniteSet(K), NEW f, \A k \in K : f[k] \in Nat, NEW a \in K
  PROVE  f[a] <= Total(f, K)
<1> DEFINE J == K \ {a}
<1>1. IsFiniteSet(J) /\ K = J \union {a} /\ a \notin J
  BY FS_Difference
<1>2. Total(f, K) = Total(f, J) + f[a]
  BY <1>1, SumAdd
<1>3. Total(f, J) \in Nat
  BY <1>1, SumType
<1>q. QED BY <1>2, <1>3

\* A union has at most the elements of both.
LEMMA UnionBound ==
  ASSUME NEW S, NEW T, IsFiniteSet(S), IsFiniteSet(T)
  PROVE  Cardinality(S \union T) <= Cardinality(S) + Cardinality(T)
<1>1. Cardinality(S \union T) = Cardinality(S) + Cardinality(T) - Cardinality(S \cap T)
  BY FS_Union
<1>2. Cardinality(S) \in Nat /\ Cardinality(T) \in Nat /\ Cardinality(S \cap T) \in Nat
  BY FS_CardinalityType, FS_Intersection
<1>q. QED BY <1>1, <1>2

\* Two sums in which each part of one is paid by a part of its own of the other.
LEMMA SumPaid ==
  ASSUME NEW K, NEW W, IsFiniteSet(W), NEW f, NEW g, \A v \in W : g[v] \in Nat,
         NEW h, \A k \in K : h[k] \in W /\ f[k] \in Nat /\ f[k] <= g[h[k]],
         \A j, k \in K : h[j] = h[k] => j = k
  PROVE  Total(f, K) <= Total(g, W)
<1> DEFINE e == [u \in Units(f, K) |-> <<h[u[1]], u[2]>>]
<1>1. ASSUME NEW u \in Units(f, K)
      PROVE  u = <<u[1], u[2]>> /\ u[1] \in K /\ e[u] \in Units(g, W)
  <2>1. PICK k \in K : \E i \in 1..f[k] : u = <<k, i>>
    BY UnitOf
  <2>2. PICK i \in 1..f[k] : u = <<k, i>>
    BY <2>1
  <2>3. i \in 1..g[h[k]] /\ h[k] \in W
    OBVIOUS
  <2>4. <<h[k], i>> \in Units(g, W)
    BY <2>3, UnitOf
  <2>q. QED BY <2>2, <2>4
<1>2. e \in Injection(Units(f, K), Units(g, W))
  <2>1. e \in [Units(f, K) -> Units(g, W)]
    BY <1>1
  <2>2. ASSUME NEW u \in Units(f, K), NEW v \in Units(f, K), e[u] = e[v] PROVE u = v
    <3>1. h[u[1]] = h[v[1]] /\ u[2] = v[2]
      BY <2>2
    <3>q. QED BY <1>1, <3>1
  <2>q. QED BY <2>1, <2>2 DEF Injection, IsInjective
<1>3. IsFiniteSet(Units(g, W))
  BY SumType
<1>q. QED BY <1>2, <1>3, FS_Injection DEF Total

-----------------------------------------------------------------------------
(***************************************************************************)
(* The records: a sequence of keys without repetition.                     *)
(***************************************************************************)

\* Without one place, the later ones move up.
LEMMA RemovedAt ==
  ASSUME NEW s \in Seq(Key), NEW n \in 1..Len(s)
  PROVE  /\ RemoveAt(s, n) \in Seq(Key) /\ Len(RemoveAt(s, n)) = Len(s) - 1
         /\ \A i \in 1..(Len(s) - 1) : RemoveAt(s, n)[i] = IF i < n THEN s[i] ELSE s[i + 1]
<1> DEFINE a == SubSeq(s, 1, n - 1)
           b == SubSeq(s, n + 1, Len(s))
           r == RemoveAt(s, n)
<1>0. Len(s) \in Nat /\ n \in Nat /\ 1 <= n /\ n <= Len(s)
  OBVIOUS
<1>1. a \in Seq(Key) /\ Len(a) = n - 1 /\ \A i \in 1..(n - 1) : a[i] = s[i]
  BY <1>0
<1>2. b \in Seq(Key) /\ Len(b) = Len(s) - n /\ \A i \in 1..(Len(s) - n) : b[i] = s[n + i]
  BY <1>0
<1>3. r = a \o b
  BY DEF RemoveAt
<1> HIDE DEF a, b, r
<1>4. r \in Seq(Key) /\ Len(r) = Len(s) - 1
  <2>1. r \in Seq(Key) /\ Len(r) = Len(a) + Len(b)
    BY <1>1, <1>2, <1>3, ConcatProperties
  <2>q. QED BY <1>0, <1>1, <1>2, <2>1
<1>5. ASSUME NEW i \in 1..(Len(s) - 1) PROVE r[i] = IF i < n THEN s[i] ELSE s[i + 1]
  <2>1. CASE i < n
    BY <1>0, <1>1, <1>2, <1>3, <2>1
  <2>2. CASE ~(i < n)
    <3>1. i - (n - 1) \in 1..(Len(s) - n) /\ n + (i - (n - 1)) = i + 1
      BY <1>0, <2>2
    <3>2. r[i] = b[i - (n - 1)]
      BY <1>0, <1>1, <1>2, <1>3, <2>2, <3>1
    <3>q. QED BY <1>2, <2>2, <3>1, <3>2
  <2>q. QED BY <2>1, <2>2
<1>q. QED BY <1>4, <1>5 DEF r

\* Without a key, the others stay as they were.
LEMMA WithoutKeys ==
  ASSUME NEW s \in Seq(Key), IsInjective(s), NEW k
  PROVE  /\ Without(s, k) \in Seq(Key) /\ IsInjective(Without(s, k))
         /\ ToSet(Without(s, k)) = ToSet(s) \ {k}
<1>1. CASE k \notin ToSet(s)
  BY <1>1 DEF Without
<1>2. CASE k \in ToSet(s)
  <2> DEFINE n == Place(s, k)
             r == RemoveAt(s, n)
  <2>1. n \in DOMAIN s /\ s[n] = k
    BY <1>2 DEF Place, ToSet
  <2>2. n \in 1..Len(s) /\ Len(s) \in Nat /\ DOMAIN s = 1..Len(s)
    BY <2>1
  <2> HIDE DEF n
  <2>3. /\ r \in Seq(Key) /\ Len(r) = Len(s) - 1
        /\ \A i \in 1..(Len(s) - 1) : r[i] = IF i < n THEN s[i] ELSE s[i + 1]
    BY <2>2, RemovedAt
  <2>4. DOMAIN r = 1..(Len(s) - 1)
    BY <2>3
  <2> HIDE DEF r
  <2>5. IsInjective(r)
    <3> SUFFICES ASSUME NEW i \in 1..(Len(s) - 1), NEW j \in 1..(Len(s) - 1), r[i] = r[j] PROVE i = j
      BY <2>4 DEF IsInjective
    <3>1. \A a, b \in 1..Len(s) : s[a] = s[b] => a = b
      BY <2>2 DEF IsInjective
    <3>2. PICK a \in 1..Len(s) : a = (IF i < n THEN i ELSE i + 1) /\ r[i] = s[a]
      BY <2>2, <2>3
    <3>3. PICK b \in 1..Len(s) : b = (IF j < n THEN j ELSE j + 1) /\ r[j] = s[b]
      BY <2>2, <2>3
    <3>4. a = b
      BY <3>1, <3>2, <3>3
    <3>q. QED BY <2>2, <3>2, <3>3, <3>4
  <2>6. ASSUME NEW x \in ToSet(r) PROVE x \in ToSet(s) \ {k}
    <3>1. PICK i \in 1..(Len(s) - 1) : x = r[i]
      BY <2>4, <2>6 DEF ToSet
    <3>2. PICK j \in 1..Len(s) : x = s[j] /\ j # n
      BY <2>2, <2>3, <3>1
    <3>3. x # k
      BY <2>1, <2>2, <3>2 DEF IsInjective
    <3>q. QED BY <2>2, <3>2, <3>3 DEF ToSet
  <2>7. ASSUME NEW x \in ToSet(s) \ {k} PROVE x \in ToSet(r)
    <3>1. PICK j \in 1..Len(s) : x = s[j]
      BY <2>2 DEF ToSet
    <3>2. j # n
      BY <2>1, <3>1
    <3>3. PICK i \in 1..(Len(s) - 1) : x = r[i]
      <4>1. CASE j < n
        BY <2>2, <2>3, <3>1, <4>1
      <4>2. CASE j > n
        <5>1. j - 1 \in 1..(Len(s) - 1) /\ ~(j - 1 < n) /\ (j - 1) + 1 = j
          BY <2>2, <4>2
        <5>q. QED BY <2>3, <3>1, <5>1
      <4>q. QED BY <2>2, <3>2, <4>1, <4>2
    <3>q. QED BY <2>4, <3>3 DEF ToSet
  <2>8. Without(s, k) = r
    BY <1>2 DEF Without, r, n
  <2>q. QED BY <2>3, <2>5, <2>6, <2>7, <2>8
<1>q. QED BY <1>1, <1>2

\* A key at the end of a sequence without it.
LEMMA AppendKeys ==
  ASSUME NEW s \in Seq(Key), IsInjective(s), NEW k \in Key, k \notin ToSet(s)
  PROVE  /\ Append(s, k) \in Seq(Key) /\ IsInjective(Append(s, k))
         /\ ToSet(Append(s, k)) = ToSet(s) \union {k}
<1> DEFINE r == Append(s, k)
<1>1. /\ r \in Seq(Key) /\ Len(r) = Len(s) + 1 /\ Len(s) \in Nat /\ r[Len(s) + 1] = k
      /\ \A i \in 1..Len(s) : r[i] = s[i]
  OBVIOUS
<1> HIDE DEF r
<1>2. DOMAIN r = 1..(Len(s) + 1) /\ DOMAIN s = 1..Len(s)
  BY <1>1
<1>3. \A i \in 1..Len(s) : s[i] # k
  BY <1>2 DEF ToSet
<1>4. \A i \in 1..(Len(s) + 1) : i \in 1..Len(s) \/ i = Len(s) + 1
  BY <1>1
<1>5. IsInjective(r)
  <2> SUFFICES ASSUME NEW i \in 1..(Len(s) + 1), NEW j \in 1..(Len(s) + 1), r[i] = r[j] PROVE i = j
    BY <1>2 DEF IsInjective
  <2>1. \A a, b \in 1..Len(s) : s[a] = s[b] => a = b
    BY <1>2 DEF IsInjective
  <2>q. QED BY <1>1, <1>3, <1>4, <2>1
<1>6. ToSet(r) = ToSet(s) \union {k}
  <2>1. ASSUME NEW x \in ToSet(r) PROVE x \in ToSet(s) \union {k}
    BY <1>1, <1>2, <1>4 DEF ToSet
  <2>2. ASSUME NEW x \in ToSet(s) PROVE x \in ToSet(r)
    <3>1. PICK i \in 1..Len(s) : x = s[i]
      BY <1>2 DEF ToSet
    <3>2. i \in 1..(Len(s) + 1) /\ x = r[i]
      BY <1>1, <3>1
    <3>q. QED BY <1>2, <3>2 DEF ToSet
  <2>3. k \in ToSet(r)
    <3>1. Len(s) + 1 \in 1..(Len(s) + 1)
      BY <1>1
    <3>q. QED BY <1>1, <1>2, <3>1 DEF ToSet
  <2>q. QED BY <2>1, <2>2, <2>3
<1>q. QED BY <1>1, <1>5, <1>6 DEF r

\* The record of a key moves to the end.
LEMMA TouchedKeys ==
  ASSUME recorded \in Seq(Key), IsInjective(recorded), NEW k \in Key
  PROVE  /\ Touched(k) \in Seq(Key) /\ IsInjective(Touched(k))
         /\ ToSet(Touched(k)) = ToSet(recorded) \union {k}
<1>1. /\ Without(recorded, k) \in Seq(Key) /\ IsInjective(Without(recorded, k))
      /\ ToSet(Without(recorded, k)) = ToSet(recorded) \ {k}
  BY WithoutKeys
<1>2. k \notin ToSet(Without(recorded, k))
  BY <1>1
<1>q. QED BY <1>1, <1>2, AppendKeys DEF Touched

\* An end of a sequence.
LEMMA EndOf ==
  ASSUME NEW s \in Seq(Key), NEW m \in 0..Len(s)
  PROVE  /\ SubSeq(s, m + 1, Len(s)) \in Seq(Key) /\ Len(SubSeq(s, m + 1, Len(s))) = Len(s) - m
         /\ \A i \in 1..(Len(s) - m) : SubSeq(s, m + 1, Len(s))[i] = s[m + i]
  OBVIOUS

\* What is left of an end of a sequence after its head is an end of it.
LEMMA TailOfEnd ==
  ASSUME NEW s \in Seq(Key), NEW n \in 0..Len(s), SubSeq(s, n + 1, Len(s)) # <<>>
  PROVE  n + 1 \in 0..Len(s) /\ Tail(SubSeq(s, n + 1, Len(s))) = SubSeq(s, n + 2, Len(s))
<1> DEFINE t == SubSeq(s, n + 1, Len(s))
           r == SubSeq(s, n + 2, Len(s))
<1>1. n # Len(s)
  <2>1. SubSeq(s, Len(s) + 1, Len(s)) = <<>>
    OBVIOUS
  <2>q. QED BY <2>1
<1>2. n + 1 \in 0..Len(s)
  BY <1>1
<1>3. t \in Seq(Key) /\ Len(t) = Len(s) - n /\ \A i \in 1..(Len(s) - n) : t[i] = s[n + i]
  BY EndOf
<1>4. r \in Seq(Key) /\ Len(r) = Len(s) - n - 1 /\ \A i \in 1..(Len(s) - n - 1) : r[i] = s[n + 1 + i]
  <2> HIDE DEF t, r
  <2>1. PICK m : m = n + 1
    OBVIOUS
  <2>2. m \in 0..Len(s)
    BY <1>2, <2>1
  <2>3. /\ SubSeq(s, m + 1, Len(s)) \in Seq(Key) /\ Len(SubSeq(s, m + 1, Len(s))) = Len(s) - m
        /\ \A i \in 1..(Len(s) - m) : SubSeq(s, m + 1, Len(s))[i] = s[m + i]
    BY <2>2, EndOf
  <2>4. m + 1 = n + 2 /\ Len(s) - m = Len(s) - n - 1
    BY <2>1
  <2>5. r = SubSeq(s, m + 1, Len(s))
    BY <2>4 DEF r
  <2>q. QED BY <2>1, <2>3, <2>4, <2>5
<1> HIDE DEF t, r
<1>5. Tail(t) \in Seq(Key) /\ Len(Tail(t)) = Len(s) - n - 1
      /\ \A i \in 1..(Len(s) - n - 1) : Tail(t)[i] = t[i + 1]
  BY <1>2, <1>3
<1>6. \A i \in 1..(Len(s) - n - 1) : Tail(t)[i] = r[i]
  BY <1>2, <1>3, <1>4, <1>5
<1>7. Tail(t) = r
  BY <1>4, <1>5, <1>6, SeqEqual
<1>q. QED BY <1>2, <1>7 DEF t, r

-----------------------------------------------------------------------------
(***************************************************************************)
(* What the quota rests on.                                                *)
(***************************************************************************)

\* The artifacts that are charged for themselves: neither in the hands of the
\* process that publishes them nor left behind by one that died or failed there.
Counted == {k \in Key : Present(k) /\ k \notin stray /\ \A w \in Worker : pc[w] = "commit" => key[w] # k}

\* The records, and the trimmer's copy of them.
Records ==
  /\ recorded \in Seq(Key) /\ IsInjective(recorded)
  /\ trim.left \in Seq(Key) /\ IsInjective(trim.left) /\ ToSet(trim.left) \subseteq ToSet(recorded)
  /\ \E n \in 0..Len(recorded) : trim.todo = SubSeq(recorded, n + 1, Len(recorded))
  /\ trim.by = None => trim = NoTrim

\* They are all recorded, also in what the trimmer is about to write.
Covered ==
  /\ Counted \subseteq ToSet(recorded)
  /\ trim.by # None => Counted \subseteq ToSet(trim.left)

\* What is about to be published was promised but for its estimate; of what is
\* about to be committed the lease still promises what it did at publication.
Backed ==
  /\ growth \in [Worker -> Nat]
  /\ \A w \in Worker :
       /\ pc[w] = "publish" => Size[key[w]] <= growth[w] + Estimated(w)
       /\ pc[w] = "commit" => paid[key[w]] <= growth[w]

\* The larger estimate.
Slack == Max({Estimate, HitEstimate})

\* What was promised for an artifact is its size, but for an estimate.
Priced ==
  /\ paid \in [Key -> Nat]
  /\ \A k \in Key : paid[k] <= Size[k] /\ (Present(k) => Size[k] <= paid[k] + Slack)

\* What was promised for what is there and what is promised fit.
Room == Total(paid, Counted) + Promised <= Limit

\* The rest of the type invariant.
Columns ==
  /\ trim.by \in Worker \union {None}
  /\ missing \in [Worker -> BOOLEAN]
  /\ crashes \in 0..MaxCrashes /\ damage \in 0..MaxDamage /\ stray \subseteq Key

Ledger == Records /\ Covered /\ Backed /\ Priced /\ Room /\ Columns

\* The larger of two numbers is not smaller than either.
LEMMA MaxOfTwo ==
  ASSUME NEW a \in Int, NEW b \in Int
  PROVE  Max({a, b}) \in {a, b} /\ Max({a, b}) >= a /\ Max({a, b}) >= b
<1>1. \E x \in {a, b} : \A y \in {a, b} : x >= y
  <2>1. CASE a >= b
    BY <2>1
  <2>2. CASE ~(a >= b)
    BY <2>2
  <2>q. QED BY <2>1, <2>2
<1>2. Max({a, b}) \in {a, b} /\ \A y \in {a, b} : Max({a, b}) >= y
  BY <1>1 DEF Max
<1>q. QED BY <1>2

\* The smaller of two numbers is not larger than either.
LEMMA MinOfTwo ==
  ASSUME NEW a \in Int, NEW b \in Int
  PROVE  Min({a, b}) \in {a, b} /\ Min({a, b}) <= a /\ Min({a, b}) <= b
<1>1. \E x \in {a, b} : \A y \in {a, b} : x <= y
  <2>1. CASE a <= b
    BY <2>1
  <2>2. CASE ~(a <= b)
    BY <2>2
  <2>q. QED BY <2>1, <2>2
<1>2. Min({a, b}) \in {a, b} /\ \A y \in {a, b} : Min({a, b}) <= y
  BY <1>1 DEF Min
<1>q. QED BY <1>2

\* No estimate is larger.
LEMMA SlackCovers ==
  ASSUME NEW w
  PROVE  Slack \in Nat /\ Estimated(w) \in Nat /\ Estimated(w) <= Slack
<1>1. Estimate \in Nat /\ HitEstimate \in Nat
  BY CacheAssumption
<1>2. /\ Max({Estimate, HitEstimate}) \in {Estimate, HitEstimate}
      /\ Max({Estimate, HitEstimate}) >= Estimate /\ Max({Estimate, HitEstimate}) >= HitEstimate
  BY <1>1, MaxOfTwo
<1>q. QED BY <1>1, <1>2 DEF Slack, Estimated

\* Sums of sizes.
LEMMA SizesOf ==
  ASSUME NEW K \in SUBSET Key
  PROVE  /\ IsFiniteSet(K) /\ Sizes(K) \in Nat
         /\ \A J \in SUBSET K : Sizes(J) <= Sizes(K)
<1>1. IsFiniteSet(K) /\ \A k \in K : Size[k] \in Nat
  BY CacheAssumption, FS_Subset
<1>q. QED BY <1>1, SumType, SumPart DEF Sizes

\* Sums of what was promised.
LEMMA PaidOf ==
  ASSUME Priced, NEW K \in SUBSET Key
  PROVE  /\ Total(paid, K) \in Nat /\ Total(paid, K) <= Sizes(K)
         /\ \A J \in SUBSET K : Total(paid, J) <= Total(paid, K)
<1>1. IsFiniteSet(K) /\ \A k \in K : Size[k] \in Nat /\ paid[k] \in Nat /\ paid[k] <= Size[k]
  BY CacheAssumption, FS_Subset DEF Priced
<1>q. QED BY <1>1, SumType, SumPart, SumMonotone DEF Sizes

\* What is charged bounds what is counted and promised.
LEMMA ChargedCovers ==
  ASSUME Ledger
  PROVE  /\ Promised \in Nat /\ Total(paid, Counted) \in Nat /\ Charged \in Nat
         /\ Total(paid, Counted) + Promised <= Charged
<1>1. Promised \in Nat
  BY CacheAssumption, SumType DEF Promised, Ledger, Backed
<1>2. Counted \in SUBSET Key /\ ToSet(recorded) \in SUBSET Key /\ Counted \in SUBSET ToSet(recorded)
  BY DEF Counted, Ledger, Records, Covered, ToSet
<1>3. /\ Sizes(Counted) \in Nat /\ Sizes(ToSet(recorded)) \in Nat
      /\ Sizes(Counted) <= Sizes(ToSet(recorded))
  BY <1>2, SizesOf
<1>4. Total(paid, Counted) \in Nat /\ Total(paid, Counted) <= Sizes(Counted)
  BY <1>2, PaidOf DEF Ledger
<1>q. QED BY <1>1, <1>3, <1>4 DEF Charged

\* The promises when one of them changes.
LEMMA PromisesReplaced ==
  ASSUME NEW f \in [Worker -> Nat], NEW g \in [Worker -> Nat], NEW w \in Worker,
         \A v \in Worker : v # w => g[v] = f[v]
  PROVE  Total(g, Worker) = Total(f, Worker) - f[w] + g[w]
BY CacheAssumption, SumReplace

\* A promise that is renewed for no more than there is room for.
LEMMA RoomKept ==
  ASSUME Ledger, NEW w \in Worker, NEW n \in Nat, growth' = [growth EXCEPT ![w] = n],
         Counted' \subseteq Counted, \A k \in Counted' : paid'[k] = paid[k],
         n <= growth[w] \/ Fits(n - growth[w])
  PROVE  Room'
<1>1. /\ Promised \in Nat /\ Total(paid, Counted) \in Nat /\ Charged \in Nat
      /\ Total(paid, Counted) + Promised <= Charged
  BY ChargedCovers
<1>2. growth \in [Worker -> Nat] /\ Total(paid, Counted) + Promised <= Limit
  BY DEF Ledger, Backed, Room
<1>3. Promised' = Promised - growth[w] + n
  <2>1. growth' \in [Worker -> Nat] /\ growth'[w] = n /\ \A v \in Worker : v # w => growth'[v] = growth[v]
    BY <1>2
  <2>2. Total(growth', Worker) = Total(growth, Worker) - growth[w] + growth'[w]
    BY <1>2, <2>1, PromisesReplaced
  <2>q. QED BY <2>1, <2>2 DEF Promised
<1>4. Total(paid', Counted') \in Nat /\ Total(paid', Counted') <= Total(paid, Counted)
  <2>1. Counted \in SUBSET Key /\ Counted' \in SUBSET Counted
    BY DEF Counted
  <2>2. Total(paid, Counted') <= Total(paid, Counted) /\ Total(paid, Counted') \in Nat
    BY <2>1, PaidOf DEF Ledger
  <2>3. Total(paid', Counted') = Total(paid, Counted')
    BY SumSame
  <2>q. QED BY <2>2, <2>3
<1>5. growth[w] \in Nat /\ Limit \in Nat
  BY <1>2, CacheAssumption
<1>6. n <= growth[w] \/ Charged + (n - growth[w]) <= Limit
  BY DEF Fits
<1>7. Total(paid', Counted') + Promised' <= Limit
  BY <1>1, <1>2, <1>3, <1>4, <1>5, <1>6
<1>q. QED BY <1>7 DEF Room

\* Nothing becomes countable in a step of a process that does not commit.
LEMMA CountedFalls ==
  ASSUME NEW w \in Worker, Only(w), pc[w] = "commit" => key[w] \in stray',
         \A k \in Key : Present(k)' /\ k \notin stray' =>
            (Present(k) /\ k \notin stray) \/ (pc'[w] = "commit" /\ key'[w] = k)
  PROVE  Counted' \subseteq Counted
<1> SUFFICES ASSUME NEW k \in Key, Present(k)', k \notin stray',
                    \A v \in Worker : pc'[v] = "commit" => key'[v] # k
             PROVE  k \in Counted
  BY DEF Counted
<1>1. Present(k) /\ k \notin stray
  OBVIOUS
<1>2. ASSUME NEW v \in Worker, pc[v] = "commit" PROVE key[v] # k
  BY <1>2 DEF Only
<1>q. QED BY <1>1, <1>2 DEF Counted

\* A step of w leaves to the others what was promised to them.
Respected(w) ==
  /\ \A v \in Worker : v # w => missing'[v] = missing[v]
  /\ \A v \in Worker : v # w /\ pc[v] = "commit" => paid'[key[v]] = paid[key[v]]
  /\ \A k \in Counted' : paid'[k] = paid[k]

\* The ledger after a step of one process that commits nothing.
LEMMA LedgerKept ==
  ASSUME Ledger, NEW w \in Worker, Only(w), Respected(w),
         NEW n \in Nat, growth' = [growth EXCEPT ![w] = n],
         n <= growth[w] \/ Fits(n - growth[w]),
         pc'[w] = "publish" => Size[key'[w]] <= n + Estimated(w)',
         pc'[w] = "commit" => paid'[key'[w]] <= n,
         Counted' \subseteq Counted, Records', Covered', Priced', Columns'
  PROVE  Ledger'
<1>1. growth \in [Worker -> Nat] /\ Backed
  BY DEF Ledger, Backed
<1>2. growth' \in [Worker -> Nat] /\ growth'[w] = n /\ \A v \in Worker : v # w => growth'[v] = growth[v]
  BY <1>1
<1>3. Backed'
  <2>1. ASSUME NEW v \in Worker
        PROVE  /\ pc'[v] = "publish" => Size[key'[v]] <= growth'[v] + Estimated(v)'
               /\ pc'[v] = "commit" => paid'[key'[v]] <= growth'[v]
    <3>1. CASE v = w
      BY <1>2, <3>1
    <3>2. CASE v # w
      <4>1. /\ pc'[v] = pc[v] /\ key'[v] = key[v] /\ growth'[v] = growth[v] /\ missing'[v] = missing[v]
            /\ pc[v] = "commit" => paid'[key[v]] = paid[key[v]]
        BY <1>2, <3>2 DEF Only, Respected
      <4>q. QED BY <1>1, <4>1 DEF Backed, Estimated
    <3>q. QED BY <3>1, <3>2
  <2>q. QED BY <1>2, <2>1 DEF Backed
<1>4. Room'
  BY RoomKept DEF Respected
<1>q. QED BY <1>3, <1>4 DEF Ledger

\* Nothing is published, nothing forgotten.
LEMMA PaidSame ==
  ASSUME Ledger, NEW w \in Worker, paid' = paid, \A k \in Key : Present(k)' => Present(k),
         \A v \in Worker : v # w => missing'[v] = missing[v]
  PROVE  Respected(w) /\ Priced'
BY DEF Respected, Ledger, Priced

\* An artifact is removed that nobody is about to commit.
LEMMA Forgotten ==
  ASSUME Ledger, IInv, NEW w \in Worker, NEW j \in Key, Forget(j), missing' = missing,
         \A v \in Worker : v # w /\ pc[v] = "commit" => key[v] # j
  PROVE  Respected(w) /\ Priced'
<1>1. /\ paid \in [Key -> Nat]
      /\ \A k \in Key : paid[k] <= Size[k] /\ (Present(k) => Size[k] <= paid[k] + Slack)
  BY DEF Ledger, Priced
<1>2. file \in [Key -> Content]
  BY DEF IInv, Shape
<1>3. /\ paid' \in [Key -> Nat] /\ paid'[j] = 0 /\ ~Present(j)'
      /\ \A k \in Key : k # j => paid'[k] = paid[k] /\ Present(k)' = Present(k)
  BY <1>1, <1>2 DEF Forget, Present
<1>4. \A k \in Counted' : k # j /\ k \in Key
  BY <1>3 DEF Counted
<1>5. ASSUME NEW v \in Worker, v # w, pc[v] = "commit" PROVE paid'[key[v]] = paid[key[v]]
  BY <1>3, <1>5 DEF IInv, Owned, Keyless
<1>6. Priced'
  BY <1>1, <1>3, CacheAssumption DEF Priced
<1>q. QED BY <1>3, <1>4, <1>5, <1>6 DEF Respected

\* Records and trimmer stay.
LEMMA RecordsStay ==
  ASSUME Ledger, recorded' = recorded, trim' = trim, Counted' \subseteq Counted
  PROVE  Records' /\ Covered'
<1>1. Records' BY DEF Ledger, Records
<1>2. Covered' BY DEF Ledger, Covered
<1>q. QED BY <1>1, <1>2

\* A step that promises nothing and records nothing.
LEMMA QuietStep ==
  ASSUME Ledger, NEW w \in Worker, Only(w), Respected(w), UNCHANGED <<recorded, trim, growth>>,
         pc'[w] # "publish", pc'[w] = "commit" => paid'[key'[w]] <= growth[w],
         Counted' \subseteq Counted, Priced', Columns'
  PROVE  Ledger'
<1>1. growth \in [Worker -> Nat]
  BY DEF Ledger, Backed
<1>2. PICK n \in Nat : n = growth[w]
  BY <1>1
<1>3. growth' = [growth EXCEPT ![w] = n]
  BY <1>1, <1>2
<1>4. n <= growth[w]
  BY <1>2
<1>5. Records' /\ Covered'
  BY RecordsStay
<1>6. pc'[w] = "commit" => paid'[key'[w]] <= n
  BY <1>2
<1>q. QED BY <1>3, <1>4, <1>5, <1>6, LedgerKept

-----------------------------------------------------------------------------
(***************************************************************************)
(* The ledger, action by action.                                           *)
(***************************************************************************)

\* Each step of a process moves that process.
LEMMA OneMoves ==
  ASSUME IInv, NEW w \in Worker, Start(w) \/ Maintain(w) \/ Proceed(w) \/ Done(w) \/ Crash(w)
  PROVE  Only(w)
<1>1. Shape
  BY DEF IInv
<1>2. CASE \/ Maintain(w) \/ Adopt(w) \/ LookAgain(w) \/ Reserve(w) \/ ReserveRefused(w)
           \/ Probe(w) \/ WaitTimeout(w) \/ TrimEnds(w) \/ Rebuild(w) \/ Build(w) \/ Publish(w)
           \/ CheckFails(w)
  <2>1. UNCHANGED <<key, lock, pinned>>
    BY <1>2 DEF Maintain, Adopt, LookAgain, Reserve, ReserveRefused, Probe, WaitTimeout,
       TrimEnds, Rebuild, Build, Publish, CheckFails, process
  <2>2. \E p : Goto(w, p)
    BY <1>2 DEF Maintain, Adopt, LookAgain, Reserve, ReserveRefused, Probe, WaitTimeout,
       TrimEnds, Rebuild, Build, Publish, CheckFails
  <2>q. QED BY <1>1, <2>1, <2>2 DEF Only, Goto, Shape
<1>3. CASE TakeAuthority(w) \/ Evict(w) \/ Keep(w)
  BY <1>3 DEF TakeAuthority, Evict, Keep, process, Only
<1>4. CASE \/ TakeShared(w) \/ TakeExclusive(w) \/ Hit(w) \/ Commit(w, "commit") \/ ReadFails(w)
           \/ RebuildRefused(w) \/ BuildFails(w) \/ CommitFails(w) \/ Retain(w) \/ Convert(w)
  <2>1. key' = key /\ \E p : Goto(w, p)
    BY <1>4 DEF TakeShared, TakeExclusive, Hit, Commit, ReadFails, RebuildRefused, BuildFails,
       CommitFails, Retain, Convert
  <2>2. lock' = lock \/ \E m : lock' = [lock EXCEPT ![w] = m]
    BY <1>4 DEF TakeShared, TakeExclusive, Hit, Commit, ReadFails, RebuildRefused, BuildFails,
       CommitFails, Retain, Convert
  <2>3. pinned' = pinned \/ pinned' = [pinned EXCEPT ![w] = TRUE]
    BY <1>4 DEF TakeShared, TakeExclusive, Hit, Commit, ReadFails, RebuildRefused, BuildFails,
       CommitFails, Retain, Convert
  <2>q. QED BY <1>1, <2>1, <2>2, <2>3 DEF Only, Goto, Shape
<1>5. CASE ReturnUnpinned(w) \/ Release(w) \/ Done(w) \/ Crash(w)
  <2>1. Leave(w)
    BY <1>5 DEF ReturnUnpinned, Release, Done, Crash
  <2>2. lock' = lock \/ lock' = [lock EXCEPT ![w] = "none"]
    BY <1>5 DEF ReturnUnpinned, Release, Done, Crash
  <2>3. pinned' = pinned \/ pinned' = [pinned EXCEPT ![w] = FALSE]
    BY <1>5 DEF ReturnUnpinned, Release, Done, Crash
  <2>q. QED BY <1>1, <2>1, <2>2, <2>3 DEF Only, Leave, Goto, Shape
<1>6. CASE Start(w)
  BY <1>1, <1>6 DEF Start, Only, Goto, Shape
<1>q. QED BY <1>2, <1>3, <1>4, <1>5, <1>6 DEF Proceed, Trim

\* A step that leaves the files and the state alone.
LEMMA QuietMove ==
  ASSUME Ledger, NEW w \in Worker, Only(w),
         UNCHANGED <<file, stray, paid, recorded, trim, growth, crashes>>,
         damage' \in 0..MaxDamage,
         pc[w] # "commit", pc'[w] \notin {"publish", "commit"},
         missing' \in [Worker -> BOOLEAN], \A v \in Worker : v # w => missing'[v] = missing[v]
  PROVE  Ledger'
<1>1. Counted' \subseteq Counted
  BY CountedFalls DEF Present
<1>2. Columns'
  BY DEF Ledger, Columns
<1>3. Respected(w) /\ Priced'
  BY PaidSame DEF Present
<1>q. QED BY <1>1, <1>2, <1>3, QuietStep

\* The steps that do.
LEMMA QuietLedger ==
  ASSUME IInv, Ledger, NEW w \in Worker,
         \/ Start(w) \/ Maintain(w) \/ LookAgain(w) \/ ReserveRefused(w) \/ Probe(w)
         \/ TakeShared(w) \/ TakeExclusive(w) \/ WaitTimeout(w)
         \/ RebuildRefused(w) \/ BuildFails(w) \/ Retain(w) \/ Convert(w)
         \/ ReturnUnpinned(w) \/ Done(w)
  PROVE  Ledger'
<1>1. Only(w)
  BY OneMoves DEF Proceed
<1>2. UNCHANGED <<file, stray, paid, recorded, trim, growth, bounds>>
  BY DEF Start, Maintain, LookAgain, ReserveRefused, Probe, TakeShared, TakeExclusive,
     WaitTimeout, RebuildRefused, BuildFails, Retain, Convert, ReturnUnpinned, Done, history
<1>3. pc[w] # "commit"
  BY DEF Start, Maintain, LookAgain, ReserveRefused, Probe, TakeShared, TakeExclusive,
     WaitTimeout, RebuildRefused, BuildFails, Retain, Convert, ReturnUnpinned, Done
<1>4. \E p : Goto(w, p) /\ p \notin {"publish", "commit"}
  BY DEF Start, Maintain, LookAgain, ReserveRefused, Probe, TakeShared, TakeExclusive,
     WaitTimeout, RebuildRefused, BuildFails, Retain, Convert, ReturnUnpinned, Done, Leave
<1>5. pc'[w] \notin {"publish", "commit"}
  BY <1>4 DEF Goto, IInv, Shape
<1>6. missing \in [Worker -> BOOLEAN]
  BY DEF Ledger, Columns
<1>7. missing' = missing \/ \E b \in BOOLEAN : missing' = [missing EXCEPT ![w] = b]
  BY DEF Start, Maintain, LookAgain, ReserveRefused, Probe, TakeShared, TakeExclusive,
     WaitTimeout, RebuildRefused, BuildFails, Retain, Convert, ReturnUnpinned, Done, Leave,
     process, Present
<1>8. missing' \in [Worker -> BOOLEAN] /\ \A v \in Worker : v # w => missing'[v] = missing[v]
  BY <1>6, <1>7
<1>9. UNCHANGED crashes /\ damage' \in 0..MaxDamage
  BY <1>2 DEF bounds, Ledger, Columns
<1>q. QED BY <1>1, <1>2, <1>3, <1>5, <1>8, <1>9, QuietMove

\* What is rebuilt is gone, and no longer left behind.
LEMMA RebuildLedger ==
  ASSUME IInv, Ledger, NEW w \in Worker, Rebuild(w)
  PROVE  Ledger'
<1>1. Only(w) /\ Shape /\ Owned(w)
  BY OneMoves DEF Proceed, IInv
<1>2. pc[w] = "remove" /\ key[w] \in Key /\ pc'[w] = "build" /\ lock[w] = "EX"
  BY <1>1 DEF Rebuild, Owned, Keyless, Goto, Shape
<1>3. Forget(key[w]) /\ missing' = missing
  BY DEF Rebuild, process
<1>4. \A k \in Key : Present(k)' /\ k \notin stray' => Present(k) /\ k \notin stray
  BY <1>1, <1>2, <1>3 DEF Forget, Present, Shape
<1>5. Counted' \subseteq Counted
  BY <1>1, <1>2, <1>4, CountedFalls
<1>6. Columns'
  BY <1>3 DEF Forget, Ledger, Columns, Rebuild, bounds, process
<1>7. ASSUME NEW v \in Worker, v # w, pc[v] = "commit" PROVE key[v] # key[w]
  BY <1>2, <1>7 DEF IInv, Owned, Exclusive
<1>8. Respected(w) /\ Priced'
  BY <1>2, <1>3, <1>7, Forgotten
<1>q. QED BY <1>1, <1>2, <1>5, <1>6, <1>8, QuietStep DEF Rebuild

\* What is published is not counted before it is committed.
LEMMA PublishLedger ==
  ASSUME IInv, Ledger, NEW w \in Worker, Publish(w)
  PROVE  Ledger'
<1>1. Only(w) /\ Shape /\ Owned(w)
  BY OneMoves DEF Proceed, IInv
<1>2. /\ pc[w] = "publish" /\ key[w] \in Key /\ pc'[w] = "commit" /\ key' = key
      /\ lock[w] = "EX" /\ UNCHANGED <<missing, recorded, trim, growth, stray, bounds>>
  BY <1>1 DEF Publish, Owned, Keyless, Goto, Shape, process
<1>3. /\ file' = [file EXCEPT ![key[w]] = "good"]
      /\ paid' = [paid EXCEPT ![key[w]] = Min({Size[key[w]], growth[w]})]
  BY DEF Publish
<1>4. \A k \in Key : Present(k)' /\ k \notin stray' => (Present(k) /\ k \notin stray) \/ key[w] = k
  BY <1>1, <1>2, <1>3 DEF Present, Shape
<1>5. Counted' \subseteq Counted
  BY <1>1, <1>2, <1>4, CountedFalls
<1>6. Columns'
  BY <1>2 DEF Ledger, Columns, bounds
<1>7. /\ Size[key[w]] <= growth[w] + Estimated(w) /\ growth[w] \in Nat /\ Size[key[w]] \in Nat
      /\ Slack \in Nat /\ Estimated(w) \in Nat /\ Estimated(w) <= Slack
  BY <1>2, SlackCovers, CacheAssumption DEF Ledger, Backed
<1>8. PICK m : m = Min({Size[key[w]], growth[w]})
  OBVIOUS
<1>9. m \in {Size[key[w]], growth[w]} /\ m <= Size[key[w]] /\ m <= growth[w]
  <2>1. Size[key[w]] \in Int /\ growth[w] \in Int
    BY <1>7
  <2>2. /\ Min({Size[key[w]], growth[w]}) \in {Size[key[w]], growth[w]}
        /\ Min({Size[key[w]], growth[w]}) <= Size[key[w]]
        /\ Min({Size[key[w]], growth[w]}) <= growth[w]
    BY <2>1, MinOfTwo
  <2>q. QED BY <1>8, <2>2
<1>10. m \in Nat /\ Size[key[w]] <= m + Slack
  BY <1>7, <1>9
<1>11. /\ paid \in [Key -> Nat]
       /\ \A k \in Key : paid[k] <= Size[k] /\ (Present(k) => Size[k] <= paid[k] + Slack)
  BY DEF Ledger, Priced
<1>12. paid' \in [Key -> Nat] /\ paid'[key[w]] = m /\ \A k \in Key : k # key[w] => paid'[k] = paid[k]
  BY <1>2, <1>3, <1>8, <1>10, <1>11
<1>13. Priced'
  <2>1. ASSUME NEW k \in Key
        PROVE  paid'[k] <= Size[k] /\ (Present(k)' => Size[k] <= paid'[k] + Slack)
    <3>1. CASE k = key[w]
      BY <1>9, <1>10, <1>12, <3>1
    <3>2. CASE k # key[w]
      BY <1>1, <1>3, <1>11, <1>12, <3>2 DEF Present, Shape
    <3>q. QED BY <3>1, <3>2
  <2>q. QED BY <1>12, <2>1 DEF Priced, Slack
<1>14. ASSUME NEW v \in Worker, v # w, pc[v] = "commit" PROVE paid'[key[v]] = paid[key[v]]
  <2>1. key[v] # key[w] /\ key[v] \in Key
    BY <1>2, <1>14 DEF IInv, Owned, Exclusive, Keyless
  <2>q. QED BY <1>12, <2>1
<1>15. \A k \in Counted' : k # key[w] /\ k \in Key
  BY <1>2 DEF Counted
<1>16. Respected(w)
  BY <1>2, <1>12, <1>14, <1>15 DEF Respected
<1>q. QED BY <1>1, <1>2, <1>5, <1>6, <1>9, <1>12, <1>13, <1>16, QuietStep

\* The extension of a lease covers the build but for the estimate.
LEMMA ExcessPays ==
  ASSUME NEW w \in Worker, Size[key[w]] \in Nat
  PROVE  Excess(w) \in Nat /\ Size[key[w]] <= Excess(w) + Estimated(w)
<1>1. Estimated(w) \in Nat
  BY SlackCovers
<1>2. PICK d \in Int : d = Size[key[w]] - Estimated(w)
  BY <1>1
<1>3. Max({0, d}) \in {0, d} /\ Max({0, d}) >= 0 /\ Max({0, d}) >= d
  BY MaxOfTwo
<1>4. Excess(w) = Max({0, d})
  BY <1>2 DEF Excess
<1> HIDE DEF Excess
<1>q. QED BY <1>1, <1>2, <1>3, <1>4

\* A lease is promised growth that fits, or more of it.
LEMMA PromiseLedger ==
  ASSUME IInv, Ledger, NEW w \in Worker, Reserve(w) \/ Build(w)
  PROVE  Ledger'
<1>1. Only(w) /\ Shape /\ Owned(w)
  BY OneMoves DEF Proceed, IInv
<1>2. UNCHANGED <<file, stray, paid, recorded, trim, key, missing, crashes, damage>>
  BY DEF Reserve, Build, process, bounds, history
<1>3. growth \in [Worker -> Nat]
  BY DEF Ledger, Backed
<1>4. Charged \in Nat /\ Limit \in Nat
  BY ChargedCovers, CacheAssumption
<1>5. pc[w] # "commit" /\ pc'[w] # "commit" /\ (pc'[w] = "publish" => pc[w] = "build")
  BY <1>1 DEF Reserve, Build, Goto, Shape
<1>6. Counted' \subseteq Counted
  BY <1>1, <1>2, <1>5, CountedFalls DEF Present
<1>7. Columns' /\ Records' /\ Covered' /\ Respected(w) /\ Priced'
  BY <1>2, <1>6, RecordsStay, PaidSame DEF Ledger, Columns, Present
<1>8. CASE Reserve(w)
  <2>1. Wanted(w) \in Nat
    BY CacheAssumption DEF Wanted
  <2>2. PICK n \in Nat : n = Wanted(w)
    BY <2>1
  <2>3. growth' = [growth EXCEPT ![w] = n] /\ Fits(n)
    BY <1>8, <2>2 DEF Reserve
  <2>4. Fits(n - growth[w])
    BY <1>3, <1>4, <2>3 DEF Fits
  <2>5. pc'[w] = "probe"
    BY <1>1, <1>8 DEF Reserve, Goto, Shape
  <2>q. QED BY <1>1, <1>6, <1>7, <2>3, <2>4, <2>5, LedgerKept
<1>9. CASE Build(w)
  <2>1. key[w] \in Key /\ key' = key
    BY <1>1, <1>2, <1>9 DEF Build, Owned, Keyless
  <2>2. growth[w] \in Nat /\ Size[key[w]] \in Nat
    BY <1>3, <2>1, CacheAssumption
  <2>3. Excess(w) \in Nat /\ Size[key[w]] <= Excess(w) + Estimated(w) /\ Estimated(w) \in Nat
    BY <2>2, ExcessPays, SlackCovers
  <2>4. PICK n \in Nat : n = growth[w] + Excess(w)
    BY <2>2, <2>3
  <2>5. growth' = [growth EXCEPT ![w] = n]
    BY <1>9, <2>4 DEF Build
  <2>6. n <= growth[w] \/ Fits(n - growth[w])
    <3>1. CASE Excess(w) = 0
      BY <2>2, <2>4, <3>1
    <3>2. CASE Excess(w) > 0
      <4>1. Fits(Excess(w)) /\ n - growth[w] = Excess(w)
        BY <1>9, <2>2, <2>3, <2>4, <3>2 DEF Build
      <4>q. QED BY <4>1
    <3>q. QED BY <2>3, <3>1, <3>2
  <2>7. Size[key'[w]] <= n + Estimated(w)'
    <3>1. Estimated(w)' = Estimated(w)
      BY <1>2 DEF Estimated
    <3>2. Size[key[w]] <= n + Estimated(w)
      BY <2>2, <2>3, <2>4
    <3>q. QED BY <2>1, <3>1, <3>2
  <2>q. QED BY <1>1, <1>5, <1>6, <1>7, <2>5, <2>6, <2>7, LedgerKept
<1>q. QED BY <1>8, <1>9

\* A lease that is given up promises nothing.
LEMMA ReleaseLedger ==
  ASSUME IInv, Ledger, NEW w \in Worker, Release(w)
  PROVE  Ledger'
<1>1. Only(w) /\ Shape
  BY OneMoves DEF Proceed, IInv
<1>2. UNCHANGED <<file, stray, paid, recorded, trim, crashes, damage>> /\ growth' = [growth EXCEPT ![w] = 0]
  BY DEF Release, bounds, history
<1>3. pc[w] # "commit" /\ pc'[w] = "idle" /\ missing' = [missing EXCEPT ![w] = FALSE]
  BY <1>1 DEF Release, Leave, Goto, Shape
<1>4. Counted' \subseteq Counted
  BY <1>1, <1>2, <1>3, CountedFalls DEF Present
<1>5. Columns' /\ Records' /\ Covered' /\ Respected(w) /\ Priced'
  <2>1. missing \in [Worker -> BOOLEAN]
    BY DEF Ledger, Columns
  <2>2. Columns'
    BY <1>2, <1>3, <2>1 DEF Ledger, Columns
  <2>3. \A v \in Worker : v # w => missing'[v] = missing[v]
    BY <1>3, <2>1
  <2>q. QED BY <1>2, <1>4, <2>2, <2>3, RecordsStay, PaidSame DEF Present
<1>6. growth[w] \in Nat
  BY DEF Ledger, Backed
<1>7. 0 \in Nat /\ 0 <= growth[w]
  BY <1>6
<1>q. QED BY <1>1, <1>2, <1>3, <1>4, <1>5, <1>7, LedgerKept

\* Nothing is in the hands of a trimmer that is gone.
LEMMA NoTrimRecords ==
  ASSUME NEW s \in Seq(Key)
  PROVE  /\ <<>> \in Seq(Key) /\ IsInjective(<<>>) /\ ToSet(<<>>) = {}
         /\ \E n \in 0..Len(s) : <<>> = SubSeq(s, n + 1, Len(s))
<1>1. <<>> \in Seq(Key) /\ IsInjective(<<>>) /\ ToSet(<<>>) = {}
  BY DEF IsInjective, ToSet
<1>2. Len(s) \in 0..Len(s) /\ <<>> = SubSeq(s, Len(s) + 1, Len(s))
  OBVIOUS
<1>q. QED BY <1>1, <1>2

\* A process that is killed leaves nothing behind that is counted and was not.
LEMMA CrashLedger ==
  ASSUME IInv, Ledger, NEW w \in Worker, Crash(w)
  PROVE  Ledger'
<1>1. Only(w) /\ Shape /\ Owned(w)
  BY OneMoves DEF IInv
<1>2. recorded' = recorded /\ paid' = paid /\ growth' = [growth EXCEPT ![w] = 0]
  BY DEF Crash
<1>3. pc'[w] = "idle" /\ missing' = [missing EXCEPT ![w] = FALSE]
  BY <1>1 DEF Crash, Leave, Goto, Shape
<1>4. \A k \in Key : Present(k)' => Present(k)
  <2>1. CASE file' = file
    BY <2>1 DEF Present
  <2>2. ASSUME NEW j \in Key, Removing(w, j), file' = [file EXCEPT ![j] = "partial"]
        PROVE  \A k \in Key : Present(k)' => Present(k)
    <3>1. file[j] # "absent"
      BY <2>2 DEF Removing, Evictable
    <3>q. QED BY <1>1, <2>2, <3>1 DEF Present, Shape
  <2>q. QED BY <2>1, <2>2 DEF Crash
<1>5. stray' = (IF pc[w] = "commit" THEN stray \union {key[w]} ELSE stray)
  BY DEF Crash
<1>6. Counted' \subseteq Counted
  BY <1>1, <1>4, <1>5, CountedFalls
<1>7. pc[w] = "commit" => key[w] \in Key
  BY <1>1 DEF Owned, Keyless
<1>8. Columns'
  <2>1. trim'.by \in Worker \union {None}
    BY DEF Crash, NoTrim, Ledger, Columns
  <2>2. crashes' \in 0..MaxCrashes /\ damage' = damage
    BY CacheAssumption DEF Crash, Ledger, Columns
  <2>q. QED BY <1>3, <1>5, <1>7, <2>1, <2>2 DEF Ledger, Columns
<1>9. Records' /\ Covered'
  <2>1. CASE trim' = trim
    BY <1>2, <1>6, <2>1, RecordsStay
  <2>2. CASE trim' = NoTrim
    <3>1. trim'.left = <<>> /\ trim'.todo = <<>> /\ trim'.by = None
      BY <2>2 DEF NoTrim
    <3>2. recorded \in Seq(Key) /\ IsInjective(recorded)
      BY DEF Ledger, Records
    <3>3. Records'
      BY <1>2, <2>2, <3>1, <3>2, NoTrimRecords DEF Records
    <3>4. Covered'
      BY <1>2, <1>6, <3>1 DEF Ledger, Covered
    <3>q. QED BY <3>3, <3>4
  <2>q. QED BY <2>1, <2>2 DEF Crash
<1>10. growth[w] \in Nat
  BY DEF Ledger, Backed
<1>11. 0 \in Nat /\ 0 <= growth[w]
  BY <1>10
<1>12. Respected(w) /\ Priced'
  <2>1. \A v \in Worker : v # w => missing'[v] = missing[v]
    BY <1>3 DEF Ledger, Columns
  <2>q. QED BY <1>2, <1>4, <2>1, PaidSame
<1>q. QED BY <1>1, <1>2, <1>3, <1>6, <1>8, <1>9, <1>11, <1>12, LedgerKept

\* A rotten artifact takes the room it took.
LEMMA RotLedger ==
  ASSUME IInv, Ledger, NEW k \in Key, Rot(k)
  PROVE  Ledger'
<1>1. UNCHANGED <<recorded, growth, trim, pc, key, missing, stray, paid, crashes>>
  BY DEF Rot, process, history
<1>2. \A j \in Key : Present(j)' <=> Present(j)
  BY DEF Rot, Present, IInv, Shape
<1>3. Counted' = Counted
  BY <1>1, <1>2 DEF Counted
<1>4. damage' \in 0..MaxDamage
  BY CacheAssumption DEF Rot, Fault, Ledger, Columns
<1>5. Columns' /\ Backed' /\ Priced'
  BY <1>1, <1>2, <1>4 DEF Ledger, Columns, Backed, Priced, Estimated
<1>6. Room'
  BY <1>1, <1>3 DEF Ledger, Room, Promised, Total, Units
<1>7. Records' /\ Covered'
  BY <1>1, <1>3, RecordsStay
<1>q. QED BY <1>5, <1>6, <1>7 DEF Ledger

\* A record that is new or moved to the end.
LEMMA TouchRecords ==
  ASSUME Ledger, AuthorityFree, NEW k \in Key, recorded' = Touched(k), trim' = trim
  PROVE  Records' /\ ToSet(recorded') = ToSet(recorded) \union {k}
<1>1. recorded \in Seq(Key) /\ IsInjective(recorded) /\ trim = NoTrim
  BY DEF Ledger, Records, AuthorityFree
<1>2. /\ recorded' \in Seq(Key) /\ IsInjective(recorded')
      /\ ToSet(recorded') = ToSet(recorded) \union {k}
  BY <1>1, TouchedKeys
<1>3. trim'.left = <<>> /\ trim'.todo = <<>> /\ trim'.by = None /\ trim' = NoTrim
  BY <1>1 DEF NoTrim
<1>4. \E n \in 0..Len(recorded') : trim'.todo = SubSeq(recorded', n + 1, Len(recorded'))
  <2>1. PICK s \in Seq(Key) : s = recorded'
    BY <1>2
  <2>2. \E n \in 0..Len(s) : <<>> = SubSeq(s, n + 1, Len(s))
    BY NoTrimRecords
  <2>q. QED BY <1>3, <2>1, <2>2
<1>5. Records'
  BY <1>2, <1>3, <1>4, NoTrimRecords DEF Records
<1>q. QED BY <1>2, <1>5

\* A record that is made late, or again for an artifact that was found.
LEMMA RecordStep ==
  ASSUME IInv, Ledger, NEW w \in Worker, Only(w), key[w] \in Key, AuthorityFree,
         pc[w] # "commit", pc'[w] \notin {"publish", "commit"}, recorded' = Touched(key[w]),
         growth' = growth \/ growth' = [growth EXCEPT ![w] = 0],
         UNCHANGED <<file, stray, paid, trim, missing, crashes>>, damage' \in 0..MaxDamage
  PROVE  Ledger'
<1>1. Counted' \subseteq Counted
  BY CountedFalls DEF Present
<1>2. Records' /\ ToSet(recorded') = ToSet(recorded) \union {key[w]}
  BY TouchRecords
<1>3. Covered' /\ Columns'
  BY <1>1, <1>2 DEF Ledger, Covered, Columns, AuthorityFree
<1>4. Respected(w) /\ Priced'
  BY PaidSame DEF Present
<1>5. growth \in [Worker -> Nat]
  BY DEF Ledger, Backed
<1>6. PICK n \in Nat : growth' = [growth EXCEPT ![w] = n] /\ n <= growth[w]
  <2>1. growth = [growth EXCEPT ![w] = growth[w]] /\ growth[w] \in Nat /\ 0 <= growth[w]
    BY <1>5
  <2>q. QED BY <2>1
<1>q. QED BY <1>1, <1>2, <1>3, <1>4, <1>6, LedgerKept

\* It is made when the artifact is adopted or found, unless it was gone.
LEMMA RecordLedger ==
  ASSUME IInv, Ledger, NEW w \in Worker, Adopt(w) \/ Hit(w)
  PROVE  Ledger'
<1>1. Only(w) /\ Shape /\ Owned(w)
  BY OneMoves DEF Proceed, IInv
<1>2. pc[w] \in {"adopt", "read", "check"}
  BY DEF Adopt, Hit, Commit
<1>3. UNCHANGED <<file, stray, paid, trim, missing, crashes, damage>>
  BY DEF Adopt, Hit, Commit, process, bounds, history
<1>4. key[w] \in Key
  BY <1>1, <1>2 DEF Owned, Keyless
<1>5. pc'[w] \in {"quota", "release", "retain"}
  BY <1>1 DEF Adopt, Hit, Commit, Goto, Shape
<1>6. damage' \in 0..MaxDamage /\ missing \in [Worker -> BOOLEAN]
  BY <1>3 DEF Ledger, Columns
<1>7. growth' = growth \/ growth' = [growth EXCEPT ![w] = 0]
  BY DEF Adopt, Hit, Commit
<1>8. CASE AuthorityFree /\ recorded' = Touched(key[w])
  BY <1>1, <1>2, <1>3, <1>4, <1>5, <1>6, <1>7, <1>8, RecordStep
<1>9. CASE recorded' = recorded /\ growth' = growth
  BY <1>1, <1>2, <1>3, <1>5, <1>6, <1>9, QuietMove
<1>q. QED BY <1>8, <1>9 DEF Adopt, Hit, Commit

\* Nor does a check that fails count more, whether it recorded the artifact or not.
LEMMA MissLedger ==
  ASSUME IInv, Ledger, NEW w \in Worker, ReadFails(w) \/ CheckFails(w)
  PROVE  Ledger'
<1>1. Only(w) /\ Shape /\ Owned(w)
  BY OneMoves DEF Proceed, IInv
<1>2. pc[w] \in {"read", "check"} /\ Misses(w)
  BY DEF ReadFails, CheckFails
<1>3. UNCHANGED <<file, stray, paid, trim, missing, crashes>>
  BY DEF ReadFails, CheckFails, process, history
<1>4. key[w] \in Key
  BY <1>1, <1>2 DEF Owned, Keyless
<1>5. pc'[w] \in {"exclusive", "remove"}
  BY <1>1 DEF ReadFails, CheckFails, Goto, Shape
<1>6. missing \in [Worker -> BOOLEAN] /\ damage' \in 0..MaxDamage
  <2>1. damage' = damage \/ (damage < MaxDamage /\ damage' = damage + 1)
    BY <1>2 DEF Misses, Fault
  <2>q. QED BY <2>1, CacheAssumption DEF Ledger, Columns
<1>7. CASE UNCHANGED <<recorded, growth>>
  BY <1>1, <1>2, <1>3, <1>5, <1>6, <1>7, QuietMove
<1>8. CASE AuthorityFree /\ recorded' = Touched(key[w]) /\ growth' = [growth EXCEPT ![w] = 0]
  BY <1>1, <1>2, <1>3, <1>4, <1>5, <1>6, <1>8, RecordStep
<1>q. QED BY <1>2, <1>7, <1>8 DEF Misses

\* A commit charges the artifact for itself and frees what was promised for it,
\* also when the caller is refused after it was written.
LEMMA CommitLedger ==
  ASSUME IInv, Ledger, NEW w \in Worker, Commit(w, "commit") \/ CommitFails(w), AuthorityFree,
         recorded' = Touched(key[w]), growth' = [growth EXCEPT ![w] = 0], stray' = stray
  PROVE  Ledger'
<1>1. Only(w) /\ Shape /\ Owned(w)
  BY OneMoves DEF Proceed, IInv
<1>2. pc[w] = "commit"
  BY DEF Commit, CommitFails
<1>3. UNCHANGED <<file, stray, paid, trim, missing, crashes, key>>
  BY DEF Commit, CommitFails, bounds, history
<1>4. PICK k \in Key : k = key[w]
  BY <1>1, <1>2 DEF Owned, Keyless
<1>5. pc'[w] \in {"release", "retain"} /\ \A v \in Worker : v # w => pc'[v] = pc[v] /\ key'[v] = key[v]
  BY <1>1 DEF Commit, CommitFails, Goto, Shape, Only
<1>6. Counted' \subseteq Counted \union {k} /\ k \notin Counted
  BY <1>2, <1>3, <1>4, <1>5 DEF Counted, Present
<1>7. Records' /\ ToSet(recorded') = ToSet(recorded) \union {k}
  BY <1>3, <1>4, TouchRecords
<1>8. damage' \in 0..MaxDamage
  <2>1. damage' = damage \/ (damage < MaxDamage /\ damage' = damage + 1)
    BY DEF Commit, CommitFails, Fault, bounds
  <2>q. QED BY <2>1, CacheAssumption DEF Ledger, Columns
<1>9. Covered' /\ Columns' /\ Priced'
  BY <1>3, <1>6, <1>7, <1>8 DEF Ledger, Covered, Columns, AuthorityFree, Priced, Present
<1>10. growth \in [Worker -> Nat] /\ paid[k] <= growth[w]
  BY <1>2, <1>4 DEF Ledger, Backed
<1>11. /\ growth' \in [Worker -> Nat] /\ growth'[w] = 0
       /\ \A v \in Worker : v # w => growth'[v] = growth[v]
  BY <1>10
<1>12. Backed'
  BY <1>3, <1>5, <1>11 DEF Backed, Ledger, Estimated
<1>13. Promised' = Promised - growth[w] + 0
  BY <1>10, <1>11, PromisesReplaced DEF Promised
<1>14. /\ Counted \in SUBSET Key /\ Counted' \in SUBSET (Counted \union {k})
       /\ Counted \union {k} \in SUBSET Key /\ \A j \in Key : paid[j] \in Nat
  BY <1>6 DEF Counted, Ledger, Priced
<1>15. Total(paid, Counted \union {k}) = Total(paid, Counted) + paid[k] /\ paid[k] \in Nat
  <2>1. IsFiniteSet(Counted) /\ paid[k] \in Nat /\ \A j \in Counted : paid[j] \in Nat
    BY <1>14, SizesOf
  <2>q. QED BY <1>6, <2>1, SumAdd
<1>16. Total(paid, Counted') \in Nat /\ Total(paid, Counted') <= Total(paid, Counted \union {k})
  <2>1. Counted' \in SUBSET Key
    BY <1>14
  <2>q. QED BY <1>14, <2>1, PaidOf DEF Ledger
<1>17. Total(paid, Counted) \in Nat /\ Promised \in Nat /\ Total(paid, Counted) + Promised <= Limit
       /\ Limit \in Nat
  BY ChargedCovers, CacheAssumption DEF Ledger, Room
<1>18. growth[w] \in Nat
  BY <1>10
<1>19. Total(paid, Counted') + Promised' <= Limit
  BY <1>10, <1>13, <1>15, <1>16, <1>17, <1>18
<1>20. Room'
  BY <1>3, <1>19 DEF Room
<1>q. QED BY <1>7, <1>9, <1>12, <1>20 DEF Ledger

\* What a publisher that failed leaves behind is not counted.
LEMMA StrayLedger ==
  ASSUME IInv, Ledger, NEW w \in Worker, CommitFails(w), UNCHANGED <<recorded, growth>>,
         stray' = stray \union {key[w]}
  PROVE  Ledger'
<1>1. Only(w) /\ Shape /\ Owned(w)
  BY OneMoves DEF Proceed, IInv
<1>2. pc[w] = "commit" /\ pc'[w] = "release" /\ UNCHANGED <<file, paid, trim, missing, crashes>>
  BY <1>1 DEF CommitFails, Goto, Shape
<1>3. key[w] \in Key
  BY <1>1, <1>2 DEF Owned, Keyless
<1>4. Counted' \subseteq Counted
  BY <1>1, <1>2, CountedFalls DEF Present
<1>5. damage' \in 0..MaxDamage
  BY CacheAssumption DEF CommitFails, Fault, Ledger, Columns
<1>6. Columns'
  BY <1>2, <1>3, <1>5 DEF Ledger, Columns
<1>7. Respected(w) /\ Priced'
  BY <1>2, PaidSame DEF Present
<1>q. QED BY <1>1, <1>2, <1>4, <1>6, <1>7, QuietStep

\* The trimmer reads the records.
LEMMA TakeAuthorityLedger ==
  ASSUME IInv, Ledger, NEW w \in Worker, TakeAuthority(w)
  PROVE  Ledger'
<1>1. UNCHANGED <<file, recorded, growth, pc, key, missing, stray, paid, crashes, damage>>
  BY DEF TakeAuthority, process, bounds, history
<1>2. trim'.by = w /\ trim'.todo = recorded /\ trim'.left = recorded
  BY DEF TakeAuthority
<1>3. Counted' = Counted
  BY <1>1 DEF Counted, Present
<1>4. Columns' /\ Backed' /\ Covered' /\ Priced'
  BY <1>1, <1>2, <1>3 DEF Ledger, Columns, Backed, Covered, Priced, Present, Estimated
<1>5. Room'
  BY <1>1, <1>3 DEF Ledger, Room, Promised, Total, Units
<1>6. recorded \in Seq(Key) /\ IsInjective(recorded)
  BY DEF Ledger, Records
<1>7. recorded = SubSeq(recorded, 0 + 1, Len(recorded)) /\ 0 \in 0..Len(recorded)
  BY <1>6
<1>8. w # None
  BY CacheAssumption
<1>9. Records'
  BY <1>1, <1>2, <1>6, <1>7, <1>8 DEF Records
<1>q. QED BY <1>4, <1>5, <1>9 DEF Ledger

\* The next candidate is one of the keys recorded.
LEMMA NextCandidate ==
  ASSUME Ledger, trim.todo # <<>>
  PROVE  /\ Head(trim.todo) \in Key
         /\ \E n \in 0..Len(recorded) : Tail(trim.todo) = SubSeq(recorded, n + 1, Len(recorded))
<1>1. recorded \in Seq(Key)
  BY DEF Ledger, Records
<1>2. PICK n \in 0..Len(recorded) : trim.todo = SubSeq(recorded, n + 1, Len(recorded))
  BY DEF Ledger, Records
<1>3. n + 1 \in 0..Len(recorded) /\ Tail(trim.todo) = SubSeq(recorded, (n + 1) + 1, Len(recorded))
  <2>1. Tail(trim.todo) = SubSeq(recorded, n + 2, Len(recorded)) /\ n + 1 \in 0..Len(recorded)
    BY <1>1, <1>2, TailOfEnd
  <2>2. n + 2 = (n + 1) + 1
    BY <1>2
  <2>q. QED BY <2>1, <2>2
<1>4. trim.todo \in Seq(Key)
  BY <1>1, <1>2
<1>5. Head(trim.todo) \in Key
  BY <1>4
<1>q. QED BY <1>3, <1>5

\* It is evicted, and leaves the trimmer's copy, or it is kept.
LEMMA CandidateLedger ==
  ASSUME IInv, Ledger, NEW w \in Worker, Evict(w) \/ Keep(w)
  PROVE  Ledger'
<1>1. UNCHANGED <<recorded, growth, pc, key, missing, crashes, damage>> /\ Shape
  BY DEF Evict, Keep, process, bounds, IInv
<1>2. Only(w) /\ w # None /\ trim.by = w /\ trim.todo # <<>>
  BY OneMoves, CacheAssumption DEF Proceed, Trim, Evict, Keep, MayTry
<1>3. PICK k \in Key : k = Head(trim.todo)
  BY <1>2, NextCandidate
<1>4. TrimRecord
  BY DEF IInv, Trimming
<1>5. trim'.by = w /\ trim'.todo = Tail(trim.todo)
  BY <1>2, <1>4 DEF TrimRecord, Evict, Keep
<1>6. /\ recorded \in Seq(Key) /\ IsInjective(recorded)
      /\ trim.left \in Seq(Key) /\ IsInjective(trim.left) /\ ToSet(trim.left) \subseteq ToSet(recorded)
  BY DEF Ledger, Records
<1>7. /\ trim'.left \in Seq(Key) /\ IsInjective(trim'.left) /\ ToSet(trim'.left) \subseteq ToSet(recorded)
      /\ Counted' \subseteq Counted /\ Counted' \subseteq ToSet(trim'.left) /\ stray' \subseteq stray
      /\ Respected(w) /\ Priced'
  <2>1. Counted \subseteq ToSet(trim.left)
    BY <1>2 DEF Ledger, Covered
  <2>2. CASE Keep(w)
    <3>1. trim'.left = trim.left /\ UNCHANGED <<file, stray, paid>>
      BY <1>4, <2>2 DEF Keep, TrimRecord, history
    <3>2. Counted' = Counted
      BY <1>1, <3>1 DEF Counted, Present
    <3>3. Respected(w) /\ Priced'
      BY <1>1, <3>1, PaidSame DEF Present
    <3>q. QED BY <1>6, <2>1, <3>1, <3>2, <3>3
  <2>3. CASE Evict(w)
    <3>1. /\ trim'.left = Without(trim.left, k) /\ stray' = stray \ {k}
          /\ file' = [file EXCEPT ![k] = "absent"]
      BY <1>3, <1>4, <2>3 DEF Evict, Forget, TrimRecord
    <3>2. /\ trim'.left \in Seq(Key) /\ IsInjective(trim'.left)
          /\ ToSet(trim'.left) = ToSet(trim.left) \ {k}
      BY <1>6, <3>1, WithoutKeys
    <3>3. Counted' \subseteq Counted \ {k}
      BY <1>1, <3>1 DEF Counted, Present, Shape
    <3>4. Forget(k) /\ Idle(k)
      BY <1>3, <2>3 DEF Evict, Evictable
    <3>5. ASSUME NEW v \in Worker, v # w, pc[v] = "commit" PROVE key[v] # k
      BY <3>4, <3>5 DEF IInv, Owned, Idle, Holders
    <3>6. Respected(w) /\ Priced'
      BY <1>1, <3>4, <3>5, Forgotten
    <3>q. QED BY <1>6, <2>1, <3>1, <3>2, <3>3, <3>6
  <2>q. QED BY <2>2, <2>3
<1>8. \E n \in 0..Len(recorded) : trim'.todo = SubSeq(recorded, n + 1, Len(recorded))
  BY <1>2, <1>5, NextCandidate
<1>9. Records'
  BY <1>1, <1>2, <1>5, <1>6, <1>7, <1>8 DEF Records
<1>10. Covered' /\ Columns'
  BY <1>1, <1>5, <1>7 DEF Ledger, Covered, Columns
<1>11. growth \in [Worker -> Nat]
  BY DEF Ledger, Backed
<1>12. PICK n \in Nat : growth' = [growth EXCEPT ![w] = n] /\ n = growth[w]
  BY <1>1, <1>11
<1>13. n <= growth[w]
  BY <1>12
<1>14. pc'[w] \notin {"publish", "commit"}
  BY <1>1, <1>2, HolderTrims
<1>q. QED BY <1>2, <1>7, <1>9, <1>10, <1>12, <1>13, <1>14, LedgerKept

\* The copy becomes the record.
LEMMA TrimEndsLedger ==
  ASSUME IInv, Ledger, NEW w \in Worker, TrimEnds(w)
  PROVE  Ledger'
<1>1. UNCHANGED <<file, stray, paid, growth, key, missing, crashes, damage>> /\ recorded' = trim.left /\ trim' = NoTrim
  BY DEF TrimEnds, process, bounds, history
<1>2. Only(w) /\ Shape /\ trim.by = w /\ w # None /\ pc[w] # "commit"
  BY OneMoves, HolderTrims, CacheAssumption DEF Proceed, Trim, IInv, TrimEnds, MayStop
<1>3. pc'[w] \notin {"publish", "commit"}
  BY <1>2 DEF TrimEnds, AfterTrim, Goto, Shape
<1>4. Counted' \subseteq Counted
  BY <1>1, <1>2, <1>3, CountedFalls DEF Present
<1>5. trim.left \in Seq(Key) /\ IsInjective(trim.left) /\ Counted \subseteq ToSet(trim.left)
  BY <1>2 DEF Ledger, Records, Covered
<1>6. trim'.left = <<>> /\ trim'.todo = <<>> /\ trim'.by = None
  BY <1>1 DEF NoTrim
<1>7. Records'
  <2>1. \E n \in 0..Len(recorded') : trim'.todo = SubSeq(recorded', n + 1, Len(recorded'))
    BY <1>1, <1>5, <1>6, NoTrimRecords
  <2>q. QED BY <1>1, <1>5, <1>6, <2>1, NoTrimRecords DEF Records
<1>8. Covered' /\ Columns' /\ Respected(w) /\ Priced'
  BY <1>1, <1>4, <1>5, <1>6, PaidSame DEF Ledger, Covered, Columns, Present
<1>9. growth \in [Worker -> Nat]
  BY DEF Ledger, Backed
<1>10. PICK n \in Nat : growth' = [growth EXCEPT ![w] = n] /\ n = growth[w]
  BY <1>1, <1>9
<1>11. n <= growth[w]
  BY <1>10
<1>q. QED BY <1>2, <1>3, <1>4, <1>7, <1>8, <1>10, <1>11, LedgerKept

-----------------------------------------------------------------------------
(***************************************************************************)
(* The theorems.                                                           *)
(***************************************************************************)

LEMMA InitInv == Init => IInv
<1> SUFFICES ASSUME Init PROVE IInv
  OBVIOUS
<1>1. Shape
  BY DEF Init, Shape, Content, Pc
<1>2. Trimming
  BY CacheAssumption DEF Init, Trimming, TrimRecord, NoTrim
<1>3. Exclusive /\ \A w \in Worker : Owned(w) /\ Found(w)
  BY DEF Init, Exclusive, Owned, Found, Keyless
<1>q. QED BY <1>1, <1>2, <1>3 DEF IInv

LEMMA NextKeeps == IInv /\ [Next]_vars => IInv'
<1> SUFFICES ASSUME IInv, [Next]_vars PROVE IInv'
  OBVIOUS
<1>1. CASE UNCHANGED vars
  <2>1. UNCHANGED <<pc, key, lock, pinned, trim>> /\ file' = file
    BY <1>1 DEF vars, process
  <2>q. QED BY <2>1, StillKeeps DEF IInv, Shape
<1>2. ASSUME NEW k \in Key, Rot(k) PROVE IInv'
  BY <1>2, RotKeeps
<1>3. ASSUME NEW w \in Worker, Start(w) \/ Maintain(w) \/ Done(w) \/ Crash(w) PROVE IInv'
  BY <1>3, StartKeeps, WandererKeeps, EndsKeeps, CrashKeeps
<1>4. ASSUME NEW w \in Worker, Proceed(w) PROVE IInv'
  <2>1. CASE Adopt(w) \/ LookAgain(w) \/ Reserve(w) \/ ReserveRefused(w) \/ Probe(w) \/ WaitTimeout(w)
    BY <2>1, WandererKeeps
  <2>2. CASE Trim(w)
    BY <2>2, TrimmerKeeps, TrimEndsKeeps DEF Trim
  <2>3. CASE TakeShared(w) \/ TakeExclusive(w) \/ Convert(w)
    BY <2>3, TakeKeeps
  <2>4. CASE Hit(w) \/ Commit(w, "commit")
    BY <2>4, CommitKeeps
  <2>5. CASE ReadFails(w) \/ RebuildRefused(w) \/ BuildFails(w) \/ CommitFails(w) \/ CheckFails(w)
    BY <2>5, GivesUpKeeps, CheckFailsKeeps
  <2>6. CASE Rebuild(w) \/ Build(w) \/ Publish(w)
    BY <2>6, BuilderKeeps
  <2>7. CASE Retain(w) \/ ReturnUnpinned(w) \/ Release(w)
    BY <2>7, RetainKeeps, EndsKeeps
  <2>q. QED BY <1>4, <2>1, <2>2, <2>3, <2>4, <2>5, <2>6, <2>7 DEF Proceed
<1>q. QED BY <1>1, <1>2, <1>3, <1>4 DEF Next

\* The inductive invariant holds in every reachable state.
THEOREM Inductive == Spec => []IInv
<1>1. Init => IInv
  BY InitInv
<1>2. IInv /\ [Next]_vars => IInv'
  BY NextKeeps
<1>q. QED BY <1>1, <1>2, PTL DEF Spec

\* The steps of a process that leave the files alone.
Quiet(w) ==
  \/ Start(w) \/ Maintain(w) \/ Adopt(w) \/ LookAgain(w) \/ Reserve(w) \/ ReserveRefused(w)
  \/ Probe(w) \/ WaitTimeout(w) \/ TakeAuthority(w) \/ Keep(w) \/ TrimEnds(w)
  \/ TakeShared(w) \/ TakeExclusive(w) \/ Convert(w) \/ Hit(w) \/ Commit(w, "commit")
  \/ ReadFails(w) \/ CheckFails(w) \/ RebuildRefused(w) \/ Build(w) \/ BuildFails(w)
  \/ CommitFails(w) \/ Retain(w) \/ ReturnUnpinned(w) \/ Release(w) \/ Done(w)

\* An artifact changes when nobody has it locked or pinned, under the exclusive
\* lock of a process that removes it, or when it is published.
Freed == \E k : \E c \in Content : Idle(k) /\ file' = [file EXCEPT ![k] = c]
Removed(v) == pc[v] = "remove" /\ \E c \in Content : file' = [file EXCEPT ![key[v]] = c]
Published(v) == pc[v] = "publish" /\ file' = [file EXCEPT ![key[v]] = "good"]

LEMMA FileSteps ==
  ASSUME [Next]_vars
  PROVE  file' = file \/ Freed \/ \E v \in Worker : Removed(v) \/ Published(v)
<1>1. CASE UNCHANGED vars
  BY <1>1 DEF vars
<1>2. ASSUME NEW k \in Key, Rot(k) PROVE Freed
  BY <1>2 DEF Rot, Freed, Content
<1>3. ASSUME NEW w \in Worker, Quiet(w) PROVE file' = file
  BY <1>3 DEF Quiet, Start, Maintain, Adopt, LookAgain, Reserve, ReserveRefused, Probe, WaitTimeout,
     TakeAuthority, Keep, TrimEnds, TakeShared, TakeExclusive, Convert, Hit, Commit, ReadFails,
     CheckFails, RebuildRefused, Build, BuildFails, CommitFails, Retain, ReturnUnpinned, Release, Done
<1>4. ASSUME NEW w \in Worker, Crash(w) PROVE file' = file \/ Freed \/ Removed(w)
  <2>1. ASSUME NEW k \in Key, Removing(w, k), file' = [file EXCEPT ![k] = "partial"]
        PROVE  Freed \/ Removed(w)
    BY <2>1 DEF Removing, Evictable, Freed, Removed, Content
  <2>q. QED BY <1>4, <2>1 DEF Crash
<1>5. ASSUME NEW w \in Worker, Evict(w) PROVE Freed
  BY <1>5 DEF Evict, Evictable, Forget, Freed, Content
<1>6. ASSUME NEW w \in Worker, Rebuild(w) PROVE Removed(w)
  BY <1>6 DEF Rebuild, Forget, Removed, Content
<1>7. ASSUME NEW w \in Worker, Publish(w) PROVE Published(w)
  BY <1>7 DEF Publish, Published
<1>q. QED BY <1>1, <1>2, <1>3, <1>4, <1>5, <1>6, <1>7 DEF Next, Proceed, Trim, Quiet

\* A preparation that ends with an artifact ends where it retains it.
LEMMA Entering ==
  ASSUME IInv, [Next]_vars, NEW w \in Worker, ~Retained(w), Retained(w)'
  PROVE  pc'[w] = "retain"
<1>1. pc'[w] # pc[w]
  BY DEF Retained
<1>2. PICK v \in Worker : Start(v) \/ Maintain(v) \/ Proceed(v) \/ Done(v) \/ Crash(v)
  BY <1>1 DEF Next, Rot, vars
<1>3. v = w
  BY <1>1, <1>2, OneMoves DEF Only
<1>4. PICK p : Goto(w, p) /\ (p \in {"convert", "using"} => pc[w] \in {"retain", "convert"})
  <2>1. CASE Start(w) \/ Maintain(w) \/ Done(w) \/ Crash(w)
    BY <2>1 DEF Start, Maintain, Done, Crash, Leave
  <2>2. CASE Adopt(w) \/ LookAgain(w) \/ Reserve(w) \/ ReserveRefused(w) \/ Probe(w)
             \/ WaitTimeout(w) \/ TrimEnds(w)
    BY <2>2 DEF Adopt, LookAgain, Reserve, ReserveRefused, Probe, WaitTimeout, TrimEnds, AfterTrim
  <2>3. CASE TakeAuthority(w) \/ Evict(w) \/ Keep(w)
    BY <1>1, <2>3 DEF TakeAuthority, Evict, Keep
  <2>4. CASE TakeShared(w) \/ TakeExclusive(w) \/ Convert(w) \/ Retain(w)
    BY <2>4 DEF TakeShared, TakeExclusive, Convert, Retain
  <2>5. CASE \/ Hit(w) \/ Commit(w, "commit") \/ CommitFails(w) \/ ReadFails(w) \/ CheckFails(w)
             \/ Rebuild(w) \/ RebuildRefused(w) \/ Build(w) \/ BuildFails(w) \/ Publish(w)
    BY <2>5 DEF Hit, Commit, CommitFails, ReadFails, CheckFails, Rebuild, RebuildRefused, Build,
       BuildFails, Publish
  <2>6. CASE ReturnUnpinned(w) \/ Release(w)
    BY <2>6 DEF ReturnUnpinned, Release, Leave
  <2>q. QED BY <1>2, <1>3, <2>1, <2>2, <2>3, <2>4, <2>5, <2>6 DEF Proceed, Trim
<1>5. pc'[w] = p
  BY <1>4 DEF Goto, IInv, Shape
<1>q. QED BY <1>4, <1>5 DEF Retained

\* A good artifact that is retained stays, but for the gap.
LEMMA Staying ==
  ASSUME IInv, [Next]_vars, NEW w \in Worker, Retained(w), file[key[w]] = "good"
  PROVE  file'[key[w]] = "good" \/ Robbed(w)
<1>1. Shape /\ Owned(w)
  BY DEF IInv
<1>2. key[w] \in Key
  BY <1>1 DEF Owned, Retained, Keyless
<1>3. CASE Freed
  <2>1. PICK k : \E c \in Content : Idle(k) /\ file' = [file EXCEPT ![k] = c]
    BY <1>3 DEF Freed
  <2>2. k # key[w]
    BY <1>1, <2>1 DEF Owned, Retained, Idle, Holders, Pinners
  <2>q. QED BY <1>1, <1>2, <2>1, <2>2 DEF Shape
<1>4. ASSUME NEW v \in Worker, Removed(v) PROVE file'[key[w]] = "good" \/ Robbed(w)
  <2>1. pc[v] = "remove" /\ v # w
    BY <1>4 DEF Removed, Retained
  <2>2. lock[v] = "EX"
    BY <2>1 DEF IInv, Owned
  <2>3. CASE key[v] # key[w]
    BY <1>1, <1>2, <1>4, <2>3 DEF Removed, Shape
  <2>4. CASE key[v] = key[w]
    <3>1. lock[w] = "none"
      BY <2>1, <2>2, <2>4 DEF IInv, Exclusive
    <3>2. pc[w] = "convert"
      BY <1>1, <3>1 DEF Owned, Retained
    <3>q. QED BY <2>1, <2>4, <3>2 DEF Robbed
  <2>q. QED BY <2>3, <2>4
<1>5. ASSUME NEW v \in Worker, Published(v) PROVE file'[key[w]] = "good"
  BY <1>1, <1>2, <1>5 DEF Published, Shape
<1>q. QED BY <1>3, <1>4, <1>5, FileSteps

\* A preparation ends with a valid artifact, and nobody evicts, replaces or damages
\* it until its caller gives it back, but for a process whose check failed in the
\* gap between its builder's exclusive lock and the shared one.
THEOREM UsersKeepArtifact == Spec => PinnedStays
<1>1. ASSUME IInv, [Next]_vars, IInv' PROVE \A w \in Worker : KeepsArtifact(w)
  <2> SUFFICES ASSUME NEW w \in Worker PROVE KeepsArtifact(w)
    OBVIOUS
  <2>1. ~Retained(w) /\ Retained(w)' => file'[key'[w]] = "good"
    BY <1>1, Entering DEF IInv, Found
  <2>2. Retained(w) /\ file[key[w]] = "good" => file'[key[w]] = "good" \/ Robbed(w)
    BY <1>1, Staying
  <2>q. QED BY <2>1, <2>2 DEF KeepsArtifact
<1>2. IInv /\ IInv' /\ [Next]_vars => [\A w \in Worker : KeepsArtifact(w)]_vars
  BY <1>1
<1>q. QED BY <1>2, Inductive, PTL DEF Spec, PinnedStays

\* Concurrent misses of a key build it once.
THEOREM BuiltOnce == Spec => []OneBuilder
<1>1. ASSUME IInv PROVE OneBuilder
  <2> SUFFICES ASSUME NEW w \in Worker, Building(w)
               PROVE  /\ file[key[w]] = "absent"
                      /\ \A v \in Worker \ {w} : Building(v) => key[v] # key[w]
    BY DEF OneBuilder
  <2>1. file[key[w]] = "absent" /\ lock[w] = "EX"
    BY <1>1 DEF IInv, Owned, Found, Building
  <2>2. ASSUME NEW v \in Worker \ {w}, Building(v) PROVE key[v] # key[w]
    <3>1. lock[v] = "EX"
      BY <1>1, <2>2 DEF IInv, Owned, Building
    <3>q. QED BY <1>1, <2>1, <3>1 DEF IInv, Exclusive
  <2>q. QED BY <2>1, <2>2
<1>q. QED BY <1>1, Inductive, PTL

LEMMA InitLedger == Init => Ledger
<1> SUFFICES ASSUME Init PROVE Ledger
  OBVIOUS
<1>1. Counted = {}
  BY DEF Init, Counted, Present
<1>2. recorded = <<>> /\ trim = NoTrim /\ trim.left = <<>> /\ trim.todo = <<>> /\ trim.by = None
  BY DEF Init, NoTrim
<1>3. <<>> \in Seq(Key)
  OBVIOUS
<1>4. Records
  BY <1>2, <1>3, NoTrimRecords DEF Records
<1>5. Covered
  BY <1>1, <1>2 DEF Covered
<1>6. Backed /\ Columns /\ Priced
  BY <1>2, CacheAssumption DEF Init, Backed, Columns, Priced, Present
<1>7. Room
  <2>1. Units(growth, Worker) = {} /\ Units(paid, Counted) = {}
    BY <1>1 DEF Init, Units
  <2>2. Promised = 0 /\ Total(paid, Counted) = 0
    BY <2>1, FS_EmptySet DEF Promised, Total
  <2>3. 0 + 0 <= Limit
    BY CacheAssumption
  <2>q. QED BY <2>2, <2>3 DEF Room
<1>q. QED BY <1>4, <1>5, <1>6, <1>7 DEF Ledger

LEMMA NextLedger == IInv /\ Ledger /\ [Next]_vars => Ledger'
<1> SUFFICES ASSUME IInv, Ledger, [Next]_vars PROVE Ledger'
  OBVIOUS
<1>1. CASE UNCHANGED vars
  <2>0. UNCHANGED <<file, recorded, growth, trim, pc, key, missing, crashes, damage, stray, paid>>
    BY <1>1 DEF vars, process, bounds, history
  <2>1. Counted' = Counted
    BY <2>0 DEF Counted, Present
  <2>2. Records' /\ Covered' /\ Backed' /\ Columns' /\ Priced'
    BY <2>0, <2>1, RecordsStay DEF Ledger, Backed, Columns, Priced, Present, Estimated
  <2>3. Room'
    BY <2>0, <2>1 DEF Ledger, Room, Promised, Total, Units
  <2>q. QED BY <2>2, <2>3 DEF Ledger
<1>2. ASSUME NEW k \in Key, Rot(k) PROVE Ledger'
  BY <1>2, RotLedger
<1>3. ASSUME NEW w \in Worker, Start(w) \/ Maintain(w) \/ Done(w) \/ Crash(w) PROVE Ledger'
  BY <1>3, QuietLedger, CrashLedger
<1>4. ASSUME NEW w \in Worker, Proceed(w) PROVE Ledger'
  <2>1. CASE \/ LookAgain(w) \/ ReserveRefused(w) \/ Probe(w) \/ TakeShared(w) \/ TakeExclusive(w)
             \/ WaitTimeout(w) \/ RebuildRefused(w) \/ BuildFails(w) \/ Retain(w)
             \/ Convert(w) \/ ReturnUnpinned(w)
    BY <2>1, QuietLedger
  <2>2. CASE Trim(w)
    BY <2>2, TakeAuthorityLedger, CandidateLedger, TrimEndsLedger DEF Trim
  <2>3. CASE Adopt(w) \/ Hit(w) \/ ReadFails(w) \/ CheckFails(w)
    BY <2>3, RecordLedger, MissLedger
  <2>6. CASE Commit(w, "commit")
    <3>1. /\ AuthorityFree /\ recorded' = Touched(key[w])
          /\ growth' = [growth EXCEPT ![w] = 0] /\ stray' = stray
      BY <2>6 DEF Commit, history
    <3>q. QED BY <2>6, <3>1, CommitLedger
  <2>7. CASE CommitFails(w)
    <3>1. \/ /\ AuthorityFree /\ recorded' = Touched(key[w])
             /\ growth' = [growth EXCEPT ![w] = 0] /\ stray' = stray
          \/ stray' = stray \union {key[w]} /\ UNCHANGED <<recorded, growth>>
      BY <2>7 DEF CommitFails
    <3>q. QED BY <2>7, <3>1, CommitLedger, StrayLedger
  <2>4. CASE Rebuild(w) \/ Publish(w)
    BY <2>4, RebuildLedger, PublishLedger
  <2>5. CASE Reserve(w) \/ Build(w) \/ Release(w)
    BY <2>5, PromiseLedger, ReleaseLedger
  <2>q. QED BY <1>4, <2>1, <2>2, <2>3, <2>4, <2>5, <2>6, <2>7 DEF Proceed
<1>q. QED BY <1>1, <1>2, <1>3, <1>4 DEF Next

\* The ledger holds in every reachable state.
THEOREM LedgerHolds == Spec => [](IInv /\ Ledger)
<1>1. Init => IInv /\ Ledger
  BY InitInv, InitLedger
<1>2. (IInv /\ Ledger) /\ [Next]_vars => (IInv /\ Ledger)'
  BY NextKeeps, NextLedger
<1>q. QED BY <1>1, <1>2, PTL DEF Spec

\* A promise is never larger than the limit.
LEMMA PromiseBelowLimit ==
  ASSUME Ledger, NEW w \in Worker
  PROVE  growth[w] \in 0..Limit
<1>1. growth \in [Worker -> Nat] /\ Total(paid, Counted) + Promised <= Limit
  BY DEF Ledger, Backed, Room
<1>2. Total(paid, Counted) \in Nat /\ Promised \in Nat
  BY ChargedCovers
<1>3. growth[w] <= Promised
  <2>1. \A v \in Worker : growth[v] \in Nat
    BY <1>1
  <2>q. QED BY <2>1, CacheAssumption, SumBounds DEF Promised
<1>4. growth[w] \in Nat /\ Limit \in Nat
  BY <1>1, CacheAssumption
<1>q. QED BY <1>1, <1>2, <1>3, <1>4

\* The cache columns of state.json and the processes keep their shape; no key is
\* recorded twice, and the trimmer's copy has no key that the record has not.
THEOREM TypeCorrect == Spec => []TypeOK
<1>1. ASSUME IInv, Ledger PROVE TypeOK
  <2>1. Shape /\ Columns
    BY <1>1 DEF IInv, Ledger
  <2>2. /\ recorded \in Seq(Key) /\ IsInjective(recorded)
        /\ ToSet(trim.left) \subseteq ToSet(recorded) /\ IsInjective(trim.left)
        /\ \E n \in 0..Len(recorded) : trim.todo = SubSeq(recorded, n + 1, Len(recorded))
    BY <1>1 DEF Ledger, Records
  <2>3. ToSet(recorded) \subseteq Key
    BY <2>2 DEF ToSet
  <2>4. growth \in [Worker -> 0..Limit]
    <3>1. growth \in [Worker -> Nat]
      BY <1>1 DEF Ledger, Backed
    <3>2. \A w \in Worker : growth[w] \in 0..Limit
      BY <1>1, PromiseBelowLimit
    <3>q. QED BY <3>1, <3>2
  <2>5. paid \in [Key -> Nat]
    BY <1>1 DEF Ledger, Priced
  <2>q. QED BY <2>1, <2>2, <2>3, <2>4, <2>5 DEF TypeOK, Shape, Columns
<1>q. QED BY <1>1, LedgerHolds, PTL

\* What is on the disk stays within cache_limit_bytes but for what was never
\* promised: what is counted fits beside the promises, and an artifact in the hands
\* of its publisher is paid by the promise to that publisher.
THEOREM WithinLimit == Spec => []LimitKept
<1>1. ASSUME IInv, Ledger PROVE Total(paid, Kept) <= Limit
  <2> DEFINE B == Kept \ Counted
  <2>1. growth \in [Worker -> Nat] /\ Total(paid, Counted) + Promised <= Limit
        /\ \A k \in Key : paid[k] \in Nat
    BY <1>1 DEF Ledger, Backed, Room, Priced
  <2>2. ASSUME NEW k \in B PROVE \E w \in Worker : pc[w] = "commit" /\ key[w] = k
    BY DEF Counted, Kept
  <2> DEFINE h == [k \in B |-> CHOOSE w \in Worker : pc[w] = "commit" /\ key[w] = k]
  <2>3. ASSUME NEW k \in B PROVE h[k] \in Worker /\ pc[h[k]] = "commit" /\ key[h[k]] = k
    BY <2>2
  <2>4. B \in SUBSET Key /\ Kept \in SUBSET Key /\ Counted \in SUBSET Kept /\ Kept = Counted \union B
    BY DEF Counted, Kept
  <2>5. \A k \in B : h[k] \in Worker /\ paid[k] \in Nat /\ paid[k] <= growth[h[k]]
    <3> SUFFICES ASSUME NEW k \in B PROVE h[k] \in Worker /\ paid[k] \in Nat /\ paid[k] <= growth[h[k]]
      OBVIOUS
    <3>1. h[k] \in Worker /\ pc[h[k]] = "commit" /\ key[h[k]] = k
      BY <2>3
    <3> HIDE DEF h
    <3>2. paid[key[h[k]]] <= growth[h[k]]
      BY <1>1, <3>1 DEF Ledger, Backed
    <3>q. QED BY <2>1, <2>4, <3>1, <3>2
  <2>6. \A j, k \in B : h[j] = h[k] => j = k
    <3> SUFFICES ASSUME NEW j \in B, NEW k \in B, h[j] = h[k] PROVE j = k
      OBVIOUS
    <3>1. key[h[j]] = j /\ key[h[k]] = k
      BY <2>3
    <3> HIDE DEF h
    <3>q. QED BY <3>1
  <2> HIDE DEF h, B
  <2>7. Total(paid, B) <= Promised
    <3>1. \A w \in Worker : growth[w] \in Nat
      BY <2>1
    <3>q. QED BY <2>5, <2>6, <3>1, CacheAssumption, SumPaid DEF Promised
  <2>8. Total(paid, Kept) <= Total(paid, Counted) + Total(paid, B)
    <3>1. Units(paid, Kept) = Units(paid, Counted) \union Units(paid, B)
      BY <2>4 DEF Units
    <3>2. IsFiniteSet(Counted) /\ IsFiniteSet(B)
      BY <2>4, SizesOf
    <3>3. (\A k \in Counted : paid[k] \in Nat) /\ (\A k \in B : paid[k] \in Nat)
      BY <2>1, <2>4
    <3>4. IsFiniteSet(Units(paid, Counted)) /\ IsFiniteSet(Units(paid, B))
      BY <3>2, <3>3, SumType
    <3>5. Cardinality(Units(paid, Counted) \union Units(paid, B)) <=
            Cardinality(Units(paid, Counted)) + Cardinality(Units(paid, B))
      BY <3>4, UnionBound
    <3>q. QED BY <3>1, <3>5 DEF Total
  <2>9. /\ Total(paid, Kept) \in Nat /\ Total(paid, Counted) \in Nat /\ Total(paid, B) \in Nat
        /\ Promised \in Nat /\ Limit \in Nat
    <3>1. Counted \in SUBSET Key /\ Priced
      BY <1>1, <2>4 DEF Ledger
    <3>q. QED BY <1>1, <2>4, <3>1, PaidOf, ChargedCovers, CacheAssumption
  <2>q. QED BY <2>1, <2>7, <2>8, <2>9
<1>2. ASSUME Ledger PROVE \A k \in Kept : Size[k] <= paid[k] + Max({Estimate, HitEstimate})
  BY <1>2 DEF Ledger, Priced, Slack, Kept
<1>3. IInv /\ Ledger => LimitKept
  BY <1>1, <1>2 DEF LimitKept
<1>q. QED BY <1>3, LedgerHolds, PTL
=============================================================================
