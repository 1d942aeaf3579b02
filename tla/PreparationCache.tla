------------------------- MODULE PreparationCache -------------------------
(***************************************************************************)
(* The shared cache of prepared folds: ima/research_preparation.py, the    *)
(* trimming of ima/research_cache_capacity.py and the cache columns of     *)
(* ima/research_storage.py.                                                *)
(*                                                                         *)
(* Processes of several campaigns prepare, read, pin and evict the same    *)
(* artifacts.  Two kinds of lock order them: `<key>.lock` and              *)
(* `<key>.pin.lock` of one artifact, and authority.lock, under which       *)
(* state.json is read and replaced.  A producer takes its key first and    *)
(* the authority inside it; a trimmer takes the authority first and tries  *)
(* the keys inside it without waiting.                                     *)
(*                                                                         *)
(* Space on the filesystem is the subject of StorageAuthority; here its    *)
(* refusals can come at any admission, and what is counted is the cache    *)
(* quota: recorded sizes plus the growth that leases were promised.        *)
(***************************************************************************)
EXTENDS Integers, FiniteSets, FiniteSetsExt, SequencesExt

CONSTANTS
  Worker,      \* processes that use the cache
  Key,         \* preparation keys (cache_id)
  None,        \* no key
  Size,        \* [Key -> units an artifact takes]
  Estimate,    \* units estimated for a build before it is known
  HitEstimate, \* units estimated where the artifact was there at the second look
  Limit,       \* cache_limit_bytes
  Soft,        \* cache_soft_bytes
  Target,      \* cache_target_bytes
  MaxCrashes,  \* bound: processes killed in one behaviour
  MaxDamage    \* bound: artifacts that rot, reads and writes that fail

ASSUME CacheAssumption ==
  /\ IsFiniteSet(Key) /\ IsFiniteSet(Worker) /\ None \notin Key \union Worker
  /\ Size \in [Key -> Nat]
  /\ {Estimate, HitEstimate, Limit, Soft, Target, MaxCrashes, MaxDamage} \subseteq Nat
  /\ Target <= Soft /\ Soft <= Limit

VARIABLES
  file,      \* [Key -> content of the artifact's directory]
  recorded,  \* state.json `caches`: the keys, least recently used first
  growth,    \* state.json: [Worker -> cache_growth_bytes of its lease]
  trim,      \* who holds authority.lock to evict, what it has still to try,
             \* and its copy of the records
  pc, key,   \* [Worker -> where a process is, and with which key]
  missing,   \* [Worker -> its last look found no artifact]
  lock,      \* [Worker -> "none", "SH" or "EX": its hold of <key>.lock]
  pinned,    \* [Worker -> it holds <key>.pin.lock]
  crashes, damage,                \* bounds
  stray,     \* history: keys whose publisher died or failed before commit
  paid       \* history: [Key -> units promised to the lease it was published under]

process == <<key, missing, lock, pinned>>
bounds == <<crashes, damage>>
history == <<stray, paid>>
vars == <<file, recorded, growth, trim, pc, process, bounds, history>>

(* "rotten" has a valid manifest and a payload that does not match it;     *)
(* "partial" lost some of its files while it was being removed.            *)
Content == {"absent", "good", "rotten", "partial"}
Pc == {"idle", "adopt", "quota", "sweep", "again", "reserve", "probe", "shared", "read",
       "exclusive", "check", "remove", "build", "publish", "commit", "retain", "convert", "refused",
       "release", "using"}
NoTrim == [by |-> None, todo |-> <<>>, left |-> <<>>]

(* The sum of f over K, counted unit by unit.                              *)
Units(f, K) == UNION {{k} \X (1..f[k]) : k \in K}
Total(f, K) == Cardinality(Units(f, K))

Sizes(K) == Total(Size, K)
Promised == Total(growth, Worker)
Charged == Sizes(ToSet(recorded)) + Promised
(* What the trimmer's copy of the state still charges.                     *)
Remaining == Sizes(ToSet(trim.left)) + Promised

Present(k) == file[k] # "absent"
AuthorityFree == trim.by = None
Holders(k) == {w \in Worker : key[w] = k /\ lock[w] # "none"}
Pinners(k) == {w \in Worker : key[w] = k /\ pinned[w]}
(* Nonblocking exclusive locks on the pin and the key.                     *)
Idle(k) == Holders(k) = {} /\ Pinners(k) = {}

Init ==
  /\ file = [k \in Key |-> "absent"] /\ recorded = <<>>
  /\ growth = [w \in Worker |-> 0] /\ trim = NoTrim
  /\ pc = [w \in Worker |-> "idle"] /\ key = [w \in Worker |-> None]
  /\ missing = [w \in Worker |-> FALSE] /\ lock = [w \in Worker |-> "none"]
  /\ pinned = [w \in Worker |-> FALSE]
  /\ crashes = 0 /\ damage = 0 /\ stray = {} /\ paid = [k \in Key |-> 0]

Goto(w, p) == pc' = [pc EXCEPT ![w] = p]
Place(keys, k) == CHOOSE i \in DOMAIN keys : keys[i] = k
Without(keys, k) == IF k \in ToSet(keys) THEN RemoveAt(keys, Place(keys, k)) ELSE keys

(* A read or a write of the cache, of state.json or of a pin fails in a    *)
(* process that lives on.                                                  *)
Fault == damage < MaxDamage /\ damage' = damage + 1
(* The artifact of k is gone.                                              *)
Forget(k) ==
  /\ file' = [file EXCEPT ![k] = "absent"]
  /\ stray' = stray \ {k} /\ paid' = [paid EXCEPT ![k] = 0]

(* Mutant: the old record stays.                                           *)
TouchedTwice(k) == Append(recorded, k)

Touched(k) == Append(Without(recorded, k), k)

-----------------------------------------------------------------------------
(* prepare_fold looks for the artifact and measures what it found.         *)
Start(w) ==
  /\ pc[w] = "idle"
  /\ \E k \in Key :
       key' = [key EXCEPT ![w] = k] /\ Goto(w, IF Present(k) THEN "adopt" ELSE "again")
  /\ UNCHANGED <<file, recorded, growth, trim, missing, lock, pinned, bounds, history>>

(* The maintenance timer trims without preparing anything.                 *)
Maintain(w) ==
  /\ pc[w] = "idle" /\ Goto(w, "quota")
  /\ UNCHANGED <<file, recorded, growth, trim, process, bounds, history>>

(* record_cache, with the size measured before the authority was locked:   *)
(* the artifact may be gone by now, and the limit is not enforced.  Gone   *)
(* while it was measured, it is not recorded.                              *)
Adopt(w) ==
  /\ pc[w] = "adopt" /\ Goto(w, "quota")
  /\ \/ AuthorityFree /\ recorded' = Touched(key[w])
     \/ ~Present(key[w]) /\ UNCHANGED recorded
  /\ UNCHANGED <<file, growth, trim, process, bounds, history>>

(* trim_for_capacity holds the authority twice, once for the quota and once  *)
(* for the filesystem.  A process that found nothing asks for room for it.  *)
Wanted(w) == IF missing[w] THEN Estimate ELSE 0

TakeAuthority(w) ==
  /\ pc[w] \in {"quota", "sweep"} /\ AuthorityFree
  /\ trim' = [by |-> w, todo |-> recorded, left |-> recorded]
  /\ UNCHANGED <<file, recorded, growth, pc, process, bounds, history>>

Goal(w) == IF Charged + Wanted(w) > Soft THEN Target ELSE Limit
OverGoal(w) == Remaining + Wanted(w) > Goal(w)
(* Of the filesystem's deficit the model knows nothing: the sweep may go   *)
(* on or stop at any candidate.                                            *)
MayTry(w) == trim.by = w /\ trim.todo # <<>> /\ (pc[w] = "quota" => OverGoal(w))
MayStop(w) == trim.by = w /\ (trim.todo = <<>> \/ (pc[w] = "quota" => ~OverGoal(w)))

(* evict: a directory it recognises, and both locks without waiting.       *)
Evictable(k) == file[k] \in {"good", "rotten"} /\ Idle(k)

Evict(w) ==
  /\ MayTry(w)
  /\ LET k == Head(trim.todo) IN
       /\ Evictable(k)
       /\ Forget(k)
       /\ trim' = [trim EXCEPT !.todo = Tail(@), !.left = Without(@, k)]
  /\ UNCHANGED <<recorded, growth, pc, process, bounds>>

(* Mutant: evict waits for the pin of a candidate.                         *)
KeepUnpinned(w) ==
  /\ MayTry(w) /\ ~Evictable(Head(trim.todo)) /\ Pinners(Head(trim.todo)) = {}
  /\ trim' = [trim EXCEPT !.todo = Tail(@)]
  /\ UNCHANGED <<file, recorded, growth, pc, process, bounds, history>>

Keep(w) ==
  /\ MayTry(w) /\ ~Evictable(Head(trim.todo))
  /\ trim' = [trim EXCEPT !.todo = Tail(@)]
  /\ UNCHANGED <<file, recorded, growth, pc, process, bounds, history>>

(* state.json is replaced, then the result judged; a refusal of the sweep  *)
(* is the filesystem's.                                                    *)
AfterTrim(w) ==
  IF pc[w] = "quota" THEN "sweep"
  ELSE IF key[w] = None THEN "idle" ELSE IF missing[w] THEN "reserve" ELSE "again"
TrimEnds(w) ==
  /\ MayStop(w)
  /\ recorded' = trim.left
  /\ trim' = NoTrim
  /\ \/ (pc[w] = "quota" => Remaining + Wanted(w) <= Limit) /\ Goto(w, AfterTrim(w))
     \/ (pc[w] = "quota" => Remaining + Wanted(w) > Limit) /\ Goto(w, "release")
  /\ UNCHANGED <<file, growth, process, bounds, history>>

(* The second look decides how much is reserved.                           *)
LookAgain(w) ==
  /\ pc[w] = "again"
  /\ missing' = [missing EXCEPT ![w] = ~Present(key[w])]
  /\ Goto(w, IF Present(key[w]) THEN "reserve" ELSE "quota")
  /\ UNCHANGED <<file, recorded, growth, trim, key, lock, pinned, bounds, history>>

(* Mutant: growth that was promised and not yet committed is not counted.  *)
FitsRecorded(units) == Sizes(ToSet(recorded)) + units <= Limit

Fits(units) == Charged + units <= Limit
Reserve(w) ==
  /\ pc[w] = "reserve" /\ AuthorityFree
  /\ Fits(Wanted(w))
  /\ growth' = [growth EXCEPT ![w] = Wanted(w)]
  /\ Goto(w, "probe")
  /\ UNCHANGED <<file, recorded, trim, process, bounds, history>>

(* The quota, or the filesystem, has no room.                              *)
ReserveRefused(w) ==
  /\ pc[w] = "reserve" /\ AuthorityFree /\ Goto(w, "release")
  /\ UNCHANGED <<file, recorded, growth, trim, process, bounds, history>>

-----------------------------------------------------------------------------
(* _prepare_fold: the third look chooses the lock.                         *)
Probe(w) ==
  /\ pc[w] = "probe"
  /\ Goto(w, IF Present(key[w]) THEN "shared" ELSE "exclusive")
  /\ UNCHANGED <<file, recorded, growth, trim, process, bounds, history>>

Others(w) == Holders(key[w]) \ {w}
Locks(w, mode) ==
  IF mode = "EX" THEN Others(w) = {} ELSE \A v \in Others(w) : lock[v] # "EX"

TakeShared(w) ==
  /\ pc[w] = "shared" /\ Locks(w, "SH")
  /\ lock' = [lock EXCEPT ![w] = "SH"]
  /\ Goto(w, "read")
  /\ UNCHANGED <<file, recorded, growth, trim, key, missing, pinned, bounds, history>>

TakeExclusive(w) ==
  /\ pc[w] = "exclusive" /\ Locks(w, "EX")
  /\ lock' = [lock EXCEPT ![w] = "EX"]
  /\ Goto(w, "check")
  /\ UNCHANGED <<file, recorded, growth, trim, key, missing, pinned, bounds, history>>

(* PreparationCacheWaitTimeout.                                            *)
WaitTimeout(w) ==
  /\ \/ pc[w] = "shared" /\ ~Locks(w, "SH")
     \/ pc[w] = "exclusive" /\ ~Locks(w, "EX")
  /\ Goto(w, "release")
  /\ UNCHANGED <<file, recorded, growth, trim, process, bounds, history>>

(* commit_cache: the artifact is charged for itself and no longer for its  *)
(* growth; over the limit it stays recorded and the caller is refused.     *)
Commit(w, from) ==
  /\ pc[w] = from /\ AuthorityFree
  /\ recorded' = Touched(key[w])
  /\ growth' = [growth EXCEPT ![w] = 0]
  /\ IF Sizes(ToSet(recorded')) > Limit
       THEN Goto(w, "release") /\ lock' = [lock EXCEPT ![w] = "none"]
       ELSE Goto(w, "retain") /\ UNCHANGED lock
  /\ UNCHANGED <<file, trim, key, missing, pinned, bounds, history>>

(* A reader, and a waiter that found the work done by another.             *)
Hit(w) ==
  /\ pc[w] \in {"read", "check"} /\ file[key[w]] = "good"
  /\ Commit(w, pc[w])

(* The artifact is not there or not valid; or it is, and the read of it,   *)
(* the write of state.json (before or after it was replaced) or the pin    *)
(* fails with an OSError.                                                  *)
Misses(w) ==
  \/ file[key[w]] # "good" /\ UNCHANGED <<recorded, growth, damage>>
  \/ /\ file[key[w]] = "good" /\ Fault
     /\ \/ UNCHANGED <<recorded, growth>>
        \/ /\ AuthorityFree /\ recorded' = Touched(key[w])
           /\ growth' = [growth EXCEPT ![w] = 0]

(* A reader lets go and asks for the whole lock.                           *)
ReadFails(w) ==
  /\ pc[w] = "read" /\ Misses(w)
  /\ lock' = [lock EXCEPT ![w] = "none"]
  /\ Goto(w, "exclusive")
  /\ UNCHANGED <<file, trim, key, missing, pinned, crashes, history>>

CheckFails(w) ==
  /\ pc[w] = "check" /\ Misses(w)
  /\ Goto(w, "remove")
  /\ UNCHANGED <<file, trim, process, crashes, history>>

(* What is there is removed if it is recognised, whatever made the check   *)
(* fail and whoever has it pinned.                                         *)
Removable(k) == file[k] # "partial"

(* Mutant: the lock is let go while the builder runs.                      *)
RebuildUnlocked(w) ==
  /\ pc[w] = "remove" /\ Removable(key[w])
  /\ Forget(key[w])
  /\ lock' = [lock EXCEPT ![w] = "none"]
  /\ Goto(w, "build")
  /\ UNCHANGED <<recorded, growth, trim, key, missing, pinned, bounds>>

Rebuild(w) ==
  /\ pc[w] = "remove" /\ Removable(key[w])
  /\ Forget(key[w])
  /\ Goto(w, "build")
  /\ UNCHANGED <<recorded, growth, trim, process, bounds>>

(* "Refusing to rebuild preparation cache with unknown or linked contents" *)
RebuildRefused(w) ==
  /\ pc[w] = "remove" /\ ~Removable(key[w])
  /\ lock' = [lock EXCEPT ![w] = "none"]
  /\ Goto(w, "refused")
  /\ UNCHANGED <<file, recorded, growth, trim, key, missing, pinned, bounds, history>>

(* bounded_builder: a build larger than was estimated extends the lease by *)
(* the difference, whatever growth the lease was promised.                 *)
Estimated(w) == IF missing[w] THEN Estimate ELSE HitEstimate
Excess(w) == Max({0, Size[key[w]] - Estimated(w)})
Build(w) ==
  /\ pc[w] = "build" /\ (Excess(w) > 0 => AuthorityFree /\ Fits(Excess(w)))
  /\ growth' = [growth EXCEPT ![w] = @ + Excess(w)]
  /\ Goto(w, "publish")
  /\ UNCHANGED <<file, recorded, trim, process, bounds, history>>

(* The builder or a write raises, or the extension is denied.              *)
BuildFails(w) ==
  /\ pc[w] \in {"build", "publish"}
  /\ lock' = [lock EXCEPT ![w] = "none"]
  /\ Goto(w, "release")
  /\ UNCHANGED <<file, recorded, growth, trim, key, missing, pinned, bounds, history>>

Publish(w) ==
  /\ pc[w] = "publish"
  /\ file' = [file EXCEPT ![key[w]] = "good"]
  /\ paid' = [paid EXCEPT ![key[w]] = Min({Size[key[w]], growth[w]})]
  /\ Goto(w, "commit")
  /\ UNCHANGED <<recorded, growth, trim, process, bounds, stray>>

(* After the rename the directory, the artifact, state.json or the pin     *)
(* fails: the artifact stays, recorded or not, and the caller is refused.  *)
CommitFails(w) ==
  /\ pc[w] = "commit" /\ Fault
  /\ \/ /\ AuthorityFree /\ recorded' = Touched(key[w])
        /\ growth' = [growth EXCEPT ![w] = 0] /\ UNCHANGED stray
     \/ stray' = stray \union {key[w]} /\ UNCHANGED <<recorded, growth>>
  /\ lock' = [lock EXCEPT ![w] = "none"]
  /\ Goto(w, "release")
  /\ UNCHANGED <<file, trim, key, missing, pinned, crashes, paid>>

(* Mutant: a builder changes its lock without the pin.                     *)
RetainUnpinned(w) ==
  /\ pc[w] = "retain"
  /\ pinned' = [pinned EXCEPT ![w] = lock[w] = "SH"]
  /\ IF lock[w] = "SH"
       THEN Goto(w, "using") /\ UNCHANGED lock
       ELSE Goto(w, "convert") /\ lock' = [lock EXCEPT ![w] = "none"]
  /\ UNCHANGED <<file, recorded, growth, trim, key, missing, bounds, history>>

(* retain: the pin first, then the key lock becomes shared.  flock gives   *)
(* the old lock back before it asks for the new one.                       *)
Retain(w) ==
  /\ pc[w] = "retain"
  /\ pinned' = [pinned EXCEPT ![w] = TRUE]
  /\ IF lock[w] = "SH"
       THEN Goto(w, "using") /\ UNCHANGED lock
       ELSE Goto(w, "convert") /\ lock' = [lock EXCEPT ![w] = "none"]
  /\ UNCHANGED <<file, recorded, growth, trim, key, missing, bounds, history>>

Convert(w) ==
  /\ pc[w] = "convert" /\ Locks(w, "SH")
  /\ lock' = [lock EXCEPT ![w] = "SH"]
  /\ Goto(w, "using")
  /\ UNCHANGED <<file, recorded, growth, trim, key, missing, pinned, bounds, history>>

Leave(w) ==
  /\ Goto(w, "idle")
  /\ key' = [key EXCEPT ![w] = None] /\ missing' = [missing EXCEPT ![w] = FALSE]
(* A caller without pins gets a descriptor and no lock.                    *)
ReturnUnpinned(w) ==
  /\ pc[w] = "retain"
  /\ lock' = [lock EXCEPT ![w] = "none"]
  /\ Leave(w)
  /\ UNCHANGED <<file, recorded, growth, trim, pinned, bounds, history>>

Done(w) ==
  /\ pc[w] = "using"
  /\ lock' = [lock EXCEPT ![w] = "none"] /\ pinned' = [pinned EXCEPT ![w] = FALSE]
  /\ Leave(w)
  /\ UNCHANGED <<file, recorded, growth, trim, bounds, history>>

(* The lease of a failed preparation.                                      *)
Release(w) ==
  /\ pc[w] \in {"refused", "release"} /\ AuthorityFree
  /\ growth' = [growth EXCEPT ![w] = 0]
  /\ Leave(w)
  /\ UNCHANGED <<file, recorded, trim, lock, pinned, bounds, history>>

-----------------------------------------------------------------------------
(* A process is killed: the kernel drops its locks, the next admission its *)
(* lease.  What it was removing stays behind in part, what it had evicted  *)
(* stays recorded, what it had published does not get recorded.            *)
Removing(w, k) ==
  \/ trim.by = w /\ MayTry(w) /\ k = Head(trim.todo) /\ Evictable(k)
  \/ pc[w] = "remove" /\ k = key[w] /\ file[k] \in {"good", "rotten"}
Crash(w) ==
  /\ pc[w] # "idle" /\ crashes < MaxCrashes /\ crashes' = crashes + 1
  /\ \/ UNCHANGED file
     \/ \E k \in Key : Removing(w, k) /\ file' = [file EXCEPT ![k] = "partial"]
  /\ growth' = [growth EXCEPT ![w] = 0]
  /\ trim' = IF trim.by = w THEN NoTrim ELSE trim
  /\ Leave(w)
  /\ lock' = [lock EXCEPT ![w] = "none"] /\ pinned' = [pinned EXCEPT ![w] = FALSE]
  /\ stray' = IF pc[w] = "commit" THEN stray \union {key[w]} ELSE stray
  /\ UNCHANGED <<recorded, damage, paid>>

(* An artifact nobody uses rots on the disk.                               *)
Rot(k) ==
  /\ Fault
  /\ file[k] = "good" /\ Idle(k)
  /\ file' = [file EXCEPT ![k] = "rotten"]
  /\ UNCHANGED <<recorded, growth, trim, pc, process, crashes, history>>

Trim(w) == TakeAuthority(w) \/ Evict(w) \/ Keep(w) \/ TrimEnds(w)
Proceed(w) ==
  \/ Adopt(w) \/ Trim(w) \/ LookAgain(w) \/ Reserve(w) \/ ReserveRefused(w)
  \/ Probe(w) \/ TakeShared(w) \/ TakeExclusive(w) \/ WaitTimeout(w)
  \/ Hit(w) \/ ReadFails(w) \/ CheckFails(w) \/ Rebuild(w) \/ RebuildRefused(w)
  \/ Build(w) \/ BuildFails(w) \/ Publish(w) \/ Commit(w, "commit") \/ CommitFails(w)
  \/ Retain(w) \/ Convert(w) \/ ReturnUnpinned(w) \/ Release(w)

Next ==
  \/ \E w \in Worker : Start(w) \/ Maintain(w) \/ Proceed(w) \/ Done(w) \/ Crash(w)
  \/ \E k \in Key : Rot(k)

Spec == Init /\ [][Next]_vars
(* A process that is not killed goes on; the kernel queues those that wait *)
(* for authority.lock, so none is passed over for ever.                    *)
FairSpec == Spec /\ \A w \in Worker : SF_vars(Proceed(w))
-----------------------------------------------------------------------------
(* The cache columns of state.json and the processes keep their shape; a   *)
(* key is recorded once.                                                   *)
TypeOK ==
  /\ file \in [Key -> Content]
  /\ ToSet(recorded) \subseteq Key /\ IsInjective(recorded)
  /\ growth \in [Worker -> 0..Limit]
  /\ trim.by \in Worker \union {None}
  /\ \E n \in 0..Len(recorded) : trim.todo = SubSeq(recorded, n + 1, Len(recorded))
  /\ ToSet(trim.left) \subseteq ToSet(recorded) /\ IsInjective(trim.left)
  /\ pc \in [Worker -> Pc] /\ key \in [Worker -> Key \union {None}]
  /\ missing \in [Worker -> BOOLEAN]
  /\ lock \in [Worker -> {"none", "SH", "EX"}] /\ pinned \in [Worker -> BOOLEAN]
  /\ crashes \in 0..MaxCrashes /\ damage \in 0..MaxDamage
  /\ stray \subseteq Key /\ paid \in [Key -> Nat]

(* A preparation ends with a valid artifact.  From then until the caller   *)
(* gives it back, through the change from a writer's to a reader's lock,   *)
(* nobody evicts, replaces or damages it ("eviction cannot delete a        *)
(* running job's inputs"), except that in the gap between the two locks a  *)
(* process whose own check of the artifact failed may rebuild it.          *)
Retained(w) == pc[w] \in {"retain", "convert", "using"}
Robbed(w) == pc[w] = "convert" /\ \E v \in Worker : pc[v] = "remove" /\ key[v] = key[w]
KeepsArtifact(w) ==
  /\ ~Retained(w) /\ Retained(w)' => file'[key'[w]] = "good"
  /\ Retained(w) /\ file[key[w]] = "good" => file'[key[w]] = "good" \/ Robbed(w)
PinnedStays == [][\A w \in Worker : KeepsArtifact(w)]_vars

(* Concurrent misses of a key build it once: while one process is between  *)
(* its decision to build and the publication, no other is, and there is    *)
(* nothing yet that it would overwrite.                                    *)
Building(w) == pc[w] \in {"build", "publish"}
OneBuilder ==
  \A w \in Worker : Building(w) =>
    /\ file[key[w]] = "absent"
    /\ \A v \in Worker \ {w} : Building(v) => key[v] # key[w]

(* What is on the disk stays within cache_limit_bytes, however many        *)
(* processes were admitted at once, whatever was evicted, recorded late or *)
(* rebuilt.  Not covered is what no lease was promised: artifacts whose    *)
(* publisher died or failed before commit_cache, and of an artifact that   *)
(* was rebuilt at most what was estimated for it.                          *)
Kept == {k \in Key : Present(k)} \ stray
LimitKept ==
  /\ Total(paid, Kept) <= Limit
  /\ \A k \in Kept : Size[k] <= paid[k] + Max({Estimate, HitEstimate})

(* Nobody waits for ever: a preparation ends with an artifact or a refusal *)
(* although producers hold a key while they ask for the authority and      *)
(* trimmers hold the authority while they ask for keys.                    *)
PrepareEnds ==
  \A w \in Worker : pc[w] \notin {"idle", "using"} ~> pc[w] \in {"idle", "using"}
=============================================================================
