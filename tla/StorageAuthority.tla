------------------------- MODULE StorageAuthority -------------------------
(***************************************************************************)
(* The shared-filesystem admission authority of ima/research_storage.py:   *)
(* `state.json` under one flock records how many bytes and inodes each     *)
(* cooperating process may still put on the filesystem, and a writer       *)
(* (ReservedFile, reserved_output_file) extends its lease BEFORE it writes *)
(* and gives back what statvfs already accounts for AFTER it has written.  *)
(* Processes die with leases outstanding and their pids are reused; other  *)
(* users of the filesystem take space without asking.                      *)
(*                                                                         *)
(* Every operation of StorageAuthority runs under the flock, so each is    *)
(* one step.  A writer's budget lives in its own memory and its steps      *)
(* interleave with everybody else's.                                       *)
(***************************************************************************)
EXTENDS Integers, FiniteSets

CONSTANTS
  Pid,          \* pid slots of the host
  Token,        \* lease tokens (uuid4 in the code)
  Capacity,     \* [Kind -> units] of the filesystem
  Headroom,     \* [Kind -> units] no admission may touch
  Demand,       \* the requests a writer makes: a set of [Kind -> units]
  Grain,        \* smallest extension a ReservedFile asks for (1 MiB)
  MaxWrite,     \* largest single write() of a stream
  MaxStarts,    \* bound: processes started in one behaviour
  MaxForeign    \* bound: [Kind -> units] other users take

Kind == {"bytes", "inodes"}

ASSUME CapacityAssumption ==
  /\ Capacity \in [Kind -> Nat]
  /\ Headroom \in [Kind -> Nat]
  /\ Demand \subseteq [Kind -> Nat]
  /\ Grain \in Nat /\ MaxWrite \in Nat
  /\ MaxStarts \in Nat
  /\ MaxForeign \in [Kind -> Nat]
ASSUME TokenAssumption == IsFiniteSet(Token) /\ Pid # {}

VARIABLES
  process,      \* [Pid -> identity of the process in the slot]
  starts,       \* identities handed out so far (boot id + start time)
  size,         \* state.json: [Kind -> [Token -> leased units]]
  holder,       \* state.json: [Token -> pid and identity of the reserver]
  remaining,    \* writer memory: limit - written, and inode_remaining
  unconsumed,   \* writer memory: written, not yet taken off the lease
  buffered,     \* writer memory: bytes written to the stream, not on disk
  free,         \* statvfs: [Kind -> available units]
  foreign       \* history: [Kind -> units other users ever took]

vars == <<process, starts, size, holder, remaining, unconsumed, buffered, free, foreign>>
state == <<size, holder>>                       \* the content of state.json
budget == <<remaining, unconsumed, buffered>>   \* _OUTPUT_BUDGET of every writer

(* _process_identity: 0 is None, -1 is 'unknown', 1.. an own process.      *)
Gone == 0
Unknown == -1
Identity == 1..MaxStarts
NoHolder == [pid |-> CHOOSE p \in Pid : TRUE, identity |-> Gone]
Nothing == [k \in Kind |-> 0]

(* The sum of a lease column over every token, counted unit by unit.       *)
Larger(a, b) == IF a > b THEN a ELSE b
Ceiling == Larger(Capacity["bytes"], Capacity["inodes"])
Leased(f) == {u \in Token \X (1..Ceiling) : u[2] <= f[u[1]]}
Total(f) == Cardinality(Leased(f))

(* What a writer has been promised and the disk does not show yet.         *)
Owed(k) == [t \in Token |-> remaining[k][t] + (IF k = "bytes" THEN buffered[t] ELSE 0)]

Issued(t) == holder[t].identity # Gone
Owns(p, t) == Issued(t) /\ holder[t] = [pid |-> p, identity |-> process[p]]

Set(f, t, v) == [f EXCEPT ![t] = v]
SetAll(f, t, v) == [k \in Kind |-> Set(f[k], t, v[k])]

Init ==
  /\ process = [p \in Pid |-> Gone]
  /\ starts = 0
  /\ size = [k \in Kind |-> [t \in Token |-> 0]]
  /\ holder = [t \in Token |-> NoHolder]
  /\ remaining = size
  /\ unconsumed = size
  /\ buffered = [t \in Token |-> 0]
  /\ free \in {f \in [Kind -> 0..Ceiling] : \A k \in Kind : f[k] <= Capacity[k]}
  /\ foreign = Nothing

---------------------------------------------------------------------------
(* Mutant: a reused pid keeps the dead process's lease.                    *)
DeadOnlyWhenPidFree(t) == Issued(t) /\ process[holder[t].pid] = Gone

(* Leases whose process is gone or whose pid now names another process.    *)
(* An unreadable identity ('unknown') keeps the lease.                     *)
Dead(t) ==
  LET current == process[holder[t].pid]
  IN /\ Issued(t)
     /\ \/ current = Gone
        \/ current # Unknown /\ current # holder[t].identity

ReconciledSize == [k \in Kind |-> [t \in Token |-> IF Dead(t) THEN 0 ELSE size[k][t]]]
ReconciledHolder == [t \in Token |-> IF Dead(t) THEN NoHolder ELSE holder[t]]

(* Mutant of Admits: the leases of the others are forgotten.               *)
AdmitsAlone(leases, extra) == \A k \in Kind : extra[k] + Headroom[k] <= free[k]

Admits(leases, extra) ==
  \A k \in Kind : extra[k] + Total(leases[k]) + Headroom[k] <= free[k]

(* A refused reservation leaves state.json as it was: the reconciliation   *)
(* is not persisted either.                                                *)
Reserve(p, t, demand) ==
  /\ process[p] \in Identity
  /\ ~Issued(t)
  /\ Admits(ReconciledSize, demand)
  /\ size' = SetAll(ReconciledSize, t, demand)
  /\ holder' = Set(ReconciledHolder, t, [pid |-> p, identity |-> process[p]])
  /\ remaining' = SetAll(remaining, t, demand)
  /\ unconsumed' = SetAll(unconsumed, t, Nothing)
  /\ buffered' = Set(buffered, t, 0)
  /\ UNCHANGED <<process, starts, free, foreign>>

(* Mutant: the writer's limit grows, the record in state.json does not.    *)
ExtendBudgetOnly(t, extra) ==
  /\ Admits(size, extra)
  /\ remaining' = SetAll(remaining, t, [k \in Kind |-> remaining[k][t] + extra[k]])
  /\ UNCHANGED <<process, starts, size, holder, unconsumed, buffered, free, foreign>>

Extend(t, extra) ==
  /\ Admits(size, extra)
  /\ size' = SetAll(size, t, [k \in Kind |-> size[k][t] + extra[k]])
  /\ remaining' = SetAll(remaining, t, [k \in Kind |-> remaining[k][t] + extra[k]])
  /\ UNCHANGED <<process, starts, holder, unconsumed, buffered, free, foreign>>

(* What a write of n units asks for when the budget does not cover it.     *)
Growth(t, k, n) ==
  [j \in Kind |-> IF j # k THEN 0
                  ELSE IF k = "bytes" THEN Larger(Grain, n - remaining[k][t]) ELSE 1]

GrowForWrite(p, t, k, n) ==
  /\ Owns(p, t)
  /\ n > remaining[k][t]
  /\ Extend(t, Growth(t, k, n))

(* ReservedFile.write once the budget covers the data.                     *)
Write(p, t, n) ==
  /\ Owns(p, t)
  /\ n <= remaining["bytes"][t]
  /\ remaining' = [remaining EXCEPT !["bytes"][t] = @ - n]
  /\ unconsumed' = [unconsumed EXCEPT !["bytes"][t] = @ + n]
  /\ buffered' = [buffered EXCEPT ![t] = @ + n]
  /\ UNCHANGED <<process, starts, size, holder, free, foreign>>

(* The stream hands n buffered bytes to the filesystem.                    *)
Drain(p, t, n) ==
  /\ Owns(p, t)
  /\ n <= buffered[t] /\ n <= free["bytes"]
  /\ buffered' = [buffered EXCEPT ![t] = @ - n]
  /\ free' = [free EXCEPT !["bytes"] = @ - n]
  /\ UNCHANGED <<process, starts, size, holder, remaining, unconsumed, foreign>>

(* reserved_output_file creates a file: one inode, at once.                *)
CreateFile(p, t) ==
  /\ Owns(p, t)
  /\ remaining["inodes"][t] > 0 /\ free["inodes"] > 0
  /\ remaining' = [remaining EXCEPT !["inodes"][t] = @ - 1]
  /\ unconsumed' = [unconsumed EXCEPT !["inodes"][t] = @ + 1]
  /\ free' = [free EXCEPT !["inodes"] = @ - 1]
  /\ UNCHANGED <<process, starts, size, holder, buffered, foreign>>

(* ReservedFile.flush after the stream is on disk: authority.consume.      *)
Consume(p, t) ==
  /\ Owns(p, t)
  /\ buffered[t] = 0
  /\ \E k \in Kind : unconsumed[k][t] > 0
  /\ \A k \in Kind : unconsumed[k][t] <= size[k][t]
  /\ size' = SetAll(size, t, [k \in Kind |-> size[k][t] - unconsumed[k][t]])
  /\ unconsumed' = SetAll(unconsumed, t, Nothing)
  /\ UNCHANGED <<process, starts, holder, remaining, buffered, free, foreign>>

(* stream.flush() fails for want of space: the bytes are lost and, the     *)
(* count being kept per open file, never taken off the lease.              *)
FlushFails(p, t) ==
  /\ Owns(p, t)
  /\ buffered[t] > free["bytes"]
  /\ buffered' = [buffered EXCEPT ![t] = 0]
  /\ unconsumed' = [unconsumed EXCEPT !["bytes"][t] = 0]
  /\ UNCHANGED <<process, starts, size, holder, remaining, free, foreign>>

(* Leaving `admitted`, normally or unwinding an error; files are closed.   *)
Release(p, t) ==
  /\ Owns(p, t)
  /\ buffered[t] = 0
  /\ size' = SetAll(size, t, Nothing)
  /\ holder' = Set(holder, t, NoHolder)
  /\ remaining' = SetAll(remaining, t, Nothing)
  /\ unconsumed' = SetAll(unconsumed, t, Nothing)
  /\ UNCHANGED <<process, starts, buffered, free, foreign>>

Reconcile ==
  /\ \E t \in Token : Dead(t)
  /\ size' = ReconciledSize
  /\ holder' = ReconciledHolder
  /\ UNCHANGED <<process, starts, budget, free, foreign>>

---------------------------------------------------------------------------
(* The host around the authority.                                          *)
Start(p) ==
  /\ process[p] = Gone
  /\ starts < MaxStarts
  /\ starts' = starts + 1
  /\ process' = [process EXCEPT ![p] = starts + 1]
  /\ UNCHANGED <<state, budget, free, foreign>>

(* A pid taken by a process whose identity we may not read.                *)
StartUnreadable(p) ==
  /\ process[p] = Gone
  /\ process' = [process EXCEPT ![p] = Unknown]
  /\ UNCHANGED <<starts, state, budget, free, foreign>>

(* A process ends, or is killed: its memory goes, state.json stays.        *)
Exit(p) ==
  /\ process[p] # Gone
  /\ process' = [process EXCEPT ![p] = Gone]
  /\ remaining' = [k \in Kind |-> [t \in Token |-> IF Owns(p, t) THEN 0 ELSE remaining[k][t]]]
  /\ unconsumed' = [k \in Kind |-> [t \in Token |-> IF Owns(p, t) THEN 0 ELSE unconsumed[k][t]]]
  /\ buffered' = [t \in Token |-> IF Owns(p, t) THEN 0 ELSE buffered[t]]
  /\ UNCHANGED <<starts, state, free, foreign>>

ForeignUse(k) ==
  /\ free[k] > 0 /\ foreign[k] < MaxForeign[k]
  /\ free' = [free EXCEPT ![k] = @ - 1]
  /\ foreign' = [foreign EXCEPT ![k] = @ + 1]
  /\ UNCHANGED <<process, starts, state, budget>>

(* Something is deleted: an evicted cache, a truncated export.             *)
Delete(k) ==
  /\ free[k] < Capacity[k]
  /\ free' = [free EXCEPT ![k] = @ + 1]
  /\ UNCHANGED <<process, starts, state, budget, foreign>>

Next ==
  \/ \E p \in Pid, t \in Token :
       \/ \E d \in Demand : Reserve(p, t, d)
       \/ \E n \in 1..MaxWrite : GrowForWrite(p, t, "bytes", n)
       \/ GrowForWrite(p, t, "inodes", 1)
       \/ \E n \in 1..MaxWrite : Write(p, t, n)
       \/ \E n \in 1..Capacity["bytes"] : Drain(p, t, n)
       \/ CreateFile(p, t)
       \/ Consume(p, t)
       \/ FlushFails(p, t)
       \/ Release(p, t)
  \/ Reconcile
  \/ \E p \in Pid : Start(p) \/ StartUnreadable(p) \/ Exit(p)
  \/ \E k \in Kind : ForeignUse(k) \/ Delete(k)

Spec == Init /\ [][Next]_vars

(* reconcile(), or trim_caches, which persists the same reconciliation:    *)
(* ima-research-capacity-maintenance.timer trims whatever the writers do.  *)
FairSpec == Spec /\ WF_vars(Reconcile)

---------------------------------------------------------------------------
(* Type invariant of state.json, of the writers' memory and of statvfs.    *)
TypeOK ==
  /\ process \in [Pid -> Identity \cup {Gone, Unknown}]
  /\ starts \in 0..MaxStarts
  /\ size \in [Kind -> [Token -> 0..Ceiling]]
  /\ holder \in [Token -> [pid : Pid, identity : Identity \cup {Gone}]]
  /\ remaining \in [Kind -> [Token -> 0..Ceiling]]
  /\ unconsumed \in [Kind -> [Token -> 0..Ceiling]]
  /\ buffered \in [Token -> 0..Ceiling]
  /\ free \in [Kind -> 0..Ceiling] /\ \A k \in Kind : free[k] <= Capacity[k]
  /\ foreign \in [Kind -> Nat] /\ \A k \in Kind : foreign[k] <= MaxForeign[k]

(* A live writer's lease holds everything it was promised and everything   *)
(* it wrote since the last consume, so consume()'s "Write exceeded its     *)
(* admitted future byte capacity" is never raised, whichever writers died, *)
(* were reconciled away or were extended in between.                       *)
LeaseCoversWriter ==
  \A k \in Kind, t \in Token : remaining[k][t] + unconsumed[k][t] <= size[k][t]

(* Nobody but a live process named by the lease still has units to write:  *)
(* reconciling leases away never takes one from a running writer.          *)
OnlyHoldersOwe ==
  \A t \in Token : (\E k \in Kind : remaining[k][t] + unconsumed[k][t] > 0)
                     => Issued(t) /\ process[holder[t].pid] = holder[t].identity

(* Cooperating writers together never eat into the headroom: everything    *)
(* they still may write fits above it, less what other users took.         *)
HeadroomKept ==
  \A k \in Kind : Total(Owed(k)) > 0
                    => Headroom[k] + Total(Owed(k)) <= free[k] + foreign[k]

(* So a flush inside an admitted lease fails for want of space only when   *)
(* other users took more than the whole headroom.                          *)
WritersNeverRunOut ==
  \A t \in Token : buffered[t] > free["bytes"] => foreign["bytes"] > Headroom["bytes"]

(* A lease whose process is gone, or whose pid was taken by another own    *)
(* process, is reclaimed; it does not hold capacity for ever.              *)
Abandoned(t) == /\ Issued(t)
                /\ process[holder[t].pid] \notin {holder[t].identity, Unknown}
AbandonedLeasesReclaimed == \A t \in Token : Abandoned(t) ~> ~Abandoned(t)

===========================================================================
