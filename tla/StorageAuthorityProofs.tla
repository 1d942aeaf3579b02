---------------------- MODULE StorageAuthorityProofs ----------------------
(***************************************************************************)
(* The leases of StorageAuthority never promise more than the filesystem   *)
(* has above the headroom, for every number of processes and tokens, every *)
(* capacity, headroom, demand and write size.                              *)
(*                                                                         *)
(* The sum over the leases is a cardinality (Leased), so the facts about   *)
(* sums that the admission rule rests on come from FiniteSetTheorems.      *)
(***************************************************************************)
EXTENDS StorageAuthority, FiniteSetTheorems, TLAPS

Column == [Token -> 0..Ceiling]

---------------------------------------------------------------------------
(* Sums of a column.                                                       *)

LEMMA CeilingNat == Ceiling \in Nat /\ \A k \in Kind : Capacity[k] <= Ceiling
  BY CapacityAssumption DEF Ceiling, Larger, Kind

LEMMA TotalType ==
  ASSUME NEW f \in Column
  PROVE  IsFiniteSet(Leased(f)) /\ Total(f) \in Nat
  <1>1. IsFiniteSet(1..Ceiling)
    BY CeilingNat, FS_Interval
  <1>2. IsFiniteSet(Token \X (1..Ceiling))
    BY <1>1, TokenAssumption, FS_Product
  <1>3. Leased(f) \in SUBSET (Token \X (1..Ceiling))
    BY DEF Leased
  <1>4. IsFiniteSet(Leased(f))
    BY <1>2, <1>3, FS_Subset
  <1> QED BY <1>4, FS_CardinalityType DEF Total

(* A column that is nowhere larger has no larger sum.                      *)
LEMMA TotalMonotone ==
  ASSUME NEW f \in Column, NEW g \in Column, \A t \in Token : f[t] <= g[t]
  PROVE  Total(f) <= Total(g)
  <1>1. Leased(f) \in SUBSET Leased(g)
    <2> SUFFICES ASSUME NEW u \in Leased(f) PROVE u \in Leased(g)
      OBVIOUS
    <2>1. u \in Token \X (1..Ceiling) /\ u[2] <= f[u[1]]
      BY DEF Leased
    <2>2. u[1] \in Token /\ u[2] \in 1..Ceiling
      BY <2>1
    <2>3. u[2] <= g[u[1]]
      BY <2>1, <2>2, CeilingNat DEF Column
    <2> QED BY <2>1, <2>3 DEF Leased
  <1>2. IsFiniteSet(Leased(g))
    BY TotalType
  <1> QED BY <1>1, <1>2, FS_Subset DEF Total

(* The units of one token number its entry.                                *)
LEMMA UnitsOfToken ==
  ASSUME NEW t \in Token, NEW n \in 0..Ceiling
  PROVE  IsFiniteSet({t} \X (1..n)) /\ Cardinality({t} \X (1..n)) = n
  <1>1. IsFiniteSet(1..n) /\ Cardinality(1..n) = n
    BY CeilingNat, FS_Interval
  <1>2. IsFiniteSet({t}) /\ Cardinality({t}) = 1
    BY FS_Singleton
  <1> QED BY <1>1, <1>2, FS_Product, CeilingNat

(* Replacing one entry changes the sum by the difference.                  *)
LEMMA TotalReplace ==
  ASSUME NEW f \in Column, NEW t \in Token, NEW v \in 0..Ceiling
  PROVE  Total(Set(f, t, v)) = Total(f) - f[t] + v
  <1> DEFINE g == Set(f, t, v)
             Rest == {u \in Leased(f) : u[1] # t}
  <1>1. g \in Column /\ g[t] = v /\ \A s \in Token : s # t => g[s] = f[s]
    BY DEF Column, Set
  <1>2. IsFiniteSet(Leased(f)) /\ IsFiniteSet(Rest)
    <2>1. IsFiniteSet(Leased(f))
      BY TotalType
    <2>2. Rest \in SUBSET Leased(f)
      OBVIOUS
    <2> QED BY <2>1, <2>2, FS_Subset
  <1>3. ASSUME NEW h \in Column, \A s \in Token : s # t => h[s] = f[s]
        PROVE  Total(h) = Cardinality(Rest) + h[t]
    <2> DEFINE Own == {t} \X (1..h[t])
    <2>1. h[t] \in 0..Ceiling
      BY DEF Column
    <2>2. IsFiniteSet(Own) /\ Cardinality(Own) = h[t]
      BY <2>1, UnitsOfToken
    <2>3. Leased(h) = Rest \cup Own
      <3>1. ASSUME NEW u PROVE u \in Leased(h) => u \in Rest \cup Own
        <4> SUFFICES ASSUME u \in Leased(h) PROVE u \in Rest \cup Own
          OBVIOUS
        <4>1. u \in Token \X (1..Ceiling) /\ u[2] <= h[u[1]]
          BY DEF Leased
        <4>2. CASE u[1] = t
          BY <4>1, <4>2, <2>1, CeilingNat
        <4>3. CASE u[1] # t
          BY <4>1, <4>3, <1>3 DEF Leased
        <4> QED BY <4>2, <4>3
      <3>2. ASSUME NEW u PROVE u \in Rest => u \in Leased(h)
        BY <1>3 DEF Leased
      <3>3. ASSUME NEW u PROVE u \in Own => u \in Leased(h)
        <4> SUFFICES ASSUME u \in Own PROVE u \in Leased(h)
          OBVIOUS
        <4>1. u = <<t, u[2]>> /\ u[1] = t /\ u[2] \in 1..h[t]
          OBVIOUS
        <4>2. u[2] \in 1..Ceiling /\ u[2] <= h[t]
          BY <4>1, <2>1, CeilingNat
        <4> QED BY <4>1, <4>2 DEF Leased
      <3> QED BY <3>1, <3>2, <3>3
    <2>4. Rest \cap Own = {}
      OBVIOUS
    <2>5. Cardinality(Rest \cup Own) = Cardinality(Rest) + Cardinality(Own) - Cardinality(Rest \cap Own)
      BY <1>2, <2>2, FS_Union
    <2>6. Cardinality(Rest \cap Own) = 0
      BY <2>4, FS_EmptySet
    <2>7. Cardinality(Rest) \in Nat
      BY <1>2, FS_CardinalityType
    <2> QED BY <2>1, <2>2, <2>3, <2>5, <2>6, <2>7, CeilingNat DEF Total
  <1>4. Total(f) = Cardinality(Rest) + f[t]
    BY <1>3
  <1>5. Total(g) = Cardinality(Rest) + v
    BY <1>1, <1>3
  <1>6. f[t] \in Nat /\ v \in Nat /\ Cardinality(Rest) \in Nat
    BY <1>2, FS_CardinalityType, CeilingNat DEF Column
  <1> QED BY <1>4, <1>5, <1>6

(* One entry is at most the sum.                                           *)
LEMMA EntryBelowTotal ==
  ASSUME NEW f \in Column, NEW t \in Token
  PROVE  f[t] <= Total(f)
  <1>1. 0 \in 0..Ceiling /\ f[t] \in 0..Ceiling
    BY CeilingNat DEF Column
  <1>2. Total(Set(f, t, 0)) = Total(f) - f[t] + 0
    BY <1>1, TotalReplace
  <1>3. Set(f, t, 0) \in Column
    BY <1>1 DEF Column, Set
  <1>4. Total(Set(f, t, 0)) \in Nat /\ Total(f) \in Nat
    BY <1>3, TotalType
  <1> QED BY <1>1, <1>2, <1>4, CeilingNat

---------------------------------------------------------------------------
(* The inductive invariant: what is buffered has been counted as written,  *)
(* which bounds every column by the lease it belongs to.                   *)
BufferedCounted == \A t \in Token : buffered[t] <= unconsumed["bytes"][t]

IInv == /\ TypeOK
        /\ LeaseCoversWriter
        /\ BufferedCounted
        /\ OnlyHoldersOwe
        /\ HeadroomKept

LEMMA KindTwo == "bytes" \in Kind /\ "inodes" \in Kind /\ "bytes" # "inodes"
  BY DEF Kind

LEMMA NoHolderType == NoHolder \in [pid : Pid, identity : {Gone}]
  BY TokenAssumption DEF NoHolder

(* What a writer owes is covered by its lease.                             *)
LEMMA OwedType ==
  ASSUME TypeOK, LeaseCoversWriter, BufferedCounted, NEW k \in Kind
  PROVE  /\ Owed(k) \in Column
         /\ size[k] \in Column
         /\ \A t \in Token : Owed(k)[t] <= size[k][t]
  <1>1. size[k] \in Column /\ remaining[k] \in Column /\ unconsumed[k] \in Column
    BY DEF TypeOK, Column
  <1>2. ASSUME NEW t \in Token
        PROVE  Owed(k)[t] \in 0..Ceiling /\ Owed(k)[t] <= size[k][t]
    <2>1. /\ size[k][t] \in 0..Ceiling /\ remaining[k][t] \in 0..Ceiling
          /\ unconsumed[k][t] \in 0..Ceiling /\ buffered[t] \in 0..Ceiling
      BY <1>1 DEF Column, TypeOK
    <2>2. remaining[k][t] + unconsumed[k][t] <= size[k][t]
      BY DEF LeaseCoversWriter
    <2>3. k = "bytes" => buffered[t] <= unconsumed[k][t]
      BY DEF BufferedCounted
    <2>4. Owed(k)[t] = remaining[k][t] + (IF k = "bytes" THEN buffered[t] ELSE 0)
      BY DEF Owed
    <2> QED BY <2>1, <2>2, <2>3, <2>4, CeilingNat
  <1>3. Owed(k) = [t \in Token |-> Owed(k)[t]]
    BY DEF Owed
  <1>4. Owed(k) \in [Token -> 0..Ceiling]
    BY <1>2, <1>3
  <1> QED BY <1>1, <1>2, <1>4 DEF Column

(* The leases left by a reconciliation still cover what is owed.           *)
LEMMA ReconciledCovers ==
  ASSUME IInv, NEW k \in Kind
  PROVE  /\ ReconciledSize[k] \in Column
         /\ \A t \in Token : Owed(k)[t] <= ReconciledSize[k][t]
         /\ \A t \in Token : Dead(t) => /\ remaining[k][t] = 0
                                        /\ unconsumed[k][t] = 0
                                        /\ buffered[t] = 0
  <1>1. /\ Owed(k) \in Column /\ size[k] \in Column
        /\ \A t \in Token : Owed(k)[t] <= size[k][t]
    BY OwedType DEF IInv
  <1>2. ASSUME NEW t \in Token, Dead(t), NEW j \in Kind
        PROVE  remaining[j][t] = 0 /\ unconsumed[j][t] = 0
    <2>1. ~(Issued(t) /\ process[holder[t].pid] = holder[t].identity)
      BY <1>2 DEF Dead, Issued, Gone
    <2>2. ~(remaining[j][t] + unconsumed[j][t] > 0)
      BY <2>1 DEF IInv, OnlyHoldersOwe
    <2>3. remaining[j][t] \in 0..Ceiling /\ unconsumed[j][t] \in 0..Ceiling
      BY DEF IInv, TypeOK
    <2> QED BY <2>2, <2>3, CeilingNat
  <1>3. ASSUME NEW t \in Token, Dead(t) PROVE buffered[t] = 0
    <2>1. unconsumed["bytes"][t] = 0
      BY <1>2, <1>3, KindTwo
    <2>2. buffered[t] <= unconsumed["bytes"][t] /\ buffered[t] \in 0..Ceiling
      BY DEF IInv, BufferedCounted, TypeOK
    <2> QED BY <2>1, <2>2, CeilingNat
  <1>4. ASSUME NEW t \in Token
        PROVE  /\ ReconciledSize[k][t] = IF Dead(t) THEN 0 ELSE size[k][t]
               /\ Owed(k)[t] = remaining[k][t] + (IF k = "bytes" THEN buffered[t] ELSE 0)
    BY DEF ReconciledSize, Owed
  <1>5. \A t \in Token : Owed(k)[t] <= ReconciledSize[k][t]
    <2> SUFFICES ASSUME NEW t \in Token PROVE Owed(k)[t] <= ReconciledSize[k][t]
      OBVIOUS
    <2>1. CASE Dead(t)
      BY <2>1, <1>2, <1>3, <1>4
    <2>2. CASE ~Dead(t)
      BY <2>2, <1>1, <1>4
    <2> QED BY <2>1, <2>2
  <1>6. ReconciledSize[k] \in Column
    BY <1>1, CeilingNat DEF ReconciledSize, Column
  <1> QED BY <1>2, <1>3, <1>5, <1>6

(* A step after which nobody owes more, and that takes nothing off the     *)
(* filesystem without booking it as foreign, keeps the headroom.           *)
LEMMA HeadroomStable ==
  ASSUME IInv, TypeOK',
         \A k \in Kind, t \in Token : Owed(k)'[t] <= Owed(k)[t],
         \A k \in Kind : free[k] + foreign[k] <= free'[k] + foreign'[k]
  PROVE  HeadroomKept'
  <1> SUFFICES ASSUME NEW k \in Kind, Total(Owed(k))' > 0
               PROVE  Headroom[k] + Total(Owed(k))' <= free'[k] + foreign'[k]
    BY DEF HeadroomKept
  <1>1. Owed(k) \in Column
    BY OwedType DEF IInv
  <1>2. Owed(k)' \in Column
    <2>1. ASSUME NEW t \in Token
          PROVE  remaining'[k][t] + (IF k = "bytes" THEN buffered'[t] ELSE 0) \in 0..Ceiling
      <3>1. /\ Owed(k)[t] \in 0..Ceiling
            /\ Owed(k)'[t] <= Owed(k)[t]
        BY <1>1 DEF Column
      <3>2. Owed(k)'[t] = remaining'[k][t] + (IF k = "bytes" THEN buffered'[t] ELSE 0)
        BY DEF Owed
      <3>3. remaining'[k][t] \in 0..Ceiling /\ buffered'[t] \in 0..Ceiling
        BY DEF TypeOK
      <3> QED BY <3>1, <3>2, <3>3, CeilingNat
    <2> QED BY <2>1 DEF Owed, Column
  <1>3. Total(Owed(k)') <= Total(Owed(k))
    BY <1>1, <1>2, TotalMonotone
  <1>4. Total(Owed(k)') \in Nat /\ Total(Owed(k)) \in Nat
    BY <1>1, <1>2, TotalType
  <1>5. Headroom[k] \in Nat /\ free[k] \in Nat /\ foreign[k] \in Nat /\ free'[k] \in Nat /\ foreign'[k] \in Nat
    BY CapacityAssumption, CeilingNat DEF IInv, TypeOK
  <1>6. Total(Owed(k))' = Total(Owed(k)')
    BY DEF Total, Leased
  <1> QED BY <1>3, <1>4, <1>5, <1>6 DEF IInv, HeadroomKept

---------------------------------------------------------------------------
(* The invariant, action by action.                                        *)

LEMMA InitInvariant == Init => IInv
  <1> SUFFICES ASSUME Init PROVE IInv
    OBVIOUS
  <1>1. TypeOK
    BY NoHolderType, CapacityAssumption, CeilingNat
    DEF Init, TypeOK, Nothing, Gone, Unknown, Identity
  <1>2. LeaseCoversWriter /\ BufferedCounted /\ OnlyHoldersOwe
    BY KindTwo DEF Init, LeaseCoversWriter, BufferedCounted, OnlyHoldersOwe
  <1>3. HeadroomKept
    <2> SUFFICES ASSUME NEW k \in Kind PROVE ~(Total(Owed(k)) > 0)
      BY DEF HeadroomKept
    <2>1. \A t \in Token : Owed(k)[t] = 0
      BY DEF Owed, Init
    <2>2. Leased(Owed(k)) = {}
      BY <2>1, CeilingNat DEF Leased
    <2> QED BY <2>2, FS_EmptySet DEF Total
  <1> QED BY <1>1, <1>2, <1>3 DEF IInv

(* A reservation is checked against the leases that survive the            *)
(* reconciliation, and those cover what their writers owe.                 *)
LEMMA ReserveInvariant ==
  ASSUME IInv, NEW p \in Pid, NEW t \in Token, NEW d \in Demand, Reserve(p, t, d)
  PROVE  IInv'
  <1>1. /\ d \in [Kind -> Nat]
        /\ \A k \in Kind : Headroom[k] \in Nat /\ Capacity[k] \in Nat
      BY CapacityAssumption
  <1>2. ASSUME NEW k \in Kind
        PROVE  /\ ReconciledSize[k] \in Column
               /\ Total(ReconciledSize[k]) \in Nat
               /\ d[k] + Total(ReconciledSize[k]) + Headroom[k] <= free[k]
               /\ d[k] \in 0..Ceiling
    <2>1. ReconciledSize[k] \in Column
      BY ReconciledCovers
    <2>2. Total(ReconciledSize[k]) \in Nat
      BY <2>1, TotalType
    <2>3. d[k] + Total(ReconciledSize[k]) + Headroom[k] <= free[k]
      BY DEF Reserve, Admits
    <2>4. free[k] \in 0..Ceiling
      BY DEF IInv, TypeOK
    <2> QED BY <1>1, <2>1, <2>2, <2>3, <2>4, CeilingNat
  <1>3. /\ size' = [k \in Kind |-> [ReconciledSize[k] EXCEPT ![t] = d[k]]]
        /\ remaining' = [k \in Kind |-> [remaining[k] EXCEPT ![t] = d[k]]]
        /\ unconsumed' = [k \in Kind |-> [unconsumed[k] EXCEPT ![t] = 0]]
        /\ buffered' = [buffered EXCEPT ![t] = 0]
        /\ holder' = [ReconciledHolder EXCEPT ![t] = [pid |-> p, identity |-> process[p]]]
    BY DEF Reserve, SetAll, Set, Nothing
  <1>4. ReconciledHolder \in [Token -> [pid : Pid, identity : Identity \cup {Gone}]]
    BY NoHolderType DEF ReconciledHolder, IInv, TypeOK
  <1>5. TypeOK'
    <2>1. size' \in [Kind -> [Token -> 0..Ceiling]]
      BY <1>2, <1>3 DEF Column
    <2>2. remaining' \in [Kind -> [Token -> 0..Ceiling]]
      BY <1>2, <1>3 DEF IInv, TypeOK
    <2>3. unconsumed' \in [Kind -> [Token -> 0..Ceiling]] /\ buffered' \in [Token -> 0..Ceiling]
      BY <1>3, CeilingNat DEF IInv, TypeOK
    <2>4. holder' \in [Token -> [pid : Pid, identity : Identity \cup {Gone}]]
      <3>1. [pid |-> p, identity |-> process[p]] \in [pid : Pid, identity : Identity \cup {Gone}]
        BY DEF Reserve
      <3> QED BY <1>3, <1>4, <3>1
    <2> QED BY <2>1, <2>2, <2>3, <2>4 DEF IInv, TypeOK, Reserve
  <1>6. ASSUME NEW k \in Kind, NEW s \in Token, s # t
        PROVE  /\ size'[k][s] = (IF Dead(s) THEN 0 ELSE size[k][s])
               /\ remaining'[k][s] = remaining[k][s]
               /\ unconsumed'[k][s] = unconsumed[k][s]
               /\ buffered'[s] = buffered[s]
               /\ holder'[s] = (IF Dead(s) THEN NoHolder ELSE holder[s])
    BY <1>2, <1>3, <1>4, <1>6 DEF IInv, TypeOK, ReconciledSize, ReconciledHolder, Column
  <1>7. ASSUME NEW k \in Kind
        PROVE  /\ size'[k][t] = d[k] /\ remaining'[k][t] = d[k]
               /\ unconsumed'[k][t] = 0 /\ buffered'[t] = 0
               /\ holder'[t] = [pid |-> p, identity |-> process[p]]
    BY <1>2, <1>3, <1>4 DEF IInv, TypeOK, Column
  <1>8. LeaseCoversWriter'
    <2> SUFFICES ASSUME NEW k \in Kind, NEW s \in Token
                 PROVE  remaining'[k][s] + unconsumed'[k][s] <= size'[k][s]
      BY DEF LeaseCoversWriter
    <2>1. CASE s = t
      BY <2>1, <1>1, <1>7
    <2>2. CASE s # t /\ Dead(s)
      BY <2>2, <1>6, ReconciledCovers
    <2>3. CASE s # t /\ ~Dead(s)
      BY <2>3, <1>6 DEF IInv, LeaseCoversWriter
    <2> QED BY <2>1, <2>2, <2>3
  <1>9. BufferedCounted'
    BY <1>6, <1>7, KindTwo DEF IInv, BufferedCounted
  <1>10. OnlyHoldersOwe'
    <2> SUFFICES ASSUME NEW s \in Token, NEW k \in Kind, remaining'[k][s] + unconsumed'[k][s] > 0
                 PROVE  Issued(s)' /\ process'[holder'[s].pid] = holder'[s].identity
      BY DEF OnlyHoldersOwe
    <2>1. process' = process /\ process[p] \in Identity
      BY DEF Reserve
    <2>2. CASE s = t
      BY <2>1, <2>2, <1>7 DEF Issued, Gone, Identity
    <2>3. CASE s # t
      <3>1. remaining[k][s] + unconsumed[k][s] > 0
        BY <2>3, <1>6
      <3>2. ~Dead(s)
        BY <3>1, ReconciledCovers
      <3>3. Issued(s) /\ process[holder[s].pid] = holder[s].identity
        BY <3>1 DEF IInv, OnlyHoldersOwe
      <3> QED BY <3>2, <3>3, <2>1, <2>3, <1>6 DEF Issued
    <2> QED BY <2>2, <2>3
  <1>11. HeadroomKept'
    <2> SUFFICES ASSUME NEW k \in Kind
                 PROVE  Headroom[k] + Total(Owed(k)') <= free'[k] + foreign'[k]
      BY DEF HeadroomKept, Total, Leased
    <2> DEFINE g == Set(ReconciledSize[k], t, d[k])
    <2>1. g \in Column /\ g[t] = d[k] /\ \A s \in Token : s # t => g[s] = ReconciledSize[k][s]
      BY <1>2 DEF Column, Set
    <2>2. \A s \in Token : Owed(k)'[s] <= g[s]
      <3> SUFFICES ASSUME NEW s \in Token PROVE Owed(k)'[s] <= g[s]
        OBVIOUS
      <3>1. Owed(k)'[s] = remaining'[k][s] + (IF k = "bytes" THEN buffered'[s] ELSE 0)
        BY DEF Owed
      <3>2. CASE s = t
        BY <3>1, <3>2, <2>1, <1>1, <1>7
      <3>3. CASE s # t
        <4>1. Owed(k)'[s] = Owed(k)[s]
          BY <3>1, <3>3, <1>6 DEF Owed
        <4> QED BY <4>1, <3>3, <2>1, ReconciledCovers
      <3> QED BY <3>2, <3>3
    <2>3. Owed(k)' \in Column
      <3>1. ASSUME NEW s \in Token
            PROVE  remaining'[k][s] + (IF k = "bytes" THEN buffered'[s] ELSE 0) \in 0..Ceiling
        <4>1. Owed(k)'[s] = remaining'[k][s] + (IF k = "bytes" THEN buffered'[s] ELSE 0)
          BY DEF Owed
        <4>2. remaining'[k][s] \in 0..Ceiling /\ buffered'[s] \in 0..Ceiling
          BY <1>5 DEF TypeOK
        <4>3. g[s] \in 0..Ceiling
          BY <2>1 DEF Column
        <4> QED BY <4>1, <4>2, <4>3, <2>2, CeilingNat
      <3> QED BY <3>1 DEF Owed, Column
    <2>4. Total(Owed(k)') <= Total(g)
      BY <2>1, <2>2, <2>3, TotalMonotone
    <2>5. Total(g) = Total(ReconciledSize[k]) - ReconciledSize[k][t] + d[k]
      BY <1>2, TotalReplace
    <2>6. Total(g) \in Nat /\ Total(Owed(k)') \in Nat
      BY <2>1, <2>3, TotalType
    <2>7. ReconciledSize[k][t] \in 0..Ceiling
      BY <1>2 DEF Column
    <2>8. free' = free /\ foreign' = foreign /\ free[k] \in Nat /\ foreign[k] \in Nat
      BY CeilingNat DEF Reserve, IInv, TypeOK
    <2> QED BY <1>1, <1>2, <2>4, <2>5, <2>6, <2>7, <2>8, CeilingNat
  <1> QED BY <1>5, <1>8, <1>9, <1>10, <1>11 DEF IInv

(* An extension is checked against every lease as it stands.               *)
LEMMA ExtendInvariant ==
  ASSUME IInv, NEW p \in Pid, NEW t \in Token, Owns(p, t),
         NEW extra \in [Kind -> Nat], Extend(t, extra)
  PROVE  IInv'
  <1>1. ASSUME NEW k \in Kind
        PROVE  /\ extra[k] \in Nat /\ Headroom[k] \in Nat
               /\ size[k] \in Column /\ size[k][t] <= Total(size[k]) /\ Total(size[k]) \in Nat
               /\ extra[k] + Total(size[k]) + Headroom[k] <= free[k]
               /\ size[k][t] + extra[k] \in 0..Ceiling
               /\ remaining[k][t] + extra[k] \in 0..Ceiling
    <2>1. size[k] \in Column
      BY DEF IInv, TypeOK, Column
    <2>2. size[k][t] <= Total(size[k]) /\ Total(size[k]) \in Nat
      BY <2>1, EntryBelowTotal, TotalType
    <2>3. extra[k] + Total(size[k]) + Headroom[k] <= free[k] /\ free[k] \in 0..Ceiling
      BY DEF Extend, Admits, IInv, TypeOK
    <2>4. /\ remaining[k][t] + unconsumed[k][t] <= size[k][t]
          /\ remaining[k][t] \in 0..Ceiling /\ unconsumed[k][t] \in 0..Ceiling /\ size[k][t] \in 0..Ceiling
      BY DEF IInv, LeaseCoversWriter, TypeOK
    <2> QED BY <2>1, <2>2, <2>3, <2>4, CapacityAssumption, CeilingNat
  <1>2. /\ size' = [k \in Kind |-> [size[k] EXCEPT ![t] = size[k][t] + extra[k]]]
        /\ remaining' = [k \in Kind |-> [remaining[k] EXCEPT ![t] = remaining[k][t] + extra[k]]]
        /\ UNCHANGED <<process, starts, holder, unconsumed, buffered, free, foreign>>
    BY DEF Extend, SetAll, Set
  <1>3. ASSUME NEW k \in Kind, NEW s \in Token
        PROVE  /\ size'[k][s] = size[k][s] + (IF s = t THEN extra[k] ELSE 0)
               /\ remaining'[k][s] = remaining[k][s] + (IF s = t THEN extra[k] ELSE 0)
               /\ size[k][s] \in 0..Ceiling /\ remaining[k][s] \in 0..Ceiling
               /\ unconsumed[k][s] \in 0..Ceiling /\ buffered[s] \in 0..Ceiling
    BY <1>1, <1>2, CeilingNat DEF IInv, TypeOK
  <1>4. TypeOK'
    <2>1. size' \in [Kind -> [Token -> 0..Ceiling]]
      BY <1>1, <1>2 DEF IInv, TypeOK
    <2>2. remaining' \in [Kind -> [Token -> 0..Ceiling]]
      BY <1>1, <1>2 DEF IInv, TypeOK
    <2> QED BY <1>2, <2>1, <2>2 DEF IInv, TypeOK
  <1>5. LeaseCoversWriter'
    BY <1>1, <1>2, <1>3, CeilingNat DEF IInv, LeaseCoversWriter
  <1>6. BufferedCounted'
    BY <1>2 DEF IInv, BufferedCounted
  <1>7. OnlyHoldersOwe'
    <2> SUFFICES ASSUME NEW s \in Token, NEW k \in Kind, remaining'[k][s] + unconsumed'[k][s] > 0
                 PROVE  Issued(s) /\ process[holder[s].pid] = holder[s].identity
      BY <1>2 DEF OnlyHoldersOwe, Issued
    <2>1. CASE s = t
      BY <2>1 DEF Owns
    <2>2. CASE s # t
      BY <2>2, <1>2, <1>3 DEF IInv, OnlyHoldersOwe
    <2> QED BY <2>1, <2>2
  <1>8. HeadroomKept'
    <2> SUFFICES ASSUME NEW k \in Kind
                 PROVE  Headroom[k] + Total(Owed(k)') <= free[k] + foreign[k]
      BY <1>2 DEF HeadroomKept, Total, Leased
    <2> DEFINE g == Set(size[k], t, size[k][t] + extra[k])
    <2>1. g \in Column /\ \A s \in Token : g[s] = size'[k][s]
      BY <1>1, <1>2 DEF Column, Set
    <2>2. ASSUME NEW s \in Token
          PROVE  /\ Owed(k)'[s] = remaining'[k][s] + (IF k = "bytes" THEN buffered'[s] ELSE 0)
                 /\ Owed(k)'[s] <= g[s] /\ Owed(k)'[s] \in 0..Ceiling
      <3>1. Owed(k)'[s] = remaining'[k][s] + (IF k = "bytes" THEN buffered'[s] ELSE 0)
        BY DEF Owed
      <3>2. remaining[k][s] + unconsumed[k][s] <= size[k][s] /\ (k = "bytes" => buffered[s] <= unconsumed[k][s])
        BY DEF IInv, LeaseCoversWriter, BufferedCounted
      <3>3. Owed(k)'[s] <= size'[k][s] /\ Owed(k)'[s] \in Nat
        BY <1>1, <1>2, <1>3, <3>1, <3>2, CeilingNat
      <3>4. g[s] \in 0..Ceiling
        BY <2>1 DEF Column
      <3> QED BY <3>1, <3>3, <3>4, <2>1, CeilingNat
    <2>3. Owed(k)' \in Column
      BY <2>2 DEF Owed, Column
    <2>4. Total(Owed(k)') <= Total(g) /\ Total(Owed(k)') \in Nat /\ Total(g) \in Nat
      BY <2>1, <2>2, <2>3, TotalMonotone, TotalType
    <2>5. Total(g) = Total(size[k]) - size[k][t] + (size[k][t] + extra[k])
      BY <1>1, TotalReplace
    <2>6. free[k] \in Nat /\ foreign[k] \in Nat
      BY CeilingNat DEF IInv, TypeOK
    <2> QED BY <1>1, <1>3, <2>4, <2>5, <2>6, CeilingNat
  <1> QED BY <1>4, <1>5, <1>6, <1>7, <1>8 DEF IInv

LEMMA GrowForWriteInvariant ==
  ASSUME IInv, NEW p \in Pid, NEW t \in Token, NEW k \in Kind, NEW n \in Nat,
         GrowForWrite(p, t, k, n)
  PROVE  IInv'
  <1>1. remaining[k][t] \in Nat /\ n > remaining[k][t]
    BY CeilingNat DEF IInv, TypeOK, GrowForWrite
  <1>2. Growth(t, k, n) \in [Kind -> Nat]
    BY <1>1, CapacityAssumption DEF Growth, Larger
  <1> QED BY <1>2, ExtendInvariant DEF GrowForWrite

(* A step that puts n owed units of one kind on the filesystem.            *)
LEMMA HeadroomSpend ==
  ASSUME IInv, TypeOK', NEW k0 \in Kind, NEW t \in Token, NEW n \in Nat,
         n <= Owed(k0)[t],
         Owed(k0)' = Set(Owed(k0), t, Owed(k0)[t] - n),
         \A k \in Kind : k # k0 => Owed(k)' = Owed(k),
         free' = [free EXCEPT ![k0] = @ - n], foreign' = foreign
  PROVE  HeadroomKept'
  <1> SUFFICES ASSUME NEW k \in Kind, Total(Owed(k)') > 0
               PROVE  Headroom[k] + Total(Owed(k)') <= free'[k] + foreign[k]
    BY DEF HeadroomKept, Total, Leased
  <1>1. Owed(k) \in Column /\ Owed(k0) \in Column
    BY OwedType DEF IInv
  <1>2. Headroom[k] \in Nat /\ free[k] \in Nat /\ foreign[k] \in Nat
    <2>1. free[k] \in 0..Ceiling /\ foreign[k] \in Nat
      BY DEF IInv, TypeOK
    <2>2. Headroom[k] \in Nat
      BY CapacityAssumption
    <2> QED BY <2>1, <2>2, CeilingNat
  <1>3. Total(Owed(k)) \in Nat
    BY <1>1, TotalType
  <1>4. CASE k # k0
    <2>1. Owed(k)' = Owed(k) /\ free'[k] = free[k]
      BY <1>4 DEF IInv, TypeOK
    <2> QED BY <2>1 DEF IInv, HeadroomKept
  <1>5. CASE k = k0
    <2>1. Owed(k)[t] \in 0..Ceiling /\ Owed(k)[t] - n \in 0..Ceiling
      BY <1>1, <1>5, CeilingNat DEF Column
    <2>2. Total(Owed(k)') = Total(Owed(k)) - Owed(k)[t] + (Owed(k)[t] - n)
      BY <1>1, <1>5, <2>1, TotalReplace
    <2>3. free'[k] = free[k] - n
      BY <1>5 DEF IInv, TypeOK
    <2> QED BY <1>2, <1>3, <2>1, <2>2, <2>3, CeilingNat DEF IInv, HeadroomKept
  <1> QED BY <1>4, <1>5

LEMMA WriteInvariant ==
  ASSUME IInv, NEW p \in Pid, NEW t \in Token, NEW n \in 1..MaxWrite, Write(p, t, n)
  PROVE  IInv'
  <1>1. n \in Nat
    BY CapacityAssumption
  <1>2. ASSUME NEW k \in Kind, NEW s \in Token
        PROVE  /\ remaining'[k][s] = remaining[k][s] - (IF k = "bytes" /\ s = t THEN n ELSE 0)
               /\ unconsumed'[k][s] = unconsumed[k][s] + (IF k = "bytes" /\ s = t THEN n ELSE 0)
               /\ buffered'[s] = buffered[s] + (IF s = t THEN n ELSE 0)
               /\ size[k][s] \in 0..Ceiling /\ remaining[k][s] \in 0..Ceiling
               /\ unconsumed[k][s] \in 0..Ceiling /\ buffered[s] \in 0..Ceiling
               /\ remaining[k][s] + unconsumed[k][s] <= size[k][s]
               /\ (k = "bytes" => buffered[s] <= unconsumed[k][s])
    <2>1. /\ size[k][s] \in 0..Ceiling /\ remaining[k][s] \in 0..Ceiling
          /\ unconsumed[k][s] \in 0..Ceiling /\ buffered[s] \in 0..Ceiling
      BY DEF IInv, TypeOK
    <2>2. remaining[k][s] + unconsumed[k][s] <= size[k][s] /\ (k = "bytes" => buffered[s] <= unconsumed[k][s])
      BY DEF IInv, LeaseCoversWriter, BufferedCounted
    <2> QED BY <1>1, <2>1, <2>2, CeilingNat, KindTwo DEF Write, IInv, TypeOK
  <1>3. n <= remaining["bytes"][t]
    BY DEF Write
  <1>4. TypeOK'
    <2>1. remaining' \in [Kind -> [Token -> 0..Ceiling]] /\ unconsumed' \in [Kind -> [Token -> 0..Ceiling]]
      <3>1. /\ remaining["bytes"][t] - n \in 0..Ceiling /\ unconsumed["bytes"][t] + n \in 0..Ceiling
        BY <1>1, <1>2, <1>3, KindTwo, CeilingNat
      <3> QED BY <3>1, KindTwo DEF Write, IInv, TypeOK
    <2>2. buffered' \in [Token -> 0..Ceiling]
      <3>1. buffered[t] + n \in 0..Ceiling
        BY <1>1, <1>2, <1>3, KindTwo, CeilingNat
      <3> QED BY <3>1 DEF Write, IInv, TypeOK
    <2> QED BY <2>1, <2>2 DEF Write, IInv, TypeOK
  <1>5. LeaseCoversWriter'
    BY <1>1, <1>2, CeilingNat DEF Write, LeaseCoversWriter
  <1>6. BufferedCounted'
    BY <1>1, <1>2, KindTwo, CeilingNat DEF BufferedCounted
  <1>7. OnlyHoldersOwe'
    BY <1>1, <1>2, CeilingNat DEF Write, IInv, OnlyHoldersOwe, Issued
  <1>8. HeadroomKept'
    <2>1. ASSUME NEW k \in Kind, NEW s \in Token PROVE Owed(k)'[s] <= Owed(k)[s]
      BY <1>1, <1>2, CeilingNat DEF Owed
    <2>2. ASSUME NEW k \in Kind PROVE free[k] + foreign[k] <= free'[k] + foreign'[k]
      BY CeilingNat DEF Write, IInv, TypeOK
    <2> QED BY <1>4, <2>1, <2>2, HeadroomStable
  <1> QED BY <1>4, <1>5, <1>6, <1>7, <1>8 DEF IInv

LEMMA DrainInvariant ==
  ASSUME IInv, NEW p \in Pid, NEW t \in Token, NEW n \in 1..Capacity["bytes"], Drain(p, t, n)
  PROVE  IInv'
  <1>1. n \in Nat /\ n <= buffered[t] /\ n <= free["bytes"]
    BY CapacityAssumption, KindTwo DEF Drain
  <1>2. ASSUME NEW s \in Token
        PROVE  /\ buffered[s] \in 0..Ceiling
               /\ buffered'[s] = buffered[s] - (IF s = t THEN n ELSE 0)
    BY <1>1, CeilingNat DEF Drain, IInv, TypeOK
  <1>3. TypeOK'
    <2>1. buffered' \in [Token -> 0..Ceiling]
      <3>1. buffered[t] - n \in 0..Ceiling
        BY <1>1, <1>2, CeilingNat
      <3> QED BY <3>1 DEF Drain, IInv, TypeOK
    <2>2. free' \in [Kind -> 0..Ceiling] /\ \A k \in Kind : free'[k] <= Capacity[k]
      <3>1. /\ free["bytes"] - n \in 0..Ceiling /\ free["bytes"] - n <= free["bytes"]
            /\ free["bytes"] \in Int /\ Capacity["bytes"] \in Int
        BY <1>1, CeilingNat, KindTwo, CapacityAssumption DEF IInv, TypeOK
      <3> QED BY <3>1, KindTwo DEF Drain, IInv, TypeOK
    <2> QED BY <2>1, <2>2 DEF Drain, IInv, TypeOK
  <1>4. LeaseCoversWriter' /\ OnlyHoldersOwe'
    BY DEF Drain, IInv, LeaseCoversWriter, OnlyHoldersOwe, Issued
  <1>5. BufferedCounted'
    <2> SUFFICES ASSUME NEW s \in Token PROVE buffered'[s] <= unconsumed["bytes"][s]
      BY DEF BufferedCounted, Drain
    <2>1. buffered[s] <= unconsumed["bytes"][s] /\ unconsumed["bytes"][s] \in 0..Ceiling
      BY KindTwo DEF IInv, BufferedCounted, TypeOK
    <2> QED BY <1>1, <1>2, <2>1, CeilingNat
  <1>6. HeadroomKept'
    <2>1. Owed("bytes") \in Column /\ Owed("bytes")[t] = remaining["bytes"][t] + buffered[t]
      BY OwedType, KindTwo DEF IInv, Owed
    <2>2. remaining["bytes"][t] \in 0..Ceiling /\ buffered[t] \in 0..Ceiling
      BY KindTwo DEF IInv, TypeOK
    <2>3. n <= Owed("bytes")[t]
      BY <1>1, <2>1, <2>2, CeilingNat
    <2>4. Owed("bytes")' = Set(Owed("bytes"), t, Owed("bytes")[t] - n)
      <3>1. ASSUME NEW s \in Token
            PROVE  remaining'["bytes"][s] + buffered'[s]
                     = IF s = t THEN Owed("bytes")[t] - n ELSE remaining["bytes"][s] + buffered[s]
        BY <1>1, <1>2, <2>1, <2>2, CeilingNat DEF Drain
      <3> QED BY <3>1 DEF Owed, Set
    <2>5. \A k \in Kind : k # "bytes" => Owed(k)' = Owed(k)
      BY DEF Owed, Drain
    <2> QED BY <1>1, <1>3, <2>3, <2>4, <2>5, KindTwo, HeadroomSpend DEF Drain
  <1> QED BY <1>3, <1>4, <1>5, <1>6 DEF IInv

LEMMA CreateFileInvariant ==
  ASSUME IInv, NEW p \in Pid, NEW t \in Token, CreateFile(p, t)
  PROVE  IInv'
  <1>1. remaining["inodes"][t] > 0 /\ free["inodes"] > 0
    BY DEF CreateFile
  <1>2. ASSUME NEW k \in Kind, NEW s \in Token
        PROVE  /\ remaining'[k][s] = remaining[k][s] - (IF k = "inodes" /\ s = t THEN 1 ELSE 0)
               /\ unconsumed'[k][s] = unconsumed[k][s] + (IF k = "inodes" /\ s = t THEN 1 ELSE 0)
               /\ size[k][s] \in 0..Ceiling /\ remaining[k][s] \in 0..Ceiling
               /\ unconsumed[k][s] \in 0..Ceiling
               /\ remaining[k][s] + unconsumed[k][s] <= size[k][s]
    <2>1. size[k][s] \in 0..Ceiling /\ remaining[k][s] \in 0..Ceiling /\ unconsumed[k][s] \in 0..Ceiling
      BY DEF IInv, TypeOK
    <2>2. remaining[k][s] + unconsumed[k][s] <= size[k][s]
      BY DEF IInv, LeaseCoversWriter
    <2> QED BY <2>1, <2>2, CeilingNat, KindTwo DEF CreateFile, IInv, TypeOK
  <1>3. TypeOK'
    <2>1. remaining' \in [Kind -> [Token -> 0..Ceiling]] /\ unconsumed' \in [Kind -> [Token -> 0..Ceiling]]
      <3>1. /\ remaining["inodes"][t] - 1 \in 0..Ceiling /\ unconsumed["inodes"][t] + 1 \in 0..Ceiling
        BY <1>1, <1>2, KindTwo, CeilingNat
      <3> QED BY <3>1, KindTwo DEF CreateFile, IInv, TypeOK
    <2>2. free' \in [Kind -> 0..Ceiling] /\ \A k \in Kind : free'[k] <= Capacity[k]
      <3>1. /\ free["inodes"] - 1 \in 0..Ceiling /\ free["inodes"] - 1 <= free["inodes"]
            /\ free["inodes"] \in Int /\ Capacity["inodes"] \in Int
        BY <1>1, CeilingNat, KindTwo, CapacityAssumption DEF IInv, TypeOK
      <3> QED BY <3>1, KindTwo DEF CreateFile, IInv, TypeOK
    <2> QED BY <2>1, <2>2 DEF CreateFile, IInv, TypeOK
  <1>4. LeaseCoversWriter'
    BY <1>2, CeilingNat DEF CreateFile, LeaseCoversWriter
  <1>5. OnlyHoldersOwe'
    BY <1>2, CeilingNat DEF CreateFile, IInv, OnlyHoldersOwe, Issued
  <1>6. BufferedCounted'
    BY <1>2, KindTwo, CeilingNat DEF CreateFile, IInv, BufferedCounted
  <1>7. HeadroomKept'
    <2>1. Owed("inodes") \in Column /\ Owed("inodes")[t] = remaining["inodes"][t] + 0
      BY OwedType, KindTwo DEF IInv, Owed
    <2>2. 1 <= Owed("inodes")[t]
      BY <1>1, <1>2, <2>1, KindTwo, CeilingNat
    <2>3. Owed("inodes")' = Set(Owed("inodes"), t, Owed("inodes")[t] - 1)
      <3>1. ASSUME NEW s \in Token
            PROVE  remaining'["inodes"][s] + 0
                     = IF s = t THEN Owed("inodes")[t] - 1 ELSE remaining["inodes"][s] + 0
        BY <1>2, <2>1, KindTwo, CeilingNat
      <3> QED BY <3>1, KindTwo DEF Owed, Set
    <2>4. \A k \in Kind : k # "inodes" => Owed(k)' = Owed(k)
      <3> SUFFICES ASSUME NEW k \in Kind, k # "inodes" PROVE Owed(k)' = Owed(k)
        OBVIOUS
      <3>1. remaining'[k] = remaining[k] /\ buffered' = buffered
        BY KindTwo DEF CreateFile, IInv, TypeOK
      <3> QED BY <3>1 DEF Owed
    <2> QED BY <1>3, <2>2, <2>3, <2>4, KindTwo, HeadroomSpend DEF CreateFile
  <1> QED BY <1>3, <1>4, <1>5, <1>6, <1>7 DEF IInv

LEMMA ConsumeInvariant ==
  ASSUME IInv, NEW p \in Pid, NEW t \in Token, Consume(p, t)
  PROVE  IInv'
  <1>1. ASSUME NEW k \in Kind, NEW s \in Token
        PROVE  /\ size[k][s] \in 0..Ceiling /\ remaining[k][s] \in 0..Ceiling
               /\ unconsumed[k][s] \in 0..Ceiling
               /\ remaining[k][s] + unconsumed[k][s] <= size[k][s]
               /\ size'[k][s] = size[k][s] - (IF s = t THEN unconsumed[k][s] ELSE 0)
               /\ unconsumed'[k][s] = IF s = t THEN 0 ELSE unconsumed[k][s]
               /\ size[k][s] - unconsumed[k][s] \in 0..Ceiling
    <2>1. size[k][s] \in 0..Ceiling /\ remaining[k][s] \in 0..Ceiling /\ unconsumed[k][s] \in 0..Ceiling
      BY DEF IInv, TypeOK
    <2>2. remaining[k][s] + unconsumed[k][s] <= size[k][s]
      BY DEF IInv, LeaseCoversWriter
    <2>3. /\ size'[k] = [size[k] EXCEPT ![t] = size[k][t] - unconsumed[k][t]]
          /\ unconsumed'[k] = [unconsumed[k] EXCEPT ![t] = 0]
      BY DEF Consume, SetAll, Set, Nothing
    <2>4. size'[k][s] = size[k][s] - (IF s = t THEN unconsumed[k][s] ELSE 0)
      BY <2>1, <2>3, CeilingNat DEF IInv, TypeOK
    <2>5. unconsumed'[k][s] = IF s = t THEN 0 ELSE unconsumed[k][s]
      BY <2>3 DEF IInv, TypeOK
    <2> QED BY <2>1, <2>2, <2>4, <2>5, CeilingNat
  <1>2. TypeOK'
    <2>1. size' \in [Kind -> [Token -> 0..Ceiling]]
      BY <1>1 DEF Consume, SetAll, Set, IInv, TypeOK
    <2>2. unconsumed' \in [Kind -> [Token -> 0..Ceiling]]
      BY CeilingNat DEF Consume, SetAll, Set, Nothing, IInv, TypeOK
    <2> QED BY <2>1, <2>2 DEF Consume, IInv, TypeOK
  <1>3. LeaseCoversWriter'
    BY <1>1, CeilingNat DEF Consume, LeaseCoversWriter
  <1>4. BufferedCounted'
    <2> SUFFICES ASSUME NEW s \in Token PROVE buffered'[s] <= unconsumed'["bytes"][s]
      BY DEF BufferedCounted
    <2>1. buffered[s] <= unconsumed["bytes"][s]
      BY DEF IInv, BufferedCounted
    <2>2. buffered' = buffered /\ (s = t => buffered[s] = 0)
      BY DEF Consume
    <2>3. unconsumed'["bytes"][s] = IF s = t THEN 0 ELSE unconsumed["bytes"][s]
      BY <1>1, KindTwo
    <2> QED BY <2>1, <2>2, <2>3
  <1>5. OnlyHoldersOwe'
    <2> SUFFICES ASSUME NEW s \in Token, NEW k \in Kind, remaining[k][s] + unconsumed'[k][s] > 0
                 PROVE  Issued(s) /\ process[holder[s].pid] = holder[s].identity
      BY DEF OnlyHoldersOwe, Consume, Issued
    <2>1. remaining[k][s] + unconsumed[k][s] > 0
      BY <1>1, CeilingNat
    <2> QED BY <2>1 DEF IInv, OnlyHoldersOwe
  <1>6. HeadroomKept'
    BY DEF Consume, IInv, HeadroomKept, Total, Leased, Owed
  <1> QED BY <1>2, <1>3, <1>4, <1>5, <1>6 DEF IInv

LEMMA FlushFailsInvariant ==
  ASSUME IInv, NEW p \in Pid, NEW t \in Token, FlushFails(p, t)
  PROVE  IInv'
  <1>1. ASSUME NEW k \in Kind, NEW s \in Token
        PROVE  /\ remaining[k][s] \in 0..Ceiling /\ unconsumed[k][s] \in 0..Ceiling
               /\ buffered[s] \in 0..Ceiling
               /\ unconsumed'[k][s] = IF k = "bytes" /\ s = t THEN 0 ELSE unconsumed[k][s]
               /\ buffered'[s] = IF s = t THEN 0 ELSE buffered[s]
    BY KindTwo DEF FlushFails, IInv, TypeOK
  <1>2. TypeOK'
    BY CeilingNat, KindTwo DEF FlushFails, IInv, TypeOK
  <1>3. LeaseCoversWriter'
    <2> SUFFICES ASSUME NEW k \in Kind, NEW s \in Token
                 PROVE  remaining[k][s] + unconsumed'[k][s] <= size[k][s]
      BY DEF LeaseCoversWriter, FlushFails
    <2>1. remaining[k][s] + unconsumed[k][s] <= size[k][s] /\ size[k][s] \in 0..Ceiling
      BY DEF IInv, LeaseCoversWriter, TypeOK
    <2> QED BY <1>1, <2>1, CeilingNat
  <1>4. BufferedCounted'
    BY <1>1, KindTwo DEF IInv, BufferedCounted
  <1>5. OnlyHoldersOwe'
    BY <1>1, CeilingNat DEF FlushFails, IInv, OnlyHoldersOwe, Issued
  <1>6. HeadroomKept'
    <2>1. ASSUME NEW k \in Kind, NEW s \in Token PROVE Owed(k)'[s] <= Owed(k)[s]
      BY <1>1, CeilingNat DEF Owed, FlushFails
    <2>2. ASSUME NEW k \in Kind PROVE free[k] + foreign[k] <= free'[k] + foreign'[k]
      BY CeilingNat DEF FlushFails, IInv, TypeOK
    <2> QED BY <1>2, <2>1, <2>2, HeadroomStable
  <1> QED BY <1>2, <1>3, <1>4, <1>5, <1>6 DEF IInv

LEMMA ReleaseInvariant ==
  ASSUME IInv, NEW p \in Pid, NEW t \in Token, Release(p, t)
  PROVE  IInv'
  <1>1. ASSUME NEW k \in Kind, NEW s \in Token
        PROVE  /\ remaining[k][s] \in 0..Ceiling /\ buffered[s] \in 0..Ceiling
               /\ size'[k][s] = IF s = t THEN 0 ELSE size[k][s]
               /\ remaining'[k][s] = IF s = t THEN 0 ELSE remaining[k][s]
               /\ unconsumed'[k][s] = IF s = t THEN 0 ELSE unconsumed[k][s]
               /\ holder'[s] = IF s = t THEN NoHolder ELSE holder[s]
    BY DEF Release, SetAll, Set, Nothing, IInv, TypeOK
  <1>2. TypeOK'
    <2>1. /\ size' \in [Kind -> [Token -> 0..Ceiling]]
          /\ remaining' \in [Kind -> [Token -> 0..Ceiling]]
          /\ unconsumed' \in [Kind -> [Token -> 0..Ceiling]]
      BY CeilingNat DEF Release, SetAll, Set, Nothing, IInv, TypeOK
    <2>2. holder' \in [Token -> [pid : Pid, identity : Identity \cup {Gone}]]
      BY NoHolderType DEF Release, Set, IInv, TypeOK
    <2> QED BY <2>1, <2>2 DEF Release, IInv, TypeOK
  <1>3. LeaseCoversWriter'
    BY <1>1 DEF IInv, LeaseCoversWriter
  <1>4. BufferedCounted'
    BY <1>1, KindTwo DEF Release, IInv, BufferedCounted
  <1>5. OnlyHoldersOwe'
    BY <1>1 DEF Release, IInv, OnlyHoldersOwe, Issued
  <1>6. HeadroomKept'
    <2>1. ASSUME NEW k \in Kind, NEW s \in Token PROVE Owed(k)'[s] <= Owed(k)[s]
      BY <1>1, CeilingNat DEF Owed, Release
    <2>2. ASSUME NEW k \in Kind PROVE free[k] + foreign[k] <= free'[k] + foreign'[k]
      BY CeilingNat DEF Release, IInv, TypeOK
    <2> QED BY <1>2, <2>1, <2>2, HeadroomStable
  <1> QED BY <1>2, <1>3, <1>4, <1>5, <1>6 DEF IInv

LEMMA ReconcileInvariant ==
  ASSUME IInv, Reconcile
  PROVE  IInv'
  <1>1. ASSUME NEW k \in Kind, NEW s \in Token
        PROVE  /\ size'[k][s] = IF Dead(s) THEN 0 ELSE size[k][s]
               /\ holder'[s] = IF Dead(s) THEN NoHolder ELSE holder[s]
    BY DEF Reconcile, ReconciledSize, ReconciledHolder
  <1>2. UNCHANGED <<process, starts, remaining, unconsumed, buffered, free, foreign>>
    BY DEF Reconcile, budget
  <1>3. TypeOK'
    <2>1. size' \in [Kind -> [Token -> 0..Ceiling]]
      <3>1. \A k \in Kind, s \in Token : (IF Dead(s) THEN 0 ELSE size[k][s]) \in 0..Ceiling
        BY CeilingNat DEF IInv, TypeOK
      <3> QED BY <3>1 DEF Reconcile, ReconciledSize
    <2>2. holder' \in [Token -> [pid : Pid, identity : Identity \cup {Gone}]]
      BY NoHolderType DEF Reconcile, ReconciledHolder, IInv, TypeOK
    <2> QED BY <1>2, <2>1, <2>2 DEF IInv, TypeOK
  <1>4. LeaseCoversWriter'
    <2> SUFFICES ASSUME NEW k \in Kind, NEW s \in Token
                 PROVE  remaining[k][s] + unconsumed[k][s] <= size'[k][s]
      BY <1>2 DEF LeaseCoversWriter
    <2>1. CASE Dead(s)
      BY <1>1, <2>1, ReconciledCovers
    <2>2. CASE ~Dead(s)
      BY <1>1, <2>2 DEF IInv, LeaseCoversWriter
    <2> QED BY <2>1, <2>2
  <1>5. BufferedCounted'
    BY <1>2 DEF IInv, BufferedCounted
  <1>6. OnlyHoldersOwe'
    <2> SUFFICES ASSUME NEW s \in Token, NEW k \in Kind, remaining[k][s] + unconsumed[k][s] > 0
                 PROVE  holder'[s] = holder[s] /\ Issued(s) /\ process[holder[s].pid] = holder[s].identity
      BY <1>2 DEF OnlyHoldersOwe, Issued
    <2>1. ~Dead(s)
      BY ReconciledCovers
    <2> QED BY <1>1, <2>1, KindTwo DEF IInv, OnlyHoldersOwe
  <1>7. HeadroomKept'
    BY <1>2 DEF IInv, HeadroomKept, Total, Leased, Owed
  <1> QED BY <1>3, <1>4, <1>5, <1>6, <1>7 DEF IInv

(* Processes come and go; a process that ends owes nothing any more.       *)
LEMMA StartInvariant ==
  ASSUME IInv, NEW p \in Pid, Start(p) \/ StartUnreadable(p)
  PROVE  IInv'
  <1>1. process[p] = Gone /\ UNCHANGED <<size, holder, remaining, unconsumed, buffered, free, foreign>>
    BY DEF Start, StartUnreadable, state, budget
  <1>2. TypeOK'
    <2>1. process' \in [Pid -> Identity \cup {Gone, Unknown}] /\ starts' \in 0..MaxStarts
      <3>1. process \in [Pid -> Identity \cup {Gone, Unknown}] /\ starts \in 0..MaxStarts
        BY DEF IInv, TypeOK
      <3>2. CASE Start(p)
        <4>1. /\ starts' = starts + 1 /\ starts' \in 1..MaxStarts
              /\ process' = [process EXCEPT ![p] = starts + 1]
          BY <3>1, <3>2, CapacityAssumption DEF Start
        <4> QED BY <3>1, <4>1, CapacityAssumption DEF Identity
      <3>3. CASE StartUnreadable(p)
        BY <3>1, <3>3 DEF StartUnreadable
      <3> QED BY <3>2, <3>3
    <2> QED BY <1>1, <2>1 DEF IInv, TypeOK
  <1>3. LeaseCoversWriter' /\ BufferedCounted' /\ HeadroomKept'
    BY <1>1 DEF IInv, LeaseCoversWriter, BufferedCounted, HeadroomKept, Total, Leased, Owed
  <1>4. OnlyHoldersOwe'
    <2> SUFFICES ASSUME NEW s \in Token, NEW k \in Kind, remaining[k][s] + unconsumed[k][s] > 0
                 PROVE  Issued(s) /\ process'[holder[s].pid] = holder[s].identity
      BY <1>1 DEF OnlyHoldersOwe, Issued
    <2>1. Issued(s) /\ process[holder[s].pid] = holder[s].identity
      BY DEF IInv, OnlyHoldersOwe
    <2>2. holder[s].pid # p
      BY <1>1, <2>1 DEF Issued
    <2>3. process'[holder[s].pid] = process[holder[s].pid]
      BY <2>2 DEF Start, StartUnreadable, IInv, TypeOK
    <2> QED BY <2>1, <2>3
  <1> QED BY <1>2, <1>3, <1>4 DEF IInv

LEMMA ExitInvariant ==
  ASSUME IInv, NEW p \in Pid, Exit(p)
  PROVE  IInv'
  <1>1. UNCHANGED <<starts, size, holder, free, foreign>>
    BY DEF Exit, state
  <1>2. ASSUME NEW k \in Kind, NEW s \in Token
        PROVE  /\ remaining[k][s] \in 0..Ceiling /\ unconsumed[k][s] \in 0..Ceiling
               /\ buffered[s] \in 0..Ceiling
               /\ remaining'[k][s] = IF Owns(p, s) THEN 0 ELSE remaining[k][s]
               /\ unconsumed'[k][s] = IF Owns(p, s) THEN 0 ELSE unconsumed[k][s]
               /\ buffered'[s] = IF Owns(p, s) THEN 0 ELSE buffered[s]
    BY DEF Exit, IInv, TypeOK
  <1>3. TypeOK'
    <2>1. process' \in [Pid -> Identity \cup {Gone, Unknown}]
      BY DEF Exit, IInv, TypeOK
    <2>2. /\ remaining' \in [Kind -> [Token -> 0..Ceiling]]
          /\ unconsumed' \in [Kind -> [Token -> 0..Ceiling]]
          /\ buffered' \in [Token -> 0..Ceiling]
      <3>1. ASSUME NEW k \in Kind, NEW s \in Token
            PROVE  /\ (IF Owns(p, s) THEN 0 ELSE remaining[k][s]) \in 0..Ceiling
                   /\ (IF Owns(p, s) THEN 0 ELSE unconsumed[k][s]) \in 0..Ceiling
                   /\ (IF Owns(p, s) THEN 0 ELSE buffered[s]) \in 0..Ceiling
        BY <1>2, CeilingNat
      <3> QED BY <3>1, KindTwo DEF Exit
    <2> QED BY <1>1, <2>1, <2>2 DEF IInv, TypeOK
  <1>4. LeaseCoversWriter'
    <2> SUFFICES ASSUME NEW k \in Kind, NEW s \in Token
                 PROVE  remaining'[k][s] + unconsumed'[k][s] <= size[k][s]
      BY <1>1 DEF LeaseCoversWriter
    <2>1. remaining[k][s] + unconsumed[k][s] <= size[k][s] /\ size[k][s] \in 0..Ceiling
      BY DEF IInv, LeaseCoversWriter, TypeOK
    <2> QED BY <1>2, <2>1, CeilingNat
  <1>5. BufferedCounted'
    BY <1>2, KindTwo DEF IInv, BufferedCounted
  <1>6. OnlyHoldersOwe'
    <2> SUFFICES ASSUME NEW s \in Token, NEW k \in Kind, remaining'[k][s] + unconsumed'[k][s] > 0
                 PROVE  Issued(s) /\ process'[holder[s].pid] = holder[s].identity
      BY <1>1 DEF OnlyHoldersOwe, Issued
    <2>1. ~Owns(p, s)
      BY <1>2
    <2>2. Issued(s) /\ process[holder[s].pid] = holder[s].identity
      BY <1>2, <2>1 DEF IInv, OnlyHoldersOwe
    <2>3. holder[s] \in [pid : Pid, identity : Identity \cup {Gone}]
      BY DEF IInv, TypeOK
    <2>4. holder[s].pid # p
      BY <2>1, <2>2, <2>3 DEF Owns
    <2> QED BY <2>2, <2>3, <2>4 DEF Exit, IInv, TypeOK
  <1>7. HeadroomKept'
    <2>1. ASSUME NEW k \in Kind, NEW s \in Token PROVE Owed(k)'[s] <= Owed(k)[s]
      BY <1>2, CeilingNat DEF Owed
    <2>2. ASSUME NEW k \in Kind PROVE free[k] + foreign[k] <= free'[k] + foreign'[k]
      <3>1. free[k] \in 0..Ceiling /\ foreign[k] \in Nat
        BY DEF IInv, TypeOK
      <3> QED BY <1>1, <3>1, CeilingNat
    <2> QED BY <1>3, <2>1, <2>2, HeadroomStable
  <1> QED BY <1>3, <1>4, <1>5, <1>6, <1>7 DEF IInv

(* Other users and deletions move only statvfs and the foreign account.    *)
LEMMA HostInvariant ==
  ASSUME IInv, NEW j \in Kind, ForeignUse(j) \/ Delete(j)
  PROVE  IInv'
  <1>1. UNCHANGED <<process, starts, size, holder, remaining, unconsumed, buffered>>
    BY DEF ForeignUse, Delete, state, budget
  <1>2. ASSUME NEW k \in Kind
        PROVE  /\ free'[k] \in 0..Ceiling /\ free'[k] <= Capacity[k]
               /\ foreign'[k] \in Nat /\ foreign'[k] <= MaxForeign[k]
               /\ free[k] + foreign[k] <= free'[k] + foreign'[k]
    <2>1. /\ free[k] \in 0..Ceiling /\ free[k] <= Capacity[k] /\ foreign[k] \in Nat
          /\ foreign[k] <= MaxForeign[k]
      BY DEF IInv, TypeOK
    <2>2. Capacity[k] \in Nat /\ MaxForeign[k] \in Nat /\ Capacity[k] <= Ceiling
      BY CapacityAssumption, CeilingNat
    <2>3. CASE ForeignUse(j)
      <3>1. /\ free'[k] = free[k] - (IF k = j THEN 1 ELSE 0)
            /\ foreign'[k] = foreign[k] + (IF k = j THEN 1 ELSE 0)
            /\ free[j] > 0 /\ foreign[j] < MaxForeign[j]
        BY <2>1, <2>3, CeilingNat DEF ForeignUse, IInv, TypeOK
      <3> QED BY <2>1, <2>2, <3>1, CeilingNat
    <2>4. CASE Delete(j)
      <3>1. /\ free'[k] = free[k] + (IF k = j THEN 1 ELSE 0)
            /\ foreign'[k] = foreign[k]
            /\ free[j] < Capacity[j]
        BY <2>1, <2>4, CeilingNat DEF Delete, IInv, TypeOK
      <3> QED BY <2>1, <2>2, <3>1, CeilingNat
    <2> QED BY <2>3, <2>4
  <1>3. TypeOK'
    <2>1. free' = [k \in Kind |-> free'[k]] /\ foreign' = [k \in Kind |-> foreign'[k]]
      BY DEF ForeignUse, Delete, IInv, TypeOK
    <2>2. free' \in [Kind -> 0..Ceiling] /\ foreign' \in [Kind -> Nat]
      BY <1>2, <2>1
    <2> QED BY <1>1, <1>2, <2>2 DEF IInv, TypeOK
  <1>4. LeaseCoversWriter' /\ BufferedCounted' /\ OnlyHoldersOwe'
    BY <1>1 DEF IInv, LeaseCoversWriter, BufferedCounted, OnlyHoldersOwe, Issued
  <1>5. HeadroomKept'
    <2>1. ASSUME NEW k \in Kind, NEW s \in Token PROVE Owed(k)'[s] <= Owed(k)[s]
      <3>1. remaining[k][s] \in 0..Ceiling /\ buffered[s] \in 0..Ceiling
        BY DEF IInv, TypeOK
      <3> QED BY <1>1, <3>1, CeilingNat DEF Owed
    <2> QED BY <1>2, <1>3, <2>1, HeadroomStable
  <1> QED BY <1>3, <1>4, <1>5 DEF IInv

LEMMA StutterInvariant ==
  ASSUME IInv, UNCHANGED vars
  PROVE  IInv'
  BY DEF vars, IInv, TypeOK, LeaseCoversWriter, BufferedCounted, OnlyHoldersOwe,
         HeadroomKept, Total, Leased, Owed, Issued

LEMMA StepInvariant == IInv /\ [Next]_vars => IInv'
  <1> SUFFICES ASSUME IInv, [Next]_vars PROVE IInv'
    OBVIOUS
  <1>1. ASSUME NEW p \in Pid, NEW t \in Token,
               \/ \E d \in Demand : Reserve(p, t, d)
               \/ \E n \in 1..MaxWrite : GrowForWrite(p, t, "bytes", n)
               \/ GrowForWrite(p, t, "inodes", 1)
               \/ \E n \in 1..MaxWrite : Write(p, t, n)
        PROVE  IInv'
    <2>1. \A n \in 1..MaxWrite : n \in Nat
      BY CapacityAssumption
    <2> QED BY <1>1, <2>1, KindTwo, ReserveInvariant, GrowForWriteInvariant, WriteInvariant
  <1>2. ASSUME NEW p \in Pid, NEW t \in Token,
               \/ \E n \in 1..Capacity["bytes"] : Drain(p, t, n)
               \/ CreateFile(p, t) \/ Consume(p, t) \/ FlushFails(p, t) \/ Release(p, t)
        PROVE  IInv'
    BY <1>2, DrainInvariant, CreateFileInvariant, ConsumeInvariant, FlushFailsInvariant,
       ReleaseInvariant
  <1>3. CASE Reconcile
    BY <1>3, ReconcileInvariant
  <1>4. ASSUME NEW p \in Pid, Start(p) \/ StartUnreadable(p) \/ Exit(p)
        PROVE  IInv'
    BY <1>4, StartInvariant, ExitInvariant
  <1>5. ASSUME NEW k \in Kind, ForeignUse(k) \/ Delete(k)
        PROVE  IInv'
    BY <1>5, HostInvariant
  <1>6. CASE UNCHANGED vars
    BY <1>6, StutterInvariant
  <1> QED BY <1>1, <1>2, <1>3, <1>4, <1>5, <1>6 DEF Next

---------------------------------------------------------------------------
(* Every behaviour satisfies the inductive invariant.                      *)
THEOREM InvariantHolds == Spec => []IInv
  BY InitInvariant, StepInvariant, PTL DEF Spec

(* state.json, the writers' budgets and statvfs keep their types: no lease *)
(* column and no budget ever goes negative or above the filesystem.        *)
THEOREM TypeCorrect == Spec => []TypeOK
  <1>1. IInv => TypeOK
    BY DEF IInv
  <1> QED BY <1>1, InvariantHolds, PTL

(* consume() never refuses a writer: its lease always covers what it has   *)
(* written and what it may still write.                                    *)
THEOREM ConsumeNeverRefused == Spec => []LeaseCoversWriter
  <1>1. IInv => LeaseCoversWriter
    BY DEF IInv
  <1> QED BY <1>1, InvariantHolds, PTL

(* Reconciliation never takes a lease from a process that still writes.    *)
THEOREM LivingWritersKeepLeases == Spec => []OnlyHoldersOwe
  <1>1. IInv => OnlyHoldersOwe
    BY DEF IInv
  <1> QED BY <1>1, InvariantHolds, PTL

(* The admitted writers together stay above the headroom.                  *)
THEOREM HeadroomRespected == Spec => []HeadroomKept
  <1>1. IInv => HeadroomKept
    BY DEF IInv
  <1> QED BY <1>1, InvariantHolds, PTL

(* An admitted flush runs out of space only when other users have taken    *)
(* more than the whole headroom.                                           *)
THEOREM AdmittedWritesFit == Spec => []WritersNeverRunOut
  <1>1. IInv => WritersNeverRunOut
    <2> SUFFICES ASSUME IInv, NEW t \in Token, buffered[t] > free["bytes"]
                 PROVE  foreign["bytes"] > Headroom["bytes"]
      BY DEF WritersNeverRunOut
    <2>1. Owed("bytes") \in Column /\ Owed("bytes")[t] = remaining["bytes"][t] + buffered[t]
      BY OwedType, KindTwo DEF IInv, Owed
    <2>2. Owed("bytes")[t] <= Total(Owed("bytes")) /\ Total(Owed("bytes")) \in Nat
      BY <2>1, EntryBelowTotal, TotalType
    <2>3. /\ remaining["bytes"][t] \in 0..Ceiling /\ buffered[t] \in 0..Ceiling
          /\ free["bytes"] \in 0..Ceiling /\ foreign["bytes"] \in Nat
      BY KindTwo DEF IInv, TypeOK
    <2>4. Headroom["bytes"] \in Nat
      BY CapacityAssumption, KindTwo
    <2>5. Total(Owed("bytes")) > 0
      BY <2>1, <2>2, <2>3, CeilingNat
    <2>6. Headroom["bytes"] + Total(Owed("bytes")) <= free["bytes"] + foreign["bytes"]
      BY <2>5, KindTwo DEF IInv, HeadroomKept
    <2> QED BY <2>1, <2>2, <2>3, <2>4, <2>6, CeilingNat
  <1> QED BY <1>1, InvariantHolds, PTL

===========================================================================
