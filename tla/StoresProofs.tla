---------------------------- MODULE StoresProofs ----------------------------
(***************************************************************************)
(* Proofs about the parts of Stores, for any values of the constants.      *)
(*   Recycled memory: every resource has at most one place, an entry that   *)
(* is pushed covers the use of all it keeps, and the sync points of the     *)
(* entries ascend.                                                         *)
(*   The map of built-in shaders: the task of a type adds its permutations  *)
(* in ascending order, so a shader is never there before it is added; and   *)
(* a task holds on to a section only once it is that of its source.         *)
(*   Loaded assets, as long as no lookup reads the list while another splices *)
(* it: the ring has the nodes of the map in the order of use, and while a     *)
(* lookup splices its node to the front each pointer is the old one or        *)
(* already the new one.                                                      *)
(***************************************************************************)
EXTENDS Stores, SequenceTheorems, FiniteSetTheorems, WellFoundedInduction,
        TLAPS

\* A resource is bound to one buffer, free, or kept by one entry
BoundOnce ==
  /\ \A b, c \in Buffers : resource[b] = resource[c] => b = c
  /\ \A b \in Buffers : /\ resource[b] \notin upload_resources
                        /\ resource[b] \notin Kept(residencyPool)
  /\ upload_resources \cap Kept(residencyPool) = {}
KeptOnce ==
  /\ \A i \in DOMAIN reclaimPool :
       /\ \A b \in Buffers : resource[b] \notin Kept(reclaimPool[i])
       /\ Kept(reclaimPool[i]) \cap upload_resources = {}
       /\ Kept(reclaimPool[i]) \cap Kept(residencyPool) = {}
  /\ \A i, j \in DOMAIN reclaimPool :
       i # j => Kept(reclaimPool[i]) \cap Kept(reclaimPool[j]) = {}

\* The sync point of an entry covers what it keeps; of the entry being filled
\* it does for the uploads only when the scene was built in the open list
Covered ==
  /\ \A r \in residencyPool.residency : lastUse[r] <= residencyPool.sync
  /\ \A i \in DOMAIN reclaimPool : \A r \in Kept(reclaimPool[i]) :
       lastUse[r] <= reclaimPool[i].sync
  /\ phase \in {"load", "loaded"} => residencyPool.uploads = {}
  /\ phase = "late" => residencyPool.sync = open

\* Sync points ascend to the entry being filled
SyncOrder ==
  /\ \A i, j \in DOMAIN reclaimPool :
       i < j => reclaimPool[i].sync <= reclaimPool[j].sync
  /\ \A i \in DOMAIN reclaimPool : reclaimPool[i].sync <= residencyPool.sync

\* The ghost names batches that are not finished
UseExact == \A r \in Resources : lastUse[r] = 0 \/ lastUse[r] > done

IInv == /\ TypeOK /\ BoundOnce /\ KeptOnce /\ Covered /\ SyncOrder /\ UseExact
        /\ PooledIdle /\ UsedIsReferenced
-----------------------------------------------------------------------------
(* Operators *)

LEMMA PickIn == \A S : S # {} => Pick(S) \in S
BY DEF Pick

LEMMA ResidencyFacts ==
  ASSUME NEW e \in Entry, NEW rs \in SUBSET Resources, open \in 0 .. MaxBatch
  PROVE  /\ ResidencyResource(e, rs) \in Entry
         /\ ResidencyResource(e, rs).sync = open
         /\ ResidencyResource(e, rs).residency = e.residency \cup rs
         /\ ResidencyResource(e, rs).uploads = e.uploads
BY DEF ResidencyResource, Entry

LEMMA RecycleFacts ==
  ASSUME NEW e \in Entry, NEW r \in Resources
  PROVE  /\ InnerResourceRecycle(e, r) \in Entry
         /\ InnerResourceRecycle(e, r).sync = e.sync
         /\ InnerResourceRecycle(e, r).residency = e.residency
         /\ InnerResourceRecycle(e, r).uploads = e.uploads \cup {r}
BY DEF InnerResourceRecycle, Entry

LEMMA ClearFacts ==
  ASSUME NEW e \in Entry
  PROVE  /\ ClearEntry(e) \in Entry /\ ClearEntry(e).sync = e.sync
         /\ ClearEntry(e).residency = {} /\ ClearEntry(e).uploads = {}
BY DEF ClearEntry, Entry

\* A released resource has no place and no use
LEMMA ReleasedFacts ==
  ASSUME IInv, NEW s \in Released
  PROVE  /\ s \in Resources /\ lastUse[s] = 0
         /\ \A b \in Buffers : resource[b] # s
         /\ s \notin upload_resources /\ s \notin Kept(residencyPool)
         /\ \A i \in DOMAIN reclaimPool : s \notin Kept(reclaimPool[i])
BY DEF IInv, Released, Referenced, UsedIsReferenced

\* What InnerResourceAlloc returns is free or released
LEMMA AllocFacts ==
  ASSUME IInv, NEW S \in SUBSET Released, S # {},
         NEW r \in InnerResourceAlloc(S)
  PROVE  /\ r \in Resources /\ lastUse[r] = 0
         /\ \A b \in Buffers : resource[b] # r
         /\ r \notin Kept(residencyPool)
         /\ \A i \in DOMAIN reclaimPool : r \notin Kept(reclaimPool[i])
         /\ r \in upload_resources \/ r \in S
<1>1. CASE r \in upload_resources
  BY <1>1 DEF IInv, PooledIdle, TypeOK, BoundOnce, KeptOnce
<1>2. CASE r \notin upload_resources
  <2>1. r \in S
    BY <1>2, PickIn DEF InnerResourceAlloc
  <2> QED
    BY <2>1, ReleasedFacts
<1> QED
  BY <1>1, <1>2

\* The entries that are complete are the first ones
LEMMA CompleteFacts ==
  ASSUME NEW pool \in Seq(Entry), done \in Nat
  PROVE  /\ CompleteEntries(pool) \in 0 .. Len(pool)
         /\ \A i \in 1 .. CompleteEntries(pool) : pool[i].sync <= done
         /\ CompleteEntries(pool) < Len(pool) =>
              pool[CompleteEntries(pool) + 1].sync > done
<1> DEFINE C == {i \in 1 .. Len(pool) : \A j \in 1 .. i : pool[j].sync <= done}
           n == Cardinality(C)
<1>0. Len(pool) \in Nat /\ DOMAIN pool = 1 .. Len(pool)
  BY LenProperties
<1>1. n = CompleteEntries(pool)
  BY <1>0 DEF CompleteEntries
<1>2. Len(pool) \in Nat /\ \A i \in 1 .. Len(pool) : pool[i].sync \in Nat
  <2>1. \A i \in 1 .. Len(pool) : pool[i] \in Entry
    BY ElementOfSeq
  <2> QED
    BY <1>0, <2>1, BoundsAssumption DEF Entry
<1>3. IsFiniteSet(1 .. Len(pool)) /\ Cardinality(1 .. Len(pool)) = Len(pool)
  BY <1>0, FS_Interval
<1>4. IsFiniteSet(C) /\ n \in Nat /\ n <= Len(pool)
  BY <1>3, FS_Subset, FS_CardinalityType
<1>5. ASSUME NEW i \in C PROVE i <= n
  <2>1. 1 .. i \in SUBSET C
    BY <1>2
  <2>2. Cardinality(1 .. i) = i
    BY FS_Interval, <1>2
  <2> QED
    BY <2>1, <2>2, <1>4, FS_Subset
<1>6. ASSUME NEW i \in 1 .. n PROVE i \in C
  <2> SUFFICES ASSUME i \notin C PROVE FALSE
    OBVIOUS
  <2>1. C \in SUBSET (1 .. i - 1)
    BY <1>2, <1>4
  <2>2. IsFiniteSet(1 .. i - 1) /\ Cardinality(1 .. i - 1) = i - 1
    <3>1. i - 1 \in Int /\ 1 \in Int /\ i - 1 >= 0
      BY <1>4
    <3>2. /\ IsFiniteSet(1 .. i - 1)
          /\ Cardinality(1 .. i - 1) = IF 1 > i - 1 THEN 0 ELSE i - 1 - 1 + 1
      BY <3>1, FS_Interval
    <3> QED
      BY <3>1, <3>2
  <2>3. n <= i - 1
    BY <2>1, <2>2, FS_Subset
  <2> QED
    BY <2>3, <1>4
<1>7. ASSUME n < Len(pool) PROVE pool[n + 1].sync > done
  <2>1. n + 1 \notin C /\ n + 1 \in 1 .. Len(pool)
    BY <1>4, <1>5, <1>7, <1>2
  <2>2. \A j \in 1 .. n : pool[j].sync <= done
    BY <1>6, <1>4
  <2>3. ~ (pool[n + 1].sync <= done)
    <3>1. \E j \in 1 .. n + 1 : ~ (pool[j].sync <= done)
      BY <2>1
    <3> QED
      BY <3>1, <2>2, <1>4
  <2> QED
    BY <2>1, <2>3, <1>2
<1>8. \A i \in 1 .. n : pool[i].sync <= done
  BY <1>6, <1>4
<1> QED
  BY <1>1, <1>4, <1>7, <1>8
-----------------------------------------------------------------------------
(* Buffers *)

\* What is in the pools, and the type of the bounds
LEMMA PoolFacts ==
  ASSUME IInv
  PROVE  /\ open \in Nat /\ open \in 0 .. MaxBatch /\ done \in Nat /\ done < open
         /\ Len(reclaimPool) \in Nat
         /\ DOMAIN reclaimPool = 1 .. Len(reclaimPool)
         /\ \A i \in DOMAIN reclaimPool : reclaimPool[i] \in Entry
         /\ residencyPool \in Entry
<1>1. Len(reclaimPool) \in Nat /\ DOMAIN reclaimPool = 1 .. Len(reclaimPool)
  BY LenProperties DEF IInv, TypeOK
<1>2. \A i \in DOMAIN reclaimPool : reclaimPool[i] \in Entry
  BY <1>1, ElementOfSeq DEF IInv, TypeOK
<1> QED
  BY <1>1, <1>2, BoundsAssumption DEF IInv, TypeOK

LEMMA ReferencedNow ==
  \A r : r \in Referenced <=> \/ \E b \in Buffers : resource[b] = r
                              \/ r \in upload_resources
                              \/ r \in Kept(residencyPool)
                              \/ \E i \in DOMAIN reclaimPool :
                                   r \in Kept(reclaimPool[i])
BY DEF Referenced

LEMMA ReferencedNext ==
  \A r : r \in Referenced' <=> \/ \E b \in Buffers : resource'[b] = r
                               \/ r \in upload_resources'
                               \/ r \in Kept(residencyPool')
                               \/ \E i \in DOMAIN reclaimPool' :
                                    r \in Kept(reclaimPool'[i])
BY DEF Referenced

LEMMA BuildGeometryStep == IInv /\ BuildGeometry => IInv'
<1> SUFFICES ASSUME IInv, BuildGeometry PROVE IInv'
  OBVIOUS
<1> DEFINE s == Pick(Released)
           new == ResidencyResource(residencyPool, {s})
<1>1. s \in Released
  BY PickIn DEF BuildGeometry
<1>2. /\ s \in Resources /\ lastUse[s] = 0
      /\ \A b \in Buffers : resource[b] # s
      /\ s \notin upload_resources /\ s \notin Kept(residencyPool)
      /\ \A i \in DOMAIN reclaimPool : s \notin Kept(reclaimPool[i])
  BY <1>1, ReleasedFacts
<1>3. /\ new \in Entry /\ new.sync = open
      /\ new.residency = residencyPool.residency \cup {s}
      /\ new.uploads = residencyPool.uploads
  BY <1>2, ResidencyFacts, PoolFacts
<1>4. Kept(new) = Kept(residencyPool) \cup {s}
  BY <1>3 DEF Kept
<1>5. residencyPool' = new /\ lastUse' = UsedNow({s})
  BY DEF BuildGeometry
<1>6. /\ UNCHANGED <<open, done, phase, resource, upload_resources, reclaimPool>>
      /\ phase = "load"
  BY DEF BuildGeometry
<1> HIDE DEF s, new
<1>7. TypeOK'
  BY <1>3, <1>5, <1>6, PoolFacts DEF IInv, TypeOK, UsedNow
<1>8. BoundOnce'
  BY <1>2, <1>4, <1>5, <1>6 DEF IInv, BoundOnce
<1>9. KeptOnce'
  BY <1>2, <1>4, <1>5, <1>6 DEF IInv, KeptOnce
<1>10. Covered'
  <2>1. \A r \in new.residency : lastUse'[r] <= open
    BY <1>2, <1>3, <1>5, PoolFacts DEF IInv, Covered, UsedNow, Entry, TypeOK
  <2>2. \A i \in DOMAIN reclaimPool : \A r \in Kept(reclaimPool[i]) :
          lastUse'[r] <= reclaimPool[i].sync
    BY <1>2, <1>5, PoolFacts DEF IInv, Covered, UsedNow, Kept, Entry
  <2> QED
    BY <1>3, <1>5, <1>6, <2>1, <2>2 DEF IInv, Covered
<1>11. SyncOrder'
  BY <1>3, <1>5, <1>6, PoolFacts DEF IInv, SyncOrder, Entry, TypeOK
<1>12. UseExact'
  BY <1>5, <1>6, PoolFacts DEF IInv, UseExact, UsedNow
<1>13. PooledIdle'
  BY <1>2, <1>5, <1>6 DEF IInv, PooledIdle, UsedNow, TypeOK
<1>14. UsedIsReferenced'
  BY <1>4, <1>5, <1>6, ReferencedNow, ReferencedNext
     DEF IInv, UsedIsReferenced, UsedNow
<1> QED
  BY <1>7, <1>8, <1>9, <1>10, <1>11, <1>12, <1>13, <1>14 DEF IInv

LEMMA MapStep == ASSUME IInv, NEW b \in Buffers, Map(b) PROVE IInv'
<1> DEFINE old == resource[b]
           new == InnerResourceRecycle(residencyPool, old)
<1>1. PICK r \in InnerResourceAlloc(Released) :
        /\ resource' = [resource EXCEPT ![b] = r]
        /\ upload_resources' = upload_resources \ {r}
  BY DEF Map
<1>2. /\ r \in Resources /\ lastUse[r] = 0
      /\ \A c \in Buffers : resource[c] # r
      /\ r \notin Kept(residencyPool)
      /\ \A i \in DOMAIN reclaimPool : r \notin Kept(reclaimPool[i])
  BY AllocFacts DEF Map
<1>3. /\ old \in Resources /\ old \notin upload_resources
      /\ old \notin Kept(residencyPool)
      /\ \A i \in DOMAIN reclaimPool : old \notin Kept(reclaimPool[i])
  BY DEF IInv, TypeOK, BoundOnce, KeptOnce
<1>4. /\ new \in Entry /\ new.sync = residencyPool.sync
      /\ new.residency = residencyPool.residency
      /\ new.uploads = residencyPool.uploads \cup {old}
  BY <1>3, RecycleFacts, PoolFacts
<1>5. Kept(new) = Kept(residencyPool) \cup {old}
  BY <1>4 DEF Kept
<1>6. /\ residencyPool' = new /\ phase \in {"early", "late"}
      /\ UNCHANGED <<open, done, phase, reclaimPool, lastUse>>
  BY DEF Map
<1>7. \A c \in Buffers : resource'[c] = IF c = b THEN r ELSE resource[c]
  BY <1>1 DEF IInv, TypeOK
<1>8. \A c \in Buffers : resource'[c] # old
  BY <1>2, <1>7 DEF IInv, BoundOnce
<1>9. resource[b] = old
  OBVIOUS
<1> HIDE DEF old, new
<1>10. TypeOK'
  BY <1>1, <1>2, <1>4, <1>6, PoolFacts DEF IInv, TypeOK
<1>11. BoundOnce'
  BY <1>1, <1>2, <1>3, <1>5, <1>6, <1>7, <1>8 DEF IInv, BoundOnce
<1>12. KeptOnce'
  BY <1>1, <1>2, <1>3, <1>5, <1>6, <1>7 DEF IInv, KeptOnce
<1>13. Covered'
  BY <1>4, <1>6 DEF IInv, Covered
<1>14. SyncOrder'
  BY <1>4, <1>6 DEF IInv, SyncOrder
<1>15. UseExact'
  BY <1>6 DEF IInv, UseExact
<1>16. PooledIdle'
  BY <1>1, <1>6 DEF IInv, PooledIdle
<1>17. UsedIsReferenced'
  <2>1. ASSUME NEW q \in Resources, lastUse[q] # 0 PROVE q \in Referenced'
    <3>1. q \in Referenced /\ q # r
      BY <2>1, <1>2 DEF IInv, UsedIsReferenced
    <3> QED
      BY <3>1, <1>1, <1>5, <1>6, <1>7, <1>9, ReferencedNow, ReferencedNext
  <2> QED
    BY <2>1, <1>6 DEF UsedIsReferenced
<1> QED
  BY <1>10, <1>11, <1>12, <1>13, <1>14, <1>15, <1>16, <1>17 DEF IInv

LEMMA DrawStep == ASSUME IInv, NEW b \in Buffers, Draw(b) PROVE IInv'
<1>1. /\ lastUse' = UsedNow({resource[b]}) /\ phase \in {"early", "late"}
      /\ UNCHANGED <<open, done, phase, resource, upload_resources, residencyPool,
                     reclaimPool>>
  BY DEF Draw
<1>2. \A q \in Resources : q # resource[b] => lastUse'[q] = lastUse[q]
  BY <1>1 DEF UsedNow
<1>3. /\ resource[b] \in Resources /\ lastUse'[resource[b]] = open
      /\ resource[b] \notin upload_resources
      /\ resource[b] \notin Kept(residencyPool)
      /\ \A i \in DOMAIN reclaimPool : resource[b] \notin Kept(reclaimPool[i])
  BY <1>1 DEF IInv, TypeOK, BoundOnce, KeptOnce, UsedNow
<1>4. TypeOK'
  BY <1>1, PoolFacts DEF IInv, TypeOK, UsedNow
<1>5. Covered'
  <2>1. \A q \in residencyPool.residency : lastUse'[q] <= residencyPool.sync
    BY <1>2, <1>3, PoolFacts DEF IInv, Covered, Kept, Entry
  <2>2. \A i \in DOMAIN reclaimPool : \A q \in Kept(reclaimPool[i]) :
          lastUse'[q] <= reclaimPool[i].sync
    BY <1>2, <1>3, PoolFacts DEF IInv, Covered, Kept, Entry
  <2> QED
    BY <1>1, <2>1, <2>2 DEF IInv, Covered
<1>6. BoundOnce' /\ KeptOnce' /\ SyncOrder'
  BY <1>1 DEF IInv, BoundOnce, KeptOnce, SyncOrder
<1>7. UseExact'
  BY <1>1, <1>2, <1>3, PoolFacts DEF IInv, UseExact
<1>8. PooledIdle'
  BY <1>1, <1>2, <1>3 DEF IInv, PooledIdle, TypeOK
<1>9. UsedIsReferenced'
  <2>1. Referenced' = Referenced
    BY <1>1 DEF Referenced
  <2>2. resource[b] \in Referenced
    BY ReferencedNow
  <2> QED
    BY <1>2, <2>1, <2>2 DEF IInv, UsedIsReferenced
<1> QED
  BY <1>4, <1>5, <1>6, <1>7, <1>8, <1>9 DEF IInv

LEMMA ThreeReleased ==
  ASSUME Cardinality(Released) >= 3
  PROVE  LET created == Pick(Released)
             scratch == Pick(Released \ {created})
         IN /\ created \in Released /\ scratch \in Released \ {created}
            /\ Released \ {created, scratch} # {}
<1> DEFINE created == Pick(Released)
           scratch == Pick(Released \ {created})
<1>1. IsFiniteSet(Released) /\ Cardinality(Released) \in Nat
  BY BoundsAssumption, FS_Subset, FS_CardinalityType DEF Released
<1>2. created \in Released
  BY <1>1, PickIn, FS_EmptySet
<1>3. /\ IsFiniteSet(Released \ {created})
      /\ Cardinality(Released \ {created}) = Cardinality(Released) - 1
  BY <1>1, <1>2, FS_RemoveElement
<1>4. scratch \in Released \ {created}
  BY <1>1, <1>3, PickIn, FS_EmptySet
<1> HIDE DEF created, scratch
<1>5. /\ IsFiniteSet((Released \ {created}) \ {scratch})
      /\ Cardinality((Released \ {created}) \ {scratch})
           = Cardinality(Released) - 2
  <2> DEFINE rest == Released \ {created}
  <2>1. IsFiniteSet(rest) /\ scratch \in rest
    BY <1>3, <1>4
  <2>2. Cardinality(rest) = Cardinality(Released) - 1
    BY <1>3
  <2> HIDE DEF rest
  <2>3. /\ IsFiniteSet(rest \ {scratch})
        /\ Cardinality(rest \ {scratch}) = Cardinality(rest) - 1
    BY <2>1, FS_RemoveElement
  <2> QED
    BY <1>1, <2>2, <2>3 DEF rest
<1>6. (Released \ {created}) \ {scratch} # {}
  BY <1>1, <1>5, FS_EmptySet
<1>7. Released \ {created, scratch} # {}
  BY <1>6
<1> QED
  BY <1>2, <1>4, <1>7 DEF created, scratch

LEMMA BuildSceneStep == IInv /\ BuildScene => IInv'
<1> SUFFICES ASSUME IInv, BuildScene PROVE IInv'
  OBVIOUS
<1> DEFINE created == Pick(Released)
           scratch == Pick(Released \ {created})
           mid == InnerResourceRecycle(residencyPool, created)
<1>1. /\ created \in Released /\ scratch \in Released /\ created # scratch
      /\ Released \ {created, scratch} # {}
  BY ThreeReleased DEF BuildScene
<1>2. PICK instances \in InnerResourceAlloc(Released \ {created, scratch}) :
        /\ residencyPool' = ResidencyResource(mid, {instances, scratch})
        /\ upload_resources' = upload_resources \ {instances}
        /\ lastUse' = UsedNow({instances, scratch})
  BY DEF BuildScene
<1> DEFINE new == ResidencyResource(mid, {instances, scratch})
<1>3. /\ UNCHANGED <<open, done, resource, reclaimPool>>
      /\ phase = "early" /\ phase' = "late"
      /\ residencyPool' = new
  BY <1>2 DEF BuildScene
<1>4. \A s \in {created, scratch} :
        /\ s \in Resources /\ lastUse[s] = 0
        /\ \A b \in Buffers : resource[b] # s
        /\ s \notin upload_resources /\ s \notin Kept(residencyPool)
        /\ \A i \in DOMAIN reclaimPool : s \notin Kept(reclaimPool[i])
  BY <1>1, ReleasedFacts
<1>5. /\ instances \in Resources /\ lastUse[instances] = 0
      /\ \A b \in Buffers : resource[b] # instances
      /\ instances \notin Kept(residencyPool)
      /\ \A i \in DOMAIN reclaimPool : instances \notin Kept(reclaimPool[i])
      /\ instances \in upload_resources
           \/ instances \in Released \ {created, scratch}
  BY <1>1, <1>2, AllocFacts
<1>6. created # instances /\ scratch # instances
  BY <1>4, <1>5
<1> HIDE DEF created, scratch
<1>7. /\ mid \in Entry /\ mid.residency = residencyPool.residency
      /\ mid.uploads = residencyPool.uploads \cup {created}
  BY <1>4, RecycleFacts, PoolFacts
<1> HIDE DEF mid
<1>8. /\ new \in Entry /\ new.sync = open
      /\ new.residency = residencyPool.residency \cup {instances, scratch}
      /\ new.uploads = residencyPool.uploads \cup {created}
  BY <1>4, <1>5, <1>7, ResidencyFacts, PoolFacts
<1>9. Kept(new) = Kept(residencyPool) \cup {instances, scratch, created}
  BY <1>8 DEF Kept
<1> HIDE DEF new
<1>10. \A q \in Resources :
         lastUse'[q] = IF q \in {instances, scratch} THEN open ELSE lastUse[q]
  BY <1>2 DEF UsedNow
<1>11. TypeOK'
  BY <1>2, <1>3, <1>8, PoolFacts DEF IInv, TypeOK, UsedNow, Phases
<1>12. BoundOnce'
  <2>1. \A b \in Buffers : /\ resource[b] \notin upload_resources'
                           /\ resource[b] \notin Kept(new)
    BY <1>2, <1>4, <1>5, <1>9 DEF IInv, BoundOnce
  <2>2. upload_resources' \cap Kept(new) = {}
    BY <1>2, <1>4, <1>9 DEF IInv, BoundOnce
  <2> QED
    BY <1>3, <2>1, <2>2 DEF IInv, BoundOnce
<1>13. KeptOnce'
  BY <1>2, <1>3, <1>4, <1>5, <1>9 DEF IInv, KeptOnce
<1>14. Covered'
  <2>1. \A r \in new.residency : lastUse'[r] <= open
    BY <1>4, <1>5, <1>8, <1>10, PoolFacts DEF IInv, Covered, Entry, TypeOK
  <2>2. \A i \in DOMAIN reclaimPool : \A r \in Kept(reclaimPool[i]) :
          lastUse'[r] <= reclaimPool[i].sync
    BY <1>4, <1>5, <1>10, PoolFacts DEF IInv, Covered, Kept, Entry
  <2> QED
    BY <1>3, <1>8, <2>1, <2>2 DEF Covered
<1>15. SyncOrder'
  BY <1>3, <1>8, PoolFacts DEF IInv, SyncOrder, Entry, TypeOK
<1>16. UseExact'
  BY <1>3, <1>10, PoolFacts DEF IInv, UseExact
<1>17. PooledIdle'
  BY <1>2, <1>4, <1>10 DEF IInv, PooledIdle, TypeOK
<1>18. UsedIsReferenced'
  <2>1. ASSUME NEW q \in Resources, lastUse'[q] # 0 PROVE q \in Referenced'
    <3>1. CASE q \in {instances, scratch}
      BY <3>1, <1>3, <1>9, ReferencedNext
    <3>2. CASE q \notin {instances, scratch}
      <4>1. lastUse[q] # 0
        BY <2>1, <3>2, <1>10
      <4>2. q \in Referenced
        BY <4>1 DEF IInv, UsedIsReferenced
      <4> QED
        BY <3>2, <4>2, <1>2, <1>3, <1>9, ReferencedNow, ReferencedNext
    <3> QED
      BY <3>1, <3>2
  <2> QED
    BY <2>1 DEF UsedIsReferenced
<1> QED
  BY <1>11, <1>12, <1>13, <1>14, <1>15, <1>16, <1>17, <1>18 DEF IInv
-----------------------------------------------------------------------------
(* ClearPSOCache, and the end of a frame *)

LEMMA ClearStep ==
  ASSUME IInv, ClearPSOCache, UNCHANGED <<done, resource, lastUse>>,
         \A r \in residencyPool.uploads : lastUse[r] <= residencyPool.sync
  PROVE  /\ residencyPool' \in Entry /\ residencyPool'.sync = residencyPool.sync
         /\ residencyPool'.residency = {} /\ residencyPool'.uploads = {}
         /\ reclaimPool' \in Seq(Entry) /\ upload_resources' \in SUBSET Resources
         /\ \A i \in DOMAIN reclaimPool' :
              /\ \A r \in Kept(reclaimPool'[i]) :
                   lastUse'[r] <= reclaimPool'[i].sync
              /\ reclaimPool'[i].sync > done
         /\ BoundOnce' /\ KeptOnce' /\ SyncOrder' /\ UseExact'
         /\ PooledIdle' /\ UsedIsReferenced'
<1> DEFINE L == Len(reclaimPool)
           pool == Push(reclaimPool, residencyPool)
           n == CompleteEntries(pool)
           rest == SubSeq(pool, n + 1, Len(pool))
<1>1. /\ residencyPool' = ClearEntry(residencyPool)
      /\ upload_resources' =
           upload_resources \cup UNION {pool[i].uploads : i \in 1 .. n}
      /\ reclaimPool' = rest
  BY DEF ClearPSOCache
<1>2. /\ L \in Nat /\ pool \in Seq(Entry) /\ Len(pool) = L + 1
      /\ pool[L + 1] = residencyPool
      /\ \A i \in 1 .. L : pool[i] = reclaimPool[i]
  BY PoolFacts, AppendProperties DEF IInv, TypeOK, Push
<1>3. n \in 0 .. L + 1
  BY <1>2, CompleteFacts, PoolFacts
<1>4. /\ \A i \in 1 .. n : pool[i].sync <= done
      /\ n < L + 1 => pool[n + 1].sync > done
  BY <1>2, CompleteFacts, PoolFacts
<1> HIDE DEF n
<1>5. /\ \A i \in 1 .. L + 1 : pool[i] \in Entry
      /\ \A i \in 1 .. L + 1 : pool[i].sync \in Nat
  <2>1. \A i \in 1 .. L + 1 : pool[i] \in Entry
    BY <1>2, ElementOfSeq
  <2> QED
    BY <2>1, BoundsAssumption DEF Entry
<1>6. /\ rest \in Seq(Entry) /\ Len(rest) = L + 1 - n
      /\ \A i \in 1 .. L + 1 - n : rest[i] = pool[n + i]
  <2>1. n + 1 \in Int /\ L + 1 \in Int
    BY <1>2, <1>3
  <2>2. \A i \in n + 1 .. L + 1 : pool[i] \in Entry
    BY <1>2, <1>3, <1>5
  <2>3. /\ SubSeq(pool, n + 1, L + 1) \in Seq(Entry)
        /\ Len(SubSeq(pool, n + 1, L + 1)) =
             IF n + 1 <= L + 1 THEN L + 1 - (n + 1) + 1 ELSE 0
        /\ \A i \in 1 .. L + 1 - (n + 1) + 1 :
             SubSeq(pool, n + 1, L + 1)[i] = pool[n + 1 + i - 1]
    BY <2>1, <2>2, SubSeqProperties
  <2> QED
    BY <1>2, <1>3, <2>3
<1>7. DOMAIN rest = 1 .. L + 1 - n /\ \A i \in DOMAIN rest : n + i \in 1 .. L + 1
  BY <1>2, <1>3, <1>6, LenProperties
<1> HIDE DEF rest
\* The pool as it is after the push
<1>8. \A i \in 1 .. L + 1 : \A r \in Kept(pool[i]) : lastUse[r] <= pool[i].sync
  <2>1. \A r \in Kept(residencyPool) : lastUse[r] <= residencyPool.sync
    BY DEF IInv, Covered, Kept
  <2>2. \A i \in 1 .. L : \A r \in Kept(pool[i]) : lastUse[r] <= pool[i].sync
    BY <1>2, PoolFacts DEF IInv, Covered
  <2> QED
    BY <1>2, <2>1, <2>2
<1>9. \A i \in 1 .. L + 1 :
        /\ \A b \in Buffers : resource[b] \notin Kept(pool[i])
        /\ Kept(pool[i]) \cap upload_resources = {}
  BY <1>2, PoolFacts DEF IInv, BoundOnce, KeptOnce
<1>10. \A i, j \in 1 .. L + 1 : i # j => Kept(pool[i]) \cap Kept(pool[j]) = {}
  BY <1>2, PoolFacts DEF IInv, KeptOnce
<1>11. \A i, j \in 1 .. L + 1 : i < j => pool[i].sync <= pool[j].sync
  BY <1>2, PoolFacts DEF IInv, SyncOrder
<1> HIDE DEF pool, L
\* What moves
<1>12. \A r : r \in upload_resources'
                <=> r \in upload_resources
                    \/ \E i \in 1 .. n : r \in pool[i].uploads
  BY <1>1
<1>13. /\ residencyPool' \in Entry /\ residencyPool'.sync = residencyPool.sync
       /\ residencyPool'.residency = {} /\ residencyPool'.uploads = {}
       /\ Kept(residencyPool') = {}
  BY <1>1, ClearFacts, PoolFacts DEF Kept
<1>14. \A i \in 1 .. n : pool[i].uploads \subseteq Kept(pool[i])
                         /\ pool[i].uploads \subseteq Resources
  BY <1>2, <1>3, <1>5 DEF Kept, Entry
<1>15. upload_resources' \in SUBSET Resources
  BY <1>12, <1>14 DEF IInv, TypeOK
<1>16. \A i \in DOMAIN rest : /\ rest[i] = pool[n + i] /\ n + i \in 1 .. L + 1
                              /\ \A j \in 1 .. n : n + i # j
  BY <1>3, <1>6, <1>7
<1>17. \A i \in DOMAIN rest : rest[i].sync > done
  <2> SUFFICES ASSUME NEW i \in DOMAIN rest PROVE rest[i].sync > done
    OBVIOUS
  <2>1. n < L + 1 /\ pool[n + 1].sync > done /\ n + 1 \in 1 .. L + 1
    BY <1>2, <1>3, <1>4, <1>7
  <2>2. pool[n + 1].sync <= pool[n + i].sync
    BY <2>1, <1>2, <1>3, <1>5, <1>7, <1>11, <1>16
  <2> QED
    BY <2>1, <2>2, <1>5, <1>16, PoolFacts
<1>18. \A i \in DOMAIN rest : \A r \in Kept(rest[i]) : lastUse[r] <= rest[i].sync
  BY <1>8, <1>16
<1>19. BoundOnce'
  <2>1. \A b \in Buffers : resource[b] \notin upload_resources'
    BY <1>2, <1>3, <1>9, <1>12, <1>14 DEF IInv, BoundOnce
  <2> QED
    BY <1>13, <2>1 DEF IInv, BoundOnce
<1>20. KeptOnce'
  <2>1. \A i \in DOMAIN rest :
          /\ \A b \in Buffers : resource[b] \notin Kept(rest[i])
          /\ Kept(rest[i]) \cap Kept(residencyPool') = {}
    BY <1>9, <1>13, <1>16
  <2>2. ASSUME NEW i \in DOMAIN rest, NEW r \in Kept(rest[i])
        PROVE  r \notin upload_resources'
    <3>1. r \notin upload_resources
      BY <2>2, <1>9, <1>16
    <3>2. ASSUME NEW j \in 1 .. n PROVE r \notin pool[j].uploads
      BY <2>2, <1>2, <1>3, <1>10, <1>14, <1>16
    <3> QED
      BY <3>1, <3>2, <1>12
  <2>3. ASSUME NEW i \in DOMAIN rest, NEW j \in DOMAIN rest, i # j
        PROVE  Kept(rest[i]) \cap Kept(rest[j]) = {}
    <3>1. n + i # n + j
      BY <2>3, <1>3, <1>7
    <3> QED
      BY <3>1, <1>10, <1>16
  <2> QED
    BY <1>1, <2>1, <2>2, <2>3 DEF KeptOnce
<1>21. SyncOrder'
  <2>1. ASSUME NEW i \in DOMAIN rest, NEW j \in DOMAIN rest, i < j
        PROVE  rest[i].sync <= rest[j].sync
    <3>1. n + i < n + j
      BY <2>1, <1>3, <1>7
    <3> QED
      BY <3>1, <1>11, <1>16
  <2>2. ASSUME NEW i \in DOMAIN rest PROVE rest[i].sync <= residencyPool.sync
    <3>1. n + i = L + 1 \/ n + i < L + 1
      BY <1>2, <1>3, <1>7, <1>16
    <3>2. L + 1 \in 1 .. L + 1 /\ pool[L + 1].sync \in Nat
      BY <1>2, <1>5
    <3> QED
      BY <3>1, <3>2, <1>2, <1>11, <1>16
  <2> QED
    BY <1>1, <1>13, <2>1, <2>2 DEF SyncOrder
<1>22. UseExact'
  BY DEF IInv, UseExact
<1>23. ASSUME NEW i \in 1 .. n, NEW r \in Kept(pool[i]) PROVE lastUse[r] = 0
  <2>1. /\ i \in 1 .. L + 1 /\ pool[i].sync \in Nat /\ pool[i].sync <= done
        /\ lastUse[r] <= pool[i].sync /\ r \in Resources
    BY <1>2, <1>3, <1>4, <1>5, <1>8 DEF Kept, Entry
  <2>2. lastUse[r] = 0 \/ lastUse[r] > done
    BY <2>1 DEF IInv, UseExact
  <2>3. lastUse[r] \in Nat
    BY <2>1, PoolFacts DEF IInv, TypeOK
  <2> QED
    BY <2>1, <2>2, <2>3, PoolFacts
<1>24. PooledIdle'
  BY <1>12, <1>14, <1>23 DEF IInv, PooledIdle
<1>25. UsedIsReferenced'
  <2>1. ASSUME NEW r \in Resources, lastUse[r] # 0 PROVE r \in Referenced'
    <3>1. CASE (\E b \in Buffers : resource[b] = r) \/ r \in upload_resources
      BY <3>1, <1>12, ReferencedNext
    <3>2. CASE \E i \in 1 .. L + 1 : r \in Kept(pool[i])
      <4>1. PICK i \in 1 .. L + 1 : r \in Kept(pool[i])
        BY <3>2
      <4>2. i > n
        BY <2>1, <4>1, <1>3, <1>23
      <4>3. i - n \in DOMAIN rest /\ n + (i - n) = i
        BY <4>2, <1>2, <1>3, <1>7
      <4>4. r \in Kept(rest[i - n])
        BY <4>1, <4>3, <1>16
      <4> QED
        BY <4>3, <4>4, <1>1, ReferencedNext
    <3>3. r \in Referenced
      BY <2>1 DEF IInv, UsedIsReferenced
    <3>4. r \in Kept(residencyPool) => \E i \in 1 .. L + 1 : r \in Kept(pool[i])
      BY <1>2
    <3>5. (\E i \in DOMAIN reclaimPool : r \in Kept(reclaimPool[i]))
            => \E i \in 1 .. L + 1 : r \in Kept(pool[i])
      BY <1>2, PoolFacts DEF L
    <3> QED
      BY <3>1, <3>2, <3>3, <3>4, <3>5, ReferencedNow
  <2> QED
    BY <2>1 DEF UsedIsReferenced
<1> QED
  BY <1>1, <1>6, <1>13, <1>15, <1>17, <1>18, <1>19, <1>20, <1>21, <1>22, <1>24,
     <1>25

LEMMA SubmitFacts ==
  ASSUME IInv, SubmitWork
  PROVE  /\ done' = done /\ open' \in 1 .. MaxBatch /\ open <= open'
         /\ done' \in 0 .. open' - 1
BY PoolFacts, BoundsAssumption DEF SubmitWork, Queue!Submit, IInv, TypeOK

LEMMA SyncCPUGPUStep == IInv /\ SyncCPUGPU => IInv'
<1> SUFFICES ASSUME IInv, SyncCPUGPU PROVE IInv'
  OBVIOUS
<1>1. /\ phase = "load" /\ phase' = phase /\ SubmitWork /\ ClearPSOCache
      /\ UNCHANGED <<resource, lastUse>>
  BY SyncAssumption DEF SyncCPUGPU
<1>2. /\ done' = done /\ open' \in 1 .. MaxBatch /\ open <= open'
      /\ done' \in 0 .. open' - 1
  BY <1>1, SubmitFacts
<1>3. \A r \in residencyPool.uploads : lastUse[r] <= residencyPool.sync
  BY <1>1 DEF IInv, Covered
<1>4. /\ residencyPool' \in Entry /\ residencyPool'.sync = residencyPool.sync
      /\ residencyPool'.residency = {} /\ residencyPool'.uploads = {}
      /\ reclaimPool' \in Seq(Entry) /\ upload_resources' \in SUBSET Resources
      /\ \A i \in DOMAIN reclaimPool' :
           \A r \in Kept(reclaimPool'[i]) : lastUse'[r] <= reclaimPool'[i].sync
      /\ BoundOnce' /\ KeptOnce' /\ SyncOrder' /\ UseExact'
      /\ PooledIdle' /\ UsedIsReferenced'
  BY <1>1, <1>2, <1>3, ClearStep
<1>5. TypeOK'
  <2>1. \A r \in Resources : lastUse[r] \in 0 .. open'
    BY <1>2, PoolFacts, BoundsAssumption DEF IInv, TypeOK
  <2>2. lastUse' \in [Resources -> 0 .. open']
    BY <1>1, <2>1 DEF IInv, TypeOK
  <2>3. residencyPool'.sync <= open'
    BY <1>2, <1>4, PoolFacts, BoundsAssumption DEF IInv, TypeOK, Entry
  <2> QED
    BY <1>1, <1>2, <1>4, <2>2, <2>3 DEF IInv, TypeOK
<1>6. Covered'
  BY <1>1, <1>4 DEF Covered
<1> QED
  BY <1>4, <1>5, <1>6 DEF IInv

LEMMA EndFrameStep ==
  ASSUME IInv, EndFrame
  PROVE  /\ IInv'
         /\ \A i \in DOMAIN reclaimPool' : reclaimPool'[i].sync > done
<1>1. /\ \/ phase = "late" /\ phase' = "ended"
         \/ phase = "loaded" /\ phase' = "early"
      /\ ClearPSOCache /\ UNCHANGED <<open, done, resource, lastUse>>
  BY DEF EndFrame
<1>2. \A r \in residencyPool.uploads : lastUse[r] <= residencyPool.sync
  <2>1. CASE phase = "late"
    <3>1. residencyPool.sync = open /\ residencyPool.uploads \subseteq Resources
      BY <2>1, PoolFacts DEF IInv, Covered, Entry
    <3> QED
      BY <3>1, PoolFacts DEF IInv, TypeOK
  <2>2. CASE phase = "loaded"
    BY <2>2 DEF IInv, Covered
  <2> QED
    BY <1>1, <2>1, <2>2
<1>3. /\ residencyPool' \in Entry /\ residencyPool'.sync = residencyPool.sync
      /\ residencyPool'.residency = {} /\ residencyPool'.uploads = {}
      /\ reclaimPool' \in Seq(Entry) /\ upload_resources' \in SUBSET Resources
      /\ \A i \in DOMAIN reclaimPool' :
           /\ \A r \in Kept(reclaimPool'[i]) :
                lastUse'[r] <= reclaimPool'[i].sync
           /\ reclaimPool'[i].sync > done
      /\ BoundOnce' /\ KeptOnce' /\ SyncOrder' /\ UseExact'
      /\ PooledIdle' /\ UsedIsReferenced'
  BY <1>1, <1>2, ClearStep
<1>4. TypeOK'
  BY <1>1, <1>3 DEF IInv, TypeOK, Phases
<1>5. Covered'
  BY <1>1, <1>3 DEF Covered
<1> QED
  BY <1>3, <1>4, <1>5 DEF IInv

LEMMA PresentStep == IInv /\ Present => IInv'
<1> SUFFICES ASSUME IInv, Present PROVE IInv'
  OBVIOUS
<1>1. /\ \/ phase = "ended" /\ phase' = "flushed"
         \/ phase = "flushed" /\ phase' = "early"
         \/ phase = "load" /\ phase' = "loaded"
      /\ SubmitWork
      /\ UNCHANGED <<resource, upload_resources, residencyPool, reclaimPool,
                     lastUse>>
  BY DEF Present
<1>2. /\ done' = done /\ open' \in 1 .. MaxBatch /\ open <= open'
      /\ done' \in 0 .. open' - 1
  BY <1>1, SubmitFacts
<1>3. TypeOK'
  <2>1. \A r \in Resources : lastUse[r] \in 0 .. open'
    BY <1>2, PoolFacts, BoundsAssumption DEF IInv, TypeOK
  <2>2. lastUse' \in [Resources -> 0 .. open']
    BY <1>1, <2>1 DEF IInv, TypeOK
  <2>3. residencyPool'.sync <= open'
    BY <1>1, <1>2, PoolFacts, BoundsAssumption DEF IInv, TypeOK, Entry
  <2>4. phase' \in Phases
    BY <1>1 DEF Phases
  <2> QED
    BY <1>1, <1>2, <2>2, <2>3, <2>4 DEF IInv, TypeOK
<1>4. Covered'
  BY <1>1 DEF IInv, Covered
<1>5. BoundOnce' /\ KeptOnce' /\ SyncOrder' /\ PooledIdle'
  BY <1>1 DEF IInv, BoundOnce, KeptOnce, SyncOrder, PooledIdle
<1>6. UseExact'
  BY <1>1, <1>2 DEF IInv, UseExact
<1>7. UsedIsReferenced'
  BY <1>1 DEF IInv, UsedIsReferenced, Referenced
<1> QED
  BY <1>3, <1>4, <1>5, <1>6, <1>7 DEF IInv

LEMMA FinishStep == IInv /\ Finish => IInv'
<1> SUFFICES ASSUME IInv, Finish PROVE IInv'
  OBVIOUS
<1>1. /\ done + 1 < open /\ done' = done + 1
      /\ UNCHANGED <<open, phase, resource, upload_resources, residencyPool,
                     reclaimPool>>
  BY DEF Finish, Queue!Finish
<1>2. lastUse' \in [Resources -> 0 .. open]
  BY PoolFacts DEF Finish, IInv, TypeOK
<1>3. \A r \in Resources : /\ lastUse'[r] = 0 \/ lastUse'[r] = lastUse[r]
                           /\ lastUse'[r] = 0 \/ lastUse'[r] > done'
  BY <1>1, PoolFacts DEF Finish, IInv, TypeOK
<1>4. TypeOK'
  BY <1>1, <1>2, PoolFacts DEF IInv, TypeOK
<1>5. BoundOnce' /\ KeptOnce' /\ SyncOrder'
  BY <1>1 DEF IInv, BoundOnce, KeptOnce, SyncOrder
<1>6. Covered'
  <2>1. \A r \in residencyPool.residency : lastUse'[r] <= residencyPool.sync
    BY <1>3, PoolFacts, BoundsAssumption DEF IInv, Covered, Entry
  <2>2. \A i \in DOMAIN reclaimPool : \A r \in Kept(reclaimPool[i]) :
          lastUse'[r] <= reclaimPool[i].sync
    BY <1>3, PoolFacts, BoundsAssumption DEF IInv, Covered, Kept, Entry
  <2> QED
    BY <1>1, <2>1, <2>2 DEF IInv, Covered
<1>7. UseExact' /\ PooledIdle'
  BY <1>1, <1>3 DEF IInv, UseExact, PooledIdle, TypeOK
<1>8. UsedIsReferenced'
  <2>1. Referenced' = Referenced
    BY <1>1 DEF Referenced
  <2> QED
    BY <1>3, <2>1 DEF IInv, UsedIsReferenced
<1> QED
  BY <1>4, <1>5, <1>6, <1>7, <1>8 DEF IInv
-----------------------------------------------------------------------------
(* The invariant, and what follows *)

LEMMA InitIInv == Init => IInv
<1> SUFFICES ASSUME Init PROVE IInv
  OBVIOUS
<1>1. /\ open = 1 /\ done = 0 /\ phase = "load"
      /\ resource = [b \in Buffers |-> b] /\ upload_resources = {}
      /\ residencyPool = [sync |-> 0, residency |-> {}, uploads |-> {}]
      /\ reclaimPool = <<>> /\ lastUse = [r \in Resources |-> 0]
  BY DEF Init, Queue!Init, NoResources, NoSync
<1>2. residencyPool \in Entry /\ Kept(residencyPool) = {}
  BY <1>1, BoundsAssumption DEF Entry, Kept
<1>3. reclaimPool \in Seq(Entry) /\ DOMAIN reclaimPool = {}
  BY <1>1
<1>4. TypeOK
  BY <1>1, <1>2, <1>3, ResourcesAssumption, BoundsAssumption DEF TypeOK, Phases
<1>5. BoundOnce
  BY <1>1, <1>2 DEF BoundOnce
<1>6. KeptOnce /\ SyncOrder
  BY <1>3 DEF KeptOnce, SyncOrder
<1>7. Covered
  BY <1>1, <1>3 DEF Covered
<1>8. UseExact /\ PooledIdle /\ UsedIsReferenced
  BY <1>1 DEF UseExact, PooledIdle, UsedIsReferenced
<1> QED
  BY <1>4, <1>5, <1>6, <1>7, <1>8 DEF IInv

LEMMA InvStep == IInv /\ [Next]_vars => IInv'
<1> SUFFICES ASSUME IInv, [Next]_vars PROVE IInv'
  OBVIOUS
<1>1. CASE BuildGeometry \/ BuildScene
  BY <1>1, BuildGeometryStep, BuildSceneStep
<1>2. CASE SyncCPUGPU \/ EndFrame
  BY <1>2, SyncCPUGPUStep, EndFrameStep
<1>3. CASE Present \/ Finish
  BY <1>3, PresentStep, FinishStep
<1>4. CASE \E b \in Buffers : Map(b) \/ Draw(b)
  BY <1>4, MapStep, DrawStep
<1>5. CASE UNCHANGED vars
  <2> USE <1>5 DEF vars, IInv
  <2>1. TypeOK' /\ BoundOnce' /\ KeptOnce'
    BY DEF TypeOK, BoundOnce, KeptOnce
  <2>2. Covered' /\ SyncOrder' /\ UseExact'
    BY DEF Covered, SyncOrder, UseExact
  <2>3. PooledIdle' /\ UsedIsReferenced'
    BY DEF PooledIdle, UsedIsReferenced, Referenced
  <2> QED
    BY <2>1, <2>2, <2>3
<1> QED
  BY <1>1, <1>2, <1>3, <1>4, <1>5 DEF Next

LEMMA Invariance == Spec => []IInv
BY InitIInv, InvStep, PTL DEF Spec

(* Every variable keeps its type, and the entry being filled names no list   *)
(* that does not exist yet.                                                 *)
THEOREM TypeCorrect == Spec => []TypeOK
BY Invariance, PTL DEF IInv

(* InnerResourceAlloc hands out no memory that commands recorded or in       *)
(* flight read, for any number of buffers, resources and frames.             *)
THEOREM UploadMemoryIdle == Spec => []PooledIdle
BY Invariance, PTL DEF IInv

(* Nothing the GPU may still use has been released.                          *)
THEOREM NothingReleasedInUse == Spec => []UsedIsReferenced
BY Invariance, PTL DEF IInv

(* No two buffers ever write the same upload memory.                         *)
THEOREM OnePlaceEach == Spec => []UploadsInOnePlace
<1>1. IInv => UploadsInOnePlace
  <2> SUFFICES ASSUME IInv PROVE UploadsInOnePlace
    OBVIOUS
  <2> DEFINE bound == {resource[b] : b \in Buffers}
             waiting == [i \in 0 .. Len(reclaimPool) |->
                           IF i = 0 THEN residencyPool.uploads
                           ELSE reclaimPool[i].uploads]
  <2>1. \A b, c \in Buffers : resource[b] = resource[c] => b = c
    BY DEF IInv, BoundOnce
  <2>2. bound \cap upload_resources = {}
    BY DEF IInv, BoundOnce
  <2>3. ASSUME NEW i \in DOMAIN waiting
        PROVE  waiting[i] \cap (bound \cup upload_resources) = {}
    BY <2>3, PoolFacts DEF IInv, BoundOnce, KeptOnce, Kept
  <2>4. ASSUME NEW i \in DOMAIN waiting, NEW j \in DOMAIN waiting, i # j
        PROVE  waiting[i] \cap waiting[j] = {}
    BY <2>4, PoolFacts DEF IInv, KeptOnce, Kept
  <2> QED
    BY <2>1, <2>2, <2>3, <2>4 DEF UploadsInOnePlace
<1> QED
  BY <1>1, Invariance, PTL

(* At the end of a frame everything comes back whose sync point is complete.  *)
THEOREM NothingHeldBack == Spec => ReadyIsGivenBack
<1>1. IInv /\ [Next]_vars =>
        [EndFrame => \A i \in DOMAIN reclaimPool' :
                       reclaimPool'[i].sync > done]_vars
  BY EndFrameStep
<1> QED
  BY <1>1, Invariance, PTL DEF Spec, ReadyIsGivenBack
-----------------------------------------------------------------------------
(* The built-in shaders: what FindOrAddShader returned is found               *)

\* Steps at which a task is not on a thread; at which its permutation is not
\* added yet; and at which it has one
Away == {"created", "reading", "writing", "ended", "failed"}
ToAdd == {"load", "reading", "insert", "emplace", "find", "add"}
Compiling == ToAdd \cup {"write", "writing"}

\* A task that has not left runs on one thread
RunsOnce ==
  \A t \in Types :
    IF step[t] \in Away THEN \A th \in Shaders!Threads : onThread[th] # t
    ELSE \E th \in Shaders!Threads :
           onThread[th] = t /\ \A o \in Shaders!Threads \ {th} : onThread[o] # t

\* What the type of a variable says
ShaderTypes ==
  /\ step \in [Types -> Shaders!Steps] /\ permutation \in [Types -> Nat]
  /\ onThread \in [Shaders!Threads -> Types \cup {NoType}]
  /\ loaded \subseteq Sources
  /\ DOMAIN sectionMap \subseteq Sources
  /\ \A s \in DOMAIN sectionMap : sectionMap[s] \in Types
  /\ section \in [Types -> Types \cup {NoType}]
  /\ content \in [Types -> Seq(Shaders!Shaders)]
  /\ returned \subseteq [to : Shaders!Shaders, shader : Shaders!Shaders]

\* The permutation of a task is one to compile until it has come to the end
Permutations ==
  \A t \in Types :
    /\ step[t] \in Compiling => permutation[t] \in Compiled[t]
    /\ step[t] \in {"written", "ended"} => permutation[t] = Count[t]

\* A task that looks into a section looks into that of its source
SectionFound ==
  \A t \in Types : step[t] \in {"find", "add"} =>
    Source[t] \in DOMAIN sectionMap /\ section[t] = sectionMap[Source[t]]

\* Shaders of a type are added in the order of their permutations, by its task
AddedInOrder ==
  \A u \in Types : \A i \in DOMAIN content[u] :
    LET s == content[u][i] IN
      /\ s.permutation <= permutation[s.type] /\ step[s.type] # "created"
      /\ step[s.type] \in ToAdd => s.permutation < permutation[s.type]

\* A shader is in the section of its source
InMap(s) ==
  /\ Source[s.type] \in DOMAIN sectionMap
  /\ \E i \in DOMAIN content[sectionMap[Source[s.type]]] :
       content[sectionMap[Source[s.type]]][i] = s

\* What was returned is there, and what a task has passed
ReturnedPresent == \A r \in returned : r.shader = r.to /\ InMap(r.to)
PassedPresent ==
  \A t \in Types : \A p \in Compiled[t] :
    \/ step[t] \in {"created", "failed"}
    \/ p > permutation[t]
    \/ p = permutation[t] /\ step[t] \in ToAdd
    \/ InMap(Shaders!Shader(t, p))

\* A section that is not in the map is empty, and none holds a shader twice
SectionsClean ==
  \A t \in Types :
    /\ (\A s \in DOMAIN sectionMap : sectionMap[s] # t) => content[t] = <<>>
    /\ \A i, j \in DOMAIN content[t] : content[t][i] = content[t][j] => i = j

\* The inductive invariant of the shader map.
ShaderInv ==
  /\ ShaderTypes /\ RunsOnce /\ Permutations /\ SectionFound /\ AddedInOrder
  /\ ReturnedPresent /\ PassedPresent /\ SectionsClean

LEMMA ShadersFacts ==
  /\ \A t \in Types : Count[t] \in Nat /\ Source[t] \in Sources
  /\ \A t \in Types : \A p \in Compiled[t] : p \in Nat /\ p < Count[t]
  /\ NoType \notin Types
BY PartsAssumption DEF Shaders!ShadersAllowed

LEMMA PresentKept ==
  ASSUME ShaderTypes,
         DOMAIN sectionMap \subseteq DOMAIN sectionMap',
         \A s \in DOMAIN sectionMap : sectionMap'[s] = sectionMap[s],
         \A u \in Types : \A i \in DOMAIN content[u] :
           i \in DOMAIN content'[u] /\ content'[u][i] = content[u][i],
         NEW x, InMap(x)
  PROVE  InMap(x)'
<1>1. PICK s, u :
        s = Source[x.type] /\ s \in DOMAIN sectionMap /\ u = sectionMap[s]
  BY DEF InMap
<1>2. u \in Types /\ s \in DOMAIN sectionMap' /\ sectionMap'[s] = u
  BY <1>1 DEF ShaderTypes
<1>3. PICK i \in DOMAIN content[u] : content[u][i] = x
  BY <1>1 DEF InMap
<1>4. i \in DOMAIN content'[u] /\ content'[u][i] = x
  BY <1>2, <1>3
<1> QED BY <1>1, <1>2, <1>4 DEF InMap

\* A task keeps its thread, leaves it, or gets one.
LEMMA StaysOnThread ==
  ASSUME ShaderInv, NEW t \in Types, NEW to,
         step' = [step EXCEPT ![t] = to], onThread' = onThread,
         step[t] \in Away <=> to \in Away
  PROVE  RunsOnce'
<1>1. step \in [Types -> Shaders!Steps] /\ RunsOnce
  BY DEF ShaderInv, ShaderTypes
<1>2. \A u \in Types : step'[u] \in Away <=> step[u] \in Away
  BY <1>1
<1> QED BY <1>1, <1>2 DEF RunsOnce, Shaders!Threads

LEMMA LeavesThread ==
  ASSUME ShaderInv, NEW t \in Types, NEW to \in Away, NEW th \in Shaders!Threads,
         step' = [step EXCEPT ![t] = to], onThread[th] = t, step[t] \notin Away,
         onThread' = [onThread EXCEPT ![th] = NoType]
  PROVE  RunsOnce'
<1>1. /\ step \in [Types -> Shaders!Steps] /\ RunsOnce
      /\ onThread \in [Shaders!Threads -> Types \cup {NoType}]
  BY DEF ShaderInv, ShaderTypes
<1>2. \A o \in Shaders!Threads \ {th} : onThread[o] # t
  BY <1>1 DEF RunsOnce
<1>3. /\ \A o \in Shaders!Threads \ {th} : onThread'[o] = onThread[o]
      /\ onThread'[th] = NoType
  BY <1>1
<1>4. \A o \in Shaders!Threads : onThread'[o] # t
  BY <1>2, <1>3, ShadersFacts
<1>5. ASSUME NEW u \in Types, u # t
      PROVE  /\ step'[u] = step[u]
             /\ \A o \in Shaders!Threads :
                  onThread'[o] = u <=> onThread[o] = u
  BY <1>1, <1>3, <1>5, ShadersFacts
<1>6. step'[t] = to
  BY <1>1
<1> QED BY <1>1, <1>4, <1>5, <1>6 DEF RunsOnce, Shaders!Threads

LEMMA GetsThread ==
  ASSUME ShaderInv, NEW t \in Types, NEW to, to \notin Away,
         NEW th \in Shaders!Threads,
         step' = [step EXCEPT ![t] = to], onThread[th] = NoType,
         step[t] \in Away, onThread' = [onThread EXCEPT ![th] = t]
  PROVE  RunsOnce'
<1>1. /\ step \in [Types -> Shaders!Steps] /\ RunsOnce
      /\ onThread \in [Shaders!Threads -> Types \cup {NoType}]
  BY DEF ShaderInv, ShaderTypes
<1>2. \A o \in Shaders!Threads : onThread[o] # t
  BY <1>1 DEF RunsOnce
<1>3. /\ \A o \in Shaders!Threads \ {th} : onThread'[o] = onThread[o]
      /\ onThread'[th] = t
  BY <1>1
<1>4. onThread'[th] = t /\ \A o \in Shaders!Threads \ {th} : onThread'[o] # t
  BY <1>2, <1>3
<1>5. ASSUME NEW u \in Types, u # t
      PROVE  /\ step'[u] = step[u]
             /\ \A o \in Shaders!Threads :
                  onThread'[o] = u <=> onThread[o] = u
  BY <1>1, <1>3, <1>5, ShadersFacts
<1>6. step'[t] = to
  BY <1>1
<1> QED BY <1>1, <1>4, <1>5, <1>6 DEF RunsOnce, Shaders!Threads

\* A task goes on with the same permutation, or fails.
LEMMA GoesOn ==
  ASSUME ShaderInv, NEW t \in Types, NEW to \in Shaders!Steps,
         step' = [step EXCEPT ![t] = to],
         UNCHANGED <<permutation, sectionMap, section, content, returned>>,
         onThread' \in [Shaders!Threads -> Types \cup {NoType}],
         loaded' \subseteq Sources, RunsOnce',
         to \notin {"created", "find", "add"},
         \/ step[t] \in ToAdd /\ to \in ToAdd
         \/ step[t] \in {"write", "writing"} /\ to \in {"write", "writing"}
         \/ step[t] = "written" /\ to = "ended"
         \/ to = "failed"
  PROVE  ShaderInv'
<1>1. step \in [Types -> Shaders!Steps]
  BY DEF ShaderInv, ShaderTypes
<1>2. step'[t] = to /\ \A u \in Types \ {t} : step'[u] = step[u]
  BY <1>1
<1>3. ShaderTypes'
  BY <1>1 DEF ShaderInv, ShaderTypes, Shaders!Steps, Shaders!Threads,
     Shaders!Shaders
<1>4. Permutations'
  BY <1>2 DEF ShaderInv, Permutations, Compiling, ToAdd
<1>5. SectionFound'
  BY <1>2 DEF ShaderInv, SectionFound
<1>6. AddedInOrder'
  <2>1. ASSUME NEW u \in Types, NEW i \in DOMAIN content[u]
        PROVE  LET s == content[u][i] IN
                 /\ s.permutation <= permutation[s.type]
                 /\ step'[s.type] # "created"
                 /\ step'[s.type] \in ToAdd =>
                      s.permutation < permutation[s.type]
    <3>1. PICK s \in Shaders!Shaders : s = content[u][i]
      BY ElementOfSeq DEF ShaderInv, ShaderTypes
    <3>2. s.type \in Types
      BY DEF Shaders!Shaders
    <3>3. /\ s.permutation <= permutation[s.type] /\ step[s.type] # "created"
          /\ step[s.type] \in ToAdd => s.permutation < permutation[s.type]
      BY <3>1 DEF ShaderInv, AddedInOrder
    <3>4. step'[s.type] # "created"
          /\ (step'[s.type] \in ToAdd => step[s.type] \in ToAdd)
      BY <1>2, <3>2, <3>3 DEF ToAdd
    <3> QED BY <3>1, <3>3, <3>4
  <2> QED BY <2>1 DEF AddedInOrder
<1>7. ReturnedPresent' /\ SectionsClean'
  BY DEF ShaderInv, ReturnedPresent, SectionsClean, InMap
<1>8. PassedPresent'
  <2>1. ASSUME NEW u \in Types, NEW p \in Compiled[u]
        PROVE  \/ step'[u] \in {"created", "failed"}
               \/ p > permutation[u]
               \/ p = permutation[u] /\ step'[u] \in ToAdd
               \/ InMap(Shaders!Shader(u, p))
    <3>1. \/ step[u] \in {"created", "failed"}
          \/ p > permutation[u]
          \/ p = permutation[u] /\ step[u] \in ToAdd
          \/ InMap(Shaders!Shader(u, p))
      BY DEF ShaderInv, PassedPresent
    <3> QED BY <1>2, <3>1 DEF ToAdd
  <2>2. \A x : InMap(x)' <=> InMap(x)
    BY DEF InMap
  <2> QED BY <2>1, <2>2 DEF PassedPresent, Shaders!Shader
<1> QED BY <1>3, <1>4, <1>5, <1>6, <1>7, <1>8 DEF ShaderInv

LEMMA NatMinimum ==
  ASSUME NEW T \in SUBSET Nat, T # {}
  PROVE  \E x \in T : \A y \in T : x <= y
<1>1. IsWellFoundedOn(OpToRel(<, Nat), Nat)
  BY NatLessThanWellFounded
<1>2. PICK x \in T : \A y \in T : ~ (<<y, x>> \in OpToRel(<, Nat))
  BY <1>1, WFMin
<1>3. x \in T /\ \A y \in T : ~ (y < x)
  BY <1>2 DEF OpToRel
<1> QED BY <1>3

\* NextFrom is the least permutation to compile from p on, or the number of all
LEMMA NextFromFacts ==
  ASSUME NEW t \in Types, NEW p \in Nat
  PROVE  /\ Shaders!NextFrom(t, p) \in Nat
         /\ \/ Shaders!NextFrom(t, p) = Count[t]
            \/ Shaders!NextFrom(t, p) \in Compiled[t] /\ p <= Shaders!NextFrom(t, p)
         /\ \A q \in Compiled[t] : p <= q => Shaders!NextFrom(t, p) <= q
<1> DEFINE left == {q \in Compiled[t] : q >= p}
<1>1. Count[t] \in Nat /\ \A q \in Compiled[t] : q \in Nat /\ q < Count[t]
  BY ShadersFacts
<1>2. CASE left = {}
  <2>1. Shaders!NextFrom(t, p) = Count[t]
    BY <1>2 DEF Shaders!NextFrom
  <2> QED BY <1>1, <1>2, <2>1
<1>3. CASE left # {}
  <2>1. PICK q \in left : \A r \in left : q <= r
    BY <1>1, <1>3, NatMinimum
  <2>2. Shaders!NextFrom(t, p) = CHOOSE x \in left : \A r \in left : x <= r
    BY <1>3 DEF Shaders!NextFrom
  <2>3. /\ Shaders!NextFrom(t, p) \in left
        /\ \A r \in left : Shaders!NextFrom(t, p) <= r
    BY <2>1, <2>2
  <2> QED BY <1>1, <2>3
<1> QED BY <1>2, <1>3

\* A task goes on to its next permutation, and has come to all before it.
LEMMA Advances ==
  ASSUME ShaderInv, NEW t \in Types, NEW p \in Nat, Shaders!Advance(t, p),
         UNCHANGED <<sectionMap, section, content, returned>>,
         onThread' \in [Shaders!Threads -> Types \cup {NoType}],
         loaded' \subseteq Sources, RunsOnce',
         \/ step[t] = "created" /\ p = 0
         \/ step[t] \in {"write", "writing"} /\ p = permutation[t] + 1
  PROVE  ShaderInv'
<1> DEFINE n == Shaders!NextFrom(t, p)
           to == IF n < Count[t] THEN "load" ELSE "written"
<1>1. step \in [Types -> Shaders!Steps] /\ permutation \in [Types -> Nat]
  BY DEF ShaderInv, ShaderTypes
<1>2. /\ step' = [step EXCEPT ![t] = to]
      /\ permutation' = [permutation EXCEPT ![t] = n]
  BY DEF Shaders!Advance, Shaders!Goes
<1>3. /\ n \in Nat /\ (n = Count[t] \/ (n \in Compiled[t] /\ p <= n))
      /\ \A q \in Compiled[t] : p <= q => n <= q
  BY NextFromFacts
<1>4. Count[t] \in Nat /\ \A q \in Compiled[t] : q \in Nat /\ q < Count[t]
  BY ShadersFacts
<1> HIDE DEF n
<1>5. /\ step'[t] = to /\ permutation'[t] = n
      /\ \A u \in Types \ {t} :
           step'[u] = step[u] /\ permutation'[u] = permutation[u]
  BY <1>1, <1>2
<1>6. \/ to = "load" /\ n \in Compiled[t] /\ n < Count[t]
      \/ to = "written" /\ n = Count[t]
  BY <1>3, <1>4
<1> HIDE DEF to
<1>7. ShaderTypes'
  BY <1>1, <1>2, <1>3, <1>6 DEF ShaderInv, ShaderTypes, Shaders!Steps,
     Shaders!Threads, Shaders!Shaders
<1>8. Permutations'
  BY <1>5, <1>6 DEF ShaderInv, Permutations, Compiling, ToAdd
<1>9. SectionFound'
  BY <1>5, <1>6 DEF ShaderInv, SectionFound
<1>10. AddedInOrder'
  <2>1. ASSUME NEW u \in Types, NEW i \in DOMAIN content[u]
        PROVE  LET s == content[u][i] IN
                 /\ s.permutation <= permutation'[s.type]
                 /\ step'[s.type] # "created"
                 /\ step'[s.type] \in ToAdd =>
                      s.permutation < permutation'[s.type]
    <3>1. PICK s \in Shaders!Shaders : s = content[u][i]
      BY ElementOfSeq DEF ShaderInv, ShaderTypes
    <3>2. s.type \in Types /\ s.permutation \in Compiled[s.type]
      BY DEF Shaders!Shaders
    <3>3. /\ s.permutation <= permutation[s.type] /\ step[s.type] # "created"
          /\ step[s.type] \in ToAdd => s.permutation < permutation[s.type]
      BY <3>1 DEF ShaderInv, AddedInOrder
    <3>4. CASE s.type # t
      BY <1>5, <3>1, <3>2, <3>3, <3>4
    <3>5. CASE s.type = t
      <4>1. p = permutation[t] + 1 /\ s.permutation <= permutation[t]
        BY <3>3, <3>5
      <4>2. s.permutation \in Nat /\ s.permutation < Count[t]
            /\ permutation[t] \in Nat
        BY <1>1, <1>4, <3>2, <3>5
      <4>3. s.permutation < n
        BY <1>3, <1>4, <4>1, <4>2
      <4>4. /\ s.permutation <= permutation'[s.type]
            /\ s.permutation < permutation'[s.type]
        BY <1>3, <1>5, <3>5, <4>2, <4>3
      <4>5. step'[s.type] # "created"
        BY <1>5, <1>6, <3>5
      <4> QED BY <3>1, <4>4, <4>5
    <3> QED BY <3>4, <3>5
  <2> QED BY <2>1 DEF AddedInOrder
<1>11. ReturnedPresent' /\ SectionsClean'
  BY DEF ShaderInv, ReturnedPresent, SectionsClean, InMap
<1>12. PassedPresent'
  <2>1. ASSUME NEW u \in Types, NEW q \in Compiled[u]
        PROVE  \/ step'[u] \in {"created", "failed"}
               \/ q > permutation'[u]
               \/ q = permutation'[u] /\ step'[u] \in ToAdd
               \/ InMap(Shaders!Shader(u, q))
    <3>1. \/ step[u] \in {"created", "failed"}
          \/ q > permutation[u]
          \/ q = permutation[u] /\ step[u] \in ToAdd
          \/ InMap(Shaders!Shader(u, q))
      BY DEF ShaderInv, PassedPresent
    <3>2. CASE u # t
      BY <1>5, <3>1, <3>2
    <3>3. CASE u = t /\ ~ InMap(Shaders!Shader(u, q))
      <4>1. \/ step[t] = "created" /\ p = 0
            \/ q > permutation[t] /\ p = permutation[t] + 1
        BY <3>1, <3>3 DEF ToAdd
      <4>2. q \in Nat /\ permutation[t] \in Nat /\ q < Count[t]
        BY <1>1, <1>4, <3>3
      <4>3. p <= q
        BY <4>1, <4>2
      <4>4. n <= q
        BY <1>3, <3>3, <4>3
      <4>5. to = "load"
        BY <1>3, <1>4, <1>6, <4>2, <4>4
      <4> QED BY <1>3, <1>5, <3>3, <4>2, <4>4, <4>5 DEF ToAdd
    <3> QED BY <3>2, <3>3
  <2>2. \A x : InMap(x)' <=> InMap(x)
    BY DEF InMap
  <2> QED BY <2>1, <2>2 DEF PassedPresent, Shaders!Shader
<1> QED BY <1>7, <1>8, <1>9, <1>10, <1>11, <1>12 DEF ShaderInv

\* A task that goes on to look into the section of its source
LEMMA GoesToFind ==
  ASSUME ShaderInv, NEW t \in Types, step[t] \in {"insert", "emplace"},
         step' = [step EXCEPT ![t] = "find"],
         UNCHANGED <<permutation, onThread, loaded, content, returned>>,
         DOMAIN sectionMap' = DOMAIN sectionMap \cup {Source[t]},
         \A s \in DOMAIN sectionMap : sectionMap'[s] = sectionMap[s],
         sectionMap'[Source[t]] \in Types,
         section' = [section EXCEPT ![t] = sectionMap'[Source[t]]]
  PROVE  ShaderInv'
<1>1. /\ step \in [Types -> Shaders!Steps]
      /\ section \in [Types -> Types \cup {NoType}] /\ Source[t] \in Sources
  BY ShadersFacts DEF ShaderInv, ShaderTypes
<1>2. /\ step'[t] = "find" /\ \A u \in Types \ {t} : step'[u] = step[u]
      /\ section'[t] = sectionMap'[Source[t]]
      /\ \A u \in Types \ {t} : section'[u] = section[u]
  BY <1>1
<1>3. ShaderTypes'
  BY <1>1 DEF ShaderInv, ShaderTypes, Shaders!Steps, Shaders!Threads,
     Shaders!Shaders
<1>4. RunsOnce'
  BY StaysOnThread DEF Away
<1>5. Permutations'
  BY <1>2 DEF ShaderInv, Permutations, Compiling, ToAdd
<1>6. SectionFound'
  BY <1>2 DEF ShaderInv, SectionFound
<1>7. AddedInOrder'
  <2>1. ASSUME NEW u \in Types, NEW i \in DOMAIN content[u]
        PROVE  LET s == content[u][i] IN
                 /\ s.permutation <= permutation[s.type]
                 /\ step'[s.type] # "created"
                 /\ step'[s.type] \in ToAdd =>
                      s.permutation < permutation[s.type]
    <3>1. PICK s \in Shaders!Shaders : s = content[u][i]
      BY ElementOfSeq DEF ShaderInv, ShaderTypes
    <3>2. s.type \in Types
      BY DEF Shaders!Shaders
    <3>3. /\ s.permutation <= permutation[s.type] /\ step[s.type] # "created"
          /\ step[s.type] \in ToAdd => s.permutation < permutation[s.type]
      BY <3>1 DEF ShaderInv, AddedInOrder
    <3>4. step'[s.type] # "created"
          /\ (step'[s.type] \in ToAdd => step[s.type] \in ToAdd)
      BY <1>2, <3>2, <3>3 DEF ToAdd
    <3> QED BY <3>1, <3>3, <3>4
  <2> QED BY <2>1 DEF AddedInOrder
<1>8. ShaderTypes /\ \A u \in Types : \A i \in DOMAIN content[u] :
        i \in DOMAIN content'[u] /\ content'[u][i] = content[u][i]
  BY DEF ShaderInv
<1>9. ASSUME NEW x, InMap(x)
      PROVE  InMap(x)'
  BY <1>8, <1>9, PresentKept
<1>10. ReturnedPresent'
  BY <1>9 DEF ShaderInv, ReturnedPresent
<1>11. PassedPresent'
  <2>1. ASSUME NEW u \in Types, NEW p \in Compiled[u]
        PROVE  \/ step'[u] \in {"created", "failed"}
               \/ p > permutation[u]
               \/ p = permutation[u] /\ step'[u] \in ToAdd
               \/ InMap(Shaders!Shader(u, p))
    <3>1. \/ step[u] \in {"created", "failed"}
          \/ p > permutation[u]
          \/ p = permutation[u] /\ step[u] \in ToAdd
          \/ InMap(Shaders!Shader(u, p))
      BY DEF ShaderInv, PassedPresent
    <3> QED BY <1>2, <3>1 DEF ToAdd
  <2> QED BY <1>9, <2>1 DEF PassedPresent, Shaders!Shader
<1>12. SectionsClean'
  BY DEF ShaderInv, SectionsClean
<1> QED
  BY <1>3, <1>4, <1>5, <1>6, <1>7, <1>10, <1>11, <1>12 DEF ShaderInv

\* Nothing of this type and permutation is in the map before it is added.
LEMMA NotYetAdded ==
  ASSUME ShaderInv, NEW t \in Types, step[t] \in ToAdd,
         NEW u \in Types, NEW i \in DOMAIN content[u],
         content[u][i].type = t
  PROVE  content[u][i].permutation # permutation[t]
<1>1. content[u][i].permutation < permutation[t]
  BY DEF ShaderInv, AddedInOrder
<1>2. permutation[t] \in Nat
  BY DEF ShaderInv, ShaderTypes
<1> QED BY <1>1, <1>2

LEMMA AddKeeps ==
  ASSUME ShaderInv, NEW th \in Shaders!Threads, NEW t \in Types,
         Shaders!AddShader(th, t)
  PROVE  ShaderInv'
<1>0. PICK m, k : m = Shaders!Shader(t, permutation[t]) /\ k = section[t]
  OBVIOUS
<1>1. /\ step[t] = "add" /\ step' = [step EXCEPT ![t] = "write"]
      /\ content' = [content EXCEPT ![k] = Append(@, m)]
      /\ returned' = returned \cup {[to |-> m, shader |-> m]}
      /\ UNCHANGED <<permutation, onThread, loaded, sectionMap, section>>
  BY <1>0 DEF Shaders!AddShader, Shaders!Runs, Shaders!Goes, Shaders!Returns
<1>2. /\ step \in [Types -> Shaders!Steps] /\ permutation \in [Types -> Nat]
      /\ content \in [Types -> Seq(Shaders!Shaders)]
      /\ returned \subseteq [to : Shaders!Shaders, shader : Shaders!Shaders]
  BY DEF ShaderInv, ShaderTypes
<1>3. /\ Source[t] \in DOMAIN sectionMap /\ k = sectionMap[Source[t]]
      /\ k \in Types /\ content[k] \in Seq(Shaders!Shaders)
  BY <1>0, <1>1, <1>2 DEF ShaderInv, SectionFound, ShaderTypes
<1>4. permutation[t] \in Compiled[t] /\ permutation[t] \in Nat
  BY <1>1, <1>2 DEF ShaderInv, Permutations, Compiling, ToAdd
<1>5. /\ m \in Shaders!Shaders /\ m.type = t /\ m.permutation = permutation[t]
  BY <1>0, <1>4 DEF Shaders!Shaders, Shaders!Shader
<1>6. /\ step'[t] = "write" /\ \A u \in Types \ {t} : step'[u] = step[u]
      /\ content'[k] = Append(content[k], m)
      /\ \A u \in Types \ {k} : content'[u] = content[u]
  BY <1>1, <1>2, <1>3
<1> DEFINE len == Len(content[k])
<1>7. /\ len \in Nat /\ DOMAIN content[k] = 1 .. len
      /\ content'[k] \in Seq(Shaders!Shaders)
      /\ DOMAIN content'[k] = 1 .. len + 1
      /\ \A i \in 1 .. len : content'[k][i] = content[k][i]
      /\ content'[k][len + 1] = m
  BY <1>3, <1>5, <1>6, AppendProperties, LenProperties
<1> HIDE DEF len
<1>8. ShaderTypes'
  <2>1. content' \in [Types -> Seq(Shaders!Shaders)]
    BY <1>1, <1>2, <1>3, <1>6, <1>7
  <2>2. returned' \subseteq [to : Shaders!Shaders, shader : Shaders!Shaders]
    BY <1>1, <1>2, <1>5
  <2>3. step' \in [Types -> Shaders!Steps]
    BY <1>1, <1>2 DEF Shaders!Steps
  <2>4. Shaders!Shaders' = Shaders!Shaders /\ Shaders!Steps' = Shaders!Steps
        /\ Shaders!Threads' = Shaders!Threads
    BY DEF Shaders!Shaders, Shaders!Steps, Shaders!Threads
  <2> QED BY <1>1, <2>1, <2>2, <2>3, <2>4 DEF ShaderInv, ShaderTypes
<1>9. RunsOnce'
  BY <1>1, StaysOnThread DEF Away
<1>10. Permutations'
  BY <1>1, <1>6 DEF ShaderInv, Permutations, Compiling, ToAdd
<1>11. SectionFound'
  BY <1>1, <1>6 DEF ShaderInv, SectionFound
<1>12. ASSUME NEW u \in Types, NEW i \in DOMAIN content'[u]
       PROVE  \/ u = k /\ i = len + 1 /\ content'[u][i] = m
              \/ i \in DOMAIN content[u] /\ content'[u][i] = content[u][i]
  <2>1. CASE u = k
    BY <1>7, <2>1
  <2>2. CASE u # k
    BY <1>6, <2>2
  <2> QED BY <2>1, <2>2
<1>13. AddedInOrder'
  <2>1. ASSUME NEW u \in Types, NEW i \in DOMAIN content'[u]
        PROVE  LET s == content'[u][i] IN
                 /\ s.permutation <= permutation[s.type]
                 /\ step'[s.type] # "created"
                 /\ step'[s.type] \in ToAdd =>
                      s.permutation < permutation[s.type]
    <3>1. CASE content'[u][i] = m
      BY <1>4, <1>5, <1>6, <3>1 DEF ToAdd
    <3>2. CASE i \in DOMAIN content[u] /\ content'[u][i] = content[u][i]
      <4>1. PICK s \in Shaders!Shaders : s = content[u][i]
        BY <1>2, <3>2, ElementOfSeq
      <4>2. s.type \in Types
        BY DEF Shaders!Shaders
      <4>3. /\ s.permutation <= permutation[s.type] /\ step[s.type] # "created"
            /\ step[s.type] \in ToAdd => s.permutation < permutation[s.type]
        BY <3>2, <4>1 DEF ShaderInv, AddedInOrder
      <4>4. step'[s.type] # "created"
            /\ (step'[s.type] \in ToAdd => step[s.type] \in ToAdd)
        BY <1>6, <4>2, <4>3 DEF ToAdd
      <4> QED BY <3>2, <4>1, <4>3, <4>4
    <3> QED BY <1>12, <3>1, <3>2
  <2> QED BY <1>1, <2>1 DEF AddedInOrder
<1>14. ShaderTypes /\ \A u \in Types : \A i \in DOMAIN content[u] :
         i \in DOMAIN content'[u] /\ content'[u][i] = content[u][i]
  <2>1. ASSUME NEW u \in Types, NEW i \in DOMAIN content[u]
        PROVE  i \in DOMAIN content'[u] /\ content'[u][i] = content[u][i]
    <3>1. CASE u = k
      BY <1>7, <3>1
    <3>2. CASE u # k
      BY <1>6, <3>2
    <3> QED BY <3>1, <3>2
  <2> QED BY <2>1 DEF ShaderInv
<1>15. ASSUME NEW x, InMap(x)
       PROVE  InMap(x)'
  BY <1>1, <1>14, <1>15, PresentKept
<1>16. InMap(m)'
  <2>1. len + 1 \in DOMAIN content'[k]
    BY <1>7
  <2> QED BY <1>1, <1>3, <1>5, <1>7, <2>1 DEF InMap
<1>17. ReturnedPresent'
  <2>1. ASSUME NEW r \in returned'
        PROVE  r.shader = r.to /\ InMap(r.to)'
    <3>1. CASE r \in returned
      BY <1>15, <3>1 DEF ShaderInv, ReturnedPresent
    <3>2. CASE r = [to |-> m, shader |-> m]
      BY <1>16, <3>2
    <3> QED BY <1>1, <3>1, <3>2
  <2> QED BY <2>1 DEF ReturnedPresent
<1>18. PassedPresent'
  <2>1. ASSUME NEW u \in Types, NEW p \in Compiled[u]
        PROVE  \/ step'[u] \in {"created", "failed"}
               \/ p > permutation'[u]
               \/ p = permutation'[u] /\ step'[u] \in ToAdd
               \/ InMap(Shaders!Shader(u, p))'
    <3>1. \/ step[u] \in {"created", "failed"}
          \/ p > permutation[u]
          \/ p = permutation[u] /\ step[u] \in ToAdd
          \/ InMap(Shaders!Shader(u, p))
      BY DEF ShaderInv, PassedPresent
    <3>2. CASE u = t /\ p = permutation[t]
      BY <1>0, <1>16, <3>2 DEF Shaders!Shader
    <3>3. CASE ~ (u = t /\ p = permutation[t])
      <4>1. CASE InMap(Shaders!Shader(u, p))
        BY <1>15, <4>1 DEF Shaders!Shader
      <4>2. CASE ~ InMap(Shaders!Shader(u, p))
        BY <1>1, <1>6, <3>1, <3>3, <4>2
      <4> QED BY <4>1, <4>2
    <3> QED BY <3>2, <3>3
  <2> QED BY <2>1 DEF PassedPresent, Shaders!Shader
<1>19. SectionsClean'
  <2>1. ASSUME NEW u \in Types, \A s \in DOMAIN sectionMap : sectionMap[s] # u
        PROVE  content'[u] = <<>>
    BY <1>3, <1>6, <2>1 DEF ShaderInv, SectionsClean
  <2>2. ASSUME NEW i \in DOMAIN content[k], content[k][i] = m
        PROVE  FALSE
    BY <1>1, <1>3, <1>5, <2>2, NotYetAdded DEF ToAdd
  <2>3. ASSUME NEW u \in Types, NEW i \in DOMAIN content'[u],
               NEW j \in DOMAIN content'[u], content'[u][i] = content'[u][j]
        PROVE  i = j
    <3>1. /\ \/ u = k /\ i = len + 1 /\ content'[u][i] = m
             \/ i \in DOMAIN content[u] /\ content'[u][i] = content[u][i]
          /\ \/ u = k /\ j = len + 1 /\ content'[u][j] = m
             \/ j \in DOMAIN content[u] /\ content'[u][j] = content[u][j]
      BY <1>12
    <3>2. \A a, b \in DOMAIN content[u] :
            content[u][a] = content[u][b] => a = b
      BY DEF ShaderInv, SectionsClean
    <3> QED BY <2>2, <2>3, <3>1, <3>2
  <2> QED BY <1>1, <2>1, <2>3 DEF SectionsClean
<1> QED BY <1>8, <1>9, <1>10, <1>11, <1>13, <1>17, <1>18, <1>19 DEF ShaderInv

\* A task looks for its shader before it adds it, and never finds one.
LEMMA FindFails ==
  ASSUME ShaderInv, NEW th \in Shaders!Threads, NEW t \in Types,
         Shaders!FindShader(th, t)
  PROVE  /\ step[t] = "find" /\ step' = [step EXCEPT ![t] = "add"]
         /\ UNCHANGED <<permutation, onThread, loaded, sectionMap, section, content,
                        returned>>
<1>1. step[t] = "find"
  BY DEF Shaders!FindShader, Shaders!Runs
<1>2. section[t] \in Types
  BY <1>1 DEF ShaderInv, SectionFound, ShaderTypes
<1>3. Shaders!GetShader(content[section[t]], t, permutation[t]) = {}
  <2>1. ASSUME NEW i \in DOMAIN content[section[t]],
               content[section[t]][i].type = t,
               content[section[t]][i].permutation = permutation[t]
        PROVE  FALSE
    <3>1. step[t] \in ToAdd
      BY <1>1 DEF ToAdd
    <3>2. PICK u \in Types : u = section[t]
      BY <1>2
    <3>3. /\ i \in DOMAIN content[u] /\ content[u][i].type = t
          /\ content[u][i].permutation = permutation[t]
      BY <2>1, <3>2
    <3>4. content[u][i].permutation # permutation[t]
      BY <3>1, <3>3, NotYetAdded
    <3> QED BY <3>3, <3>4
  <2> QED BY <2>1 DEF Shaders!GetShader
<1> QED BY <1>1, <1>3 DEF Shaders!FindShader, Shaders!Goes, Shaders!mapVars

\* A task that has found that there is nothing goes on to add.
LEMMA FindKeeps ==
  ASSUME ShaderInv, NEW th \in Shaders!Threads, NEW t \in Types,
         Shaders!FindShader(th, t)
  PROVE  ShaderInv'
<1>1. /\ step[t] = "find" /\ step' = [step EXCEPT ![t] = "add"]
      /\ UNCHANGED <<permutation, onThread, loaded, sectionMap, section, content,
                     returned>>
  BY FindFails
<1>2. step \in [Types -> Shaders!Steps]
  BY DEF ShaderInv, ShaderTypes
<1>3. step'[t] = "add" /\ \A u \in Types \ {t} : step'[u] = step[u]
  BY <1>1, <1>2
<1>4. ShaderTypes'
  BY <1>1, <1>2 DEF ShaderInv, ShaderTypes, Shaders!Steps, Shaders!Threads,
     Shaders!Shaders
<1>5. RunsOnce'
  BY <1>1, StaysOnThread DEF Away
<1>6. \A u \in Types : /\ step'[u] \in ToAdd <=> step[u] \in ToAdd
                       /\ step'[u] \in Compiling <=> step[u] \in Compiling
                       /\ \A x \in {"created", "failed", "written", "ended"} :
                            step'[u] = x <=> step[u] = x
                       /\ step'[u] \in {"find", "add"} <=>
                            step[u] \in {"find", "add"}
  BY <1>1, <1>3 DEF ToAdd, Compiling
<1> HIDE DEF ToAdd, Compiling
<1>7. Permutations' /\ SectionFound'
  BY <1>1, <1>6 DEF ShaderInv, Permutations, SectionFound
<1>8. AddedInOrder'
  <2>1. ASSUME NEW u \in Types, NEW i \in DOMAIN content[u]
        PROVE  LET s == content[u][i] IN
                 /\ s.permutation <= permutation[s.type]
                 /\ step'[s.type] # "created"
                 /\ step'[s.type] \in ToAdd =>
                      s.permutation < permutation[s.type]
    <3>1. PICK s \in Shaders!Shaders : s = content[u][i]
      BY ElementOfSeq DEF ShaderInv, ShaderTypes
    <3>2. s.type \in Types
      BY DEF Shaders!Shaders
    <3> QED BY <1>6, <3>1, <3>2 DEF ShaderInv, AddedInOrder
  <2> QED BY <1>1, <2>1 DEF AddedInOrder
<1>9. ReturnedPresent' /\ SectionsClean'
  BY <1>1 DEF ShaderInv, ReturnedPresent, SectionsClean, InMap
<1>10. PassedPresent'
  <2>1. \A x : InMap(x)' <=> InMap(x)
    BY <1>1 DEF InMap
  <2> QED BY <1>1, <1>6, <2>1 DEF ShaderInv, PassedPresent, Shaders!Shader
<1> QED BY <1>4, <1>5, <1>7, <1>8, <1>9, <1>10 DEF ShaderInv

LEMMA ShadersInit == Shaders!Init => ShaderInv
<1> SUFFICES ASSUME Shaders!Init PROVE ShaderInv
  OBVIOUS
<1>1. /\ \A t \in Types : step[t] = "created" /\ content[t] = <<>>
      /\ DOMAIN sectionMap = {} /\ returned = {} /\ loaded = {}
      /\ \A th \in Shaders!Threads : onThread[th] = NoType
  BY DEF Shaders!Init
<1>2. ShaderTypes
  BY DEF Shaders!Init, ShaderTypes, Shaders!Steps
<1>3. RunsOnce
  BY <1>1, ShadersFacts DEF RunsOnce, Away
<1>4. Permutations /\ SectionFound /\ PassedPresent
  BY <1>1 DEF Permutations, SectionFound, PassedPresent, Compiling, ToAdd
<1>5. AddedInOrder /\ SectionsClean /\ ReturnedPresent
  BY <1>1 DEF AddedInOrder, SectionsClean, ReturnedPresent
<1> QED BY <1>2, <1>3, <1>4, <1>5 DEF ShaderInv

\* A task starts on the main thread, or goes on from a write.
LEMMA AdvanceKeeps ==
  ASSUME ShaderInv, NEW th \in Shaders!Threads, NEW t \in Types,
         \/ Shaders!Start(t) \/ Shaders!WriteCompletes(t) \/ Shaders!Writes(th, t)
  PROVE  ShaderInv'
<1>1. /\ permutation[t] \in Nat /\ step \in [Types -> Shaders!Steps]
      /\ onThread \in [Shaders!Threads -> Types \cup {NoType}]
      /\ loaded \subseteq Sources
  BY DEF ShaderInv, ShaderTypes
<1>2. \A p : \E to : /\ to \notin Away
                     /\ Shaders!Advance(t, p) => step' = [step EXCEPT ![t] = to]
  <2>1. ASSUME NEW p
        PROVE  \E to : /\ to \notin Away
                       /\ Shaders!Advance(t, p) => step' = [step EXCEPT ![t] = to]
    <3>1. CASE Shaders!NextFrom(t, p) < Count[t]
      BY <3>1 DEF Shaders!Advance, Shaders!Goes, Away
    <3>2. CASE ~ (Shaders!NextFrom(t, p) < Count[t])
      BY <3>2 DEF Shaders!Advance, Shaders!Goes, Away
    <3> QED BY <3>1, <3>2
  <2> QED BY <2>1
<1>3. CASE Shaders!Start(t)
  <2>1. /\ Shaders!Advance(t, 0) /\ step[t] = "created" /\ onThread["main"] = NoType
        /\ onThread' = [onThread EXCEPT !["main"] = t]
        /\ UNCHANGED <<loaded, sectionMap, section, content, returned>>
    BY <1>3 DEF Shaders!Start, Shaders!Idle, Shaders!mapVars
  <2>2. PICK to : to \notin Away /\ step' = [step EXCEPT ![t] = to]
    BY <1>2, <2>1
  <2>3. "main" \in Shaders!Threads /\ step[t] \in Away
    BY <2>1 DEF Shaders!Threads, Away
  <2>4. RunsOnce'
    BY <2>1, <2>2, <2>3, GetsThread
  <2>5. onThread' \in [Shaders!Threads -> Types \cup {NoType}]
    BY <1>1, <2>1
  <2>6. loaded' \subseteq Sources
    BY <1>1, <2>1
  <2> QED BY <2>1, <2>4, <2>5, <2>6, Advances
<1>4. CASE Shaders!WriteCompletes(t)
  <2>1. /\ Shaders!Advance(t, permutation[t] + 1) /\ step[t] = "writing"
        /\ onThread["io"] = NoType
        /\ onThread' = [onThread EXCEPT !["io"] = t]
        /\ UNCHANGED <<loaded, sectionMap, section, content, returned>>
    BY <1>4 DEF Shaders!WriteCompletes, Shaders!Idle, Shaders!mapVars
  <2>2. PICK to : to \notin Away /\ step' = [step EXCEPT ![t] = to]
    BY <1>2, <2>1
  <2>3. "io" \in Shaders!Threads /\ step[t] \in Away
    BY <2>1 DEF Shaders!Threads, Away
  <2>4. RunsOnce'
    BY <2>1, <2>2, <2>3, GetsThread
  <2>5. onThread' \in [Shaders!Threads -> Types \cup {NoType}]
    BY <1>1, <2>1
  <2>6. loaded' \subseteq Sources
    BY <1>1, <2>1
  <2>7. PICK p \in Nat : p = permutation[t] + 1
    BY <1>1
  <2> QED BY <2>1, <2>4, <2>5, <2>6, <2>7, Advances
<1>5. CASE Shaders!Writes(th, t)
  <2>1. /\ Shaders!Advance(t, permutation[t] + 1) /\ step[t] = "write"
        /\ UNCHANGED <<onThread, loaded, sectionMap, section, content, returned>>
    BY <1>5 DEF Shaders!Writes, Shaders!Runs, Shaders!mapVars
  <2>2. PICK to : to \notin Away /\ step' = [step EXCEPT ![t] = to]
    BY <1>2, <2>1
  <2>3. step[t] \in Away <=> to \in Away
    BY <2>1, <2>2 DEF Away
  <2>4. RunsOnce'
    BY <2>1, <2>2, <2>3, StaysOnThread
  <2>5. onThread' \in [Shaders!Threads -> Types \cup {NoType}]
    BY <1>1, <2>1
  <2>6. loaded' \subseteq Sources
    BY <1>1, <2>1
  <2>7. PICK p \in Nat : p = permutation[t] + 1
    BY <1>1
  <2> QED BY <2>1, <2>4, <2>5, <2>6, <2>7, Advances
<1> QED BY <1>3, <1>4, <1>5

\* The steps of a task that leave the map and its permutation alone.
LEMMA TaskKeeps ==
  ASSUME ShaderInv, NEW th \in Shaders!Threads, NEW t \in Types,
         \/ Shaders!LoadHit(th, t) \/ Shaders!LoadMiss(th, t)
         \/ Shaders!ReadCompletes(t) \/ Shaders!ReadFails(t)
         \/ Shaders!CompileThrows(th, t) \/ Shaders!WriteSuspends(th, t)
         \/ Shaders!Ends(th, t)
  PROVE  ShaderInv'
<1>1. /\ onThread \in [Shaders!Threads -> Types \cup {NoType}]
      /\ loaded \subseteq Sources /\ Source[t] \in Sources
      /\ "io" \in Shaders!Threads
  BY ShadersFacts DEF ShaderInv, ShaderTypes, Shaders!Threads
<1>2. CASE Shaders!LoadHit(th, t)
  <2>1. /\ step[t] = "load" /\ step' = [step EXCEPT ![t] = "insert"]
        /\ UNCHANGED <<permutation, onThread, loaded, sectionMap, section, content,
                       returned>>
    BY <1>2 DEF Shaders!LoadHit, Shaders!Runs, Shaders!Goes, Shaders!mapVars
  <2>2. RunsOnce'
    BY <2>1, StaysOnThread DEF Away
  <2> QED BY <1>1, <2>1, <2>2, GoesOn DEF ToAdd, Shaders!Steps
<1>3. CASE Shaders!LoadMiss(th, t)
  <2>1. /\ step[t] = "load" /\ step' = [step EXCEPT ![t] = "reading"]
        /\ onThread[th] = t /\ onThread' = [onThread EXCEPT ![th] = NoType]
        /\ UNCHANGED <<permutation, loaded, sectionMap, section, content, returned>>
    BY <1>3 DEF Shaders!LoadMiss, Shaders!Runs, Shaders!Goes, Shaders!Leaves,
       Shaders!mapVars
  <2>2. RunsOnce'
    BY <2>1, LeavesThread DEF Away
  <2>3. onThread' \in [Shaders!Threads -> Types \cup {NoType}]
    BY <1>1, <2>1
  <2> QED BY <1>1, <2>1, <2>2, <2>3, GoesOn DEF ToAdd, Shaders!Steps
<1>4. CASE Shaders!ReadCompletes(t)
  <2>1. /\ step[t] = "reading" /\ step' = [step EXCEPT ![t] = "insert"]
        /\ onThread["io"] = NoType /\ onThread' = [onThread EXCEPT !["io"] = t]
        /\ loaded' = loaded \cup {Source[t]}
        /\ UNCHANGED <<permutation, sectionMap, section, content, returned>>
    BY <1>4 DEF Shaders!ReadCompletes, Shaders!Idle, Shaders!Goes, Shaders!mapVars
  <2>2. RunsOnce'
    BY <1>1, <2>1, GetsThread DEF Away
  <2>3. /\ onThread' \in [Shaders!Threads -> Types \cup {NoType}]
        /\ loaded' \subseteq Sources
    BY <1>1, <2>1
  <2> QED BY <2>1, <2>2, <2>3, GoesOn DEF ToAdd, Shaders!Steps
<1>5. CASE Shaders!ReadFails(t)
  <2>1. /\ step[t] = "reading" /\ step' = [step EXCEPT ![t] = "failed"]
        /\ UNCHANGED <<permutation, onThread, loaded, sectionMap, section, content,
                       returned>>
    BY <1>5 DEF Shaders!ReadFails, Shaders!Goes, Shaders!mapVars
  <2>2. RunsOnce'
    BY <2>1, StaysOnThread DEF Away
  <2> QED BY <1>1, <2>1, <2>2, GoesOn DEF Shaders!Steps
<1>6. CASE Shaders!CompileThrows(th, t)
  <2>1. /\ step[t] \in {"load", "insert"} /\ step' = [step EXCEPT ![t] = "failed"]
        /\ onThread[th] = t /\ onThread' = [onThread EXCEPT ![th] = NoType]
        /\ UNCHANGED <<permutation, loaded, sectionMap, section, content, returned>>
    BY <1>6 DEF Shaders!CompileThrows, Shaders!Runs, Shaders!Goes, Shaders!Leaves,
       Shaders!mapVars
  <2>2. RunsOnce'
    BY <2>1, LeavesThread DEF Away
  <2>3. onThread' \in [Shaders!Threads -> Types \cup {NoType}]
    BY <1>1, <2>1
  <2> QED BY <1>1, <2>1, <2>2, <2>3, GoesOn DEF Shaders!Steps
<1>7. CASE Shaders!WriteSuspends(th, t)
  <2>1. /\ step[t] = "write" /\ step' = [step EXCEPT ![t] = "writing"]
        /\ onThread[th] = t /\ onThread' = [onThread EXCEPT ![th] = NoType]
        /\ UNCHANGED <<permutation, loaded, sectionMap, section, content, returned>>
    BY <1>7 DEF Shaders!WriteSuspends, Shaders!Runs, Shaders!Goes, Shaders!Leaves,
       Shaders!mapVars
  <2>2. RunsOnce'
    BY <2>1, LeavesThread DEF Away
  <2>3. onThread' \in [Shaders!Threads -> Types \cup {NoType}]
    BY <1>1, <2>1
  <2> QED BY <1>1, <2>1, <2>2, <2>3, GoesOn DEF Shaders!Steps
<1>8. CASE Shaders!Ends(th, t)
  <2>1. /\ step[t] = "written" /\ step' = [step EXCEPT ![t] = "ended"]
        /\ onThread[th] = t /\ onThread' = [onThread EXCEPT ![th] = NoType]
        /\ UNCHANGED <<permutation, loaded, sectionMap, section, content, returned>>
    BY <1>8 DEF Shaders!Ends, Shaders!Runs, Shaders!Goes, Shaders!Leaves,
       Shaders!mapVars
  <2>2. RunsOnce'
    BY <2>1, LeavesThread DEF Away
  <2>3. onThread' \in [Shaders!Threads -> Types \cup {NoType}]
    BY <1>1, <2>1
  <2> QED BY <1>1, <2>1, <2>2, <2>3, GoesOn DEF Shaders!Steps
<1> QED BY <1>2, <1>3, <1>4, <1>5, <1>6, <1>7, <1>8

LEMMA SectionKeeps ==
  ASSUME ShaderInv, NEW th \in Shaders!Threads, NEW t \in Types,
         Shaders!FindSection(th, t) \/ Shaders!EmplaceSection(th, t)
  PROVE  ShaderInv'
<1>1. /\ onThread \in [Shaders!Threads -> Types \cup {NoType}]
      /\ loaded \subseteq Sources
      /\ \A s \in DOMAIN sectionMap : sectionMap[s] \in Types
  BY DEF ShaderInv, ShaderTypes
<1>2. CASE Shaders!FindSection(th, t) /\ Source[t] \in DOMAIN sectionMap
  <2>1. /\ step[t] = "insert" /\ step' = [step EXCEPT ![t] = "find"]
        /\ section' = [section EXCEPT ![t] = sectionMap[Source[t]]]
        /\ UNCHANGED <<permutation, onThread, loaded, sectionMap, content, returned>>
    BY <1>2 DEF Shaders!FindSection, Shaders!Runs, Shaders!Goes
  <2>2. /\ DOMAIN sectionMap' = DOMAIN sectionMap \cup {Source[t]}
        /\ \A s \in DOMAIN sectionMap : sectionMap'[s] = sectionMap[s]
        /\ sectionMap'[Source[t]] \in Types
        /\ section' = [section EXCEPT ![t] = sectionMap'[Source[t]]]
    BY <1>1, <1>2, <2>1
  <2> QED BY <2>1, <2>2, GoesToFind
<1>3. CASE Shaders!FindSection(th, t) /\ Source[t] \notin DOMAIN sectionMap
  <2>1. /\ step[t] = "insert" /\ step' = [step EXCEPT ![t] = "emplace"]
        /\ UNCHANGED <<permutation, onThread, loaded, sectionMap, section, content,
                       returned>>
    BY <1>3 DEF Shaders!FindSection, Shaders!Runs, Shaders!Goes
  <2>2. RunsOnce'
    BY <2>1, StaysOnThread DEF Away
  <2> QED BY <1>1, <2>1, <2>2, GoesOn DEF ToAdd, Shaders!Steps
<1>4. CASE Shaders!EmplaceSection(th, t)
  <2>1. /\ step[t] = "emplace" /\ step' = [step EXCEPT ![t] = "find"]
        /\ sectionMap' = [s \in DOMAIN sectionMap \cup {Source[t]} |->
                            IF s = Source[t] THEN Shaders!SectionAfter(t)
                            ELSE sectionMap[s]]
        /\ section' = [section EXCEPT ![t] = Shaders!SectionAfter(t)]
        /\ UNCHANGED <<permutation, onThread, loaded, content, returned>>
    BY <1>4 DEF Shaders!EmplaceSection, Shaders!Runs, Shaders!Goes
  <2>2. /\ Shaders!SectionAfter(t) \in Types
        /\ Source[t] \in DOMAIN sectionMap =>
             Shaders!SectionAfter(t) = sectionMap[Source[t]]
    BY <1>1 DEF Shaders!SectionAfter
  <2>3. sectionMap'[Source[t]] = Shaders!SectionAfter(t)
    BY <2>1
  <2>4. /\ DOMAIN sectionMap' = DOMAIN sectionMap \cup {Source[t]}
        /\ \A s \in DOMAIN sectionMap : sectionMap'[s] = sectionMap[s]
        /\ sectionMap'[Source[t]] \in Types
        /\ section' = [section EXCEPT ![t] = sectionMap'[Source[t]]]
    BY <2>1, <2>2, <2>3
  <2> QED BY <2>1, <2>4, GoesToFind
<1> QED BY <1>2, <1>3, <1>4

LEMMA ShadersNext == ShaderInv /\ [Shaders!Next]_(Shaders!vars) => ShaderInv'
<1> SUFFICES ASSUME ShaderInv, [Shaders!Next]_(Shaders!vars)
             PROVE  ShaderInv'
  OBVIOUS
<1>1. CASE UNCHANGED Shaders!vars
  <2>1. UNCHANGED <<step, permutation, onThread, loaded, sectionMap, section, content,
                    returned>>
    BY <1>1 DEF Shaders!vars, Shaders!taskVars, Shaders!mapVars
  <2> QED BY <2>1 DEF ShaderInv, ShaderTypes, RunsOnce, Permutations, SectionFound,
       AddedInOrder, ReturnedPresent, PassedPresent, SectionsClean, InMap
<1>2. ASSUME NEW t \in Types,
             \/ Shaders!Start(t) \/ Shaders!ReadCompletes(t) \/ Shaders!ReadFails(t)
             \/ Shaders!WriteCompletes(t)
      PROVE  ShaderInv'
  <2>1. "io" \in Shaders!Threads
    BY DEF Shaders!Threads
  <2> QED BY <1>2, <2>1, AdvanceKeeps, TaskKeeps
<1>3. ASSUME NEW th \in Shaders!Threads, NEW t \in Types,
             \/ Shaders!LoadHit(th, t) \/ Shaders!LoadMiss(th, t)
             \/ Shaders!CompileThrows(th, t) \/ Shaders!WriteSuspends(th, t)
             \/ Shaders!Writes(th, t) \/ Shaders!Ends(th, t)
             \/ Shaders!FindSection(th, t) \/ Shaders!EmplaceSection(th, t)
             \/ Shaders!FindShader(th, t) \/ Shaders!AddShader(th, t)
      PROVE  ShaderInv'
  BY <1>3, AdvanceKeeps, TaskKeeps, SectionKeeps, FindKeeps, AddKeeps
<1> QED BY <1>1, <1>2, <1>3 DEF Shaders!Next

\* GetShader finds in the section of its source what is there.
LEMMA LookupFinds ==
  ASSUME ShaderInv, NEW x \in Shaders!Shaders, InMap(x)
  PROVE  Shaders!Lookup(x.type, x.permutation) = {x}
<1>1. /\ Source[x.type] \in DOMAIN sectionMap
      /\ sectionMap[Source[x.type]] \in Types
  BY DEF ShaderInv, ShaderTypes, InMap
<1>2. PICK c : c = content[sectionMap[Source[x.type]]]
  OBVIOUS
<1>3. c \in Seq(Shaders!Shaders)
  BY <1>1, <1>2 DEF ShaderInv, ShaderTypes
<1>4. PICK i \in DOMAIN c : c[i] = x
  BY <1>2 DEF InMap
<1>5. ASSUME NEW j \in DOMAIN c, c[j].type = x.type,
             c[j].permutation = x.permutation
      PROVE  c[j] = x
  <2>1. PICK s \in Shaders!Shaders : s = c[j]
    BY <1>3, ElementOfSeq
  <2>2. /\ s \in [type : Types, permutation : Nat]
        /\ x \in [type : Types, permutation : Nat]
    BY DEF Shaders!Shaders
  <2>3. s = [type |-> s.type, permutation |-> s.permutation]
        /\ x = [type |-> x.type, permutation |-> x.permutation]
    BY <2>2
  <2> QED BY <1>5, <2>1, <2>3
<1>6. Shaders!GetShader(c, x.type, x.permutation) = {x}
  BY <1>4, <1>5 DEF Shaders!GetShader
<1> QED BY <1>1, <1>2, <1>6 DEF Shaders!Lookup

\* What the invariant says of a look-up, of sections and of the tasks
LEMMA ShadersConclude ==
  ShaderInv => /\ Shaders!TypeOK /\ Shaders!ReturnedIsFound
               /\ Shaders!NothingDropped /\ Shaders!LookupsSucceed
<1> SUFFICES ASSUME ShaderInv
             PROVE  /\ Shaders!TypeOK /\ Shaders!ReturnedIsFound
                    /\ Shaders!NothingDropped /\ Shaders!LookupsSucceed
  OBVIOUS
<1>1. Shaders!TypeOK
  <2>1. ASSUME NEW t \in Types
        PROVE  IF step[t] \in Away
               THEN {th \in Shaders!Threads : onThread[th] = t} = {}
               ELSE \E o \in Shaders!Threads :
                      {th \in Shaders!Threads : onThread[th] = t} = {o}
    <3>1. CASE step[t] \in Away
      BY <3>1 DEF ShaderInv, RunsOnce
    <3>2. CASE step[t] \notin Away
      <4>1. PICK o \in Shaders!Threads :
              /\ onThread[o] = t
              /\ \A th \in Shaders!Threads \ {o} : onThread[th] # t
        BY <3>2 DEF ShaderInv, RunsOnce
      <4>2. {th \in Shaders!Threads : onThread[th] = t} = {o}
        BY <4>1
      <4> QED BY <3>2, <4>2
    <3> QED BY <3>1, <3>2
  <2>2. Shaders!Range(sectionMap) \subseteq Types
    BY DEF ShaderInv, ShaderTypes, Shaders!Range
  <2> QED BY <2>1, <2>2 DEF ShaderInv, ShaderTypes, Shaders!TypeOK, Away
<1>2. Shaders!ReturnedIsFound
  <2>1. ASSUME NEW r \in returned
        PROVE  /\ r.shader = r.to
               /\ Shaders!Lookup(r.to.type, r.to.permutation) = {r.shader}
    <3>1. /\ r \in [to : Shaders!Shaders, shader : Shaders!Shaders]
          /\ r.shader = r.to /\ InMap(r.to)
      BY DEF ShaderInv, ShaderTypes, ReturnedPresent
    <3> QED BY <3>1, LookupFinds
  <2> QED BY <2>1 DEF Shaders!ReturnedIsFound
<1>3. Shaders!NothingDropped
  <2>1. ASSUME NEW t \in Types
        PROVE  /\ t \notin Shaders!Range(sectionMap) => content[t] = <<>>
               /\ Shaders!IsInjective(content[t])
    BY DEF ShaderInv, SectionsClean, Shaders!Range, Shaders!IsInjective
  <2> QED BY <2>1 DEF Shaders!NothingDropped
<1>4. Shaders!LookupsSucceed
  <2>1. ASSUME NEW t \in Types, step[t] = "ended", NEW p \in Compiled[t]
        PROVE  Shaders!Lookup(t, p) = {Shaders!Shader(t, p)}
    <3>1. permutation[t] = Count[t] /\ p \in Nat /\ p < Count[t] /\ Count[t] \in Nat
      BY <2>1, ShadersFacts DEF ShaderInv, Permutations
    <3>2. InMap(Shaders!Shader(t, p))
      BY <2>1, <3>1 DEF ShaderInv, PassedPresent, ToAdd
    <3>3. PICK x : x = Shaders!Shader(t, p)
      OBVIOUS
    <3>4. x \in Shaders!Shaders /\ x.type = t /\ x.permutation = p
      BY <3>1, <3>3 DEF Shaders!Shaders, Shaders!Shader
    <3> QED BY <3>2, <3>3, <3>4, LookupFinds
  <2> QED BY <2>1 DEF Shaders!LookupsSucceed
<1> QED BY <1>1, <1>2, <1>3, <1>4

(* However the tasks of the built-in shaders race on the main and on the I/O *)
(* thread, what FindOrAddShader returned is what GetShader finds from then   *)
(* on, nothing is lost with a section that came second, and no permutation   *)
(* of a type that did not fail is missing when all tasks are over.           *)
THEOREM ShadersAreFound == StoresSpec => []ShadersFound
<1>1. StoresInit => ShaderInv
  BY ShadersInit DEF StoresInit
<1>2. ShaderInv /\ [StoresNext]_<<part, vars, assetVars, shaderVars>> => ShaderInv'
  <2>1. ASSUME [StoresNext]_<<part, vars, assetVars, shaderVars>>
        PROVE  [Shaders!Next]_(Shaders!vars)
    BY <2>1 DEF StoresNext, MemoryStep, AssetStep, ShaderStep, shaderVars,
       Shaders!vars, Shaders!taskVars, Shaders!mapVars
  <2> QED BY <2>1, ShadersNext
<1>3. ShaderInv => ShadersFound
  BY ShadersConclude DEF ShadersFound
<1> QED BY <1>1, <1>2, <1>3, PTL DEF StoresSpec
-----------------------------------------------------------------------------
(* Lists and rings *)

\* The instance and the library count alike.
LEMMA SameCount ==
  \A S : Assets!Cardinality(S) = Cardinality(S)
BY Zenon DEF Assets!Cardinality, Cardinality

LEMMA IntervalSize ==
  ASSUME NEW n \in Nat
  PROVE  IsFiniteSet(1 .. n) /\ Cardinality(1 .. n) = n
<1>1. 1 \in Int /\ n \in Int
  OBVIOUS
<1>2. /\ IsFiniteSet(1 .. n)
      /\ Cardinality(1 .. n) = IF 1 > n THEN 0 ELSE n - 1 + 1
  BY <1>1, FS_Interval
<1>3. (IF 1 > n THEN 0 ELSE n - 1 + 1) = n
  OBVIOUS
<1> QED BY <1>2, <1>3

\* No key is twice among those that were used
Distinct(s) == \A i, j \in 1 .. Len(s) : s[i] = s[j] => i = j

LEMMA RemoveFirstFacts ==
  ASSUME NEW S, NEW s \in Seq(S), Distinct(s), NEW j \in 1 .. Len(s), NEW r,
         r = Assets!RemoveFirst(s, s[j])
  PROVE  /\ r \in Seq(S) /\ Len(r) = Len(s) - 1
         /\ \A i \in 1 .. Len(s) - 1 : r[i] = IF i < j THEN s[i] ELSE s[i + 1]
<1> DEFINE n == Len(s)
<1>1. n \in Nat /\ n >= 1 /\ \A i \in 1 .. n : s[i] \in S
  BY LenProperties, ElementOfSeq
<1>2. Assets!SelectInSeq(s, LAMBDA v : v = s[j]) = j
  <2>1. {i \in 1 .. Len(s) : s[i] = s[j]} = {j}
    BY DEF Distinct
  <2>2. Assets!Min({j}) = j
    BY DEF Assets!Min
  <2> QED BY <2>1, <2>2 DEF Assets!SelectInSeq
<1>3. r = SubSeq(s, 1, j - 1) \o SubSeq(s, j + 1, n)
  BY <1>2 DEF Assets!RemoveFirst, Assets!RemoveAt
<1> DEFINE a == SubSeq(s, 1, j - 1)
           b == SubSeq(s, j + 1, n)
<1>4. /\ a \in Seq(S) /\ Len(a) = j - 1
      /\ \A i \in 1 .. j - 1 : a[i] = s[i]
  <2>1. /\ 1 \in Int /\ j - 1 \in Int /\ (\A i \in 1 .. j - 1 : s[i] \in S)
        /\ (1 <= j - 1 \/ j = 1)
    BY <1>1
  <2>2. /\ a \in Seq(S) /\ Len(a) = IF 1 <= j - 1 THEN j - 1 - 1 + 1 ELSE 0
        /\ \A i \in 1 .. j - 1 - 1 + 1 : a[i] = s[1 + i - 1]
    BY <2>1, SubSeqProperties
  <2> QED BY <2>1, <2>2
<1>5. /\ b \in Seq(S) /\ Len(b) = n - j
      /\ \A i \in 1 .. n - j : b[i] = s[j + i]
  <2>1. /\ j + 1 \in Int /\ n \in Int /\ (\A i \in j + 1 .. n : s[i] \in S)
        /\ (j + 1 <= n \/ j = n)
    BY <1>1
  <2>2. /\ b \in Seq(S) /\ Len(b) = IF j + 1 <= n THEN n - (j + 1) + 1 ELSE 0
        /\ \A i \in 1 .. n - (j + 1) + 1 : b[i] = s[j + 1 + i - 1]
    BY <2>1, SubSeqProperties
  <2> QED BY <2>1, <2>2
<1>0. r = a \o b
  BY <1>3
<1> HIDE DEF a, b
<1>6. /\ r \in Seq(S) /\ Len(r) = j - 1 + (n - j)
      /\ \A i \in 1 .. j - 1 + (n - j) :
           r[i] = IF i <= j - 1 THEN a[i] ELSE b[i - (j - 1)]
  <2>0. a \in Seq(S) /\ b \in Seq(S)
    BY <1>4, <1>5
  <2>1. /\ a \o b \in Seq(S) /\ Len(a \o b) = Len(a) + Len(b)
        /\ \A i \in 1 .. Len(a) + Len(b) :
             (a \o b)[i] = IF i <= Len(a) THEN a[i] ELSE b[i - Len(a)]
    BY <2>0, ConcatProperties
  <2> QED BY <1>0, <1>4, <1>5, <2>1, Zenon
<1> HIDE DEF n
<1>7. j - 1 + (n - j) = n - 1 /\ j \in 1 .. n
  BY <1>1 DEF n
<1>8. ASSUME NEW i \in 1 .. n - 1
      PROVE  r[i] = IF i < j THEN s[i] ELSE s[i + 1]
  <2>1. CASE i < j
    BY <1>1, <1>4, <1>6, <1>7, <2>1
  <2>2. CASE ~ (i < j)
    <3>1. i - (j - 1) \in 1 .. n - j /\ ~ (i <= j - 1) /\ j + (i - (j - 1)) = i + 1
      BY <1>1, <1>7, <2>2
    <3> QED BY <1>5, <1>6, <1>7, <2>2, <3>1
  <2> QED BY <2>1, <2>2
<1> QED BY <1>6, <1>7, <1>8 DEF n

-----------------------------------------------------------------------------
(* The ring *)

\* What is at place i of a list: its ends are the sentinel
At(s, i) == IF i \in 1 .. Len(s) THEN s[i] ELSE Assets!Sentinel

\* The two pointers of all that is in the list s, and of the sentinel
Forward(nx, s) == \A i \in 0 .. Len(s) : nx[At(s, i)] = At(s, i + 1)
Backward(pv, s) == \A i \in 0 .. Len(s) : pv[At(s, i + 1)] = At(s, i)

\* What usedList reads along the pointers of a list
LEMMA UsedListReads ==
  ASSUME NEW s \in Seq(Assets!Loads), Distinct(s),
         next \in [Assets!Nodes -> Assets!Nodes], Forward(next, s)
  PROVE  Assets!usedList = s
<1> DEFINE N == Assets!Cardinality(Assets!Nodes)
           walk == CHOOSE f : f = [i \in 1 .. N |->
                     IF i = 1 THEN next[Assets!Sentinel]
                     ELSE IF f[i - 1] = Assets!Sentinel THEN Assets!Sentinel
                     ELSE next[f[i - 1]]]
<1>1. Assets!usedList =
        [i \in 1 .. Assets!Cardinality({j \in 1 .. N :
                                           walk[j] # Assets!Sentinel})
           |-> walk[i]]
  BY Zenon DEF Assets!usedList
<1> DEFINE n == Len(s)
<1>2. /\ MaxLoads \in Nat /\ n \in Nat
      /\ \A i \in 1 .. n : s[i] \in 1 .. MaxLoads /\ s[i] # 0
  BY PartsAssumption, LenProperties, ElementOfSeq
     DEF Assets!CacheAllowed, Assets!Loads
<1>3. N = MaxLoads + 1
  <2>1. Assets!Nodes = 0 .. MaxLoads
    BY <1>2 DEF Assets!Nodes, Assets!Loads, Assets!Sentinel
  <2>2. Cardinality(0 .. MaxLoads) = MaxLoads + 1
    <3>1. 0 \in Int /\ MaxLoads \in Int /\ ~ (0 > MaxLoads)
      BY <1>2
    <3>2. Cardinality(0 .. MaxLoads) =
            IF 0 > MaxLoads THEN 0 ELSE MaxLoads - 0 + 1
      BY <3>1, FS_Interval
    <3> QED BY <3>1, <3>2
  <2> QED BY <2>1, <2>2, SameCount
<1>4. n <= MaxLoads
  <2>1. s \in [1 .. n -> 1 .. MaxLoads]
    BY <1>2, LenProperties DEF Assets!Loads
  <2>2. s \in Injection(1 .. n, 1 .. MaxLoads)
    BY <2>1 DEF Injection, IsInjective, Distinct
  <2>3. /\ IsFiniteSet(1 .. MaxLoads) /\ Cardinality(1 .. MaxLoads) = MaxLoads
        /\ Cardinality(1 .. n) = n
    BY <1>2, IntervalSize
  <2>4. Cardinality(1 .. n) <= Cardinality(1 .. MaxLoads)
    BY <2>2, <2>3, FS_Injection, Zenon
  <2> QED BY <2>3, <2>4
<1>5. /\ next[Assets!Sentinel] = At(s, 1)
      /\ \A i \in 1 .. n : next[At(s, i)] = At(s, i + 1)
  <2>1. 0 \in 0 .. n /\ 0 + 1 = 1 /\ At(s, 0) = Assets!Sentinel
    BY <1>2 DEF At
  <2> QED BY <1>2, <2>1 DEF Forward
<1>6. \A i \in Nat : At(s, i) = 0 <=> i \notin 1 .. n
  BY <1>2 DEF At, Assets!Sentinel
<1> HIDE DEF n, N
<1>7. walk = [i \in 1 .. N |->
                IF i = 1 THEN next[Assets!Sentinel]
                ELSE IF walk[i - 1] = Assets!Sentinel THEN Assets!Sentinel
                ELSE next[walk[i - 1]]]
  <2> DEFINE w == [i \in 1 .. N |-> At(s, i)]
             v == [i \in 1 .. N |->
                     IF i = 1 THEN next[Assets!Sentinel]
                     ELSE IF w[i - 1] = Assets!Sentinel THEN Assets!Sentinel
                     ELSE next[w[i - 1]]]
  <2>1. ASSUME NEW i \in 1 .. N
        PROVE  At(s, i) = IF i = 1 THEN next[Assets!Sentinel]
                          ELSE IF w[i - 1] = Assets!Sentinel THEN Assets!Sentinel
                          ELSE next[w[i - 1]]
    <3>1. CASE i = 1
      BY <1>5, <3>1
    <3>2. CASE i # 1
      <4>1. i - 1 \in 1 .. N /\ i - 1 \in Nat /\ (i - 1) + 1 = i /\ i \in Nat
        BY <1>2, <1>3, <3>2
      <4>2. w[i - 1] = At(s, i - 1)
        BY <4>1
      <4>3. CASE i - 1 \in 1 .. n
        BY <1>5, <1>6, <3>2, <4>1, <4>2, <4>3 DEF Assets!Sentinel
      <4>4. CASE i - 1 \notin 1 .. n
        <5>1. i \notin 1 .. n
          BY <1>2, <3>2, <4>1, <4>4
        <5> QED BY <1>6, <3>2, <4>1, <4>2, <4>4, <5>1 DEF Assets!Sentinel
      <4> QED BY <4>3, <4>4
    <3> QED BY <3>1, <3>2
  <2>2. w = v
    BY <2>1, Zenon
  <2>3. \E f : f = [i \in 1 .. N |->
                      IF i = 1 THEN next[Assets!Sentinel]
                      ELSE IF f[i - 1] = Assets!Sentinel THEN Assets!Sentinel
                      ELSE next[f[i - 1]]]
    BY <2>2, Zenon
  <2> QED BY <2>3, Zenon
<1> HIDE DEF walk
<1>8. \A i \in 1 .. N : walk[i] = At(s, i)
  <2> DEFINE T == {i \in 1 .. N : walk[i] # At(s, i)}
  <2> SUFFICES ASSUME T # {} PROVE FALSE
    OBVIOUS
  <2>1. PICK m \in T : \A i \in T : m <= i
    <3>1. T \in SUBSET Nat
      BY <1>2, <1>3
    <3> QED BY <3>1, NatMinimum
  <2>2. m \in 1 .. N /\ walk[m] # At(s, m)
    OBVIOUS
  <2>3. m # 1
    BY <1>5, <1>7, <2>2
  <2>4. m - 1 \in 1 .. N /\ m - 1 \in Nat /\ (m - 1) + 1 = m /\ ~ (m <= m - 1)
        /\ m \in Nat
    BY <1>2, <1>3, <2>2, <2>3
  <2>5. walk[m - 1] = At(s, m - 1)
    BY <2>1, <2>4
  <2>6. walk[m] = IF At(s, m - 1) = Assets!Sentinel THEN Assets!Sentinel
                  ELSE next[At(s, m - 1)]
    BY <1>7, <2>2, <2>3, <2>5
  <2>7. CASE m - 1 \in 1 .. n
    BY <1>5, <1>6, <2>2, <2>4, <2>6, <2>7 DEF Assets!Sentinel
  <2>8. CASE m - 1 \notin 1 .. n
    <3>1. m \notin 1 .. n
      BY <1>2, <2>3, <2>4, <2>8
    <3> QED BY <1>6, <2>2, <2>4, <2>6, <2>8, <3>1 DEF Assets!Sentinel
  <2> QED BY <2>7, <2>8
<1>9. Assets!Cardinality({j \in 1 .. N : walk[j] # Assets!Sentinel}) = n
  <2>1. \A j \in 1 .. N : walk[j] # Assets!Sentinel <=> j \in 1 .. n
    BY <1>2, <1>3, <1>6, <1>8 DEF Assets!Sentinel
  <2>2. \A j \in 1 .. n : j \in 1 .. N
    BY <1>2, <1>3, <1>4
  <2>3. {j \in 1 .. N : walk[j] # Assets!Sentinel} = 1 .. n
    BY <2>1, <2>2
  <2>4. Cardinality(1 .. n) = n
    BY <1>2, IntervalSize DEF n
  <2> QED BY <2>3, <2>4, SameCount
<1>10. Assets!usedList = [i \in 1 .. n |-> walk[i]]
  BY <1>1, <1>9 DEF walk, N
<1>11. \A i \in 1 .. n : walk[i] = s[i]
  BY <1>2, <1>3, <1>4, <1>8 DEF At, n
<1>12. s = [i \in 1 .. n |-> s[i]]
  BY LenProperties DEF n
<1> QED BY <1>10, <1>11, <1>12

\* The places of a list, the sentinel before the first one included, differ.
LEMMA PlacesDiffer ==
  ASSUME NEW s \in Seq(Assets!Loads), Distinct(s)
  PROVE  /\ Len(s) \in Nat /\ 0 \notin Assets!Loads
         /\ \A i \in 1 .. Len(s) : s[i] \in Assets!Loads /\ At(s, i) = s[i]
         /\ At(s, 0) = 0 /\ At(s, Len(s) + 1) = 0
         /\ \A i \in 0 .. Len(s) + 1 : At(s, i) \in Assets!Nodes
         /\ \A i, j \in 0 .. Len(s) : At(s, i) = At(s, j) => i = j
         /\ \A i, j \in 1 .. Len(s) + 1 : At(s, i) = At(s, j) => i = j
<1>1. Len(s) \in Nat /\ 0 \notin Assets!Loads
      /\ \A i \in 1 .. Len(s) : s[i] \in Assets!Loads
  <2>1. Len(s) \in Nat /\ \A i \in 1 .. Len(s) : s[i] \in Assets!Loads
    BY LenProperties, ElementOfSeq
  <2>2. 0 \notin Assets!Loads
    BY PartsAssumption DEF Assets!CacheAllowed, Assets!Loads
  <2> QED BY <2>1, <2>2
<1>2. /\ \A i \in 1 .. Len(s) : At(s, i) = s[i] /\ At(s, i) # 0
      /\ At(s, 0) = 0 /\ At(s, Len(s) + 1) = 0
  BY <1>1 DEF At, Assets!Sentinel
<1>3. \A i \in 0 .. Len(s) + 1 : At(s, i) \in Assets!Nodes
  BY <1>1 DEF At, Assets!Nodes, Assets!Sentinel
<1>4. ASSUME NEW i \in 0 .. Len(s), NEW j \in 0 .. Len(s), At(s, i) = At(s, j)
      PROVE  i = j
  <2>1. /\ i = 0 \/ i \in 1 .. Len(s)
        /\ j = 0 \/ j \in 1 .. Len(s)
    BY <1>1
  <2> QED BY <1>2, <1>4, <2>1 DEF Distinct
<1>5. ASSUME NEW i \in 1 .. Len(s) + 1, NEW j \in 1 .. Len(s) + 1,
             At(s, i) = At(s, j)
      PROVE  i = j
  <2>1. /\ i = Len(s) + 1 \/ i \in 1 .. Len(s)
        /\ j = Len(s) + 1 \/ j \in 1 .. Len(s)
    BY <1>1
  <2> QED BY <1>2, <1>5, <2>1 DEF Distinct
<1> QED BY <1>1, <1>2, <1>3, <1>4, <1>5

\* The list s is about to be, by the splice p of its first node, which was at
\* place j
Splices(nx, pv, s, p, j) ==
  /\ \A i \in 2 .. Len(s) : i # j => nx[s[i]] = At(s, i + 1)
  /\ \A i \in 2 .. Len(s) : i # j => pv[At(s, i + 1)] = s[i]
  /\ p.where = s[2] /\ p.last = At(s, j + 1)
  /\ nx[s[j]] = IF p.stage = "unlink" THEN s[1] ELSE At(s, j + 1)
  /\ nx[s[1]] = IF p.stage \in {"unlink", "link"} THEN At(s, j + 1) ELSE s[2]
  /\ nx[Assets!Sentinel] = IF p.stage = "prev" THEN s[1] ELSE s[2]
  /\ pv[s[1]] = s[j] /\ pv[s[2]] = Assets!Sentinel /\ pv[At(s, j + 1)] = s[1]
  /\ p.stage # "unlink" => p.firstPrev = s[j]
  /\ p.stage \in {"front", "prev"} => p.lastPrev = s[1]
  /\ p.stage = "prev" => p.wherePrev = Assets!Sentinel

\* r is s with the element at place j moved to the front
MovedUp(s, j, r) ==
  /\ Len(r) = Len(s) /\ r[1] = s[j]
  /\ \A i \in 1 .. Len(s) :
       /\ i < j => r[i + 1] = s[i]
       /\ i > j => r[i] = s[i]

LEMMA SpliceBegins ==
  ASSUME NEW s \in Seq(Assets!Loads), Distinct(s), NEW j \in 2 .. Len(s),
         NEW r, MovedUp(s, j, r), NEW nx, NEW pv, Forward(nx, s),
         Backward(pv, s), NEW p, p.stage = "unlink",
         p.where = nx[Assets!Sentinel], p.last = nx[s[j]]
  PROVE  Splices(nx, pv, r, p, j)
<1> DEFINE n == Len(s)
<1>1. /\ n \in Nat /\ j \in 1 .. n /\ 1 \in 1 .. n /\ 1 < j /\ j - 1 \in 1 .. n
      /\ \A i \in 1 .. n : At(s, i) = s[i]
      /\ At(s, 0) = Assets!Sentinel
  BY PlacesDiffer DEF Assets!Sentinel
<1>2. Len(r) = n /\ r[1] = s[j] /\ r[2] = s[1] /\ r[j] = s[j - 1]
  <2>1. j - 1 < j /\ (j - 1) + 1 = j /\ 1 + 1 = 2
    BY <1>1
  <2> QED BY <1>1, <2>1 DEF MovedUp
<1>3. \A i \in j + 1 .. n + 1 : At(r, i) = At(s, i)
  <2> SUFFICES ASSUME NEW i \in j + 1 .. n + 1 PROVE At(r, i) = At(s, i)
    OBVIOUS
  <2>1. i \in 1 .. n => r[i] = s[i]
    BY <1>1 DEF MovedUp
  <2> QED BY <1>2, <2>1 DEF At
<1>4. \A i \in 2 .. j : r[i] = s[i - 1] /\ At(r, i) = s[i - 1]
  <2> SUFFICES ASSUME NEW i \in 2 .. j
               PROVE  r[i] = s[i - 1] /\ At(r, i) = s[i - 1]
    OBVIOUS
  <2>1. i - 1 \in 1 .. n /\ i - 1 < j /\ (i - 1) + 1 = i /\ i \in 1 .. n
    BY <1>1
  <2>2. r[i] = s[i - 1]
    BY <2>1 DEF MovedUp
  <2> QED BY <1>2, <2>1, <2>2 DEF At
<1>5. /\ \A i \in 0 .. n : nx[At(s, i)] = At(s, i + 1)
      /\ \A i \in 0 .. n : pv[At(s, i + 1)] = At(s, i)
  BY DEF Forward, Backward
<1> HIDE DEF n
<1>6. ASSUME NEW i \in 2 .. n, i # j
      PROVE  nx[r[i]] = At(r, i + 1) /\ pv[At(r, i + 1)] = r[i]
  <2>1. CASE i < j
    <3>1. i \in 2 .. j /\ i + 1 \in 2 .. j /\ i - 1 \in 0 .. n /\ i \in 1 .. n
          /\ (i - 1) + 1 = i /\ (i + 1) - 1 = i /\ i - 1 \in 1 .. n
      BY <1>1, <2>1
    <3>2. /\ nx[At(s, i - 1)] = At(s, i) /\ pv[At(s, i)] = At(s, i - 1)
          /\ At(s, i - 1) = s[i - 1] /\ At(s, i) = s[i]
      BY <1>1, <1>5, <3>1
    <3> QED BY <1>4, <3>1, <3>2
  <2>2. CASE ~ (i < j)
    <3>1. i \in j + 1 .. n + 1 /\ i + 1 \in j + 1 .. n + 1 /\ i \in 0 .. n
          /\ i \in 1 .. n /\ i > j
      BY <1>1, <1>6, <2>2
    <3>2. r[i] = At(s, i) /\ At(r, i + 1) = At(s, i + 1)
      BY <1>1, <1>3, <3>1 DEF MovedUp, n
    <3> QED BY <1>5, <3>1, <3>2
  <2> QED BY <2>1, <2>2
<1>7. At(r, j + 1) = At(s, j + 1)
  BY <1>1, <1>3
<1>8. /\ nx[Assets!Sentinel] = s[1] /\ pv[s[1]] = Assets!Sentinel
      /\ nx[s[j - 1]] = s[j] /\ pv[s[j]] = s[j - 1]
      /\ nx[s[j]] = At(s, j + 1) /\ pv[At(s, j + 1)] = s[j]
  <2>1. /\ 0 \in 0 .. n /\ 0 + 1 = 1 /\ j - 1 \in 0 .. n /\ (j - 1) + 1 = j
        /\ j \in 0 .. n
    BY <1>1
  <2>2. /\ nx[At(s, 0)] = At(s, 1) /\ pv[At(s, 1)] = At(s, 0)
        /\ nx[At(s, j - 1)] = At(s, j) /\ pv[At(s, j)] = At(s, j - 1)
        /\ nx[At(s, j)] = At(s, j + 1) /\ pv[At(s, j + 1)] = At(s, j)
    BY <1>5, <2>1
  <2> QED BY <1>1, <2>2
<1> QED BY <1>2, <1>6, <1>7, <1>8 DEF Splices, n

\* What follows the first of a list that is spliced
LEMMA SpliceFacts ==
  ASSUME NEW s \in Seq(Assets!Loads), Distinct(s), NEW j \in 2 .. Len(s)
  PROVE  /\ \A i \in 1 .. Len(s) : s[i] \in Assets!Nodes /\ s[i] # Assets!Sentinel
         /\ \A i, k \in 1 .. Len(s) : i # k => s[i] # s[k]
         /\ \A i \in 2 .. Len(s) : i \in 1 .. Len(s) /\ i # 1
         /\ 1 \in 1 .. Len(s) /\ 2 \in 1 .. Len(s) /\ j \in 1 .. Len(s)
         /\ \A i \in 2 .. Len(s) :
              /\ At(s, i + 1) \in Assets!Nodes /\ At(s, i + 1) # s[1]
              /\ At(s, i + 1) # s[2]
              /\ i # j => At(s, i + 1) # At(s, j + 1)
         /\ Assets!Sentinel \in Assets!Nodes
<1>1. /\ Len(s) \in Nat
      /\ \A i \in 1 .. Len(s) : s[i] \in Assets!Loads /\ At(s, i) = s[i]
      /\ \A i \in 0 .. Len(s) + 1 : At(s, i) \in Assets!Nodes
      /\ \A i, k \in 1 .. Len(s) + 1 : At(s, i) = At(s, k) => i = k
      /\ 0 \notin Assets!Loads
  BY PlacesDiffer
<1>2. 1 \in 1 .. Len(s) /\ 2 \in 1 .. Len(s) /\ j \in 1 .. Len(s)
      /\ 1 \in 1 .. Len(s) + 1 /\ 2 \in 1 .. Len(s) + 1
  BY <1>1
<1>3. \A i \in 2 .. Len(s) : /\ i + 1 \in 1 .. Len(s) + 1 /\ i + 1 # 1
                            /\ i + 1 # 2 /\ i + 1 \in 0 .. Len(s) + 1
                            /\ i \in 1 .. Len(s) /\ i # 1
                            /\ i # j => i + 1 # j + 1
  BY <1>1
<1>4. ASSUME NEW i \in 2 .. Len(s)
      PROVE  /\ At(s, i + 1) \in Assets!Nodes /\ At(s, i + 1) # s[1]
             /\ At(s, i + 1) # s[2]
             /\ i # j => At(s, i + 1) # At(s, j + 1)
  BY <1>1, <1>2, <1>3
<1>5. /\ \A i \in 1 .. Len(s) : s[i] \in Assets!Nodes /\ s[i] # Assets!Sentinel
      /\ Assets!Sentinel \in Assets!Nodes
  BY <1>1 DEF Assets!Nodes, Assets!Sentinel
<1>6. \A i, k \in 1 .. Len(s) : i # k => s[i] # s[k]
  BY DEF Distinct
<1> QED BY <1>2, <1>3, <1>4, <1>5, <1>6

\* One pointer after the other
LEMMA SpliceGoesOn ==
  ASSUME NEW s \in Seq(Assets!Loads), Distinct(s), NEW j \in 2 .. Len(s),
         NEW nx \in [Assets!Nodes -> Assets!Nodes], NEW pv, NEW p, NEW q, NEW x,
         Splices(nx, pv, s, p, j), q.where = p.where, q.last = p.last,
         \/ /\ p.stage = "unlink" /\ q.stage = "link"
            /\ x = [nx EXCEPT ![pv[s[1]]] = p.last] /\ q.firstPrev = pv[s[1]]
         \/ /\ p.stage = "link" /\ q.stage = "front"
            /\ x = [nx EXCEPT ![pv[p.last]] = p.where]
            /\ q.firstPrev = p.firstPrev /\ q.lastPrev = pv[p.last]
         \/ /\ p.stage = "front" /\ q.stage = "prev"
            /\ x = [nx EXCEPT ![pv[p.where]] = s[1]]
            /\ q.firstPrev = p.firstPrev /\ q.lastPrev = p.lastPrev
            /\ q.wherePrev = pv[p.where]
  PROVE  Splices(x, pv, s, q, j)
<1> DEFINE n == Len(s)
           last == At(s, j + 1)
<1>1. /\ \A i \in 1 .. n : s[i] \in Assets!Nodes /\ s[i] # Assets!Sentinel
      /\ \A i, k \in 1 .. n : i # k => s[i] # s[k]
      /\ \A i \in 2 .. n : i \in 1 .. n /\ i # 1
      /\ 1 \in 1 .. n /\ 2 \in 1 .. n /\ j \in 1 .. n
      /\ Assets!Sentinel \in Assets!Nodes
  BY SpliceFacts
<1>2. /\ \A i \in 2 .. n : i # j => nx[s[i]] = At(s, i + 1)
      /\ \A i \in 2 .. n : i # j => pv[At(s, i + 1)] = s[i]
      /\ p.where = s[2] /\ p.last = last
      /\ nx[s[j]] = IF p.stage = "unlink" THEN s[1] ELSE last
      /\ nx[s[1]] = IF p.stage \in {"unlink", "link"} THEN last ELSE s[2]
      /\ nx[Assets!Sentinel] = IF p.stage = "prev" THEN s[1] ELSE s[2]
      /\ pv[s[1]] = s[j] /\ pv[s[2]] = Assets!Sentinel /\ pv[last] = s[1]
      /\ p.stage # "unlink" => p.firstPrev = s[j]
      /\ p.stage \in {"front", "prev"} => p.lastPrev = s[1]
  BY DEF Splices
<1> HIDE DEF n, last
<1>3. CASE p.stage = "unlink" /\ q.stage = "link"
  <2>1. x = [nx EXCEPT ![s[j]] = last] /\ q.firstPrev = s[j]
    BY <1>2, <1>3
  <2>2. /\ x[s[j]] = last /\ x[s[1]] = last /\ x[Assets!Sentinel] = s[2]
        /\ \A i \in 2 .. n : i # j => x[s[i]] = At(s, i + 1)
    BY <1>1, <1>2, <1>3, <2>1
  <2> QED BY <1>2, <1>3, <2>1, <2>2 DEF Splices, n, last
<1>4. CASE p.stage = "link" /\ q.stage = "front"
  <2>1. x = [nx EXCEPT ![s[1]] = s[2]] /\ q.firstPrev = s[j] /\ q.lastPrev = s[1]
    BY <1>2, <1>4
  <2>2. /\ x[s[j]] = last /\ x[s[1]] = s[2] /\ x[Assets!Sentinel] = s[2]
        /\ \A i \in 2 .. n : i # j => x[s[i]] = At(s, i + 1)
    BY <1>1, <1>2, <1>4, <2>1
  <2> QED BY <1>2, <1>4, <2>1, <2>2 DEF Splices, n, last
<1>5. CASE p.stage = "front" /\ q.stage = "prev"
  <2>1. /\ x = [nx EXCEPT ![Assets!Sentinel] = s[1]] /\ q.firstPrev = s[j]
        /\ q.lastPrev = s[1] /\ q.wherePrev = Assets!Sentinel
    BY <1>2, <1>5
  <2>2. /\ x[s[j]] = last /\ x[s[1]] = s[2] /\ x[Assets!Sentinel] = s[1]
        /\ \A i \in 2 .. n : i # j => x[s[i]] = At(s, i + 1)
    BY <1>1, <1>2, <1>5, <2>1
  <2> QED BY <1>2, <1>5, <2>1, <2>2 DEF Splices, n, last
<1> QED BY <1>3, <1>4, <1>5

\* The pointers back close the ring.
LEMMA SpliceEnds ==
  ASSUME NEW s \in Seq(Assets!Loads), Distinct(s), NEW j \in 2 .. Len(s), NEW nx,
         NEW pv \in [Assets!Nodes -> Assets!Nodes], NEW p, NEW x,
         Splices(nx, pv, s, p, j), p.stage = "prev",
         x = [pv EXCEPT ![p.where] = p.lastPrev, ![p.last] = p.firstPrev,
                        ![s[1]] = p.wherePrev]
  PROVE  Forward(nx, s) /\ Backward(x, s)
<1> DEFINE n == Len(s)
<1>1. /\ \A i \in 1 .. n : s[i] \in Assets!Nodes
      /\ \A i, k \in 1 .. n : i # k => s[i] # s[k]
      /\ 1 \in 1 .. n /\ 2 \in 1 .. n /\ j \in 1 .. n /\ j \in 2 .. n
      /\ \A i \in 2 .. n :
           /\ At(s, i + 1) \in Assets!Nodes /\ At(s, i + 1) # s[1]
           /\ At(s, i + 1) # s[2]
           /\ i # j => At(s, i + 1) # At(s, j + 1)
  BY SpliceFacts
<1>2. /\ n \in Nat /\ At(s, 0) = Assets!Sentinel
      /\ \A i \in 1 .. n : At(s, i) = s[i]
  BY PlacesDiffer DEF Assets!Sentinel
<1>3. /\ \A i \in 2 .. n : nx[s[i]] = At(s, i + 1)
      /\ \A i \in 2 .. n : i # j => pv[At(s, i + 1)] = s[i]
      /\ nx[s[1]] = s[2] /\ nx[Assets!Sentinel] = s[1]
      /\ x = [pv EXCEPT ![s[2]] = s[1], ![At(s, j + 1)] = s[j],
                        ![s[1]] = Assets!Sentinel]
  BY DEF Splices
<1> HIDE DEF n
<1>4. x[s[1]] = Assets!Sentinel /\ x[s[2]] = s[1]
  BY <1>1, <1>3
<1>5. \A i \in 2 .. n : x[At(s, i + 1)] = s[i]
  <2> SUFFICES ASSUME NEW i \in 2 .. n PROVE x[At(s, i + 1)] = s[i]
    OBVIOUS
  <2> DEFINE y == At(s, i + 1)
             z == At(s, j + 1)
  <2>1. y \in Assets!Nodes /\ y # s[1] /\ y # s[2] /\ (i # j => y # z)
        /\ (i # j => pv[y] = s[i]) /\ (i = j => y = z) /\ z # s[1]
    BY <1>1, <1>3
  <2>2. x = [pv EXCEPT ![s[2]] = s[1], ![z] = s[j], ![s[1]] = Assets!Sentinel]
    BY <1>3
  <2> HIDE DEF y, z
  <2>3. x[y] = s[i]
    BY <2>1, <2>2
  <2> QED BY <2>3 DEF y
<1>6. \A i \in 0 .. n : i = 0 \/ i = 1 \/ i \in 2 .. n
  BY <1>2
<1>7. Forward(nx, s)
  <2>1. ASSUME NEW i \in 0 .. n PROVE nx[At(s, i)] = At(s, i + 1)
    <3>1. CASE i = 0
      BY <1>1, <1>2, <1>3, <3>1
    <3>2. CASE i = 1
      BY <1>1, <1>2, <1>3, <3>2
    <3>3. CASE i \in 2 .. n
      BY <1>1, <1>2, <1>3, <3>3
    <3> QED BY <1>6, <3>1, <3>2, <3>3
  <2> QED BY <2>1 DEF Forward, n
<1>8. Backward(x, s)
  <2>1. ASSUME NEW i \in 0 .. n PROVE x[At(s, i + 1)] = At(s, i)
    <3>1. CASE i = 0
      BY <1>1, <1>2, <1>4, <3>1
    <3>2. CASE i = 1
      BY <1>1, <1>2, <1>4, <3>2
    <3>3. CASE i \in 2 .. n
      <4>1. i \in 1 .. n
        BY <1>2, <3>3
      <4> QED BY <1>2, <1>5, <3>3, <4>1
    <3> QED BY <1>6, <3>1, <3>2, <3>3
  <2> QED BY <2>1 DEF Backward, n
<1> QED BY <1>7, <1>8

\* The back of a list is taken away.
LEMMA BackPopped ==
  ASSUME NEW s \in Seq(Assets!Loads), Distinct(s), Len(s) # 0,
         NEW nx \in [Assets!Nodes -> Assets!Nodes],
         NEW pv \in [Assets!Nodes -> Assets!Nodes],
         Forward(nx, s), Backward(pv, s),
         NEW r, Len(r) = Len(s) - 1, \A i \in 1 .. Len(s) - 1 : r[i] = s[i]
  PROVE  /\ pv[Assets!Sentinel] = s[Len(s)]
         /\ Forward([nx EXCEPT ![pv[s[Len(s)]]] = Assets!Sentinel], r)
         /\ Backward([pv EXCEPT ![Assets!Sentinel] = pv[s[Len(s)]]], r)
<1> DEFINE n == Len(s)
<1>1. /\ n \in Nat /\ At(s, 0) = Assets!Sentinel /\ At(s, n + 1) = Assets!Sentinel
      /\ \A i \in 1 .. n : At(s, i) = s[i]
      /\ \A i \in 0 .. n + 1 : At(s, i) \in Assets!Nodes
      /\ \A i, j \in 0 .. n : At(s, i) = At(s, j) => i = j
  BY PlacesDiffer DEF Assets!Sentinel
<1>2. \A i \in 0 .. n : nx[At(s, i)] = At(s, i + 1) /\ pv[At(s, i + 1)] = At(s, i)
  BY DEF Forward, Backward
<1>3. Len(r) = n - 1 /\ (\A i \in 0 .. n - 1 : At(r, i) = At(s, i))
      /\ At(r, n) = Assets!Sentinel
  BY <1>1 DEF At
<1> HIDE DEF n
<1>4. /\ n \in 0 .. n /\ n - 1 \in 0 .. n /\ (n - 1) + 1 = n /\ n \in 1 .. n
      /\ n \in 0 .. n + 1 /\ n - 1 \in 0 .. n + 1 /\ 0 \in 0 .. n
  BY <1>1 DEF n
<1>5. pv[Assets!Sentinel] = s[n] /\ pv[s[n]] = At(s, n - 1)
  <2>1. pv[At(s, n + 1)] = At(s, n) /\ pv[At(s, n)] = At(s, n - 1)
    BY <1>2, <1>4
  <2> QED BY <1>1, <1>4, <2>1
<1> DEFINE nx2 == [nx EXCEPT ![At(s, n - 1)] = Assets!Sentinel]
           pv2 == [pv EXCEPT ![Assets!Sentinel] = At(s, n - 1)]
<1>6. \A i \in 0 .. n - 1 : nx2[At(r, i)] = At(r, i + 1)
  <2> SUFFICES ASSUME NEW i \in 0 .. n - 1 PROVE nx2[At(r, i)] = At(r, i + 1)
    OBVIOUS
  <2>1. CASE i = n - 1
    BY <1>1, <1>3, <1>4, <2>1
  <2>2. CASE i # n - 1
    <3>1. i \in 0 .. n /\ i + 1 \in 0 .. n - 1 /\ i \in 0 .. n + 1
      BY <1>1, <2>2
    <3>2. At(s, i) # At(s, n - 1)
      BY <1>1, <1>4, <2>2, <3>1
    <3> QED BY <1>1, <1>2, <1>3, <3>1, <3>2
  <2> QED BY <2>1, <2>2
<1>7. \A i \in 0 .. n - 1 : pv2[At(r, i + 1)] = At(r, i)
  <2> SUFFICES ASSUME NEW i \in 0 .. n - 1 PROVE pv2[At(r, i + 1)] = At(r, i)
    OBVIOUS
  <2>1. CASE i = n - 1
    <3>1. At(r, i + 1) = Assets!Sentinel /\ Assets!Sentinel \in Assets!Nodes
      BY <1>1, <1>3, <1>4, <2>1
    <3> QED BY <1>3, <2>1, <3>1
  <2>2. CASE i # n - 1
    <3>1. i \in 0 .. n /\ i + 1 \in 0 .. n - 1 /\ i + 1 \in 0 .. n
          /\ i + 1 \in 0 .. n + 1 /\ i + 1 # 0
      BY <1>1, <2>2
    <3>2. At(s, i + 1) # Assets!Sentinel
      BY <1>1, <1>4, <3>1
    <3> QED BY <1>1, <1>2, <1>3, <3>1, <3>2
  <2> QED BY <2>1, <2>2
<1> QED BY <1>3, <1>5, <1>6, <1>7 DEF Forward, Backward, n

\* A node is put to the front.
LEMMA FrontPushed ==
  ASSUME NEW s \in Seq(Assets!Loads), Distinct(s), NEW l \in Assets!Loads,
         \A i \in 1 .. Len(s) : s[i] # l,
         NEW nx \in [Assets!Nodes -> Assets!Nodes],
         NEW pv \in [Assets!Nodes -> Assets!Nodes],
         Forward(nx, s), Backward(pv, s),
         NEW r, Len(r) = Len(s) + 1, r[1] = l,
         \A i \in 1 .. Len(s) : r[i + 1] = s[i],
         NEW first, first = nx[Assets!Sentinel]
  PROVE  /\ Forward([nx EXCEPT ![Assets!Sentinel] = l, ![l] = first], r)
         /\ Backward([pv EXCEPT ![first] = l, ![l] = Assets!Sentinel], r)
<1> DEFINE n == Len(s)
           nx2 == [nx EXCEPT ![Assets!Sentinel] = l, ![l] = first]
           pv2 == [pv EXCEPT ![first] = l, ![l] = Assets!Sentinel]
<1>1. /\ n \in Nat /\ At(s, 0) = Assets!Sentinel /\ At(s, n + 1) = Assets!Sentinel
      /\ \A i \in 1 .. n : At(s, i) = s[i]
      /\ \A i \in 0 .. n + 1 : At(s, i) \in Assets!Nodes
      /\ \A i, j \in 0 .. n : At(s, i) = At(s, j) => i = j
      /\ \A i, j \in 1 .. n + 1 : At(s, i) = At(s, j) => i = j
      /\ l # Assets!Sentinel /\ l \in Assets!Nodes
  BY PlacesDiffer DEF Assets!Sentinel, Assets!Nodes
<1>2. \A i \in 0 .. n : nx[At(s, i)] = At(s, i + 1) /\ pv[At(s, i + 1)] = At(s, i)
  BY DEF Forward, Backward
<1>3. Len(r) = n + 1 /\ At(r, 0) = Assets!Sentinel /\ At(r, 1) = l
  BY <1>1 DEF At
<1>4. \A i \in 1 .. n + 1 : At(r, i + 1) = At(s, i)
  <2> SUFFICES ASSUME NEW i \in 1 .. n + 1 PROVE At(r, i + 1) = At(s, i)
    OBVIOUS
  <2>1. CASE i \in 1 .. n
    <3>1. i + 1 \in 1 .. n + 1 /\ r[i + 1] = s[i]
      BY <1>1, <2>1
    <3> QED BY <1>3, <2>1, <3>1 DEF At
  <2>2. CASE i \notin 1 .. n
    <3>1. i + 1 \notin 1 .. n + 1
      BY <1>1, <2>2
    <3> QED BY <1>3, <2>2, <3>1 DEF At
  <2> QED BY <2>1, <2>2
<1>5. \A i \in 0 .. n + 1 : At(s, i) # l
  <2> SUFFICES ASSUME NEW i \in 0 .. n + 1 PROVE At(s, i) # l
    OBVIOUS
  <2>1. i \in 1 .. n \/ i = 0 \/ i = n + 1
    BY <1>1
  <2> QED BY <1>1, <2>1
<1>6. first = At(s, 1)
  <2>1. 0 \in 0 .. n /\ 0 + 1 = 1
    BY <1>1
  <2> QED BY <1>1, <1>2, <2>1
<1> HIDE DEF n
<1>7. /\ Assets!Sentinel \in Assets!Nodes /\ first \in Assets!Nodes /\ first # l
      /\ 1 \in 0 .. n + 1 /\ 1 \in 1 .. n + 1
  <2>1. 0 \in 0 .. n + 1 /\ 1 \in 0 .. n + 1 /\ 1 \in 1 .. n + 1
    BY <1>1
  <2> QED BY <1>1, <1>5, <1>6, <2>1
<1>8. /\ nx2[Assets!Sentinel] = l /\ nx2[l] = first
      /\ pv2[l] = Assets!Sentinel /\ pv2[first] = l
      /\ \A x \in Assets!Nodes : x # Assets!Sentinel /\ x # l => nx2[x] = nx[x]
      /\ \A x \in Assets!Nodes : x # first /\ x # l => pv2[x] = pv[x]
  BY <1>1, <1>7
<1> HIDE DEF nx2, pv2
<1>9. ASSUME NEW i \in 0 .. n + 1
      PROVE  nx2[At(r, i)] = At(r, i + 1) /\ pv2[At(r, i + 1)] = At(r, i)
  <2>1. CASE i = 0
    <3>1. At(r, i) = Assets!Sentinel /\ At(r, i + 1) = l
      BY <1>3, <2>1
    <3> QED BY <1>8, <3>1
  <2>2. CASE i = 1
    <3>1. At(r, i) = l /\ At(r, i + 1) = first
      BY <1>3, <1>4, <1>6, <1>7, <2>2
    <3> QED BY <1>8, <3>1
  <2>3. CASE i # 0 /\ i # 1
    <3> DEFINE h == i - 1
    <3>1. /\ h \in 0 .. n /\ h + 1 = i /\ h \in 1 .. n + 1 /\ h \in 0 .. n + 1
          /\ i \in 1 .. n + 1 /\ h # 0 /\ 0 \in 0 .. n /\ i # 1
      BY <1>1, <2>3
    <3> HIDE DEF h
    <3>2. At(r, i) = At(s, h) /\ At(r, i + 1) = At(s, i)
      BY <1>4, <3>1
    <3>3. At(s, h) # Assets!Sentinel /\ At(s, i) # first
      BY <1>1, <1>6, <1>7, <3>1
    <3>4. nx[At(s, h)] = At(s, i) /\ pv[At(s, i)] = At(s, h)
      BY <1>2, <3>1
    <3>5. /\ At(s, h) \in Assets!Nodes /\ At(s, i) \in Assets!Nodes
          /\ At(s, h) # l /\ At(s, i) # l
      BY <1>1, <1>5, <3>1
    <3> QED BY <1>8, <3>2, <3>3, <3>4, <3>5
  <2> QED BY <2>1, <2>2, <2>3
<1> QED BY <1>3, <1>9 DEF Forward, Backward, n, nx2, pv2

-----------------------------------------------------------------------------
(* The asset cache, until two lookups overlap in the list                   *)

\* The nodes of the map, those used most recently first
ByUse == [i \in 1 .. Len(recency) |-> cache[recency[i]]]

\* A node keeps its key while the map has it, its call has returned
CacheMapped ==
  /\ cache \in [DOMAIN cache -> Assets!Loads]
  /\ \A k \in DOMAIN cache : /\ cache[k] \in Assets!Loads
                             /\ key[cache[k]] = k /\ pc[cache[k]] = "returned"
  /\ \A l \in Assets!Loads : pc[l] = "loading" => key[l] \in Keys

\* The keys of the map are those that were used, each of them once
UseMatches ==
  /\ Distinct(recency) /\ Len(recency) <= MaxUse + 1
  /\ \A i \in 1 .. Len(recency) : recency[i] \in DOMAIN cache
  /\ \A k \in DOMAIN cache : \E i \in 1 .. Len(recency) : recency[i] = k

Moving == {"unlink", "link", "front", "prev"}

\* What a lookup is moving to the front was used last
HitInFront ==
  \A t \in Loaders : splice[t].stage \in Moving =>
    Len(recency) # 0 /\ recency[1] = key[running[t]]

\* One lookup at most is moving a node, and each thread is inside its own call
Apart ==
  /\ \A t, u \in Loaders :
       splice[t].stage \in Moving /\ splice[u].stage \in Moving => t = u
  /\ \A t, u \in Loaders :
       running[t] = running[u] /\ running[t] # Assets!None => t = u

\* The ring has the nodes in the order of use, or the splice under way is
\* about to bring it there
Pointers ==
  /\ (\A t \in Loaders : splice[t].stage \notin Moving) =>
       Forward(next, ByUse) /\ Backward(prev, ByUse)
  /\ \A t \in Loaders : splice[t].stage \in Moving =>
       \E j \in 2 .. Len(recency) : Splices(next, prev, ByUse, splice[t], j)

\* The inductive invariant of the asset cache, until lookups overlap.
AssetInv ==
  /\ Assets!TypeOK /\ CacheMapped /\ UseMatches /\ HitInFront /\ Apart
  /\ Pointers

\* A lookup under way, and a list of what is in the map
LEMMA AssetFacts ==
  ASSUME AssetInv
  PROVE  /\ MaxLoads \in Nat /\ MaxUse \in Nat \ {0} /\ NoKey \notin Keys
         /\ 0 \notin Assets!Loads
         /\ DOMAIN cache \subseteq Keys
         /\ \A k \in DOMAIN cache : cache[k] \in Assets!Loads
         /\ Len(recency) \in Nat /\ DOMAIN recency = 1 .. Len(recency)
         /\ ByUse \in Seq(Assets!Loads) /\ Len(ByUse) = Len(recency)
         /\ Distinct(ByUse)
         /\ \A i \in 1 .. Len(recency) : ByUse[i] = cache[recency[i]]
         /\ \A t \in Loaders : splice[t].stage \in Moving => running[t] # 0
         /\ \A t \in Loaders : running[t] # 0 =>
              /\ running[t] \in Assets!Loads /\ pc[running[t]] = "hit"
              /\ splice[t].stage \in Moving \cup {"done"}
<1>1. MaxLoads \in Nat /\ MaxUse \in Nat \ {0} /\ NoKey \notin Keys
  BY PartsAssumption DEF Assets!CacheAllowed
<1>2. 0 \notin Assets!Loads
  BY <1>1 DEF Assets!Loads
<1>3. /\ DOMAIN cache \subseteq Keys
      /\ \A k \in DOMAIN cache : cache[k] \in Assets!Loads
  BY DEF AssetInv, Assets!TypeOK, CacheMapped
<1>4. Len(recency) \in Nat /\ DOMAIN recency = 1 .. Len(recency)
  BY LenProperties DEF AssetInv, Assets!TypeOK
<1>5. \A i \in 1 .. Len(recency) : ByUse[i] = cache[recency[i]]
  BY DEF ByUse
<1>6. ByUse \in Seq(Assets!Loads) /\ Len(ByUse) = Len(recency)
  <2> DEFINE n == Len(recency)
  <2>1. \A i \in 1 .. n : cache[recency[i]] \in Assets!Loads
    BY <1>3 DEF AssetInv, UseMatches
  <2>2. n \in Nat /\ ByUse = [i \in 1 .. n |-> cache[recency[i]]]
    BY <1>4 DEF ByUse
  <2> HIDE DEF n
  <2>3. [i \in 1 .. n |-> cache[recency[i]]] \in Seq(Assets!Loads)
        /\ Len([i \in 1 .. n |-> cache[recency[i]]]) = n
    BY <2>1, <2>2
  <2> QED BY <2>2, <2>3 DEF n
<1>7. Distinct(ByUse)
  <2> SUFFICES ASSUME NEW i \in 1 .. Len(recency), NEW j \in 1 .. Len(recency),
                      ByUse[i] = ByUse[j]
               PROVE  i = j
    BY <1>6 DEF Distinct
  <2>1. recency[i] \in DOMAIN cache /\ recency[j] \in DOMAIN cache
        /\ cache[recency[i]] = cache[recency[j]]
    BY <1>5 DEF AssetInv, UseMatches
  <2>2. recency[i] = recency[j]
    BY <2>1 DEF AssetInv, CacheMapped
  <2> QED BY <2>2 DEF AssetInv, UseMatches, Distinct
<1>8. \A t \in Loaders : IF running[t] = 0 THEN splice[t] = Assets!NoSplice
        ELSE splice[t].stage # "none" /\ pc[running[t]] = "hit"
  BY DEF AssetInv, Assets!TypeOK, Assets!None, Assets!Sentinel
<1>9. \A t \in Loaders : splice[t].stage \in Moving => running[t] # 0
  BY <1>8 DEF Assets!NoSplice, Moving
<1>10. ASSUME NEW t \in Loaders, running[t] # 0
       PROVE  /\ running[t] \in Assets!Loads /\ pc[running[t]] = "hit"
              /\ splice[t].stage \in Moving \cup {"done"}
  <2>1. running[t] \in Assets!Nodes /\ splice[t].stage \in Assets!Stages
    BY DEF AssetInv, Assets!TypeOK
  <2> QED BY <1>8, <1>10, <2>1
          DEF Assets!Stages, Moving, Assets!Nodes, Assets!Sentinel
<1> QED BY <1>1, <1>2, <1>3, <1>4, <1>5, <1>6, <1>7, <1>9, <1>10

\* As many keys are in the map as were used and not dropped.
LEMMA UseCounts ==
  ASSUME AssetInv PROVE Assets!Cardinality(DOMAIN cache) = Len(recency)
<1> DEFINE n == Len(recency)
<1>1. n \in Nat /\ DOMAIN recency = 1 .. n
  BY AssetFacts
<1>2. /\ \A i \in 1 .. n : recency[i] \in DOMAIN cache
      /\ \A k \in DOMAIN cache : \E i \in 1 .. n : recency[i] = k
      /\ \A i, j \in 1 .. n : recency[i] = recency[j] => i = j
      /\ recency \in Seq(Keys)
  BY DEF AssetInv, UseMatches, Distinct, Assets!TypeOK
<1> HIDE DEF n
<1>3. recency = [i \in 1 .. n |-> recency[i]]
  BY <1>1, <1>2, LenProperties DEF n
<1>4. recency \in [1 .. n -> DOMAIN cache]
  BY <1>2, <1>3
<1>5. recency \in Bijection(1 .. n, DOMAIN cache)
  BY <1>2, <1>4 DEF Bijection, Injection, Surjection, IsInjective
<1>6. Cardinality(DOMAIN cache) = n
  BY <1>1, <1>5, FS_CountingElements DEF ExistsBijection
<1> QED BY <1>6, SameCount DEF n

\* A step of one call that leaves the map and the list alone.
LEMMA CallKeeps ==
  ASSUME AssetInv, NEW l \in Assets!Loads, l \notin {cache[k] : k \in DOMAIN cache},
         NEW p, pc' = [pc EXCEPT ![l] = p], NEW k, key' = [key EXCEPT ![l] = k],
         k \in Keys \cup {NoKey}, p = "loading" => k \in Keys,
         p \in {"hit", "loading", "returned"}, UNCHANGED cache
  PROVE  /\ CacheMapped'
         /\ pc' \in [Assets!Loads -> {"idle", "hit", "loading", "returned"}]
         /\ key' \in [Assets!Loads -> Keys \cup {NoKey}]
         /\ pc'[l] = p /\ key'[l] = k
         /\ \A m \in Assets!Loads : m # l => pc'[m] = pc[m] /\ key'[m] = key[m]
<1>1. /\ pc \in [Assets!Loads -> {"idle", "hit", "loading", "returned"}]
      /\ key \in [Assets!Loads -> Keys \cup {NoKey}]
      /\ CacheMapped
  BY DEF AssetInv, Assets!TypeOK
<1>2. /\ pc'[l] = p /\ key'[l] = k
      /\ \A m \in Assets!Loads : m # l => pc'[m] = pc[m] /\ key'[m] = key[m]
  BY <1>1
<1>3. ASSUME NEW h \in DOMAIN cache
      PROVE  /\ cache[h] \in Assets!Loads /\ key'[cache[h]] = h
             /\ pc'[cache[h]] = "returned"
  <2>1. cache[h] \in Assets!Loads /\ cache[h] # l /\ key[cache[h]] = h
        /\ pc[cache[h]] = "returned"
    BY <1>1 DEF CacheMapped
  <2> QED BY <1>2, <2>1
<1>4. \A m \in Assets!Loads : pc'[m] = "loading" => key'[m] \in Keys
  BY <1>1, <1>2 DEF CacheMapped
<1> QED BY <1>1, <1>2, <1>3, <1>4 DEF CacheMapped

\* Only a call that has returned can have a node in the map.
LEMMA NotInMap ==
  ASSUME AssetInv, NEW l \in Assets!Loads, pc[l] # "returned"
  PROVE  l \notin {cache[k] : k \in DOMAIN cache}
BY DEF AssetInv, CacheMapped

LEMMA MissKeeps ==
  ASSUME AssetInv, NEW l \in Assets!Loads, NEW k \in Keys, NEW t \in Loaders,
         Assets!Miss(l, k, t)
  PROVE  AssetInv'
<1>1. /\ pc' = [pc EXCEPT ![l] = "loading"] /\ key' = [key EXCEPT ![l] = k]
      /\ UNCHANGED <<next, prev, cache, running, splice, recency, overlapped>>
      /\ pc[l] = "idle"
  BY DEF Assets!Miss, Assets!Calls, Assets!listVars, Assets!lockVars
<1>2. l \notin {cache[h] : h \in DOMAIN cache}
  BY <1>1, NotInMap
<1>3. /\ CacheMapped'
      /\ pc' \in [Assets!Loads -> {"idle", "hit", "loading", "returned"}]
      /\ key' \in [Assets!Loads -> Keys \cup {NoKey}]
      /\ \A m \in Assets!Loads : m # l => pc'[m] = pc[m] /\ key'[m] = key[m]
  BY <1>1, <1>2, CallKeeps
<1>4. \A u \in Loaders : running[u] # 0 =>
        /\ pc'[running[u]] = "hit" /\ key'[running[u]] = key[running[u]]
  BY <1>1, <1>3, AssetFacts
<1>5. Assets!TypeOK'
  BY <1>1, <1>3, <1>4 DEF AssetInv, Assets!TypeOK, Assets!None, Assets!Sentinel
<1>6. UseMatches' /\ Pointers'
  BY <1>1 DEF AssetInv, UseMatches, Pointers, ByUse
<1>7. HitInFront' /\ Apart'
  BY <1>1, <1>4, AssetFacts DEF AssetInv, HitInFront, Apart
<1> QED BY <1>3, <1>5, <1>6, <1>7 DEF AssetInv

LEMMA ThrowKeeps ==
  ASSUME AssetInv, NEW l \in Assets!Loads, Assets!LoadThrows(l)
  PROVE  AssetInv'
<1>1. /\ pc' = [pc EXCEPT ![l] = "returned"] /\ key' = [key EXCEPT ![l] = NoKey]
      /\ UNCHANGED <<next, prev, cache, running, splice, recency, overlapped>>
      /\ pc[l] = "loading"
  BY DEF Assets!LoadThrows, Assets!listVars, Assets!lockVars
<1>2. l \notin {cache[h] : h \in DOMAIN cache}
  BY <1>1, NotInMap
<1>3. /\ CacheMapped'
      /\ pc' \in [Assets!Loads -> {"idle", "hit", "loading", "returned"}]
      /\ key' \in [Assets!Loads -> Keys \cup {NoKey}]
      /\ \A m \in Assets!Loads : m # l => pc'[m] = pc[m] /\ key'[m] = key[m]
  <2>1. /\ NoKey \in Keys \cup {NoKey} /\ UNCHANGED cache
        /\ "returned" \in {"hit", "loading", "returned"}
        /\ "returned" # "loading"
    BY <1>1
  <2>2. PICK p, k : p = "returned" /\ k = NoKey
    OBVIOUS
  <2>3. pc' = [pc EXCEPT ![l] = p] /\ key' = [key EXCEPT ![l] = k]
    BY <1>1, <2>2
  <2>4. /\ k \in Keys \cup {NoKey} /\ (p = "loading" => k \in Keys)
        /\ p \in {"hit", "loading", "returned"}
    BY <2>1, <2>2
  <2> QED BY <1>1, <1>2, <2>1, <2>3, <2>4, CallKeeps
<1>4. \A u \in Loaders : running[u] # 0 =>
        /\ pc'[running[u]] = "hit" /\ key'[running[u]] = key[running[u]]
  BY <1>1, <1>3, AssetFacts
<1>5. Assets!TypeOK'
  BY <1>1, <1>3, <1>4 DEF AssetInv, Assets!TypeOK, Assets!None, Assets!Sentinel
<1>6. UseMatches' /\ Pointers'
  BY <1>1 DEF AssetInv, UseMatches, Pointers, ByUse
<1>7. HitInFront' /\ Apart'
  BY <1>1, <1>4, AssetFacts DEF AssetInv, HitInFront, Apart
<1> QED BY <1>3, <1>5, <1>6, <1>7 DEF AssetInv

LEMMA ReturnKeeps ==
  ASSUME AssetInv, NEW t \in Loaders,
         Assets!ReturnHit(t)
  PROVE  AssetInv'
<1> DEFINE l == running[t]
<1>1. /\ pc' = [pc EXCEPT ![l] = "returned"] /\ key' = [key EXCEPT ![l] = NoKey]
      /\ running' = [running EXCEPT ![t] = Assets!None]
      /\ splice' = [splice EXCEPT ![t] = Assets!NoSplice]
      /\ UNCHANGED <<next, prev, cache, recency, overlapped>> /\ splice[t].stage = "done"
  BY DEF Assets!ReturnHit, Assets!listVars
<1>2. /\ running \in [Loaders -> Assets!Nodes] /\ Assets!None \in Assets!Nodes
      /\ splice \in [Loaders -> [stage : Assets!Stages, where : Assets!Nodes,
           last : Assets!Nodes, firstPrev : Assets!Nodes,
           lastPrev : Assets!Nodes, wherePrev : Assets!Nodes]]
  BY DEF AssetInv, Assets!TypeOK, Assets!None, Assets!Nodes
<1>3. l # 0
  BY <1>1 DEF AssetInv, Assets!TypeOK, Assets!NoSplice, Assets!None, Assets!Sentinel
<1>4. l \in Assets!Loads /\ pc[l] = "hit"
  BY <1>3, AssetFacts
<1>5. l \notin {cache[h] : h \in DOMAIN cache}
  BY <1>4, NotInMap
<1> HIDE DEF l
<1>6. /\ CacheMapped'
      /\ pc' \in [Assets!Loads -> {"idle", "hit", "loading", "returned"}]
      /\ key' \in [Assets!Loads -> Keys \cup {NoKey}]
  <2>1. /\ NoKey \in Keys \cup {NoKey} /\ UNCHANGED cache
        /\ "returned" \in {"hit", "loading", "returned"}
        /\ "returned" # "loading"
    BY <1>1
  <2>2. PICK p, k : p = "returned" /\ k = NoKey
    OBVIOUS
  <2>3. pc' = [pc EXCEPT ![l] = p] /\ key' = [key EXCEPT ![l] = k]
    BY <1>1, <2>2
  <2>4. /\ k \in Keys \cup {NoKey} /\ (p = "loading" => k \in Keys)
        /\ p \in {"hit", "loading", "returned"}
    BY <2>1, <2>2
  <2> QED BY <1>1, <1>4, <1>5, <2>1, <2>3, <2>4, CallKeeps
<1>7. /\ running'[t] = Assets!None /\ splice'[t] = Assets!NoSplice
      /\ \A u \in Loaders : u # t =>
           running'[u] = running[u] /\ splice'[u] = splice[u]
  BY <1>1, <1>2
<1>8. Assets!NoSplice \in [stage : Assets!Stages, where : Assets!Nodes,
           last : Assets!Nodes, firstPrev : Assets!Nodes,
           lastPrev : Assets!Nodes, wherePrev : Assets!Nodes]
  BY <1>2 DEF Assets!NoSplice, Assets!Stages
<1>9. ASSUME NEW u \in Loaders, u # t, running[u] # 0
      PROVE  /\ running[u] # l /\ running[u] \in Assets!Loads
             /\ pc'[running[u]] = "hit" /\ key'[running[u]] = key[running[u]]
  <2>1. running[u] # l
    BY <1>3, <1>9 DEF AssetInv, Apart, Assets!None, Assets!Sentinel, l
  <2>2. running[u] \in Assets!Loads /\ pc[running[u]] = "hit"
    BY <1>9, AssetFacts
  <2>3. /\ pc \in [Assets!Loads -> {"idle", "hit", "loading", "returned"}]
        /\ key \in [Assets!Loads -> Keys \cup {NoKey}]
        /\ pc' = [pc EXCEPT ![l] = "returned"] /\ key' = [key EXCEPT ![l] = NoKey]
    BY <1>1 DEF AssetInv, Assets!TypeOK, l
  <2> QED BY <2>1, <2>2, <2>3
<1>10. Assets!TypeOK'
  <2>1. ASSUME NEW u \in Loaders
        PROVE  IF running'[u] = Assets!None THEN splice'[u] = Assets!NoSplice
               ELSE splice'[u].stage # "none" /\ pc'[running'[u]] = "hit"
    <3>1. CASE u = t
      BY <1>7, <3>1
    <3>2. CASE u # t
      BY <1>7, <1>9, <3>2 DEF AssetInv, Assets!TypeOK, Assets!None, Assets!Sentinel
    <3> QED BY <3>1, <3>2
  <2>2. running' \in [Loaders -> Assets!Nodes]
    BY <1>1, <1>2
  <2>3. splice' \in [Loaders -> [stage : Assets!Stages, where : Assets!Nodes,
             last : Assets!Nodes, firstPrev : Assets!Nodes,
             lastPrev : Assets!Nodes, wherePrev : Assets!Nodes]]
    BY <1>1, <1>2, <1>8
  <2> QED BY <1>1, <1>6, <2>1, <2>2, <2>3 DEF AssetInv, Assets!TypeOK
<1>11. UseMatches'
  BY <1>1 DEF AssetInv, UseMatches
<1>12. \A u \in Loaders : splice'[u].stage \in Moving =>
         u # t /\ running[u] # 0 /\ splice[u].stage \in Moving
  BY <1>7, AssetFacts DEF Moving, Assets!NoSplice
<1>13. HitInFront'
  <2>1. ASSUME NEW u \in Loaders, splice'[u].stage \in Moving
        PROVE  Len(recency') # 0 /\ recency'[1] = key'[running'[u]]
    BY <1>1, <1>7, <1>9, <1>12, <2>1 DEF AssetInv, HitInFront
  <2> QED BY <2>1 DEF HitInFront
<1>14. Apart'
  BY <1>7, <1>12 DEF AssetInv, Apart
<1>15. Pointers'
  <2>1. \A u \in Loaders : splice'[u].stage \in Moving <=> splice[u].stage \in Moving
    BY <1>1, <1>7 DEF Moving, Assets!NoSplice
  <2>2. \A u \in Loaders : splice'[u].stage \in Moving => splice'[u] = splice[u]
    BY <1>7, <1>12
  <2> QED BY <1>1, <2>1, <2>2 DEF AssetInv, Pointers, ByUse
<1> QED BY <1>6, <1>10, <1>11, <1>13, <1>14, <1>15 DEF AssetInv

\* The lookup moves a key to the front.
LEMMA TouchedFacts ==
  ASSUME NEW s \in Seq(Keys), s = recency, Distinct(s), NEW j \in 1 .. Len(s),
         NEW r, r = Assets!Touched(s[j])
  PROVE  /\ r \in Seq(Keys) /\ MovedUp(s, j, r)
<1> DEFINE n == Len(s)
           f == Assets!RemoveFirst(s, s[j])
<1>1. n \in Nat /\ n >= 1 /\ j \in 1 .. n /\ s[j] \in Keys
  BY LenProperties, ElementOfSeq
<1>2. /\ f \in Seq(Keys) /\ Len(f) = n - 1
      /\ \A i \in 1 .. n - 1 : f[i] = IF i < j THEN s[i] ELSE s[i + 1]
  BY RemoveFirstFacts
<1>3. r = <<s[j]>> \o f
  BY DEF Assets!Touched
<1> HIDE DEF f, n
<1>4. /\ <<s[j]>> \in Seq(Keys) /\ Len(<<s[j]>>) = 1 /\ <<s[j]>>[1] = s[j]
  BY <1>1
<1>5. /\ r \in Seq(Keys) /\ Len(r) = 1 + (n - 1)
      /\ \A i \in 1 .. 1 + (n - 1) :
           r[i] = IF i <= 1 THEN <<s[j]>>[i] ELSE f[i - 1]
  <2>1. /\ <<s[j]>> \o f \in Seq(Keys)
        /\ Len(<<s[j]>> \o f) = Len(<<s[j]>>) + Len(f)
        /\ \A i \in 1 .. Len(<<s[j]>>) + Len(f) :
             (<<s[j]>> \o f)[i] = IF i <= Len(<<s[j]>>) THEN <<s[j]>>[i]
                                  ELSE f[i - Len(<<s[j]>>)]
    BY <1>2, <1>4, ConcatProperties
  <2> QED BY <1>2, <1>3, <1>4, <2>1, Zenon
<1>6. Len(r) = n /\ r[1] = s[j] /\ \A i \in 2 .. n : r[i] = f[i - 1]
  <2>1. 1 + (n - 1) = n /\ 1 \in 1 .. n /\ 1 <= 1
        /\ \A i \in 2 .. n : i \in 1 .. n /\ ~ (i <= 1)
    BY <1>1
  <2> HIDE DEF f
  <2>2. \A i \in 1 .. n : r[i] = IF i <= 1 THEN <<s[j]>>[i] ELSE f[i - 1]
    BY <1>5, <2>1
  <2>3. r[1] = s[j]
    BY <1>4, <2>1, <2>2
  <2>4. \A i \in 2 .. n : r[i] = f[i - 1]
    BY <2>1, <2>2
  <2> QED BY <1>5, <2>1, <2>3, <2>4
<1>7. ASSUME NEW i \in 1 .. n, i < j PROVE r[i + 1] = s[i]
  <2>1. i + 1 \in 2 .. n /\ (i + 1) - 1 = i /\ i \in 1 .. n - 1
    BY <1>1, <1>7
  <2> QED BY <1>2, <1>6, <1>7, <2>1
<1>8. ASSUME NEW i \in 1 .. n, i > j PROVE r[i] = s[i]
  <2>1. i \in 2 .. n /\ (i - 1) + 1 = i /\ i - 1 \in 1 .. n - 1 /\ ~ (i - 1 < j)
    BY <1>1, <1>8
  <2> QED BY <1>2, <1>6, <2>1
<1> QED BY <1>5, <1>6, <1>7, <1>8 DEF MovedUp, n

\* Moving an element loses none and doubles none.
LEMMA MovedUpFacts ==
  ASSUME NEW S, NEW s \in Seq(S), Distinct(s), NEW j \in 1 .. Len(s), NEW r,
         MovedUp(s, j, r)
  PROVE  /\ Distinct(r)
         /\ \A i \in 1 .. Len(s) : \E h \in 1 .. Len(s) : r[i] = s[h]
         /\ \A h \in 1 .. Len(s) : \E i \in 1 .. Len(s) : r[i] = s[h]
<1> DEFINE n == Len(s)
           from(i) == IF i = 1 THEN j ELSE IF i <= j THEN i - 1 ELSE i
<1>1. n \in Nat /\ Len(r) = n /\ j \in 1 .. n
  BY LenProperties DEF MovedUp
<1>2. /\ r[1] = s[j]
      /\ \A i \in 1 .. n : /\ i < j => r[i + 1] = s[i]
                           /\ i > j => r[i] = s[i]
      /\ \A i, h \in 1 .. n : s[i] = s[h] => i = h
  BY DEF MovedUp, Distinct
<1> HIDE DEF n
<1>3. ASSUME NEW i \in 1 .. n PROVE from(i) \in 1 .. n /\ r[i] = s[from(i)]
  <2>1. CASE i = 1
    BY <1>1, <1>2, <2>1
  <2>2. CASE i # 1 /\ i <= j
    <3>1. i - 1 \in 1 .. n /\ i - 1 < j /\ (i - 1) + 1 = i
      BY <1>1, <2>2
    <3> QED BY <1>2, <2>2, <3>1
  <2>3. CASE i # 1 /\ ~ (i <= j)
    BY <1>1, <1>2, <2>3
  <2> QED BY <2>1, <2>2, <2>3
<1>4. ASSUME NEW i \in 1 .. n, NEW h \in 1 .. n, from(i) = from(h) PROVE i = h
  BY <1>1, <1>4
<1>5. ASSUME NEW h \in 1 .. n PROVE \E i \in 1 .. n : r[i] = s[h]
  <2>1. CASE h = j
    BY <1>1, <1>2, <2>1
  <2>2. CASE h < j
    <3>1. h + 1 \in 1 .. n
      BY <1>1, <2>2
    <3> QED BY <1>2, <2>2, <3>1
  <2>3. CASE h > j
    BY <1>2, <2>3
  <2> QED BY <1>1, <2>1, <2>2, <2>3
<1> HIDE DEF from
<1>6. ASSUME NEW i \in 1 .. n, NEW h \in 1 .. n, r[i] = r[h] PROVE i = h
  <2>1. from(i) = from(h)
    BY <1>2, <1>3, <1>6
  <2> QED BY <1>4, <2>1
<1> QED BY <1>1, <1>3, <1>5, <1>6 DEF Distinct, n

LEMMA HitKeeps ==
  ASSUME AssetInv, NEW l \in Assets!Loads, NEW k \in Keys, NEW t \in Loaders,
         Assets!Hit(l, k, t), ~ overlapped'
  PROVE  AssetInv'
<1> DEFINE n == Len(recency)
           p == splice'[t]
<1>1. /\ pc[l] = "idle" /\ running[t] = Assets!None /\ k \in DOMAIN cache
      /\ recency' = Assets!Touched(k)
      /\ running' = [running EXCEPT ![t] = l]
      /\ splice' = [splice EXCEPT ![t] =
           [Assets!NoSplice EXCEPT
              !.stage = IF Assets!InPlace(cache[k]) THEN "done" ELSE "unlink",
              !.where = next[Assets!Sentinel], !.last = next[cache[k]]]]
      /\ pc' = [pc EXCEPT ![l] = "hit"] /\ key' = [key EXCEPT ![l] = k]
      /\ overlapped' = (overlapped \/ Assets!Splicing # {})
      /\ UNCHANGED <<next, prev, cache>>
  BY DEF Assets!Hit, Assets!Calls, Assets!listVars
<1>2. /\ running \in [Loaders -> Assets!Nodes] /\ recency \in Seq(Keys)
      /\ next \in [Assets!Nodes -> Assets!Nodes]
      /\ prev \in [Assets!Nodes -> Assets!Nodes]
      /\ splice \in [Loaders -> [stage : Assets!Stages, where : Assets!Nodes,
           last : Assets!Nodes, firstPrev : Assets!Nodes,
           lastPrev : Assets!Nodes, wherePrev : Assets!Nodes]]
      /\ Distinct(recency)
  BY DEF AssetInv, Assets!TypeOK, UseMatches
<1>3. /\ 0 \notin Assets!Loads /\ n \in Nat /\ Len(ByUse) = n
      /\ ByUse \in Seq(Assets!Loads) /\ Distinct(ByUse)
      /\ \A i \in 1 .. n : ByUse[i] = cache[recency[i]]
      /\ \A h \in DOMAIN cache : cache[h] \in Assets!Loads
  BY AssetFacts
<1>4. Assets!Sentinel \in Assets!Nodes /\ l \in Assets!Nodes /\ l # 0
      /\ cache[k] \in Assets!Nodes
  BY <1>1, <1>3 DEF Assets!Nodes, Assets!Sentinel
<1>5. /\ running'[t] = l
      /\ \A u \in Loaders : u # t =>
           running'[u] = running[u] /\ splice'[u] = splice[u]
      /\ p.stage = IF Assets!InPlace(cache[k]) THEN "done" ELSE "unlink"
      /\ p.where = next[Assets!Sentinel] /\ p.last = next[cache[k]]
      /\ p \in [stage : Assets!Stages, where : Assets!Nodes,
           last : Assets!Nodes, firstPrev : Assets!Nodes,
           lastPrev : Assets!Nodes, wherePrev : Assets!Nodes]
  <2> DEFINE q == [Assets!NoSplice EXCEPT
              !.stage = IF Assets!InPlace(cache[k]) THEN "done" ELSE "unlink",
              !.where = next[Assets!Sentinel], !.last = next[cache[k]]]
  <2>1. /\ q.stage = IF Assets!InPlace(cache[k]) THEN "done" ELSE "unlink"
        /\ q.where = next[Assets!Sentinel] /\ q.last = next[cache[k]]
        /\ q \in [stage : Assets!Stages, where : Assets!Nodes,
             last : Assets!Nodes, firstPrev : Assets!Nodes,
             lastPrev : Assets!Nodes, wherePrev : Assets!Nodes]
    BY <1>2, <1>4 DEF Assets!NoSplice, Assets!Stages, Assets!None
  <2>2. splice' = [splice EXCEPT ![t] = q]
    BY <1>1
  <2> HIDE DEF q
  <2>3. p = q
    BY <1>2, <2>2
  <2>4. /\ running'[t] = l
        /\ \A u \in Loaders : u # t =>
             running'[u] = running[u] /\ splice'[u] = splice[u]
    BY <1>1, <1>2
  <2> QED BY <2>1, <2>3, <2>4, Zenon
<1>6. \A u \in Loaders : splice[u].stage \notin Moving
  <2>1. Assets!Splicing = {}
    BY <1>1
  <2> QED BY <2>1 DEF Assets!Splicing, Moving
<1>7. Forward(next, ByUse) /\ Backward(prev, ByUse)
  BY <1>6 DEF AssetInv, Pointers
<1>8. PICK j \in 1 .. n : recency[j] = k
  BY <1>1 DEF AssetInv, UseMatches
<1>9. recency' \in Seq(Keys) /\ MovedUp(recency, j, recency')
  BY <1>1, <1>2, <1>8, TouchedFacts
<1>10. /\ Distinct(recency') /\ Len(recency') = n /\ recency'[1] = k
       /\ \A i \in 1 .. n : \E h \in 1 .. n : recency'[i] = recency[h]
       /\ \A h \in 1 .. n : \E i \in 1 .. n : recency'[i] = recency[h]
  <2>1. Len(recency') = n /\ recency'[1] = recency[j]
    BY <1>9 DEF MovedUp
  <2>2. /\ Distinct(recency')
        /\ \A i \in 1 .. n : \E h \in 1 .. n : recency'[i] = recency[h]
        /\ \A h \in 1 .. n : \E i \in 1 .. n : recency'[i] = recency[h]
    <3>1. PICK s, r : s = recency /\ r = recency'
      OBVIOUS
    <3>2. /\ s \in Seq(Keys) /\ Distinct(s) /\ j \in 1 .. Len(s)
          /\ MovedUp(s, j, r)
      BY <1>2, <1>8, <1>9, <3>1
    <3>3. Distinct(r)
      BY <3>2, MovedUpFacts
    <3>4. \A i \in 1 .. Len(s) : \E h \in 1 .. Len(s) : r[i] = s[h]
      BY <3>2, MovedUpFacts
    <3>5. \A h \in 1 .. Len(s) : \E i \in 1 .. Len(s) : r[i] = s[h]
      BY <3>2, MovedUpFacts
    <3> QED BY <3>1, <3>3, <3>4, <3>5
  <2> QED BY <1>8, <2>1, <2>2
<1>11. l \notin {cache[h] : h \in DOMAIN cache}
  BY <1>1, NotInMap
<1>12. /\ CacheMapped'
       /\ pc' \in [Assets!Loads -> {"idle", "hit", "loading", "returned"}]
       /\ key' \in [Assets!Loads -> Keys \cup {NoKey}]
       /\ pc'[l] = "hit" /\ key'[l] = k
  <2>1. PICK h : h = "hit"
    OBVIOUS
  <2>2. /\ pc' = [pc EXCEPT ![l] = h] /\ h \in {"hit", "loading", "returned"}
        /\ (h = "loading" => k \in Keys) /\ k \in Keys \cup {NoKey}
        /\ key' = [key EXCEPT ![l] = k] /\ UNCHANGED cache
    BY <1>1, <2>1
  <2>3. /\ CacheMapped'
        /\ pc' \in [Assets!Loads -> {"idle", "hit", "loading", "returned"}]
        /\ key' \in [Assets!Loads -> Keys \cup {NoKey}]
        /\ pc'[l] = h /\ key'[l] = k
    BY <1>11, <2>2, CallKeeps
  <2> QED BY <2>1, <2>3
<1> HIDE DEF p
<1>13. ASSUME NEW u \in Loaders, u # t, running[u] # 0
       PROVE  running[u] # l /\ pc'[running[u]] = "hit"
  <2>1. running[u] \in Assets!Loads /\ pc[running[u]] = "hit"
    BY <1>13, AssetFacts
  <2>2. /\ pc \in [Assets!Loads -> {"idle", "hit", "loading", "returned"}]
        /\ pc' = [pc EXCEPT ![l] = "hit"] /\ pc[l] = "idle"
    BY <1>1 DEF AssetInv, Assets!TypeOK
  <2> QED BY <2>1, <2>2
<1>20. Assets!TypeOK'
  <2>1. running' \in [Loaders -> Assets!Nodes]
    BY <1>1, <1>2, <1>4
  <2>2. splice' \in [Loaders -> [stage : Assets!Stages, where : Assets!Nodes,
             last : Assets!Nodes, firstPrev : Assets!Nodes,
             lastPrev : Assets!Nodes, wherePrev : Assets!Nodes]]
    <3>1. splice' = [splice EXCEPT ![t] = p]
      BY <1>1, <1>2 DEF p
    <3> QED BY <1>2, <1>5, <3>1
  <2>3. ASSUME NEW u \in Loaders
        PROVE  IF running'[u] = Assets!None THEN splice'[u] = Assets!NoSplice
               ELSE splice'[u].stage # "none" /\ pc'[running'[u]] = "hit"
    <3>1. CASE u = t
      BY <1>4, <1>5, <1>12, <3>1 DEF p, Assets!None, Assets!Sentinel
    <3>2. CASE u # t
      BY <1>5, <1>13, <3>2
         DEF AssetInv, Assets!TypeOK, Assets!None, Assets!Sentinel
    <3> QED BY <3>1, <3>2
  <2>4. overlapped' \in BOOLEAN
    BY <1>1 DEF AssetInv, Assets!TypeOK
  <2> QED BY <1>1, <1>9, <1>12, <2>1, <2>2, <2>3, <2>4 DEF AssetInv, Assets!TypeOK
<1>14. UseMatches'
  <2>1. \A i \in 1 .. n : recency'[i] \in DOMAIN cache
    BY <1>10 DEF AssetInv, UseMatches
  <2>2. \A h \in DOMAIN cache : \E i \in 1 .. n : recency'[i] = h
    BY <1>10 DEF AssetInv, UseMatches
  <2>3. n <= MaxUse + 1
    BY DEF AssetInv, UseMatches
  <2> QED BY <1>1, <1>10, <2>1, <2>2, <2>3 DEF UseMatches
<1>15. HitInFront' /\ Apart'
  <2>1. n # 0
    BY <1>3, <1>8
  <2>2. \A u \in Loaders : splice'[u].stage \in Moving => u = t
    BY <1>5, <1>6
  <2>3. HitInFront'
    BY <1>5, <1>10, <1>12, <2>1, <2>2 DEF HitInFront
  <2>4. \A u \in Loaders : u # t => running'[u] # running'[t]
    BY <1>4, <1>5, <1>13
  <2>5. \A u, v \in Loaders :
          running'[u] = running'[v] /\ running'[u] # Assets!None => u = v
    BY <1>5, <2>4 DEF AssetInv, Apart
  <2> QED BY <2>2, <2>3, <2>5 DEF Apart
<1>16. /\ At(ByUse, 0) = Assets!Sentinel /\ At(ByUse, j) = cache[k]
       /\ next[Assets!Sentinel] = At(ByUse, 1)
       /\ next[cache[k]] = At(ByUse, j + 1)
       /\ ByUse[j] = cache[k]
  <2>1. At(ByUse, 0) = Assets!Sentinel /\ ByUse[j] = cache[k]
        /\ At(ByUse, j) = ByUse[j]
    BY <1>3, <1>8, PlacesDiffer DEF Assets!Sentinel
  <2>2. 0 \in 0 .. n /\ 0 + 1 = 1 /\ j \in 0 .. n
    BY <1>3
  <2> QED BY <1>3, <1>7, <2>1, <2>2 DEF Forward
<1>17. MovedUp(ByUse, j, ByUse')
  <2>1. /\ Len(ByUse') = n
        /\ \A i \in 1 .. n : ByUse'[i] = cache[recency'[i]]
    BY <1>1, <1>3, <1>10 DEF ByUse
  <2>2. 1 \in 1 .. n
    BY <1>3
  <2>3. ASSUME NEW i \in 1 .. n
        PROVE  /\ i < j => ByUse'[i + 1] = ByUse[i]
               /\ i > j => ByUse'[i] = ByUse[i]
    <3>1. i < j => i + 1 \in 1 .. n
      BY <1>3
    <3>2. ByUse[i] = cache[recency[i]]
      BY <1>3
    <3>3. /\ i < j => recency'[i + 1] = recency[i]
          /\ i > j => recency'[i] = recency[i]
      BY <1>9 DEF MovedUp
    <3>4. ASSUME i < j PROVE ByUse'[i + 1] = ByUse[i]
      BY <2>1, <3>1, <3>2, <3>3, <3>4
    <3>5. ASSUME i > j PROVE ByUse'[i] = ByUse[i]
      BY <2>1, <3>2, <3>3, <3>5
    <3> QED BY <3>4, <3>5
  <2> QED BY <1>3, <1>10, <1>16, <2>1, <2>2, <2>3 DEF MovedUp
<1>18. Pointers'
  <2>1. CASE j = 1
    <3>1. Assets!InPlace(cache[k])
      BY <1>16, <2>1 DEF Assets!InPlace
    <3>2. splice'[t].stage = "done"
      BY <1>5, <3>1 DEF p
    <3>3. ByUse' = ByUse
      <4>1. ASSUME NEW i \in 1 .. n PROVE recency'[i] = recency[i]
        <5>1. CASE i = 1
          BY <1>8, <1>10, <2>1, <5>1
        <5>2. CASE i # 1
          <6>1. i > j
            BY <1>3, <2>1, <5>2
          <6> QED BY <1>9, <6>1 DEF MovedUp
        <5> QED BY <5>1, <5>2
      <4> QED BY <1>1, <1>10, <4>1 DEF ByUse
    <3>4. \A u \in Loaders : splice'[u].stage \notin Moving
      BY <1>5, <1>6, <3>2 DEF Moving
    <3> QED BY <1>1, <1>7, <3>3, <3>4 DEF Pointers
  <2>2. CASE j # 1
    <3>1. j \in 2 .. n /\ 1 \in 1 .. n + 1 /\ j + 1 \in 1 .. n + 1
          /\ j \in 1 .. n + 1 /\ 1 # j + 1
      BY <1>3, <2>2
    <3>2. At(ByUse, 1) # At(ByUse, j) /\ At(ByUse, 1) # At(ByUse, j + 1)
      BY <1>3, <2>2, <3>1, PlacesDiffer
    <3>3. ~ Assets!InPlace(cache[k])
      BY <1>16, <3>2 DEF Assets!InPlace
    <3>4. p.stage = "unlink"
      BY <1>5, <3>3
    <3>5. Splices(next, prev, ByUse', p, j)
      BY <1>3, <1>5, <1>7, <1>16, <1>17, <3>1, <3>4, SpliceBegins
    <3>6. \E i \in 2 .. Len(recency') : Splices(next, prev, ByUse', p, i)
      BY <1>10, <3>1, <3>5
    <3>7. /\ splice'[t] = p
          /\ \A u \in Loaders : splice'[u].stage \in Moving => u = t
      BY <1>5, <1>6 DEF p
    <3>8. p.stage \in Moving
      BY <3>4 DEF Moving
    <3> QED BY <1>1, <3>6, <3>7, <3>8 DEF Pointers
  <2> QED BY <2>1, <2>2
<1> QED BY <1>12, <1>14, <1>15, <1>18, <1>20 DEF AssetInv

\* The three pointers forward.
LEMMA SpliceKeeps ==
  ASSUME AssetInv, NEW t \in Loaders,
         Assets!Unlink(t) \/ Assets!LinkNode(t) \/ Assets!LinkFront(t)
  PROVE  AssetInv'
<1> DEFINE p == splice[t]
           q == splice'[t]
           m == cache[key[running[t]]]
<1>1. /\ UNCHANGED <<pc, key, prev, cache, running, recency, overlapped>>
      /\ p.stage \in Moving
  BY DEF Assets!Unlink, Assets!LinkNode, Assets!LinkFront, Assets!callVars, Moving
<1>2. /\ splice \in [Loaders -> [stage : Assets!Stages, where : Assets!Nodes,
           last : Assets!Nodes, firstPrev : Assets!Nodes,
           lastPrev : Assets!Nodes, wherePrev : Assets!Nodes]]
      /\ next \in [Assets!Nodes -> Assets!Nodes]
      /\ prev \in [Assets!Nodes -> Assets!Nodes]
      /\ p.where \in Assets!Nodes /\ p.last \in Assets!Nodes
      /\ \A u \in Loaders : splice[u].stage \in Moving => u = t
  BY <1>1 DEF AssetInv, Assets!TypeOK, Apart
<1>3. /\ running[t] # 0 /\ ByUse \in Seq(Assets!Loads) /\ Distinct(ByUse)
      /\ Len(ByUse) = Len(recency) /\ Len(recency) \in Nat
      /\ \A i \in 1 .. Len(recency) : ByUse[i] = cache[recency[i]]
      /\ \A k \in DOMAIN cache : cache[k] \in Assets!Loads
  BY <1>1, AssetFacts
<1>4. PICK j \in 2 .. Len(recency) : Splices(next, prev, ByUse, p, j)
  BY <1>1 DEF AssetInv, Pointers
<1>5. /\ recency[1] = key[running[t]] /\ 1 \in 1 .. Len(recency) /\ m = ByUse[1]
      /\ m \in Assets!Nodes
  <2>1. recency[1] = key[running[t]] /\ 1 \in 1 .. Len(recency)
    BY <1>1, <1>3 DEF AssetInv, HitInFront
  <2>2. recency[1] \in DOMAIN cache
    BY <2>1 DEF AssetInv, UseMatches
  <2> QED BY <1>3, <2>1, <2>2 DEF Assets!Nodes
<1>6. /\ prev[m] \in Assets!Nodes /\ prev[p.last] \in Assets!Nodes
      /\ prev[p.where] \in Assets!Nodes
  BY <1>2, <1>5
<1>7. /\ q.where = p.where /\ q.last = p.last
      /\ \/ /\ p.stage = "unlink" /\ q.stage = "link"
            /\ next' = [next EXCEPT ![prev[m]] = p.last] /\ q.firstPrev = prev[m]
         \/ /\ p.stage = "link" /\ q.stage = "front"
            /\ next' = [next EXCEPT ![prev[p.last]] = p.where]
            /\ q.firstPrev = p.firstPrev /\ q.lastPrev = prev[p.last]
         \/ /\ p.stage = "front" /\ q.stage = "prev"
            /\ next' = [next EXCEPT ![prev[p.where]] = m]
            /\ q.firstPrev = p.firstPrev /\ q.lastPrev = p.lastPrev
            /\ q.wherePrev = prev[p.where]
      /\ q \in [stage : Assets!Stages, where : Assets!Nodes,
           last : Assets!Nodes, firstPrev : Assets!Nodes,
           lastPrev : Assets!Nodes, wherePrev : Assets!Nodes]
  <2>1. CASE Assets!Unlink(t)
    <3>1. /\ p.stage = "unlink"
          /\ next' = [next EXCEPT ![prev[m]] = p.last]
          /\ splice' = [splice EXCEPT ![t].stage = "link",
                                      ![t].firstPrev = prev[m]]
      BY <2>1 DEF Assets!Unlink
    <3>2. q = [p EXCEPT !.stage = "link", !.firstPrev = prev[m]]
      BY <1>2, <3>1
    <3> HIDE DEF q, p, m
    <3> QED BY <1>2, <1>6, <3>1, <3>2 DEF Assets!Stages, p
  <2>2. CASE Assets!LinkNode(t)
    <3>1. /\ p.stage = "link"
          /\ next' = [next EXCEPT ![prev[p.last]] = p.where]
          /\ splice' = [splice EXCEPT ![t].stage = "front",
                                      ![t].lastPrev = prev[p.last]]
      BY <2>2 DEF Assets!LinkNode
    <3>2. q = [p EXCEPT !.stage = "front", !.lastPrev = prev[p.last]]
      BY <1>2, <3>1
    <3> HIDE DEF q, p, m
    <3> QED BY <1>2, <1>6, <3>1, <3>2 DEF Assets!Stages, p
  <2>3. CASE Assets!LinkFront(t)
    <3>1. /\ p.stage = "front"
          /\ next' = [next EXCEPT ![prev[p.where]] = m]
          /\ splice' = [splice EXCEPT ![t].stage = "prev",
                                      ![t].wherePrev = prev[p.where]]
      BY <2>3 DEF Assets!LinkFront
    <3>2. q = [p EXCEPT !.stage = "prev", !.wherePrev = prev[p.where]]
      BY <1>2, <3>1
    <3> HIDE DEF q, p, m
    <3> QED BY <1>2, <1>6, <3>1, <3>2 DEF Assets!Stages, p
  <2> QED BY <2>1, <2>2, <2>3
<1> HIDE DEF p, q, m
<1>8. Splices(next', prev, ByUse, q, j)
  BY <1>2, <1>3, <1>4, <1>5, <1>7, SpliceGoesOn
<1>9. ByUse' = ByUse
  BY <1>1 DEF ByUse
<1>10. q.stage \in Moving
  BY <1>7 DEF Moving
<1>11. /\ splice'[t] = q
       /\ \A u \in Loaders : u # t => splice'[u] = splice[u]
       /\ \A u \in Loaders : splice'[u].stage \in Moving => u = t
  <2>1. \A u \in Loaders : u # t => splice'[u] = splice[u]
    BY <1>2 DEF Assets!Unlink, Assets!LinkNode, Assets!LinkFront
  <2> QED BY <1>2, <2>1 DEF q
<1>12. Pointers'
  <2>1. \E i \in 2 .. Len(recency') : Splices(next', prev', ByUse', q, i)
    BY <1>1, <1>4, <1>8, <1>9
  <2> QED BY <1>10, <1>11, <2>1 DEF Pointers
<1>13. next' \in [Assets!Nodes -> Assets!Nodes]
  BY <1>2, <1>5, <1>7
<1>14. Assets!TypeOK'
  <2>1. splice' = [splice EXCEPT ![t] = q]
    BY <1>2 DEF q, Assets!Unlink, Assets!LinkNode, Assets!LinkFront
  <2>2. splice' \in [Loaders -> [stage : Assets!Stages, where : Assets!Nodes,
           last : Assets!Nodes, firstPrev : Assets!Nodes,
           lastPrev : Assets!Nodes, wherePrev : Assets!Nodes]]
    BY <1>2, <1>7, <2>1
  <2>3. ASSUME NEW u \in Loaders
        PROVE  IF running[u] = Assets!None THEN splice'[u] = Assets!NoSplice
               ELSE splice'[u].stage # "none" /\ pc[running[u]] = "hit"
    <3>1. CASE u = t
      <4>1. pc[running[t]] = "hit" /\ running[t] # Assets!None
        BY <1>3, AssetFacts DEF Assets!None, Assets!Sentinel
      <4> QED BY <1>10, <1>11, <3>1, <4>1 DEF Moving
    <3>2. CASE u # t
      BY <1>11, <3>2 DEF AssetInv, Assets!TypeOK
    <3> QED BY <3>1, <3>2
  <2> QED BY <1>1, <1>13, <2>2, <2>3 DEF AssetInv, Assets!TypeOK
<1>15. CacheMapped' /\ UseMatches'
  BY <1>1 DEF AssetInv, CacheMapped, UseMatches
<1>16. HitInFront' /\ Apart'
  <2>1. Len(recency) # 0 /\ recency[1] = key[running[t]]
    BY <1>3, <1>5
  <2>2. HitInFront'
    BY <1>1, <1>11, <2>1 DEF HitInFront
  <2>3. Apart'
    BY <1>1, <1>11 DEF AssetInv, Apart
  <2> QED BY <2>2, <2>3
<1> QED BY <1>12, <1>14, <1>15, <1>16 DEF AssetInv

\* The pointers back.
LEMMA LinkBackKeeps ==
  ASSUME AssetInv, NEW t \in Loaders,
         Assets!LinkBack(t)
  PROVE  AssetInv'
<1> DEFINE p == splice[t]
           m == cache[key[running[t]]]
<1>1. /\ UNCHANGED <<pc, key, next, cache, running, recency, overlapped>>
      /\ p.stage = "prev"
      /\ prev' = [prev EXCEPT ![p.where] = p.lastPrev, ![p.last] = p.firstPrev,
                              ![m] = p.wherePrev]
      /\ splice' = [splice EXCEPT ![t].stage = "done"]
  BY DEF Assets!LinkBack, Assets!callVars
<1>2. /\ splice \in [Loaders -> [stage : Assets!Stages, where : Assets!Nodes,
           last : Assets!Nodes, firstPrev : Assets!Nodes,
           lastPrev : Assets!Nodes, wherePrev : Assets!Nodes]]
      /\ prev \in [Assets!Nodes -> Assets!Nodes]
      /\ \A u \in Loaders : splice[u].stage \in Moving => u = t
  BY <1>1 DEF AssetInv, Assets!TypeOK, Apart, Moving
<1>3. /\ running[t] # 0 /\ ByUse \in Seq(Assets!Loads) /\ Distinct(ByUse)
      /\ Len(ByUse) = Len(recency) /\ Len(recency) \in Nat
      /\ \A i \in 1 .. Len(recency) : ByUse[i] = cache[recency[i]]
      /\ pc[running[t]] = "hit"
  BY <1>1, AssetFacts DEF Moving
<1>4. PICK j \in 2 .. Len(recency) : Splices(next, prev, ByUse, p, j)
  BY <1>1 DEF AssetInv, Pointers, Moving
<1>5. m = ByUse[1]
  <2>1. recency[1] = key[running[t]] /\ 1 \in 1 .. Len(recency)
    BY <1>1, <1>3 DEF AssetInv, HitInFront, Moving
  <2> QED BY <1>3, <2>1
<1>6. splice'[t] = [p EXCEPT !.stage = "done"]
  BY <1>1, <1>2
<1>7. p \in [stage : Assets!Stages, where : Assets!Nodes,
           last : Assets!Nodes, firstPrev : Assets!Nodes,
           lastPrev : Assets!Nodes, wherePrev : Assets!Nodes]
  BY <1>2
<1> HIDE DEF p, m
<1>8. /\ splice'[t].stage = "done"
      /\ splice'[t] \in [stage : Assets!Stages, where : Assets!Nodes,
           last : Assets!Nodes, firstPrev : Assets!Nodes,
           lastPrev : Assets!Nodes, wherePrev : Assets!Nodes]
  BY <1>6, <1>7 DEF Assets!Stages
<1>9. Forward(next, ByUse) /\ Backward(prev', ByUse)
  BY <1>1, <1>2, <1>3, <1>4, <1>5, SpliceEnds
<1>14. \A u \in Loaders :
         u # t => splice'[u] = splice[u] /\ splice[u].stage \notin Moving
  BY <1>1, <1>2
<1>10. Pointers'
  <2>1. ByUse' = ByUse
    BY <1>1 DEF ByUse
  <2>2. \A u \in Loaders : splice'[u].stage \notin Moving
    BY <1>8, <1>14 DEF Moving
  <2> QED BY <1>1, <1>9, <2>1, <2>2 DEF Pointers
<1>11. prev' \in [Assets!Nodes -> Assets!Nodes]
  BY <1>1, <1>2, <1>7
<1>12. Assets!TypeOK'
  <2>1. splice' = [splice EXCEPT ![t] = splice'[t]]
    BY <1>1, <1>2
  <2>2. splice' \in [Loaders -> [stage : Assets!Stages, where : Assets!Nodes,
           last : Assets!Nodes, firstPrev : Assets!Nodes,
           lastPrev : Assets!Nodes, wherePrev : Assets!Nodes]]
    BY <1>2, <1>8, <2>1
  <2>3. ASSUME NEW u \in Loaders
        PROVE  IF running[u] = Assets!None THEN splice'[u] = Assets!NoSplice
               ELSE splice'[u].stage # "none" /\ pc[running[u]] = "hit"
    <3>1. CASE u = t
      BY <1>3, <1>8, <3>1 DEF Assets!None, Assets!Sentinel
    <3>2. CASE u # t
      BY <1>14, <3>2 DEF AssetInv, Assets!TypeOK
    <3> QED BY <3>1, <3>2
  <2> QED BY <1>1, <1>11, <2>2, <2>3 DEF AssetInv, Assets!TypeOK
<1>13. CacheMapped' /\ UseMatches'
  BY <1>1 DEF AssetInv, CacheMapped, UseMatches
<1>15. HitInFront' /\ Apart'
  <2>1. \A u \in Loaders : splice'[u].stage \notin Moving
    BY <1>8, <1>14 DEF Moving
  <2> QED BY <1>1, <2>1 DEF AssetInv, HitInFront, Apart
<1> QED BY <1>10, <1>12, <1>13, <1>15 DEF AssetInv

\* What check_max_used leaves of the map, of the list and of the order of use
Popped(kept, list, rem) ==
  /\ rem \in Seq(Keys) /\ Distinct(rem) /\ Len(rem) <= MaxUse
  /\ DOMAIN kept \subseteq DOMAIN cache
  /\ \A i \in 1 .. Len(rem) : rem[i] \in DOMAIN kept
  /\ \A k \in DOMAIN kept : \E i \in 1 .. Len(rem) : rem[i] = k
  /\ \A k \in DOMAIN kept : kept[k] = cache[k] /\ cache[k] \notin Assets!Victims
  /\ \A k \in DOMAIN cache : k \in DOMAIN kept \/ k = recency[Len(recency)]
  /\ \A v \in Assets!Victims : v \in Assets!Loads /\ pc[v] = "returned"
  /\ list.next \in [Assets!Nodes -> Assets!Nodes]
  /\ list.prev \in [Assets!Nodes -> Assets!Nodes]
  /\ Forward(list.next, [i \in 1 .. Len(rem) |-> kept[rem[i]]])
  /\ Backward(list.prev, [i \in 1 .. Len(rem) |-> kept[rem[i]]])

LEMMA PopKeeps ==
  ASSUME AssetInv, Assets!Readers = {},
         NEW rem, rem = IF Assets!Kept = cache THEN recency
                        ELSE Assets!RemoveFirst(recency, key[prev[Assets!Sentinel]]),
         NEW kept, kept = Assets!Kept, NEW list, list = Assets!WithoutVictims
  PROVE  Popped(kept, list, rem)
<1> DEFINE n == Len(recency)
<1>1. /\ recency \in Seq(Keys) /\ Distinct(recency) /\ n <= MaxUse + 1
      /\ \A i \in 1 .. n : recency[i] \in DOMAIN cache
      /\ \A k \in DOMAIN cache : \E i \in 1 .. n : recency[i] = k
      /\ \A k \in DOMAIN cache : key[cache[k]] = k /\ pc[cache[k]] = "returned"
      /\ next \in [Assets!Nodes -> Assets!Nodes]
      /\ prev \in [Assets!Nodes -> Assets!Nodes]
  BY DEF AssetInv, UseMatches, CacheMapped, Assets!TypeOK
<1>2. /\ n \in Nat /\ MaxUse \in Nat \ {0} /\ ByUse \in Seq(Assets!Loads)
      /\ Len(ByUse) = n /\ Distinct(ByUse)
      /\ \A i \in 1 .. n : ByUse[i] = cache[recency[i]]
      /\ \A k \in DOMAIN cache : cache[k] \in Assets!Loads
  BY AssetFacts
<1>3. Forward(next, ByUse) /\ Backward(prev, ByUse)
  <2>1. \A t \in Loaders : splice[t].stage \notin Moving
    BY AssetFacts DEF Assets!Readers, Assets!None, Assets!Sentinel
  <2> QED BY <2>1 DEF AssetInv, Pointers
<1>4. Assets!Victims = IF n > MaxUse THEN {prev[Assets!Sentinel]} ELSE {}
  BY UseCounts DEF Assets!Victims
<1>5. /\ DOMAIN kept = {k \in DOMAIN cache : cache[k] \notin Assets!Victims}
      /\ \A k \in DOMAIN kept : kept[k] = cache[k]
  BY DEF Assets!Kept
<1> HIDE DEF n
<1>6. CASE ~ (n > MaxUse)
  <2>1. Assets!Victims = {} /\ DOMAIN kept = DOMAIN cache
    BY <1>4, <1>5, <1>6
  <2>2. kept = cache
    <3>1. Assets!Kept = [k \in {j \in DOMAIN cache : cache[j] \notin Assets!Victims}
                           |-> cache[k]]
      BY DEF Assets!Kept
    <3>2. {j \in DOMAIN cache : cache[j] \notin Assets!Victims} = DOMAIN cache
      BY <2>1
    <3>3. cache = [k \in DOMAIN cache |-> cache[k]]
      BY DEF AssetInv, CacheMapped
    <3> QED BY <3>1, <3>2, <3>3
  <2>3. rem = recency /\ list.next = next /\ list.prev = prev
    BY <2>1, <2>2 DEF Assets!WithoutVictims
  <2>4. [i \in 1 .. Len(rem) |-> kept[rem[i]]] = ByUse
    BY <2>2, <2>3 DEF ByUse
  <2>5. n <= MaxUse
    BY <1>2, <1>6
  <2>6. /\ rem \in Seq(Keys) /\ Distinct(rem) /\ Len(rem) <= MaxUse
        /\ list.next \in [Assets!Nodes -> Assets!Nodes]
        /\ list.prev \in [Assets!Nodes -> Assets!Nodes]
    BY <1>1, <2>3, <2>5 DEF n
  <2>7. /\ \A i \in 1 .. Len(rem) : rem[i] \in DOMAIN kept
        /\ \A k \in DOMAIN kept : \E i \in 1 .. Len(rem) : rem[i] = k
    BY <1>1, <2>1, <2>3 DEF n
  <2>8. /\ Forward(list.next, [i \in 1 .. Len(rem) |-> kept[rem[i]]])
        /\ Backward(list.prev, [i \in 1 .. Len(rem) |-> kept[rem[i]]])
    BY <1>3, <2>3, <2>4
  <2> QED BY <1>5, <2>1, <2>6, <2>7, <2>8 DEF Popped
<1>7. CASE n > MaxUse
  <2> DEFINE v == prev[Assets!Sentinel]
             ls == [i \in 1 .. Len(rem) |-> kept[rem[i]]]
  <2>1. n \in 1 .. n /\ n # 0 /\ n - 1 <= MaxUse /\ n - 1 \in Nat
    BY <1>1, <1>2, <1>7
  <2>2. Assets!Victims = {v} /\ v = ByUse[n]
    <3>1. 0 \in 0 .. n /\ n \in 0 .. n
      BY <1>2
    <3>2. At(ByUse, n) = ByUse[n] /\ At(ByUse, n + 1) = Assets!Sentinel
      BY <1>2, <2>1, PlacesDiffer DEF Assets!Sentinel
    <3>3. prev[At(ByUse, n + 1)] = At(ByUse, n)
      BY <1>2, <1>3, <3>1 DEF Backward
    <3> QED BY <1>4, <1>7, <3>2, <3>3
  <2>3. v = cache[recency[n]] /\ key[v] = recency[n] /\ v \in Assets!Loads
        /\ pc[v] = "returned"
    BY <1>1, <1>2, <2>1, <2>2
  <2>4. \A k \in DOMAIN cache : k \in DOMAIN kept <=> k # recency[n]
    BY <1>1, <1>5, <2>1, <2>2, <2>3
  <2>5. kept # cache
    BY <1>1, <2>1, <2>4
  <2>6. rem = Assets!RemoveFirst(recency, recency[n])
    BY <2>3, <2>5
  <2> HIDE DEF ls, v
  <2>7. /\ rem \in Seq(Keys) /\ Len(rem) = n - 1
        /\ \A i \in 1 .. n - 1 : rem[i] = recency[i]
    <3>1. PICK s, r, m : s = recency /\ r = rem /\ m = n
      OBVIOUS
    <3>2. s \in Seq(Keys) /\ Distinct(s) /\ m \in 1 .. Len(s) /\ Len(s) = n
          /\ r = Assets!RemoveFirst(s, s[m])
      BY <1>1, <2>1, <2>6, <3>1 DEF n
    <3>3. r \in Seq(Keys) /\ Len(r) = Len(s) - 1
      BY <3>2, RemoveFirstFacts
    <3>4. ASSUME NEW i \in 1 .. Len(s) - 1, i < m PROVE r[i] = s[i]
      <4>1. r[i] = IF i < m THEN s[i] ELSE s[i + 1]
        BY <3>2, RemoveFirstFacts
      <4> QED BY <3>4, <4>1
    <3>5. \A i \in 1 .. n - 1 : i < n
      BY <1>2
    <3> QED BY <3>1, <3>2, <3>3, <3>4, <3>5
  <2>8. \A i \in 1 .. n - 1 : i \in 1 .. n /\ i # n
    BY <1>2
  <2>9. \A i, j \in 1 .. n : recency[i] = recency[j] => i = j
    BY <1>1 DEF Distinct, n
  <2>10. Distinct(rem)
    BY <2>7, <2>8, <2>9 DEF Distinct
  <2>11. \A i \in 1 .. n - 1 : rem[i] \in DOMAIN kept
    BY <1>1, <2>1, <2>4, <2>7, <2>8, <2>9
  <2>12. \A k \in DOMAIN kept : \E i \in 1 .. n - 1 : rem[i] = k
    <3> SUFFICES ASSUME NEW k \in DOMAIN kept
                 PROVE  \E i \in 1 .. n - 1 : rem[i] = k
      OBVIOUS
    <3>1. k \in DOMAIN cache /\ k # recency[n]
      BY <1>5, <2>4
    <3>2. PICK i \in 1 .. n : recency[i] = k
      BY <1>1, <3>1
    <3>3. i \in 1 .. n - 1
      BY <1>2, <3>1, <3>2
    <3> QED BY <2>7, <3>2, <3>3
  <2>13. /\ list.next = [next EXCEPT ![prev[v]] = Assets!Sentinel]
         /\ list.prev = [prev EXCEPT ![Assets!Sentinel] = prev[v]]
    BY <2>2 DEF Assets!WithoutVictims, v
  <2>14. Len(ls) = n - 1 /\ \A i \in 1 .. n - 1 : ls[i] = ByUse[i]
    <3>1. \A i \in 1 .. n - 1 : kept[rem[i]] = ByUse[i]
      BY <1>2, <1>5, <2>7, <2>8, <2>11
    <3> QED BY <2>1, <2>7, <3>1 DEF ls
  <2>15. Forward(list.next, ls) /\ Backward(list.prev, ls)
    <3>1. PICK s, r, nx, pv : s = ByUse /\ r = ls /\ nx = next /\ pv = prev
      OBVIOUS
    <3>2. /\ s \in Seq(Assets!Loads) /\ Distinct(s) /\ Len(s) = n /\ Len(s) # 0
          /\ Forward(nx, s) /\ Backward(pv, s) /\ Len(r) = Len(s) - 1
          /\ \A i \in 1 .. Len(s) - 1 : r[i] = s[i]
          /\ nx \in [Assets!Nodes -> Assets!Nodes]
          /\ pv \in [Assets!Nodes -> Assets!Nodes]
      BY <1>1, <1>2, <1>3, <2>1, <2>14, <3>1
    <3>3. /\ Forward([nx EXCEPT ![pv[s[Len(s)]]] = Assets!Sentinel], r)
          /\ Backward([pv EXCEPT ![Assets!Sentinel] = pv[s[Len(s)]]], r)
      BY <3>2, BackPopped
    <3>4. /\ list.next = [nx EXCEPT ![pv[s[Len(s)]]] = Assets!Sentinel]
          /\ list.prev = [pv EXCEPT ![Assets!Sentinel] = pv[s[Len(s)]]]
      BY <2>2, <2>13, <3>1, <3>2
    <3> QED BY <3>1, <3>3, <3>4
  <2>16. /\ list.next \in [Assets!Nodes -> Assets!Nodes]
         /\ list.prev \in [Assets!Nodes -> Assets!Nodes]
    <3>1. Assets!Sentinel \in Assets!Nodes /\ v \in Assets!Nodes
      BY <2>3 DEF Assets!Nodes
    <3> QED BY <1>1, <2>13, <3>1
  <2>17. \A u \in Assets!Victims : u \in Assets!Loads /\ pc[u] = "returned"
    BY <2>2, <2>3
  <2>18. \A k \in DOMAIN cache : k \in DOMAIN kept \/ k = recency[Len(recency)]
    BY <2>4 DEF n
  <2> QED BY <1>5, <2>1, <2>7, <2>10, <2>11, <2>12, <2>15, <2>16, <2>17, <2>18
          DEF ls, Popped
<1> QED BY <1>6, <1>7

\* The key of a new node, in front of what was used before.
LEMMA UsedFirst ==
  ASSUME NEW s \in Seq(Keys), Distinct(s), NEW k \in Keys,
         \A i \in 1 .. Len(s) : s[i] # k, NEW r, r = <<k>> \o s
  PROVE  /\ r \in Seq(Keys) /\ Distinct(r) /\ Len(r) = Len(s) + 1 /\ r[1] = k
         /\ \A i \in 1 .. Len(s) : r[i + 1] = s[i]
<1> DEFINE n == Len(s)
<1>1. n \in Nat
  BY LenProperties
<1>2. /\ <<k>> \in Seq(Keys) /\ Len(<<k>>) = 1 /\ <<k>>[1] = k
  OBVIOUS
<1>3. /\ r \in Seq(Keys) /\ Len(r) = Len(<<k>>) + Len(s)
      /\ \A i \in 1 .. Len(<<k>>) + Len(s) :
           r[i] = IF i <= Len(<<k>>) THEN <<k>>[i] ELSE s[i - Len(<<k>>)]
  BY <1>2, ConcatProperties
<1>4. /\ r \in Seq(Keys) /\ Len(r) = 1 + n
      /\ \A i \in 1 .. 1 + n : r[i] = IF i <= 1 THEN <<k>>[i] ELSE s[i - 1]
  BY <1>2, <1>3, Zenon
<1>5. \A i, j \in 1 .. n : s[i] = s[j] => i = j
  BY DEF Distinct
<1> HIDE DEF n
<1>6. Len(r) = n + 1
  BY <1>1, <1>4
<1>7. r[1] = k
  <2>1. 1 \in 1 .. 1 + n /\ 1 <= 1
    BY <1>1
  <2> QED BY <1>2, <1>4, <2>1
<1>8. \A i \in 1 .. n : r[i + 1] = s[i]
  <2> SUFFICES ASSUME NEW i \in 1 .. n PROVE r[i + 1] = s[i]
    OBVIOUS
  <2>1. i + 1 \in 1 .. 1 + n /\ ~ (i + 1 <= 1) /\ (i + 1) - 1 = i
    BY <1>1
  <2> QED BY <1>4, <2>1
<1>9. Distinct(r)
  <2> SUFFICES ASSUME NEW i \in 1 .. n + 1, NEW j \in 1 .. n + 1, r[i] = r[j]
               PROVE  i = j
    BY <1>6 DEF Distinct
  <2>1. ASSUME NEW h \in 1 .. n + 1, h # 1
        PROVE  h - 1 \in 1 .. n /\ r[h] = s[h - 1]
    <3>1. h - 1 \in 1 .. n /\ (h - 1) + 1 = h
      BY <1>1, <2>1
    <3> QED BY <1>8, <3>1
  <2>2. i = 1 => j = 1
    BY <1>7, <2>1 DEF n
  <2>3. j = 1 => i = 1
    BY <1>7, <2>1 DEF n
  <2>4. i # 1 /\ j # 1 => i - 1 = j - 1
    BY <1>5, <2>1
  <2> QED BY <1>1, <2>2, <2>3, <2>4
<1> QED BY <1>4, <1>6, <1>7, <1>8, <1>9 DEF n

LEMMA EmplaceKeeps ==
  ASSUME AssetInv, NEW l \in Assets!Loads, Assets!Emplace(l)
  PROVE  AssetInv'
<1>1. PICK kept, list, rem, first :
        /\ kept = Assets!Kept /\ list = Assets!WithoutVictims
        /\ first = list.next[Assets!Sentinel]
        /\ rem = IF Assets!Kept = cache THEN recency
                 ELSE Assets!RemoveFirst(recency, key[prev[Assets!Sentinel]])
  OBVIOUS
<1>2. /\ pc[l] = "loading" /\ Assets!Readers = {}
      /\ IF Assets!Inserted(l)
         THEN /\ next' = [list.next EXCEPT ![Assets!Sentinel] = l, ![l] = first]
              /\ prev' = [list.prev EXCEPT ![first] = l, ![l] = Assets!Sentinel]
              /\ cache' = [k \in DOMAIN kept \cup {key[l]} |->
                             IF k = key[l] THEN l ELSE kept[k]]
              /\ recency' = <<key[l]>> \o rem
         ELSE /\ next' = list.next /\ prev' = list.prev
              /\ cache' = kept /\ recency' = rem
      /\ key' = [m \in Assets!Loads |->
                   IF m \in Assets!Victims \/ (m = l /\ ~ Assets!Inserted(l))
                   THEN NoKey ELSE key[m]]
      /\ pc' = [pc EXCEPT ![l] = "returned"]
      /\ UNCHANGED <<running, splice, overlapped>>
  BY <1>1, Zenon DEF Assets!Emplace, Assets!lockVars
<1>3. Assets!Inserted(l) <=> key[l] \notin DOMAIN kept
  BY <1>1 DEF Assets!Inserted
<1> DEFINE s == [i \in 1 .. Len(rem) |-> kept[rem[i]]]
<1>4. /\ rem \in Seq(Keys) /\ Distinct(rem) /\ Len(rem) <= MaxUse
      /\ DOMAIN kept \subseteq DOMAIN cache
      /\ \A i \in 1 .. Len(rem) : rem[i] \in DOMAIN kept
      /\ \A k \in DOMAIN kept : \E i \in 1 .. Len(rem) : rem[i] = k
      /\ \A k \in DOMAIN kept : kept[k] = cache[k] /\ cache[k] \notin Assets!Victims
      /\ \A v \in Assets!Victims : v \in Assets!Loads /\ pc[v] = "returned"
      /\ list.next \in [Assets!Nodes -> Assets!Nodes]
      /\ list.prev \in [Assets!Nodes -> Assets!Nodes]
      /\ Forward(list.next, s) /\ Backward(list.prev, s)
  <2>1. Popped(kept, list, rem)
    BY <1>1, <1>2, PopKeeps
  <2> QED BY <2>1 DEF Popped
<1>5. /\ pc \in [Assets!Loads -> {"idle", "hit", "loading", "returned"}]
      /\ key \in [Assets!Loads -> Keys \cup {NoKey}]
      /\ DOMAIN cache \subseteq Keys
      /\ \A k \in DOMAIN cache : /\ cache[k] \in Assets!Loads
                                 /\ key[cache[k]] = k /\ pc[cache[k]] = "returned"
      /\ \A m \in Assets!Loads : pc[m] = "loading" => key[m] \in Keys
      /\ running \in [Loaders -> Assets!Nodes]
  BY DEF AssetInv, Assets!TypeOK, CacheMapped
<1>6. /\ l \notin Assets!Victims /\ key[l] \in Keys
      /\ \A k \in DOMAIN cache : cache[k] # l
      /\ 0 \notin Assets!Loads /\ l \in Assets!Nodes /\ l # Assets!Sentinel
      /\ Assets!Sentinel \in Assets!Nodes /\ MaxUse \in Nat
  BY <1>2, <1>4, <1>5, AssetFacts DEF Assets!Nodes, Assets!Sentinel
<1>7. /\ pc' \in [Assets!Loads -> {"idle", "hit", "loading", "returned"}]
      /\ key' \in [Assets!Loads -> Keys \cup {NoKey}]
      /\ pc'[l] = "returned"
      /\ \A m \in Assets!Loads : m # l => pc'[m] = pc[m]
      /\ \A m \in Assets!Loads :
           m \notin Assets!Victims /\ m # l => key'[m] = key[m]
      /\ Assets!Inserted(l) => key'[l] = key[l]
  BY <1>2, <1>5, <1>6
<1>8. \A m \in Assets!Loads : pc'[m] = "loading" => key'[m] \in Keys
  BY <1>4, <1>5, <1>7
<1>9. \A t \in Loaders : running[t] = Assets!None /\ running'[t] = Assets!None
                         /\ splice'[t] = Assets!NoSplice
  <2>1. \A t \in Loaders : running[t] = Assets!None
    BY <1>2 DEF Assets!Readers
  <2> QED BY <1>2, <2>1 DEF AssetInv, Assets!TypeOK
<1>10. HitInFront' /\ Apart'
  BY <1>9 DEF HitInFront, Apart, Moving, Assets!NoSplice
<1>11. \A k \in DOMAIN kept : /\ k \in Keys /\ kept[k] \in Assets!Loads
                             /\ kept[k] # l /\ key'[kept[k]] = k
                             /\ pc'[kept[k]] = "returned"
  BY <1>4, <1>5, <1>6, <1>7
<1>12. Len(rem) \in Nat /\ s \in Seq(Assets!Loads) /\ Len(s) = Len(rem)
       /\ Distinct(s) /\ (\A i \in 1 .. Len(s) : s[i] # l /\ s[i] = kept[rem[i]])
  <2>1. Len(rem) \in Nat
    BY <1>4, LenProperties
  <2>2. \A i \in 1 .. Len(rem) : kept[rem[i]] \in Assets!Loads /\ kept[rem[i]] # l
    BY <1>4, <1>11
  <2>3. s \in Seq(Assets!Loads) /\ Len(s) = Len(rem)
    BY <2>1, <2>2
  <2>4. \A i \in 1 .. Len(rem) : s[i] = kept[rem[i]]
    OBVIOUS
  <2> HIDE DEF s
  <2>5. ASSUME NEW i \in 1 .. Len(rem), NEW j \in 1 .. Len(rem), s[i] = s[j]
        PROVE  i = j
    <3>1. rem[i] \in DOMAIN kept /\ rem[j] \in DOMAIN kept
          /\ kept[rem[i]] = kept[rem[j]]
      BY <1>4, <2>4, <2>5
    <3>2. rem[i] = rem[j]
      BY <1>11, <3>1
    <3> QED BY <1>4, <3>2 DEF Distinct
  <2> QED BY <2>1, <2>2, <2>3, <2>4, <2>5 DEF Distinct
<1>13. CASE ~ Assets!Inserted(l)
  <2>1. next' = list.next /\ prev' = list.prev /\ cache' = kept /\ recency' = rem
    BY <1>2, <1>13
  <2>2. Assets!TypeOK'
    <3>1. DOMAIN cache' \subseteq Keys /\ Assets!Range(cache') \subseteq Assets!Loads
      BY <1>11, <2>1 DEF Assets!Range
    <3> QED BY <1>2, <1>4, <1>7, <1>9, <2>1, <3>1 DEF AssetInv, Assets!TypeOK
  <2>3. CacheMapped'
    <3>1. cache' = [k \in DOMAIN kept |-> kept[k]]
      BY <1>1, <2>1 DEF Assets!Kept
    <3>2. cache' \in [DOMAIN cache' -> Assets!Loads]
      BY <1>11, <2>1, <3>1
    <3> QED BY <1>8, <1>11, <2>1, <3>2 DEF CacheMapped
  <2>4. UseMatches'
    <3>1. Len(rem) <= MaxUse + 1
      BY <1>4, <1>6, <1>12
    <3> QED BY <1>4, <2>1, <3>1 DEF UseMatches
  <2>5. Pointers'
    <3>1. ByUse' = s
      BY <2>1 DEF ByUse
    <3>2. \A t \in Loaders : splice'[t].stage \notin Moving
      BY <1>9 DEF Moving, Assets!NoSplice
    <3> QED BY <1>4, <2>1, <3>1, <3>2 DEF Pointers
  <2> QED BY <1>10, <2>2, <2>3, <2>4, <2>5 DEF AssetInv
<1>14. CASE Assets!Inserted(l)
  <2>1. /\ next' = [list.next EXCEPT ![Assets!Sentinel] = l, ![l] = first]
        /\ prev' = [list.prev EXCEPT ![first] = l, ![l] = Assets!Sentinel]
        /\ cache' = [k \in DOMAIN kept \cup {key[l]} |->
                       IF k = key[l] THEN l ELSE kept[k]]
        /\ recency' = <<key[l]>> \o rem
        /\ key[l] \notin DOMAIN kept
    BY <1>2, <1>3, <1>14
  <2>2. /\ DOMAIN cache' = DOMAIN kept \cup {key[l]} /\ cache'[key[l]] = l
        /\ \A k \in DOMAIN kept : cache'[k] = kept[k]
    BY <2>1
  <2>3. /\ recency' \in Seq(Keys) /\ Distinct(recency')
        /\ Len(recency') = Len(rem) + 1 /\ recency'[1] = key[l]
        /\ \A i \in 1 .. Len(rem) : recency'[i + 1] = rem[i]
    <3>1. PICK r : r = recency'
      OBVIOUS
    <3>2. PICK k \in Keys : k = key[l]
      BY <1>6
    <3>3. \A i \in 1 .. Len(rem) : rem[i] # k
      BY <1>4, <2>1, <3>2
    <3>4. /\ r \in Seq(Keys) /\ Distinct(r) /\ Len(r) = Len(rem) + 1 /\ r[1] = k
          /\ \A i \in 1 .. Len(rem) : r[i + 1] = rem[i]
      <4>1. rem \in Seq(Keys) /\ Distinct(rem) /\ r = <<k>> \o rem
        BY <1>4, <2>1, <3>1, <3>2
      <4>2. r \in Seq(Keys) /\ Len(r) = Len(rem) + 1 /\ r[1] = k
        BY <3>3, <4>1, UsedFirst
      <4>3. Distinct(r)
        BY <3>3, <4>1, UsedFirst
      <4>4. \A i \in 1 .. Len(rem) : r[i + 1] = rem[i]
        BY <3>3, <4>1, UsedFirst
      <4> QED BY <4>2, <4>3, <4>4
    <3> QED BY <3>1, <3>2, <3>4
  <2>4. first \in Assets!Nodes
    BY <1>1, <1>4, <1>6
  <2>5. Assets!TypeOK'
    <3>1. DOMAIN cache' \subseteq Keys /\ Assets!Range(cache') \subseteq Assets!Loads
      BY <1>6, <1>11, <2>2 DEF Assets!Range
    <3>2. /\ next' \in [Assets!Nodes -> Assets!Nodes]
          /\ prev' \in [Assets!Nodes -> Assets!Nodes]
      BY <1>4, <1>6, <2>1, <2>4
    <3> QED BY <1>2, <1>7, <1>9, <2>3, <3>1, <3>2 DEF AssetInv, Assets!TypeOK
  <2>6. CacheMapped'
    <3>1. ASSUME NEW k \in DOMAIN cache'
          PROVE  /\ cache'[k] \in Assets!Loads /\ key'[cache'[k]] = k
                 /\ pc'[cache'[k]] = "returned"
      <4>1. CASE k = key[l]
        BY <1>7, <1>14, <2>2, <4>1
      <4>2. CASE k # key[l]
        BY <1>11, <2>2, <4>2
      <4> QED BY <4>1, <4>2
    <3>2. cache' \in [DOMAIN cache' -> Assets!Loads]
      BY <2>1, <2>2, <3>1
    <3> QED BY <1>8, <3>1, <3>2 DEF CacheMapped
  <2>7. \A i \in 1 .. Len(rem) + 1 :
          i = 1 \/ (i - 1 \in 1 .. Len(rem) /\ (i - 1) + 1 = i)
    BY <1>12
  <2>8. UseMatches'
    <3>1. ASSUME NEW i \in 1 .. Len(recency') PROVE recency'[i] \in DOMAIN cache'
      <4>1. CASE i = 1
        BY <2>2, <2>3, <4>1
      <4>2. CASE i # 1
        <5>1. i - 1 \in 1 .. Len(rem) /\ (i - 1) + 1 = i
          BY <2>3, <2>7, <4>2
        <5>2. recency'[i] = rem[i - 1] /\ rem[i - 1] \in DOMAIN kept
          BY <1>4, <2>3, <5>1
        <5> QED BY <2>2, <5>2
      <4> QED BY <4>1, <4>2
    <3>2. ASSUME NEW k \in DOMAIN cache'
          PROVE  \E i \in 1 .. Len(recency') : recency'[i] = k
      <4>1. CASE k = key[l]
        <5>1. 1 \in 1 .. Len(rem) + 1
          BY <1>12
        <5> QED BY <2>3, <4>1, <5>1
      <4>2. CASE k # key[l]
        <5>1. PICK i \in 1 .. Len(rem) : rem[i] = k
          BY <1>4, <2>2, <4>2
        <5>2. i + 1 \in 1 .. Len(rem) + 1
          BY <1>12
        <5> QED BY <2>3, <5>1, <5>2
      <4> QED BY <4>1, <4>2
    <3>3. Len(recency') <= MaxUse + 1
      BY <1>4, <1>6, <1>12, <2>3
    <3> QED BY <2>3, <3>1, <3>2, <3>3 DEF UseMatches
  <2>9. /\ Len(ByUse') = Len(s) + 1 /\ ByUse'[1] = l
        /\ \A i \in 1 .. Len(s) : ByUse'[i + 1] = s[i]
    <3>1. /\ Len(ByUse') = Len(rem) + 1
          /\ \A i \in 1 .. Len(rem) + 1 : ByUse'[i] = cache'[recency'[i]]
      BY <1>12, <2>3 DEF ByUse
    <3>2. ByUse'[1] = l
      <4>1. 1 \in 1 .. Len(rem) + 1
        BY <1>12
      <4> QED BY <2>2, <2>3, <3>1, <4>1
    <3>3. ASSUME NEW i \in 1 .. Len(rem) PROVE ByUse'[i + 1] = s[i]
      <4>1. i + 1 \in 1 .. Len(rem) + 1
        BY <1>12
      <4>2. ByUse'[i + 1] = cache'[rem[i]] /\ rem[i] \in DOMAIN kept
        BY <1>4, <2>3, <3>1, <4>1
      <4> QED BY <1>12, <2>2, <4>2
    <3> QED BY <1>12, <3>1, <3>2, <3>3
  <2> HIDE DEF s
  <2>10. Forward(next', ByUse') /\ Backward(prev', ByUse')
    <3>1. PICK r : r = ByUse'
      OBVIOUS
    <3>2. PICK nx, pv : nx = list.next /\ pv = list.prev
      OBVIOUS
    <3>3. /\ nx \in [Assets!Nodes -> Assets!Nodes]
          /\ pv \in [Assets!Nodes -> Assets!Nodes]
          /\ Forward(nx, s) /\ Backward(pv, s) /\ first = nx[Assets!Sentinel]
      BY <1>1, <1>4, <3>2
    <3>4. /\ s \in Seq(Assets!Loads) /\ Distinct(s)
          /\ \A i \in 1 .. Len(s) : s[i] # l
          /\ Len(r) = Len(s) + 1 /\ r[1] = l
          /\ \A i \in 1 .. Len(s) : r[i + 1] = s[i]
      BY <1>12, <2>9, <3>1
    <3>5. /\ Forward([nx EXCEPT ![Assets!Sentinel] = l, ![l] = first], r)
          /\ Backward([pv EXCEPT ![first] = l, ![l] = Assets!Sentinel], r)
      BY <3>3, <3>4, FrontPushed
    <3> QED BY <2>1, <3>1, <3>2, <3>5
  <2>11. Pointers'
    <3>1. \A t \in Loaders : splice'[t].stage \notin Moving
      BY <1>9 DEF Moving, Assets!NoSplice
    <3> QED BY <2>10, <3>1 DEF Pointers
  <2> QED BY <1>10, <2>5, <2>6, <2>8, <2>11 DEF AssetInv
<1> QED BY <1>13, <1>14

LEMMA AssetsInit == Assets!Init => AssetInv
<1> SUFFICES ASSUME Assets!Init PROVE AssetInv
  OBVIOUS
<1>1. /\ pc = [l \in Assets!Loads |-> "idle"]
      /\ key = [l \in Assets!Loads |-> NoKey]
      /\ next = [n \in Assets!Nodes |-> Assets!Sentinel]
      /\ prev = [n \in Assets!Nodes |-> Assets!Sentinel]
      /\ cache = <<>> /\ recency = <<>>
      /\ running = [t \in Loaders |-> Assets!None]
      /\ splice = [t \in Loaders |-> Assets!NoSplice]
      /\ overlapped = FALSE
  BY DEF Assets!Init
<1>2. Assets!Sentinel \in Assets!Nodes /\ MaxUse \in Nat
  BY PartsAssumption DEF Assets!Nodes, Assets!CacheAllowed
<1>3. /\ DOMAIN cache = {} /\ Len(recency) = 0 /\ recency \in Seq(Keys)
      /\ cache \in [DOMAIN cache -> Assets!Loads] /\ 1 .. Len(recency) = {}
  BY <1>1
<1>4. Assets!NoSplice \in [stage : Assets!Stages, where : Assets!Nodes,
           last : Assets!Nodes, firstPrev : Assets!Nodes,
           lastPrev : Assets!Nodes, wherePrev : Assets!Nodes]
  BY <1>2 DEF Assets!NoSplice, Assets!Stages, Assets!None
<1>5. Assets!TypeOK
  BY <1>1, <1>2, <1>3, <1>4 DEF Assets!TypeOK, Assets!Range, Assets!None
<1>6. CacheMapped
  BY <1>1, <1>3 DEF CacheMapped
<1>7. UseMatches
  BY <1>2, <1>3 DEF UseMatches, Distinct
<1>8. HitInFront /\ Apart
  BY <1>1 DEF HitInFront, Apart, Moving, Assets!NoSplice
<1>9. Pointers
  <2>1. \A t \in Loaders : splice[t].stage \notin Moving
    BY <1>1 DEF Moving, Assets!NoSplice
  <2>2. Len(ByUse) = 0
    BY <1>3 DEF ByUse
  <2>3. \A i : At(ByUse, i) = Assets!Sentinel
    BY <2>2 DEF At
  <2> QED BY <1>1, <1>2, <2>1, <2>3 DEF Pointers, Forward, Backward
<1> QED BY <1>5, <1>6, <1>7, <1>8, <1>9 DEF AssetInv

LEMMA AssetsNext ==
  ASSUME AssetInv, [Assets!Next]_assetVars, ~ overlapped'
  PROVE  AssetInv'
<1>1. CASE UNCHANGED assetVars
  <2>1. UNCHANGED <<pc, key, next, prev, cache, running, splice, recency,
                  overlapped>>
    BY <1>1 DEF assetVars
  <2> QED BY <2>1 DEF AssetInv, Assets!TypeOK, CacheMapped, UseMatches,
       HitInFront, Apart, Pointers, ByUse
<1>2. ASSUME NEW l \in Assets!Loads, Assets!LoadThrows(l) \/ Assets!Emplace(l)
      PROVE  AssetInv'
  BY <1>2, ThrowKeeps, EmplaceKeeps
<1>3. ASSUME NEW l \in Assets!Loads, NEW k \in Keys, NEW t \in Loaders,
             Assets!Miss(l, k, t) \/ Assets!Hit(l, k, t)
      PROVE  AssetInv'
  BY <1>3, MissKeeps, HitKeeps
<1>4. ASSUME NEW t \in Loaders, Assets!Splice(t) PROVE AssetInv'
  BY <1>4, SpliceKeeps, LinkBackKeeps, ReturnKeeps DEF Assets!Splice
<1> QED BY <1>1, <1>2, <1>3, <1>4 DEF Assets!Next

\* That lookups overlapped is not forgotten.
LEMMA OverlapStays ==
  ASSUME [Assets!Next]_assetVars, overlapped PROVE overlapped'
<1>1. ASSUME UNCHANGED assetVars PROVE overlapped'
  BY <1>1 DEF assetVars
<1>2. ASSUME NEW l \in Assets!Loads, Assets!LoadThrows(l) \/ Assets!Emplace(l)
      PROVE  overlapped'
  BY <1>2, Zenon DEF Assets!LoadThrows, Assets!Emplace
<1>3. ASSUME NEW l, NEW k, NEW t, Assets!Miss(l, k, t) \/ Assets!Hit(l, k, t)
      PROVE  overlapped'
  BY <1>3, Zenon DEF Assets!Miss, Assets!Hit
<1>4. ASSUME NEW t, Assets!Splice(t) PROVE overlapped'
  BY <1>4, Zenon DEF Assets!Splice, Assets!Unlink, Assets!LinkNode,
     Assets!LinkFront, Assets!LinkBack, Assets!ReturnHit
<1> QED BY <1>1, <1>2, <1>3, <1>4 DEF Assets!Next

\* The invariant, until then.
UntilOverlap == ~ overlapped => AssetInv

LEMMA UntilOverlapKept ==
  ASSUME UntilOverlap, [Assets!Next]_assetVars PROVE UntilOverlap'
BY AssetsNext, OverlapStays DEF UntilOverlap

\* What the invariant says of the list while no lookup is under way.
LEMMA AssetsConclude ==
  AssetInv => /\ Assets!TypeOK /\ Assets!ListMatchesCache /\ Assets!OrderedByUse
              /\ Assets!CacheBounded
<1> SUFFICES ASSUME AssetInv
             PROVE  /\ Assets!TypeOK /\ Assets!ListMatchesCache
                    /\ Assets!OrderedByUse /\ Assets!CacheBounded
  OBVIOUS
<1> DEFINE n == Len(recency)
<1>1. /\ n \in Nat /\ DOMAIN recency = 1 .. n /\ ByUse \in Seq(Assets!Loads)
      /\ Len(ByUse) = n /\ Distinct(ByUse)
      /\ \A i \in 1 .. n : ByUse[i] = cache[recency[i]]
  BY AssetFacts
<1>2. /\ \A i \in 1 .. n : recency[i] \in DOMAIN cache
      /\ \A k \in DOMAIN cache : \E i \in 1 .. n : recency[i] = k
      /\ n <= MaxUse + 1 /\ recency \in Seq(Keys)
      /\ \A k \in DOMAIN cache : key[cache[k]] = k
      /\ next \in [Assets!Nodes -> Assets!Nodes]
  BY DEF AssetInv, UseMatches, CacheMapped, Assets!TypeOK
<1>3. Assets!Cardinality(DOMAIN cache) = n
  BY UseCounts
<1>4. Assets!CacheBounded
  BY <1>2, <1>3 DEF Assets!CacheBounded
<1> HIDE DEF n
<1>5. ASSUME Assets!Readers = {}
      PROVE  /\ Forward(next, ByUse) /\ Backward(prev, ByUse)
             /\ Assets!usedList = ByUse
  <2>1. \A t \in Loaders : splice[t].stage \notin Moving
    BY <1>5, AssetFacts DEF Assets!Readers, Assets!None, Assets!Sentinel
  <2>2. Forward(next, ByUse) /\ Backward(prev, ByUse)
    BY <2>1 DEF AssetInv, Pointers
  <2>3. Assets!usedList = ByUse
    BY <1>1, <1>2, <2>2, UsedListReads
  <2> QED BY <2>2, <2>3
<1>6. DOMAIN ByUse = 1 .. n
  BY <1>1, LenProperties
<1>7. Assets!ListMatchesCache
  <2> SUFFICES ASSUME Assets!Readers = {}
               PROVE  /\ Len(Assets!usedList) = Assets!Cardinality(DOMAIN cache)
                      /\ Assets!Range(Assets!usedList) = Assets!Range(cache)
                      /\ \A m \in Assets!Range(Assets!usedList)
                                    \cup {Assets!Sentinel} :
                           prev[next[m]] = m
    BY DEF Assets!ListMatchesCache
  <2>1. /\ Forward(next, ByUse) /\ Backward(prev, ByUse)
        /\ Assets!usedList = ByUse
    BY <1>5
  <2>2. Assets!Range(ByUse) = Assets!Range(cache)
    <3>1. \A m : m \in Assets!Range(ByUse) <=> \E i \in 1 .. n : m = ByUse[i]
      BY <1>6 DEF Assets!Range
    <3>2. \A m : m \in Assets!Range(cache) <=> \E k \in DOMAIN cache : m = cache[k]
      BY DEF Assets!Range
    <3>3. ASSUME NEW i \in 1 .. n PROVE ByUse[i] \in Assets!Range(cache)
      BY <1>1, <1>2, <3>2
    <3>4. ASSUME NEW k \in DOMAIN cache PROVE cache[k] \in Assets!Range(ByUse)
      <4>1. PICK i \in 1 .. n : recency[i] = k
        BY <1>2
      <4> QED BY <1>1, <3>1, <4>1
    <3>5. \A m : m \in Assets!Range(ByUse) <=> m \in Assets!Range(cache)
      BY <3>1, <3>2, <3>3, <3>4
    <3> QED BY <3>5
  <2>3. ASSUME NEW m \in Assets!Range(ByUse) \cup {Assets!Sentinel}
        PROVE  prev[next[m]] = m
    <3>1. PICK i \in 0 .. n : m = At(ByUse, i)
      <4>1. CASE m = Assets!Sentinel
        <5>1. At(ByUse, 0) = Assets!Sentinel /\ 0 \in 0 .. n
          BY <1>1, PlacesDiffer DEF Assets!Sentinel
        <5> QED BY <4>1, <5>1
      <4>2. CASE m \in Assets!Range(ByUse)
        <5>1. PICK i \in 1 .. n : m = ByUse[i]
          BY <1>6, <4>2 DEF Assets!Range
        <5>2. At(ByUse, i) = ByUse[i] /\ i \in 0 .. n
          BY <1>1, PlacesDiffer
        <5> QED BY <5>1, <5>2
      <4> QED BY <4>1, <4>2
    <3>2. next[At(ByUse, i)] = At(ByUse, i + 1) /\ prev[At(ByUse, i + 1)] = At(ByUse, i)
      BY <1>1, <2>1 DEF Forward, Backward
    <3> QED BY <3>1, <3>2
  <2> QED BY <1>1, <1>3, <2>1, <2>2, <2>3
<1>8. Assets!OrderedByUse
  <2> SUFFICES ASSUME Assets!Readers = {}
               PROVE  [i \in DOMAIN Assets!usedList |-> key[Assets!usedList[i]]]
                        = recency
    BY DEF Assets!OrderedByUse
  <2>1. Assets!usedList = ByUse
    BY <1>5
  <2>2. \A i \in 1 .. n : key[ByUse[i]] = recency[i]
    BY <1>1, <1>2
  <2>3. recency = [i \in 1 .. n |-> recency[i]]
    BY <1>2, LenProperties DEF n
  <2> QED BY <1>6, <2>1, <2>2, <2>3
<1> QED BY <1>4, <1>7, <1>8 DEF AssetInv

(* On however many threads assets are looked up and loaded, the list of the  *)
(* asset cache holds exactly the nodes of its map, is linked alike in both   *)
(* directions and ordered by use, so what check_max_used drops was used      *)
(* least recently, and max_use is exceeded by one entry at most, until one   *)
(* lookup reads the list while another splices its node.  Under the shared   *)
(* lock that can come about, and nothing else disturbs the list.             *)
THEOREM CacheStaysOrdered == StoresSpec => []CacheOrdered
<1>1. StoresInit => UntilOverlap
  BY AssetsInit DEF StoresInit, UntilOverlap
<1>2. UntilOverlap /\ [StoresNext]_<<part, vars, assetVars, shaderVars>>
        => UntilOverlap'
  <2>1. ASSUME [StoresNext]_<<part, vars, assetVars, shaderVars>>
        PROVE  [Assets!Next]_assetVars
    BY <2>1 DEF StoresNext, MemoryStep, AssetStep, ShaderStep
  <2> QED BY <2>1, UntilOverlapKept
<1>3. UntilOverlap => CacheOrdered
  BY AssetsConclude DEF CacheOrdered, UntilOverlap
<1> QED BY <1>1, <1>2, <1>3, PTL DEF StoresSpec

LEMMA AssetsDrop ==
  ASSUME AssetInv, [Assets!Next]_assetVars, NEW k \in DOMAIN cache
  PROVE  \/ k \in DOMAIN cache' /\ cache'[k] = cache[k]
         \/ k = Assets!Last(recency)
<1>1. CASE UNCHANGED cache
  BY <1>1
<1>2. ASSUME NEW l \in Assets!Loads, Assets!Emplace(l)
      PROVE  \/ k \in DOMAIN cache' /\ cache'[k] = cache[k]
             \/ k = Assets!Last(recency)
  <2>1. PICK kept, list, rem :
          /\ kept = Assets!Kept /\ list = Assets!WithoutVictims
          /\ rem = IF Assets!Kept = cache THEN recency
                   ELSE Assets!RemoveFirst(recency, key[prev[Assets!Sentinel]])
    OBVIOUS
  <2>2. /\ Assets!Readers = {}
        /\ IF key[l] \notin DOMAIN kept
           THEN cache' = [h \in DOMAIN kept \cup {key[l]} |->
                            IF h = key[l] THEN l ELSE kept[h]]
           ELSE cache' = kept
    BY <1>2, <2>1 DEF Assets!Emplace, Assets!Inserted
  <2>3. Popped(kept, list, rem)
    BY <2>1, <2>2, PopKeeps
  <2>4. /\ k \in DOMAIN kept \/ k = recency[Len(recency)]
        /\ \A h \in DOMAIN kept : kept[h] = cache[h]
    BY <2>3 DEF Popped
  <2>5. ASSUME k \in DOMAIN kept
        PROVE  k \in DOMAIN cache' /\ cache'[k] = cache[k]
    BY <2>2, <2>4, <2>5
  <2> QED BY <2>4, <2>5 DEF Assets!Last
<1>3. (\E l \in Assets!Loads : Assets!Emplace(l)) \/ UNCHANGED cache
  <2>1. ASSUME NEW l, Assets!LoadThrows(l) PROVE UNCHANGED cache
    BY <2>1, Zenon DEF Assets!LoadThrows
  <2>2. ASSUME NEW l, NEW h, NEW t, Assets!Miss(l, h, t) \/ Assets!Hit(l, h, t)
        PROVE  UNCHANGED cache
    BY <2>2, Zenon DEF Assets!Miss, Assets!Hit
  <2>3. ASSUME NEW t, Assets!Splice(t) PROVE UNCHANGED cache
    BY <2>3, Zenon DEF Assets!Splice, Assets!Unlink, Assets!LinkNode,
       Assets!LinkFront, Assets!LinkBack, Assets!ReturnHit
  <2> QED BY <2>1, <2>2, <2>3 DEF assetVars, Assets!Next
<1> QED BY <1>1, <1>2, <1>3

(* On however many threads, until lookups overlap in the list, an asset      *)
(* leaves the cache only as the one that was used least recently, and a      *)
(* second load of its key never takes its place.                             *)
THEOREM OnlyOldestLeaves == StoresSpec => OldestGoes
<1>1. StoresInit => UntilOverlap
  BY AssetsInit DEF StoresInit, UntilOverlap
<1>2. [StoresNext]_<<part, vars, assetVars, shaderVars>> => [Assets!Next]_assetVars
  BY DEF StoresNext, MemoryStep, AssetStep, ShaderStep
<1>3. UntilOverlap /\ [StoresNext]_<<part, vars, assetVars, shaderVars>>
        => UntilOverlap'
  BY <1>2, UntilOverlapKept
<1>4. UntilOverlap /\ [StoresNext]_<<part, vars, assetVars, shaderVars>> =>
        [overlapped' \/ \A k \in DOMAIN cache :
           (k \in DOMAIN cache' /\ cache'[k] = cache[k])
             \/ k = Assets!Last(recency)]_(Assets!vars)
  BY <1>2, AssetsDrop, OverlapStays DEF UntilOverlap
<1> QED BY <1>1, <1>3, <1>4, PTL
        DEF StoresSpec, OldestGoes, Assets!OnlyOldestGoes
=============================================================================
