---------------------------- MODULE GenerateProofs ----------------------------
(***************************************************************************)
(* Proofs about Generate: type correctness, no Id twice in an epoch, and   *)
(* every instance has its own map.                                         *)
(***************************************************************************)
EXTENDS Generate, TLAPS

USE DEF idVars, spawnVars, diskVars, vars

LEMMA ConstantFacts ==
  /\ Nobody \notin Spawners /\ Nobody \notin Maps
  /\ MaxTime \in Nat \ {0} /\ MaxEpochs \in Nat /\ MaxCalls \in Nat
BY GenerateAssumption DEF GenerateAssumption

-----------------------------------------------------------------------------
(* The map a spawner works with, and what is in the map storage.           *)
WithMap == {"fetch", "store", "write", "copy"}

WritesMap(m) == \E s \in Spawners : at[s] = "write" /\ got[s].map = m

MapInv ==
  /\ \A s \in Spawners :
       /\ at[s] \in WithMap => got[s].map \in Maps
       /\ at[s] \in {"store", "write"} => got[s].whole
       /\ at[s] = "copy" => got[s].whole \/ got[s].cut
  /\ \A m \in Maps : store[m] = "part" => m \in cuts \/ WritesMap(m)

BaseInv == TypeOK /\ MapInv

Steps == {"idle", "time", "swap", "map", "fetch", "store", "write", "copy"}

LEMMA GoesTyped ==
  ASSUME TypeOK, NEW s \in Spawners, NEW from, NEW to \in Steps, Goes(s, from, to)
  PROVE  /\ at' \in [Spawners -> Steps] /\ at[s] = from /\ at'[s] = to
         /\ \A t \in Spawners : t # s => at'[t] = at[t]
BY DEF TypeOK, Goes, Steps

LEMMA InstTyped ==
  /\ NoInst \in Instance /\ NoMap \in Map
  /\ \A n \in 0..MaxTime, e \in 0..MaxEpochs :
       /\ [id |-> n, epoch |-> e] \in Instance
       /\ [id |-> n, epoch |-> e].id = n /\ [id |-> n, epoch |-> e].epoch = e
  /\ \A m \in Maps, w, c \in BOOLEAN : [map |-> m, whole |-> w, cut |-> c] \in Map
  /\ \A i \in Instance : i.id \in 0..MaxTime /\ i.epoch \in 0..MaxEpochs
  /\ \A c \in Map : c.map \in Maps \union {Nobody} /\ c.whole \in BOOLEAN /\ c.cut \in BOOLEAN
BY ConstantFacts DEF NoInst, NoMap, Instance, Map

(* A spawner that fails or is done forgets its instance and its map.       *)
LEMMA FailsTyped ==
  ASSUME TypeOK, NEW s \in Spawners, NEW from, Fails(s, from)
  PROVE  /\ at' \in [Spawners -> Steps]
         /\ inst' \in [Spawners -> Instance] /\ got' \in [Spawners -> Map]
         /\ at[s] = from /\ at'[s] = "idle"
         /\ \A t \in Spawners : t # s => at'[t] = at[t] /\ got'[t] = got[t] /\ inst'[t] = inst[t]
<1>1. Goes(s, from, "idle")
  BY DEF Fails
<1>2. /\ at' \in [Spawners -> Steps] /\ at[s] = from /\ at'[s] = "idle"
      /\ \A t \in Spawners : t # s => at'[t] = at[t]
  BY <1>1, GoesTyped DEF Steps
<1>3. /\ inst' \in [Spawners -> Instance] /\ got' \in [Spawners -> Map]
      /\ \A t \in Spawners : t # s => got'[t] = got[t] /\ inst'[t] = inst[t]
  BY InstTyped DEF Fails, TypeOK
<1> QED BY <1>2, <1>3

(* A spawner that goes on with a map, all of it or not.                    *)
LEMMA GetsTyped ==
  ASSUME TypeOK, NEW s \in Spawners, NEW m \in Maps, NEW w \in BOOLEAN, NEW c \in BOOLEAN,
         Gets(s, m, w, c)
  PROVE  /\ got' \in [Spawners -> Map]
         /\ got'[s].map = m /\ got'[s].whole = w /\ got'[s].cut = c
         /\ \A t \in Spawners : t # s => got'[t] = got[t]
         /\ inst' = inst
<1>1. [map |-> m, whole |-> w, cut |-> c] \in Map
  BY InstTyped
<1>2. got' = [got EXCEPT ![s] = [map |-> m, whole |-> w, cut |-> c]] /\ inst' = inst
  BY DEF Gets
<1> QED BY <1>1, <1>2 DEF TypeOK

(* A map that is being written is, when another spawner goes on.           *)
LEMMA WriterStays ==
  ASSUME NEW s \in Spawners, at[s] # "write",
         \A t \in Spawners : t # s => at'[t] = at[t] /\ got'[t] = got[t]
  PROVE  \A m \in Maps : WritesMap(m) => WritesMap(m)'
BY DEF WritesMap

LEMMA BaseInit == Init => BaseInv
<1> SUFFICES ASSUME Init PROVE BaseInv
  OBVIOUS
<1>1. [inst |-> NoInst, map |-> NoMap] \in Content
  BY InstTyped DEF Content
<1>2. clock \in 0..MaxTime /\ epoch \in 0..MaxEpochs /\ prevInstanceID \in 0..MaxTime
      /\ calls \in 0..MaxCalls
  BY ConstantFacts DEF Init
<1>3. TypeOK
  BY <1>1, <1>2, InstTyped DEF Init, TypeOK
<1>4. MapInv
  BY DEF Init, MapInv, WithMap
<1> QED BY <1>3, <1>4 DEF BaseInv

(* The steps that leave the maps alone.                                    *)
LEMMA MapKept ==
  ASSUME BaseInv, NEW s \in Spawners, at[s] \notin WithMap, at'[s] \notin WithMap,
         \A t \in Spawners : t # s => at'[t] = at[t], UNCHANGED <<got, store, cuts>>
  PROVE  MapInv'
<1>1. \A m \in Maps : WritesMap(m) => WritesMap(m)'
  BY WriterStays DEF WithMap
<1> QED BY <1>1 DEF BaseInv, MapInv, WithMap

LEMMA AllocateBase ==
  ASSUME BaseInv, NEW s \in Spawners, allocateNewInstance(s) \/ ReadClock(s) \/ Swap(s)
  PROVE  BaseInv'
<1> USE DEF BaseInv
<1>1. CASE allocateNewInstance(s)
  <2>1. Goes(s, "idle", "time") /\ UNCHANGED <<got, store, cuts>>
    BY <1>1 DEF allocateNewInstance
  <2>2. calls' \in 0..MaxCalls
    BY <1>1, ConstantFacts DEF allocateNewInstance, TypeOK
  <2>3. TypeOK'
    BY <1>1, <2>1, <2>2, GoesTyped DEF allocateNewInstance, TypeOK, Steps
  <2>4. MapInv'
    BY <2>1, GoesTyped, MapKept DEF WithMap, Steps
  <2> QED BY <2>3, <2>4
<1>2. CASE ReadClock(s)
  <2>1. Goes(s, "time", "swap") /\ UNCHANGED <<got, store, cuts>>
    BY <1>2 DEF ReadClock
  <2>2. inst' \in [Spawners -> Instance]
    <3>1. [id |-> clock, epoch |-> epoch] \in Instance
      BY InstTyped DEF TypeOK
    <3> QED BY <1>2, <3>1 DEF ReadClock, TypeOK
  <2>3. TypeOK'
    BY <1>2, <2>1, <2>2, GoesTyped DEF ReadClock, TypeOK, Steps
  <2>4. MapInv'
    BY <2>1, GoesTyped, MapKept DEF WithMap, Steps
  <2> QED BY <2>3, <2>4
<1>3. CASE Swap(s)
  <2>1. inst[s] \in Instance /\ prevInstanceID' \in 0..MaxTime /\ UNCHANGED <<got, store, cuts>>
    BY <1>3, InstTyped DEF Swap, TypeOK
  <2>2. CASE Goes(s, "swap", "time") /\ UNCHANGED <<instancesLock, issued>>
    <3>1. TypeOK'
      BY <1>3, <2>1, <2>2, GoesTyped DEF Swap, TypeOK, Steps
    <3>2. MapInv'
      BY <2>1, <2>2, GoesTyped, MapKept DEF WithMap, Steps
    <3> QED BY <3>1, <3>2
  <2>3. CASE Goes(s, "swap", "map") /\ instancesLock' = Nobody /\ issued' = issued \union {inst[s]}
    <3>1. TypeOK'
      BY <1>3, <2>1, <2>3, GoesTyped DEF Swap, TypeOK, Steps
    <3>2. MapInv'
      BY <2>1, <2>3, GoesTyped, MapKept DEF WithMap, Steps
    <3> QED BY <3>1, <3>2
  <2> QED BY <1>3, <2>2, <2>3 DEF Swap
<1> QED BY <1>1, <1>2, <1>3

(* A spawner fails: nothing is left to be said of its map, unless it was   *)
(* writing it.                                                             *)
LEMMA FailsBase ==
  ASSUME BaseInv, NEW s \in Spawners, NEW from, Fails(s, from),
         UNCHANGED <<clock, epoch, idVars, dir, store, started, calls>>, cuts' \subseteq Maps,
         cuts \subseteq cuts', from = "write" => got[s].map \in cuts'
  PROVE  BaseInv'
<1>1. TypeOK'
  BY FailsTyped DEF BaseInv, TypeOK, Steps
<1>2. TypeOK /\ at[s] = from /\ at'[s] = "idle"
      /\ \A t \in Spawners : t # s => at'[t] = at[t] /\ got'[t] = got[t]
  BY FailsTyped DEF BaseInv
<1>3. ASSUME NEW m \in Maps, store'[m] = "part" PROVE m \in cuts' \/ WritesMap(m)'
  <2>1. m \in cuts \/ WritesMap(m)
    BY <1>3 DEF BaseInv, MapInv
  <2> QED BY <1>2, <2>1 DEF WritesMap
<1>4. MapInv'
  BY <1>2, <1>3 DEF BaseInv, MapInv, WithMap
<1> QED BY <1>1, <1>4 DEF BaseInv

LEMMA MapBase ==
  ASSUME BaseInv, NEW s \in Spawners, ReadMap(s) \/ FetchMap(s)
  PROVE  BaseInv'
<1>1. TypeOK /\ MapInv
  BY DEF BaseInv
<1>2. UNCHANGED <<clock, epoch, idVars, diskVars, started, calls>> /\ at[s] # "write"
  BY DEF ReadMap, FindMap, FetchMap, Fails, Goes
<1>3. ASSUME Fails(s, at[s]) PROVE BaseInv'
  BY <1>1, <1>2, <1>3, FailsBase DEF TypeOK
<1>4. ASSUME NEW m \in Maps, NEW w \in BOOLEAN, NEW c \in BOOLEAN,
             NEW to \in {"fetch", "store", "copy"},
             Goes(s, at[s], to), Gets(s, m, w, c), to = "store" => w, to = "copy" => w \/ c
      PROVE  BaseInv'
  <2>1. to \in Steps
    BY DEF Steps
  <2>2. TypeOK'
    BY <1>1, <1>2, <1>4, <2>1, GoesTyped, GetsTyped DEF TypeOK, Steps
  <2>3. \A k \in Maps : WritesMap(k) => WritesMap(k)'
    BY <1>1, <1>2, <1>4, <2>1, GoesTyped, GetsTyped, WriterStays
  <2>4. MapInv'
    BY <1>1, <1>2, <1>4, <2>1, <2>3, GoesTyped, GetsTyped DEF MapInv, WithMap
  <2> QED BY <2>2, <2>4 DEF BaseInv
<1>5. CASE ReadMap(s)
  <2> PICK m \in Maps :
       \/ store[m] = "none" /\ Goes(s, "map", "fetch") /\ Gets(s, m, FALSE, FALSE)
       \/ store[m] # "none" /\ Goes(s, "map", "copy") /\ Gets(s, m, store[m] = "whole", m \in cuts)
       \/ store[m] # "none" /\ Fails(s, "map")
    BY <1>5 DEF ReadMap, FindMap
  <2>1. at[s] = "map" /\ ~WritesMap(m)
    BY <1>5 DEF ReadMap, FindMap, fslockFree, WritesMap
  <2>2. CASE Goes(s, "map", "fetch") /\ Gets(s, m, FALSE, FALSE)
    BY <1>4, <2>1, <2>2
  <2>3. CASE /\ store[m] # "none" /\ Goes(s, "map", "copy")
             /\ Gets(s, m, store[m] = "whole", m \in cuts)
    <3>1. PICK w \in BOOLEAN, c \in BOOLEAN : (w <=> store[m] = "whole") /\ (c <=> m \in cuts)
      OBVIOUS
    <3>2. w \/ c
      BY <1>1, <2>1, <2>3, <3>1 DEF TypeOK, MapInv
    <3>3. Gets(s, m, w, c)
      <4>1. w = (store[m] = "whole") /\ c = (m \in cuts)
        BY <3>1
      <4> QED BY <2>3, <4>1
    <3> QED BY <1>4, <2>1, <2>3, <3>2, <3>3
  <2>4. CASE Fails(s, "map")
    BY <1>3, <2>1, <2>4
  <2> QED BY <2>2, <2>3, <2>4
<1>6. CASE FetchMap(s)
  <2>1. CASE Goes(s, "fetch", "store") /\ Gets(s, got[s].map, TRUE, FALSE)
    <3>1. at[s] = "fetch" /\ got[s].map \in Maps
      BY <1>1, <2>1 DEF Goes, MapInv, WithMap
    <3> QED BY <1>4, <2>1, <3>1
  <2>2. CASE Fails(s, "fetch")
    <3>1. at[s] = "fetch"
      BY <1>1, <2>2, FailsTyped
    <3> QED BY <1>3, <2>2, <3>1
  <2> QED BY <1>6, <2>1, <2>2 DEF FetchMap
<1> QED BY <1>5, <1>6

LEMMA StoreBase ==
  ASSUME BaseInv, NEW s \in Spawners, StoreBegins(s) \/ StoreMap(s)
  PROVE  BaseInv'
<1> DEFINE m == got[s].map
<1>1. /\ TypeOK /\ MapInv /\ at[s] \in {"store", "write"} /\ m \in Maps /\ got[s].whole
      /\ UNCHANGED <<clock, epoch, idVars, dir, started, calls>>
  BY DEF BaseInv, MapInv, WithMap, StoreBegins, StoreMap
<1>2. CASE StoreBegins(s) /\ Goes(s, "store", "write")
  <2>1. store' = [store EXCEPT ![m] = "part"] /\ UNCHANGED <<inst, got, cuts>>
    BY <1>2 DEF StoreBegins, Fails, Goes, TypeOK, BaseInv
  <2>2. at'[s] = "write" /\ \A t \in Spawners : t # s => at'[t] = at[t]
    BY <1>1, <1>2, GoesTyped DEF Steps
  <2>3. TypeOK'
    BY <1>1, <1>2, <2>1, GoesTyped DEF TypeOK, Steps
  <2>4. \A k \in Maps : WritesMap(k) => WritesMap(k)'
    <3>1. at[s] # "write"
      BY <1>2 DEF StoreBegins
    <3> QED BY <2>1, <2>2, <3>1, WriterStays
  <2>5. \A k \in Maps : store'[k] = "part" => k = m \/ store[k] = "part"
    BY <1>1, <2>1 DEF TypeOK
  <2> HIDE DEF m
  <2>6. ASSUME NEW k \in Maps, store'[k] = "part" PROVE k \in cuts' \/ WritesMap(k)'
    <3>1. CASE k = m
      <4>1. at'[s] = "write" /\ got'[s].map = k
        BY <2>1, <2>2, <3>1 DEF m
      <4> QED BY <4>1 DEF WritesMap
    <3>2. CASE store[k] = "part"
      <4>1. k \in cuts \/ WritesMap(k)
        BY <1>1, <3>2 DEF MapInv
      <4>2. WritesMap(k) => WritesMap(k)'
        BY <2>4
      <4> QED BY <2>1, <4>1, <4>2
    <3> QED BY <2>5, <2>6, <3>1, <3>2
  <2>7. MapInv'
    BY <1>1, <2>1, <2>2, <2>6 DEF MapInv, WithMap, m
  <2> QED BY <2>3, <2>7 DEF BaseInv
<1>3. CASE StoreBegins(s) /\ Fails(s, "store")
  <2>1. UNCHANGED <<store, cuts>>
    BY <1>1, <1>3, FailsTyped DEF StoreBegins, Goes, TypeOK
  <2> QED BY <1>1, <1>3, <2>1, FailsBase DEF TypeOK
<1>4. CASE StoreMap(s) /\ Goes(s, "write", "copy")
  <2>1. store' = [store EXCEPT ![m] = "whole"] /\ cuts' = cuts \ {m} /\ UNCHANGED <<inst, got>>
    BY <1>1, <1>4, GoesTyped DEF StoreMap, Fails, Goes, TypeOK
  <2>2. at'[s] = "copy" /\ \A t \in Spawners : t # s => at'[t] = at[t]
    BY <1>1, <1>4, GoesTyped DEF Steps
  <2>3. store' \in [Maps -> {"none", "whole", "part"}]
        /\ \A k \in Maps : store'[k] = "part" => k # m /\ store[k] = "part"
    BY <1>1, <2>1 DEF TypeOK
  <2>4. TypeOK'
    BY <1>1, <1>4, <2>1, <2>3, GoesTyped DEF TypeOK, Steps
  <2>5. ASSUME NEW k \in Maps, store'[k] = "part" PROVE k \in cuts' \/ WritesMap(k)'
    <3>1. k # m /\ (k \in cuts \/ WritesMap(k))
      BY <1>1, <2>3, <2>5 DEF MapInv
    <3>2. WritesMap(k) => WritesMap(k)'
      BY <2>1, <2>2, <3>1 DEF WritesMap
    <3> QED BY <2>1, <3>1, <3>2
  <2>6. MapInv'
    BY <1>1, <2>1, <2>2, <2>5 DEF MapInv, WithMap
  <2> QED BY <2>4, <2>6 DEF BaseInv
<1>5. CASE StoreMap(s) /\ Fails(s, "write")
  <2>1. UNCHANGED store /\ cuts' = cuts \union {m}
    BY <1>1, <1>5, FailsTyped DEF StoreMap, Goes, TypeOK
  <2> QED BY <1>1, <1>5, <2>1, FailsBase DEF TypeOK
<1> QED BY <1>2, <1>3, <1>4, <1>5 DEF StoreBegins, StoreMap

(* What geniMap writes.                                                    *)
LEMMA WrittenTyped ==
  ASSUME BaseInv, NEW s \in Spawners, geniMap(s)
  PROVE  /\ at[s] = "copy" /\ inst[s] \in Instance /\ got[s].map \in Maps
         /\ got[s] \in Map /\ [got[s] EXCEPT !.whole = FALSE] \in Map
         /\ [inst |-> inst[s], map |-> got[s].map] \in [inst : Instance, map : Maps]
<1>1. at[s] = "copy" /\ inst[s] \in Instance /\ got[s].map \in Maps /\ got[s] \in Map
  BY DEF geniMap, BaseInv, TypeOK, MapInv, WithMap
<1>2. [got[s] EXCEPT !.whole = FALSE] \in Map
  BY <1>1 DEF Map
<1> QED BY <1>1, <1>2

LEMMA CopyBase ==
  ASSUME BaseInv, NEW s \in Spawners, geniMap(s)
  PROVE  BaseInv'
<1>1. TypeOK /\ MapInv
  BY DEF BaseInv
<1>2. PICK c \in Map : dir' = [dir EXCEPT ![inst[s].id] = [inst |-> inst[s], map |-> c]]
  BY WrittenTyped DEF geniMap
<1>3. dir' \in [0..MaxTime -> Content]
  <2>1. [inst |-> inst[s], map |-> c] \in Content
    BY WrittenTyped DEF Content
  <2> QED BY <1>1, <1>2, <2>1 DEF TypeOK
<1>4. started' \subseteq [inst : Instance, map : Maps]
  BY <1>1, WrittenTyped DEF geniMap, TypeOK
<1>5. Fails(s, "copy") /\ UNCHANGED <<clock, epoch, idVars, store, cuts, calls>>
  BY DEF geniMap
<1>6. TypeOK'
  BY <1>1, <1>3, <1>4, <1>5, FailsTyped DEF TypeOK, Steps
<1>7. MapInv'
  <2>1. at[s] = "copy" /\ at'[s] = "idle"
        /\ \A t \in Spawners : t # s => at'[t] = at[t] /\ got'[t] = got[t]
    BY <1>1, <1>5, FailsTyped
  <2>2. \A k \in Maps : WritesMap(k) => WritesMap(k)'
    BY <2>1, WriterStays
  <2> QED BY <1>1, <1>5, <2>1, <2>2 DEF MapInv, WithMap
<1> QED BY <1>6, <1>7 DEF BaseInv

LEMMA ClockBase ==
  ASSUME BaseInv, Tick \/ SetBack
  PROVE  BaseInv'
<1>1. clock' \in 0..MaxTime /\ epoch' \in 0..MaxEpochs
  BY ConstantFacts DEF BaseInv, TypeOK, Tick, SetBack
<1>2. UNCHANGED <<idVars, spawnVars, diskVars, started, calls>>
  BY DEF Tick, SetBack
<1> QED BY <1>1, <1>2 DEF BaseInv, TypeOK, MapInv, WritesMap

LEMMA RestartBase ==
  ASSUME BaseInv, Restart
  PROVE  BaseInv'
<1>1. TypeOK /\ MapInv
  BY DEF BaseInv
<1>2. /\ UNCHANGED store /\ cuts' \subseteq Maps
      /\ \A m \in Maps : store'[m] = "part" => m \in cuts'
  <2>1. /\ UNCHANGED store
        /\ cuts' = cuts \union {got[s].map : s \in {t \in Spawners : at[t] = "write"}}
    BY DEF Restart
  <2>2. \A s \in Spawners : at[s] = "write" => got[s].map \in Maps
    BY <1>1 DEF MapInv, WithMap
  <2>3. \A m \in Maps : m \in cuts \/ WritesMap(m) => m \in cuts'
    BY <2>1 DEF WritesMap
  <2> QED BY <1>1, <2>1, <2>2, <2>3 DEF TypeOK, MapInv
<1>3. epoch' \in 0..MaxEpochs /\ prevInstanceID' \in 0..MaxTime
  BY <1>1, ConstantFacts DEF Restart, TypeOK
<1>4. TypeOK'
  BY <1>1, <1>2, <1>3, InstTyped DEF Restart, TypeOK
<1>5. MapInv'
  BY <1>2 DEF Restart, MapInv, WithMap
<1> QED BY <1>4, <1>5 DEF BaseInv

LEMMA BaseNext == BaseInv /\ [Next]_vars => BaseInv'
<1>1. CASE UNCHANGED vars
  BY <1>1 DEF BaseInv, TypeOK, MapInv, WritesMap
<1> QED BY <1>1, AllocateBase, MapBase, StoreBase, CopyBase, ClockBase, RestartBase DEF Next, Step

(* Every variable has its type, and a map that is used is one.             *)
THEOREM TypeCorrect == Spec => []TypeOK
<1>1. BaseInv => TypeOK
  BY DEF BaseInv
<1> QED BY BaseInit, BaseNext, <1>1, PTL DEF Spec

-----------------------------------------------------------------------------
(* The Ids.  The spawner that reads the clock and swaps the last Id is the *)
(* one that holds the lock.  The last Id is not below any that was given   *)
(* in this epoch, and what the spawner read is not older than any of them. *)
LockInv ==
  \A s \in Spawners : at[s] \in {"time", "swap"} => instancesLock = s

IssuedInv ==
  \A e \in issued :
    /\ e.epoch <= epoch
    /\ e.epoch = epoch => e.id <= prevInstanceID /\ e.id <= clock

PendingInv ==
  \A s \in Spawners : at[s] = "swap" =>
    /\ inst[s].epoch <= epoch
    /\ inst[s].epoch = epoch => inst[s].id <= clock
    /\ \A e \in issued :
         /\ e.epoch <= inst[s].epoch
         /\ e.epoch = inst[s].epoch => e.id <= prevInstanceID /\ e.id <= inst[s].id

IdInv == LockInv /\ IssuedInv /\ PendingInv

LEMMA IdInit == Init => IdInv
BY DEF Init, IdInv, LockInv, IssuedInv, PendingInv

LEMMA IdTyped ==
  ASSUME TypeOK
  PROVE  /\ clock \in Nat /\ epoch \in Nat /\ prevInstanceID \in Nat
         /\ \A s \in Spawners : inst[s].id \in Nat /\ inst[s].epoch \in Nat
         /\ \A e \in issued : e.id \in Nat /\ e.epoch \in Nat
BY ConstantFacts DEF TypeOK, Instance

(* A spawner that goes from one step to another, neither of them under the *)
(* lock.                                                                   *)
LEMMA IdOutside ==
  ASSUME BaseInv, IdInv, NEW s \in Spawners, at'[s] \notin {"time", "swap"},
         \A t \in Spawners : t # s => at'[t] = at[t] /\ inst'[t] = inst[t],
         UNCHANGED <<clock, epoch, idVars>>
  PROVE  IdInv'
BY DEF IdInv, LockInv, IssuedInv, PendingInv

LEMMA SwapId ==
  ASSUME BaseInv, IdInv, NEW s \in Spawners, Swap(s)
  PROVE  IdInv' /\ (at'[s] = "map" => inst[s] \notin issued)
<1>1. TypeOK /\ at[s] = "swap" /\ UNCHANGED <<clock, epoch, inst>> /\ prevInstanceID' = inst[s].id
  BY DEF Swap, BaseInv
<1>2. instancesLock = s /\ \A t \in Spawners : t # s => at[t] \notin {"time", "swap"}
  BY <1>1 DEF IdInv, LockInv
<1>3. CASE /\ prevInstanceID >= inst[s].id /\ Goes(s, "swap", "time")
           /\ UNCHANGED <<instancesLock, issued>>
  <2>1. at'[s] = "time" /\ \A t \in Spawners : t # s => at'[t] = at[t]
    BY <1>1, <1>3, GoesTyped DEF Steps
  <2>2. LockInv' /\ PendingInv'
    BY <1>2, <1>3, <2>1 DEF LockInv, PendingInv
  <2>3. IssuedInv'
    BY <1>1, <1>3, IdTyped DEF IdInv, IssuedInv, PendingInv
  <2> QED BY <2>1, <2>2, <2>3 DEF IdInv
<1>4. CASE /\ ~(prevInstanceID >= inst[s].id) /\ Goes(s, "swap", "map") /\ instancesLock' = Nobody
           /\ issued' = issued \union {inst[s]}
  <2>1. at'[s] = "map" /\ \A t \in Spawners : t # s => at'[t] = at[t]
    BY <1>1, <1>4, GoesTyped DEF Steps
  <2>2. inst[s] \notin issued
    BY <1>1, <1>4, IdTyped DEF IdInv, PendingInv
  <2>3. LockInv' /\ PendingInv'
    BY <1>2, <2>1 DEF LockInv, PendingInv
  <2>4. IssuedInv'
    BY <1>1, <1>4, IdTyped DEF IdInv, IssuedInv, PendingInv
  <2> QED BY <2>2, <2>3, <2>4 DEF IdInv
<1> QED BY <1>3, <1>4 DEF Swap

(* A step with a map: it is not under the lock, and keeps the instance, or *)
(* the spawner is done.                                                    *)
MapStep(s) == ReadMap(s) \/ FetchMap(s) \/ StoreBegins(s) \/ StoreMap(s) \/ geniMap(s)

LEMMA MapStepFacts ==
  ASSUME BaseInv, NEW s \in Spawners, MapStep(s)
  PROVE  /\ at[s] \in {"map"} \union WithMap /\ at'[s] \in {"idle"} \union WithMap
         /\ \A t \in Spawners : t # s => at'[t] = at[t] /\ inst'[t] = inst[t]
         /\ at'[s] # "idle" => inst'[s] = inst[s]
         /\ UNCHANGED <<clock, epoch, idVars>>
<1>1. TypeOK
  BY DEF BaseInv
<1>2. ASSUME Fails(s, at[s])
      PROVE  /\ at'[s] = "idle"
             /\ \A t \in Spawners : t # s => at'[t] = at[t] /\ inst'[t] = inst[t]
  BY <1>1, <1>2, FailsTyped
<1>3. ASSUME NEW to \in WithMap, Goes(s, at[s], to), inst' = inst
      PROVE  at'[s] = to /\ \A t \in Spawners : t # s => at'[t] = at[t]
  <2>1. to \in Steps
    BY DEF WithMap, Steps
  <2> QED BY <1>1, <1>3, <2>1, GoesTyped
<1>4. UNCHANGED <<clock, epoch, idVars>>
  BY DEF MapStep, ReadMap, FindMap, FetchMap, StoreBegins, StoreMap, geniMap
<1>5. /\ at[s] \in {"map"} \union WithMap
      /\ Fails(s, at[s]) \/ \E to \in WithMap : Goes(s, at[s], to) /\ inst' = inst
  <2>1. CASE ReadMap(s)
    BY <2>1 DEF ReadMap, FindMap, Gets, WithMap
  <2>2. CASE FetchMap(s)
    BY <2>2 DEF FetchMap, Fails, Goes, Gets, WithMap
  <2>3. CASE StoreMap(s)
    BY <2>3 DEF StoreMap, WithMap
  <2>5. CASE StoreBegins(s)
    BY <2>5 DEF StoreBegins, WithMap
  <2>4. CASE geniMap(s)
    BY <2>4 DEF geniMap, WithMap
  <2> QED BY <2>1, <2>2, <2>3, <2>4, <2>5 DEF MapStep
<1> QED BY <1>2, <1>3, <1>4, <1>5

LEMMA IdNext == BaseInv /\ IdInv /\ [Next]_vars => IdInv'
<1> SUFFICES ASSUME BaseInv, IdInv, [Next]_vars PROVE IdInv'
  OBVIOUS
<1>1. TypeOK
  BY DEF BaseInv
<1>2. ASSUME NEW s \in Spawners, allocateNewInstance(s) PROVE IdInv'
  <2>1. /\ at'[s] = "time" /\ \A t \in Spawners : t # s => at'[t] = at[t]
        /\ instancesLock = Nobody /\ instancesLock' = s
        /\ UNCHANGED <<clock, epoch, prevInstanceID, issued, inst>>
    BY <1>1, <1>2, GoesTyped DEF allocateNewInstance, Steps
  <2>2. \A t \in Spawners : at[t] \notin {"time", "swap"}
    BY <2>1, ConstantFacts DEF IdInv, LockInv
  <2> QED BY <2>1, <2>2 DEF IdInv, LockInv, IssuedInv, PendingInv
<1>3. ASSUME NEW s \in Spawners, ReadClock(s) PROVE IdInv'
  <2>1. /\ at[s] = "time" /\ at'[s] = "swap" /\ \A t \in Spawners : t # s => at'[t] = at[t]
        /\ UNCHANGED <<clock, epoch, idVars>>
    BY <1>1, <1>3, GoesTyped DEF ReadClock, Steps
  <2>2. /\ inst'[s].id = clock /\ inst'[s].epoch = epoch
        /\ \A t \in Spawners : t # s => inst'[t] = inst[t]
    BY <1>1, <1>3 DEF ReadClock, TypeOK
  <2>3. PendingInv'
    BY <1>1, <2>1, <2>2, IdTyped DEF IdInv, IssuedInv, PendingInv
  <2> QED BY <2>1, <2>3 DEF IdInv, LockInv, IssuedInv
<1>4. ASSUME NEW s \in Spawners, Swap(s) PROVE IdInv'
  BY <1>4, SwapId
<1>5. ASSUME NEW s \in Spawners, MapStep(s) PROVE IdInv'
  <2>1. at'[s] \notin {"time", "swap"}
    BY <1>5, MapStepFacts DEF WithMap
  <2> QED BY <1>5, <2>1, MapStepFacts, IdOutside
<1>6. CASE Tick
  BY <1>1, <1>6, IdTyped DEF Tick, IdInv, LockInv, IssuedInv, PendingInv
<1>7. CASE SetBack
  <2>1. epoch' = epoch + 1 /\ UNCHANGED <<idVars, at, inst>>
    BY <1>7 DEF SetBack
  <2>2. IssuedInv'
    BY <1>1, <2>1, IdTyped DEF IdInv, IssuedInv
  <2>3. PendingInv'
    BY <1>1, <2>1, IdTyped DEF IdInv, PendingInv
  <2> QED BY <2>1, <2>2, <2>3 DEF IdInv, LockInv
<1>8. CASE Restart
  <2>1. IssuedInv'
    BY <1>1, <1>8, IdTyped DEF Restart, IdInv, IssuedInv
  <2> QED BY <1>8, <2>1 DEF Restart, IdInv, LockInv, PendingInv
<1>9. CASE UNCHANGED vars
  BY <1>9 DEF IdInv, LockInv, IssuedInv, PendingInv
<1> QED BY <1>2, <1>3, <1>4, <1>5, <1>6, <1>7, <1>8, <1>9 DEF Next, Step, MapStep

(* Only a swap gives an Id.                                                *)
LEMMA IssueIsSwap ==
  ASSUME BaseInv, Next, NEW s \in Spawners, Issues(s)
  PROVE  Swap(s)
<1>1. at[s] = "swap" /\ at'[s] = "map" /\ TypeOK
  BY DEF Issues, BaseInv
<1>2. ASSUME NEW t \in Spawners, Step(t) PROVE t = s
  <2>1. CASE allocateNewInstance(t) \/ ReadClock(t) \/ Swap(t)
    <3>1. \E from, to \in Steps : Goes(t, from, to)
      BY <2>1 DEF allocateNewInstance, ReadClock, Swap, Steps
    <3> QED BY <1>1, <3>1, GoesTyped
  <2>2. CASE MapStep(t)
    BY <1>1, <2>2, MapStepFacts
  <2> QED BY <1>2, <2>1, <2>2 DEF Step, MapStep
<1>3. Step(s)
  BY <1>1, <1>2 DEF Next, Tick, SetBack, Restart
<1>4. ~MapStep(s)
  BY <1>1, MapStepFacts DEF WithMap
<1> QED BY <1>1, <1>3, <1>4 DEF Step, MapStep, allocateNewInstance, ReadClock, Goes

(* No Id is given twice in an epoch: newInstanceID returns only under the  *)
(* lock of the registry, with an Id above all those of the epoch.          *)
THEOREM IdsAreFresh == Spec => FreshId
<1>1. BaseInv /\ IdInv /\ [Next]_vars => [\A s \in Spawners : Issues(s) => inst[s] \notin issued]_vars
  BY IssueIsSwap, SwapId DEF Issues
<1> QED BY BaseInit, BaseNext, IdInit, IdNext, <1>1, PTL DEF Spec, FreshId

-----------------------------------------------------------------------------
(* The directories.  An instance that has its Id and is still being        *)
(* generated belongs to one spawner, and was not generated before; so what *)
(* is written to its directory overwrites no instance of its epoch.        *)
Working == {"map"} \union WithMap

WorkInv ==
  \A s \in Spawners : at[s] \in Working =>
    /\ inst[s] \in issued
    /\ \A x \in started : x.inst # inst[s]
    /\ \A t \in Spawners : t # s /\ at[t] \in Working => inst[t] # inst[s]

StartedInv == \A x \in started : x.inst \in issued

OwnInv == WorkInv /\ StartedInv /\ OwnMap

LEMMA OwnInit == Init => OwnInv
BY DEF Init, OwnInv, WorkInv, StartedInv, OwnMap, Working, WithMap

(* The steps that write to no directory.                                   *)
LEMMA OwnElsewhere ==
  ASSUME OwnInv, UNCHANGED <<dir, started>>, issued \subseteq issued', WorkInv'
  PROVE  OwnInv'
<1>1. StartedInv'
  BY DEF OwnInv, StartedInv
<1>2. OwnMap'
  BY DEF OwnInv, OwnMap
<1> QED BY <1>1, <1>2 DEF OwnInv

LEMMA SameInstance ==
  ASSUME NEW i \in Instance, NEW j \in Instance, i.id = j.id, i.epoch = j.epoch
  PROVE  i = j
BY DEF Instance

LEMMA OwnCopy ==
  ASSUME BaseInv, OwnInv, NEW s \in Spawners, geniMap(s)
  PROVE  OwnInv'
<1>1. /\ TypeOK /\ MapInv /\ WorkInv /\ StartedInv /\ OwnMap
      /\ at[s] = "copy" /\ at[s] \in Working /\ inst[s] \in Instance
  BY WrittenTyped DEF BaseInv, OwnInv, Working, WithMap
<1>2. /\ at'[s] = "idle" /\ UNCHANGED issued
      /\ \A t \in Spawners : t # s => at'[t] = at[t] /\ inst'[t] = inst[t]
  BY <1>1, FailsTyped DEF geniMap
<1> DEFINE new == [inst |-> inst[s], map |-> got[s].map]
<1>3. PICK c \in Map :
        /\ dir' = [dir EXCEPT ![inst[s].id] = [inst |-> inst[s], map |-> c]]
        /\ started' = started \/ (started' = started \union {new} /\ c = got[s])
  BY WrittenTyped DEF geniMap
<1>4. /\ dir'[inst[s].id] = [inst |-> inst[s], map |-> c]
      /\ \A n \in 0..MaxTime : n # inst[s].id => dir'[n] = dir[n]
  <2>1. inst[s].id \in 0..MaxTime
    BY <1>1, InstTyped
  <2> QED BY <1>1, <1>3, <2>1 DEF TypeOK
<1>5. WorkInv'
  <2> SUFFICES ASSUME NEW t \in Spawners, at'[t] \in Working
               PROVE  /\ inst'[t] \in issued'
                      /\ \A x \in started' : x.inst # inst'[t]
                      /\ \A u \in Spawners : u # t /\ at'[u] \in Working => inst'[u] # inst'[t]
    BY DEF WorkInv
  <2>1. t # s /\ at'[t] = at[t] /\ inst'[t] = inst[t] /\ inst[t] # inst[s]
    BY <1>1, <1>2 DEF Working, WithMap, WorkInv
  <2>2. \A x \in started' : x \in started \/ x.inst = inst[s]
    BY <1>3
  <2>3. \A u \in Spawners : at'[u] \in Working => at[u] \in Working /\ inst'[u] = inst[u]
    BY <1>2 DEF Working, WithMap
  <2> QED BY <1>1, <1>2, <2>1, <2>2, <2>3 DEF WorkInv
<1>6. StartedInv'
  BY <1>1, <1>2, <1>3 DEF StartedInv, WorkInv
<1>7. OwnMap'
  <2> SUFFICES ASSUME NEW x \in started'
               PROVE  LET content == dir'[x.inst.id]
                      IN \/ /\ content.inst \in issued'
                            /\ content.inst.id = x.inst.id /\ content.inst.epoch # x.inst.epoch
                         \/ /\ content.inst = x.inst /\ content.map.map = x.map
                            /\ content.map.whole \/ content.map.cut
    BY DEF OwnMap
  <2>1. CASE x \in started
    <3>1. x.inst \in Instance /\ x.inst # inst[s] /\ x.inst.id \in 0..MaxTime
      BY <1>1, <2>1, InstTyped DEF TypeOK, WorkInv
    <3>2. CASE x.inst.id = inst[s].id
      <4>1. x.inst.epoch # inst[s].epoch
        BY <1>1, <3>1, <3>2, SameInstance
      <4>2. inst[s] \in issued
        BY <1>1 DEF WorkInv
      <4> QED BY <1>2, <1>4, <3>2, <4>1, <4>2
    <3>3. CASE x.inst.id # inst[s].id
      BY <1>1, <1>2, <1>4, <2>1, <3>1, <3>3 DEF OwnMap
    <3> QED BY <3>2, <3>3
  <2>2. CASE x = new /\ c = got[s]
    <3>1. got[s].whole \/ got[s].cut
      BY <1>1 DEF MapInv
    <3> QED BY <1>2, <1>4, <2>2, <3>1
  <2> QED BY <1>3, <2>1, <2>2
<1> QED BY <1>5, <1>6, <1>7 DEF OwnInv

LEMMA OwnNext == BaseInv /\ IdInv /\ OwnInv /\ [Next]_vars => OwnInv'
<1> SUFFICES ASSUME BaseInv, IdInv, OwnInv, [Next]_vars PROVE OwnInv'
  OBVIOUS
<1>1. TypeOK /\ WorkInv /\ StartedInv
  BY DEF BaseInv, OwnInv
<1>2. ASSUME NEW s \in Spawners, allocateNewInstance(s) \/ ReadClock(s) PROVE OwnInv'
  <2>1. /\ at'[s] \in {"time", "swap"}
        /\ \A t \in Spawners : t # s => at'[t] = at[t] /\ inst'[t] = inst[t]
        /\ UNCHANGED <<dir, started, issued>>
    BY <1>1, <1>2, GoesTyped DEF allocateNewInstance, ReadClock, Steps, TypeOK
  <2>2. WorkInv'
    BY <1>1, <2>1 DEF WorkInv, Working, WithMap
  <2> QED BY <2>1, <2>2, OwnElsewhere
<1>3. ASSUME NEW s \in Spawners, Swap(s) PROVE OwnInv'
  <2>1. /\ at[s] = "swap" /\ UNCHANGED <<dir, started, inst>>
        /\ \A t \in Spawners : t # s => at'[t] = at[t]
        /\ \/ at'[s] = "time" /\ issued' = issued
           \/ at'[s] = "map" /\ issued' = issued \union {inst[s]}
    BY <1>1, <1>3, GoesTyped DEF Swap, Steps
  <2>2. at'[s] = "map" => inst[s] \notin issued
    BY <1>3, SwapId
  <2>3. WorkInv'
    BY <1>1, <2>1, <2>2 DEF WorkInv, StartedInv, Working, WithMap
  <2> QED BY <2>1, <2>3, OwnElsewhere
<1>4. ASSUME NEW s \in Spawners, ReadMap(s) \/ FetchMap(s) \/ StoreBegins(s) \/ StoreMap(s)
      PROVE  OwnInv'
  <2>1. UNCHANGED <<dir, started, issued>>
    BY <1>4 DEF ReadMap, FindMap, FetchMap, StoreBegins, StoreMap
  <2>2. /\ at[s] \in Working /\ at'[s] \in {"idle"} \union WithMap
        /\ \A t \in Spawners : t # s => at'[t] = at[t] /\ inst'[t] = inst[t]
        /\ at'[s] # "idle" => inst'[s] = inst[s]
    BY <1>4, MapStepFacts DEF MapStep, Working
  <2>3. \A t \in Spawners : at'[t] \in Working => at[t] \in Working /\ inst'[t] = inst[t]
    BY <2>2 DEF Working, WithMap
  <2>4. WorkInv'
    BY <1>1, <2>1, <2>3 DEF WorkInv
  <2> QED BY <2>1, <2>4, OwnElsewhere
<1>5. ASSUME NEW s \in Spawners, geniMap(s) PROVE OwnInv'
  BY <1>5, OwnCopy
<1>6. CASE Tick \/ SetBack \/ UNCHANGED vars
  <2>1. UNCHANGED <<dir, started, issued, at, inst>>
    BY <1>6 DEF Tick, SetBack
  <2>2. WorkInv'
    BY <1>1, <2>1 DEF WorkInv
  <2> QED BY <2>1, <2>2, OwnElsewhere
<1>7. CASE Restart
  <2>1. UNCHANGED <<dir, started, issued>>
    BY <1>7 DEF Restart
  <2>2. WorkInv'
    BY <1>7 DEF Restart, WorkInv, Working, WithMap
  <2> QED BY <2>1, <2>2, OwnElsewhere
<1> QED BY <1>2, <1>3, <1>4, <1>5, <1>6, <1>7 DEF Next, Step

(* The directory of an instance that was generated holds the map it was    *)
(* generated with, and all of it unless the file it was read from was left *)
(* by a broken-off write.                                                  *)
THEOREM InstancesHaveTheirMaps == Spec => []OwnMap
<1>1. OwnInv => OwnMap
  BY DEF OwnInv
<1> QED BY BaseInit, BaseNext, IdInit, IdNext, OwnInit, OwnNext, <1>1, PTL DEF Spec
=============================================================================
