------------------------------- MODULE Generate -------------------------------
(***************************************************************************)
(* How an instance gets its Id, its directory and its map: newInstanceID   *)
(* under the lock of the registry (instanceid.go, allocateNewInstance),    *)
(* generateInstance (geninstance.go) and the map storage (mapstorage.go).  *)
(*                                                                         *)
(* The Id is the time in seconds, and the name of the directory.  The      *)
(* clock is read before the last Id is swapped for the new one, it may be  *)
(* set back, and the last Id is forgotten in a restart.  An epoch ends     *)
(* with each of the two.                                                   *)
(***************************************************************************)
EXTENDS Naturals

CONSTANTS
  Spawners,   \* who may generate an instance: the queues, the requests
  Maps,
  Nobody,     \* no spawner, no map
  MaxTime,    \* bound: the last second
  MaxEpochs,  \* bound: the last epoch
  MaxCalls    \* bound: how many instances are asked for

ASSUME GenerateAssumption ==
  /\ Nobody \notin Spawners \union Maps
  /\ MaxTime \in Nat \ {0} /\ {MaxEpochs, MaxCalls} \subseteq Nat

VARIABLES
  clock, epoch,
  prevInstanceID,
  instancesLock,  \* the spawner in allocateNewInstance, or Nobody
  at,             \* where a spawner is
  inst,           \* the instance it generates: its Id and the epoch the clock was read in
  got,            \* the map it has: which, whether all of it, and whether it was read from a
                  \* file whose last write had been broken off
  issued,         \* the instances that got their Id
  dir,            \* per Id, what is in its directory: whose instance wrote the map last, and which
  started,        \* the instances that were generated, with the map they were promised
  store,          \* per map, its file in the map storage: "none", "whole" or "part"
  cuts,           \* the maps whose file was left in part by the last write that ended
  calls

idVars    == <<prevInstanceID, instancesLock, issued>>
spawnVars == <<at, inst, got>>
diskVars  == <<dir, store, cuts>>
vars == <<clock, epoch, idVars, spawnVars, diskVars, started, calls>>

Instance == [id : 0..MaxTime, epoch : 0..MaxEpochs]
NoInst   == [id |-> 0, epoch |-> 0]
Map      == [map : Maps \union {Nobody}, whole : BOOLEAN, cut : BOOLEAN]
NoMap    == [map |-> Nobody, whole |-> FALSE, cut |-> FALSE]
Content  == [inst : Instance, map : Map]

Init ==
  /\ clock = 1 /\ epoch = 0 /\ prevInstanceID = 0 /\ instancesLock = Nobody
  /\ at = [s \in Spawners |-> "idle"]
  /\ inst = [s \in Spawners |-> NoInst] /\ got = [s \in Spawners |-> NoMap]
  /\ issued = {} /\ started = {} /\ cuts = {} /\ calls = 0
  /\ dir = [n \in 0..MaxTime |-> [inst |-> NoInst, map |-> NoMap]]
  /\ store = [m \in Maps |-> "none"]

Goes(s, from, to) ==
  /\ at[s] = from
  /\ at' = [at EXCEPT ![s] = to]

-----------------------------------------------------------------------------
(* newInstanceID.                                                          *)

(* Mutant: the lock of the registry is not taken before the Id is known.   *)
AllocateUnlocked(s) ==
  /\ calls < MaxCalls /\ calls' = calls + 1
  /\ Goes(s, "idle", "time")
  /\ UNCHANGED <<clock, epoch, idVars, inst, got, diskVars, started>>

allocateNewInstance(s) ==
  /\ calls < MaxCalls /\ calls' = calls + 1
  /\ instancesLock = Nobody /\ instancesLock' = s
  /\ Goes(s, "idle", "time")
  /\ UNCHANGED <<clock, epoch, prevInstanceID, issued, inst, got, diskVars, started>>

ReadClock(s) ==
  /\ Goes(s, "time", "swap")
  /\ inst' = [inst EXCEPT ![s] = [id |-> clock, epoch |-> epoch]]
  /\ UNCHANGED <<clock, epoch, idVars, got, diskVars, started, calls>>

(* The new Id is stored in any case; unless it is greater than the last,   *)
(* the loop starts again, after 100 ms.                                    *)
Swap(s) ==
  /\ at[s] = "swap"
  /\ prevInstanceID' = inst[s].id
  /\ IF prevInstanceID >= inst[s].id
       THEN Goes(s, "swap", "time") /\ UNCHANGED <<instancesLock, issued>>
       ELSE /\ Goes(s, "swap", "map")
            /\ instancesLock' = Nobody
            /\ issued' = issued \union {inst[s]}
  /\ UNCHANGED <<clock, epoch, inst, got, diskVars, started, calls>>

-----------------------------------------------------------------------------
(* The directory and the map.  makeDirs takes a directory that exists for  *)
(* its own.                                                                *)

Fails(s, from) ==
  /\ Goes(s, from, "idle")
  /\ inst' = [inst EXCEPT ![s] = NoInst] /\ got' = [got EXCEPT ![s] = NoMap]

Gets(s, m, whole, cut) ==
  /\ got' = [got EXCEPT ![s] = [map |-> m, whole |-> whole, cut |-> cut]]
  /\ UNCHANGED inst

(* fslock is held over a read of a file, and over a write of one.          *)
fslockFree == \A t \in Spawners : at[t] # "write"

FindMap(s, m) ==
  /\ at[s] = "map"
  /\ \/ store[m] = "none" /\ Goes(s, "map", "fetch") /\ Gets(s, m, FALSE, FALSE)
     \/ store[m] # "none" /\ Goes(s, "map", "copy") /\ Gets(s, m, store[m] = "whole", m \in cuts)
     \/ store[m] # "none" /\ Fails(s, "map")
  /\ UNCHANGED <<clock, epoch, idVars, diskVars, started, calls>>

(* Mutant: the file is read without the lock.                              *)
ReadMapUnlocked(s) == \E m \in Maps : FindMap(s, m)

(* The preset picks one of its maps; GetMap looks for its file.  It may    *)
(* not be readable: the default of filePerms is 644 in decimal, which lets *)
(* the owner write and not read.                                           *)
ReadMap(s) == fslockFree /\ \E m \in Maps : FindMap(s, m)

(* Mutant: the error is ignored.                                           *)
FetchMapBlindly(s) ==
  /\ \/ Goes(s, "fetch", "store") /\ Gets(s, got[s].map, TRUE, FALSE)
     \/ Goes(s, "fetch", "store") /\ Gets(s, Nobody, FALSE, FALSE)
  /\ UNCHANGED <<clock, epoch, idVars, diskVars, started, calls>>

(* FetchMapBlob, without the lock.                                         *)
FetchMap(s) ==
  /\ \/ Goes(s, "fetch", "store") /\ Gets(s, got[s].map, TRUE, FALSE)
     \/ Fails(s, "fetch")
  /\ UNCHANGED <<clock, epoch, idVars, diskVars, started, calls>>

(* os.WriteFile truncates the file, over what another spawner wrote in the *)
(* meantime, unless it cannot open it.                                     *)
StoreBegins(s) ==
  /\ at[s] = "store" /\ fslockFree
  /\ \/ /\ Goes(s, "store", "write") /\ store' = [store EXCEPT ![got[s].map] = "part"]
        /\ UNCHANGED <<inst, got>>
     \/ Fails(s, "store") /\ UNCHANGED store
  /\ UNCHANGED <<clock, epoch, idVars, dir, cuts, started, calls>>

(* Then it writes it; if that fails, so does the call, and the file stays  *)
(* as it is.                                                               *)
StoreMap(s) ==
  LET m == got[s].map
  IN /\ at[s] = "write"
     /\ \/ /\ Goes(s, "write", "copy") /\ store' = [store EXCEPT ![m] = "whole"]
           /\ cuts' = cuts \ {m}
           /\ UNCHANGED <<inst, got>>
        \/ Fails(s, "write") /\ cuts' = cuts \union {m} /\ UNCHANGED store
     /\ UNCHANGED <<clock, epoch, idVars, dir, started, calls>>

(* The map goes to the directory of the instance; what comes after it in   *)
(* generateInstance may fail, too.                                         *)
geniMap(s) ==
  /\ at[s] = "copy"
  /\ \/ /\ dir' = [dir EXCEPT ![inst[s].id] = [inst |-> inst[s], map |-> got[s]]]
        /\ started' = started \union {[inst |-> inst[s], map |-> got[s].map]}
     \/ /\ \E content \in {got[s], [got[s] EXCEPT !.whole = FALSE]} :
             dir' = [dir EXCEPT ![inst[s].id] = [inst |-> inst[s], map |-> content]]
        /\ UNCHANGED started
  /\ Fails(s, "copy")
  /\ UNCHANGED <<clock, epoch, idVars, store, cuts, calls>>

-----------------------------------------------------------------------------
Tick ==
  /\ clock < MaxTime /\ clock' = clock + 1
  /\ UNCHANGED <<epoch, idVars, spawnVars, diskVars, started, calls>>

SetBack ==
  /\ epoch < MaxEpochs /\ epoch' = epoch + 1
  /\ \E t \in 1..clock : clock' = t
  /\ UNCHANGED <<idVars, spawnVars, diskVars, started, calls>>

(* A kill and the next boot: the games and the disk stay, and a map that   *)
(* was being written is there in part.                                     *)
Restart ==
  /\ epoch < MaxEpochs /\ epoch' = epoch + 1
  /\ prevInstanceID' = 0 /\ instancesLock' = Nobody
  /\ at' = [s \in Spawners |-> "idle"]
  /\ inst' = [s \in Spawners |-> NoInst] /\ got' = [s \in Spawners |-> NoMap]
  /\ cuts' = cuts \union {got[s].map : s \in {t \in Spawners : at[t] = "write"}}
  /\ UNCHANGED <<clock, issued, dir, store, started, calls>>

Step(s) ==
  \/ allocateNewInstance(s) \/ ReadClock(s) \/ Swap(s)
  \/ ReadMap(s) \/ FetchMap(s) \/ StoreBegins(s) \/ StoreMap(s) \/ geniMap(s)

Next == (\E s \in Spawners : Step(s)) \/ Tick \/ SetBack \/ Restart

Spec == Init /\ [][Next]_vars

-----------------------------------------------------------------------------
(* Properties.                                                             *)

(* Every variable has its type.                                            *)
TypeOK ==
  /\ clock \in 0..MaxTime /\ epoch \in 0..MaxEpochs /\ prevInstanceID \in 0..MaxTime
  /\ instancesLock \in Spawners \union {Nobody}
  /\ at \in [Spawners -> {"idle", "time", "swap", "map", "fetch", "store", "write", "copy"}]
  /\ inst \in [Spawners -> Instance] /\ got \in [Spawners -> Map]
  /\ issued \subseteq Instance
  /\ dir \in [0..MaxTime -> Content]
  /\ started \subseteq [inst : Instance, map : Maps]
  /\ store \in [Maps -> {"none", "whole", "part"}] /\ cuts \subseteq Maps
  /\ calls \in 0..MaxCalls

(* No Id is given twice, unless the clock was set back or the backend was  *)
(* started in between: the clock is read and the last Id swapped in two    *)
(* steps, which is only right under the lock of the registry, and a smaller*)
(* Id is stored before the loop starts again (newInstanceID).              *)
Issues(s) == at[s] = "swap" /\ at'[s] = "map"

FreshId == [][\A s \in Spawners : Issues(s) => inst[s] \notin issued]_vars

(* The directory of an instance that was generated holds the map it wrote  *)
(* and no other's, unless its Id was given again after the clock was set   *)
(* back or the backend started again (makeDirs); and all of the map, unless*)
(* it came from a file that a broken-off write had left: another spawner   *)
(* may be fetching and writing the same map, and GetMap gives up its lock  *)
(* in between.                                                             *)
OwnMap ==
  \A x \in started :
    LET content == dir[x.inst.id]
    IN \/ /\ content.inst \in issued
          /\ content.inst.id = x.inst.id /\ content.inst.epoch # x.inst.epoch
       \/ /\ content.inst = x.inst /\ content.map.map = x.map
          /\ content.map.whole \/ content.map.cut
=============================================================================
