--------------------------- MODULE ManagerProofs ---------------------------
(* Theorems about Manager, for every number of instances, ports, queues,   *)
(* requests and starts of the backend.                                     *)
EXTENDS Manager, TLAPS

USE DEF registryVars, runnerVars, gameVars, diskVars, spawnVars, mainVars

LEMMA ConstantFacts ==
  /\ MaxInst \in Nat /\ NumQueues \in Nat /\ MaxBoots \in Nat \ {0}
  /\ PortList \in Seq(Nat \ {0})
  /\ Keepalive \in Spawners
  BY ManagerAssumption DEF Spawners

-----------------------------------------------------------------------------
(* Type correctness.                                                       *)

LEMMA TypeInit == Init => TypeOK
  BY ManagerAssumption DEF Init, TypeOK, States, NoFile, instanceStateInitial, RunnerPcs,
     SpawnPcs, MainPcs, Inst

LEMMA TypeSpawn == ASSUME NEW s \in Spawners, TypeOK, Spawn(s) PROVE TypeOK'
<1> USE ConstantFacts DEF TypeOK, SpawnPcs
<1>1. CASE allocateNewInstance(s)
  <2>1. PICK k \in DOMAIN PortList : GamePort' = [GamePort EXCEPT ![lastId + 1] = PortList[k]]
    BY <1>1 DEF allocateNewInstance
  <2>2. lastId + 1 \in Inst /\ lastId' \in 0..MaxInst /\ PortList[k] \in Nat
    BY <1>1 DEF allocateNewInstance, Inst
  <2>3. GamePort' \in [Inst -> Nat]
    BY <2>1, <2>2
  <2>4. spawnAt' \in [Spawners -> SpawnPcs] /\ spawnInst' \in [Spawners -> 0..MaxInst]
    BY <1>1, <2>2 DEF allocateNewInstance
  <2> QED
    BY <1>1, <2>2, <2>3, <2>4 DEF allocateNewInstance
<1>2. CASE AllocationFails(s)
  BY <1>2 DEF AllocationFails, Proceed
<1>3. CASE generateInstance(s)
  BY <1>3 DEF generateInstance
<1>4. CASE releaseInstance(s)
  BY <1>4 DEF releaseInstance, Proceed
<1>5. CASE StartRunner(s)
  <2>1. QueueName' \in [Inst -> Nat] /\ runner' \in [Inst -> RunnerPcs]
    BY <1>5 DEF StartRunner, RunnerPcs
  <2>2. /\ spawnAt' \in [Spawners -> SpawnPcs] /\ spawnInst' \in [Spawners -> 0..MaxInst]
        /\ nextQueue' \in Nat
    BY <1>5 DEF StartRunner, Proceed
  <2> QED
    BY <1>5, <2>1, <2>2 DEF StartRunner
<1> QED
  BY <1>1, <1>2, <1>3, <1>4, <1>5 DEF Spawn

LEMMA TypeArchive ==
  ASSUME NEW i \in Inst, TypeOK, archiveInstance(i) \/ UNCHANGED diskVars
  PROVE  /\ saved' \in [Inst -> States \union {NoFile, TornFile}] /\ cmdline' \in [Inst -> BOOLEAN]
         /\ confdir' \in [Inst -> {"none", "present", "archived"}]
  BY DEF TypeOK, archiveInstance

LEMMA TypeRunner == ASSUME NEW i \in Inst, TypeOK, Runner(i) PROVE TypeOK'
<1> USE DEF TypeOK, RunnerMoves, RunnerPcs, States, instanceStateExiting, instanceStateExited
<1>1. CASE createPipes(i)
  BY <1>1 DEF createPipes
<1>2. CASE StartProcess(i) \/ StartProcessFails(i)
  BY <1>2 DEF StartProcess, StartProcessFails
<1>3. CASE WriteFiles(i)
  BY <1>3 DEF WriteFiles
<1>4. CASE EnterRunner(i) \/ isInstanceInLobby(i) \/ PidCheckFailed(i) \/ RunnerHangs(i)
  BY <1>4 DEF EnterRunner, isInstanceInLobby, PidCheckFailed, RunnerHangs
<1>5. CASE recoverSave(i)
  <2>1. saved' \in [Inst -> States \union {NoFile, TornFile}]
    <3> HIDE DEF RunnerMoves, RunnerPcs, States
    <3>1. state[i] \in States /\ saved \in [Inst -> States \union {NoFile, TornFile}]
      OBVIOUS
    <3>2. \E f \in {state[i], saved[i], TornFile} : saved' = [saved EXCEPT ![i] = f]
      <4>1. saved = [saved EXCEPT ![i] = saved[i]]
        BY <3>1
      <4>2. saved' \in {saved, [saved EXCEPT ![i] = state[i]], [saved EXCEPT ![i] = TornFile]}
        BY <1>5 DEF recoverSave
      <4> QED BY <4>1, <4>2
    <3> QED BY <3>1, <3>2
  <2> QED
    BY <1>5, <2>1 DEF recoverSave
<1>6. CASE HandleShutdown(i)
  BY <1>6 DEF HandleShutdown
<1>7. CASE HandleRunnerStop(i)
  BY <1>7 DEF HandleRunnerStop
<1>8. CASE RunnerExits(i)
  <2>1. saved' \in [Inst -> States \union {NoFile, TornFile}] /\ cmdline' \in [Inst -> BOOLEAN]
        /\ confdir' \in [Inst -> {"none", "present", "archived"}]
    BY <1>8, TypeArchive DEF RunnerExits
  <2>2. /\ runner' = [runner EXCEPT ![i] = "exited"]
        /\ state' = [state EXCEPT ![i] = instanceStateExited]
    BY <1>8 DEF RunnerExits
  <2>3. UNCHANGED <<registryVars, commands, ordered, gameVars, spawnVars, mainVars>>
    BY <1>8 DEF RunnerExits
  <2> QED
    BY <2>1, <2>2, <2>3
<1> QED
  BY <1>1, <1>2, <1>3, <1>4, <1>5, <1>6, <1>7, <1>8 DEF Runner

LEMMA TypeMessage == ASSUME NEW i \in Inst, TypeOK, Message(i) PROVE TypeOK'
<1> USE DEF TypeOK, RunnerMoves, RunnerPcs, States
<1>1. CASE HandleLobbyId(i)
  BY <1>1 DEF HandleLobbyId, instanceStateInLobby
<1>2. CASE HandleStart(i)
  BY <1>2 DEF HandleStart, instanceStateInLobby, instanceStateInGame
<1>3. CASE HandleLobbyError(i)
  BY <1>3 DEF HandleLobbyError
<1>4. CASE HandleJoin(i)
  BY <1>4 DEF HandleJoin
<1> QED
  BY <1>1, <1>2, <1>3, <1>4 DEF Message

(* The end of the backend tears only a file that is being written.         *)
LEMMA ForgetSaved ==
  ASSUME ForgetAll
  PROVE  \A i \in Inst :
           saved'[i] = saved[i] \/ (runner[i] = "save" /\ saved'[i] = TornFile)
  BY DEF ForgetAll

LEMMA TypeForget == TypeOK /\ ForgetAll /\ main' \in MainPcs => TypeOK'
<1> SUFFICES ASSUME TypeOK, ForgetAll, main' \in MainPcs PROVE TypeOK'
  OBVIOUS
<1>1. spawnAt' \in [Spawners -> SpawnPcs] /\ spawnInst' \in [Spawners -> 0..MaxInst]
  BY ConstantFacts DEF ForgetAll, SpawnPcs
<1>2. /\ state' \in [Inst -> States] /\ runner' \in [Inst -> RunnerPcs]
      /\ ordered' \in [Inst -> BOOLEAN]
  BY DEF ForgetAll, RunnerPcs, States, instanceStateInitial
<1>3. commands' \in [Inst -> Seq({"shutdown", "stop"})]
  BY DEF ForgetAll
<1>4. saved' \in [Inst -> States \union {NoFile, TornFile}]
  <2>1. PICK cut \in SUBSET Inst :
          saved' = [i \in Inst |-> IF i \in cut THEN TornFile ELSE saved[i]]
    BY DEF ForgetAll
  <2> QED
    BY <2>1 DEF TypeOK
<1> QED
  BY <1>1, <1>2, <1>3, <1>4 DEF TypeOK, ForgetAll

LEMMA TypeMain == TypeOK /\ Main => TypeOK'
<1> SUFFICES ASSUME TypeOK, Main PROVE TypeOK'
  OBVIOUS
<1>1. ASSUME NEW i \in Inst, RecoverSkips(i) PROVE TypeOK'
  BY <1>1 DEF TypeOK, RecoverSkips, RecoverNext
<1>2. ASSUME NEW i \in Inst, RecoverArchives(i) PROVE TypeOK'
  <2>1. saved' \in [Inst -> States \union {NoFile, TornFile}] /\ cmdline' \in [Inst -> BOOLEAN]
        /\ confdir' \in [Inst -> {"none", "present", "archived"}]
    BY <1>2, TypeArchive DEF RecoverArchives
  <2> QED
    BY <1>2, <2>1 DEF TypeOK, RecoverArchives, RecoverNext
<1>3. ASSUME NEW i \in Inst, recoverRunner(i) PROVE TypeOK'
  BY <1>3 DEF TypeOK, recoverRunner, RecoverNext, RunnerPcs, Loadable
<1>4. CASE BootDone \/ StopBegins \/ StopSent \/ StopDone
  BY <1>4 DEF TypeOK, BootDone, StopBegins, StopSent, StopDone, MainPcs
<1>5. ASSUME NEW i \in Inst, StopSends(i) PROVE TypeOK'
  BY <1>5 DEF TypeOK, StopSends
<1>6. ASSUME NEW i \in Inst, StopWaits(i) PROVE TypeOK'
  BY <1>6 DEF TypeOK, StopWaits
<1>7. CASE Exit
  BY <1>7, TypeForget DEF Exit, MainPcs
<1> QED
  BY <1>1, <1>2, <1>3, <1>4, <1>5, <1>6, <1>7 DEF Main

LEMMA TypeNext == TypeOK /\ [Next]_vars => TypeOK'
<1> SUFFICES ASSUME TypeOK, [Next]_vars PROVE TypeOK'
  OBVIOUS
<1>1. CASE populateLobby
  BY <1>1 DEF TypeOK, populateLobby, SpawnPcs
<1>9. CASE CheckQueue
  <2>1. /\ \/ UNCHANGED spawnAt
           \/ \E p \in {"idle", "alloc"} : spawnAt' = [spawnAt EXCEPT ![Keepalive] = p]
        /\ nextQueue' \in {nextQueue, nextQueue + 1}
    BY <1>9 DEF CheckQueue
  <2>2. nextQueue' \in Nat
    BY <2>1 DEF TypeOK
  <2>3. CASE UNCHANGED spawnAt
    BY <1>9, <2>2, <2>3 DEF TypeOK, CheckQueue
  <2>4. ASSUME NEW p \in {"idle", "alloc"}, spawnAt' = [spawnAt EXCEPT ![Keepalive] = p]
        PROVE  spawnAt' \in [Spawners -> SpawnPcs]
    BY <2>4 DEF TypeOK, SpawnPcs
  <2> QED
    BY <1>9, <2>1, <2>2, <2>3, <2>4 DEF TypeOK, CheckQueue
<1>2. ASSUME NEW r \in Requests, webHandleRequestRoom(r) PROVE TypeOK'
  BY <1>2 DEF TypeOK, webHandleRequestRoom, SpawnPcs
<1>3. ASSUME NEW i \in Inst, GameExits(i) PROVE TypeOK'
  BY <1>3 DEF TypeOK, GameExits
<1>4. CASE cleanInstances
  BY <1>4 DEF TypeOK, cleanInstances
<1>5. CASE Signal
  BY <1>5 DEF TypeOK, Signal, MainPcs
<1>6. CASE Crash
  BY <1>6, TypeForget DEF Crash, MainPcs
<1>7. CASE Restart
  BY <1>7, ConstantFacts DEF TypeOK, Restart, MainPcs
<1>8. CASE UNCHANGED vars
  BY <1>8 DEF TypeOK, vars
<1> QED
  BY <1>1, <1>2, <1>3, <1>4, <1>5, <1>6, <1>7, <1>8, <1>9, TypeSpawn, TypeRunner,
     TypeMessage, TypeMain
  DEF Next

(* Every variable of the registry, the runners, the games, the disk and    *)
(* the main goroutine always has its type.                                 *)
THEOREM TypeCorrect == Spec => []TypeOK
  BY TypeInit, TypeNext, PTL DEF Spec

-----------------------------------------------------------------------------
(* The inductive invariant behind the port and recovery properties.        *)

(* A port is held by the instances of the registry and by the games the    *)
(* backend knows or will find again.                                       *)
Known(i)  == Alive(i) /\ ~Orphan(i)
Holder(i) == i \in instances \/ Known(i)

(* What stopAllRunners does has not begun.                                 *)
BeforeStop == main \in {"boot", "serving", "disallowed"}

Creating(s) == spawnAt[s] \in {"generate", "spawn", "release"}

SpawnInv ==
  /\ ~Routines => \A s \in Spawners : spawnAt[s] = "idle"
  /\ \A s \in Spawners :
       Creating(s) => /\ spawnInst[s] \in instances
                      /\ runner[spawnInst[s]] = "none"
                      /\ proc[spawnInst[s]] = "none"
  /\ \A s \in Spawners : spawnAt[s] = "spawn" => confdir[spawnInst[s]] = "present"
  /\ \A s, t \in Spawners :
       Creating(s) /\ Creating(t) /\ spawnInst[s] = spawnInst[t] => s = t

(* An Id that was not handed out has left no trace.                        *)
FreshInv ==
  \A i \in Inst :
    i > lastId => /\ i \notin instances
                  /\ runner[i] = "none"
                  /\ proc[i] = "none"
                  /\ saved[i] = NoFile

RunnerInv ==
  \A i \in Inst :
    /\ runner[i] \notin {"none", "exited"} => i \in instances /\ confdir[i] = "present"
    /\ state[i] = instanceStateExited => runner[i] = "exited"
    /\ runner[i] = "deadexit" => ~Alive(i)
    /\ ~Up => i \notin instances /\ runner[i] = "none" /\ commands[i] = <<>>

DiskInv ==
  \A i \in Inst :
    /\ saved[i] # instanceStateExited
    /\ saved[i] # NoFile => confdir[i] = "present"

CmdlineInv ==
  \A i \in Inst :
    saved[i] # NoFile \/ runner[i] \in {"enter", "save", "loop", "locking", "deadexit", "stopexit"}
      => cmdline[i]

StopInv ==
  BeforeStop =>
    \A i \in Inst :
      /\ \A k \in 1..Len(commands[i]) : commands[i][k] = "shutdown"
      /\ runner[i] # "stopexit"
      /\ runner[i] \in {"hung", "exited"} => ~Alive(i)

BootInv == main = "boot" => \A i \in pending : runner[i] = "none"

HolderInv ==
  \A i, j \in Inst : Holder(i) /\ Holder(j) /\ GamePort[i] = GamePort[j] => i = j

KnownInv ==
  BeforeStop =>
    \A i \in Inst : Known(i) => i \in instances \/ (main = "boot" /\ i \in pending)

(* What holds whatever fails, and what the recovery can only keep when it  *)
(* opens the pipes and finds the file "cmdline" of a running game.         *)
BaseInv == TypeOK /\ SpawnInv /\ FreshInv /\ RunnerInv /\ DiskInv /\ StopInv /\ BootInv
IInv    == BaseInv /\ CmdlineInv /\ HolderInv /\ KnownInv

LEMMA FreshNext ==
  ASSUME TypeOK, SpawnInv, FreshInv, [Next]_vars
  PROVE  FreshInv'
<1> USE DEF TypeOK, FreshInv, RunnerMoves
<1>1. ASSUME NEW s \in Spawners, Spawn(s) PROVE FreshInv'
  <2>1. CASE allocateNewInstance(s)
    BY <2>1, ConstantFacts DEF allocateNewInstance, Inst
  <2>2. CASE StartRunner(s)
    BY <2>2 DEF SpawnInv, Creating, StartRunner, Proceed
  <2>3. CASE generateInstance(s) \/ releaseInstance(s) \/ AllocationFails(s)
    BY <2>3 DEF generateInstance, releaseInstance, AllocationFails, Proceed
  <2> QED
    BY <1>1, <2>1, <2>2, <2>3 DEF Spawn
<1>3. ASSUME NEW i \in Inst, Runner(i) PROVE FreshInv'
  BY <1>3 DEF Runner, createPipes, StartProcess, StartProcessFails, WriteFiles, EnterRunner,
       recoverSave, isInstanceInLobby, HandleShutdown, HandleRunnerStop, PidCheckFailed,
       RunnerExits, RunnerHangs, archiveInstance, RunnerMoves
<1>4. ASSUME NEW i \in Inst, Message(i) PROVE FreshInv'
  BY <1>4 DEF Message, HandleLobbyId, HandleLobbyError, HandleStart, HandleJoin, RunnerMoves
<1>5. CASE Main /\ ~Exit
  BY <1>5 DEF Main, RecoverSkips, RecoverArchives, recoverRunner, RecoverNext, archiveInstance,
       BootDone, StopBegins, StopSent, StopDone, StopSends, StopWaits, Loadable, NoFile, States
<1>6. ASSUME NEW i \in Inst, GameExits(i) PROVE FreshInv'
  BY <1>6 DEF GameExits, Alive
<1>7. CASE populateLobby \/ CheckQueue \/ (\E r \in Requests : webHandleRequestRoom(r))
  BY <1>7 DEF populateLobby, CheckQueue, webHandleRequestRoom
<1>8. CASE cleanInstances \/ Signal \/ Restart \/ UNCHANGED vars
  BY <1>8 DEF cleanInstances, Signal, Restart, vars
<1>9. CASE Exit \/ Crash
  BY <1>9, ForgetSaved DEF Exit, Crash, ForgetAll
<1> HIDE DEF TypeOK, FreshInv, RunnerMoves
<1> QED
  BY <1>1, <1>3, <1>4, <1>5, <1>6, <1>7, <1>8, <1>9 DEF Next

LEMMA SpawnNext ==
  ASSUME TypeOK, SpawnInv, FreshInv, RunnerInv, [Next]_vars
  PROVE  SpawnInv'
<1> USE DEF TypeOK, SpawnInv, Creating, Routines, RunnerMoves
<1>1. ASSUME NEW s \in Spawners, Spawn(s) PROVE SpawnInv'
  <2>1. CASE allocateNewInstance(s)
    <3>1. /\ instances' = instances \union {lastId + 1} /\ lastId + 1 \in Inst
          /\ spawnAt' = [spawnAt EXCEPT ![s] = "generate"]
          /\ spawnInst' = [spawnInst EXCEPT ![s] = lastId + 1]
          /\ UNCHANGED <<runner, proc, confdir, main>>
      BY <2>1, ConstantFacts DEF allocateNewInstance, Inst
    <3>2. /\ lastId + 1 \notin instances
          /\ runner[lastId + 1] = "none" /\ proc[lastId + 1] = "none"
      BY <3>1, ConstantFacts DEF FreshInv
    <3>3. Routines
      BY <2>1 DEF allocateNewInstance
    <3> QED
      BY <3>1, <3>2, <3>3
  <2>2. CASE StartRunner(s)
    BY <2>2 DEF StartRunner, Proceed, Up
  <2>3. CASE generateInstance(s)
    <3>1. PICK p \in {"spawn", "release"} : spawnAt' = [spawnAt EXCEPT ![s] = p]
      BY <2>3 DEF generateInstance
    <3>2. /\ spawnAt[s] = "generate" /\ confdir' = [confdir EXCEPT ![spawnInst[s]] = "present"]
          /\ UNCHANGED <<instances, runner, proc, spawnInst, main>>
      BY <2>3 DEF generateInstance
    <3> QED
      BY <3>1, <3>2
  <2>4. CASE releaseInstance(s)
    BY <2>4 DEF releaseInstance, Proceed, Up
  <2>5. CASE AllocationFails(s)
    BY <2>5 DEF AllocationFails, Proceed, Up
  <2> QED
    BY <1>1, <2>1, <2>2, <2>3, <2>4, <2>5 DEF Spawn
<1>3. ASSUME NEW i \in Inst, Runner(i) PROVE SpawnInv'
  BY <1>3 DEF Runner, createPipes, StartProcess, StartProcessFails, WriteFiles, EnterRunner,
       recoverSave, isInstanceInLobby, HandleShutdown, HandleRunnerStop, PidCheckFailed,
       RunnerExits, RunnerHangs, archiveInstance, RunnerMoves
<1>4. ASSUME NEW i \in Inst, Message(i) PROVE SpawnInv'
  BY <1>4 DEF Message, HandleLobbyId, HandleLobbyError, HandleStart, HandleJoin, RunnerMoves
<1>5. CASE Main
  BY <1>5 DEF Main, RecoverSkips, RecoverArchives, recoverRunner, RecoverNext, archiveInstance,
       BootDone, StopBegins, StopSent, StopDone, StopSends, StopWaits, Exit, ForgetAll
<1>6. ASSUME NEW i \in Inst, GameExits(i) PROVE SpawnInv'
  BY <1>6 DEF GameExits, Alive
<1>7. CASE populateLobby
  BY <1>7, ConstantFacts DEF populateLobby
<1>10. CASE CheckQueue
  <2>1. /\ spawnAt[Keepalive] = "check" /\ Up
        /\ \/ UNCHANGED spawnAt
           \/ \E p \in {"idle", "alloc"} : spawnAt' = [spawnAt EXCEPT ![Keepalive] = p]
        /\ UNCHANGED <<instances, runner, proc, confdir, spawnInst, main>>
    BY <1>10 DEF CheckQueue
  <2>2. CASE UNCHANGED spawnAt
    BY <2>1, <2>2
  <2>3. ASSUME NEW p \in {"idle", "alloc"}, spawnAt' = [spawnAt EXCEPT ![Keepalive] = p]
        PROVE  SpawnInv'
    BY <2>1, <2>3, ConstantFacts DEF Up
  <2> QED
    BY <2>1, <2>2, <2>3
<1>11. ASSUME NEW r \in Requests, webHandleRequestRoom(r) PROVE SpawnInv'
  BY <1>11 DEF webHandleRequestRoom, Spawners
<1>8. CASE cleanInstances
  BY <1>8 DEF cleanInstances, IsExited, RunnerInv
<1>9. CASE Signal \/ UNCHANGED vars
  BY <1>9 DEF Signal, vars
<1>12. CASE Crash
  BY <1>12 DEF Crash, ForgetAll
<1>13. CASE Restart
  BY <1>13 DEF Restart, Up
<1> HIDE DEF TypeOK, SpawnInv, Creating, Routines, RunnerMoves
<1> QED
  BY <1>1, <1>3, <1>4, <1>5, <1>6, <1>7, <1>8, <1>9, <1>10, <1>11, <1>12, <1>13 DEF Next

LEMMA RunnerNext ==
  ASSUME TypeOK, SpawnInv, RunnerInv, DiskInv, BootInv, [Next]_vars
  PROVE  RunnerInv'
<1> USE DEF TypeOK, RunnerInv, RunnerMoves, Alive, Up
<1>1. ASSUME NEW s \in Spawners, Spawn(s) PROVE RunnerInv'
  BY <1>1 DEF SpawnInv, Creating, Spawn, allocateNewInstance, AllocationFails, generateInstance,
       releaseInstance, StartRunner, Proceed
<1>2. ASSUME NEW i \in Inst, Runner(i) PROVE RunnerInv'
  <2>1. CASE RunnerExits(i)
    BY <2>1 DEF RunnerExits, archiveInstance, instanceStateExited
  <2>2. CASE HandleShutdown(i) \/ HandleRunnerStop(i)
    <3>1. /\ Up /\ UNCHANGED <<instances, proc, confdir, main>>
          /\ \E to \in {"save", "stopexit"} : runner' = [runner EXCEPT ![i] = to]
          /\ state' = [state EXCEPT ![i] = instanceStateExiting]
          /\ runner[i] = "loop"
      BY <2>2 DEF HandleShutdown, HandleRunnerStop
    <3> QED
      BY <3>1 DEF instanceStateExiting, instanceStateExited
  <2>3. CASE createPipes(i) \/ StartProcess(i) \/ StartProcessFails(i) \/ WriteFiles(i)
    BY <2>3 DEF createPipes, StartProcess, StartProcessFails, WriteFiles
  <2>4. CASE EnterRunner(i) \/ recoverSave(i) \/ isInstanceInLobby(i) \/ PidCheckFailed(i)
             \/ RunnerHangs(i)
    BY <2>4 DEF EnterRunner, recoverSave, isInstanceInLobby, PidCheckFailed, RunnerHangs
  <2> QED
    BY <1>2, <2>1, <2>2, <2>3, <2>4 DEF Runner
<1>3. ASSUME NEW i \in Inst, Message(i) PROVE RunnerInv'
  <2>1. CASE HandleLobbyId(i)
    BY <2>1 DEF HandleLobbyId, instanceStateInLobby, instanceStateExited
  <2>2. CASE HandleStart(i)
    BY <2>2 DEF HandleStart, instanceStateInGame, instanceStateExited
  <2>3. CASE HandleLobbyError(i)
    BY <2>3 DEF HandleLobbyError
  <2>4. CASE HandleJoin(i)
    BY <2>4 DEF HandleJoin
  <2> QED
    BY <1>3, <2>1, <2>2, <2>3, <2>4 DEF Message
<1>4. ASSUME NEW i \in Inst, RecoverSkips(i) PROVE RunnerInv'
  BY <1>4 DEF RecoverSkips, RecoverNext
<1>5. ASSUME NEW i \in Inst, RecoverArchives(i) PROVE RunnerInv'
  BY <1>5 DEF RecoverArchives, RecoverNext, archiveInstance, BootInv
<1>6. ASSUME NEW i \in Inst, recoverRunner(i) PROVE RunnerInv'
  BY <1>6 DEF recoverRunner, RecoverNext, BootInv, DiskInv, Loadable, NoFile, States
<1>7. CASE BootDone \/ StopBegins \/ StopSent \/ StopDone \/ Signal \/ UNCHANGED vars
  BY <1>7 DEF BootDone, StopBegins, StopSent, StopDone, Signal, vars
<1>8. ASSUME NEW i \in Inst, StopSends(i) \/ StopWaits(i) PROVE RunnerInv'
  BY <1>8 DEF StopSends, StopWaits
<1>9. CASE Exit \/ Crash
  BY <1>9 DEF Exit, Crash, ForgetAll, instanceStateInitial, instanceStateExited
<1>10. CASE Restart
  BY <1>10 DEF Restart
<1>11. ASSUME NEW i \in Inst, GameExits(i) PROVE RunnerInv'
  BY <1>11 DEF GameExits
<1>12. CASE cleanInstances
  BY <1>12 DEF cleanInstances, IsExited, Routines
<1>13. CASE populateLobby \/ CheckQueue \/ (\E r \in Requests : webHandleRequestRoom(r))
  BY <1>13 DEF populateLobby, CheckQueue, webHandleRequestRoom
<1> HIDE DEF TypeOK, RunnerInv, RunnerMoves, Alive, Up
<1> QED
  BY <1>1, <1>2, <1>3, <1>4, <1>5, <1>6, <1>7, <1>8, <1>9, <1>10, <1>11, <1>12, <1>13
  DEF Next, Main

LEMMA DiskNext ==
  ASSUME TypeOK, RunnerInv, DiskInv, BootInv, [Next]_vars
  PROVE  DiskInv'
<1> USE DEF TypeOK, DiskInv, RunnerMoves
<1>1. ASSUME NEW s \in Spawners, Spawn(s) PROVE DiskInv'
  BY <1>1 DEF Spawn, allocateNewInstance, AllocationFails, generateInstance, releaseInstance,
       StartRunner, Proceed
<1>2. ASSUME NEW i \in Inst, Runner(i) PROVE DiskInv'
  <2>1. CASE RunnerExits(i)
    BY <2>1 DEF RunnerExits, archiveInstance, NoFile, instanceStateExited
  <2>2. CASE recoverSave(i)
    <3>1. saved' = saved \/ \E b \in {state[i], TornFile} : saved' = [saved EXCEPT ![i] = b]
      BY <2>2 DEF recoverSave
    <3>2. confdir[i] = "present" /\ state[i] # instanceStateExited /\ UNCHANGED confdir
      BY <2>2 DEF recoverSave, RunnerInv
    <3> QED
      BY <3>1, <3>2 DEF TornFile, instanceStateExited
  <2>6. CASE WriteFiles(i)
    BY <2>6 DEF WriteFiles
  <2>3. CASE createPipes(i) \/ StartProcess(i) \/ StartProcessFails(i)
    BY <2>3 DEF createPipes, StartProcess, StartProcessFails
  <2>4. CASE EnterRunner(i) \/ isInstanceInLobby(i) \/ PidCheckFailed(i) \/ RunnerHangs(i)
    BY <2>4 DEF EnterRunner, isInstanceInLobby, PidCheckFailed, RunnerHangs
  <2>5. CASE HandleShutdown(i) \/ HandleRunnerStop(i)
    BY <2>5 DEF HandleShutdown, HandleRunnerStop
  <2> QED
    BY <1>2, <2>1, <2>2, <2>3, <2>4, <2>5, <2>6 DEF Runner
<1>3. ASSUME NEW i \in Inst, Message(i) PROVE DiskInv'
  BY <1>3 DEF Message, HandleLobbyId, HandleLobbyError, HandleStart, HandleJoin, RunnerMoves
<1>4. ASSUME NEW i \in Inst, RecoverSkips(i) \/ StopSends(i) \/ StopWaits(i) PROVE DiskInv'
  BY <1>4 DEF RecoverSkips, RecoverNext, StopSends, StopWaits
<1>5. ASSUME NEW i \in Inst, RecoverArchives(i) PROVE DiskInv'
  BY <1>5 DEF RecoverArchives, RecoverNext, archiveInstance, BootInv, NoFile, instanceStateExited
<1>6. ASSUME NEW i \in Inst, recoverRunner(i) PROVE DiskInv'
  BY <1>6 DEF recoverRunner
<1>7. CASE BootDone \/ StopBegins \/ StopSent \/ StopDone \/ Signal \/ Restart \/ UNCHANGED vars
  BY <1>7 DEF BootDone, StopBegins, StopSent, StopDone, Signal, Restart, vars
<1>8. CASE Exit \/ Crash
  <2>1. UNCHANGED confdir
    BY <1>8 DEF Exit, Crash, ForgetAll
  <2>2. ASSUME NEW i \in Inst, runner[i] = "save" PROVE confdir[i] = "present"
    BY <2>2 DEF RunnerInv
  <2>3. \A i \in Inst : saved'[i] = saved[i] \/ (runner[i] = "save" /\ saved'[i] = TornFile)
    BY <1>8, ForgetSaved DEF Exit, Crash
  <2> QED
    BY <2>1, <2>2, <2>3 DEF TornFile, instanceStateExited
<1>9. ASSUME NEW i \in Inst, GameExits(i) PROVE DiskInv'
  BY <1>9 DEF GameExits
<1>10. CASE cleanInstances \/ populateLobby \/ CheckQueue
              \/ (\E r \in Requests : webHandleRequestRoom(r))
  BY <1>10 DEF cleanInstances, populateLobby, CheckQueue, webHandleRequestRoom
<1> HIDE DEF TypeOK, DiskInv, RunnerMoves
<1> QED
  BY <1>1, <1>2, <1>3, <1>4, <1>5, <1>6, <1>7, <1>8, <1>9, <1>10 DEF Next, Main

LEMMA CmdlineNext ==
  ASSUME "cmdline" \notin Faults, TypeOK, CmdlineInv, BootInv, [Next]_vars
  PROVE  CmdlineInv'
<1> USE DEF TypeOK, CmdlineInv, RunnerMoves
<1>1. ASSUME NEW s \in Spawners, Spawn(s) PROVE CmdlineInv'
  BY <1>1 DEF Spawn, allocateNewInstance, AllocationFails, generateInstance, releaseInstance,
       StartRunner, Proceed
<1>2. ASSUME NEW i \in Inst, Runner(i) PROVE CmdlineInv'
  <2>1. CASE RunnerExits(i)
    <3>1. runner' = [runner EXCEPT ![i] = "exited"]
      BY <2>1 DEF RunnerExits
    <3>2. archiveInstance(i) \/ UNCHANGED diskVars
      BY <2>1 DEF RunnerExits
    <3> QED
      BY <3>1, <3>2 DEF archiveInstance
  <2>2. CASE recoverSave(i)
    BY <2>2 DEF recoverSave
  <2>6. CASE WriteFiles(i)
    BY <2>6 DEF WriteFiles
  <2>3. CASE createPipes(i) \/ StartProcess(i) \/ StartProcessFails(i)
    BY <2>3 DEF createPipes, StartProcess, StartProcessFails
  <2>4. CASE EnterRunner(i) \/ isInstanceInLobby(i) \/ PidCheckFailed(i) \/ RunnerHangs(i)
    BY <2>4 DEF EnterRunner, isInstanceInLobby, PidCheckFailed, RunnerHangs
  <2>5. CASE HandleShutdown(i) \/ HandleRunnerStop(i)
    BY <2>5 DEF HandleShutdown, HandleRunnerStop
  <2> QED
    BY <1>2, <2>1, <2>2, <2>3, <2>4, <2>5, <2>6 DEF Runner
<1>3. ASSUME NEW i \in Inst, Message(i) PROVE CmdlineInv'
  BY <1>3 DEF Message, HandleLobbyId, HandleLobbyError, HandleStart, HandleJoin, RunnerMoves
<1>4. ASSUME NEW i \in Inst, RecoverSkips(i) \/ StopSends(i) \/ StopWaits(i) PROVE CmdlineInv'
  BY <1>4 DEF RecoverSkips, RecoverNext, StopSends, StopWaits
<1>5. ASSUME NEW i \in Inst, RecoverArchives(i) PROVE CmdlineInv'
  <2>1. runner[i] = "none" /\ UNCHANGED runner
    BY <1>5 DEF RecoverArchives, RecoverNext, BootInv
  <2>2. CASE UNCHANGED diskVars
    BY <2>1, <2>2
  <2>3. CASE /\ saved' = [saved EXCEPT ![i] = NoFile]
             /\ cmdline' = [cmdline EXCEPT ![i] = FALSE]
    <3>1. ASSUME NEW j \in Inst, j # i PROVE saved'[j] = saved[j] /\ cmdline'[j] = cmdline[j]
      BY <2>3, <3>1
    <3>2. saved'[i] = NoFile /\ runner'[i] = "none"
      BY <2>1, <2>3
    <3> QED
      BY <2>1, <3>1, <3>2
  <2> QED
    BY <1>5, <2>2, <2>3 DEF RecoverArchives, archiveInstance
<1>6. ASSUME NEW i \in Inst, recoverRunner(i) PROVE CmdlineInv'
  BY <1>6 DEF recoverRunner, isPidCmdlineAccurate
<1>7. CASE BootDone \/ StopBegins \/ StopSent \/ StopDone \/ Signal \/ Restart \/ UNCHANGED vars
  BY <1>7 DEF BootDone, StopBegins, StopSent, StopDone, Signal, Restart, vars
<1>8. CASE Exit \/ Crash
  BY <1>8, ForgetSaved DEF Exit, Crash, ForgetAll
<1>9. ASSUME NEW i \in Inst, GameExits(i) PROVE CmdlineInv'
  BY <1>9 DEF GameExits
<1>10. CASE cleanInstances \/ populateLobby \/ CheckQueue
              \/ (\E r \in Requests : webHandleRequestRoom(r))
  BY <1>10 DEF cleanInstances, populateLobby, CheckQueue, webHandleRequestRoom
<1> HIDE DEF TypeOK, CmdlineInv, RunnerMoves
<1> QED
  BY <1>1, <1>2, <1>3, <1>4, <1>5, <1>6, <1>7, <1>8, <1>9, <1>10 DEF Next, Main

LEMMA StopNext ==
  ASSUME TypeOK, RunnerInv, StopInv, [Next]_vars
  PROVE  StopInv'
<1> USE DEF TypeOK, StopInv, RunnerMoves, BeforeStop, Alive
<1>1. ASSUME NEW s \in Spawners, Spawn(s) PROVE StopInv'
  BY <1>1 DEF Spawn, allocateNewInstance, AllocationFails, generateInstance, releaseInstance,
       StartRunner, Proceed
<1>2. ASSUME NEW i \in Inst, Runner(i) PROVE StopInv'
  <2>1. CASE RunnerExits(i)
    BY <2>1 DEF RunnerExits, RunnerInv
  <2>2. CASE HandleShutdown(i)
    BY <2>2 DEF HandleShutdown
  <2>3. CASE HandleRunnerStop(i)
    <3>1. 1 \in 1..Len(commands[i]) /\ commands[i][1] = "stop"
      BY <2>3 DEF HandleRunnerStop
    <3>2. commands[i][1] # "shutdown"
      BY <3>1
    <3>3. ~BeforeStop
      BY <3>1, <3>2
    <3> QED
      BY <2>3, <3>3 DEF HandleRunnerStop
  <2>4. CASE createPipes(i) \/ StartProcess(i) \/ StartProcessFails(i) \/ WriteFiles(i)
    BY <2>4 DEF createPipes, StartProcess, StartProcessFails, WriteFiles
  <2>5. CASE EnterRunner(i) \/ recoverSave(i) \/ isInstanceInLobby(i) \/ PidCheckFailed(i)
             \/ RunnerHangs(i)
    BY <2>5 DEF EnterRunner, recoverSave, isInstanceInLobby, PidCheckFailed, RunnerHangs, RunnerInv
  <2> QED
    BY <1>2, <2>1, <2>2, <2>3, <2>4, <2>5 DEF Runner
<1>3. ASSUME NEW i \in Inst, Message(i) PROVE StopInv'
  <2>1. CASE HandleLobbyError(i)
    <3>1. commands' = [commands EXCEPT ![i] = <<"shutdown">>]
      BY <2>1 DEF HandleLobbyError
    <3> QED
      BY <2>1, <3>1 DEF HandleLobbyError
  <2>2. CASE HandleLobbyId(i) \/ HandleStart(i) \/ HandleJoin(i)
    BY <2>2 DEF HandleLobbyId, HandleStart, HandleJoin
  <2> QED
    BY <1>3, <2>1, <2>2 DEF Message
<1>4. ASSUME NEW i \in Inst, RecoverSkips(i) \/ RecoverArchives(i) \/ recoverRunner(i)
      PROVE  StopInv'
  BY <1>4 DEF RecoverSkips, RecoverArchives, recoverRunner, RecoverNext
<1>5. CASE BootDone \/ StopBegins \/ StopSent \/ StopDone \/ Signal \/ UNCHANGED vars
  BY <1>5 DEF BootDone, StopBegins, StopSent, StopDone, Signal, vars
<1>6. ASSUME NEW i \in Inst, StopSends(i) \/ StopWaits(i) PROVE StopInv'
  BY <1>6 DEF StopSends, StopWaits
<1>7. CASE Exit \/ Crash
  BY <1>7 DEF Exit, Crash
<1>8. CASE Restart
  BY <1>8 DEF Restart, RunnerInv
<1>9. ASSUME NEW i \in Inst, GameExits(i) PROVE StopInv'
  BY <1>9 DEF GameExits
<1>10. CASE cleanInstances \/ populateLobby \/ CheckQueue
              \/ (\E r \in Requests : webHandleRequestRoom(r))
  BY <1>10 DEF cleanInstances, populateLobby, CheckQueue, webHandleRequestRoom
<1> HIDE DEF TypeOK, StopInv, RunnerMoves, BeforeStop, Alive
<1> QED
  BY <1>1, <1>2, <1>3, <1>4, <1>5, <1>6, <1>7, <1>8, <1>9, <1>10 DEF Next, Main

LEMMA BootNext ==
  ASSUME TypeOK, SpawnInv, RunnerInv, BootInv, [Next]_vars
  PROVE  BootInv'
<1> USE DEF TypeOK, BootInv, RunnerMoves
<1>1. ASSUME NEW s \in Spawners, Spawn(s) PROVE BootInv'
  BY <1>1 DEF SpawnInv, Routines, Spawn, allocateNewInstance, AllocationFails, generateInstance,
       releaseInstance, StartRunner, Proceed
<1>2. ASSUME NEW i \in Inst, Runner(i) PROVE BootInv'
  BY <1>2 DEF Runner, createPipes, StartProcess, StartProcessFails, WriteFiles, EnterRunner,
       recoverSave, isInstanceInLobby, HandleShutdown, HandleRunnerStop, PidCheckFailed,
       RunnerExits, RunnerHangs, archiveInstance, RunnerMoves
<1>3. ASSUME NEW i \in Inst, Message(i) PROVE BootInv'
  BY <1>3 DEF Message, HandleLobbyId, HandleLobbyError, HandleStart, HandleJoin, RunnerMoves
<1>4. CASE Main
  BY <1>4 DEF Main, RecoverSkips, RecoverArchives, recoverRunner, RecoverNext, archiveInstance,
       BootDone, StopBegins, StopSent, StopDone, StopSends, StopWaits, Exit, ForgetAll
<1>5. CASE Signal \/ Crash \/ Restart \/ UNCHANGED vars
  BY <1>5 DEF Signal, Crash, Restart, RunnerInv, Up, vars
<1>6. ASSUME NEW i \in Inst, GameExits(i) PROVE BootInv'
  BY <1>6 DEF GameExits
<1>7. CASE cleanInstances \/ populateLobby \/ CheckQueue
              \/ (\E r \in Requests : webHandleRequestRoom(r))
  BY <1>7 DEF cleanInstances, populateLobby, CheckQueue, webHandleRequestRoom
<1> HIDE DEF TypeOK, BootInv, RunnerMoves
<1> QED
  BY <1>1, <1>2, <1>3, <1>4, <1>5, <1>6, <1>7 DEF Next

LEMMA HolderNext ==
  ASSUME TypeOK, SpawnInv, FreshInv, RunnerInv, DiskInv, BootInv, StopInv, HolderInv, KnownInv,
         [Next]_vars
  PROVE  HolderInv'
<1> USE DEF TypeOK, Holder, Known, Orphan, Alive, Loadable, RunnerMoves
<1>2. ASSUME NEW s \in Spawners, Spawn(s) PROVE HolderInv'
  <2>1. CASE allocateNewInstance(s)
    <3>1. PICK k \in DOMAIN PortList :
            /\ PortFree(PortList[k])
            /\ GamePort' = [GamePort EXCEPT ![lastId + 1] = PortList[k]]
      BY <2>1 DEF allocateNewInstance
    <3>2. /\ instances' = instances \union {lastId + 1} /\ lastId + 1 \in Inst
          /\ UNCHANGED <<proc, saved, runner>>
      BY <2>1, ConstantFacts DEF allocateNewInstance, Inst
    <3>3. \A i \in Inst : Holder(i) => i \in instances
      <4>1. main = "serving"
        BY <2>1 DEF allocateNewInstance, SpawnInv, Routines, disallowInstanceCreation
      <4> QED
        BY <4>1 DEF KnownInv, BeforeStop
    <3>4. \A i \in Inst : i # lastId + 1 => (Holder(i)' => Holder(i))
      BY <3>2
    <3> QED
      BY <3>1, <3>2, <3>3, <3>4 DEF HolderInv, PortFree
  <2>2. CASE StartRunner(s)
    BY <2>2 DEF StartRunner, HolderInv, SpawnInv, Creating
  <2>3. CASE generateInstance(s) \/ releaseInstance(s) \/ AllocationFails(s)
    BY <2>3 DEF generateInstance, releaseInstance, AllocationFails, HolderInv
  <2> QED
    BY <1>2, <2>1, <2>2, <2>3 DEF Spawn
<1>3. ASSUME NEW i \in Inst, Runner(i) PROVE HolderInv'
  <2>1. \A k \in Inst : Holder(k)' => Holder(k)
    <3>1. CASE StartProcess(i)
      BY <3>1 DEF StartProcess, RunnerInv
    <3>2. CASE RunnerExits(i)
      BY <3>2 DEF RunnerExits, archiveInstance, RunnerInv
    <3>3. CASE recoverSave(i)
      BY <3>3 DEF recoverSave, RunnerInv
    <3>4. CASE createPipes(i) \/ StartProcessFails(i) \/ WriteFiles(i) \/ EnterRunner(i)
      BY <3>4 DEF createPipes, StartProcessFails, WriteFiles, EnterRunner
    <3>5. CASE \/ isInstanceInLobby(i) \/ HandleShutdown(i) \/ HandleRunnerStop(i)
               \/ PidCheckFailed(i) \/ RunnerHangs(i)
      BY <3>5 DEF isInstanceInLobby, HandleShutdown, HandleRunnerStop, PidCheckFailed, RunnerHangs
    <3> QED
      BY <1>3, <3>1, <3>2, <3>3, <3>4, <3>5 DEF Runner
  <2>2. UNCHANGED GamePort
    BY <1>3 DEF Runner, createPipes, StartProcess, StartProcessFails, WriteFiles, EnterRunner,
         recoverSave, isInstanceInLobby, HandleShutdown, HandleRunnerStop, PidCheckFailed,
         RunnerExits, RunnerHangs, archiveInstance, RunnerMoves
  <2> QED
    BY <2>1, <2>2 DEF HolderInv
<1>4. ASSUME NEW i \in Inst, Message(i) PROVE HolderInv'
  BY <1>4 DEF Message, HandleLobbyId, HandleLobbyError, HandleStart, HandleJoin, RunnerMoves,
       HolderInv
<1>5. ASSUME NEW i \in Inst, RecoverSkips(i) \/ StopSends(i) \/ StopWaits(i) PROVE HolderInv'
  BY <1>5 DEF RecoverSkips, StopSends, StopWaits, HolderInv
<1>6. ASSUME NEW i \in Inst, RecoverArchives(i) PROVE HolderInv'
  BY <1>6 DEF RecoverArchives, RecoverNext, archiveInstance, HolderInv, BootInv, NoFile, States
<1>7. ASSUME NEW i \in Inst, recoverRunner(i) PROVE HolderInv'
  BY <1>7 DEF recoverRunner, HolderInv, isPidAlive
<1>8. CASE BootDone \/ StopBegins \/ StopSent \/ StopDone \/ Signal \/ Restart \/ UNCHANGED vars
  BY <1>8 DEF BootDone, StopBegins, StopSent, StopDone, Signal, Restart, vars, HolderInv
<1>9. CASE Exit \/ Crash
  <2>1. \A i \in Inst : Holder(i)' => Holder(i)
    BY <1>9, ForgetSaved DEF Exit, Crash, ForgetAll, TornFile, States
  <2>2. UNCHANGED GamePort
    BY <1>9 DEF Exit, Crash, ForgetAll
  <2> QED
    BY <2>1, <2>2 DEF HolderInv
<1>10. ASSUME NEW i \in Inst, GameExits(i) PROVE HolderInv'
  BY <1>10 DEF GameExits, HolderInv
<1>11. CASE cleanInstances \/ populateLobby \/ CheckQueue
              \/ (\E r \in Requests : webHandleRequestRoom(r))
  BY <1>11 DEF cleanInstances, populateLobby, CheckQueue, webHandleRequestRoom, HolderInv
<1> HIDE DEF TypeOK, Holder, Known, Orphan, Alive, Loadable, RunnerMoves
<1> QED
  BY <1>2, <1>3, <1>4, <1>5, <1>6, <1>7, <1>8, <1>9, <1>10, <1>11 DEF Next, Main

LEMMA KnownNext ==
  ASSUME "reopen" \notin Faults,
         TypeOK, SpawnInv, RunnerInv, DiskInv, CmdlineInv, BootInv, StopInv, HolderInv, KnownInv,
         [Next]_vars
  PROVE  KnownInv'
<1> USE DEF TypeOK, KnownInv, BeforeStop, Known, Orphan, Alive, Loadable, RunnerMoves
<1>1. ASSUME NEW s \in Spawners, Spawn(s) PROVE KnownInv'
  <2>1. CASE StartRunner(s)
    BY <2>1 DEF StartRunner, SpawnInv, Creating
  <2>2. CASE releaseInstance(s)
    BY <2>2 DEF releaseInstance, SpawnInv, Creating
  <2>3. CASE allocateNewInstance(s) \/ generateInstance(s) \/ AllocationFails(s)
    BY <2>3 DEF allocateNewInstance, generateInstance, AllocationFails
  <2> QED
    BY <1>1, <2>1, <2>2, <2>3 DEF Spawn
<1>2. ASSUME NEW i \in Inst, Runner(i) PROVE KnownInv'
  <2>1. /\ UNCHANGED <<instances, main, pending>>
        /\ runner[i] \notin {"none", "exited"}
        /\ \A j \in Inst \ {i} :
             runner'[j] = runner[j] /\ proc'[j] = proc[j] /\ saved'[j] = saved[j]
    BY <1>2 DEF Runner, createPipes, StartProcess, StartProcessFails, WriteFiles, EnterRunner,
         recoverSave, isInstanceInLobby, HandleShutdown, HandleRunnerStop, PidCheckFailed,
         RunnerExits, RunnerHangs, archiveInstance
  <2>2. i \in instances
    BY <2>1 DEF RunnerInv
  <2> QED
    BY <2>1, <2>2
<1>3. ASSUME NEW i \in Inst, Message(i) PROVE KnownInv'
  BY <1>3 DEF Message, HandleLobbyId, HandleLobbyError, HandleStart, HandleJoin, RunnerMoves
<1>4. ASSUME NEW i \in Inst, RecoverSkips(i) PROVE KnownInv'
  <2>1. Known(i) => i \in instances
    <3>1. CASE ~Loadable(i)
      BY <1>4, <3>1 DEF RecoverSkips, RecoverNext, BootInv
    <3>2. CASE Known(i) /\ ~PortFree(GamePort[i])
      BY <3>2 DEF PortFree, HolderInv, Holder
    <3> QED
      BY <1>4, <3>1, <3>2 DEF RecoverSkips
  <2> QED
    BY <1>4, <2>1 DEF RecoverSkips, RecoverNext
<1>5. ASSUME NEW i \in Inst, RecoverArchives(i) PROVE KnownInv'
  <2>1. ~Alive(i)
    BY <1>5 DEF RecoverArchives, isPidCmdlineAccurate, isPidAlive, CmdlineInv, NoFile, States
  <2> QED
    BY <1>5, <2>1 DEF RecoverArchives, RecoverNext, archiveInstance
<1>6. ASSUME NEW i \in Inst, recoverRunner(i) PROVE KnownInv'
  BY <1>6 DEF recoverRunner, RecoverNext
<1>7. ASSUME NEW i \in Inst, StopSends(i) \/ StopWaits(i) PROVE KnownInv'
  BY <1>7 DEF StopSends, StopWaits
<1>8. CASE BootDone \/ StopBegins \/ StopSent \/ StopDone \/ Signal \/ UNCHANGED vars
  BY <1>8 DEF BootDone, StopBegins, StopSent, StopDone, Signal, vars
<1>9. CASE Restart
  BY <1>9 DEF Restart, RunnerInv, DiskInv, NoFile, States
<1>10. CASE Exit \/ Crash
  BY <1>10 DEF Exit, Crash
<1>11. ASSUME NEW i \in Inst, GameExits(i) PROVE KnownInv'
  BY <1>11 DEF GameExits
<1>12. CASE cleanInstances
  BY <1>12 DEF cleanInstances, IsExited, RunnerInv, StopInv, Routines
<1>13. CASE populateLobby \/ CheckQueue \/ (\E r \in Requests : webHandleRequestRoom(r))
  BY <1>13 DEF populateLobby, CheckQueue, webHandleRequestRoom
<1> HIDE DEF TypeOK, KnownInv, BeforeStop, Known, Orphan, Alive, Loadable, RunnerMoves
<1> QED
  BY <1>1, <1>2, <1>3, <1>4, <1>5, <1>6, <1>7, <1>8, <1>9, <1>10, <1>11, <1>12, <1>13
  DEF Next, Main

LEMMA BaseInvariant == Spec => []BaseInv
<1>1. Init => BaseInv
  <2> SUFFICES ASSUME Init PROVE BaseInv
    OBVIOUS
  <2>1. SpawnInv /\ FreshInv /\ RunnerInv
    BY DEF Init, SpawnInv, FreshInv, RunnerInv, Creating, Up, Alive, instanceStateInitial,
           instanceStateExited
  <2>2. DiskInv /\ StopInv /\ BootInv
    BY DEF Init, DiskInv, StopInv, BootInv, instanceStateExited, NoFile
  <2> QED
    BY <2>1, <2>2, TypeInit DEF BaseInv
<1>2. BaseInv /\ [Next]_vars => BaseInv'
  BY TypeNext, SpawnNext, FreshNext, RunnerNext, DiskNext, StopNext, BootNext DEF BaseInv
<1> QED
  BY <1>1, <1>2, PTL DEF Spec

LEMMA IInvInvariant ==
  ASSUME "cmdline" \notin Faults, "reopen" \notin Faults
  PROVE  Spec => []IInv
<1>1. Init => CmdlineInv /\ HolderInv /\ KnownInv
  BY DEF Init, CmdlineInv, HolderInv, KnownInv, Holder, Known, Alive, NoFile
<1>2. BaseInv /\ CmdlineInv /\ HolderInv /\ KnownInv /\ [Next]_vars
        => (CmdlineInv /\ HolderInv /\ KnownInv)'
  BY CmdlineNext, HolderNext, KnownNext DEF BaseInv
<1> QED
  BY <1>1, <1>2, BaseInvariant, PTL DEF Spec, IInv

-----------------------------------------------------------------------------
(* What follows from it.                                                   *)

(* No two instances of the registry have the same port, whatever fails:    *)
(* allocateNewInstance and insertInstance look at the whole registry under *)
(* the lock, and no Id is handed out twice.                                *)
THEOREM RegistryPortsAreDistinct == Spec => []RegistryPortsDistinct
<1>1. Init => RegistryPortsDistinct
  BY DEF Init, RegistryPortsDistinct
<1>2. ASSUME BaseInv, RegistryPortsDistinct, [Next]_vars PROVE RegistryPortsDistinct'
  <2> USE DEF RegistryPortsDistinct, RunnerMoves
  <2>1. ASSUME NEW s \in Spawners, Spawn(s) PROVE RegistryPortsDistinct'
    <3>1. CASE allocateNewInstance(s)
      <4>1. PICK k \in DOMAIN PortList :
              /\ PortFree(PortList[k])
              /\ GamePort' = [GamePort EXCEPT ![lastId + 1] = PortList[k]]
        BY <3>1 DEF allocateNewInstance
      <4>2. instances' = instances \union {lastId + 1} /\ lastId + 1 \in Inst
        BY <3>1, <1>2, ConstantFacts DEF allocateNewInstance, Inst, BaseInv, TypeOK
      <4>3. lastId + 1 \notin instances
        BY <1>2, <4>2, ConstantFacts DEF BaseInv, TypeOK, FreshInv
      <4> QED
        BY <1>2, <4>1, <4>2, <4>3 DEF PortFree, BaseInv, TypeOK
    <3>2. CASE generateInstance(s) \/ releaseInstance(s) \/ AllocationFails(s) \/ StartRunner(s)
      BY <1>2, <3>2 DEF generateInstance, releaseInstance, AllocationFails, StartRunner
    <3> QED
      BY <2>1, <3>1, <3>2 DEF Spawn
  <2>2. ASSUME NEW i \in Inst, Runner(i) PROVE RegistryPortsDistinct'
    BY <1>2, <2>2 DEF Runner, createPipes, StartProcess, StartProcessFails, WriteFiles,
         EnterRunner, recoverSave, isInstanceInLobby, HandleShutdown, HandleRunnerStop,
         PidCheckFailed, RunnerExits, RunnerHangs, archiveInstance, RunnerMoves
  <2>3. ASSUME NEW i \in Inst, Message(i) PROVE RegistryPortsDistinct'
    BY <1>2, <2>3 DEF Message, HandleLobbyId, HandleLobbyError, HandleStart, HandleJoin, RunnerMoves
  <2>4. ASSUME NEW i \in Inst, recoverRunner(i) PROVE RegistryPortsDistinct'
    BY <1>2, <2>4 DEF recoverRunner, PortFree
  <2>5. ASSUME NEW i \in Inst, RecoverSkips(i) \/ RecoverArchives(i) PROVE RegistryPortsDistinct'
    BY <1>2, <2>5 DEF RecoverSkips, RecoverArchives
  <2>6. ASSUME NEW i \in Inst, StopSends(i) \/ StopWaits(i) \/ GameExits(i)
        PROVE  RegistryPortsDistinct'
    BY <1>2, <2>6 DEF StopSends, StopWaits, GameExits
  <2>7. CASE BootDone \/ StopBegins \/ StopSent \/ StopDone \/ Signal \/ Restart \/ UNCHANGED vars
    BY <1>2, <2>7 DEF BootDone, StopBegins, StopSent, StopDone, Signal, Restart, vars
  <2>8. CASE Exit \/ Crash
    BY <2>8 DEF Exit, Crash, ForgetAll
  <2>9. CASE cleanInstances \/ populateLobby \/ CheckQueue
             \/ (\E r \in Requests : webHandleRequestRoom(r))
    BY <1>2, <2>9 DEF cleanInstances, populateLobby, CheckQueue, webHandleRequestRoom
  <2> HIDE DEF RegistryPortsDistinct, RunnerMoves
  <2> QED
    BY <1>2, <2>1, <2>2, <2>3, <2>4, <2>5, <2>6, <2>7, <2>8, <2>9 DEF Next, Main
<1> QED
  BY <1>1, <1>2, BaseInvariant, PTL DEF Spec

(* A spawner that creates nothing has no instance, so nothing is forgotten *)
(* when it goes on.                                                        *)
OwnerInv ==
  /\ InstancesHaveOwners
  /\ \A s \in Spawners : ~Creating(s) => spawnInst[s] = 0

(* It is enough that a spawner lets go only of an instance that leaves the *)
(* registry or has a runner.                                               *)
LEMMA OwnersKept ==
  ASSUME TypeOK, OwnerInv, instances' \subseteq instances,
         \A i \in instances' : runner[i] # "none" => runner'[i] # "none",
         \A s \in Spawners :
           \/ spawnInst'[s] = spawnInst[s]
           \/ spawnInst[s] \in instances' => runner'[spawnInst[s]] # "none",
         \A s \in Spawners : ~Creating(s)' => spawnInst'[s] = 0
  PROVE  OwnerInv'
<1>1. ASSUME NEW i \in instances', runner'[i] = "none" PROVE \E s \in Spawners : spawnInst'[s] = i
  <2>1. PICK s \in Spawners : spawnInst[s] = i
    BY <1>1 DEF OwnerInv, InstancesHaveOwners
  <2> QED BY <1>1, <2>1
<1> QED BY <1>1 DEF OwnerInv, InstancesHaveOwners

(* No instance is left in the registry with nobody who works on it,        *)
(* whatever fails.                                                         *)
THEOREM InstancesAreOwned == Spec => []InstancesHaveOwners
<1>1. Init => OwnerInv
  BY DEF Init, OwnerInv, InstancesHaveOwners
<1>2. ASSUME BaseInv, OwnerInv, [Next]_vars PROVE OwnerInv'
  <2>0. TypeOK /\ SpawnInv /\ RunnerInv /\ BaseInv
    BY <1>2 DEF BaseInv
  <2> USE <2>0, <1>2 DEF OwnerInv, InstancesHaveOwners, TypeOK, RunnerMoves, Creating
  <2>1. ASSUME NEW s \in Spawners, Spawn(s) PROVE OwnerInv'
    <3>1. CASE allocateNewInstance(s)
      <4>1. /\ instances' = instances \union {lastId + 1} /\ lastId + 1 \in Inst
            /\ spawnInst' = [spawnInst EXCEPT ![s] = lastId + 1]
            /\ spawnAt' = [spawnAt EXCEPT ![s] = "generate"]
            /\ spawnAt[s] = "alloc" /\ UNCHANGED runner
        BY <3>1, ConstantFacts DEF allocateNewInstance, Inst
      <4>2. spawnInst[s] = 0
        BY <4>1
      <4>3. 0 \notin Inst
        BY ConstantFacts DEF Inst
      <4> QED BY <4>1, <4>2, <4>3
    <3>2. CASE generateInstance(s)
      <4>1. /\ UNCHANGED <<instances, runner, spawnInst>> /\ Creating(s)
            /\ \E to \in {"spawn", "release"} : spawnAt' = [spawnAt EXCEPT ![s] = to]
        BY <3>2 DEF generateInstance
      <4>2. \A t \in Spawners : ~Creating(t)' => spawnInst'[t] = 0
        BY <4>1
      <4> HIDE DEF OwnerInv, TypeOK, InstancesHaveOwners, Creating
      <4> QED BY <4>1, <4>2, OwnersKept
    <3>3. CASE AllocationFails(s)
      <4>1. /\ UNCHANGED <<instances, runner>> /\ spawnInst[s] = 0
            /\ spawnInst' = [spawnInst EXCEPT ![s] = 0]
            /\ \E to \in {"check", "idle"} : spawnAt' = [spawnAt EXCEPT ![s] = to]
        BY <3>3 DEF AllocationFails, Proceed
      <4>2. \A t \in Spawners : ~Creating(t)' => spawnInst'[t] = 0
        BY <4>1
      <4>3. \A t \in Spawners : spawnInst'[t] = spawnInst[t]
        BY <4>1
      <4> HIDE DEF OwnerInv, TypeOK, InstancesHaveOwners, Creating
      <4> QED BY <4>1, <4>2, <4>3, OwnersKept
    <3>4. CASE releaseInstance(s)
      <4>1. /\ UNCHANGED runner /\ instances' = instances \ {spawnInst[s]}
            /\ spawnInst' = [spawnInst EXCEPT ![s] = 0]
            /\ \E to \in {"check", "idle"} : spawnAt' = [spawnAt EXCEPT ![s] = to]
        BY <3>4 DEF releaseInstance, Proceed
      <4>2. \A t \in Spawners : ~Creating(t)' => spawnInst'[t] = 0
        BY <4>1
      <4>3. /\ \A t \in Spawners : t # s => spawnInst'[t] = spawnInst[t]
            /\ spawnInst[s] \notin instances'
        BY <4>1
      <4> HIDE DEF OwnerInv, TypeOK, InstancesHaveOwners, Creating
      <4> QED BY <4>1, <4>2, <4>3, OwnersKept
    <3>5. CASE StartRunner(s)
      <4>1. /\ UNCHANGED instances /\ spawnAt[s] = "spawn"
            /\ runner' = [runner EXCEPT ![spawnInst[s]] = "pipes"]
            /\ spawnInst' = [spawnInst EXCEPT ![s] = 0]
            /\ \E to \in {"check", "idle"} : spawnAt' = [spawnAt EXCEPT ![s] = to]
        BY <3>5 DEF StartRunner, Proceed
      <4>2. \A t \in Spawners : ~Creating(t)' => spawnInst'[t] = 0
        BY <4>1
      <4>3. spawnInst[s] \in Inst
        BY <4>1 DEF SpawnInv
      <4>4. /\ \A t \in Spawners : t # s => spawnInst'[t] = spawnInst[t]
            /\ runner'[spawnInst[s]] # "none"
            /\ \A i \in instances : runner[i] # "none" => runner'[i] # "none"
        BY <4>1, <4>3
      <4> HIDE DEF OwnerInv, TypeOK, InstancesHaveOwners, Creating
      <4> QED BY <4>1, <4>2, <4>4, OwnersKept
    <3> QED
      BY <2>1, <3>1, <3>2, <3>3, <3>4, <3>5 DEF Spawn
  <2>2. ASSUME NEW i \in Inst, Runner(i) PROVE OwnerInv'
    <3>1. /\ UNCHANGED <<instances, spawnAt, spawnInst>>
          /\ \E to \in RunnerPcs \ {"none"} : runner' = [runner EXCEPT ![i] = to]
      BY <2>2 DEF Runner, createPipes, StartProcess, StartProcessFails, WriteFiles,
           EnterRunner, recoverSave, isInstanceInLobby, HandleShutdown, HandleRunnerStop,
           PidCheckFailed, RunnerExits, RunnerHangs, RunnerPcs
    <3> QED BY <3>1
  <2>3. ASSUME NEW i \in Inst, Message(i) PROVE OwnerInv'
    <3>1. /\ UNCHANGED <<instances, spawnAt, spawnInst>>
          /\ runner' = runner \/ \E to \in RunnerPcs \ {"none"} : runner' = [runner EXCEPT ![i] = to]
      BY <2>3 DEF Message, HandleLobbyId, HandleLobbyError, HandleStart, HandleJoin, RunnerPcs
    <3> QED BY <3>1
  <2>4. ASSUME NEW i \in Inst, recoverRunner(i) PROVE OwnerInv'
    BY <2>4 DEF recoverRunner
  <2>5. ASSUME NEW i \in Inst, RecoverSkips(i) \/ RecoverArchives(i) PROVE OwnerInv'
    BY <2>5 DEF RecoverSkips, RecoverArchives
  <2>6. ASSUME NEW i \in Inst, StopSends(i) \/ StopWaits(i) \/ GameExits(i) PROVE OwnerInv'
    BY <2>6 DEF StopSends, StopWaits, GameExits
  <2>7. CASE BootDone \/ StopBegins \/ StopSent \/ StopDone \/ Signal \/ Restart \/ UNCHANGED vars
    BY <2>7 DEF BootDone, StopBegins, StopSent, StopDone, Signal, Restart, vars
  <2>8. CASE Exit \/ Crash
    BY <2>8 DEF Exit, Crash, ForgetAll
  <2>9. CASE cleanInstances
    BY <2>9 DEF cleanInstances
  <2>10. CASE populateLobby \/ CheckQueue
    <3>1. /\ UNCHANGED <<instances, runner, spawnInst>> /\ ~Creating(Keepalive)
          /\ \E to \in {"check", "idle", "alloc", spawnAt[Keepalive]} :
               spawnAt' = [spawnAt EXCEPT ![Keepalive] = to]
      BY <2>10, ConstantFacts DEF populateLobby, CheckQueue
    <3> QED BY <3>1, ConstantFacts
  <2>11. ASSUME NEW r \in Requests, webHandleRequestRoom(r) PROVE OwnerInv'
    BY <2>11 DEF webHandleRequestRoom
  <2> HIDE DEF OwnerInv, InstancesHaveOwners, TypeOK, RunnerMoves, Creating
  <2> QED
    BY <1>2, <2>1, <2>2, <2>3, <2>4, <2>5, <2>6, <2>7, <2>8, <2>9, <2>10, <2>11 DEF Next, Main
<1>3. OwnerInv => InstancesHaveOwners
  BY DEF OwnerInv
<1> QED
  BY <1>1, <1>2, <1>3, BaseInvariant, PTL DEF Spec

(* However often the backend crashes and restarts, and whatever else       *)
(* fails, two running games that are not orphans never have the same port. *)
THEOREM LivePortsAreDistinct ==
  ASSUME "cmdline" \notin Faults, "reopen" \notin Faults
  PROVE  Spec => []LivePortsDistinct
<1>1. IInv => LivePortsDistinct
  BY DEF IInv, HolderInv, Holder, Known, LivePortsDistinct
<1> QED
  BY <1>1, IInvInvariant, PTL

(* While the backend serves, every running game whose instance.json can be *)
(* read is in the registry.                                                *)
THEOREM SavedGamesAreManaged ==
  ASSUME "cmdline" \notin Faults, "reopen" \notin Faults
  PROVE  Spec => []SavedGameIsManaged
<1>1. IInv => SavedGameIsManaged
  BY DEF IInv, KnownInv, BeforeStop, Known, Orphan, SavedGameIsManaged
<1> QED
  BY <1>1, IInvInvariant, PTL

(* The directory of a running game is only archived after its runner told  *)
(* the game to shut down.                                                  *)
THEOREM LiveGamesKeepTheirDirectory ==
  ASSUME "cmdline" \notin Faults, "reopen" \notin Faults
  PROVE  Spec => LiveGameKeepsDirectory
<1>1. ASSUME IInv, [Next]_vars, NEW i \in Inst,
             confdir[i] # "archived", confdir'[i] = "archived", Alive(i)
      PROVE  ordered[i]
  <2> USE <1>1 DEF Alive, RunnerMoves
  <2>0. TypeOK
    BY DEF IInv, BaseInv
  <2> USE <2>0 DEF TypeOK
  <2>1. ASSUME NEW s \in Spawners, Spawn(s) PROVE FALSE
    BY <2>1 DEF Spawn, allocateNewInstance, AllocationFails, generateInstance, releaseInstance,
         StartRunner, Proceed
  <2>2. ASSUME NEW j \in Inst, Runner(j) PROVE ordered[i]
    <3>1. CASE RunnerExits(j)
      BY <3>1 DEF RunnerExits, archiveInstance, IInv, BaseInv, RunnerInv
    <3>2. CASE ~RunnerExits(j)
      BY <2>2, <3>2 DEF Runner, createPipes, StartProcess, StartProcessFails, WriteFiles,
           EnterRunner, recoverSave, isInstanceInLobby, HandleShutdown, HandleRunnerStop,
           PidCheckFailed, RunnerHangs
    <3> QED
      BY <3>1, <3>2
  <2>3. ASSUME NEW j \in Inst, Message(j) PROVE FALSE
    BY <2>3 DEF Message, HandleLobbyId, HandleLobbyError, HandleStart, HandleJoin, RunnerMoves
  <2>4. ASSUME NEW j \in Inst, RecoverArchives(j) PROVE FALSE
    BY <2>4 DEF RecoverArchives, archiveInstance, isPidCmdlineAccurate, isPidAlive, IInv,
         CmdlineInv,
       Loadable, NoFile, States
  <2>5. ASSUME NEW j \in Inst, RecoverSkips(j) \/ recoverRunner(j) PROVE FALSE
    BY <2>5 DEF RecoverSkips, recoverRunner
  <2>6. CASE Main /\ ~\E j \in Inst : RecoverArchives(j) \/ RecoverSkips(j) \/ recoverRunner(j)
    BY <2>6 DEF Main, BootDone, StopBegins, StopSends, StopSent, StopWaits, StopDone, Exit,
         ForgetAll
  <2>7. CASE cleanInstances \/ populateLobby \/ CheckQueue \/ Signal \/ Crash \/ Restart
             \/ UNCHANGED vars
    BY <2>7 DEF cleanInstances, populateLobby, CheckQueue, Signal, Crash, ForgetAll, Restart, vars
  <2>8. ASSUME NEW j \in Inst, GameExits(j) PROVE FALSE
    BY <2>8 DEF GameExits
  <2>9. ASSUME NEW r \in Requests, webHandleRequestRoom(r) PROVE FALSE
    BY <2>9 DEF webHandleRequestRoom
  <2> HIDE DEF TypeOK, Alive, RunnerMoves
  <2> QED
    BY <2>1, <2>2, <2>3, <2>4, <2>5, <2>6, <2>7, <2>8, <2>9 DEF Next
<1>2. IInv /\ [Next]_vars =>
        [\A i \in Inst :
           confdir[i] # "archived" /\ confdir'[i] = "archived" /\ Alive(i) => ordered[i]]_vars
  BY <1>1
<1> QED
  BY <1>2, IInvInvariant, PTL DEF Spec, LiveGameKeepsDirectory

-----------------------------------------------------------------------------
(* The orders of a shutdown.                                               *)

OrderSent(i) ==
  commands[i] # <<>> \/ ordered[i] \/ runner[i] \in {"deadexit", "stopexit", "hung", "exited"}

(* stopAllRunners has sent its order to all it does not still have to      *)
(* visit, and from then on no instance is added.                           *)
SentInv ==
  /\ main = "sending" => \A i \in instances \ pending : OrderSent(i)
  /\ main \in {"waiting", "closing"} => \A i \in instances : OrderSent(i)

LEMMA SentKept ==
  ASSUME TypeOK, SentInv, instances' \subseteq instances, UNCHANGED <<main, pending>>,
         \A i \in Inst : OrderSent(i) => OrderSent(i)'
  PROVE  SentInv'
  BY DEF TypeOK, SentInv

(* An order that was sent is in the channel until the runner acts on it.   *)
LEMMA OrderKept ==
  ASSUME TypeOK, NEW i \in Inst, Runner(i) \/ Message(i)
  PROVE  \A j \in Inst : OrderSent(j) => OrderSent(j)'
<1> USE DEF TypeOK, OrderSent, RunnerMoves
<1>1. CASE HandleShutdown(i) \/ HandleRunnerStop(i)
  BY <1>1 DEF HandleShutdown, HandleRunnerStop
<1>2. CASE RunnerExits(i) \/ RunnerHangs(i)
  BY <1>2 DEF RunnerExits, RunnerHangs
<1>3. CASE \/ createPipes(i) \/ StartProcess(i) \/ StartProcessFails(i) \/ WriteFiles(i)
           \/ EnterRunner(i) \/ recoverSave(i) \/ isInstanceInLobby(i) \/ PidCheckFailed(i)
           \/ HandleLobbyId(i) \/ HandleStart(i) \/ HandleJoin(i)
  <2>1. /\ UNCHANGED <<commands, ordered>>
        /\ \E to \in RunnerPcs : runner' = [runner EXCEPT ![i] = to]
        /\ runner[i] \notin {"deadexit", "stopexit", "hung", "exited"}
    BY <1>3 DEF createPipes, StartProcess, StartProcessFails, WriteFiles, EnterRunner, recoverSave,
         isInstanceInLobby, PidCheckFailed, HandleLobbyId, HandleStart, HandleJoin, RunnerPcs
  <2> QED
    BY <2>1
<1>4. CASE HandleLobbyError(i)
  <2>1. commands[i] = <<>> /\ UNCHANGED <<ordered, runner>>
        /\ \A j \in Inst : j # i => commands'[j] = commands[j]
    BY <1>4 DEF HandleLobbyError
  <2>2. commands'[i] # <<>>
    BY <1>4 DEF HandleLobbyError
  <2> QED
    BY <2>1, <2>2
<1> QED
  BY <1>1, <1>2, <1>3, <1>4 DEF Runner, Message

LEMMA SentNext ==
  ASSUME TypeOK, SpawnInv, SentInv, [Next]_vars
  PROVE  SentInv'
<1>1. ASSUME NEW s \in Spawners, Spawn(s) PROVE SentInv'
  <2>1. CASE allocateNewInstance(s)
    BY <2>1 DEF allocateNewInstance, disallowInstanceCreation, SentInv
  <2>2. CASE AllocationFails(s) \/ generateInstance(s) \/ releaseInstance(s)
    BY <2>2, SentKept DEF AllocationFails, generateInstance, releaseInstance, OrderSent
  <2>3. CASE StartRunner(s)
    <3>1. /\ UNCHANGED <<instances, main, pending, commands, ordered>>
          /\ runner' = [runner EXCEPT ![spawnInst[s]] = "pipes"]
          /\ runner[spawnInst[s]] = "none"
      BY <2>3 DEF StartRunner, SpawnInv, Creating
    <3> QED
      BY <3>1, SentKept DEF OrderSent, TypeOK
  <2> QED
    BY <1>1, <2>1, <2>2, <2>3 DEF Spawn
<1>2. ASSUME NEW i \in Inst, Runner(i) \/ Message(i) PROVE SentInv'
  <2>1. UNCHANGED <<instances, main, pending>>
    BY <1>2 DEF Runner, Message, createPipes, StartProcess, StartProcessFails, WriteFiles,
         EnterRunner, recoverSave, isInstanceInLobby, PidCheckFailed, HandleShutdown,
         HandleRunnerStop, RunnerExits, RunnerHangs, HandleLobbyId, HandleStart, HandleJoin,
         HandleLobbyError
  <2> QED
    BY <1>2, <2>1, OrderKept, SentKept
<1>4. ASSUME NEW i \in Inst, RecoverSkips(i) \/ RecoverArchives(i) \/ recoverRunner(i)
      PROVE  SentInv'
  BY <1>4 DEF RecoverSkips, RecoverArchives, recoverRunner, RecoverNext, SentInv
<1>5. ASSUME NEW i \in Inst, StopSends(i) PROVE SentInv'
  <2>1. /\ main = "sending" /\ main' = "sending" /\ pending' = pending \ {i}
        /\ UNCHANGED <<instances, ordered, runner>>
        /\ \A j \in Inst : j # i => commands'[j] = commands[j]
    BY <1>5 DEF StopSends, TypeOK
  <2>2. commands'[i] # <<>>
    BY <1>5 DEF StopSends, TypeOK
  <2> QED
    BY <2>1, <2>2 DEF SentInv, OrderSent, TypeOK
<1>6. CASE StopBegins \/ StopSent \/ StopDone
  BY <1>6 DEF StopBegins, StopSent, StopDone, SentInv, OrderSent
<1>7. CASE BootDone \/ Signal \/ Restart \/ Exit \/ Crash
  BY <1>7 DEF BootDone, Signal, Restart, Exit, Crash, SentInv
<1>8. ASSUME NEW i \in Inst, StopWaits(i) PROVE SentInv'
  BY <1>8 DEF StopWaits, SentInv, OrderSent
<1>9. ASSUME NEW i \in Inst, GameExits(i) PROVE SentInv'
  BY <1>9, SentKept DEF GameExits, OrderSent
<1>10. CASE cleanInstances \/ populateLobby \/ CheckQueue \/ UNCHANGED vars
            \/ (\E r \in Requests : webHandleRequestRoom(r))
  BY <1>10, SentKept DEF cleanInstances, populateLobby, CheckQueue, webHandleRequestRoom, vars,
     OrderSent
<1> QED
  BY <1>1, <1>2, <1>4, <1>5, <1>6, <1>7, <1>8, <1>9, <1>10 DEF Next, Main

(* When stopAllRunners returns, every instance of the registry was sent    *)
(* its order, whatever fails: none was created behind its back.            *)
THEOREM StopsReachAll == Spec => []StopReachesAll
<1>1. Init => SentInv
  BY DEF Init, SentInv
<1>2. BaseInv /\ SentInv /\ [Next]_vars => SentInv'
  BY SentNext DEF BaseInv
<1>3. SentInv => StopReachesAll
  BY DEF SentInv, StopReachesAll, OrderSent
<1> QED
  BY <1>1, <1>2, <1>3, BaseInvariant, PTL DEF Spec

-----------------------------------------------------------------------------
(* How a game becomes one no restart can find.                             *)

(* What the position of a runner says of its game and of instance.json.    *)
TraceInv ==
  \A i \in Inst :
    /\ runner[i] \in {"pipes", "start", "failed"} => proc[i] = "none"
    /\ runner[i] \in {"loop", "locking", "stopexit"} => Loadable(i)
    /\ runner[i] \in {"hung", "exited"} => ~Alive(i) \/ ordered[i] \/ Loadable(i)

LEMMA TraceNext ==
  ASSUME "save" \notin Faults, TypeOK, SpawnInv, RunnerInv, BootInv, TraceInv, [Next]_vars
  PROVE  TraceInv'
<1> USE DEF TypeOK, TraceInv, RunnerMoves, Alive, Loadable
<1>1. ASSUME NEW s \in Spawners, Spawn(s) PROVE TraceInv'
  BY <1>1 DEF SpawnInv, Creating, Spawn, allocateNewInstance, AllocationFails, generateInstance,
       releaseInstance, StartRunner, Proceed
<1>2. ASSUME NEW i \in Inst, Runner(i) PROVE TraceInv'
  <2>1. CASE RunnerExits(i)
    BY <2>1 DEF RunnerExits, archiveInstance, RunnerInv
  <2>2. CASE HandleShutdown(i) \/ HandleRunnerStop(i)
    BY <2>2 DEF HandleShutdown, HandleRunnerStop
  <2>3. CASE createPipes(i) \/ StartProcess(i) \/ StartProcessFails(i) \/ WriteFiles(i)
    BY <2>3 DEF createPipes, StartProcess, StartProcessFails, WriteFiles
  <2>4. CASE recoverSave(i)
    BY <2>4 DEF recoverSave
  <2>5. CASE EnterRunner(i) \/ isInstanceInLobby(i) \/ PidCheckFailed(i) \/ RunnerHangs(i)
    BY <2>5 DEF EnterRunner, isInstanceInLobby, PidCheckFailed, RunnerHangs, RunnerInv
  <2> QED
    BY <1>2, <2>1, <2>2, <2>3, <2>4, <2>5 DEF Runner
<1>3. ASSUME NEW i \in Inst, Message(i) PROVE TraceInv'
  BY <1>3 DEF Message, HandleLobbyId, HandleLobbyError, HandleStart, HandleJoin
<1>4. ASSUME NEW i \in Inst, RecoverArchives(i) PROVE TraceInv'
  BY <1>4 DEF RecoverArchives, RecoverNext, archiveInstance, BootInv
<1>5. ASSUME NEW i \in Inst, RecoverSkips(i) \/ recoverRunner(i) PROVE TraceInv'
  BY <1>5 DEF RecoverSkips, recoverRunner
<1>6. CASE BootDone \/ StopBegins \/ StopSent \/ StopDone \/ Signal \/ Restart \/ UNCHANGED vars
  BY <1>6 DEF BootDone, StopBegins, StopSent, StopDone, Signal, Restart, vars
<1>7. ASSUME NEW i \in Inst, StopSends(i) \/ StopWaits(i) \/ GameExits(i) PROVE TraceInv'
  BY <1>7 DEF StopSends, StopWaits, GameExits
<1>8. CASE Exit \/ Crash
  BY <1>8 DEF Exit, Crash, ForgetAll
<1>9. CASE cleanInstances \/ populateLobby \/ CheckQueue
           \/ (\E r \in Requests : webHandleRequestRoom(r))
  BY <1>9 DEF cleanInstances, populateLobby, CheckQueue, webHandleRequestRoom
<1> HIDE DEF TypeOK, TraceInv, RunnerMoves, Alive, Loadable
<1> QED
  BY <1>1, <1>2, <1>3, <1>4, <1>5, <1>6, <1>7, <1>8, <1>9 DEF Next, Main

(* The end of the backend makes an orphan only of a game that is being     *)
(* started or whose file is being rewritten, and else a game is lost only  *)
(* if it was told to exit, whatever calls fail but the writes of           *)
(* instance.json and cmdline.                                              *)
THEOREM OrphansAreUnsaved ==
  ASSUME "save" \notin Faults, "cmdline" \notin Faults
  PROVE  Spec => OrphansOnlyUnsaved
<1> DEFINE Lost(i) == \/ Orphan(i) \/ ordered[i]
                      \/ ~Up' /\ runner[i] \in {"files", "enter", "save"}
<1>1. Init => TraceInv /\ CmdlineInv
  BY DEF Init, TraceInv, CmdlineInv, NoFile
<1>2. BaseInv /\ CmdlineInv /\ TraceInv /\ [Next]_vars => (CmdlineInv /\ TraceInv)'
  BY TraceNext, CmdlineNext DEF BaseInv
<1>3. ASSUME BaseInv, CmdlineInv, TraceInv, Next, NEW i \in Inst, Orphan(i)'
      PROVE  Lost(i)
  <2>0. TypeOK /\ SpawnInv /\ RunnerInv /\ BootInv
    BY <1>3 DEF BaseInv
  <2> USE <2>0 DEF TypeOK, Orphan, Alive, RunnerMoves
  <2>1. CASE Exit \/ Crash
    <3>1. ~Up' /\ proc'[i] = proc[i] /\ Alive(i)
      BY <1>3, <2>1 DEF Exit, Crash, ForgetAll, Up
    <3>2. ~Loadable(i) \/ runner[i] = "save"
      BY <1>3, <2>1, ForgetSaved DEF Exit, Crash, Loadable
    <3>3. CASE runner[i] \in {"none", "files", "enter", "save"}
      BY <3>1, <3>2, <3>3
    <3>4. CASE runner[i] \notin {"none", "files", "enter", "save"}
      BY <1>3, <3>1, <3>2, <3>4 DEF RunnerInv, RunnerPcs, TraceInv
    <3> QED
      BY <3>3, <3>4
  <2>2. ASSUME NEW j \in Inst, Runner(j) PROVE Lost(i)
    <3>1. /\ runner[j] # "none" /\ runner'[j] # "none"
          /\ \A k \in Inst \ {j} :
               runner'[k] = runner[k] /\ proc'[k] = proc[k] /\ saved'[k] = saved[k]
      BY <2>2 DEF Runner, createPipes, StartProcess, StartProcessFails, WriteFiles, EnterRunner,
           recoverSave, isInstanceInLobby, HandleShutdown, HandleRunnerStop, PidCheckFailed,
           RunnerExits, RunnerHangs, archiveInstance
    <3> QED
      BY <1>3, <3>1 DEF Loadable
  <2>3. ASSUME NEW j \in Inst, RecoverArchives(j) PROVE Lost(i)
    <3>1. ~Alive(j)
      BY <1>3, <2>3 DEF RecoverArchives, isPidCmdlineAccurate, isPidAlive, CmdlineInv, Loadable,
           NoFile, States
    <3>2. /\ UNCHANGED <<proc, runner>>
          /\ \A k \in Inst \ {j} : saved'[k] = saved[k]
      BY <2>3 DEF RecoverArchives, archiveInstance
    <3> QED
      BY <1>3, <3>1, <3>2 DEF Loadable
  <2> DEFINE Same == /\ saved'[i] = saved[i]
                     /\ proc'[i] = "alive" => proc[i] = "alive"
                     /\ runner'[i] = "none" => runner[i] = "none"
  <2>4. CASE Same
    BY <1>3, <2>4 DEF Loadable
  <2>5. ASSUME NEW s \in Spawners, Spawn(s) PROVE Same
    BY <2>5 DEF Spawn, allocateNewInstance, AllocationFails, generateInstance, releaseInstance,
         StartRunner
  <2>6. ASSUME NEW j \in Inst, Message(j) \/ recoverRunner(j) \/ GameExits(j) PROVE Same
    BY <2>6 DEF Message, HandleLobbyId, HandleStart, HandleLobbyError, HandleJoin, recoverRunner,
         GameExits
  <2>7. ASSUME NEW j \in Inst, RecoverSkips(j) \/ StopSends(j) \/ StopWaits(j) PROVE Same
    BY <2>7 DEF RecoverSkips, StopSends, StopWaits
  <2>8. ASSUME BootDone \/ StopBegins \/ StopSent \/ StopDone \/ Signal \/ Restart PROVE Same
    BY <2>8 DEF BootDone, StopBegins, StopSent, StopDone, Signal, Restart
  <2>9. ASSUME \/ cleanInstances \/ populateLobby \/ CheckQueue
               \/ \E r \in Requests : webHandleRequestRoom(r)
        PROVE  Same
    BY <2>9 DEF cleanInstances, populateLobby, CheckQueue, webHandleRequestRoom
  <2> HIDE DEF TypeOK, Orphan, Alive, RunnerMoves, Same, Lost
  <2> QED
    BY <1>3, <2>1, <2>2, <2>3, <2>4, <2>5, <2>6, <2>7, <2>8, <2>9 DEF Next, Main
<1>4. BaseInv /\ CmdlineInv /\ TraceInv /\ [Next]_vars =>
        [\A i \in Inst :
           Orphan(i)' => \/ Orphan(i) \/ ordered[i]
                         \/ ~Up' /\ runner[i] \in {"files", "enter", "save"}]_vars
  BY <1>3
<1> QED
  BY <1>1, <1>2, <1>4, BaseInvariant, PTL DEF Spec, OrphansOnlyUnsaved

-----------------------------------------------------------------------------
(* One room for each queue.                                                *)

Leaving == {"stopexit", "hung", "exited"}

(* What the room being open says of the state, the file and the orders:    *)
(* while a shutdown only stops the runners, a game that still lists its    *)
(* room was not told to exit.                                              *)
HeardInv ==
  \A i \in Inst :
    heard[i] = "room" =>
      /\ state[i] # instanceStateInGame
      /\ saved[i] \notin {instanceStateInGame, instanceStateExiting}
      /\ runner[i] \notin Leaving => state[i] < instanceStateExiting
      /\ ~ordered[i]
      /\ \A k \in 1..Len(commands[i]) : commands[i][k] = "stop"

(* The rooms there are, those a restart will find included.                *)
Room(i) ==
  /\ QueueName[i] # 0 /\ heard[i] = "room"
  /\ (i \in instances /\ state[i] < instanceStateExiting) \/ Known(i)

RoomInv ==
  \A i, j \in Inst : Room(i) /\ Room(j) /\ QueueName[i] = QueueName[j] => i = j

(* An instance has its queue only when its runner starts.                  *)
QueueInv ==
  /\ \A i \in Inst : i > lastId => QueueName[i] = 0
  /\ \A s \in Spawners : Creating(s) => QueueName[spawnInst[s]] = 0

(* The keepalive creates a room for a queue that has none, all the while.  *)
KeepInv ==
  spawnAt[Keepalive] \in {"alloc", "generate", "spawn"} =>
    \/ spawnAt[Keepalive] = "alloc" /\ disallowInstanceCreation
    \/ \A i \in Inst : Room(i) => QueueName[i] # nextQueue

LEMMA HeardKept ==
  ASSUME HeardInv, UNCHANGED <<heard, state, saved, ordered, commands>>,
         \A i \in Inst : runner[i] \in Leaving => runner'[i] \in Leaving
  PROVE  HeardInv'
  BY DEF HeardInv

LEMMA HeardNext ==
  ASSUME TRUE \notin ShutdownHostsOnExit, TypeOK, SpawnInv, DiskInv, HeardInv, [Next]_vars
  PROVE  HeardInv'
<1> USE DEF TypeOK, HeardInv, RunnerMoves, Leaving
<1>1. ASSUME NEW s \in Spawners, Spawn(s) PROVE HeardInv'
  <2>1. CASE StartRunner(s)
    BY <2>1, HeardKept DEF StartRunner, SpawnInv, Creating
  <2>2. CASE ~StartRunner(s)
    BY <1>1, <2>2 DEF Spawn, allocateNewInstance, AllocationFails, generateInstance, releaseInstance
  <2> QED
    BY <2>1, <2>2
<1>2. ASSUME NEW i \in Inst, Runner(i) PROVE HeardInv'
  <2>1. CASE RunnerExits(i)
    BY <2>1 DEF RunnerExits, archiveInstance, NoFile, instanceStateInGame, instanceStateExiting,
         instanceStateExited
  <2>2. CASE HandleShutdown(i)
    <3>1. 1 \in 1..Len(commands[i]) /\ commands[i][1] = "shutdown"
      BY <2>2 DEF HandleShutdown
    <3>2. heard[i] # "room"
      BY <3>1
    <3> QED
      BY <2>2, <3>2 DEF HandleShutdown
  <2>3. CASE HandleRunnerStop(i)
    BY <2>3 DEF HandleRunnerStop, instanceStateInGame, instanceStateExiting
  <2>4. CASE recoverSave(i)
    <3>1. heard[i] = "room" => state[i] \notin {instanceStateInGame, instanceStateExiting}
      <4>1. runner[i] = "save"
        BY <2>4 DEF recoverSave
      <4>2. heard[i] = "room" => state[i] < instanceStateExiting /\ state[i] # instanceStateInGame
        BY <4>1
      <4>3. state[i] \in States
        OBVIOUS
      <4> QED
        BY <4>2, <4>3 DEF States, instanceStateExiting
    <3>2. /\ UNCHANGED <<heard, state, ordered, commands>>
          /\ runner[i] = "save" /\ runner' = [runner EXCEPT ![i] = "loop"]
          /\ saved' = saved \/ \E b \in {state[i], TornFile} : saved' = [saved EXCEPT ![i] = b]
      BY <2>4 DEF recoverSave
    <3> QED
      BY <3>1, <3>2 DEF TornFile, instanceStateInGame, instanceStateExiting
  <2>5. CASE createPipes(i) \/ StartProcess(i) \/ StartProcessFails(i) \/ WriteFiles(i)
    <3>1. UNCHANGED <<heard, state, saved, ordered, commands>>
      BY <2>5 DEF createPipes, StartProcess, StartProcessFails, WriteFiles
    <3>2. \A j \in Inst : runner[j] \in Leaving => runner'[j] \in Leaving
      BY <2>5 DEF createPipes, StartProcess, StartProcessFails, WriteFiles
    <3> QED
      BY <3>1, <3>2, HeardKept
  <2>6. CASE EnterRunner(i) \/ isInstanceInLobby(i) \/ PidCheckFailed(i) \/ RunnerHangs(i)
    <3>1. UNCHANGED <<heard, state, saved, ordered, commands>>
      BY <2>6 DEF EnterRunner, isInstanceInLobby, PidCheckFailed, RunnerHangs
    <3>2. \A j \in Inst : runner[j] \in Leaving => runner'[j] \in Leaving
      BY <2>6 DEF EnterRunner, isInstanceInLobby, PidCheckFailed, RunnerHangs
    <3> QED
      BY <3>1, <3>2, HeardKept
  <2> QED
    BY <1>2, <2>1, <2>2, <2>3, <2>4, <2>5, <2>6 DEF Runner
<1>3. ASSUME NEW i \in Inst, Message(i) PROVE HeardInv'
  <2>1. CASE HandleLobbyId(i)
    BY <2>1 DEF HandleLobbyId, instanceStateInLobby, instanceStateInGame, instanceStateExiting
  <2>2. CASE HandleStart(i)
    BY <2>2 DEF HandleStart
  <2>3. CASE HandleLobbyError(i)
    BY <2>3 DEF HandleLobbyError
  <2>4. CASE HandleJoin(i)
    BY <2>4 DEF HandleJoin
  <2> QED
    BY <1>3, <2>1, <2>2, <2>3, <2>4 DEF Message
<1>4. ASSUME NEW i \in Inst, RecoverArchives(i) PROVE HeardInv'
  BY <1>4 DEF RecoverArchives, archiveInstance, NoFile, instanceStateInGame, instanceStateExiting
<1>5. ASSUME NEW i \in Inst, recoverRunner(i) PROVE HeardInv'
  <2>1. saved[i] \in States \ {instanceStateExited}
    BY <1>5 DEF recoverRunner, DiskInv, Loadable
  <2>2. heard[i] = "room" => saved[i] < instanceStateExiting /\ saved[i] # instanceStateInGame
    BY <2>1 DEF States, instanceStateInGame, instanceStateExiting, instanceStateExited
  <2>3. /\ UNCHANGED <<heard, saved, ordered, commands>>
        /\ state' = [state EXCEPT ![i] = saved[i]]
        /\ runner' = [runner EXCEPT ![i] = "enter"]
    BY <1>5 DEF recoverRunner
  <2> QED
    BY <2>2, <2>3
<1>6. ASSUME NEW i \in Inst, RecoverSkips(i) PROVE HeardInv'
  BY <1>6 DEF RecoverSkips
<1>7. ASSUME NEW i \in Inst, StopSends(i) PROVE HeardInv'
  <2>1. /\ UNCHANGED <<heard, saved, ordered, state, runner>>
        /\ commands' = [commands EXCEPT ![i] = Append(@, "stop")]
    BY <1>7 DEF StopSends
  <2> QED
    BY <2>1
<1>8. ASSUME NEW i \in Inst, StopWaits(i) \/ GameExits(i) PROVE HeardInv'
  BY <1>8 DEF StopWaits, GameExits
<1>9. CASE BootDone \/ StopBegins \/ StopSent \/ StopDone \/ Signal \/ Restart \/ UNCHANGED vars
  BY <1>9 DEF BootDone, StopBegins, StopSent, StopDone, Signal, Restart, vars
<1>10. CASE Exit \/ Crash
  <2>1. \A i \in Inst : saved'[i] \in {saved[i], TornFile}
    BY <1>10, ForgetSaved DEF Exit, Crash
  <2>2. /\ UNCHANGED heard
        /\ \A i \in Inst : /\ state'[i] = instanceStateInitial
                          /\ ~ordered'[i] /\ commands'[i] = <<>>
    BY <1>10 DEF Exit, Crash, ForgetAll
  <2> QED
    BY <2>1, <2>2 DEF TornFile, instanceStateInitial, instanceStateInGame, instanceStateExiting
<1>11. CASE cleanInstances \/ populateLobby \/ CheckQueue
            \/ (\E r \in Requests : webHandleRequestRoom(r))
  BY <1>11 DEF cleanInstances, populateLobby, CheckQueue, webHandleRequestRoom
<1> HIDE DEF TypeOK, HeardInv, RunnerMoves, Leaving
<1> QED
  BY <1>1, <1>2, <1>3, <1>4, <1>5, <1>6, <1>7, <1>8, <1>9, <1>10, <1>11 DEF Next, Main

(* Only the start of a runner gives an instance its queue, and nothing     *)
(* else makes a room.                                                      *)
LEMMA NoNewRoom ==
  ASSUME TypeOK, FreshInv, RunnerInv, BootInv, HeardInv, QueueInv, [Next]_vars,
         ~\E s \in Spawners : StartRunner(s)
  PROVE  QueueName' = QueueName /\ \A i \in Inst : Room(i)' => Room(i)
<1> DEFINE Kept == QueueName' = QueueName /\ \A i \in Inst : Room(i)' => Room(i)
<1> SUFFICES Kept
  OBVIOUS
<1> USE DEF TypeOK, Room, Known, Orphan, Alive, Loadable, RunnerMoves
<1>1. ASSUME NEW s \in Spawners, Spawn(s) PROVE Kept
  <2>1. CASE allocateNewInstance(s)
    <3>1. /\ instances' = instances \union {lastId + 1} /\ lastId + 1 \in Inst
          /\ UNCHANGED <<QueueName, state, runner, proc, heard, saved>>
      BY <2>1, ConstantFacts DEF allocateNewInstance, Inst
    <3>2. QueueName[lastId + 1] = 0
      BY <3>1, ConstantFacts DEF QueueInv
    <3> QED
      BY <3>1, <3>2
  <2>2. CASE generateInstance(s) \/ releaseInstance(s) \/ AllocationFails(s)
    BY <2>2 DEF generateInstance, releaseInstance, AllocationFails
  <2> QED
    BY <1>1, <2>1, <2>2 DEF Spawn
<1>2. ASSUME NEW i \in Inst, Runner(i) PROVE Kept
  <2>0. /\ UNCHANGED <<instances, QueueName, heard>>
        /\ runner[i] \notin {"none", "exited"} /\ runner'[i] # "none"
        /\ \A j \in Inst \ {i} :
             state'[j] = state[j] /\ runner'[j] = runner[j] /\ proc'[j] = proc[j]
               /\ saved'[j] = saved[j]
    BY <1>2 DEF Runner, createPipes, StartProcess, StartProcessFails, WriteFiles, EnterRunner,
         recoverSave, isInstanceInLobby, HandleShutdown, HandleRunnerStop, PidCheckFailed,
         RunnerExits, RunnerHangs, archiveInstance
  <2>1. i \in instances
    BY <2>0 DEF RunnerInv
  <2>2. CASE StartProcess(i)
    <3>1. heard[i] = "room" => state[i] < instanceStateExiting
      BY <2>2 DEF StartProcess, HeardInv, Leaving
    <3> QED
      BY <2>0, <2>1, <3>1
  <2>3. CASE ~StartProcess(i)
    <3>1. proc' = proc
      BY <1>2, <2>3 DEF Runner, createPipes, StartProcessFails, WriteFiles, EnterRunner,
           recoverSave, isInstanceInLobby, HandleShutdown, HandleRunnerStop, PidCheckFailed,
           RunnerExits, RunnerHangs
    <3>2. state'[i] = state[i] \/ state'[i] \in {instanceStateExiting, instanceStateExited}
      BY <1>2, <2>3 DEF Runner, createPipes, StartProcessFails, WriteFiles, EnterRunner,
           recoverSave, isInstanceInLobby, HandleShutdown, HandleRunnerStop, PidCheckFailed,
           RunnerExits, RunnerHangs
    <3>3. state'[i] < instanceStateExiting => state[i] < instanceStateExiting
      BY <3>2 DEF instanceStateExiting, instanceStateExited
    <3>4. Known(i)' => Known(i)
      BY <2>0, <3>1
    <3>5. \A j \in Inst \ {i} : Room(j)' => Room(j)
      BY <2>0, <3>1
    <3> QED
      BY <2>0, <3>3, <3>4, <3>5
  <2> QED
    BY <2>2, <2>3
<1>3. ASSUME NEW i \in Inst, Message(i) PROVE Kept
  <2>1. CASE HandleLobbyId(i)
    <3>1. i \in instances /\ (heard[i] = "room" => state[i] < instanceStateExiting)
      BY <2>1 DEF HandleLobbyId, RunnerInv, HeardInv, Leaving
    <3> QED
      BY <2>1, <3>1 DEF HandleLobbyId
  <2>2. CASE HandleStart(i)
    BY <2>2 DEF HandleStart
  <2>3. CASE HandleLobbyError(i) \/ HandleJoin(i)
    BY <2>3 DEF HandleLobbyError, HandleJoin
  <2> QED
    BY <1>3, <2>1, <2>2, <2>3 DEF Message
<1>4. ASSUME NEW i \in Inst, RecoverArchives(i) PROVE Kept
  BY <1>4 DEF RecoverArchives, RecoverNext, archiveInstance, BootInv
<1>5. ASSUME NEW i \in Inst, recoverRunner(i) PROVE Kept
  BY <1>5 DEF recoverRunner, isPidAlive
<1>6. ASSUME NEW i \in Inst, RecoverSkips(i) \/ StopSends(i) \/ StopWaits(i) \/ GameExits(i)
      PROVE  Kept
  BY <1>6 DEF RecoverSkips, StopSends, StopWaits, GameExits
<1>7. CASE BootDone \/ StopBegins \/ StopSent \/ StopDone \/ Signal \/ Restart \/ UNCHANGED vars
  BY <1>7 DEF BootDone, StopBegins, StopSent, StopDone, Signal, Restart, vars
<1>8. CASE Exit \/ Crash
  <2>1. /\ UNCHANGED <<QueueName, heard, proc>> /\ instances' = {}
        /\ \A i \in Inst : runner'[i] = "none"
    BY <1>8 DEF Exit, Crash, ForgetAll
  <2>2. \A i \in Inst : Loadable(i)' => Loadable(i)
    BY <1>8, ForgetSaved DEF Exit, Crash, TornFile, States
  <2> QED
    BY <2>1, <2>2
<1>9. CASE cleanInstances \/ populateLobby \/ CheckQueue
           \/ (\E r \in Requests : webHandleRequestRoom(r))
  BY <1>9 DEF cleanInstances, populateLobby, CheckQueue, webHandleRequestRoom
<1> HIDE DEF TypeOK, Room, Known, Orphan, Alive, Loadable, RunnerMoves, Kept
<1> QED
  BY <1>1, <1>2, <1>3, <1>4, <1>5, <1>6, <1>7, <1>8, <1>9 DEF Next, Main

LEMMA StartRunnerRooms ==
  ASSUME TypeOK, SpawnInv, NEW s \in Spawners, StartRunner(s)
  PROVE  /\ QueueName' = [QueueName EXCEPT ![spawnInst[s]] =
                            IF s = Keepalive THEN nextQueue ELSE 0]
         /\ \A i \in Inst \ {spawnInst[s]} : Room(i)' => Room(i)
  BY DEF StartRunner, SpawnInv, Creating, TypeOK, Room, Known, Orphan, Alive, Loadable

LEMMA QueueNext ==
  ASSUME TypeOK, SpawnInv, FreshInv, RunnerInv, BootInv, HeardInv, QueueInv, [Next]_vars
  PROVE  QueueInv'
<1> USE DEF QueueInv
<1>1. ASSUME NEW s \in Spawners, StartRunner(s) PROVE QueueInv'
  <2>1. /\ spawnInst[s] \in instances /\ spawnInst[s] \in Inst
        /\ Creating(s)
    BY <1>1 DEF StartRunner, SpawnInv, Creating, TypeOK
  <2>2. ~(spawnInst[s] > lastId)
    BY <2>1 DEF FreshInv
  <2>3. \A t \in Spawners : Creating(t)' => t # s /\ Creating(t) /\ spawnInst'[t] = spawnInst[t]
    BY <1>1 DEF StartRunner, Proceed, Creating, TypeOK
  <2>4. \A t \in Spawners : Creating(t)' => spawnInst[t] # spawnInst[s]
    BY <2>1, <2>3 DEF SpawnInv
  <2>5. /\ UNCHANGED lastId
        /\ QueueName' = [QueueName EXCEPT ![spawnInst[s]] =
                           IF s = Keepalive THEN nextQueue ELSE 0]
    BY <1>1 DEF StartRunner
  <2> QED
    BY <2>2, <2>3, <2>4, <2>5 DEF TypeOK, SpawnInv
<1>2. ASSUME NEW s \in Spawners, allocateNewInstance(s) PROVE QueueInv'
  <2>1. /\ UNCHANGED QueueName /\ lastId' = lastId + 1 /\ lastId + 1 \in Inst
        /\ spawnInst' = [spawnInst EXCEPT ![s] = lastId + 1]
        /\ spawnAt' = [spawnAt EXCEPT ![s] = "generate"]
    BY <1>2, ConstantFacts DEF allocateNewInstance, Inst, TypeOK
  <2>2. QueueName[lastId + 1] = 0
    BY <2>1, ConstantFacts DEF TypeOK
  <2>3. \A i \in Inst : i > lastId' => i > lastId
    BY <2>1, ConstantFacts DEF TypeOK, Inst
  <2> QED
    BY <2>1, <2>2, <2>3 DEF TypeOK, Creating
<1>3. CASE \A s \in Spawners : ~StartRunner(s) /\ ~allocateNewInstance(s)
  <2>1. QueueName' = QueueName
    BY <1>3, NoNewRoom
  <2>2. UNCHANGED lastId
    BY <1>3 DEF Next, Main, Spawn, Runner, Message, createPipes, StartProcess, StartProcessFails,
         WriteFiles, EnterRunner, recoverSave, isInstanceInLobby, HandleShutdown,
         HandleRunnerStop, PidCheckFailed, RunnerExits, RunnerHangs, AllocationFails,
         generateInstance,
         releaseInstance, HandleLobbyId, HandleStart, HandleLobbyError, HandleJoin,
         RecoverSkips, RecoverArchives, recoverRunner, BootDone, StopBegins, StopSends,
         StopSent, StopWaits, StopDone, Exit, Crash, ForgetAll, Signal, Restart, GameExits,
         populateLobby, CheckQueue, webHandleRequestRoom, cleanInstances, vars
  <2>3. \A s \in Spawners : Creating(s)' => Creating(s) /\ spawnInst'[s] = spawnInst[s]
    <3> USE DEF TypeOK, Creating
    <3>1. ASSUME NEW s \in Spawners, Spawn(s)
          PROVE  \A t \in Spawners : Creating(t)' => Creating(t) /\ spawnInst'[t] = spawnInst[t]
      BY <1>3, <3>1 DEF Spawn, AllocationFails, generateInstance, releaseInstance, Proceed
    <3>2. CASE populateLobby \/ CheckQueue \/ \E r \in Requests : webHandleRequestRoom(r)
      BY <3>2 DEF populateLobby, CheckQueue, webHandleRequestRoom
    <3>3. CASE Exit \/ Crash
      BY <3>3 DEF Exit, Crash, ForgetAll
    <3>4. CASE \/ \E i \in Inst : Runner(i) \/ Message(i) \/ GameExits(i)
               \/ cleanInstances \/ Signal \/ Restart \/ UNCHANGED vars
               \/ Main /\ ~Exit
      <4>1. UNCHANGED <<spawnAt, spawnInst>>
        BY <3>4 DEF Main, Runner, Message, createPipes, StartProcess, StartProcessFails,
         WriteFiles, EnterRunner, recoverSave, isInstanceInLobby, HandleShutdown,
         HandleRunnerStop, PidCheckFailed, RunnerExits, RunnerHangs, HandleLobbyId, HandleStart,
         HandleLobbyError, HandleJoin, RecoverSkips, RecoverArchives, recoverRunner, BootDone,
         StopBegins, StopSends, StopSent, StopWaits, StopDone, Signal, Restart, GameExits,
         cleanInstances, vars
      <4> QED
        BY <4>1
    <3> HIDE DEF TypeOK, Creating
    <3> QED
      BY <3>1, <3>2, <3>3, <3>4 DEF Next
  <2> QED
    BY <2>1, <2>2, <2>3
<1> QED
  BY <1>1, <1>2, <1>3

LEMMA RoomNext ==
  ASSUME TypeOK, SpawnInv, FreshInv, RunnerInv, BootInv, HeardInv, QueueInv, KeepInv, RoomInv,
         [Next]_vars
  PROVE  RoomInv'
<1>1. ASSUME NEW s \in Spawners, StartRunner(s) PROVE RoomInv'
  <2>1. /\ QueueName' = [QueueName EXCEPT ![spawnInst[s]] =
                           IF s = Keepalive THEN nextQueue ELSE 0]
        /\ \A i \in Inst \ {spawnInst[s]} : Room(i)' => Room(i)
    BY <1>1, StartRunnerRooms
  <2>2. spawnInst[s] \in Inst /\ spawnAt[s] = "spawn"
    BY <1>1 DEF StartRunner, SpawnInv, Creating, TypeOK
  <2>3. CASE s = Keepalive
    <3>1. \A i \in Inst : Room(i) => QueueName[i] # nextQueue
      BY <2>2, <2>3 DEF KeepInv
    <3>2. \A i \in Inst \ {spawnInst[s]} : Room(i)' => Room(i) /\ QueueName'[i] # nextQueue
      BY <2>1, <2>2, <3>1 DEF TypeOK
    <3>3. QueueName'[spawnInst[s]] = nextQueue
      BY <2>1, <2>2, <2>3 DEF TypeOK
    <3> QED
      BY <2>1, <2>2, <3>2, <3>3 DEF RoomInv, TypeOK
  <2>4. CASE s # Keepalive
    <3>1. \A i \in Inst \ {spawnInst[s]} : QueueName'[i] = QueueName[i]
      BY <2>1, <2>2 DEF TypeOK
    <3>2. QueueName'[spawnInst[s]] = 0
      BY <2>1, <2>2, <2>4 DEF TypeOK
    <3>3. \A i \in Inst : Room(i)' => i # spawnInst[s] /\ Room(i)
      <4>1. ASSUME NEW i \in Inst, Room(i)' PROVE i # spawnInst[s]
        BY <3>2, <4>1 DEF Room
      <4> QED
        BY <2>1, <4>1
    <3> QED
      BY <3>1, <3>3 DEF RoomInv
  <2> QED
    BY <2>3, <2>4
<1>2. CASE ~\E s \in Spawners : StartRunner(s)
  BY <1>2, NoNewRoom DEF RoomInv
<1> QED
  BY <1>1, <1>2

(* When the keepalive finds no room for a queue, there is none: the rooms  *)
(* it does not see in the registry were all recovered before it started.   *)
LEMMA NoRoomMissed ==
  ASSUME IInv, HeardInv, Routines, instancesLockFree, ~disallowInstanceCreation,
         NEW q, ~isQueueInLobby(q), NEW i \in Inst, Room(i)
  PROVE  QueueName[i] # q
<1>1. main = "serving"
  BY DEF Routines, disallowInstanceCreation, instancesLockFree
<1>2. i \in instances
  BY <1>1 DEF Room, IInv, KnownInv, BeforeStop
<1>3. state[i] \in States /\ state[i] # instanceStateInGame
  BY DEF IInv, BaseInv, TypeOK, HeardInv, Room
<1>4. state[i] < instanceStateExiting
  <2>1. CASE Known(i)
    <3>1. runner[i] \notin Leaving
      BY <1>1, <2>1 DEF IInv, BaseInv, StopInv, BeforeStop, Known, Leaving
    <3> QED
      BY <3>1 DEF HeardInv, Room
  <2> QED
    BY <2>1 DEF Room
<1> QED
  BY <1>2, <1>3, <1>4 DEF isQueueInLobby, States, instanceStateInGame, instanceStateExiting,
       instanceStateInLobby

(* What the other steps may do to the keepalive.                           *)
KeepaliveStays ==
  \/ /\ spawnAt'[Keepalive] = spawnAt[Keepalive] /\ nextQueue' = nextQueue
     /\ spawnAt[Keepalive] # "idle" /\ disallowInstanceCreation
          => disallowInstanceCreation'
  \/ spawnAt'[Keepalive] \notin {"alloc", "generate", "spawn"}

LEMMA OthersLeaveKeepalive ==
  ASSUME TypeOK, SpawnInv, [Next]_vars, ~CheckQueue, ~Spawn(Keepalive)
  PROVE  KeepaliveStays
<1> USE ConstantFacts DEF TypeOK, KeepaliveStays, disallowInstanceCreation
<1>1. ASSUME NEW s \in Spawners, Spawn(s) PROVE KeepaliveStays
  <2>1. s # Keepalive /\ UNCHANGED <<nextQueue, main>>
    BY <1>1 DEF Spawn, allocateNewInstance, AllocationFails, generateInstance, releaseInstance,
         StartRunner, Proceed
  <2>2. spawnAt'[Keepalive] = spawnAt[Keepalive]
    BY <1>1, <2>1 DEF Spawn, allocateNewInstance, AllocationFails, generateInstance,
         releaseInstance, StartRunner, Proceed
  <2> QED
    BY <2>1, <2>2
<1>2. ASSUME NEW r \in Requests, webHandleRequestRoom(r) PROVE KeepaliveStays
  BY <1>2, ManagerAssumption DEF webHandleRequestRoom
<1>3. CASE populateLobby
  BY <1>3 DEF populateLobby
<1>4. CASE Exit \/ Crash
  BY <1>4 DEF Exit, Crash, ForgetAll
<1>5. ASSUME NEW i \in Inst, Runner(i) \/ Message(i) \/ GameExits(i) PROVE KeepaliveStays
  <2>1. UNCHANGED <<spawnAt, nextQueue, main>>
    BY <1>5 DEF Runner, Message, createPipes, StartProcess, StartProcessFails, WriteFiles,
         EnterRunner, recoverSave, isInstanceInLobby, HandleShutdown, HandleRunnerStop,
         PidCheckFailed, RunnerExits, RunnerHangs, HandleLobbyId, HandleStart, HandleLobbyError,
         HandleJoin,
         GameExits
  <2> QED
    BY <2>1
<1>6. CASE BootDone \/ Restart
  BY <1>6 DEF BootDone, Restart, Up
<1>7. CASE cleanInstances \/ Signal \/ UNCHANGED vars \/ (Main /\ ~BootDone /\ ~Exit)
  <2>1. UNCHANGED <<spawnAt, nextQueue>>
    BY <1>7 DEF Main, RecoverSkips, RecoverArchives, recoverRunner, StopBegins, StopSends,
         StopSent, StopWaits, StopDone, Signal, cleanInstances, vars
  <2>2. disallowInstanceCreation => disallowInstanceCreation'
    BY <1>7 DEF Main, RecoverSkips, RecoverArchives, recoverRunner, RecoverNext, StopBegins,
         StopSends, StopSent, StopWaits, StopDone, Signal, cleanInstances, vars
  <2> QED
    BY <2>1, <2>2
<1> HIDE DEF TypeOK, KeepaliveStays, disallowInstanceCreation
<1> QED
  BY <1>1, <1>2, <1>3, <1>4, <1>5, <1>6, <1>7 DEF Next

LEMMA KeepNext ==
  ASSUME IInv, HeardInv, QueueInv, KeepInv, [Next]_vars
  PROVE  KeepInv'
<1>0. /\ TypeOK /\ SpawnInv /\ FreshInv /\ RunnerInv /\ BootInv
      /\ spawnAt \in [Spawners -> SpawnPcs] /\ QueueName \in [Inst -> Nat]
  BY DEF IInv, BaseInv, TypeOK
<1>1. CASE Spawn(Keepalive)
  <2>1. CASE allocateNewInstance(Keepalive)
    <3>1. /\ spawnAt[Keepalive] = "alloc" /\ ~disallowInstanceCreation
          /\ UNCHANGED nextQueue
      BY <2>1 DEF allocateNewInstance
    <3>2. QueueName' = QueueName /\ \A i \in Inst : Room(i)' => Room(i)
      BY <1>0, <2>1, NoNewRoom, ConstantFacts DEF allocateNewInstance, StartRunner
    <3> QED
      BY <3>1, <3>2 DEF KeepInv
  <2>2. CASE generateInstance(Keepalive)
    <3>1. spawnAt[Keepalive] = "generate" /\ UNCHANGED nextQueue
      BY <2>2 DEF generateInstance
    <3>2. QueueName' = QueueName /\ \A i \in Inst : Room(i)' => Room(i)
      BY <2>2 DEF generateInstance, Room, Known, Orphan, Alive, Loadable
    <3> QED
      BY <3>1, <3>2 DEF KeepInv
  <2>3. CASE AllocationFails(Keepalive) \/ releaseInstance(Keepalive) \/ StartRunner(Keepalive)
    <3>1. spawnAt'[Keepalive] = "check"
      BY <1>0, <2>3, ConstantFacts DEF AllocationFails, releaseInstance, StartRunner, Proceed
    <3> QED
      BY <3>1 DEF KeepInv
  <2> QED
    BY <1>1, <2>1, <2>2, <2>3 DEF Spawn
<1>2. CASE CheckQueue
  <2>1. CASE spawnAt' = [spawnAt EXCEPT ![Keepalive] = "alloc"]
    <3>1. /\ ~isQueueInLobby(nextQueue)
          /\ Routines /\ instancesLockFree /\ UNCHANGED <<nextQueue, main>>
      <4>1. ~isQueueInLobby(nextQueue) /\ UNCHANGED nextQueue
        BY <1>0, <1>2, <2>1, ConstantFacts DEF CheckQueue
      <4>2. instancesLockFree /\ UNCHANGED main /\ Routines
        BY <1>0, <1>2, ConstantFacts DEF CheckQueue, SpawnInv
      <4> QED
        BY <4>1, <4>2
    <3>2. CASE disallowInstanceCreation
      BY <1>0, <2>1, <3>1, <3>2, ConstantFacts DEF KeepInv, disallowInstanceCreation
    <3>3. CASE ~disallowInstanceCreation
      <4>1. \A i \in Inst : Room(i) => QueueName[i] # nextQueue
        BY <3>1, <3>3, NoRoomMissed
      <4>2. UNCHANGED <<QueueName, nextQueue>> /\ \A i \in Inst : Room(i)' => Room(i)
        BY <1>2, <3>1 DEF CheckQueue, Room, Known, Orphan, Alive, Loadable
      <4> QED
        BY <4>1, <4>2 DEF KeepInv
    <3> QED
      BY <3>2, <3>3
  <2>2. CASE spawnAt' # [spawnAt EXCEPT ![Keepalive] = "alloc"]
    <3>1. spawnAt'[Keepalive] \in {"check", "idle"}
      BY <1>0, <1>2, <2>2, ConstantFacts DEF CheckQueue
    <3> QED
      BY <3>1 DEF KeepInv
  <2> QED
    BY <2>1, <2>2
<1>3. CASE ~Spawn(Keepalive) /\ ~CheckQueue
  <2>1. KeepaliveStays
    BY <1>0, <1>3, OthersLeaveKeepalive
  <2>2. CASE \E s \in Spawners : StartRunner(s)
    <3>1. PICK s \in Spawners \ {Keepalive} : StartRunner(s)
      BY <1>3, <2>2 DEF Spawn
    <3>2. /\ QueueName' = [QueueName EXCEPT ![spawnInst[s]] = 0]
          /\ \A i \in Inst \ {spawnInst[s]} : Room(i)' => Room(i)
      BY <1>0, <3>1, StartRunnerRooms
    <3>3. \A i \in Inst : Room(i)' => Room(i) /\ QueueName'[i] = QueueName[i]
      <4>1. ASSUME NEW i \in Inst, Room(i)' PROVE i # spawnInst[s]
        BY <1>0, <3>2, <4>1 DEF Room
      <4> QED
        BY <1>0, <3>2, <4>1
    <3> QED
      BY <2>1, <3>3 DEF KeepInv, KeepaliveStays
  <2>3. CASE ~\E s \in Spawners : StartRunner(s)
    <3>1. QueueName' = QueueName /\ \A i \in Inst : Room(i)' => Room(i)
      BY <1>0, <2>3, NoNewRoom
    <3> QED
      BY <2>1, <3>1 DEF KeepInv, KeepaliveStays
  <2> QED
    BY <2>2, <2>3
<1> QED
  BY <1>1, <1>2, <1>3

(* However often the backend crashes and restarts, and whatever else       *)
(* fails, the keepalive never has two open rooms for one queue, if a       *)
(* shutdown leaves the games running (populateLobby, allocateNewInstance,  *)
(* recoverRunner).                                                         *)
THEOREM OneRoomForEachQueue ==
  ASSUME "cmdline" \notin Faults, "reopen" \notin Faults, TRUE \notin ShutdownHostsOnExit
  PROVE  Spec => []OneRoomPerQueue
<1> DEFINE QInv == HeardInv /\ QueueInv /\ KeepInv /\ RoomInv
<1>1. Init => QInv
  BY DEF Init, HeardInv, QueueInv, KeepInv, RoomInv, Room, Creating, NoFile,
       instanceStateInitial, instanceStateInGame, instanceStateExiting
<1>2. IInv /\ QInv /\ [Next]_vars => QInv'
  <2> SUFFICES ASSUME IInv, QInv, [Next]_vars PROVE QInv'
    OBVIOUS
  <2>1. TypeOK /\ SpawnInv /\ FreshInv /\ RunnerInv /\ BootInv /\ DiskInv
    BY DEF IInv, BaseInv
  <2> QED
    BY <2>1, HeardNext, QueueNext, KeepNext, RoomNext
<1>3. QInv => OneRoomPerQueue
  BY DEF RoomInv, Room, OneRoomPerQueue, OpenRoom
<1> QED
  BY <1>1, <1>2, <1>3, IInvInvariant, PTL DEF Spec

=============================================================================
