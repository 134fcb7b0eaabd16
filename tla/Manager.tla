------------------------------- MODULE Manager -------------------------------
(***************************************************************************)
(* The instance registry of the backend (manager.go) and every goroutine   *)
(* that works on it: the lobby keepalive and the HTTP room requests that   *)
(* create instances, the runner goroutine of each instance, the cleaner,   *)
(* the main goroutine that recovers instances at boot and stops them at    *)
(* shutdown, and the crash and restart of the backend itself.              *)
(*                                                                         *)
(* A game is a separate process in a session of its own, so it outlives    *)
(* the backend.  What survives a restart is the game process and its       *)
(* configuration directory with the files "instance.json" and "cmdline".   *)
(*                                                                         *)
(* A runner is seen from the registry only; module Hoster has its inside.  *)
(* An instance is known by its Id, the Nth Id handed out being N           *)
(* (newInstanceID returns strictly increasing values).                     *)
(***************************************************************************)
EXTENDS Naturals, Sequences, FiniteSets

CONSTANTS
  MaxInst,             \* bound: how many Ids newInstanceID hands out
  MaxBoots,            \* bound: how often the backend is started
  PortList,            \* the "ports" setting, parsed and without duplicates
  NumQueues,           \* the queues of the configuration are 1..NumQueues
  MaxRunning,          \* the "spawnCutoutRunningRooms" setting
  Requests,            \* goroutines serving POST /request
  Keepalive,           \* the goroutine of routineLobbyKeepalive
  ShutdownHostsOnExit, \* what "shutdownHostsOnExit" reads while runners are stopped
  Faults,              \* the calls that may fail, a subset of FaultPoints
  Crashes,             \* may the backend be killed?
  Relists,             \* may a game list its room again after a lobby error?
  MovedOutKnown        \* has a moderator moved a player to the spectators?

FaultPoints == {"generate", "pipes", "start", "cmdline", "save", "archive", "reopen"}

ASSUME ManagerAssumption ==
  /\ MaxInst \in Nat /\ MaxBoots \in Nat \ {0} /\ NumQueues \in Nat /\ MaxRunning \in Nat
  /\ PortList \in Seq(Nat \ {0})
  /\ Keepalive \notin Requests
  /\ ShutdownHostsOnExit \in (SUBSET BOOLEAN) \ {{}}
  /\ {Crashes, Relists, MovedOutKnown} \subseteq BOOLEAN
  /\ Faults \subseteq FaultPoints

Inst     == 1..MaxInst
Spawners == Requests \union {Keepalive}
Ports    == {PortList[k] : k \in DOMAIN PortList}

(* instanceState of instance.go, compared with <= by the code. *)
instanceStateInitial  == 0
instanceStateStarting == 1
instanceStateInLobby  == 2
instanceStateInGame   == 3
instanceStateExiting  == 4
instanceStateExited   == 5
States == 0..5
NoFile   == 6               \* saved[i] while there is no instance.json
TornFile == 7               \* saved[i] while the file is empty or cut short

VARIABLES
  instances,   \* the slice of manager.go, as a set of Ids
  lastId,      \* the Id newInstanceID returned last
  GamePort,    \* Settings.GamePort, 0 before it is set; the port a game binds
  QueueName,   \* the queue an instance belongs to, 0 is ""
  state,       \* the atomic state of an instance
  commands,    \* the buffered channel of an instance
  ordered,     \* the local shutdownOrdered of an instance's runner
  runner,      \* where the goroutine of spawnRunner and instanceRunner is
  proc,        \* the game process
  heard,       \* what the game last told its runner about its room
  saved,       \* StateSaved in instance.json on the disk
  cmdline,     \* is the file "cmdline" on the disk?
  confdir,     \* the configuration directory on the disk
  spawnAt,     \* where a goroutine that creates instances is
  spawnInst,   \* the instance it is creating, 0 if none
  nextQueue,   \* the queue populateLobby looks at next
  main,        \* where the main goroutine is
  pending,     \* what its current loop has still to visit
  boots        \* how often the backend was started

registryVars == <<instances, lastId, GamePort, QueueName>>
runnerVars   == <<state, commands, ordered, runner>>
gameVars     == <<proc, heard>>
diskVars     == <<saved, cmdline, confdir>>
spawnVars    == <<spawnAt, spawnInst, nextQueue>>
mainVars     == <<main, pending, boots>>
vars == <<registryVars, runnerVars, gameVars, diskVars, spawnVars, mainVars>>

RunnerPcs == {"none", "pipes", "start", "files", "enter", "save", "loop",
              "locking", "deadexit", "stopexit", "hung", "failed", "exited"}
SpawnPcs  == {"idle", "check", "alloc", "generate", "spawn", "release"}
MainPcs   == {"boot", "serving", "disallowed", "sending", "waiting", "closing",
              "exited", "killed"}

Alive(i) == proc[i] = "alive"

(* recoverLoad can read instance.json.                                     *)
Loadable(i) == saved[i] \in States

(* Do the lobby keepalive and the web server run?  They are started after  *)
(* the recovery and are only waited for once the runners were stopped.     *)
Routines == main \in {"serving", "disallowed", "sending", "waiting", "closing"}
Up       == main \notin {"exited", "killed"}

(* Mutant: the flag is forgotten.                                          *)
NeverDisallowed == FALSE

disallowInstanceCreation == main \in {"disallowed", "sending", "waiting", "closing"}

(* Only stopAllRunners keeps instancesLock over more than one step.        *)
instancesLockFree == main \notin {"sending", "waiting"}

-----------------------------------------------------------------------------
(* Creating instances: lobby.go, http.go, manager.go, geninstance.go.      *)

(* One round of routineLobbyKeepalive.  What the lobby server says only    *)
(* decides whether the round goes on; runningRooms is counted under the    *)
(* lock.                                                                   *)
populateLobby ==
  /\ Routines /\ instancesLockFree
  /\ spawnAt[Keepalive] = "idle"
  /\ Cardinality({i \in instances : state[i] = instanceStateInGame}) < MaxRunning
  /\ spawnAt' = [spawnAt EXCEPT ![Keepalive] = "check"]
  /\ nextQueue' = 1
  /\ UNCHANGED <<registryVars, runnerVars, gameVars, diskVars, spawnInst, mainVars>>

(* Mutant: only rooms that are listed count, not those being started.      *)
isQueueListed(q) ==
  \E i \in instances : QueueName[i] = q /\ state[i] = instanceStateInLobby

isQueueInLobby(q) ==
  \E i \in instances : QueueName[i] = q /\ state[i] <= instanceStateInLobby

(* The loop of populateLobby over the sorted queues.                       *)
CheckQueue ==
  /\ Up /\ instancesLockFree
  /\ spawnAt[Keepalive] = "check"
  /\ \/ /\ nextQueue > NumQueues
        /\ spawnAt' = [spawnAt EXCEPT ![Keepalive] = "idle"]
        /\ UNCHANGED nextQueue
     \/ /\ nextQueue <= NumQueues
        /\ isQueueInLobby(nextQueue)
        /\ nextQueue' = nextQueue + 1
        /\ UNCHANGED spawnAt
     \/ /\ nextQueue <= NumQueues
        /\ ~isQueueInLobby(nextQueue)
        /\ spawnAt' = [spawnAt EXCEPT ![Keepalive] = "alloc"]
        /\ UNCHANGED nextQueue
  /\ UNCHANGED <<registryVars, runnerVars, gameVars, diskVars, spawnInst, mainVars>>

(* A POST /request arrives and its handler calls generateInstance.         *)
webHandleRequestRoom(r) ==
  /\ Routines
  /\ spawnAt[r] = "idle"
  /\ spawnAt' = [spawnAt EXCEPT ![r] = "alloc"]
  /\ UNCHANGED <<registryVars, runnerVars, gameVars, diskVars, spawnInst, nextQueue, mainVars>>

(* A creating goroutine is done with one instance.                         *)
Proceed(s) ==
  /\ spawnAt' = [spawnAt EXCEPT ![s] = IF s = Keepalive THEN "check" ELSE "idle"]
  /\ spawnInst' = [spawnInst EXCEPT ![s] = 0]
  /\ nextQueue' = IF s = Keepalive THEN nextQueue + 1 ELSE nextQueue

(* Mutant: the port of a room whose game has started counts as free.       *)
PortUnlisted(p) ==
  \A i \in instances : state[i] <= instanceStateInLobby => GamePort[i] # p

PortFree(p) == \A i \in instances : GamePort[i] # p

(* allocateNewInstance, all of it under instancesLock: the first port that *)
(* no instance has, a fresh Id, and the new instance is in the registry.   *)
allocateNewInstance(s) ==
  /\ Up /\ instancesLockFree
  /\ spawnAt[s] = "alloc"
  /\ ~disallowInstanceCreation
  /\ lastId < MaxInst
  /\ \E k \in DOMAIN PortList :
       /\ PortFree(PortList[k])
       /\ \A j \in 1..(k - 1) : ~PortFree(PortList[j])
       /\ lastId' = lastId + 1
       /\ GamePort' = [GamePort EXCEPT ![lastId + 1] = PortList[k]]
       /\ instances' = instances \union {lastId + 1}
       /\ spawnInst' = [spawnInst EXCEPT ![s] = lastId + 1]
       /\ spawnAt' = [spawnAt EXCEPT ![s] = "generate"]
  /\ UNCHANGED <<QueueName, runnerVars, gameVars, diskVars, nextQueue, mainVars>>

(* errCreationDisallowed or errNoFreePort: no instance to release.         *)
AllocationFails(s) ==
  /\ Up /\ instancesLockFree
  /\ spawnAt[s] = "alloc"
  /\ disallowInstanceCreation \/ (\A p \in Ports : ~PortFree(p))
  /\ Proceed(s)
  /\ UNCHANGED <<registryVars, runnerVars, gameVars, diskVars, mainVars>>

(* The rest of generateInstance writes the configuration directory.  The   *)
(* directories come first and stay behind if a later part fails.           *)
generateInstance(s) ==
  /\ Up
  /\ spawnAt[s] = "generate"
  /\ confdir' = [confdir EXCEPT ![spawnInst[s]] = "present"]
  /\ \/ spawnAt' = [spawnAt EXCEPT ![s] = "spawn"]
     \/ /\ "generate" \in Faults
        /\ spawnAt' = [spawnAt EXCEPT ![s] = "release"]
  /\ UNCHANGED <<registryVars, runnerVars, gameVars, saved, cmdline, spawnInst, nextQueue,
                 mainVars>>

(* Mutant: the instance stays in the registry.                             *)
ReleaseNothing(s) ==
  /\ Up /\ instancesLockFree
  /\ spawnAt[s] = "release"
  /\ Proceed(s)
  /\ UNCHANGED <<registryVars, runnerVars, gameVars, diskVars, mainVars>>

releaseInstance(s) ==
  /\ Up /\ instancesLockFree
  /\ spawnAt[s] = "release"
  /\ instances' = instances \ {spawnInst[s]}
  /\ Proceed(s)
  /\ UNCHANGED <<lastId, GamePort, QueueName, runnerVars, gameVars, diskVars, mainVars>>

(* gi.QueueName = ...; go spawnRunner(gi)                                  *)
StartRunner(s) ==
  /\ Up
  /\ spawnAt[s] = "spawn"
  /\ QueueName' = [QueueName EXCEPT ![spawnInst[s]] = IF s = Keepalive THEN nextQueue ELSE 0]
  /\ runner' = [runner EXCEPT ![spawnInst[s]] = "pipes"]
  /\ Proceed(s)
  /\ UNCHANGED <<instances, lastId, GamePort, state, commands, ordered, gameVars, diskVars,
                 mainVars>>

-----------------------------------------------------------------------------
(* The goroutine of one instance: spawnRunner, then instanceRunner.        *)

RunnerMoves(i, from, to) ==
  /\ Up
  /\ runner[i] = from
  /\ runner' = [runner EXCEPT ![i] = to]

(* createPipes makes the fifos; if it fails the goroutine just returns.    *)
createPipes(i) ==
  /\ \/ RunnerMoves(i, "pipes", "start")
     \/ "pipes" \in Faults /\ RunnerMoves(i, "pipes", "failed")
  /\ UNCHANGED <<registryVars, state, commands, ordered, gameVars, diskVars, spawnVars, mainVars>>

StartProcess(i) ==
  /\ RunnerMoves(i, "start", "files")
  /\ proc' = [proc EXCEPT ![i] = "alive"]
  /\ UNCHANGED <<registryVars, state, commands, ordered, heard, diskVars, spawnVars, mainVars>>

StartProcessFails(i) ==
  /\ "start" \in Faults
  /\ RunnerMoves(i, "start", "failed")
  /\ UNCHANGED <<registryVars, state, commands, ordered, gameVars, diskVars, spawnVars, mainVars>>

(* The files "cmdline" and "pid"; an error is only logged.                 *)
WriteFiles(i) ==
  /\ RunnerMoves(i, "files", "enter")
  /\ \/ cmdline' = [cmdline EXCEPT ![i] = TRUE]
     \/ "cmdline" \in Faults /\ UNCHANGED cmdline
  /\ UNCHANGED <<registryVars, state, commands, ordered, gameVars, saved, confdir, spawnVars,
                 mainVars>>

(* Mutant: the instance is saved only when a message changes it.           *)
EnterUnsaved(i) ==
  /\ RunnerMoves(i, "enter", "loop")
  /\ UNCHANGED <<registryVars, state, commands, ordered, gameVars, diskVars, spawnVars, mainVars>>

(* instanceRunner begins: wg.Add(1), and the first recoverSave follows.    *)
EnterRunner(i) ==
  /\ RunnerMoves(i, "enter", "save")
  /\ UNCHANGED <<registryVars, state, commands, ordered, gameVars, diskVars, spawnVars, mainVars>>

(* Mutant: wg.Done is not called.                                          *)
NeverDone(i) ==
  runner[i] \in {"save", "loop", "locking", "deadexit", "stopexit", "hung", "exited"}

(* The wait group of an instance counts its runner between Add and Done.   *)
InWaitGroup(i) == runner[i] \in {"save", "loop", "locking", "deadexit", "stopexit", "hung"}

(* recoverSave: os.WriteFile truncates instance.json and writes it anew.   *)
(* If it cannot open the file the old one stays, if it cannot write the    *)
(* file is torn; an error is only logged.  The end of the backend inside   *)
(* the write is in ForgetAll.                                              *)
recoverSave(i) ==
  /\ RunnerMoves(i, "save", "loop")
  /\ \/ saved' = [saved EXCEPT ![i] = state[i]]
     \/ "save" \in Faults /\ saved' \in {saved, [saved EXCEPT ![i] = TornFile]}
  /\ UNCHANGED <<registryVars, state, commands, ordered, gameVars, cmdline, confdir, spawnVars,
                 mainVars>>

(* "WZEVENT: lobbyid: ".  A game lists its room before it starts or is     *)
(* dropped by the lobby server, and afterwards only if Relists.            *)
HandleLobbyId(i) ==
  /\ heard[i] = "room" \/ Relists
  /\ RunnerMoves(i, "loop", "save")
  /\ state' = [state EXCEPT ![i] = instanceStateInLobby]
  /\ UNCHANGED <<registryVars, commands, ordered, gameVars, diskVars, spawnVars, mainVars>>

(* "WZEVENT: startMultiplayerGame": a compare and swap, then recoverSave   *)
(* whether or not it swapped.                                              *)
HandleStart(i) ==
  /\ RunnerMoves(i, "loop", "save")
  /\ heard' = [heard EXCEPT ![i] = "started"]
  /\ state' = [state EXCEPT ![i] =
                 IF @ = instanceStateInLobby THEN instanceStateInGame ELSE @]
  /\ UNCHANGED <<registryVars, commands, ordered, proc, diskVars, spawnVars, mainVars>>

(* "WZEVENT: lobbyerror": the runner sends itself a shutdown order.        *)
(* Bound: one such order per runner.                                       *)
HandleLobbyError(i) ==
  /\ ~ordered[i] /\ commands[i] = <<>>
  /\ Up /\ runner[i] = "loop"
  /\ heard' = [heard EXCEPT ![i] = "dropped"]
  /\ commands' = [commands EXCEPT ![i] = Append(@, "shutdown")]
  /\ UNCHANGED <<registryVars, state, ordered, runner, proc, diskVars, spawnVars, mainVars>>

(* The join and the moved-player messages look up, under instancesLock,    *)
(* whether the instances of moved players are in the lobby.                *)
HandleJoin(i) ==
  /\ MovedOutKnown
  /\ RunnerMoves(i, "loop", "locking")
  /\ UNCHANGED <<registryVars, state, commands, ordered, gameVars, diskVars, spawnVars, mainVars>>

isInstanceInLobby(i) ==
  /\ instancesLockFree
  /\ RunnerMoves(i, "locking", "loop")
  /\ UNCHANGED <<registryVars, state, commands, ordered, gameVars, diskVars, spawnVars, mainVars>>

(* icShutdown: "shutdown now" is written to the game, state and file       *)
(* follow, and the runner goes on until the game is gone.                  *)
HandleShutdown(i) ==
  /\ commands[i] # <<>> /\ Head(commands[i]) = "shutdown"
  /\ RunnerMoves(i, "loop", "save")
  /\ commands' = [commands EXCEPT ![i] = Tail(@)]
  /\ ordered' = [ordered EXCEPT ![i] = TRUE]
  /\ state' = [state EXCEPT ![i] = instanceStateExiting]
  /\ UNCHANGED <<registryVars, gameVars, diskVars, spawnVars, mainVars>>

(* icRunnerStop: the runner leaves the loop and leaves the game alone.     *)
HandleRunnerStop(i) ==
  /\ commands[i] # <<>> /\ Head(commands[i]) = "stop"
  /\ RunnerMoves(i, "loop", "stopexit")
  /\ commands' = [commands EXCEPT ![i] = Tail(@)]
  /\ state' = [state EXCEPT ![i] = instanceStateExiting]
  /\ UNCHANGED <<registryVars, ordered, gameVars, diskVars, spawnVars, mainVars>>

(* The pid checker found the process gone.                                 *)
PidCheckFailed(i) ==
  /\ ~Alive(i)
  /\ RunnerMoves(i, "loop", "deadexit")
  /\ UNCHANGED <<registryVars, state, commands, ordered, gameVars, diskVars, spawnVars, mainVars>>

(* archiveInstance copies the directory to the archive and removes it; if  *)
(* it fails the directory stays as it is.                                  *)
archiveInstance(i) ==
  \/ /\ confdir' = [confdir EXCEPT ![i] = "archived"]
     /\ saved' = [saved EXCEPT ![i] = NoFile]
     /\ cmdline' = [cmdline EXCEPT ![i] = FALSE]
  \/ "archive" \in Faults /\ UNCHANGED diskVars

(* Mutant: every runner archives at its end.                               *)
AlwaysArchives(i) ==
  /\ RunnerMoves(i, "deadexit", "exited") \/ RunnerMoves(i, "stopexit", "exited")
  /\ archiveInstance(i)
  /\ state' = [state EXCEPT ![i] = instanceStateExited]
  /\ UNCHANGED <<registryVars, commands, ordered, gameVars, spawnVars, mainVars>>

(* The end of instanceRunner: archive unless the runner was only stopped.  *)
RunnerExits(i) ==
  /\ \/ /\ RunnerMoves(i, "deadexit", "exited")
        /\ archiveInstance(i)
     \/ /\ RunnerMoves(i, "stopexit", "exited")
        /\ IF ordered[i] THEN archiveInstance(i) ELSE UNCHANGED diskVars
  /\ state' = [state EXCEPT ![i] = instanceStateExited]
  /\ UNCHANGED <<registryVars, commands, ordered, gameVars, spawnVars, mainVars>>

(* The wait for the scanners of the pipes, before it archives, need not    *)
(* end: a scanner that waits for room in the channel of messages waits for *)
(* ever, as nobody reads it any more.  Module Hoster has the detail.       *)
RunnerHangs(i) ==
  /\ RunnerMoves(i, "deadexit", "hung") \/ RunnerMoves(i, "stopexit", "hung")
  /\ UNCHANGED <<registryVars, state, commands, ordered, gameVars, diskVars, spawnVars, mainVars>>

(* The game ends by itself, because it was told to, or in a crash.         *)
GameExits(i) ==
  /\ Alive(i)
  /\ proc' = [proc EXCEPT ![i] = "dead"]
  /\ UNCHANGED <<registryVars, runnerVars, heard, diskVars, spawnVars, mainVars>>

-----------------------------------------------------------------------------
(* The cleaner.                                                            *)

(* Mutant: a runner that is on its way out counts as gone.                 *)
ExitingIsGone(i) == state[i] >= instanceStateExiting

(* Mutant: the state is compared with the wrong constant.                  *)
ExitedMistaken(i) == state[i] > instanceStateExited

IsExited(i) == state[i] = instanceStateExited

cleanInstances ==
  /\ Routines /\ instancesLockFree
  /\ instances' = {i \in instances : ~IsExited(i)}
  /\ UNCHANGED <<lastId, GamePort, QueueName, runnerVars, gameVars, diskVars, spawnVars, mainVars>>

-----------------------------------------------------------------------------
(* The main goroutine: recovery.                                           *)

(* Reading /proc/<pid>/cmdline and the recorded file: it fails for a       *)
(* process that is gone and for a directory without the file.              *)
isPidCmdlineAccurate(i) == Alive(i) /\ cmdline[i]
isPidAlive(i) == Alive(i)

(* os.ReadDir sorts by name, so the directories are visited by Id.         *)
RecoverNext(i) ==
  /\ main = "boot"
  /\ i \in pending /\ \A j \in pending : i <= j
  /\ pending' = pending \ {i}

(* No instance.json that can be read, or the port is taken, or the pipes   *)
(* do not open and the instance is released again: the directory is left   *)
(* alone.                                                                  *)
RecoverSkips(i) ==
  /\ RecoverNext(i)
  /\ \/ ~Loadable(i)
     \/ /\ isPidCmdlineAccurate(i) /\ isPidAlive(i)
        /\ "reopen" \in Faults \/ ~PortFree(GamePort[i])
  /\ UNCHANGED <<registryVars, runnerVars, gameVars, diskVars, spawnVars, main, boots>>

(* The game is gone: its directory is archived.                            *)
RecoverArchives(i) ==
  /\ RecoverNext(i)
  /\ Loadable(i)
  /\ ~isPidCmdlineAccurate(i) \/ ~isPidAlive(i)
  /\ archiveInstance(i)
  /\ UNCHANGED <<registryVars, runnerVars, gameVars, spawnVars, main, boots>>

(* Mutant: the error of recoverLoad is ignored.                            *)
RecoverUnloaded(i) ==
  /\ RecoverNext(i)
  /\ isPidCmdlineAccurate(i) /\ isPidAlive(i)
  /\ PortFree(GamePort[i])
  /\ instances' = instances \union {i}
  /\ state' = [state EXCEPT ![i] = saved[i]]
  /\ runner' = [runner EXCEPT ![i] = "enter"]
  /\ UNCHANGED <<lastId, GamePort, QueueName, commands, ordered, gameVars, diskVars, spawnVars,
                 main, boots>>

(* The game runs: the instance is registered and gets a runner again.      *)
recoverRunner(i) ==
  /\ RecoverNext(i)
  /\ Loadable(i)
  /\ isPidCmdlineAccurate(i) /\ isPidAlive(i)
  /\ PortFree(GamePort[i])
  /\ instances' = instances \union {i}
  /\ state' = [state EXCEPT ![i] = saved[i]]
  /\ runner' = [runner EXCEPT ![i] = "enter"]
  /\ UNCHANGED <<lastId, GamePort, QueueName, commands, ordered, gameVars, diskVars, spawnVars,
                 main, boots>>

(* The routines are started and main waits for a signal.                   *)
BootDone ==
  /\ main = "boot" /\ pending = {}
  /\ main' = "serving"
  /\ UNCHANGED <<registryVars, runnerVars, gameVars, diskVars, spawnVars, pending, boots>>

-----------------------------------------------------------------------------
(* The main goroutine: shutdown.                                           *)

Signal ==
  /\ main = "serving"
  /\ main' = "disallowed"
  /\ UNCHANGED <<registryVars, runnerVars, gameVars, diskVars, spawnVars, pending, boots>>

(* stopAllRunners takes instancesLock and keeps it until it returns.       *)
StopBegins ==
  /\ main = "disallowed"
  /\ main' = "sending"
  /\ pending' = instances
  /\ UNCHANGED <<registryVars, runnerVars, gameVars, diskVars, spawnVars, boots>>

(* The setting is read for each instance, and a reload may change it.  At  *)
(* most two orders are ever in a channel of 32: the send never blocks.     *)
StopSends(i) ==
  /\ main = "sending" /\ i \in pending
  /\ \E shutdown \in ShutdownHostsOnExit :
       commands' = [commands EXCEPT ![i] = Append(@, IF shutdown THEN "shutdown" ELSE "stop")]
  /\ pending' = pending \ {i}
  /\ UNCHANGED <<registryVars, state, ordered, runner, gameVars, diskVars, spawnVars, main, boots>>

StopSent ==
  /\ main = "sending" /\ pending = {}
  /\ main' = "waiting"
  /\ pending' = instances
  /\ UNCHANGED <<registryVars, runnerVars, gameVars, diskVars, spawnVars, boots>>

(* v.wg.Wait()                                                             *)
StopWaits(i) ==
  /\ main = "waiting" /\ i \in pending
  /\ ~InWaitGroup(i)
  /\ pending' = pending \ {i}
  /\ UNCHANGED <<registryVars, runnerVars, gameVars, diskVars, spawnVars, main, boots>>

StopDone ==
  /\ main = "waiting" /\ pending = {}
  /\ main' = "closing"
  /\ UNCHANGED <<registryVars, runnerVars, gameVars, diskVars, spawnVars, pending, boots>>

(* The end of the backend takes everything that is not on the disk.  A     *)
(* recoverSave it cuts short leaves the file whole or torn.                *)
ForgetAll ==
  /\ \E cut \in SUBSET {i \in Inst : runner[i] = "save"} :
       saved' = [i \in Inst |-> IF i \in cut THEN TornFile ELSE saved[i]]
  /\ instances' = {}
  /\ state' = [i \in Inst |-> instanceStateInitial]
  /\ commands' = [i \in Inst |-> <<>>]
  /\ ordered' = [i \in Inst |-> FALSE]
  /\ runner' = [i \in Inst |-> "none"]
  /\ spawnAt' = [s \in Spawners |-> "idle"]
  /\ spawnInst' = [s \in Spawners |-> 0]
  /\ nextQueue' = 1
  /\ pending' = {}
  /\ UNCHANGED <<lastId, GamePort, QueueName, gameVars, cmdline, confdir, boots>>

(* main waits for the keepalive to finish its round; nothing waits for a   *)
(* request that is being served.                                           *)
Exit ==
  /\ main = "closing"
  /\ spawnAt[Keepalive] = "idle"
  /\ main' = "exited"
  /\ ForgetAll

Crash ==
  /\ Crashes /\ Up
  /\ main' = "killed"
  /\ ForgetAll

Restart ==
  /\ ~Up /\ boots < MaxBoots
  /\ main' = "boot"
  /\ boots' = boots + 1
  /\ pending' = {i \in Inst : confdir[i] = "present"}
  /\ UNCHANGED <<registryVars, runnerVars, gameVars, diskVars, spawnVars>>

-----------------------------------------------------------------------------
Init ==
  /\ instances = {} /\ lastId = 0
  /\ GamePort = [i \in Inst |-> 0]
  /\ QueueName = [i \in Inst |-> 0]
  /\ state = [i \in Inst |-> instanceStateInitial]
  /\ commands = [i \in Inst |-> <<>>]
  /\ ordered = [i \in Inst |-> FALSE]
  /\ runner = [i \in Inst |-> "none"]
  /\ proc = [i \in Inst |-> "none"]
  /\ heard = [i \in Inst |-> "room"]
  /\ saved = [i \in Inst |-> NoFile]
  /\ cmdline = [i \in Inst |-> FALSE]
  /\ confdir = [i \in Inst |-> "none"]
  /\ spawnAt = [s \in Spawners |-> "idle"]
  /\ spawnInst = [s \in Spawners |-> 0]
  /\ nextQueue = 1
  /\ main = "boot" /\ pending = {} /\ boots = 1

Spawn(s) ==
  \/ allocateNewInstance(s) \/ AllocationFails(s) \/ generateInstance(s)
  \/ releaseInstance(s) \/ StartRunner(s)

Runner(i) ==
  \/ createPipes(i) \/ StartProcess(i) \/ StartProcessFails(i) \/ WriteFiles(i)
  \/ EnterRunner(i) \/ recoverSave(i) \/ isInstanceInLobby(i)
  \/ HandleShutdown(i) \/ HandleRunnerStop(i) \/ PidCheckFailed(i)
  \/ RunnerExits(i) \/ RunnerHangs(i)

Message(i) ==
  HandleLobbyId(i) \/ HandleStart(i) \/ HandleLobbyError(i) \/ HandleJoin(i)

Main ==
  \/ \E i \in Inst : RecoverSkips(i) \/ RecoverArchives(i) \/ recoverRunner(i)
  \/ BootDone
  \/ StopBegins \/ (\E i \in Inst : StopSends(i)) \/ StopSent
  \/ (\E i \in Inst : StopWaits(i)) \/ StopDone \/ Exit

Next ==
  \/ populateLobby \/ CheckQueue
  \/ \E r \in Requests : webHandleRequestRoom(r)
  \/ \E s \in Spawners : Spawn(s)
  \/ \E i \in Inst : Runner(i) \/ Message(i) \/ GameExits(i)
  \/ cleanInstances
  \/ Main \/ Signal \/ Crash \/ Restart

Spec == Init /\ [][Next]_vars

(* Every goroutine that can take a step takes one.  The runner waits in a  *)
(* select, which picks at random among what is ready: an order or a failed *)
(* pid check that stays ready is taken in the end (strong fairness), even  *)
(* when messages keep coming.  The same holds for the select of the        *)
(* keepalive that main waits for in Exit.  Nothing is assumed of games (one *)
(* that was told to exit may stay), signals, crashes, restarts, requests   *)
(* and messages.                                                           *)
Fairness ==
  /\ WF_vars(populateLobby) /\ WF_vars(CheckQueue) /\ WF_vars(cleanInstances)
  /\ \A s \in Spawners : WF_vars(Spawn(s))
  /\ WF_vars(Main) /\ SF_vars(Exit)
  /\ \A i \in Inst :
       /\ WF_vars(Runner(i))
       /\ SF_vars(HandleShutdown(i)) /\ SF_vars(HandleRunnerStop(i)) /\ SF_vars(PidCheckFailed(i))

FairSpec == Spec /\ Fairness

-----------------------------------------------------------------------------
(* Properties.                                                             *)

(* Every variable has its type.                                            *)
TypeOK ==
  /\ instances \subseteq Inst
  /\ lastId \in 0..MaxInst
  /\ GamePort \in [Inst -> Nat]
  /\ QueueName \in [Inst -> Nat]
  /\ state \in [Inst -> States]
  /\ commands \in [Inst -> Seq({"shutdown", "stop"})]
  /\ ordered \in [Inst -> BOOLEAN]
  /\ runner \in [Inst -> RunnerPcs]
  /\ proc \in [Inst -> {"none", "alive", "dead"}]
  /\ heard \in [Inst -> {"room", "started", "dropped"}]
  /\ saved \in [Inst -> States \union {NoFile, TornFile}]
  /\ cmdline \in [Inst -> BOOLEAN]
  /\ confdir \in [Inst -> {"none", "present", "archived"}]
  /\ spawnAt \in [Spawners -> SpawnPcs]
  /\ spawnInst \in [Spawners -> 0..MaxInst]
  /\ nextQueue \in Nat
  /\ main \in MainPcs
  /\ pending \subseteq Inst
  /\ boots \in 1..MaxBoots

(* No two instances of the registry have the same port (allocateNewInstance *)
(* and insertInstance).                                                    *)
RegistryPortsDistinct ==
  \A i, j \in instances : GamePort[i] = GamePort[j] => i = j

(* A game no restart can find: it runs without an instance.json that can   *)
(* be read.  Property OrphansOnlyUnsaved says how a game becomes one.      *)
Orphan(i) == Alive(i) /\ ~Loadable(i) /\ runner[i] = "none"

(* Two running games bind the same port only if one of them is an orphan,  *)
(* however often the backend crashes: the registry is never wrong about a  *)
(* port that a known game still holds (allocateNewInstance, cleanInstances, *)
(* recoverRunner).  Every fault is allowed but two: without its "cmdline"  *)
(* file, or with pipes that do not reopen, a running game is not managed   *)
(* after a restart.                                                        *)
LivePortsDistinct ==
  \A i, j \in Inst :
    /\ Alive(i) /\ ~Orphan(i)
    /\ Alive(j) /\ ~Orphan(j)
    /\ GamePort[i] = GamePort[j]
    => i = j

(* While the backend serves, every running game whose instance.json can be *)
(* read is in the registry: the recovery finds it, and the cleaner and a   *)
(* failed generateInstance only remove what does not run.  The same two    *)
(* faults are excluded.                                                    *)
SavedGameIsManaged ==
  main = "serving" => \A i \in Inst : Alive(i) /\ Loadable(i) => i \in instances

(* The keepalive never has two rooms for one queue, if a shutdown leaves   *)
(* the games running.  A room counts until its game says it started, was   *)
(* dropped, or was told to exit.                                           *)
OpenRoom(i) == i \in instances /\ state[i] < instanceStateExiting /\ heard[i] = "room"

OneRoomPerQueue ==
  \A i, j \in Inst :
    /\ OpenRoom(i) /\ OpenRoom(j)
    /\ QueueName[i] = QueueName[j] /\ QueueName[i] # 0
    => i = j

(* The directory of a running game is archived and removed only when its   *)
(* runner had told the game to shut down (instanceRunner, recoverRunner).  *)
LiveGameKeepsDirectory ==
  [][\A i \in Inst :
       confdir[i] # "archived" /\ confdir'[i] = "archived" /\ Alive(i) => ordered[i]]_vars

(* stopAllRunners waits for ever, with the lock: for a runner that hangs,  *)
(* or for a game that was told to exit and does not.                       *)
Blocked ==
  [](main = "waiting" /\ \E i \in pending : runner[i] = "hung" \/ (ordered[i] /\ Alive(i)))

(* A game that is gone leaves the registry in the end, so that its port    *)
(* and its queue can be used again (pid checker, cleaner), unless its own  *)
(* runner hangs or the shutdown is blocked.                                *)
DeadGameIsForgotten ==
  \A i \in Inst :
    (i \in instances /\ proc[i] = "dead") ~> (i \notin instances \/ runner[i] = "hung" \/ Blocked)

(* Once stopAllRunners returned, every instance of the registry was sent   *)
(* its order: none was created behind its back.                            *)
StopReachesAll ==
  main = "closing" =>
    \A i \in instances :
      commands[i] # <<>> \/ ordered[i] \/ runner[i] \in {"deadexit", "stopexit", "hung", "exited"}

(* After a signal the backend ends (main.go: "Shutdown complete, bye!"),   *)
(* unless it waits for a runner that hangs or a game that does not exit.   *)
ShutdownCompletes == (main = "disallowed") ~> (main = "exited" \/ Blocked)

(* No instance is left in the registry with nobody who works on it: it is  *)
(* being generated, or it has a runner.  One whose game could not be       *)
(* started has a runner that failed, and stays there for ever, with its    *)
(* port and its queue (spawnRunner; lobby.go: "Queue %q in lobby with      *)
(* instance id %v").                                                       *)
InstancesHaveOwners ==
  \A i \in instances : runner[i] # "none" \/ \E s \in Spawners : spawnInst[s] = i

(* How a game becomes an orphan, over every step: it was told to exit and  *)
(* its directory was archived before it did, or the backend ended (killed, *)
(* or because stopAllRunners does not wait for a runner that joins the     *)
(* wait group after it looked) before its runner's first recoverSave, or   *)
(* inside one that is rewriting the file (recoverinstance.go: os.WriteFile *)
(* truncates it).  No other end of the backend, and no boot, loses a game. *)
OrphansOnlyUnsaved ==
  [][\A i \in Inst :
       Orphan(i)' => \/ Orphan(i) \/ ordered[i]
                     \/ ~Up' /\ runner[i] \in {"files", "enter", "save"}]_vars
=============================================================================
