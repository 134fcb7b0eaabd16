-------------------------------- MODULE Hoster --------------------------------
(***************************************************************************)
(* The runner of one instance from the inside (hoster.go, pipes.go,        *)
(* messageProcessor.go, the parts of gamesubmit.go and recoverinstance.go  *)
(* it calls): the game writes lines into two pipes, a scanner per pipe     *)
(* sends them into a bounded channel, the message loop handles them        *)
(* together with the orders it gets, and a pid checker watches the game.   *)
(* The backend may be stopped or killed and started again while the game   *)
(* runs on.  Module Manager has the registry and the other instances.      *)
(***************************************************************************)
EXTENDS Naturals, Sequences, FiniteSets, Functions

CONSTANTS
  MaxLines,            \* bound: how many lines the game writes
  MaxBoots,            \* bound: how often the backend is started
  Says,                \* the kinds of lines the game writes, a subset of Kinds
  PipeCap,             \* how many lines a pipe holds before the game blocks
  MsgCap,              \* the capacity of msgchan (64 in the code)
  CmdCap,              \* the capacity of the commands channel (32 in the code)
  ShutdownHostsOnExit, \* the "shutdownHostsOnExit" setting
  Faults,              \* the calls that may fail, a subset of FaultPoints
  Crashes              \* may the backend be killed?

Kinds       == {"lobbyid", "start", "report", "debug", "lobbyerror", "log"}
FaultPoints == {"begin", "commit", "save"}

ASSUME HosterAssumption ==
  /\ MaxLines \in Nat /\ {MaxBoots, PipeCap, MsgCap, CmdCap} \subseteq Nat \ {0}
  /\ Says \subseteq Kinds /\ Faults \subseteq FaultPoints
  /\ {ShutdownHostsOnExit, Crashes} \subseteq BOOLEAN

Streams == {"stdout", "stderr"}

(* The game reports its events on stderr and everything else on stdout.    *)
StreamOf(kind) == IF kind = "log" THEN "stdout" ELSE "stderr"

(* instanceState of instance.go.                                           *)
instanceStateInitial == 0
instanceStateInLobby == 2
instanceStateInGame  == 3
instanceStateExiting == 4
instanceStateExited  == 5
States == 0..5

(* What instance.json keeps of an instance; NoFile: there is none;         *)
(* TornFile: it is empty or cut short.                                     *)
Records  == [StateSaved : States, GameId : Nat, DebugTriggered : BOOLEAN]
NoFile   == [StateSaved |-> 6, GameId |-> 0, DebugTriggered |-> FALSE]
TornFile == [StateSaved |-> 7, GameId |-> 0, DebugTriggered |-> FALSE]

VARIABLES
  said,           \* the kinds of the lines the game wrote, in order
  alive,          \* does the game run?
  told,           \* was "shutdown now" written to the game?
  pipe,           \* per stream, the lines (their numbers) in the named pipe
  buf,            \* per stream, the lines its scanner read and did not send
  scanner,        \* per stream, the goroutine: "reading" or "done"
  msgchan,        \* the channel from the scanners to the message loop
  commands,       \* the channel of orders
  pidcheck,       \* the pid checker: "watching", "closed" or "gone"
  runner,         \* where the goroutine of instanceRunner is
  state,          \* the atomic state of the instance
  GameId,         \* the row of the game in the database, 0 before it is known
  DebugTriggered, \* the field of that name
  pidCheckFailed, shutdownOrdered,   \* the locals of instanceRunner
  saved,          \* instance.json on the disk
  archived,       \* was the configuration directory archived?
  rows, serial,   \* the committed rows of table games, the sequence of its ids
  main,           \* the backend: "serving", "stopping" or "down"
  boots, crashes, \* how often the backend was started and was killed
  seen            \* the lines a message loop took

gameVars  == <<said, alive>>
readVars  == <<buf, scanner>>
instVars  == <<state, GameId, DebugTriggered>>
endVars   == <<pidCheckFailed, shutdownOrdered>>
dbVars    == <<rows, serial>>
mainVars  == <<main, boots, crashes>>
vars == <<gameVars, told, pipe, readVars, msgchan, commands, pidcheck, runner, instVars,
          endVars, saved, archived, dbVars, mainVars, seen>>

RunnerPcs == {"none", "save", "loop", "selfsend", "leaving", "waiting", "archiving", "exited"}
Up == main # "down"

-----------------------------------------------------------------------------
(* The game.                                                               *)

Has(kind) == \E k \in DOMAIN said : said[k] = kind

(* A game lists its room, or is dropped from the lobby, before it starts,  *)
(* and reports after it started.  It blocks on a full pipe.                *)
Say(kind) ==
  /\ alive /\ Len(said) < MaxLines
  /\ kind \in {"lobbyid", "start", "lobbyerror"} => ~Has("start")
  /\ kind = "report" => Has("start")
  /\ Len(pipe[StreamOf(kind)]) < PipeCap
  /\ said' = Append(said, kind)
  /\ pipe' = [pipe EXCEPT ![StreamOf(kind)] = Append(@, Len(said) + 1)]
  /\ UNCHANGED <<alive, told, readVars, msgchan, commands, pidcheck, runner, instVars, endVars,
                 saved, archived, dbVars, mainVars, seen>>

(* By itself, in a crash, or because it was told to.                       *)
GameExits ==
  /\ alive
  /\ alive' = FALSE
  /\ UNCHANGED <<said, told, pipe, readVars, msgchan, commands, pidcheck, runner, instVars,
                 endVars, saved, archived, dbVars, mainVars, seen>>

-----------------------------------------------------------------------------
(* The goroutines instanceRunner starts.                                   *)

(* A read of a pipe takes all it holds.  Once closePipes closed the file   *)
(* there is nothing more to read and the scanner returns.                  *)
PipesClosed == runner \in {"waiting", "archiving", "exited"}

ScannerReads(s) ==
  /\ runner # "none" /\ scanner[s] = "reading" /\ ~PipesClosed
  /\ buf[s] = <<>> /\ pipe[s] # <<>>
  /\ buf' = [buf EXCEPT ![s] = pipe[s]]
  /\ pipe' = [pipe EXCEPT ![s] = <<>>]
  /\ UNCHANGED <<gameVars, told, scanner, msgchan, commands, pidcheck, runner, instVars, endVars,
                 saved, archived, dbVars, mainVars, seen>>

(* Mutant: the send does not wait for room in the channel.                 *)
ScannerDrops(s) ==
  /\ runner # "none" /\ scanner[s] = "reading"
  /\ buf[s] # <<>>
  /\ msgchan' = IF Len(msgchan) < MsgCap THEN Append(msgchan, Head(buf[s])) ELSE msgchan
  /\ buf' = [buf EXCEPT ![s] = Tail(@)]
  /\ UNCHANGED <<gameVars, told, pipe, scanner, commands, pidcheck, runner, instVars, endVars,
                 saved, archived, dbVars, mainVars, seen>>

(* msgchan <- s.Text() blocks while the channel is full.                   *)
ScannerSends(s) ==
  /\ runner # "none" /\ scanner[s] = "reading"
  /\ buf[s] # <<>> /\ Len(msgchan) < MsgCap
  /\ msgchan' = Append(msgchan, Head(buf[s]))
  /\ buf' = [buf EXCEPT ![s] = Tail(@)]
  /\ UNCHANGED <<gameVars, told, pipe, scanner, commands, pidcheck, runner, instVars, endVars,
                 saved, archived, dbVars, mainVars, seen>>

ScannerReturns(s) ==
  /\ runner # "none" /\ scanner[s] = "reading" /\ PipesClosed
  /\ buf[s] = <<>>
  /\ scanner' = [scanner EXCEPT ![s] = "done"]
  /\ UNCHANGED <<gameVars, told, pipe, buf, msgchan, commands, pidcheck, runner, instVars,
                 endVars, saved, archived, dbVars, mainVars, seen>>

(* Mutant: exitchan is not closed.                                         *)
ExitchanOpen == FALSE

ExitchanClosed == PipesClosed

(* Once a second: the game is gone, or the runner is.                      *)
PidChecker ==
  /\ runner # "none" /\ pidcheck = "watching"
  /\ \/ ~alive /\ pidcheck' = "closed"
     \/ alive /\ ExitchanClosed /\ pidcheck' = "gone"
  /\ UNCHANGED <<gameVars, told, pipe, readVars, msgchan, commands, runner, instVars, endVars,
                 saved, archived, dbVars, mainVars, seen>>

-----------------------------------------------------------------------------
(* The message loop.                                                       *)

(* recoverSave: os.WriteFile truncates the file and writes it anew.  If it *)
(* cannot open the file the old one stays, if it cannot write the file is  *)
(* torn; an error is only logged.  A kill inside the write is in ForgetAll. *)
recoverSave ==
  /\ Up /\ runner = "save"
  /\ runner' = "loop"
  /\ \/ saved' = [StateSaved |-> state, GameId |-> GameId, DebugTriggered |-> DebugTriggered]
     \/ "save" \in Faults /\ saved' \in {saved, TornFile}
  /\ UNCHANGED <<gameVars, told, pipe, readVars, msgchan, commands, pidcheck, instVars, endVars,
                 archived, dbVars, mainVars, seen>>

(* The select picks a line, of the given kind, from msgchan.               *)
Handles(kind) ==
  /\ Up /\ runner = "loop"
  /\ msgchan # <<>> /\ said[Head(msgchan)] = kind
  /\ msgchan' = Tail(msgchan)
  /\ seen' = seen \union {Head(msgchan)}
  /\ UNCHANGED <<gameVars, told, pipe, readVars, commands, pidcheck, endVars, saved, archived,
                 mainVars>>

(* "WZEVENT: lobbyid: "                                                    *)
HandleLobbyId ==
  /\ Handles("lobbyid")
  /\ state' = instanceStateInLobby
  /\ runner' = "save"
  /\ UNCHANGED <<GameId, DebugTriggered, dbVars>>

(* Mutant: the state is stored, not compared and swapped.                  *)
StartStores ==
  /\ Handles("start")
  /\ state' = instanceStateInGame
  /\ runner' = "save"
  /\ UNCHANGED <<GameId, DebugTriggered, dbVars>>

(* "WZEVENT: startMultiplayerGame": a compare and swap, saved in any case. *)
HandleStart ==
  /\ Handles("start")
  /\ state' = IF state = instanceStateInLobby THEN instanceStateInGame ELSE state
  /\ runner' = "save"
  /\ UNCHANGED <<GameId, DebugTriggered, dbVars>>

(* submitBegin: a row with the next id of the sequence.  It returns 0 when *)
(* the insert of the row fails, but the id when a later statement fails    *)
(* and the row is rolled back.                                             *)
submitBegin ==
  \/ GameId' = serial + 1 /\ serial' = serial + 1 /\ rows' = rows \union {serial + 1}
  \/ "commit" \in Faults /\ GameId' = serial + 1 /\ serial' = serial + 1 /\ UNCHANGED rows
  \/ "begin" \in Faults /\ UNCHANGED <<GameId, dbVars>>

(* Mutant: the new GameId is not saved.                                    *)
ReportUnsaved ==
  /\ Handles("report")
  /\ IF state = instanceStateInGame /\ GameId = 0
       THEN submitBegin
       ELSE UNCHANGED <<GameId, dbVars>>
  /\ UNCHANGED <<runner, state, DebugTriggered>>

(* "__REPORT__": dropped outside a game; the first one begins the game in  *)
(* the database, the others add frames to its row (not modelled).          *)
HandleReport ==
  /\ Handles("report")
  /\ IF state = instanceStateInGame /\ GameId = 0
       THEN submitBegin /\ runner' = "save"
       ELSE UNCHANGED <<GameId, dbVars, runner>>
  /\ UNCHANGED <<state, DebugTriggered>>

(* "__DEBUGMODE__": the test of the state only logs.                       *)
HandleDebug ==
  /\ Handles("debug")
  /\ DebugTriggered' = TRUE
  /\ UNCHANGED <<runner, state, GameId, dbVars>>

(* A line without a handler that changes the instance.                     *)
HandleLog ==
  /\ Handles("log")
  /\ UNCHANGED <<runner, instVars, dbVars>>

(* "WZEVENT: lobbyerror": the loop sends an order to itself, and blocks if *)
(* its own channel is full.                                                *)
HandleLobbyError ==
  /\ Handles("lobbyerror")
  /\ runner' = "selfsend"
  /\ UNCHANGED <<instVars, dbVars>>

CommandRoom == Len(commands) < CmdCap

SelfSend ==
  /\ Up /\ runner = "selfsend" /\ CommandRoom
  /\ commands' = Append(commands, "shutdown")
  /\ runner' = "loop"
  /\ UNCHANGED <<gameVars, told, pipe, readVars, msgchan, pidcheck, instVars, endVars, saved,
                 archived, dbVars, mainVars, seen>>

(* The select picks an order.                                              *)
Takes(order) ==
  /\ Up /\ runner = "loop"
  /\ commands # <<>> /\ Head(commands) = order
  /\ commands' = Tail(commands)
  /\ state' = instanceStateExiting
  /\ UNCHANGED <<gameVars, pipe, readVars, msgchan, pidcheck, GameId, DebugTriggered,
                 pidCheckFailed, archived, dbVars, mainVars, seen>>

(* icShutdown                                                              *)
HandleShutdown ==
  /\ Takes("shutdown")
  /\ told' = TRUE
  /\ shutdownOrdered' = TRUE
  /\ runner' = "save"
  /\ UNCHANGED saved

(* Mutant: the state is saved when the runner stops.                       *)
StopSaves ==
  /\ Takes("stop")
  /\ runner' = "leaving"
  /\ saved' = [StateSaved |-> state', GameId |-> GameId, DebugTriggered |-> DebugTriggered]
  /\ UNCHANGED <<told, shutdownOrdered>>

(* icRunnerStop                                                            *)
HandleRunnerStop ==
  /\ Takes("stop")
  /\ runner' = "leaving"
  /\ UNCHANGED <<told, shutdownOrdered, saved>>

(* Mutant: only the select is left, not the loop.                          *)
BreaksSelect ==
  /\ Up /\ runner = "loop" /\ pidcheck = "closed"
  /\ pidCheckFailed' = TRUE
  /\ UNCHANGED <<gameVars, told, pipe, readVars, msgchan, commands, pidcheck, runner, instVars,
                 shutdownOrdered, saved, archived, dbVars, mainVars, seen>>

(* The select picks the closed pidcheckchan.                               *)
HandlePidCheck ==
  /\ Up /\ runner = "loop" /\ pidcheck = "closed"
  /\ pidCheckFailed' = TRUE
  /\ runner' = "leaving"
  /\ UNCHANGED <<gameVars, told, pipe, readVars, msgchan, commands, pidcheck, instVars,
                 shutdownOrdered, saved, archived, dbVars, mainVars, seen>>

-----------------------------------------------------------------------------
(* The end of instanceRunner.                                              *)

(* close(exitchan), closePipes; from here on nobody reads msgchan.         *)
closePipes ==
  /\ Up /\ runner = "leaving"
  /\ runner' = "waiting"
  /\ UNCHANGED <<gameVars, told, pipe, readVars, msgchan, commands, pidcheck, instVars, endVars,
                 saved, archived, dbVars, mainVars, seen>>

(* wg.Wait(): the scanners and the pid checker have returned.              *)
SubroutinesDone ==
  /\ Up /\ runner = "waiting"
  /\ \A s \in Streams : scanner[s] = "done"
  /\ pidcheck \in {"closed", "gone"}
  /\ IF pidCheckFailed \/ shutdownOrdered
       THEN runner' = "archiving" /\ UNCHANGED state
       ELSE runner' = "exited" /\ state' = instanceStateExited
  /\ UNCHANGED <<gameVars, told, pipe, readVars, msgchan, commands, pidcheck, GameId,
                 DebugTriggered, endVars, saved, archived, dbVars, mainVars, seen>>

(* drainRemovePipe empties the pipes first.                                *)
archiveInstance ==
  /\ Up /\ runner = "archiving"
  /\ runner' = "exited"
  /\ state' = instanceStateExited
  /\ archived' = TRUE /\ saved' = NoFile
  /\ pipe' = [s \in Streams |-> <<>>]
  /\ UNCHANGED <<gameVars, told, readVars, msgchan, commands, pidcheck, GameId,
                 DebugTriggered, endVars, dbVars, mainVars, seen>>

-----------------------------------------------------------------------------
(* The backend around the runner.                                          *)

(* stopAllRunners sends its order, which blocks while the channel is full. *)
stopAllRunners ==
  /\ main = "serving" /\ runner \notin {"none", "exited"} /\ CommandRoom
  /\ main' = "stopping"
  /\ commands' = Append(commands, IF ShutdownHostsOnExit THEN "shutdown" ELSE "stop")
  /\ UNCHANGED <<gameVars, told, pipe, readVars, msgchan, pidcheck, runner, instVars, endVars,
                 saved, archived, dbVars, boots, crashes, seen>>

(* What is only in memory is lost; the game keeps its ends of the pipes.   *)
(* A recoverSave that is cut short leaves the file whole or torn.          *)
ForgetAll ==
  /\ saved' = saved \/ (runner = "save" /\ saved' = TornFile)
  /\ main' = "down" /\ runner' = "none"
  /\ buf' = [s \in Streams |-> <<>>]
  /\ scanner' = [s \in Streams |-> "reading"]
  /\ msgchan' = <<>> /\ commands' = <<>>
  /\ pidcheck' = "watching"
  /\ state' = instanceStateInitial /\ GameId' = 0 /\ DebugTriggered' = FALSE
  /\ pidCheckFailed' = FALSE /\ shutdownOrdered' = FALSE
  /\ UNCHANGED <<gameVars, told, pipe, archived, dbVars, boots, seen>>

Exit ==
  /\ main = "stopping" /\ runner = "exited"
  /\ ForgetAll
  /\ UNCHANGED crashes

Crash ==
  /\ Crashes /\ Up
  /\ ForgetAll
  /\ crashes' = crashes + 1

(* recoverLoad can read instance.json.                                     *)
Loadable == saved \notin {NoFile, TornFile}

(* Mutant: a missing instance.json is not noticed.                         *)
RecoverBlindly ==
  /\ main = "down" /\ boots < MaxBoots
  /\ main' = "serving" /\ boots' = boots + 1
  /\ alive
  /\ runner' = "save"
  /\ state' = saved.StateSaved
  /\ GameId' = saved.GameId
  /\ DebugTriggered' = saved.DebugTriggered
  /\ UNCHANGED <<gameVars, told, pipe, readVars, msgchan, commands, pidcheck, endVars, saved,
                 archived, dbVars, crashes, seen>>

(* recoverRunner of a game that runs: recoverLoad, and a runner again.     *)
recoverRunner ==
  /\ main = "down" /\ boots < MaxBoots
  /\ main' = "serving" /\ boots' = boots + 1
  /\ Loadable /\ alive
  /\ runner' = "save"
  /\ state' = saved.StateSaved
  /\ GameId' = saved.GameId
  /\ DebugTriggered' = saved.DebugTriggered
  /\ UNCHANGED <<gameVars, told, pipe, readVars, msgchan, commands, pidcheck, endVars, saved,
                 archived, dbVars, crashes, seen>>

(* A game that is gone is archived; without an instance.json that can be   *)
(* read nothing is done.                                                   *)
RecoverNothing ==
  /\ main = "down" /\ boots < MaxBoots
  /\ main' = "serving" /\ boots' = boots + 1
  /\ \/ ~Loadable /\ UNCHANGED <<saved, archived, pipe>>
     \/ /\ Loadable /\ ~alive
        /\ saved' = NoFile /\ archived' = TRUE /\ pipe' = [s \in Streams |-> <<>>]
  /\ UNCHANGED <<gameVars, told, readVars, msgchan, commands, pidcheck, runner, instVars,
                 endVars, dbVars, crashes, seen>>

-----------------------------------------------------------------------------
(* spawnRunner has started the game and enters instanceRunner.             *)
Init ==
  /\ said = <<>> /\ alive = TRUE /\ told = FALSE
  /\ pipe = [s \in Streams |-> <<>>] /\ buf = [s \in Streams |-> <<>>]
  /\ scanner = [s \in Streams |-> "reading"]
  /\ msgchan = <<>> /\ commands = <<>>
  /\ pidcheck = "watching" /\ runner = "save"
  /\ state = instanceStateInitial /\ GameId = 0 /\ DebugTriggered = FALSE
  /\ pidCheckFailed = FALSE /\ shutdownOrdered = FALSE
  /\ saved = NoFile /\ archived = FALSE
  /\ rows = {} /\ serial = 0
  /\ main = "serving" /\ boots = 1 /\ crashes = 0
  /\ seen = {}

Message ==
  \/ HandleLobbyId \/ HandleStart \/ HandleReport
  \/ HandleDebug \/ HandleLog \/ HandleLobbyError

Runner ==
  \/ recoverSave \/ Message \/ SelfSend
  \/ HandleShutdown \/ HandleRunnerStop \/ HandlePidCheck
  \/ closePipes \/ SubroutinesDone \/ archiveInstance

Scanner(s) == ScannerReads(s) \/ ScannerSends(s) \/ ScannerReturns(s)

Next ==
  \/ \E kind \in Says : Say(kind)
  \/ GameExits
  \/ \E s \in Streams : Scanner(s)
  \/ PidChecker \/ Runner
  \/ stopAllRunners \/ Exit \/ Crash \/ recoverRunner \/ RecoverNothing

Spec == Init /\ [][Next]_vars

(* Every goroutine of the backend that can take a step takes one; the      *)
(* select of the loop does not pass over an order or the pid check for     *)
(* ever.  A game that was told to exit does.                               *)
Fairness ==
  /\ \A s \in Streams : WF_vars(Scanner(s))
  /\ WF_vars(PidChecker) /\ WF_vars(Runner)
  /\ SF_vars(HandleShutdown) /\ SF_vars(HandleRunnerStop) /\ SF_vars(HandlePidCheck)
  /\ WF_vars(told /\ GameExits) /\ WF_vars(Exit)

FairSpec == Spec /\ Fairness

-----------------------------------------------------------------------------
(* Properties.                                                             *)

(* Every variable has its type.                                            *)
TypeOK ==
  /\ said \in Seq(Kinds) /\ Len(said) <= MaxLines
  /\ alive \in BOOLEAN /\ told \in BOOLEAN /\ archived \in BOOLEAN
  /\ pipe \in [Streams -> Seq(1..MaxLines)] /\ buf \in [Streams -> Seq(1..MaxLines)]
  /\ scanner \in [Streams -> {"reading", "done"}]
  /\ msgchan \in Seq(1..MaxLines) /\ Len(msgchan) <= MsgCap
  /\ commands \in Seq({"shutdown", "stop"}) /\ Len(commands) <= CmdCap
  /\ pidcheck \in {"watching", "closed", "gone"}
  /\ runner \in RunnerPcs
  /\ state \in States /\ GameId \in Nat /\ DebugTriggered \in BOOLEAN
  /\ pidCheckFailed \in BOOLEAN /\ shutdownOrdered \in BOOLEAN
  /\ saved \in Records \union {NoFile, TornFile}
  /\ serial \in Nat /\ rows \subseteq 1..serial
  /\ main \in {"serving", "stopping", "down"}
  /\ boots \in 1..MaxBoots /\ crashes \in Nat
  /\ seen \subseteq 1..MaxLines

(* What a reader of the lines would say of the room.                       *)
Seen(kind) == \E k \in seen : said[k] = kind

RoomState ==
  IF ~Seen("lobbyid") THEN instanceStateInitial
  ELSE IF Seen("start") THEN instanceStateInGame ELSE instanceStateInLobby

(* If the backend is never killed, the state is what the lines handled so  *)
(* far say of the room, also after restarts (the handlers of lobbyid and   *)
(* startMultiplayerGame, recoverSave, recoverLoad), until the game is told *)
(* to shut down.                                                           *)
StateFollowsGame == crashes = 0 /\ runner = "loop" /\ ~told => state = RoomState

(* A game gets at most one row in the database, and at most one more for   *)
(* every time the backend is killed: a new GameId is saved before the next *)
(* line is handled (submitReport), and a recovered runner has it.          *)
RowsPerCrash == Cardinality(rows) <= 1 + crashes

(* The file says "exiting" only of a game that was told to shut down: the  *)
(* stop of the runner alone is not remembered, so that a restart finds the *)
(* game as it was (icRunnerStop stores the state but does not save it).    *)
SavedExitingWasTold == saved.StateSaved = instanceStateExiting => told

(* The lines reach the loop as LineFeed says.  The lines of a stream on    *)
(* their way: in the channel, in its scanner, in its pipe; once the files  *)
(* are closed only the pipe counts.                                        *)
Lines(s) == {k \in DOMAIN said : StreamOf(said[k]) = s}

InFlight == [s \in Streams |->
  IF PipesClosed THEN Range(pipe[s])
  ELSE (Range(msgchan) \intersect Lines(s)) \union Range(buf[s]) \union Range(pipe[s])]

Newest(S) == IF S = {} THEN 0 ELSE CHOOSE k \in S : \A j \in S : j <= k

Delivered == [s \in Streams |-> Newest(seen \intersect Lines(s))]

Feed == INSTANCE LineFeed WITH
  last <- Len(said), inflight <- InFlight, delivered <- Delivered,
  running <- runner \in {"save", "loop", "selfsend"}

ImplementsLineFeed == Feed!Spec

(* The two ways a runner hangs for ever: it waits to send an order to      *)
(* itself, or for a scanner that has more lines than msgchan can take.     *)
Backlog == Len(msgchan) + Len(buf["stdout"]) + Len(buf["stderr"])

Stuck == runner = "selfsend" /\ ~CommandRoom
Hung  == runner = "waiting" /\ Backlog > MsgCap

(* A stopped backend ends, unless its runner hangs in one of these ways    *)
(* (stopAllRunners waits for the runner).                                  *)
StopCompletes == (main = "stopping") ~> (main = "down" \/ Stuck \/ Hung)

(* The runner of a game that is gone ends, with the same exceptions (the   *)
(* pid checker and the end of instanceRunner).                             *)
DeadGameEnds == ~alive ~> (runner \in {"none", "exited"} \/ Stuck \/ Hung)

(* It always ends (hoster.go: "Pid check failed, closing off instance      *)
(* runtime").                                                              *)
FailedCheckEnds == pidCheckFailed ~> (runner \in {"none", "exited"})
=============================================================================
