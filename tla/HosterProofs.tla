----------------------------- MODULE HosterProofs -----------------------------
(***************************************************************************)
(* Proofs about Hoster: type correctness, what the file of an instance     *)
(* says of its end, the number of rows a game gets in the database, that   *)
(* the way of a line from the game to its handler implements LineFeed, and *)
(* that the state of an instance is what its handled lines say.            *)
(***************************************************************************)
EXTENDS Hoster, FiniteSetTheorems, TLAPS

USE DEF gameVars, readVars, instVars, endVars, dbVars, mainVars, vars

LEMMA ConstantFacts ==
  /\ MaxLines \in Nat /\ MaxBoots \in Nat \ {0} /\ PipeCap \in Nat \ {0}
  /\ MsgCap \in Nat \ {0} /\ CmdCap \in Nat \ {0}
  /\ Says \subseteq Kinds
  /\ Streams = {"stdout", "stderr"}
  /\ \A kind : StreamOf(kind) \in Streams
BY HosterAssumption DEF HosterAssumption, Streams, StreamOf

LEMMA HeadTailFacts ==
  ASSUME NEW S, NEW q \in Seq(S), q # <<>>
  PROVE  Head(q) \in S /\ Tail(q) \in Seq(S) /\ Len(Tail(q)) = Len(q) - 1
OBVIOUS

-----------------------------------------------------------------------------
(* Type correctness.                                                       *)

LEMMA TypeInit == Init => TypeOK
<1> SUFFICES ASSUME Init PROVE TypeOK
  OBVIOUS
<1>1. said \in Seq(Kinds) /\ Len(said) <= MaxLines
  BY ConstantFacts DEF Init
<1>2. pipe \in [Streams -> Seq(1..MaxLines)] /\ buf \in [Streams -> Seq(1..MaxLines)]
  BY DEF Init
<1>3. /\ msgchan \in Seq(1..MaxLines) /\ Len(msgchan) <= MsgCap
      /\ commands \in Seq({"shutdown", "stop"}) /\ Len(commands) <= CmdCap
  BY ConstantFacts DEF Init
<1>4. /\ scanner \in [Streams -> {"reading", "done"}]
      /\ runner \in RunnerPcs /\ state \in States /\ boots \in 1..MaxBoots
  BY ConstantFacts DEF Init, RunnerPcs, States, instanceStateInitial
<1> QED BY <1>1, <1>2, <1>3, <1>4 DEF Init, TypeOK

LEMMA TypeGame ==
  ASSUME TypeOK, GameExits \/ \E kind \in Says : Say(kind)
  PROVE  TypeOK'
<1>1. CASE GameExits
  BY <1>1 DEF GameExits, TypeOK
<1>2. CASE \E kind \in Says : Say(kind)
  <2>1. PICK kind \in Says : Say(kind)
    BY <1>2
  <2>2. kind \in Kinds /\ StreamOf(kind) \in Streams
    BY ConstantFacts
  <2> HIDE DEF Streams
  <2>3. said' \in Seq(Kinds) /\ Len(said') <= MaxLines
    BY <2>1, <2>2, ConstantFacts DEF Say, TypeOK
  <2>4. Len(said) + 1 \in 1..MaxLines
    BY <2>1, ConstantFacts DEF Say, TypeOK
  <2>5. pipe' \in [Streams -> Seq(1..MaxLines)]
    BY <2>1, <2>2, <2>4 DEF Say, TypeOK
  <2> QED BY <2>1, <2>3, <2>5 DEF Say, TypeOK
<1> QED BY <1>1, <1>2

LEMMA TypeScanner ==
  ASSUME TypeOK, NEW s \in Streams, Scanner(s)
  PROVE  TypeOK'
<1>1. CASE ScannerReads(s)
  BY <1>1 DEF ScannerReads, TypeOK
<1>2. CASE ScannerSends(s)
  <2> HIDE DEF Streams
  <2>0. buf[s] \in Seq(1..MaxLines) /\ buf[s] # <<>>
    BY <1>2 DEF ScannerSends, TypeOK
  <2>1. Head(buf[s]) \in 1..MaxLines /\ Tail(buf[s]) \in Seq(1..MaxLines)
    BY <2>0, HeadTailFacts
  <2>2. msgchan' \in Seq(1..MaxLines) /\ Len(msgchan') <= MsgCap
    BY <1>2, <2>1, ConstantFacts DEF ScannerSends, TypeOK
  <2> QED BY <1>2, <2>1, <2>2 DEF ScannerSends, TypeOK
<1>3. CASE ScannerReturns(s)
  BY <1>3 DEF ScannerReturns, TypeOK
<1> QED BY <1>1, <1>2, <1>3 DEF Scanner

(* What taking a line from the channel does to the types.                  *)
LEMMA TypeHandles ==
  ASSUME TypeOK, NEW kind, Handles(kind)
  PROVE  /\ msgchan' \in Seq(1..MaxLines) /\ Len(msgchan') <= MsgCap
         /\ seen' \subseteq 1..MaxLines
<1>1. /\ msgchan \in Seq(1..MaxLines) /\ msgchan # <<>> /\ Len(msgchan) <= MsgCap
      /\ msgchan' = Tail(msgchan) /\ seen' = seen \union {Head(msgchan)}
      /\ seen \subseteq 1..MaxLines
  BY DEF Handles, TypeOK
<1>2. /\ Head(msgchan) \in 1..MaxLines
      /\ Tail(msgchan) \in Seq(1..MaxLines) /\ Len(Tail(msgchan)) = Len(msgchan) - 1
  BY <1>1, HeadTailFacts
<1>3. Len(msgchan) \in Nat /\ Len(Tail(msgchan)) <= MsgCap
  BY <1>1, <1>2, ConstantFacts
<1> QED BY <1>1, <1>2, <1>3

LEMMA TypeMessage == ASSUME TypeOK, Message PROVE TypeOK'
<1> USE DEF States, RunnerPcs, instanceStateInLobby, instanceStateInGame, instanceStateInitial
<1>1. CASE HandleLobbyId
  BY <1>1, TypeHandles DEF HandleLobbyId, Handles, TypeOK
<1>2. CASE HandleStart
  BY <1>2, TypeHandles DEF HandleStart, Handles, TypeOK
<1>3. CASE HandleReport
  <2>1. GameId' \in Nat /\ serial' \in Nat /\ rows' \subseteq 1..serial' /\ runner' \in RunnerPcs
    <3>1. CASE submitBegin /\ runner' = "save"
      <4>1. GameId' \in Nat /\ serial' \in Nat
        BY <3>1 DEF submitBegin, TypeOK
      <4>2. rows' \subseteq 1..serial'
        <5>1. serial \in Nat /\ rows \subseteq 1..serial
          BY DEF TypeOK
        <5>2. \/ serial' = serial + 1 /\ rows' = rows \union {serial + 1}
              \/ serial' = serial + 1 /\ rows' = rows
              \/ serial' = serial /\ rows' = rows
          BY <3>1 DEF submitBegin
        <5>3. ASSUME NEW n \in rows' PROVE n \in 1..serial'
          <6>1. n \in rows \/ (n = serial + 1 /\ serial' = serial + 1)
            BY <5>2, <5>3
          <6>2. serial' = serial \/ serial' = serial + 1
            BY <5>2
          <6>3. CASE n \in rows
            <7>1. n \in 1..serial
              BY <6>3, <5>1
            <7> QED BY <7>1, <5>1, <6>2
          <6>4. CASE n = serial + 1 /\ serial' = serial + 1
            BY <6>4, <5>1
          <6> QED BY <6>1, <6>3, <6>4
        <5> QED BY <5>3
      <4> QED BY <3>1, <4>1, <4>2
    <3>2. CASE UNCHANGED <<GameId, dbVars, runner>>
      BY <3>2 DEF TypeOK
    <3> QED BY <1>3, <3>1, <3>2 DEF HandleReport
  <2> QED BY <1>3, <2>1, TypeHandles DEF HandleReport, Handles, TypeOK
<1>4. CASE HandleDebug
  BY <1>4, TypeHandles DEF HandleDebug, Handles, TypeOK
<1>5. CASE HandleLog
  BY <1>5, TypeHandles DEF HandleLog, Handles, TypeOK
<1>6. CASE HandleLobbyError
  BY <1>6, TypeHandles DEF HandleLobbyError, Handles, TypeOK
<1> QED BY <1>1, <1>2, <1>3, <1>4, <1>5, <1>6 DEF Message

LEMMA TypeTakes ==
  ASSUME TypeOK, NEW order, Takes(order)
  PROVE  /\ commands' \in Seq({"shutdown", "stop"}) /\ Len(commands') <= CmdCap
         /\ state' \in States
<1>1. /\ Tail(commands) \in Seq({"shutdown", "stop"}) /\ Len(Tail(commands)) = Len(commands) - 1
  BY DEF Takes, TypeOK
<1> QED BY <1>1, ConstantFacts DEF Takes, TypeOK, States, instanceStateExiting

LEMMA TypeRunner == ASSUME TypeOK, Runner PROVE TypeOK'
<1> USE DEF States, RunnerPcs
<1>1. CASE recoverSave
  <2>1. saved' \in Records \union {NoFile, TornFile}
    <3>1. [StateSaved |-> state, GameId |-> GameId, DebugTriggered |-> DebugTriggered] \in Records
      BY DEF TypeOK, Records
    <3>2. \/ saved' \in Records
          \/ saved' \in {saved, TornFile}
      BY <1>1, <3>1 DEF recoverSave
    <3>3. saved \in Records \union {NoFile, TornFile}
      BY DEF TypeOK
    <3> QED BY <3>2, <3>3
  <2> QED BY <1>1, <2>1 DEF recoverSave, TypeOK
<1>2. CASE Message
  BY <1>2, TypeMessage
<1>3. CASE SelfSend
  <2>1. commands' \in Seq({"shutdown", "stop"}) /\ Len(commands') <= CmdCap
    BY <1>3, ConstantFacts DEF SelfSend, CommandRoom, TypeOK
  <2> QED BY <1>3, <2>1 DEF SelfSend, TypeOK
<1>4. CASE HandleShutdown
  BY <1>4, TypeTakes DEF HandleShutdown, Takes, TypeOK
<1>5. CASE HandleRunnerStop
  BY <1>5, TypeTakes DEF HandleRunnerStop, Takes, TypeOK
<1>6. CASE HandlePidCheck
  BY <1>6 DEF HandlePidCheck, TypeOK
<1>7. CASE closePipes
  BY <1>7 DEF closePipes, TypeOK
<1>8. CASE SubroutinesDone
  BY <1>8 DEF SubroutinesDone, TypeOK, instanceStateExited
<1>9. CASE archiveInstance
  BY <1>9 DEF archiveInstance, TypeOK, instanceStateExited
<1> QED BY <1>1, <1>2, <1>3, <1>4, <1>5, <1>6, <1>7, <1>8, <1>9 DEF Runner

LEMMA TypeForget ==
  ASSUME TypeOK, ForgetAll, crashes' \in Nat
  PROVE  TypeOK'
<1>1. /\ buf' \in [Streams -> Seq(1..MaxLines)]
      /\ scanner' \in [Streams -> {"reading", "done"}]
  BY DEF ForgetAll
<1>2. /\ msgchan' \in Seq(1..MaxLines) /\ Len(msgchan') <= MsgCap
      /\ commands' \in Seq({"shutdown", "stop"}) /\ Len(commands') <= CmdCap
  BY ConstantFacts DEF ForgetAll
<1>3. /\ runner' \in RunnerPcs /\ state' \in States /\ GameId' \in Nat
      /\ pidcheck' \in {"watching", "closed", "gone"}
      /\ main' \in {"serving", "stopping", "down"}
  BY DEF ForgetAll, States, RunnerPcs, instanceStateInitial
<1>5. /\ DebugTriggered' \in BOOLEAN
      /\ pidCheckFailed' \in BOOLEAN /\ shutdownOrdered' \in BOOLEAN
  <2>1. DebugTriggered' = FALSE /\ pidCheckFailed' = FALSE /\ shutdownOrdered' = FALSE
    BY DEF ForgetAll
  <2> QED BY <2>1
<1>4. /\ said' = said /\ alive' = alive /\ told' = told /\ archived' = archived
      /\ pipe' = pipe /\ rows' = rows /\ serial' = serial
      /\ boots' = boots /\ seen' = seen
  BY DEF ForgetAll
<1>6. saved' \in Records \union {NoFile, TornFile}
  <2>1. saved' = saved \/ saved' = TornFile
    BY DEF ForgetAll
  <2>2. saved \in Records \union {NoFile, TornFile}
    BY DEF TypeOK
  <2> QED BY <2>1, <2>2
<1> QED BY <1>1, <1>2, <1>3, <1>4, <1>5, <1>6 DEF TypeOK

LEMMA TypeBackend ==
  ASSUME TypeOK, stopAllRunners \/ Exit \/ Crash \/ recoverRunner \/ RecoverNothing
  PROVE  TypeOK'
<1>1. CASE stopAllRunners
  <2>1. commands' \in Seq({"shutdown", "stop"}) /\ Len(commands') <= CmdCap
    BY <1>1, ConstantFacts DEF stopAllRunners, CommandRoom, TypeOK
  <2> QED BY <1>1, <2>1 DEF stopAllRunners, TypeOK
<1>2. CASE Exit
  BY <1>2, TypeForget DEF Exit, TypeOK
<1>3. CASE Crash
  BY <1>3, TypeForget DEF Crash, TypeOK
<1>4. CASE recoverRunner
  <2>1. saved \in Records
    BY <1>4 DEF recoverRunner, Loadable, TypeOK
  <2>2. boots' \in 1..MaxBoots /\ runner' \in RunnerPcs
    BY <1>4, ConstantFacts DEF recoverRunner, TypeOK, RunnerPcs
  <2>3. state' \in States /\ GameId' \in Nat /\ DebugTriggered' \in BOOLEAN
    BY <1>4, <2>1 DEF recoverRunner, Records
  <2> QED BY <1>4, <2>2, <2>3 DEF recoverRunner, TypeOK
<1>5. CASE RecoverNothing
  <2>1. pipe' \in [Streams -> Seq(1..MaxLines)]
    <3>1. pipe' = pipe \/ pipe' = [s \in Streams |-> <<>>]
      BY <1>5 DEF RecoverNothing
    <3>2. CASE pipe' = pipe
      BY <3>2 DEF TypeOK
    <3>3. CASE pipe' = [s \in Streams |-> <<>>]
      BY <3>3
    <3> QED BY <3>1, <3>2, <3>3
  <2>2. archived' \in BOOLEAN /\ saved' \in Records \union {NoFile, TornFile}
    <3>1. \/ saved' = saved /\ archived' = archived
          \/ saved' = NoFile /\ archived' = TRUE
      BY <1>5 DEF RecoverNothing
    <3>2. archived \in BOOLEAN /\ saved \in Records \union {NoFile, TornFile}
      BY DEF TypeOK
    <3>3. CASE saved' = saved /\ archived' = archived
      BY <3>2, <3>3
    <3>4. CASE saved' = NoFile /\ archived' = TRUE
      BY <3>4
    <3> QED BY <3>1, <3>3, <3>4
  <2>3. boots' \in 1..MaxBoots
    BY <1>5, ConstantFacts DEF RecoverNothing, TypeOK
  <2> QED BY <1>5, <2>1, <2>2, <2>3 DEF RecoverNothing, TypeOK
<1> QED BY <1>1, <1>2, <1>3, <1>4, <1>5

LEMMA TypeNext == TypeOK /\ [Next]_vars => TypeOK'
<1> SUFFICES ASSUME TypeOK, [Next]_vars PROVE TypeOK'
  OBVIOUS
<1>1. CASE PidChecker
  BY <1>1 DEF PidChecker, TypeOK
<1>2. CASE UNCHANGED vars
  BY <1>2 DEF TypeOK
<1> QED BY <1>1, <1>2, TypeGame, TypeScanner, TypeRunner, TypeBackend DEF Next

(* Every variable has its type, for every capacity of the channels and the *)
(* pipes and every combination of faults, crashes and restarts.            *)
THEOREM TypeCorrect == Spec => []TypeOK
BY TypeInit, TypeNext, PTL DEF Spec

-----------------------------------------------------------------------------
(* The file says "exiting" only of a game that was told to shut down.      *)
(* The state in memory says so for one step more, after a stop of the      *)
(* runner, but then the loop is left and the state is not saved any more.  *)

LoopRuns == runner \in {"save", "loop", "selfsend"}

ExitingInv ==
  /\ saved.StateSaved = instanceStateExiting => told
  /\ LoopRuns /\ state = instanceStateExiting => told

LEMMA ExitingInit == Init => ExitingInv
BY DEF Init, ExitingInv, NoFile, instanceStateExiting, instanceStateInitial

LEMMA ExitingNext == ExitingInv /\ [Next]_vars => ExitingInv'
<1> SUFFICES ASSUME ExitingInv, [Next]_vars PROVE ExitingInv'
  OBVIOUS
<1> USE DEF ExitingInv, LoopRuns, instanceStateExiting
<1>1. CASE \E kind \in Says : Say(kind)
  BY <1>1 DEF Say
<1>2. CASE GameExits \/ PidChecker \/ UNCHANGED vars
  BY <1>2 DEF GameExits, PidChecker
<1>3. CASE \E s \in Streams : Scanner(s)
  BY <1>3 DEF Scanner, ScannerReads, ScannerSends, ScannerReturns
<1>4. CASE recoverSave
  BY <1>4 DEF recoverSave, TornFile
<1>5. CASE Message
  <2>1. CASE HandleLobbyId \/ HandleStart
    BY <2>1 DEF HandleLobbyId, HandleStart, Handles, instanceStateInLobby, instanceStateInGame
  <2>2. CASE HandleReport
    BY <2>2 DEF HandleReport, submitBegin, Handles
  <2>3. CASE HandleDebug \/ HandleLog \/ HandleLobbyError
    BY <2>3 DEF HandleDebug, HandleLog, HandleLobbyError, Handles
  <2> QED BY <1>5, <2>1, <2>2, <2>3 DEF Message
<1>6. CASE SelfSend
  BY <1>6 DEF SelfSend
<1>7. CASE HandleShutdown
  BY <1>7 DEF HandleShutdown, Takes
<1>8. CASE HandleRunnerStop
  BY <1>8 DEF HandleRunnerStop, Takes
<1>9. CASE HandlePidCheck \/ closePipes \/ SubroutinesDone
  BY <1>9 DEF HandlePidCheck, closePipes, SubroutinesDone
<1>10. CASE archiveInstance
  BY <1>10 DEF archiveInstance, NoFile
<1>11. CASE stopAllRunners
  BY <1>11 DEF stopAllRunners
<1>12. CASE Exit \/ Crash
  <2>1. /\ saved' = saved \/ saved' = TornFile
        /\ told' = told /\ state' = instanceStateInitial /\ runner' = "none"
    BY <1>12 DEF Exit, Crash, ForgetAll
  <2> QED BY <2>1 DEF TornFile, instanceStateInitial
<1>13. CASE recoverRunner
  BY <1>13 DEF recoverRunner
<1>14. CASE RecoverNothing
  <2>1. saved' = saved \/ saved' = NoFile
    BY <1>14 DEF RecoverNothing
  <2>2. told' = told /\ state' = state /\ runner' = runner
    BY <1>14 DEF RecoverNothing
  <2> QED BY <2>1, <2>2 DEF NoFile
<1> QED BY <1>1, <1>2, <1>3, <1>4, <1>5, <1>6, <1>7, <1>8, <1>9, <1>10, <1>11, <1>12, <1>13,
           <1>14 DEF Next, Runner

(* Whatever fails, and however often the backend is stopped and killed.    *)
THEOREM SavedExitingGamesWereTold == Spec => []SavedExitingWasTold
<1>1. ExitingInv => SavedExitingWasTold
  BY DEF ExitingInv, SavedExitingWasTold
<1> QED BY <1>1, ExitingInit, ExitingNext, PTL DEF Spec

-----------------------------------------------------------------------------
(* The rows of a game.  A runner without a GameId may still begin a row,   *)
(* so there is one row less then; and once the loop is back, the file has  *)
(* the GameId of the runner, so that only a kill between the two leaves a  *)
(* recovered runner without it.                                            *)

RowInv ==
  /\ IsFiniteSet(rows)
  /\ Cardinality(rows) <= 1 + crashes
  /\ runner # "none" /\ GameId = 0 => Cardinality(rows) <= crashes
  /\ runner = "none" /\ Loadable /\ saved.GameId = 0 => Cardinality(rows) <= crashes
  /\ runner \notin {"none", "save"} /\ Loadable => saved.GameId = GameId
  /\ ~Up => runner = "none"

LEMMA RowInit == Init => RowInv
<1> SUFFICES ASSUME Init PROVE RowInv
  OBVIOUS
<1>1. IsFiniteSet(rows) /\ Cardinality(rows) = 0
  BY FS_EmptySet DEF Init
<1> QED BY <1>1 DEF Init, RowInv, Up

(* A new row is one more.                                                  *)
LEMMA RowAdded ==
  ASSUME TypeOK, IsFiniteSet(rows)
  PROVE  /\ IsFiniteSet(rows \union {serial + 1})
         /\ Cardinality(rows \union {serial + 1}) = Cardinality(rows) + 1
         /\ Cardinality(rows) \in Nat
<1>1. serial + 1 \notin rows
  BY DEF TypeOK
<1> QED BY <1>1, FS_AddElement, FS_CardinalityType

LEMMA RowNext ==
  "save" \notin Faults /\ TypeOK /\ RowInv /\ [Next]_vars => RowInv'
<1> SUFFICES ASSUME "save" \notin Faults, TypeOK, RowInv, [Next]_vars PROVE RowInv'
  OBVIOUS
<1>0. Cardinality(rows) \in Nat /\ crashes \in Nat /\ serial \in Nat
  BY FS_CardinalityType DEF RowInv, TypeOK
<1> USE DEF RowInv, Up, Loadable
<1>1. CASE \E kind \in Says : Say(kind)
  BY <1>1 DEF Say
<1>2. CASE GameExits \/ PidChecker \/ UNCHANGED vars
  BY <1>2 DEF GameExits, PidChecker
<1>3. CASE \E s \in Streams : Scanner(s)
  BY <1>3 DEF Scanner, ScannerReads, ScannerSends, ScannerReturns
<1>4. CASE recoverSave
  BY <1>4 DEF recoverSave
<1>5. CASE Message
  <2>1. CASE HandleLobbyId \/ HandleStart
    BY <2>1 DEF HandleLobbyId, HandleStart, Handles
  <2>2. CASE HandleReport
    <3>1. CASE state = instanceStateInGame /\ GameId = 0
      <4>1. submitBegin /\ runner' = "save" /\ main' = main /\ Up /\ crashes' = crashes
        BY <2>2, <3>1 DEF HandleReport, Handles
      <4>2. Cardinality(rows) <= crashes
        BY <2>2, <3>1 DEF HandleReport, Handles
      <4>3. CASE GameId' = serial + 1 /\ rows' = rows \union {serial + 1}
        <5>1. GameId' # 0
          BY <4>3, <1>0
        <5>2. IsFiniteSet(rows') /\ Cardinality(rows') <= 1 + crashes
          BY <4>2, <4>3, <1>0, RowAdded
        <5> QED BY <5>1, <5>2, <4>1
      <4>4. CASE UNCHANGED rows
        BY <4>1, <4>2, <4>4, <1>0
      <4> QED BY <4>1, <4>3, <4>4 DEF submitBegin
    <3>2. CASE ~(state = instanceStateInGame /\ GameId = 0)
      BY <2>2, <3>2 DEF HandleReport, Handles
    <3> QED BY <3>1, <3>2
  <2>3. CASE HandleDebug \/ HandleLog \/ HandleLobbyError
    BY <2>3 DEF HandleDebug, HandleLog, HandleLobbyError, Handles
  <2> QED BY <1>5, <2>1, <2>2, <2>3 DEF Message
<1>6. CASE SelfSend
  BY <1>6 DEF SelfSend
<1>7. CASE HandleShutdown \/ HandleRunnerStop
  BY <1>7 DEF HandleShutdown, HandleRunnerStop, Takes
<1>8. CASE HandlePidCheck \/ closePipes \/ SubroutinesDone
  BY <1>8 DEF HandlePidCheck, closePipes, SubroutinesDone
<1>9. CASE archiveInstance
  BY <1>9 DEF archiveInstance
<1>10. CASE stopAllRunners
  BY <1>10 DEF stopAllRunners
<1>11. CASE Exit
  BY <1>11 DEF Exit, ForgetAll
<1>12. CASE Crash
  BY <1>12, <1>0 DEF Crash, ForgetAll
<1>13. CASE recoverRunner
  BY <1>13 DEF recoverRunner
<1>14. CASE RecoverNothing
  BY <1>14 DEF RecoverNothing
<1> QED BY <1>1, <1>2, <1>3, <1>4, <1>5, <1>6, <1>7, <1>8, <1>9, <1>10, <1>11, <1>12, <1>13,
           <1>14 DEF Next, Runner

(* One row, and one more for every kill, if instance.json can be written.  *)
THEOREM RowsAreBounded == "save" \notin Faults => (Spec => []RowsPerCrash)
<1> SUFFICES ASSUME "save" \notin Faults PROVE Spec => []RowsPerCrash
  OBVIOUS
<1>1. RowInv => RowsPerCrash
  BY DEF RowInv, RowsPerCrash
<1>2. TypeOK /\ RowInv /\ [Next]_vars => RowInv'
  BY RowNext
<1> QED BY <1>1, <1>2, RowInit, TypeCorrect, PTL DEF Spec

-----------------------------------------------------------------------------
(* The path of a line.  The lines of a stream are in order on every part   *)
(* of the path, and what is nearer to the loop is older.                   *)

Below(X, Y) == \A x \in X, y \in Y : x < y

Sorted(q, S) ==
  \A i, j \in 1..Len(q) : i < j /\ q[i] \in S /\ q[j] \in S => q[i] < q[j]

Handled(s) == seen \intersect Lines(s)
Sent(s)    == Range(msgchan) \intersect Lines(s)

PathInv(s) ==
  /\ Range(buf[s]) \subseteq Lines(s) /\ Range(pipe[s]) \subseteq Lines(s)
  /\ Sorted(msgchan, Lines(s)) /\ Sorted(buf[s], Lines(s)) /\ Sorted(pipe[s], Lines(s))
  /\ Below(Handled(s), Sent(s)) /\ Below(Handled(s), Range(buf[s]))
  /\ Below(Handled(s), Range(pipe[s]))
  /\ Below(Sent(s), Range(buf[s])) /\ Below(Sent(s), Range(pipe[s]))
  /\ Below(Range(buf[s]), Range(pipe[s]))

OrderInv ==
  /\ seen \subseteq DOMAIN said /\ Range(msgchan) \subseteq DOMAIN said
  /\ \A s \in Streams : PathInv(s)
  /\ runner = "none" => msgchan = <<>> /\ \A s \in Streams : buf[s] = <<>>
  /\ ~Up => runner = "none"

LEMMA EmptyFacts ==
  /\ Range(<<>>) = {} /\ \A S : Sorted(<<>>, S)
  /\ \A X : Below({}, X) /\ Below(X, {})
BY DEF Range, Sorted, Below

LEMMA AppendFacts ==
  ASSUME NEW q \in Seq(Nat), NEW x \in Nat, NEW S, Sorted(q, S),
         x \in S => \A y \in Range(q) \intersect S : y < x
  PROVE  Range(Append(q, x)) = Range(q) \union {x} /\ Sorted(Append(q, x), S)
<1> DEFINE r == Append(q, x)
<1>1. /\ Len(r) = Len(q) + 1 /\ Len(q) \in Nat
      /\ DOMAIN q = 1..Len(q) /\ DOMAIN r = 1..Len(r)
      /\ \A i \in 1..Len(q) : r[i] = q[i]
      /\ r[Len(q) + 1] = x
  OBVIOUS
<1> HIDE DEF r
<1>2. Range(r) = Range(q) \union {x}
  <2>1. \A i \in 1..Len(r) : i \in 1..Len(q) \/ i = Len(q) + 1
    BY <1>1
  <2>2. \A i \in 1..Len(q) : i \in 1..Len(r)
    BY <1>1
  <2>3. Len(q) + 1 \in 1..Len(r)
    BY <1>1
  <2> QED BY <1>1, <2>1, <2>2, <2>3 DEF Range
<1>3. ASSUME NEW i \in 1..Len(r), NEW j \in 1..Len(r), i < j, r[i] \in S, r[j] \in S
      PROVE  r[i] < r[j]
  <2>1. i \in 1..Len(q) /\ r[i] = q[i] /\ q[i] \in Range(q)
    BY <1>1, <1>3 DEF Range
  <2>2. CASE j \in 1..Len(q)
    BY <1>1, <1>3, <2>1, <2>2 DEF Sorted
  <2>3. CASE j = Len(q) + 1
    BY <1>1, <1>3, <2>1, <2>3
  <2> QED BY <1>1, <2>2, <2>3
<1> QED BY <1>2, <1>3 DEF Sorted, r

LEMMA TailFacts ==
  ASSUME NEW q \in Seq(Nat), q # <<>>, NEW S, Sorted(q, S)
  PROVE  /\ Head(q) \in Nat /\ Range(q) = Range(Tail(q)) \union {Head(q)}
         /\ Sorted(Tail(q), S)
         /\ Head(q) \in S => Below({Head(q)}, Range(Tail(q)) \intersect S)
<1> DEFINE r == Tail(q)
<1>1. /\ Len(r) = Len(q) - 1 /\ Len(q) \in Nat \ {0} /\ Head(q) = q[1] /\ q[1] \in Nat
      /\ DOMAIN q = 1..Len(q) /\ DOMAIN r = 1..Len(r)
      /\ \A i \in 1..Len(r) : r[i] = q[i + 1]
  OBVIOUS
<1> HIDE DEF r
<1>2. \A i \in 1..Len(r) : i + 1 \in 1..Len(q) /\ 1 < i + 1
  BY <1>1
<1>3. Range(q) = Range(r) \union {q[1]}
  <2>1. \A i \in 1..Len(q) : i = 1 \/ (i - 1 \in 1..Len(r) /\ r[i - 1] = q[i])
    BY <1>1
  <2>2. 1 \in 1..Len(q)
    BY <1>1
  <2>3. Range(q) = {q[i] : i \in 1..Len(q)} /\ Range(r) = {r[i] : i \in 1..Len(r)}
    BY <1>1 DEF Range
  <2>4. ASSUME NEW x \in Range(q) PROVE x \in Range(r) \union {q[1]}
    <3>1. PICK i \in 1..Len(q) : x = q[i]
      BY <2>3
    <3> QED BY <2>1, <2>3, <3>1
  <2>5. ASSUME NEW x \in Range(r) PROVE x \in Range(q)
    <3>1. PICK i \in 1..Len(r) : x = r[i]
      BY <2>3
    <3> QED BY <1>1, <1>2, <2>3, <3>1
  <2>6. q[1] \in Range(q)
    BY <2>2, <2>3
  <2> QED BY <2>4, <2>5, <2>6
<1>4. Sorted(r, S)
  <2>1. ASSUME NEW i \in 1..Len(r), NEW j \in 1..Len(r), i < j, r[i] \in S, r[j] \in S
        PROVE  r[i] < r[j]
    <3>1. i + 1 < j + 1
      BY <1>1, <2>1
    <3> QED BY <1>1, <1>2, <2>1, <3>1 DEF Sorted
  <2> QED BY <2>1 DEF Sorted
<1>5. ASSUME q[1] \in S, NEW y \in Range(r) \intersect S PROVE q[1] < y
  <2>1. PICK i \in 1..Len(r) : y = r[i]
    BY <1>1 DEF Range
  <2>2. 1 \in 1..Len(q) /\ i + 1 \in 1..Len(q) /\ 1 < i + 1 /\ y = q[i + 1]
    BY <1>1, <1>2, <2>1
  <2> QED BY <1>5, <2>2 DEF Sorted
<1> QED BY <1>1, <1>3, <1>4, <1>5 DEF Below, r

LEMMA LineTypes ==
  ASSUME TypeOK
  PROVE  /\ said \in Seq(Kinds) /\ Len(said) \in Nat /\ DOMAIN said = 1..Len(said)
         /\ \A s : Lines(s) \subseteq 1..Len(said) /\ Lines(s) \subseteq Nat
         /\ msgchan \in Seq(Nat) /\ buf \in [Streams -> Seq(Nat)] /\ pipe \in [Streams -> Seq(Nat)]
         /\ \A s \in Streams : buf[s] \in Seq(Nat) /\ pipe[s] \in Seq(Nat)
<1>1. \A q \in Seq(1..MaxLines) : q \in Seq(Nat)
  BY ConstantFacts
<1> QED BY <1>1 DEF TypeOK, Lines

(* The lines of other streams are not touched by what is done with one.    *)
LEMMA LinesApart ==
  \A s, t, k : k \in Lines(s) /\ k \in Lines(t) => s = t
BY DEF Lines

LEMMA OrderInit == Init => OrderInv
<1> SUFFICES ASSUME Init PROVE OrderInv
  OBVIOUS
<1>1. /\ seen = {} /\ msgchan = <<>> /\ runner = "save" /\ Up
      /\ \A s \in Streams : buf[s] = <<>> /\ pipe[s] = <<>>
  BY DEF Init, Up
<1> QED BY <1>1, EmptyFacts DEF OrderInv, PathInv, Handled, Sent

LEMMA OrderSay ==
  ASSUME TypeOK, OrderInv, NEW kind \in Says, Say(kind)
  PROVE  /\ OrderInv'
         /\ \A s \in Streams :
              /\ Range(pipe'[s]) = Range(pipe[s]) \union
                                     (IF s = StreamOf(kind) THEN {Len(said) + 1} ELSE {})
              /\ Handled(s)' = Handled(s) /\ Sent(s)' = Sent(s)
<1> DEFINE n == Len(said) + 1
           u == StreamOf(kind)
<1>1. /\ Len(said) \in Nat /\ n \in Nat /\ u \in Streams /\ n \notin DOMAIN said
      /\ said' = Append(said, kind) /\ DOMAIN said' = DOMAIN said \union {n}
      /\ \A k \in DOMAIN said : said'[k] = said[k] /\ k < n
      /\ said'[n] = kind
  BY LineTypes, ConstantFacts DEF Say
<1>2. /\ pipe' = [pipe EXCEPT ![u] = Append(@, n)]
      /\ UNCHANGED <<buf, msgchan, seen, runner, main>>
  BY DEF Say
<1> HIDE DEF n, u
<1>3. \A s : Lines(s)' = Lines(s) \union (IF s = u THEN {n} ELSE {})
  BY <1>1 DEF Lines, u
<1>4. /\ seen \subseteq DOMAIN said /\ Range(msgchan) \subseteq DOMAIN said
      /\ \A s \in Streams : Range(buf[s]) \subseteq Lines(s) /\ Range(pipe[s]) \subseteq Lines(s)
  BY DEF OrderInv, PathInv
<1>5. \A s : Handled(s)' = Handled(s) /\ Sent(s)' = Sent(s)
  BY <1>1, <1>2, <1>3, <1>4 DEF Handled, Sent
<1>6. /\ \A s \in Streams \ {u} : pipe'[s] = pipe[s]
      /\ Range(pipe'[u]) = Range(pipe[u]) \union {n} /\ Sorted(pipe'[u], Lines(u)')
  <2>1. pipe'[u] = Append(pipe[u], n) /\ \A s \in Streams \ {u} : pipe'[s] = pipe[s]
    BY <1>1, <1>2, LineTypes
  <2>2. Sorted(pipe[u], Lines(u)')
    <3>1. \A i \in 1..Len(pipe[u]) : pipe[u][i] \in Range(pipe[u])
      BY <1>1, LineTypes DEF Range
    <3> QED BY <1>1, <1>4, <3>1 DEF OrderInv, PathInv, Sorted
  <2>3. \A y \in Range(pipe[u]) : y < n
    BY <1>1, <1>4 DEF Lines
  <2> QED BY <1>1, <2>1, <2>2, <2>3, LineTypes, AppendFacts
<1>7. ASSUME NEW s \in Streams PROVE PathInv(s)'
  <2>1. /\ Range(buf'[s]) \subseteq Lines(s)' /\ Range(pipe'[s]) \subseteq Lines(s)'
    BY <1>2, <1>3, <1>4, <1>6
  <2>2. \A i \in 1..Len(msgchan) : msgchan[i] \in Range(msgchan)
    BY LineTypes DEF Range
  <2>3. \A i \in 1..Len(buf[s]) : buf[s][i] \in Range(buf[s])
    BY LineTypes DEF Range
  <2>4. Sorted(msgchan', Lines(s)') /\ Sorted(buf'[s], Lines(s)')
    <3>1. Sorted(msgchan, Lines(s)) /\ Sorted(buf[s], Lines(s)) /\ Lines(s) \subseteq DOMAIN said
      BY DEF OrderInv, PathInv, Lines
    <3>2. \A k \in DOMAIN said : k \in Lines(s)' => k \in Lines(s)
      BY <1>1, <1>3
    <3>3. /\ \A i \in 1..Len(msgchan) : msgchan[i] \in DOMAIN said
          /\ \A i \in 1..Len(buf[s]) : buf[s][i] \in DOMAIN said
      BY <1>4, <2>2, <2>3, <3>1
    <3> HIDE DEF Lines
    <3> QED BY <1>2, <3>1, <3>2, <3>3 DEF Sorted
  <2>5. Sorted(pipe'[s], Lines(s)')
    BY <1>3, <1>6 DEF OrderInv, PathInv
  <2>6. /\ Below(Handled(s), {n}) /\ Below(Sent(s), {n}) /\ Below(Range(buf[s]), {n})
    BY <1>1, <1>4 DEF Below, Handled, Sent, Lines
  <2>7. \A X, Y, Z : Below(X, Y) /\ Below(X, Z) => Below(X, Y \union Z)
    BY DEF Below
  <2>8. PathInv(s)
    BY DEF OrderInv
  <2>9. Range(pipe'[s]) = Range(pipe[s]) \/ Range(pipe'[s]) = Range(pipe[s]) \union {n}
    BY <1>6
  <2> QED BY <1>2, <1>5, <2>1, <2>4, <2>5, <2>6, <2>7, <2>8, <2>9 DEF PathInv
<1>8. OrderInv'
  BY <1>1, <1>2, <1>4, <1>7 DEF OrderInv, Up
<1> QED BY <1>5, <1>6, <1>8 DEF n, u

LEMMA OrderReads ==
  ASSUME TypeOK, OrderInv, NEW s \in Streams, ScannerReads(s)
  PROVE  /\ OrderInv'
         /\ \A t \in Streams : Range(buf'[t]) \union Range(pipe'[t])
                                 = Range(buf[t]) \union Range(pipe[t])
<1>1. /\ buf[s] = <<>> /\ buf'[s] = pipe[s] /\ pipe'[s] = <<>>
      /\ \A t \in Streams \ {s} : buf'[t] = buf[t] /\ pipe'[t] = pipe[t]
      /\ UNCHANGED <<said, msgchan, seen, runner, main>> /\ runner # "none"
  BY LineTypes DEF ScannerReads
<1>2. \A t : Lines(t)' = Lines(t) /\ Handled(t)' = Handled(t) /\ Sent(t)' = Sent(t)
  BY <1>1 DEF Lines, Handled, Sent
<1>3. ASSUME NEW t \in Streams PROVE PathInv(t)'
  <2>1. CASE t = s
    BY <1>1, <1>2, <2>1, EmptyFacts DEF OrderInv, PathInv
  <2>2. CASE t # s
    BY <1>1, <1>2, <2>2 DEF OrderInv, PathInv
  <2> QED BY <2>1, <2>2
<1> QED BY <1>1, <1>3, EmptyFacts DEF OrderInv, Up

LEMMA OrderSends ==
  ASSUME TypeOK, OrderInv, NEW s \in Streams, ScannerSends(s)
  PROVE  /\ OrderInv'
         /\ \A t \in Streams : Sent(t)' \union Range(buf'[t]) = Sent(t) \union Range(buf[t])
<1> DEFINE h == Head(buf[s])
<1>1. /\ buf[s] # <<>> /\ buf'[s] = Tail(buf[s]) /\ msgchan' = Append(msgchan, h)
      /\ \A t \in Streams \ {s} : buf'[t] = buf[t]
      /\ UNCHANGED <<said, pipe, seen, runner, main>> /\ runner # "none"
  BY LineTypes DEF ScannerSends
<1>2. \A t : Lines(t)' = Lines(t) /\ Handled(t)' = Handled(t)
  BY <1>1 DEF Lines, Handled
<1>3. PathInv(s) /\ Range(msgchan) \subseteq DOMAIN said
  BY DEF OrderInv
<1>4. /\ h \in Nat /\ Range(buf[s]) = Range(buf'[s]) \union {h}
      /\ Sorted(buf'[s], Lines(s))
      /\ Below({h}, Range(buf'[s]) \intersect Lines(s)) /\ h \in Lines(s)
  <2>1. buf[s] \in Seq(Nat) /\ Sorted(buf[s], Lines(s)) /\ Range(buf[s]) \subseteq Lines(s)
    BY <1>3, LineTypes DEF PathInv
  <2>2. /\ h \in Nat /\ Range(buf[s]) = Range(Tail(buf[s])) \union {h}
        /\ Sorted(Tail(buf[s]), Lines(s))
        /\ h \in Lines(s) => Below({h}, Range(Tail(buf[s])) \intersect Lines(s))
    BY <1>1, <2>1, TailFacts
  <2>3. h \in Lines(s)
    BY <2>1, <2>2
  <2> QED BY <1>1, <2>2, <2>3
<1> HIDE DEF h
<1>5. ASSUME NEW t \in Streams
      PROVE  /\ Range(msgchan') = Range(msgchan) \union {h}
             /\ Sorted(msgchan', Lines(t))
             /\ Sent(t)' = Sent(t) \union (IF t = s THEN {h} ELSE {})
  <2>1. h \in Lines(t) => t = s
    BY <1>4, LinesApart
  <2>2. \A y \in Sent(s) : y < h
    BY <1>3, <1>4 DEF PathInv, Below
  <2>3. Sorted(msgchan, Lines(t))
    BY DEF OrderInv, PathInv
  <2>4. h \in Lines(t) => \A y \in Range(msgchan) \intersect Lines(t) : y < h
    BY <2>1, <2>2 DEF Sent
  <2>5. Range(msgchan') = Range(msgchan) \union {h} /\ Sorted(msgchan', Lines(t))
    BY <1>1, <1>4, <2>3, <2>4, LineTypes, AppendFacts
  <2> QED BY <1>2, <1>4, <2>1, <2>5 DEF Sent
<1>6. ASSUME NEW t \in Streams PROVE PathInv(t)'
  <2>1. CASE t # s
    BY <1>1, <1>2, <1>5, <2>1 DEF OrderInv, PathInv
  <2>2. CASE t = s
    <3>1. \A X, Y, Z : Below(X, Y) /\ Z \subseteq Y => Below(X, Z)
      BY DEF Below
    <3>2. \A X, Y, Z : Below(X, Z) /\ Below(Y, Z) => Below(X \union Y, Z)
      BY DEF Below
    <3>3. \A X, Y, Z : Below(X, Y) /\ Below(X, Z) => Below(X, Y \union Z)
      BY DEF Below
    <3>4. \A x, X, Y : Below(X, Y) /\ x \in X => Below({x}, Y)
      BY DEF Below
    <3>5. /\ Range(buf'[s]) \subseteq Range(buf[s]) /\ h \in Range(buf[s])
          /\ Range(buf'[s]) \subseteq Lines(s)
          /\ Sent(s)' = Sent(s) \union {h}
      BY <1>3, <1>4, <1>5 DEF PathInv
    <3>6. Below({h}, Range(buf'[s])) /\ Below({h}, Range(pipe[s])) /\ Below(Handled(s), {h})
      <4>1. Range(buf'[s]) \intersect Lines(s) = Range(buf'[s])
        BY <3>5
      <4> QED BY <1>3, <1>4, <3>5, <4>1 DEF PathInv, Below
    <3>7. /\ Below(Handled(s), Sent(s)') /\ Below(Handled(s), Range(buf'[s]))
          /\ Below(Sent(s)', Range(buf'[s])) /\ Below(Sent(s)', Range(pipe[s]))
          /\ Below(Range(buf'[s]), Range(pipe[s]))
      <4> HIDE DEF Below
      <4>1. Below(Handled(s), Sent(s)')
        BY <1>3, <3>3, <3>5, <3>6 DEF PathInv
      <4>2. Below(Handled(s), Range(buf'[s])) /\ Below(Sent(s), Range(buf'[s]))
        BY <1>3, <3>1, <3>5 DEF PathInv
      <4>3. Below(Sent(s)', Range(buf'[s])) /\ Below(Sent(s)', Range(pipe[s]))
        BY <1>3, <4>2, <3>2, <3>5, <3>6 DEF PathInv
      <4>4. Below(Range(buf'[s]), Range(pipe[s]))
        BY <1>3, <3>5 DEF PathInv, Below
      <4> QED BY <4>1, <4>2, <4>3, <4>4
    <3> QED BY <1>1, <1>2, <1>3, <1>4, <1>5, <2>2, <3>5, <3>7 DEF PathInv
  <2> QED BY <2>1, <2>2
<1>7. OrderInv'
  BY <1>1, <1>3, <1>4, <1>5, <1>6, ConstantFacts DEF OrderInv, Up, Lines
<1> QED BY <1>1, <1>4, <1>5, <1>7

(* The loop takes the oldest line of its stream.                           *)
LEMMA OrderHandles ==
  ASSUME TypeOK, OrderInv, NEW kind, Handles(kind), runner' # "none"
  PROVE  LET h == Head(msgchan)
             s == StreamOf(kind)
         IN  /\ OrderInv' /\ h \in Lines(s) /\ s \in Streams
             /\ \A t \in Streams \ {s} : Handled(t)' = Handled(t) /\ Sent(t)' = Sent(t)
             /\ Handled(s)' = Handled(s) \union {h} /\ Sent(s) = Sent(s)' \union {h}
             /\ Below(Handled(s), {h}) /\ Below({h}, Sent(s)')
             /\ Below({h}, Range(buf[s])) /\ Below({h}, Range(pipe[s]))
<1> DEFINE h == Head(msgchan)
           s == StreamOf(kind)
<1>1. /\ msgchan # <<>> /\ msgchan' = Tail(msgchan) /\ said[h] = kind
      /\ seen' = seen \union {h} /\ UNCHANGED <<said, pipe, buf, main>> /\ Up
  BY DEF Handles
<1>2. \A t : Lines(t)' = Lines(t)
  BY <1>1 DEF Lines
<1>3. \A t \in Streams : PathInv(t)
  BY DEF OrderInv
<1>4. ASSUME NEW t \in Streams
      PROVE  /\ h \in Nat /\ Range(msgchan) = Range(msgchan') \union {h}
             /\ Sorted(msgchan', Lines(t))
             /\ h \in Lines(t) => Below({h}, Range(msgchan') \intersect Lines(t))
  BY <1>1, <1>3, LineTypes, TailFacts DEF PathInv
<1>5. s \in Streams /\ h \in DOMAIN said /\ h \in Lines(s)
  BY <1>1, <1>4, ConstantFacts DEF OrderInv, Lines
<1> HIDE DEF h, s
<1>6. \A t \in Streams \ {s} : h \notin Lines(t)
  BY <1>5, LinesApart
<1>7. /\ \A t \in Streams \ {s} : Handled(t)' = Handled(t) /\ Sent(t)' = Sent(t)
      /\ Handled(s)' = Handled(s) \union {h} /\ Sent(s) = Sent(s)' \union {h}
  BY <1>1, <1>2, <1>4, <1>5, <1>6 DEF Handled, Sent
<1>8. /\ Below(Handled(s), {h}) /\ Below({h}, Sent(s)')
      /\ Below({h}, Range(buf[s])) /\ Below({h}, Range(pipe[s]))
  <2>1. h \in Sent(s)
    BY <1>7
  <2>2. Below({h}, Sent(s)')
    BY <1>2, <1>4, <1>5 DEF Sent
  <2> QED BY <1>3, <1>5, <2>1, <2>2 DEF PathInv, Below
<1>9. ASSUME NEW t \in Streams PROVE PathInv(t)'
  <2>1. CASE t # s
    BY <1>1, <1>2, <1>3, <1>4, <1>7, <2>1 DEF PathInv
  <2>2. CASE t = s
    <3>1. \A X, Y, Z : Below(X, Y) /\ Z \subseteq Y => Below(X, Z)
      BY DEF Below
    <3>2. \A X, Y, Z : Below(X, Z) /\ Below(Y, Z) => Below(X \union Y, Z)
      BY DEF Below
    <3>3. \A X, Y, Z : Below(X, Z) /\ Y \subseteq X => Below(Y, Z)
      BY DEF Below
    <3>4. Sent(s)' \subseteq Sent(s)
      BY <1>7
    <3>5. PathInv(s)
      BY <1>3, <1>5
    <3>6. /\ Below(Handled(s)', Sent(s)') /\ Below(Handled(s)', Range(buf[s]))
          /\ Below(Handled(s)', Range(pipe[s]))
      <4>1. Below(Handled(s), Sent(s)')
        BY <3>1, <3>4, <3>5 DEF PathInv
      <4> QED BY <1>7, <1>8, <3>2, <3>5, <4>1 DEF PathInv
    <3>7. Below(Sent(s)', Range(buf[s])) /\ Below(Sent(s)', Range(pipe[s]))
      BY <3>3, <3>4, <3>5 DEF PathInv
    <3> QED BY <1>1, <1>2, <1>4, <2>2, <3>5, <3>6, <3>7 DEF PathInv
  <2> QED BY <2>1, <2>2
<1>10. OrderInv'
  BY <1>1, <1>4, <1>5, <1>9 DEF OrderInv, Up
<1> QED BY <1>5, <1>7, <1>8, <1>10 DEF h, s

(* The loop has handled the same lines, if no line was handled.            *)
LEMMA DeliveredKept ==
  ASSUME \A s \in Streams : Handled(s)' = Handled(s)
  PROVE  Delivered' = Delivered
BY DEF Delivered, Handled

(* A step that leaves the lines where they are.                            *)
LEMMA PathKept ==
  ASSUME OrderInv, UNCHANGED <<said, pipe, buf, msgchan, seen>>,
         runner' = "none" => runner = "none", ~Up' => runner' = "none"
  PROVE  /\ OrderInv' /\ Delivered' = Delivered
         /\ PipesClosed' = PipesClosed => InFlight' = InFlight
<1>1. \A s : Lines(s)' = Lines(s) /\ Handled(s)' = Handled(s) /\ Sent(s)' = Sent(s)
  BY DEF Lines, Handled, Sent
<1>2. \A s \in Streams : PathInv(s)' = PathInv(s)
  BY <1>1 DEF PathInv
<1>3. Delivered' = Delivered
  BY <1>1, DeliveredKept
<1>4. PipesClosed' = PipesClosed => InFlight' = InFlight
  BY <1>1 DEF InFlight, Sent
<1> QED BY <1>2, <1>3, <1>4 DEF OrderInv

(* The files are closed, the pipes are drained, or the backend ends: what  *)
(* is left is in the pipes, the newest lines of all.                       *)
LEMMA LoseStep ==
  ASSUME TypeOK, OrderInv, UNCHANGED <<said, seen>>, ~LoopRuns',
         pipe' = pipe \/ pipe' = [s \in Streams |-> <<>>],
         \/ msgchan' = <<>> /\ buf' = [s \in Streams |-> <<>>]
         \/ PipesClosed' /\ UNCHANGED <<msgchan, buf>>,
         ~Up' => runner' = "none"
  PROVE  OrderInv' /\ Feed!Lose
<1>1. \A s : Lines(s)' = Lines(s) /\ Handled(s)' = Handled(s)
  BY DEF Lines, Handled
<1>2. /\ pipe' = pipe \/ \A s \in Streams : pipe'[s] = <<>>
      /\ msgchan' = msgchan \/ msgchan' = <<>>
      /\ buf' = buf \/ \A s \in Streams : buf'[s] = <<>>
  OBVIOUS
<1>3. ASSUME NEW s \in Streams PROVE PathInv(s)'
  <2>1. Sent(s)' = Sent(s) \/ Sent(s)' = {}
    BY <1>1, <1>2, EmptyFacts DEF Sent
  <2> QED BY <1>1, <1>2, <2>1, EmptyFacts DEF OrderInv, PathInv
<1>4. OrderInv'
  <2>1. runner' = "none" => msgchan' = <<>> /\ \A s \in Streams : buf'[s] = <<>>
    BY DEF PipesClosed
  <2>2. seen' \subseteq DOMAIN said' /\ Range(msgchan') \subseteq DOMAIN said'
    BY <1>2, EmptyFacts DEF OrderInv
  <2> QED BY <1>3, <2>1, <2>2 DEF OrderInv
<1>5. InFlight' = [s \in Streams |-> Range(pipe'[s])]
  BY EmptyFacts DEF InFlight
<1> DEFINE keep == [s \in Streams |->
                      IF pipe'[s] = <<>> THEN Len(said) + 1 ELSE Head(pipe[s])]
<1>6. ASSUME NEW s \in Streams
      PROVE  keep[s] \in 1..(Len(said) + 1)
             /\ Range(pipe'[s]) = {k \in InFlight[s] : k >= keep[s]}
  <2>1. InFlight[s] \subseteq Lines(s) /\ Range(pipe[s]) \subseteq InFlight[s]
    BY DEF InFlight, OrderInv, PathInv
  <2>2. Len(said) \in Nat /\ Lines(s) \subseteq 1..Len(said)
    BY LineTypes
  <2>3. CASE pipe'[s] = <<>>
    BY <2>1, <2>2, <2>3, EmptyFacts
  <2>4. CASE pipe'[s] # <<>>
    <3>1. pipe'[s] = pipe[s] /\ keep[s] = Head(pipe[s]) /\ pipe[s] # <<>> /\ PathInv(s)
      BY <1>2, <2>4 DEF OrderInv
    <3>2. /\ keep[s] \in Nat /\ Range(pipe[s]) = Range(Tail(pipe[s])) \union {keep[s]}
          /\ keep[s] \in Lines(s)
          /\ Below({keep[s]}, Range(Tail(pipe[s])) \intersect Lines(s))
      <4>1. pipe[s] \in Seq(Nat) /\ Sorted(pipe[s], Lines(s)) /\ Range(pipe[s]) \subseteq Lines(s)
        BY <3>1, LineTypes DEF PathInv
      <4>2. /\ Head(pipe[s]) \in Nat
            /\ Range(pipe[s]) = Range(Tail(pipe[s])) \union {Head(pipe[s])}
            /\ Head(pipe[s]) \in Lines(s) =>
                 Below({Head(pipe[s])}, Range(Tail(pipe[s])) \intersect Lines(s))
        BY <3>1, <4>1, TailFacts
      <4> HIDE DEF keep
      <4> QED BY <3>1, <4>1, <4>2
    <3> HIDE DEF keep
    <3>3. \A k \in Range(pipe[s]) : k >= keep[s]
      <4>1. ASSUME NEW k \in Range(pipe[s]), k # keep[s] PROVE keep[s] < k
        BY <3>1, <3>2, <4>1 DEF PathInv, Below
      <4>2. Range(pipe[s]) \subseteq Nat
        BY <2>1, <2>2
      <4> QED BY <3>2, <4>1, <4>2
    <3>4. \A k \in InFlight[s] \ Range(pipe[s]) : k < keep[s]
      <4>1. keep[s] \in Range(pipe[s])
        BY <3>2
      <4>2. \A k \in InFlight[s] : k \in Sent(s) \union Range(buf[s]) \union Range(pipe[s])
        BY DEF InFlight, Sent
      <4> QED BY <3>1, <4>1, <4>2 DEF PathInv, Below
    <3>5. keep[s] \in 1..(Len(said) + 1)
      BY <2>2, <3>2
    <3>6. InFlight[s] \subseteq Nat
      BY <2>1, <2>2
    <3> QED BY <2>1, <3>1, <3>2, <3>3, <3>4, <3>5, <3>6
  <2> QED BY <2>3, <2>4
<1>7. keep \in [Streams -> 1..(Len(said) + 1)]
  BY <1>6
<1> HIDE DEF keep
<1>8. InFlight' = [s \in Streams |-> {k \in InFlight[s] : k >= keep[s]}]
  BY <1>5, <1>6
<1>9. Delivered' = Delivered
  BY <1>1, DeliveredKept
<1> QED BY <1>4, <1>7, <1>8, <1>9 DEF Feed!Lose, LoopRuns

(* The loop handles a line: the oldest on its way.                         *)
LEMMA DeliverStep ==
  ASSUME TypeOK, OrderInv, NEW kind, Handles(kind), LoopRuns'
  PROVE  OrderInv' /\ Feed!Deliver(StreamOf(kind))
<1> DEFINE h == Head(msgchan)
           s == StreamOf(kind)
<1>1. /\ OrderInv' /\ h \in Lines(s) /\ s \in Streams
      /\ \A t \in Streams \ {s} : Handled(t)' = Handled(t) /\ Sent(t)' = Sent(t)
      /\ Handled(s)' = Handled(s) \union {h} /\ Sent(s) = Sent(s)' \union {h}
      /\ Below(Handled(s), {h}) /\ Below({h}, Sent(s)')
      /\ Below({h}, Range(buf[s])) /\ Below({h}, Range(pipe[s]))
  BY OrderHandles DEF LoopRuns
<1>2. /\ UNCHANGED <<said, pipe, buf>> /\ runner = "loop"
      /\ ~PipesClosed /\ ~PipesClosed'
  BY DEF Handles, PipesClosed, LoopRuns
<1> HIDE DEF h, s
<1>3. \A t \in Streams :
        /\ InFlight[t] = Sent(t) \union Range(buf[t]) \union Range(pipe[t])
        /\ InFlight'[t] = Sent(t)' \union Range(buf[t]) \union Range(pipe[t])
  BY <1>2 DEF InFlight, Sent
<1>4. \A k \in InFlight[s] : k \in Nat
  <2>1. InFlight[s] \subseteq Lines(s)
    BY <1>1, <1>3 DEF OrderInv, PathInv, Sent
  <2> QED BY <2>1, LineTypes
<1>5. h \in InFlight[s] /\ \A k \in InFlight[s] : k = h \/ h < k
  BY <1>1, <1>3 DEF Below
<1>6. /\ InFlight'[s] = InFlight[s] \ {h}
      /\ \A k \in InFlight[s] : h <= k
  <2>1. h \notin InFlight'[s]
    BY <1>1, <1>3, <1>4, <1>5 DEF Below
  <2> QED BY <1>1, <1>3, <1>4, <1>5, <2>1
<1>7. InFlight' = [InFlight EXCEPT ![s] = @ \ {h}]
  <2>1. \A t \in Streams \ {s} : InFlight'[t] = InFlight[t]
    BY <1>1, <1>3
  <2>2. InFlight = [t \in Streams |-> InFlight[t]] /\ InFlight' = [t \in Streams |-> InFlight'[t]]
    BY DEF InFlight
  <2> QED BY <1>1, <1>6, <2>1, <2>2
<1>8. Delivered' = [Delivered EXCEPT ![s] = h]
  <2>1. \A t \in Streams \ {s} : Delivered'[t] = Delivered[t]
    BY <1>1 DEF Delivered, Handled
  <2>2. Delivered'[s] = h
    <3>1. /\ h \in Handled(s)' /\ Handled(s)' \subseteq Nat
          /\ \A k \in Handled(s)' : k <= h
      <4>1. Handled(s) \subseteq Nat /\ h \in Nat
        BY <1>1, LineTypes DEF Handled
      <4> QED BY <1>1, <4>1 DEF Below
    <3>2. Delivered'[s] = CHOOSE k \in Handled(s)' : \A j \in Handled(s)' : j <= k
      BY <1>1, <3>1 DEF Delivered, Handled, Newest
    <3>3. \A k \in Handled(s)' : (\A j \in Handled(s)' : j <= k) => k = h
      BY <3>1
    <3> QED BY <3>1, <3>2, <3>3
  <2>3. Delivered = [t \in Streams |-> Delivered[t]]
        /\ Delivered' = [t \in Streams |-> Delivered'[t]]
    BY DEF Delivered
  <2> QED BY <1>1, <2>1, <2>2, <2>3
<1> QED BY <1>1, <1>2, <1>5, <1>6, <1>7, <1>8 DEF Feed!Deliver, LoopRuns, s

(* Every step of the runner is a step of the feed or leaves it alone.      *)
LEMMA FeedStep ==
  ASSUME TypeOK, OrderInv, [Next]_vars
  PROVE  OrderInv' /\ [Feed!Next]_(Feed!vars)
<1> DEFINE Quiet == UNCHANGED <<said, pipe, buf, msgchan, seen>>
           Stutters == OrderInv' /\ UNCHANGED Feed!vars
           Loses == OrderInv' /\ Feed!Lose
<1>1. ASSUME NEW kind \in Says, Say(kind) PROVE OrderInv' /\ Feed!Write(StreamOf(kind))
  <2>1. /\ OrderInv'
        /\ \A s \in Streams :
             /\ Range(pipe'[s]) = Range(pipe[s]) \union
                                    (IF s = StreamOf(kind) THEN {Len(said) + 1} ELSE {})
             /\ Handled(s)' = Handled(s) /\ Sent(s)' = Sent(s)
    BY <1>1, OrderSay
  <2>2. Len(said') = Len(said) + 1 /\ UNCHANGED <<buf, runner>> /\ StreamOf(kind) \in Streams
    <3>1. said \in Seq(Kinds) /\ kind \in Kinds
      BY LineTypes, ConstantFacts
    <3>2. said' = Append(said, kind) /\ UNCHANGED <<buf, runner>>
      BY <1>1 DEF Say
    <3> QED BY <3>1, <3>2, ConstantFacts
  <2>3. InFlight' = [InFlight EXCEPT ![StreamOf(kind)] = @ \union {Len(said) + 1}]
    <3>1. \A s \in Streams : InFlight'[s] = InFlight[s] \union
                                (IF s = StreamOf(kind) THEN {Len(said) + 1} ELSE {})
      BY <2>1, <2>2 DEF InFlight, Sent, PipesClosed
    <3>2. InFlight = [s \in Streams |-> InFlight[s]] /\ InFlight' = [s \in Streams |-> InFlight'[s]]
      BY DEF InFlight
    <3> QED BY <2>2, <3>1, <3>2
  <2>4. Delivered' = Delivered
    BY <2>1, DeliveredKept
  <2> QED BY <2>1, <2>2, <2>3, <2>4 DEF Feed!Write, LoopRuns
<1>2. ASSUME NEW s \in Streams, ScannerReads(s) PROVE Stutters
  <2>1. /\ OrderInv'
        /\ \A t \in Streams : Range(buf'[t]) \union Range(pipe'[t])
                               = Range(buf[t]) \union Range(pipe[t])
    BY <1>2, OrderReads
  <2>2. UNCHANGED <<said, msgchan, seen, runner>> /\ ~PipesClosed /\ ~PipesClosed'
    BY <1>2 DEF ScannerReads, PipesClosed
  <2>3. \A t : Lines(t)' = Lines(t) /\ Handled(t)' = Handled(t)
    BY <2>2 DEF Lines, Handled
  <2>4. InFlight' = InFlight
    <3>1. \A t \in Streams : InFlight'[t] = InFlight[t]
      BY <2>1, <2>2, <2>3 DEF InFlight
    <3> QED BY <3>1 DEF InFlight
  <2>5. Delivered' = Delivered
    BY <2>3, DeliveredKept
  <2> QED BY <2>1, <2>2, <2>4, <2>5 DEF Feed!vars
<1>3. ASSUME NEW s \in Streams, ScannerSends(s) PROVE Stutters
  <2>1. /\ OrderInv'
        /\ \A t \in Streams : Sent(t)' \union Range(buf'[t]) = Sent(t) \union Range(buf[t])
    BY <1>3, OrderSends
  <2>2. UNCHANGED <<said, pipe, seen, runner>> /\ PipesClosed' = PipesClosed
    BY <1>3 DEF ScannerSends, PipesClosed
  <2>3. \A t : Lines(t)' = Lines(t) /\ Handled(t)' = Handled(t)
    BY <2>2 DEF Lines, Handled
  <2>4. InFlight' = InFlight
    <3>1. \A t \in Streams : InFlight'[t] = InFlight[t]
      BY <2>1, <2>2 DEF InFlight, Sent
    <3> QED BY <3>1 DEF InFlight
  <2>5. Delivered' = Delivered
    BY <2>3, DeliveredKept
  <2> QED BY <2>1, <2>2, <2>4, <2>5 DEF Feed!vars
<1>4. ASSUME Quiet, UNCHANGED runner, ~Up' => runner' = "none" PROVE Stutters
  <2>1. OrderInv' /\ Delivered' = Delivered /\ InFlight' = InFlight
    BY <1>4, PathKept DEF PipesClosed
  <2> QED BY <1>4, <2>1 DEF Feed!vars
<1>5. CASE \/ GameExits \/ PidChecker \/ stopAllRunners \/ UNCHANGED vars
           \/ \E s \in Streams : ScannerReturns(s)
  <2>1. Quiet /\ UNCHANGED runner
    BY <1>5 DEF GameExits, PidChecker, stopAllRunners, ScannerReturns
  <2>2. ~Up' => ~Up
    BY <1>5 DEF GameExits, PidChecker, stopAllRunners, ScannerReturns, Up
  <2>3. ~Up' => runner' = "none"
    BY <2>1, <2>2 DEF OrderInv
  <2> QED BY <1>4, <2>1, <2>3
<1>6. CASE recoverSave \/ SelfSend \/ HandleShutdown \/ SubroutinesDone
  <2>1. Quiet /\ Up /\ Up' /\ runner' # "none"
        /\ LoopRuns' = LoopRuns /\ PipesClosed' = PipesClosed
    BY <1>6 DEF recoverSave, SelfSend, HandleShutdown, Takes, SubroutinesDone, Up, LoopRuns,
         PipesClosed
  <2>2. OrderInv' /\ Delivered' = Delivered /\ InFlight' = InFlight
    BY <2>1, PathKept
  <2> QED BY <2>1, <2>2 DEF Feed!vars, LoopRuns
<1>7. CASE HandleRunnerStop \/ HandlePidCheck
  <2>1. Quiet /\ Up' /\ runner = "loop" /\ runner' = "leaving"
    BY <1>7 DEF HandleRunnerStop, HandlePidCheck, Takes, Up
  <2>2. OrderInv' /\ Delivered' = Delivered /\ InFlight' = InFlight
    BY <2>1, PathKept DEF PipesClosed
  <2>3. PICK keep \in [Streams -> 1..(Len(said) + 1)] : \A s \in Streams : keep[s] = 1
    <3> DEFINE f == [s \in Streams |-> 1]
    <3>1. f \in [Streams -> 1..(Len(said) + 1)] /\ \A s \in Streams : f[s] = 1
      BY LineTypes
    <3> QED BY <3>1
  <2>4. \A s \in Streams : \A k \in InFlight[s] : k >= 1
    <3>1. \A s \in Streams : InFlight[s] \subseteq Lines(s)
      BY DEF InFlight, OrderInv, PathInv
    <3> QED BY <3>1, LineTypes
  <2>5. InFlight' = [s \in Streams |-> {k \in InFlight[s] : k >= keep[s]}]
    <3>1. \A s \in Streams : InFlight[s] = {k \in InFlight[s] : k >= keep[s]}
      BY <2>3, <2>4
    <3>2. InFlight = [s \in Streams |-> InFlight[s]]
      BY DEF InFlight
    <3> QED BY <2>2, <3>1, <3>2
  <2>6. Feed!Lose
    BY <2>1, <2>2, <2>3, <2>5 DEF Feed!Lose, LoopRuns
  <2> QED BY <2>2, <2>6 DEF Feed!Next
<1>8. CASE closePipes \/ archiveInstance
  <2>1. /\ UNCHANGED <<said, seen, msgchan, buf>> /\ Up' /\ PipesClosed' /\ ~LoopRuns'
        /\ pipe' = pipe \/ pipe' = [s \in Streams |-> <<>>]
    BY <1>8 DEF closePipes, archiveInstance, Up, PipesClosed, LoopRuns
  <2>2. OrderInv' /\ Feed!Lose
    BY <2>1, LoseStep
  <2> QED BY <2>2 DEF Feed!Next
<1>9. CASE Exit \/ Crash
  <2>1. /\ UNCHANGED <<said, seen, pipe>> /\ runner' = "none" /\ ~LoopRuns'
        /\ msgchan' = <<>> /\ buf' = [s \in Streams |-> <<>>]
    BY <1>9 DEF Exit, Crash, ForgetAll, LoopRuns
  <2>2. OrderInv' /\ Feed!Lose
    BY <2>1, LoseStep
  <2> QED BY <2>2 DEF Feed!Next
<1>10. CASE RecoverNothing
  <2>1. /\ UNCHANGED <<said, seen, msgchan, buf, runner>> /\ ~Up /\ Up'
        /\ pipe' = pipe \/ pipe' = [s \in Streams |-> <<>>]
    BY <1>10 DEF RecoverNothing, Up
  <2>2. runner = "none" /\ msgchan = <<>> /\ \A s \in Streams : buf[s] = <<>>
    BY <2>1 DEF OrderInv
  <2>3. buf' = [s \in Streams |-> <<>>]
    BY <2>1, <2>2 DEF TypeOK
  <2>4. OrderInv' /\ Feed!Lose
    BY <2>1, <2>2, <2>3, LoseStep DEF LoopRuns
  <2> QED BY <2>4 DEF Feed!Next
<1>11. CASE recoverRunner
  <2>1. Quiet /\ ~Up /\ Up' /\ runner' = "save"
    BY <1>11 DEF recoverRunner, Up
  <2>2. runner = "none"
    BY <2>1 DEF OrderInv
  <2>3. OrderInv' /\ Delivered' = Delivered /\ InFlight' = InFlight
    BY <2>1, <2>2, PathKept DEF PipesClosed
  <2> QED BY <2>1, <2>2, <2>3 DEF Feed!Resume, Feed!Next, LoopRuns
<1>12. CASE Message
  <2>1. \E kind \in Kinds : Handles(kind) /\ runner' \in {"save", "loop", "selfsend"}
    <3>1. CASE HandleLobbyId \/ HandleStart \/ HandleLobbyError
      BY <3>1 DEF HandleLobbyId, HandleStart, HandleLobbyError, Kinds
    <3>2. CASE HandleReport \/ HandleDebug \/ HandleLog
      BY <3>2 DEF HandleReport, HandleDebug, HandleLog, Handles, Kinds
    <3> QED BY <1>12, <3>1, <3>2 DEF Message
  <2>2. PICK kind \in Kinds : Handles(kind) /\ LoopRuns'
    BY <2>1 DEF LoopRuns
  <2>3. OrderInv' /\ Feed!Deliver(StreamOf(kind))
    BY <2>2, DeliverStep
  <2> QED BY <2>3, ConstantFacts DEF Feed!Next
<1> HIDE DEF Quiet, Stutters, Loses
<1>13. CASE \E s \in Streams : Scanner(s)
  BY <1>2, <1>3, <1>5, <1>13 DEF Scanner, Stutters
<1>14. CASE Runner
  BY <1>6, <1>7, <1>8, <1>12, <1>14 DEF Runner, Stutters, Loses, Feed!Next
<1>15. CASE \E kind \in Says : Say(kind)
  BY <1>1, <1>15, ConstantFacts DEF Feed!Next
<1> QED
  BY <1>5, <1>9, <1>10, <1>11, <1>13, <1>14, <1>15 DEF Next, Stutters, Loses, Feed!Next

(* The runner, its scanners, pipes and channel implement LineFeed: while a *)
(* loop runs, every line of a stream is handled, in order, whatever fails  *)
(* and however often the backend is stopped, killed and started again.     *)
THEOREM RunnerImplementsLineFeed == Spec => ImplementsLineFeed
<1>1. Init => Feed!Init
  <2> SUFFICES ASSUME Init PROVE Feed!Init
    OBVIOUS
  <2>1. /\ said = <<>> /\ seen = {} /\ msgchan = <<>> /\ runner = "save"
        /\ \A s \in Streams : buf[s] = <<>> /\ pipe[s] = <<>>
    BY DEF Init
  <2>2. InFlight = [s \in Streams |-> {}]
    BY <2>1, EmptyFacts DEF InFlight
  <2>3. Delivered = [s \in Streams |-> 0]
    BY <2>1 DEF Delivered, Newest
  <2> QED BY <2>1, <2>2, <2>3 DEF Feed!Init
<1>2. TypeOK /\ OrderInv /\ [Next]_vars => OrderInv' /\ [Feed!Next]_(Feed!vars)
  BY FeedStep
<1> QED
  BY <1>1, <1>2, OrderInit, TypeCorrect, PTL DEF Spec, ImplementsLineFeed, Feed!Spec

-----------------------------------------------------------------------------
(* The state follows the lines.  The lines of stderr are handled in order, *)
(* and a game lists no room after it started.                              *)

SaidInv ==
  \A i, j \in DOMAIN said :
    i < j /\ said[i] = "start" => said[j] \notin {"lobbyid", "start", "lobbyerror"}

(* Without a kill the file is never behind the state when it is read.      *)
FollowInv ==
  crashes = 0 /\ ~told =>
    /\ LoopRuns => state = RoomState
    /\ Loadable /\ runner # "save" => saved.StateSaved = RoomState

LEMMA SaidNext == ASSUME TypeOK, SaidInv, [Next]_vars PROVE SaidInv'
<1>1. ASSUME NEW kind \in Says, Say(kind) PROVE SaidInv'
  <2>1. said' = Append(said, kind) /\ said \in Seq(Kinds) /\ kind \in Kinds
    BY <1>1, ConstantFacts DEF Say, TypeOK
  <2>2. /\ DOMAIN said' = DOMAIN said \union {Len(said) + 1} /\ DOMAIN said = 1..Len(said)
        /\ \A k \in DOMAIN said : said'[k] = said[k]
        /\ said'[Len(said) + 1] = kind /\ Len(said) \in Nat
    BY <2>1
  <2>3. kind \in {"lobbyid", "start", "lobbyerror"} => \A k \in DOMAIN said : said[k] # "start"
    BY <1>1 DEF Say, Has
  <2>4. ASSUME NEW i \in DOMAIN said', NEW j \in DOMAIN said', i < j, said'[i] = "start"
        PROVE  said'[j] \notin {"lobbyid", "start", "lobbyerror"}
    <3>1. i \in DOMAIN said /\ said[i] = "start"
      BY <2>2, <2>4
    <3>2. CASE j \in DOMAIN said
      BY <2>2, <2>4, <3>1, <3>2 DEF SaidInv
    <3>3. CASE j = Len(said) + 1
      BY <2>2, <2>3, <3>1, <3>3
    <3> QED BY <2>2, <3>2, <3>3
  <2> QED BY <2>4 DEF SaidInv
<1>2. CASE ~\E kind \in Says : Say(kind)
  <2>1. said' = said
    BY <1>2 DEF Next, Runner, Message, Scanner, GameExits, ScannerReads, ScannerSends,
         ScannerReturns, PidChecker, recoverSave, Handles, HandleLobbyId, HandleStart,
         HandleReport, HandleDebug, HandleLog, HandleLobbyError, SelfSend, Takes, HandleShutdown,
         HandleRunnerStop, HandlePidCheck, closePipes, SubroutinesDone, archiveInstance,
         stopAllRunners, ForgetAll, Exit, Crash, recoverRunner, RecoverNothing
  <2> QED BY <2>1 DEF SaidInv
<1> QED BY <1>1, <1>2

(* What a line says of the room, given what was said before it.            *)
LEMMA RoomStateMoves ==
  ASSUME TypeOK, OrderInv, SaidInv, NEW kind \in Kinds, Handles(kind), LoopRuns'
  PROVE  RoomState' =
           IF kind = "lobbyid" THEN instanceStateInLobby
           ELSE IF kind = "start" /\ RoomState = instanceStateInLobby THEN instanceStateInGame
           ELSE RoomState
<1> DEFINE h == Head(msgchan)
           s == StreamOf(kind)
<1>1. /\ h \in Lines(s) /\ s \in Streams /\ Below(Handled(s), {h})
      /\ seen \subseteq DOMAIN said
  BY OrderHandles DEF LoopRuns, OrderInv
<1>2. said' = said /\ seen' = seen \union {h} /\ said[h] = kind
  BY DEF Handles
<1>3. h \in DOMAIN said
  BY <1>1 DEF Lines
<1> HIDE DEF h, s
<1>4. \A k : Seen(k)' <=> Seen(k) \/ k = kind
  BY <1>2 DEF Seen
<1>5. CASE kind = "lobbyid"
  <2>1. ASSUME NEW k \in seen, said[k] = "start" PROVE FALSE
    <3>1. k \in Handled(s)
      BY <1>1, <1>5, <2>1 DEF Handled, Lines, StreamOf, s
    <3>2. k < h
      BY <1>1, <3>1 DEF Below
    <3> QED BY <1>1, <1>2, <1>3, <1>5, <2>1, <3>2 DEF SaidInv
  <2> QED BY <1>4, <1>5, <2>1 DEF RoomState, Seen
<1>6. CASE kind = "start"
  BY <1>4, <1>6 DEF RoomState, instanceStateInitial, instanceStateInLobby, instanceStateInGame
<1>7. CASE kind \notin {"lobbyid", "start"}
  BY <1>4, <1>7 DEF RoomState
<1> QED BY <1>5, <1>6, <1>7

LEMMA FollowNext ==
  ASSUME "save" \notin Faults, TypeOK, OrderInv, SaidInv, FollowInv, [Next]_vars
  PROVE  FollowInv'
<1> USE DEF FollowInv, LoopRuns, Loadable
<1>0. /\ \A k \in seen : k \in 1..Len(said)
      /\ Up \/ runner = "none"
  BY DEF OrderInv, TypeOK
<1>1. ASSUME NEW kind \in Says, Say(kind) PROVE FollowInv'
  <2>1. \A k \in seen : said'[k] = said[k]
    <3>1. said' = Append(said, kind) /\ said \in Seq(Kinds) /\ kind \in Kinds
      BY <1>1, ConstantFacts DEF Say, TypeOK
    <3> QED BY <1>0, <3>1
  <2>2. UNCHANGED <<seen, crashes, told, runner, state, saved>>
    BY <1>1 DEF Say
  <2>3. RoomState' = RoomState
    BY <2>1, <2>2 DEF RoomState, Seen
  <2> QED BY <2>2, <2>3
<1>2. CASE ~(\E kind \in Says : Say(kind)) /\ ~Message
  <2>1. UNCHANGED <<said, seen>>
    BY <1>2 DEF Next, Runner, Scanner, GameExits, ScannerReads, ScannerSends,
         ScannerReturns, PidChecker, recoverSave, SelfSend, Takes, HandleShutdown,
         HandleRunnerStop, HandlePidCheck, closePipes, SubroutinesDone, archiveInstance,
         stopAllRunners, ForgetAll, Exit, Crash, recoverRunner, RecoverNothing
  <2>2. RoomState' = RoomState
    BY <2>1 DEF RoomState, Seen
  <2>3. CASE GameExits \/ PidChecker \/ stopAllRunners \/ UNCHANGED vars
             \/ \E s \in Streams : Scanner(s)
    <3>1. UNCHANGED <<crashes, told, runner, state, saved>>
      BY <2>3 DEF GameExits, PidChecker, stopAllRunners, Scanner, ScannerReads, ScannerSends,
           ScannerReturns
    <3> QED BY <2>2, <3>1
  <2>4. CASE recoverSave \/ SelfSend
    BY <2>2, <2>4 DEF recoverSave, SelfSend
  <2>5. CASE HandleShutdown
    BY <2>5 DEF HandleShutdown
  <2>6. CASE HandleRunnerStop \/ HandlePidCheck \/ closePipes \/ SubroutinesDone \/ archiveInstance
    <3>1. /\ UNCHANGED <<crashes, told>> /\ (saved' = saved \/ saved' = NoFile)
          /\ runner # "save" /\ ~LoopRuns'
      BY <2>6 DEF HandleRunnerStop, HandlePidCheck, Takes, closePipes, SubroutinesDone,
           archiveInstance
    <3> QED BY <2>2, <3>1
  <2>7. CASE Exit
    BY <2>2, <2>7 DEF Exit, ForgetAll
  <2>8. CASE Crash
    <3>1. crashes' = crashes + 1 /\ crashes \in Nat
      BY <2>8 DEF Crash, TypeOK
    <3> QED BY <3>1
  <2>9. CASE recoverRunner \/ RecoverNothing
    <3>1. runner = "none" /\ UNCHANGED <<crashes, told>>
      BY <1>0, <2>9 DEF recoverRunner, RecoverNothing, Up
    <3>2. CASE recoverRunner
      BY <2>2, <3>1, <3>2 DEF recoverRunner
    <3>3. CASE RecoverNothing
      BY <2>2, <3>1, <3>3 DEF RecoverNothing
    <3> QED BY <2>9, <3>2, <3>3
  <2> QED BY <1>2, <2>3, <2>4, <2>5, <2>6, <2>7, <2>8, <2>9 DEF Next, Runner
<1>3. CASE Message
  <2>1. PICK kind \in Kinds :
          /\ Handles(kind) /\ LoopRuns'
          /\ state' = IF kind = "lobbyid" THEN instanceStateInLobby
                      ELSE IF kind = "start" /\ state = instanceStateInLobby
                        THEN instanceStateInGame
                      ELSE state
          /\ runner' # "save" => kind \notin {"lobbyid", "start"}
    <3>1. CASE HandleLobbyId
      BY <3>1 DEF HandleLobbyId, Kinds
    <3>2. CASE HandleStart
      BY <3>2 DEF HandleStart, Kinds
    <3>3. CASE HandleReport
      <4>1. Handles("report") /\ state' = state /\ runner' \in {"save", "loop"}
        BY <3>3 DEF HandleReport, Handles
      <4> QED BY <4>1 DEF Kinds
    <3>4. CASE HandleDebug
      BY <3>4 DEF HandleDebug, Handles, Kinds
    <3>5. CASE HandleLog
      BY <3>5 DEF HandleLog, Handles, Kinds
    <3>6. CASE HandleLobbyError
      BY <3>6 DEF HandleLobbyError, Kinds
    <3> QED BY <1>3, <3>1, <3>2, <3>3, <3>4, <3>5, <3>6 DEF Message
  <2>2. RoomState' =
          IF kind = "lobbyid" THEN instanceStateInLobby
          ELSE IF kind = "start" /\ RoomState = instanceStateInLobby THEN instanceStateInGame
          ELSE RoomState
    BY <2>1, RoomStateMoves
  <2>3. UNCHANGED <<crashes, told, saved>> /\ runner = "loop"
    BY <2>1 DEF Handles
  <2>4. ASSUME crashes = 0, ~told PROVE state' = RoomState'
    BY <2>1, <2>2, <2>3, <2>4
  <2>5. ASSUME crashes = 0, ~told, Loadable, runner' # "save"
        PROVE  saved.StateSaved = RoomState'
    BY <2>1, <2>2, <2>3, <2>5
  <2> QED BY <2>1, <2>3, <2>4, <2>5
<1> QED BY <1>1, <1>2, <1>3

(* While the backend is not killed and instance.json can be written, the   *)
(* state is what the handled lines say of the room, over any number of     *)
(* restarts, until the game is told to shut down.                          *)
THEOREM StateFollowsTheGame == "save" \notin Faults => (Spec => []StateFollowsGame)
<1> SUFFICES ASSUME "save" \notin Faults PROVE Spec => []StateFollowsGame
  OBVIOUS
<1>1. Init => SaidInv /\ FollowInv
  <2> SUFFICES ASSUME Init PROVE SaidInv /\ FollowInv
    OBVIOUS
  <2>1. SaidInv
    BY DEF Init, SaidInv
  <2>2. FollowInv
    BY DEF Init, FollowInv, Loadable, RoomState, Seen
  <2> QED BY <2>1, <2>2
<1>2. TypeOK /\ OrderInv /\ [Next]_vars => OrderInv'
  BY FeedStep
<1>3. TypeOK /\ OrderInv /\ SaidInv /\ FollowInv /\ [Next]_vars => SaidInv' /\ FollowInv'
  BY SaidNext, FollowNext
<1>4. FollowInv => StateFollowsGame
  BY DEF FollowInv, StateFollowsGame, LoopRuns
<1> QED
  BY <1>1, <1>2, <1>3, <1>4, OrderInit, TypeCorrect, PTL DEF Spec
=============================================================================
