------------------------------ MODULE GameSubmit ------------------------------
(***************************************************************************)
(* The game reports of all runners and the pool of database connections    *)
(* they share (gamesubmit.go, the report handlers of messageProcessor.go,  *)
(* db.go).  A runner handles one line at a time.  The first report of a    *)
(* game inserts its rows in a transaction; each later one adds a frame;    *)
(* the final one adds a frame, opens a transaction and, while it is open,  *)
(* updates the rows with statements that each take a connection of their   *)
(* own from the pool and commit by themselves.                             *)
(*                                                                         *)
(* A connection in use is named by its user and what it is used for:       *)
(* <<r, "tx">> is the one of the transaction runner r has open,            *)
(* <<r, "exec">> the one dbpool.Exec took for a statement of r.            *)
(* Frames and the columns of the rows are not modelled.                    *)
(***************************************************************************)
EXTENDS Naturals, Sequences, FiniteSets

CONSTANTS
  Runners,     \* the runners, each with a game in play
  MaxConns,    \* the size of the pool ("pool_max_conns")
  NumPlayers,  \* the players of a game that have a public key
  MaxReports,  \* bound: how many reports a game sends before the final one
  MaxCrashes,  \* bound: how often the backend is killed and started again
  Faults       \* the calls that may fail, a subset of FaultPoints

FaultPoints == {"json", "begin", "insert", "commit", "save", "update"}

ASSUME GameSubmitAssumption ==
  /\ IsFiniteSet(Runners)
  /\ MaxConns \in Nat \ {0} /\ NumPlayers \in Nat \ {0}
  /\ MaxReports \in Nat /\ MaxCrashes \in Nat
  /\ Faults \subseteq FaultPoints

VARIABLES
  pc,        \* where the message loop of a runner is
  ending,    \* is it inside submitEnd?
  pos,       \* the player submitEnd updates next
  conns,     \* the connections of the pool that are in use
  GameId,    \* inst.GameId, 0 before the game has one
  saved,     \* GameId in instance.json
  games,     \* the ids the sequence of table games handed out, with their rows
  reports,   \* how many reports a game sent
  over,      \* did it send its final report?
  crashes    \* how often the backend was killed

lineVars == <<reports, over, crashes>>
instVars == <<GameId, saved>>
vars == <<pc, ending, pos, conns, instVars, games, lineVars>>

Pcs == {"loop", "begin", "insert", "rows", "save", "query", "frame", "open",
        "players", "game", "close"}

(* An id with its row, once that is committed, and those of its players.   *)
Rows   == [committed : BOOLEAN, final : SUBSET (1..NumPlayers), ended : BOOLEAN]
NewRow == [committed |-> FALSE, final |-> {}, ended |-> FALSE]

ExecPcs == {"query", "frame", "players", "game"}

Free         == Cardinality(conns) < MaxConns
Executing(r) == <<r, "exec">> \in conns

(* A runner that can only go on with another connection.                   *)
Waiting(r) ==
  \/ pc[r] \in {"begin", "open"}
  \/ pc[r] \in ExecPcs /\ ~Executing(r)

Goes(r, from, to) ==
  /\ pc[r] = from
  /\ pc' = [pc EXCEPT ![r] = to]

-----------------------------------------------------------------------------
(* The lines of the game.                                                  *)

(* "__REPORT__".  A report that cannot be parsed begins no game, but the   *)
(* file is written; it adds no frame.                                      *)
submitReport(r) ==
  /\ reports[r] < MaxReports /\ ~over[r]
  /\ \/ Goes(r, "loop", IF GameId[r] = 0 THEN "begin" ELSE "frame")
     \/ "json" \in Faults /\ Goes(r, "loop", IF GameId[r] = 0 THEN "save" ELSE "loop")
  /\ reports' = [reports EXCEPT ![r] = @ + 1]
  /\ UNCHANGED <<ending, pos, conns, instVars, games, over, crashes>>

(* "__REPORTextended__": dropped without a GameId.                         *)
submitFinalReport(r) ==
  /\ ~over[r]
  /\ over' = [over EXCEPT ![r] = TRUE]
  /\ \/ GameId[r] # 0 /\ Goes(r, "loop", "frame") /\ ending' = [ending EXCEPT ![r] = TRUE]
     \/ /\ GameId[r] = 0 \/ "json" \in Faults
        /\ Goes(r, "loop", "loop")
        /\ UNCHANGED ending
  /\ UNCHANGED <<pos, conns, instVars, games, reports, crashes>>

(* Any other line that asks the database: joins, logged actions.           *)
OtherLine(r) ==
  /\ Goes(r, "loop", "query")
  /\ UNCHANGED <<ending, pos, conns, instVars, games, lineVars>>

-----------------------------------------------------------------------------
(* submitBegin: everything inside one transaction.                         *)

(* BeginFunc takes a connection for as long as the transaction is open.    *)
OpensTx(r, from, to) ==
  /\ Free
  /\ Goes(r, from, to)
  /\ conns' = conns \union {<<r, "tx">>}

submitBegin(r) ==
  /\ \/ OpensTx(r, "begin", "insert")
     \/ "begin" \in Faults /\ Goes(r, "begin", "save") /\ UNCHANGED conns
  /\ UNCHANGED <<ending, pos, instVars, games, lineVars>>

(* The insert takes the next id, also if the transaction fails later.      *)
InsertGame(r) ==
  /\ \/ /\ Goes(r, "insert", "rows")
        /\ games' = Append(games, NewRow)
        /\ GameId' = [GameId EXCEPT ![r] = Len(games) + 1]
        /\ UNCHANGED conns
     \/ /\ "insert" \in Faults
        /\ Goes(r, "insert", "save")
        /\ conns' = conns \ {<<r, "tx">>}
        /\ UNCHANGED <<games, GameId>>
  /\ UNCHANGED <<ending, pos, saved, lineVars>>

(* Mutant: the rollback keeps the connection.                              *)
RollbackLeaks(r) ==
  /\ Goes(r, "rows", "save")
  /\ \/ /\ games' = [games EXCEPT ![GameId[r]].committed = TRUE]
        /\ conns' = conns \ {<<r, "tx">>}
     \/ "commit" \in Faults /\ UNCHANGED <<conns, games>>
  /\ UNCHANGED <<ending, pos, instVars, lineVars>>

(* The players, the categories and the commit.  If one of them fails all   *)
(* is rolled back, and the id is returned just the same.                   *)
CommitBegin(r) ==
  /\ Goes(r, "rows", "save")
  /\ conns' = conns \ {<<r, "tx">>}
  /\ \/ games' = [games EXCEPT ![GameId[r]].committed = TRUE]
     \/ "commit" \in Faults /\ UNCHANGED games
  /\ UNCHANGED <<ending, pos, instVars, lineVars>>

recoverSave(r) ==
  /\ Goes(r, "save", "loop")
  /\ \/ saved' = [saved EXCEPT ![r] = GameId[r]]
     \/ "save" \in Faults /\ UNCHANGED saved
  /\ UNCHANGED <<ending, pos, conns, GameId, games, lineVars>>

-----------------------------------------------------------------------------
(* Statements of their own, each with a connection of the pool.            *)

Acquire(r) ==
  /\ pc[r] \in ExecPcs /\ ~Executing(r) /\ Free
  /\ conns' = conns \union {<<r, "exec">>}
  /\ UNCHANGED <<pc, ending, pos, instVars, games, lineVars>>

Returns(r, from, to) ==
  /\ Executing(r)
  /\ Goes(r, from, to)
  /\ conns' = conns \ {<<r, "exec">>}

QueryReturns(r) ==
  /\ Returns(r, "query", "loop")
  /\ UNCHANGED <<ending, pos, instVars, games, lineVars>>

(* submitFrame: an error is only logged, and submitEnd goes on after it.   *)
submitFrame(r) ==
  /\ Returns(r, "frame", IF ending[r] THEN "open" ELSE "loop")
  /\ UNCHANGED <<ending, pos, instVars, games, lineVars>>

-----------------------------------------------------------------------------
(* submitEnd, after its frame.                                             *)

submitEnd(r) ==
  /\ \/ OpensTx(r, "open", "players") /\ UNCHANGED ending
     \/ /\ "begin" \in Faults
        /\ Goes(r, "open", "loop")
        /\ ending' = [ending EXCEPT ![r] = FALSE]
        /\ UNCHANGED conns
  /\ pos' = [pos EXCEPT ![r] = 1]
  /\ UNCHANGED <<instVars, games, lineVars>>

(* Mutant: one player too many.                                            *)
AfterPlayerLate(r) == IF pos[r] > NumPlayers THEN "game" ELSE "players"

AfterPlayer(r) == IF pos[r] = NumPlayers THEN "game" ELSE "players"

UpdatesPlayer(r) ==
  /\ Returns(r, "players", AfterPlayer(r))
  /\ pos' = [pos EXCEPT ![r] = @ + 1]
  /\ games' = [games EXCEPT ![GameId[r]].final =
                 IF games[GameId[r]].committed THEN @ \union {pos[r]} ELSE @]

(* Mutants: the error of one player is only logged; the update is tried    *)
(* until it succeeds.                                                      *)
PlayerErrorsIgnored(r) ==
  /\ \/ UpdatesPlayer(r)
     \/ /\ "update" \in Faults
        /\ Returns(r, "players", AfterPlayer(r))
        /\ pos' = [pos EXCEPT ![r] = @ + 1]
        /\ UNCHANGED games
  /\ UNCHANGED <<ending, instVars, lineVars>>

PlayerRetried(r) ==
  /\ \/ UpdatesPlayer(r)
     \/ "update" \in Faults /\ Returns(r, "players", "players") /\ UNCHANGED <<pos, games>>
  /\ UNCHANGED <<ending, instVars, lineVars>>

(* One player; an error ends the function.  An update of a row that was    *)
(* rolled back changes nothing, and nobody looks.                          *)
FinalizePlayer(r) ==
  /\ \/ UpdatesPlayer(r)
     \/ "update" \in Faults /\ Returns(r, "players", "close") /\ UNCHANGED <<pos, games>>
  /\ UNCHANGED <<ending, instVars, lineVars>>

FinalizeGame(r) ==
  /\ Returns(r, "game", "close")
  /\ \/ games' = [games EXCEPT ![GameId[r]].ended = games[GameId[r]].committed]
     \/ "update" \in Faults /\ UNCHANGED games
  /\ UNCHANGED <<ending, pos, instVars, lineVars>>

(* The transaction, empty, is committed or rolled back.                    *)
CloseTx(r) ==
  /\ Goes(r, "close", "loop")
  /\ ending' = [ending EXCEPT ![r] = FALSE]
  /\ conns' = conns \ {<<r, "tx">>}
  /\ UNCHANGED <<pos, instVars, games, lineVars>>

-----------------------------------------------------------------------------
(* The backend is killed and started again: open transactions are rolled   *)
(* back, the lines being handled are lost, recoverLoad reads the file.     *)
Restart ==
  /\ crashes < MaxCrashes
  /\ crashes' = crashes + 1
  /\ pc' = [r \in Runners |-> "loop"]
  /\ ending' = [r \in Runners |-> FALSE]
  /\ pos' = [r \in Runners |-> 1]
  /\ conns' = {}
  /\ GameId' = saved
  /\ UNCHANGED <<saved, games, reports, over>>

Init ==
  /\ pc = [r \in Runners |-> "loop"]
  /\ ending = [r \in Runners |-> FALSE]
  /\ pos = [r \in Runners |-> 1]
  /\ conns = {}
  /\ GameId = [r \in Runners |-> 0] /\ saved = [r \in Runners |-> 0]
  /\ games = <<>>
  /\ reports = [r \in Runners |-> 0] /\ over = [r \in Runners |-> FALSE]
  /\ crashes = 0

Line(r) == submitReport(r) \/ submitFinalReport(r) \/ OtherLine(r)

Step(r) ==
  \/ submitBegin(r) \/ InsertGame(r) \/ CommitBegin(r) \/ recoverSave(r)
  \/ Acquire(r) \/ QueryReturns(r) \/ submitFrame(r)
  \/ submitEnd(r) \/ FinalizePlayer(r) \/ FinalizeGame(r) \/ CloseTx(r)

Next == (\E r \in Runners : Line(r) \/ Step(r)) \/ Restart

Spec == Init /\ [][Next]_vars

(* A runner that can go on with the line it handles does; whether the game *)
(* writes another is up to the game.  The pool wakes those that wait in    *)
(* turn: nobody is passed over for ever while connections come free.       *)
Fairness == \A r \in Runners : WF_vars(Step(r)) /\ SF_vars(Free /\ Step(r))

FairSpec == Spec /\ Fairness

-----------------------------------------------------------------------------
(* Properties.                                                             *)

(* Every variable has its type.                                            *)
TypeOK ==
  /\ pc \in [Runners -> Pcs]
  /\ ending \in [Runners -> BOOLEAN]
  /\ pos \in [Runners -> Nat \ {0}]
  /\ conns \subseteq Runners \X {"tx", "exec"}
  /\ games \in Seq(Rows)
  /\ GameId \in [Runners -> 0..Len(games)] /\ saved \in [Runners -> 0..Len(games)]
  /\ reports \in [Runners -> 0..MaxReports]
  /\ over \in [Runners -> BOOLEAN]
  /\ crashes \in 0..MaxCrashes

(* Everyone waits for a connection, and nobody can give one back.          *)
Exhausted ==
  /\ ~Free
  /\ \E r \in Runners : Waiting(r)
  /\ \A r \in Runners : pc[r] = "loop" \/ Waiting(r)

(* The pool runs dry for good in one way only: every connection is held by *)
(* the idle transaction of a submitEnd that waits for a second one.  So it *)
(* takes as many games ending at once as there are connections             *)
(* (submitEnd; no path of the others keeps a connection, errors included). *)
ExhaustedByEnds ==
  Exhausted => Cardinality({r \in Runners : pc[r] \in {"players", "game"}}) >= MaxConns

(* With more connections than runners it never does.                       *)
NeverExhausted == Cardinality(Runners) < MaxConns => ~Exhausted

(* A game that has its end in the database has a row, and all its players  *)
(* have theirs final, although each update commits by itself, any may fail *)
(* and the backend may be killed between them (submitEnd).                 *)
EndedIsFinal ==
  \A g \in DOMAIN games :
    games[g].ended => games[g].committed /\ games[g].final = 1..NumPlayers

(* Every line is handled to its end, unless the pool runs dry (submitEnd   *)
(* and submitBegin return on every path).                                  *)
LinesEnd == \A r \in Runners : pc[r] # "loop" ~> (pc[r] = "loop" \/ Exhausted)
=============================================================================
