-------------------------- MODULE GameSubmitProofs --------------------------
(***************************************************************************)
(* Proofs about GameSubmit: type correctness, the one way the pool of      *)
(* connections runs dry, how large it has to be, and what the database has *)
(* of a game that ended.                                                   *)
(***************************************************************************)
EXTENDS GameSubmit, FiniteSetTheorems, TLAPS

USE DEF lineVars, instVars, vars

LEMMA ConstantFacts ==
  /\ IsFiniteSet(Runners)
  /\ MaxConns \in Nat \ {0} /\ NumPlayers \in Nat \ {0}
  /\ MaxReports \in Nat /\ MaxCrashes \in Nat
BY GameSubmitAssumption DEF GameSubmitAssumption

LEMMA AppendFacts ==
  ASSUME NEW S, NEW q \in Seq(S), NEW e \in S
  PROVE  /\ Append(q, e) \in Seq(S) /\ Len(Append(q, e)) = Len(q) + 1
         /\ Append(q, e)[Len(q) + 1] = e
         /\ \A k \in 1..Len(q) : Append(q, e)[k] = q[k]
OBVIOUS

(* The steps of a runner on the rows of its game: one field of one row     *)
(* changes, to a value of its type.                                        *)
LEMMA ExceptFacts ==
  ASSUME NEW g \in Seq(Rows), NEW k \in 1..Len(g), NEW row \in Rows
  PROVE  /\ [g EXCEPT ![k] = row] \in Seq(Rows)
         /\ Len([g EXCEPT ![k] = row]) = Len(g)
         /\ [g EXCEPT ![k] = row][k] = row
         /\ \A j \in 1..Len(g) : j # k => [g EXCEPT ![k] = row][j] = g[j]
<1> HIDE DEF Rows
<1> QED OBVIOUS

-----------------------------------------------------------------------------
(* Inside a submission the game has an id, and submitEnd has not gone past *)
(* the last player.                                                        *)
HasIdPcs == {"rows", "frame", "open", "players", "game"}

IdInv ==
  \A r \in Runners :
    /\ pc[r] \in HasIdPcs => GameId[r] # 0
    /\ pc[r] = "players" => pos[r] <= NumPlayers

BaseInv == TypeOK /\ IdInv

LEMMA BaseInit == Init => BaseInv
<1> SUFFICES ASSUME Init PROVE BaseInv
  OBVIOUS
<1>1. games \in Seq(Rows) /\ Len(games) = 0
  BY DEF Init
<1>2. TypeOK
  BY <1>1, ConstantFacts DEF Init, TypeOK, Pcs
<1>3. IdInv
  BY DEF Init, IdInv, HasIdPcs
<1> QED BY <1>2, <1>3 DEF BaseInv

LEMMA ConnAdded ==
  ASSUME TypeOK, NEW r \in Runners, NEW use \in {"tx", "exec"}
  PROVE  conns \union {<<r, use>>} \subseteq Runners \X {"tx", "exec"}
BY DEF TypeOK

(* What all steps but three leave of the type invariant.                   *)
LEMMA SameGames ==
  ASSUME TypeOK, UNCHANGED <<games, GameId, saved, reports, over, crashes>>,
         pc' \in [Runners -> Pcs], ending' \in [Runners -> BOOLEAN],
         pos' \in [Runners -> Nat \ {0}], conns' \subseteq Runners \X {"tx", "exec"}
  PROVE  TypeOK'
BY DEF TypeOK

LEMMA LineBase ==
  ASSUME BaseInv, NEW r \in Runners, Line(r)
  PROVE  BaseInv'
<1> USE DEF BaseInv, IdInv, HasIdPcs
<1>1. CASE submitReport(r)
  <2>1. pc' \in [Runners -> Pcs] /\ reports' \in [Runners -> 0..MaxReports]
    <3>1. pc' \in [Runners -> Pcs]
      BY <1>1 DEF submitReport, Goes, TypeOK, Pcs
    <3>2. reports[r] + 1 \in 0..MaxReports
      BY <1>1, ConstantFacts DEF submitReport, TypeOK
    <3>3. reports' = [reports EXCEPT ![r] = reports[r] + 1]
      BY <1>1 DEF submitReport
    <3> QED BY <3>1, <3>2, <3>3 DEF TypeOK
  <2>2. TypeOK'
    BY <1>1, <2>1 DEF submitReport, TypeOK
  <2>3. IdInv'
    BY <1>1 DEF submitReport, Goes, TypeOK
  <2> QED BY <2>2, <2>3
<1>2. CASE submitFinalReport(r)
  <2>1. pc' \in [Runners -> Pcs]
    BY <1>2 DEF submitFinalReport, Goes, TypeOK, Pcs
  <2>2. ending' \in [Runners -> BOOLEAN] /\ over' \in [Runners -> BOOLEAN]
    BY <1>2 DEF submitFinalReport, TypeOK
  <2>3. TypeOK'
    BY <1>2, <2>1, <2>2 DEF submitFinalReport, TypeOK
  <2>4. IdInv'
    BY <1>2 DEF submitFinalReport, Goes, TypeOK
  <2> QED BY <2>3, <2>4
<1>3. CASE OtherLine(r)
  <2>1. TypeOK'
    BY <1>3, SameGames DEF OtherLine, Goes, TypeOK, Pcs
  <2>2. IdInv'
    BY <1>3 DEF OtherLine, Goes, TypeOK
  <2> QED BY <2>1, <2>2
<1> QED BY <1>1, <1>2, <1>3 DEF Line

LEMMA BeginBase ==
  ASSUME BaseInv, NEW r \in Runners, submitBegin(r) \/ InsertGame(r) \/ CommitBegin(r)
  PROVE  BaseInv'
<1> USE DEF BaseInv, IdInv, HasIdPcs
<1>1. CASE submitBegin(r)
  <2>1. TypeOK'
    <3>1. pc' \in [Runners -> Pcs]
      BY <1>1 DEF submitBegin, OpensTx, Goes, TypeOK, Pcs
    <3>2. conns' \subseteq Runners \X {"tx", "exec"}
      BY <1>1, ConnAdded DEF submitBegin, OpensTx, TypeOK
    <3> QED BY <1>1, <3>1, <3>2, SameGames DEF submitBegin, TypeOK
  <2>2. IdInv'
    BY <1>1 DEF submitBegin, OpensTx, Goes, TypeOK
  <2> QED BY <2>1, <2>2
<1>2. CASE InsertGame(r)
  <2>1. NewRow \in Rows
    BY DEF NewRow, Rows
  <2>2. /\ pc' \in [Runners -> Pcs]
        /\ conns' \subseteq Runners \X {"tx", "exec"}
    BY <1>2 DEF InsertGame, Goes, TypeOK, Pcs
  <2>3. games' \in Seq(Rows) /\ Len(games) <= Len(games')
    <3>1. CASE games' = Append(games, NewRow)
      BY <2>1, <3>1, AppendFacts DEF TypeOK
    <3>2. CASE UNCHANGED games
      BY <3>2 DEF TypeOK
    <3> QED BY <1>2, <3>1, <3>2 DEF InsertGame
  <2>4. GameId' \in [Runners -> 0..Len(games')] /\ saved' \in [Runners -> 0..Len(games')]
    <3>1. Len(games) \in Nat
      BY DEF TypeOK
    <3>2. CASE games' = Append(games, NewRow) /\ GameId' = [GameId EXCEPT ![r] = Len(games) + 1]
      <4>1. Len(games') = Len(games) + 1
        BY <3>2, <2>1, AppendFacts DEF TypeOK
      <4> QED BY <1>2, <3>1, <3>2, <4>1 DEF InsertGame, TypeOK
    <3>3. CASE UNCHANGED <<games, GameId>>
      BY <1>2, <3>3 DEF InsertGame, TypeOK
    <3> QED BY <1>2, <3>2, <3>3 DEF InsertGame
  <2>5. TypeOK'
    BY <1>2, <2>2, <2>3, <2>4 DEF InsertGame, TypeOK
  <2>6. IdInv'
    <3>1. Len(games) \in Nat
      BY DEF TypeOK
    <3> QED BY <1>2, <3>1 DEF InsertGame, Goes, TypeOK
  <2> QED BY <2>5, <2>6
<1>3. CASE CommitBegin(r)
  <2>1. /\ pc' \in [Runners -> Pcs]
        /\ conns' \subseteq Runners \X {"tx", "exec"}
    BY <1>3 DEF CommitBegin, Goes, TypeOK, Pcs
  <2>2. GameId[r] \in 1..Len(games)
    BY <1>3 DEF CommitBegin, Goes, TypeOK
  <2>3. games' \in Seq(Rows) /\ Len(games') = Len(games)
    <3>1. CASE games' = [games EXCEPT ![GameId[r]].committed = TRUE]
      <4>1. [games[GameId[r]] EXCEPT !.committed = TRUE] \in Rows
        <5>1. games[GameId[r]] \in Rows
          BY <2>2 DEF TypeOK
        <5> QED BY <5>1 DEF Rows
      <4> QED BY <2>2, <3>1, <4>1, ExceptFacts DEF TypeOK
    <3> QED BY <1>3, <3>1 DEF CommitBegin, TypeOK
  <2>4. TypeOK'
    BY <1>3, <2>1, <2>3 DEF CommitBegin, TypeOK
  <2>5. IdInv'
    BY <1>3 DEF CommitBegin, Goes, TypeOK
  <2> QED BY <2>4, <2>5
<1> QED BY <1>1, <1>2, <1>3

LEMMA PoolBase ==
  ASSUME BaseInv, NEW r \in Runners,
         recoverSave(r) \/ Acquire(r) \/ QueryReturns(r) \/ submitFrame(r)
           \/ submitEnd(r) \/ CloseTx(r)
  PROVE  BaseInv'
<1> USE DEF BaseInv, IdInv, HasIdPcs
<1>1. CASE recoverSave(r)
  BY <1>1 DEF recoverSave, Goes, TypeOK, Pcs
<1>2. CASE Acquire(r)
  <2>1. TypeOK'
    <3>1. conns' \subseteq Runners \X {"tx", "exec"}
      BY <1>2, ConnAdded DEF Acquire
    <3> QED BY <1>2, <3>1, SameGames DEF Acquire, TypeOK
  <2> QED BY <1>2, <2>1 DEF Acquire
<1>3. CASE QueryReturns(r) \/ submitFrame(r)
  <2>1. TypeOK'
    BY <1>3, SameGames DEF QueryReturns, submitFrame, Returns, Goes, TypeOK, Pcs
  <2> QED BY <1>3, <2>1 DEF QueryReturns, submitFrame, Returns, Goes, TypeOK
<1>4. CASE submitEnd(r)
  <2>1. /\ pc' \in [Runners -> Pcs] /\ ending' \in [Runners -> BOOLEAN]
        /\ pos' \in [Runners -> Nat \ {0}]
    <3>1. pc' \in [Runners -> Pcs]
      BY <1>4 DEF submitEnd, OpensTx, Goes, TypeOK, Pcs
    <3>2. ending' \in [Runners -> BOOLEAN]
      BY <1>4 DEF submitEnd, TypeOK
    <3>3. pos' = [pos EXCEPT ![r] = 1] /\ 1 \in Nat \ {0}
      BY <1>4 DEF submitEnd
    <3> QED BY <3>1, <3>2, <3>3 DEF TypeOK
  <2>4. conns' \subseteq Runners \X {"tx", "exec"}
    BY <1>4, ConnAdded DEF submitEnd, OpensTx, TypeOK
  <2>2. TypeOK'
    BY <1>4, <2>1, <2>4, SameGames DEF submitEnd
  <2>3. IdInv'
    BY <1>4, ConstantFacts DEF submitEnd, OpensTx, Goes, TypeOK
  <2> QED BY <2>2, <2>3
<1>5. CASE CloseTx(r)
  <2>1. TypeOK'
    BY <1>5, SameGames DEF CloseTx, Goes, TypeOK, Pcs
  <2> QED BY <1>5, <2>1 DEF CloseTx, Goes, TypeOK
<1> QED BY <1>1, <1>2, <1>3, <1>4, <1>5

(* What submitEnd does to a row keeps the row a row.                       *)
LEMMA EndRows ==
  ASSUME BaseInv, NEW r \in Runners, UpdatesPlayer(r) \/ FinalizeGame(r)
  PROVE  /\ GameId[r] \in 1..Len(games)
         /\ games' \in Seq(Rows) /\ Len(games') = Len(games)
         /\ \A k \in 1..Len(games) : k # GameId[r] => games'[k] = games[k]
         /\ games'[GameId[r]].committed = games[GameId[r]].committed
<1>1. GameId[r] \in 1..Len(games)
  BY DEF BaseInv, TypeOK, IdInv, HasIdPcs, UpdatesPlayer, FinalizeGame, Returns, Goes
<1> DEFINE row == games[GameId[r]]
<1>2. row \in Rows
  BY <1>1 DEF BaseInv, TypeOK
<1>3. CASE UpdatesPlayer(r)
  <2> DEFINE new == [row EXCEPT !.final = IF row.committed THEN @ \union {pos[r]} ELSE @]
  <2>1. pos[r] \in 1..NumPlayers
    BY <1>3, ConstantFacts DEF BaseInv, TypeOK, IdInv, UpdatesPlayer, Returns, Goes
  <2>2. new \in Rows /\ new.committed = row.committed
    BY <1>2, <2>1 DEF Rows
  <2>3. games' = [games EXCEPT ![GameId[r]] = new]
    BY <1>3 DEF UpdatesPlayer
  <2> QED BY <1>1, <2>2, <2>3, ExceptFacts DEF BaseInv, TypeOK
<1>4. CASE FinalizeGame(r)
  <2> DEFINE new == [row EXCEPT !.ended = row.committed]
  <2>1. new \in Rows /\ new.committed = row.committed
    BY <1>2 DEF Rows
  <2>2. CASE games' = [games EXCEPT ![GameId[r]] = new]
    BY <1>1, <2>1, <2>2, ExceptFacts DEF BaseInv, TypeOK
  <2>3. CASE UNCHANGED games
    BY <1>1, <2>3 DEF BaseInv, TypeOK
  <2> QED BY <1>4, <2>2, <2>3 DEF FinalizeGame
<1> QED BY <1>3, <1>4

LEMMA EndBase ==
  ASSUME BaseInv, NEW r \in Runners, FinalizePlayer(r) \/ FinalizeGame(r)
  PROVE  BaseInv'
<1>1. CASE FinalizePlayer(r)
  <2>1. games' \in Seq(Rows) /\ Len(games') = Len(games)
    <3>1. CASE UpdatesPlayer(r)
      BY <3>1, EndRows
    <3> QED BY <1>1, <3>1 DEF FinalizePlayer, BaseInv, TypeOK
  <2>2. pc' \in [Runners -> Pcs] /\ pos' \in [Runners -> Nat \ {0}]
    <3>1. AfterPlayer(r) \in Pcs /\ "close" \in Pcs
      BY DEF AfterPlayer, Pcs
    <3>2. pc' \in [Runners -> Pcs]
      BY <1>1, <3>1 DEF FinalizePlayer, UpdatesPlayer, Returns, Goes, BaseInv, TypeOK
    <3>3. pos' \in [Runners -> Nat \ {0}]
      <4>1. pos[r] + 1 \in Nat \ {0}
        BY DEF BaseInv, TypeOK
      <4>2. pos' = [pos EXCEPT ![r] = pos[r] + 1] \/ pos' = pos
        BY <1>1 DEF FinalizePlayer, UpdatesPlayer
      <4> QED BY <4>1, <4>2 DEF BaseInv, TypeOK
    <3> QED BY <3>2, <3>3
  <2>3. TypeOK'
    BY <1>1, <2>1, <2>2 DEF FinalizePlayer, UpdatesPlayer, Returns, BaseInv, TypeOK
  <2>4. IdInv'
    BY <1>1, ConstantFacts DEF FinalizePlayer, UpdatesPlayer, AfterPlayer, Returns, Goes, BaseInv,
                               TypeOK, IdInv, HasIdPcs
  <2> QED BY <2>3, <2>4 DEF BaseInv
<1>2. CASE FinalizeGame(r)
  <2>1. games' \in Seq(Rows) /\ Len(games') = Len(games)
    BY <1>2, EndRows
  <2>2. TypeOK'
    BY <1>2, <2>1 DEF FinalizeGame, Returns, Goes, BaseInv, TypeOK, Pcs
  <2>3. IdInv'
    BY <1>2 DEF FinalizeGame, Returns, Goes, BaseInv, TypeOK, IdInv, HasIdPcs
  <2> QED BY <2>2, <2>3 DEF BaseInv
<1> QED BY <1>1, <1>2

LEMMA BaseNext == BaseInv /\ [Next]_vars => BaseInv'
<1> SUFFICES ASSUME BaseInv, [Next]_vars PROVE BaseInv'
  OBVIOUS
<1>1. CASE \E r \in Runners : Line(r) \/ Step(r)
  BY <1>1, LineBase, BeginBase, PoolBase, EndBase DEF Step
<1>2. CASE Restart
  <2>1. TypeOK'
    BY <1>2, ConstantFacts DEF Restart, BaseInv, TypeOK, Pcs
  <2> QED BY <1>2, <2>1 DEF Restart, BaseInv, IdInv, HasIdPcs
<1>3. CASE UNCHANGED vars
  BY <1>3 DEF BaseInv, TypeOK, IdInv
<1> QED BY <1>1, <1>2, <1>3 DEF Next

LEMMA Base == Spec => []BaseInv
BY BaseInit, BaseNext, PTL DEF Spec

(* The variables of GameSubmit have their types (gamesubmit.go).           *)
THEOREM TypeCorrect == Spec => []TypeOK
BY Base, PTL DEF BaseInv

-----------------------------------------------------------------------------
(* A connection is held only where its runner uses it.                     *)
TxPcs == {"insert", "rows", "players", "game", "close"}

ConnInv ==
  \A r \in Runners :
    /\ <<r, "tx">> \in conns => pc[r] \in TxPcs
    /\ <<r, "exec">> \in conns => pc[r] \in ExecPcs

LEMMA ConnInit == Init => ConnInv
BY DEF Init, ConnInv

LEMMA OpensTxConn ==
  ASSUME TypeOK, ConnInv, NEW r \in Runners, NEW from, NEW to \in TxPcs,
         from \notin ExecPcs, OpensTx(r, from, to)
  PROVE  ConnInv'
<1> SUFFICES ASSUME NEW q \in Runners
             PROVE  /\ <<q, "tx">> \in conns' => pc'[q] \in TxPcs
                    /\ <<q, "exec">> \in conns' => pc'[q] \in ExecPcs
  BY DEF ConnInv
<1>1. /\ <<q, "tx">> \in conns' => q = r \/ <<q, "tx">> \in conns
      /\ <<q, "exec">> \in conns' => <<q, "exec">> \in conns
  BY DEF OpensTx
<1>2. pc[r] = from /\ pc' = [pc EXCEPT ![r] = to]
  BY DEF OpensTx, Goes
<1> QED BY <1>1, <1>2 DEF ConnInv, TypeOK

LEMMA ConnNext == BaseInv /\ ConnInv /\ [Next]_vars => ConnInv'
<1> SUFFICES ASSUME TypeOK, ConnInv, [Next]_vars PROVE ConnInv'
  BY DEF BaseInv
<1> USE DEF ConnInv, TxPcs, ExecPcs
<1>1. ASSUME NEW r \in Runners, Line(r) PROVE ConnInv'
  BY <1>1 DEF Line, submitReport, submitFinalReport, OtherLine, Goes, TypeOK
<1>2. ASSUME NEW r \in Runners, submitBegin(r) \/ InsertGame(r) \/ CommitBegin(r)
      PROVE  ConnInv'
  <2>1. CASE OpensTx(r, "begin", "insert")
    BY <2>1, OpensTxConn
  <2>2. CASE Goes(r, "begin", "save") /\ UNCHANGED conns
    BY <2>2 DEF Goes, TypeOK
  <2>3. CASE InsertGame(r) \/ CommitBegin(r)
    BY <2>3 DEF InsertGame, CommitBegin, Goes, TypeOK
  <2> QED BY <1>2, <2>1, <2>2, <2>3 DEF submitBegin
<1>3. ASSUME NEW r \in Runners, recoverSave(r) \/ Acquire(r)
      PROVE  ConnInv'
  <2>1. CASE recoverSave(r)
    BY <2>1 DEF recoverSave, Goes, TypeOK
  <2>2. CASE Acquire(r)
    <3>1. pc' = pc /\ pc[r] \in ExecPcs /\ conns' = conns \union {<<r, "exec">>}
      BY <2>2 DEF Acquire
    <3>2. \A q \in Runners :
            /\ <<q, "tx">> \in conns' => <<q, "tx">> \in conns
            /\ <<q, "exec">> \in conns' => q = r \/ <<q, "exec">> \in conns
      BY <3>1
    <3> QED BY <3>1, <3>2
  <2> QED BY <1>3, <2>1, <2>2
<1>4. ASSUME NEW r \in Runners, QueryReturns(r) \/ submitFrame(r)
      PROVE  ConnInv'
  BY <1>4 DEF QueryReturns, submitFrame, Returns, Goes, TypeOK
<1>5. ASSUME NEW r \in Runners, submitEnd(r) \/ CloseTx(r)
      PROVE  ConnInv'
  <2>1. CASE OpensTx(r, "open", "players")
    BY <2>1, OpensTxConn
  <2>2. CASE Goes(r, "open", "loop") /\ UNCHANGED conns
    BY <2>2 DEF Goes, TypeOK
  <2>3. CASE CloseTx(r)
    BY <2>3 DEF CloseTx, Goes, TypeOK
  <2> QED BY <1>5, <2>1, <2>2, <2>3 DEF submitEnd
<1>6. ASSUME NEW r \in Runners, FinalizePlayer(r) \/ FinalizeGame(r)
      PROVE  ConnInv'
  BY <1>6 DEF FinalizePlayer, FinalizeGame, UpdatesPlayer, AfterPlayer, Returns, Goes, TypeOK
<1>7. CASE Restart
  BY <1>7 DEF Restart
<1>8. CASE UNCHANGED vars
  BY <1>8
<1> QED BY <1>1, <1>2, <1>3, <1>4, <1>5, <1>6, <1>7, <1>8 DEF Next, Step

LEMMA Conn == Spec => [](TypeOK /\ ConnInv)
BY Base, ConnInit, ConnNext, PTL DEF Spec, BaseInv

(* When everyone waits, no statement is being executed: each connection in *)
(* use is the transaction of another runner, which waits inside submitEnd. *)
LEMMA ExhaustedFacts ==
  ASSUME TypeOK, ConnInv, Exhausted
  PROVE  Cardinality({r \in Runners : pc[r] \in {"players", "game"}}) >= MaxConns
<1> DEFINE Ending == {r \in Runners : pc[r] \in {"players", "game"}}
<1>1. ASSUME NEW c \in conns
      PROVE  \E r \in Ending : c = <<r, "tx">>
  <2>1. PICK r \in Runners, use \in {"tx", "exec"} : c = <<r, use>>
    BY <1>1 DEF TypeOK
  <2>2. CASE use = "tx"
    <3>1. pc[r] \in TxPcs /\ (pc[r] = "loop" \/ Waiting(r))
      BY <1>1, <2>1, <2>2 DEF ConnInv, Exhausted
    <3>2. pc[r] \in {"players", "game"}
      BY <3>1 DEF TxPcs, Waiting, ExecPcs
    <3> QED BY <2>1, <2>2, <3>2
  <2>3. CASE use = "exec"
    <3>1. Executing(r)
      BY <1>1, <2>1, <2>3 DEF Executing
    <3>2. pc[r] \in ExecPcs /\ (pc[r] = "loop" \/ Waiting(r))
      BY <1>1, <2>1, <2>3 DEF ConnInv, Exhausted
    <3> QED BY <3>1, <3>2 DEF Waiting, ExecPcs
  <2> QED BY <2>1, <2>2, <2>3
<1> DEFINE user == [c \in conns |-> c[1]]
<1>2. user \in Injection(conns, Ending)
  <2>1. \A c \in conns : user[c] \in Ending /\ c = <<user[c], "tx">>
    BY <1>1
  <2>2. user \in [conns -> Ending]
    BY <2>1
  <2>3. \A a, b \in conns : user[a] = user[b] => a = b
    BY <2>1
  <2> HIDE DEF user, Ending
  <2> QED BY <2>2, <2>3 DEF Injection, IsInjective
<1>3. IsFiniteSet(Ending)
  BY FS_Subset, ConstantFacts
<1>4. IsFiniteSet(conns) /\ Cardinality(conns) <= Cardinality(Ending)
  <2> HIDE DEF user, Ending
  <2> QED BY <1>2, <1>3, FS_Injection
<1>5. Cardinality(conns) \in Nat /\ Cardinality(Ending) \in Nat
  BY <1>3, <1>4, FS_CardinalityType
<1>6. Cardinality(conns) >= MaxConns
  BY <1>5, ConstantFacts DEF Exhausted, Free
<1> HIDE DEF Ending
<1>7. Cardinality(Ending) >= MaxConns
  BY <1>4, <1>5, <1>6, ConstantFacts
<1> QED BY <1>7 DEF Ending

(* The pool runs dry for good only if as many games are in submitEnd as it *)
(* has connections (gamesubmit.go).                                        *)
THEOREM PoolRunsDryOnlyByEnds == Spec => []ExhaustedByEnds
<1>1. TypeOK /\ ConnInv => ExhaustedByEnds
  BY ExhaustedFacts DEF ExhaustedByEnds
<1> QED BY <1>1, Conn, PTL

(* A pool with more connections than there are runners never does, however *)
(* many games end at once and whatever fails (db.go, gamesubmit.go).       *)
THEOREM PoolSuffices == Spec => []NeverExhausted
<1>1. ASSUME TypeOK, ConnInv, Exhausted
      PROVE  ~(Cardinality(Runners) < MaxConns)
  <2> DEFINE Ending == {r \in Runners : pc[r] \in {"players", "game"}}
  <2>1. Cardinality(Ending) >= MaxConns
    BY <1>1, ExhaustedFacts
  <2>2. IsFiniteSet(Ending) /\ Cardinality(Ending) <= Cardinality(Runners)
    BY FS_Subset, ConstantFacts
  <2>3. Cardinality(Ending) \in Nat /\ Cardinality(Runners) \in Nat
    BY <2>2, FS_CardinalityType, ConstantFacts
  <2> HIDE DEF Ending
  <2> QED BY <2>1, <2>2, <2>3, ConstantFacts
<1>2. TypeOK /\ ConnInv => NeverExhausted
  BY <1>1 DEF NeverExhausted
<1> QED BY <1>2, Conn, PTL

-----------------------------------------------------------------------------
(* No two games share an id, neither in memory nor on the disk.            *)
OwnInv ==
  \A r, q \in Runners : r # q =>
    /\ GameId[r] # 0 => GameId[r] # GameId[q] /\ GameId[r] # saved[q]
    /\ saved[r] # 0 => saved[r] # saved[q]

LEMMA OwnInit == Init => OwnInv
BY DEF Init, OwnInv

LEMMA OwnNext == BaseInv /\ OwnInv /\ [Next]_vars => OwnInv'
<1> SUFFICES ASSUME TypeOK, OwnInv, [Next]_vars PROVE OwnInv'
  BY DEF BaseInv
<1>1. CASE UNCHANGED <<GameId, saved>>
  BY <1>1 DEF OwnInv
<1>2. ASSUME NEW r \in Runners, InsertGame(r) PROVE OwnInv'
  <2>1. CASE GameId' = [GameId EXCEPT ![r] = Len(games) + 1]
    <3>1. Len(games) \in Nat
      BY DEF TypeOK
    <3>2. \A q \in Runners : GameId[q] # Len(games) + 1 /\ saved[q] # Len(games) + 1
      BY <3>1 DEF TypeOK
    <3>3. saved' = saved
      BY <1>2 DEF InsertGame
    <3> QED BY <2>1, <3>1, <3>2, <3>3 DEF OwnInv, TypeOK
  <2>2. CASE UNCHANGED GameId
    BY <1>2, <2>2 DEF InsertGame, OwnInv
  <2> QED BY <1>2, <2>1, <2>2 DEF InsertGame
<1>3. ASSUME NEW r \in Runners, recoverSave(r) PROVE OwnInv'
  BY <1>3 DEF recoverSave, OwnInv, TypeOK
<1>4. CASE Restart
  BY <1>4 DEF Restart, OwnInv
<1>5. ASSUME NEW r \in Runners, Line(r) PROVE OwnInv'
  BY <1>1, <1>5 DEF Line, submitReport, submitFinalReport, OtherLine
<1>6. ASSUME NEW r \in Runners, Step(r) PROVE OwnInv'
  <2>1. CASE submitBegin(r) \/ CommitBegin(r) \/ Acquire(r) \/ QueryReturns(r) \/ submitFrame(r)
    BY <1>1, <2>1 DEF submitBegin, CommitBegin, Acquire, QueryReturns, submitFrame
  <2>2. CASE submitEnd(r) \/ FinalizePlayer(r) \/ FinalizeGame(r) \/ CloseTx(r)
    BY <1>1, <2>2 DEF submitEnd, FinalizePlayer, FinalizeGame, CloseTx
  <2> QED BY <1>2, <1>3, <1>6, <2>1, <2>2 DEF Step
<1>7. CASE UNCHANGED vars
  BY <1>1, <1>7
<1> QED BY <1>4, <1>5, <1>6, <1>7 DEF Next

(* How far submitEnd is says which players are final, if there is a row.   *)
FinalInv ==
  \A r \in Runners :
    pc[r] \in {"players", "game"} /\ games[GameId[r]].committed =>
      /\ pc[r] = "players" => 1..(pos[r] - 1) \subseteq games[GameId[r]].final
      /\ pc[r] = "game" => games[GameId[r]].final = 1..NumPlayers

EndInv == BaseInv /\ OwnInv /\ FinalInv /\ EndedIsFinal

LEMMA EndInit == Init => EndInv
<1> SUFFICES ASSUME Init PROVE EndInv
  OBVIOUS
<1>1. FinalInv /\ EndedIsFinal
  BY DEF Init, FinalInv, EndedIsFinal
<1> QED BY <1>1, BaseInit, OwnInit DEF EndInv

(* Steps that leave the rows alone, and take no runner into submitEnd.     *)
LEMMA EndSame ==
  ASSUME EndInv, UNCHANGED games,
         \A q \in Runners : pc'[q] \in {"players", "game"} =>
            pc'[q] = pc[q] /\ pos'[q] = pos[q] /\ GameId'[q] = GameId[q]
  PROVE  FinalInv' /\ EndedIsFinal'
BY DEF EndInv, FinalInv, EndedIsFinal

LEMMA EndBegin ==
  ASSUME EndInv, NEW r \in Runners, InsertGame(r) \/ CommitBegin(r)
  PROVE  FinalInv' /\ EndedIsFinal'
<1>1. ASSUME NEW q \in Runners, pc'[q] \in {"players", "game"}
      PROVE  /\ q # r /\ pc'[q] = pc[q] /\ pos'[q] = pos[q] /\ GameId'[q] = GameId[q]
             /\ GameId[q] \in 1..Len(games)
  BY <1>1 DEF InsertGame, CommitBegin, Goes, EndInv, BaseInv, TypeOK, IdInv, HasIdPcs
<1>2. CASE UNCHANGED games
  BY <1>1, <1>2, EndSame
<1>3. CASE games' = Append(games, NewRow)
  <2>1. NewRow \in Rows
    BY DEF NewRow, Rows
  <2>2. /\ Len(games') = Len(games) + 1 /\ Len(games) \in Nat
        /\ games'[Len(games) + 1] = NewRow
        /\ \A k \in 1..Len(games) : games'[k] = games[k]
    BY <1>3, <2>1, AppendFacts DEF EndInv, BaseInv, TypeOK
  <2>3. DOMAIN games = 1..Len(games) /\ DOMAIN games' = 1..Len(games')
    BY <1>3, <2>1 DEF EndInv, BaseInv, TypeOK
  <2>4. EndedIsFinal'
    BY <2>2, <2>3 DEF EndInv, EndedIsFinal, NewRow
  <2>5. FinalInv'
    BY <1>1, <2>2 DEF EndInv, FinalInv
  <2> QED BY <2>4, <2>5
<1>4. CASE CommitBegin(r) /\ games' = [games EXCEPT ![GameId[r]].committed = TRUE]
  <2>1. GameId[r] \in 1..Len(games) /\ GameId[r] # 0
    BY <1>4 DEF CommitBegin, Goes, EndInv, BaseInv, TypeOK, IdInv, HasIdPcs
  <2>2. games[GameId[r]] \in Rows
    BY <2>1 DEF EndInv, BaseInv, TypeOK
  <2> DEFINE new == [games[GameId[r]] EXCEPT !.committed = TRUE]
  <2>3. /\ new \in Rows /\ new.committed = TRUE
        /\ new.final = games[GameId[r]].final /\ new.ended = games[GameId[r]].ended
    BY <2>2 DEF Rows
  <2>4. games' = [games EXCEPT ![GameId[r]] = new]
    BY <1>4
  <2> HIDE DEF new
  <2>5. /\ Len(games') = Len(games) /\ games' \in Seq(Rows) /\ games'[GameId[r]] = new
        /\ \A k \in 1..Len(games) : k # GameId[r] => games'[k] = games[k]
    BY <2>1, <2>3, <2>4, ExceptFacts DEF EndInv, BaseInv, TypeOK
  <2>6. DOMAIN games = 1..Len(games) /\ DOMAIN games' = 1..Len(games)
    BY <2>5 DEF EndInv, BaseInv, TypeOK
  <2>7. EndedIsFinal'
    BY <2>1, <2>3, <2>5, <2>6 DEF EndInv, EndedIsFinal
  <2>8. FinalInv'
    <3>1. ASSUME NEW q \in Runners, pc'[q] \in {"players", "game"}
          PROVE  GameId[q] # GameId[r]
      BY <1>1, <2>1, <3>1 DEF EndInv, OwnInv
    <3> QED BY <1>1, <2>5, <3>1 DEF EndInv, FinalInv
  <2> QED BY <2>7, <2>8
<1> QED BY <1>2, <1>3, <1>4 DEF InsertGame, CommitBegin

LEMMA EndOpens ==
  ASSUME EndInv, NEW r \in Runners, submitEnd(r)
  PROVE  FinalInv' /\ EndedIsFinal'
<1>1. EndedIsFinal'
  BY DEF submitEnd, EndInv, EndedIsFinal
<1>2. pos' = [pos EXCEPT ![r] = 1] /\ UNCHANGED <<GameId, games>>
  BY DEF submitEnd
<1>3. pc' = [pc EXCEPT ![r] = "players"] \/ pc' = [pc EXCEPT ![r] = "loop"]
  BY DEF submitEnd, OpensTx, Goes
<1>4. 1..(1 - 1) = {}
  OBVIOUS
<1>5. FinalInv'
  BY <1>2, <1>3, <1>4 DEF EndInv, BaseInv, TypeOK, FinalInv
<1> QED BY <1>1, <1>5

(* The runners other than r do not see what r does to its row.             *)
LEMMA OthersFinal ==
  ASSUME EndInv, NEW r \in Runners, NEW q \in Runners, q # r,
         UpdatesPlayer(r) \/ FinalizeGame(r),
         pc'[q] = pc[q], pos'[q] = pos[q], GameId'[q] = GameId[q],
         pc[q] \in {"players", "game"}
  PROVE  games'[GameId'[q]] = games[GameId[q]]
<1>1. GameId[q] \in 1..Len(games) /\ GameId[q] # 0
  BY DEF EndInv, BaseInv, TypeOK, IdInv, HasIdPcs
<1>2. GameId[q] # GameId[r]
  BY <1>1 DEF EndInv, OwnInv
<1> QED BY <1>1, <1>2, EndRows DEF EndInv

LEMMA EndPlayer ==
  ASSUME EndInv, NEW r \in Runners, FinalizePlayer(r)
  PROVE  FinalInv' /\ EndedIsFinal'
<1>1. CASE UNCHANGED games /\ Returns(r, "players", "close") /\ UNCHANGED <<pos, GameId>>
  BY <1>1, EndSame DEF Returns, Goes, EndInv, BaseInv, TypeOK
<1>2. CASE UpdatesPlayer(r)
  <2> DEFINE row == games[GameId[r]]
  <2>1. /\ GameId[r] \in 1..Len(games)
        /\ games' \in Seq(Rows) /\ Len(games') = Len(games)
        /\ \A k \in 1..Len(games) : k # GameId[r] => games'[k] = games[k]
        /\ games'[GameId[r]].committed = row.committed
    BY <1>2, EndRows DEF EndInv
  <2>2. pos[r] \in 1..NumPlayers
    BY <1>2, ConstantFacts DEF EndInv, BaseInv, TypeOK, IdInv, UpdatesPlayer, Returns, Goes
  <2>3. row \in Rows
    BY <2>1 DEF EndInv, BaseInv, TypeOK
  <2>4. /\ games'[GameId[r]].final = IF row.committed THEN row.final \union {pos[r]} ELSE row.final
        /\ games'[GameId[r]].ended = row.ended
    <3> DEFINE new == [row EXCEPT !.final = IF row.committed THEN @ \union {pos[r]} ELSE @]
    <3>1. /\ new \in Rows /\ new.ended = row.ended
          /\ new.final = IF row.committed THEN row.final \union {pos[r]} ELSE row.final
      BY <2>2, <2>3 DEF Rows
    <3>2. games' = [games EXCEPT ![GameId[r]] = new]
      BY <1>2 DEF UpdatesPlayer
    <3> HIDE DEF new
    <3>3. games'[GameId[r]] = new
      BY <2>1, <3>1, <3>2, ExceptFacts DEF EndInv, BaseInv, TypeOK
    <3> QED BY <3>1, <3>3
  <2>5. DOMAIN games = 1..Len(games) /\ DOMAIN games' = 1..Len(games)
    BY <2>1 DEF EndInv, BaseInv, TypeOK
  <2>6. EndedIsFinal'
    <3> SUFFICES ASSUME NEW g \in 1..Len(games), games'[g].ended
                 PROVE  games'[g].committed /\ games'[g].final = 1..NumPlayers
      BY <2>5 DEF EndedIsFinal
    <3>1. games[g].ended
      BY <2>1, <2>4
    <3>2. games[g].committed /\ games[g].final = 1..NumPlayers
      BY <2>5, <3>1 DEF EndInv, EndedIsFinal
    <3>3. CASE g = GameId[r]
      BY <2>1, <2>2, <2>4, <3>2, <3>3
    <3>4. CASE g # GameId[r]
      BY <2>1, <3>2, <3>4
    <3> QED BY <3>3, <3>4
  <2>7. /\ pc[r] = "players" /\ pc' = [pc EXCEPT ![r] = AfterPlayer(r)]
        /\ pos' = [pos EXCEPT ![r] = pos[r] + 1] /\ GameId' = GameId
    BY <1>2 DEF FinalizePlayer, UpdatesPlayer, Returns, Goes
  <2>8. ASSUME row.committed
        PROVE  1..pos[r] \subseteq row.final \union {pos[r]} /\ row.final \subseteq 1..NumPlayers
    <3>1. 1..(pos[r] - 1) \subseteq row.final
      BY <2>7, <2>8 DEF EndInv, FinalInv
    <3>2. row.final \subseteq 1..NumPlayers
      BY <2>3 DEF Rows
    <3> QED BY <2>2, <3>1, <3>2, ConstantFacts
  <2>9. FinalInv'
    <3> SUFFICES ASSUME NEW q \in Runners, pc'[q] \in {"players", "game"},
                        games'[GameId'[q]].committed
                 PROVE  /\ pc'[q] = "players" =>
                             1..(pos'[q] - 1) \subseteq games'[GameId'[q]].final
                        /\ pc'[q] = "game" => games'[GameId'[q]].final = 1..NumPlayers
      BY DEF FinalInv
    <3>1. CASE q # r
      <4>1. pc'[q] = pc[q] /\ pos'[q] = pos[q] /\ GameId'[q] = GameId[q]
        BY <2>7, <3>1 DEF EndInv, BaseInv, TypeOK
      <4>2. games'[GameId'[q]] = games[GameId[q]]
        BY <1>2, <3>1, <4>1, OthersFinal
      <4> QED BY <4>1, <4>2 DEF EndInv, FinalInv
    <3>2. CASE q = r
      <4>1. row.committed /\ games'[GameId'[q]].final = row.final \union {pos[r]}
        BY <2>1, <2>4, <2>7, <3>2
      <4>2. pos'[q] - 1 = pos[r]
        BY <2>2, <2>7, <3>2 DEF EndInv, BaseInv, TypeOK
      <4>3. pc'[q] = "game" => pos[r] = NumPlayers
        BY <2>7, <3>2 DEF AfterPlayer, EndInv, BaseInv, TypeOK
      <4>4. 1..pos[r] \subseteq row.final \union {pos[r]} /\ row.final \subseteq 1..NumPlayers
        BY <2>8, <4>1
      <4> HIDE DEF row
      <4> QED BY <2>2, <4>1, <4>2, <4>3, <4>4
    <3> QED BY <3>1, <3>2
  <2> QED BY <2>6, <2>9
<1> QED BY <1>1, <1>2 DEF FinalizePlayer

LEMMA EndGame ==
  ASSUME EndInv, NEW r \in Runners, FinalizeGame(r)
  PROVE  FinalInv' /\ EndedIsFinal'
<1> DEFINE row == games[GameId[r]]
<1>1. /\ GameId[r] \in 1..Len(games)
      /\ games' \in Seq(Rows) /\ Len(games') = Len(games)
      /\ \A k \in 1..Len(games) : k # GameId[r] => games'[k] = games[k]
  BY EndRows DEF EndInv
<1>2. row \in Rows
  BY <1>1 DEF EndInv, BaseInv, TypeOK
<1>3. /\ pc[r] = "game" /\ pc' = [pc EXCEPT ![r] = "close"]
      /\ UNCHANGED <<pos, GameId>>
  BY DEF FinalizeGame, Returns, Goes
<1>4. \A q \in Runners : pc'[q] \in {"players", "game"} => q # r /\ pc'[q] = pc[q]
  BY <1>3 DEF EndInv, BaseInv, TypeOK
<1>5. FinalInv'
  BY <1>3, <1>4, OthersFinal DEF EndInv, FinalInv
<1>6. CASE UNCHANGED games
  BY <1>5, <1>6 DEF EndInv, EndedIsFinal
<1>7. CASE games' = [games EXCEPT ![GameId[r]].ended = row.committed]
  <2> DEFINE new == [row EXCEPT !.ended = row.committed]
  <2>1. /\ new \in Rows /\ new.ended = row.committed
        /\ new.committed = row.committed /\ new.final = row.final
    BY <1>2 DEF Rows
  <2>2. games' = [games EXCEPT ![GameId[r]] = new]
    BY <1>7
  <2> HIDE DEF new
  <2>3. games'[GameId[r]] = new
    BY <1>1, <2>1, <2>2, ExceptFacts DEF EndInv, BaseInv, TypeOK
  <2>4. row.committed => row.final = 1..NumPlayers
    BY <1>3 DEF EndInv, FinalInv
  <2>5. DOMAIN games = 1..Len(games) /\ DOMAIN games' = 1..Len(games)
    BY <1>1 DEF EndInv, BaseInv, TypeOK
  <2>6. EndedIsFinal'
    BY <1>1, <2>1, <2>3, <2>4, <2>5 DEF EndInv, EndedIsFinal
  <2> QED BY <1>5, <2>6
<1> QED BY <1>6, <1>7 DEF FinalizeGame

LEMMA EndNext == EndInv /\ [Next]_vars => EndInv'
<1> SUFFICES ASSUME EndInv, [Next]_vars PROVE FinalInv' /\ EndedIsFinal'
  BY BaseNext, OwnNext DEF EndInv
<1>1. ASSUME NEW r \in Runners, Line(r) PROVE FinalInv' /\ EndedIsFinal'
  BY <1>1, EndSame DEF Line, submitReport, submitFinalReport, OtherLine, Goes, EndInv, BaseInv,
                       TypeOK
<1>2. ASSUME NEW r \in Runners, Step(r) PROVE FinalInv' /\ EndedIsFinal'
  <2>1. CASE submitBegin(r)
    BY <2>1, EndSame DEF submitBegin, OpensTx, Goes, EndInv, BaseInv, TypeOK
  <2>2. CASE recoverSave(r) \/ Acquire(r)
    BY <2>2, EndSame DEF recoverSave, Acquire, Goes, EndInv, BaseInv, TypeOK
  <2>3. CASE QueryReturns(r) \/ submitFrame(r)
    BY <2>3, EndSame DEF QueryReturns, submitFrame, Returns, Goes, EndInv, BaseInv, TypeOK
  <2>4. CASE CloseTx(r)
    BY <2>4, EndSame DEF CloseTx, Goes, EndInv, BaseInv, TypeOK
  <2> QED BY <1>2, <2>1, <2>2, <2>3, <2>4, EndBegin, EndOpens, EndPlayer, EndGame DEF Step
<1>3. CASE Restart
  BY <1>3, EndSame DEF Restart
<1>4. CASE UNCHANGED vars
  BY <1>4, EndSame
<1> QED BY <1>1, <1>2, <1>3, <1>4 DEF Next

(* A game with its end in the database has its row and the final rows of   *)
(* all its players, after any errors and kills (submitEnd).                *)
THEOREM EndedGamesAreFinal == Spec => []EndedIsFinal
BY EndInit, EndNext, PTL DEF Spec, EndInv
=============================================================================
