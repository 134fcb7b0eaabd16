------------------------------- MODULE MovedOut -------------------------------
(***************************************************************************)
(* What joinCheck may rely on about the players a moderator moved to the   *)
(* spectators (joincheckWasMovedOut in connfilter.go).  A player stays     *)
(* moved out of a room that is in the lobby until he is moved back or the  *)
(* backend is started again; whoever asks in such a room is told just      *)
(* that.  A room out of the lobby keeps its players or forgets some of     *)
(* them, whenever any room uses the map, until it is back; asked there,    *)
(* the answer is no.                                                       *)
(***************************************************************************)
CONSTANTS Players, Insts

VARIABLES
  moved,   \* the pairs of a player and a room he was moved out of
  open,    \* the rooms that are in the lobby
  answer   \* per room, what its runner was told last: "yes", "no" or "none"

vars == <<moved, open, answer>>

Init ==
  /\ moved = {}
  /\ open = Insts
  /\ answer = [i \in Insts |-> "none"]

(* A use of the map leaves S, but for rooms that are not in the lobby.     *)
Keeps(S) ==
  /\ moved' \subseteq S
  /\ {m \in S : m[2] \in open} \subseteq moved'

Move(p, i) ==
  /\ Keeps(moved \union {<<p, i>>})
  /\ UNCHANGED <<open, answer>>

MoveBack(p, i) ==
  /\ Keeps(moved \ {<<p, i>>})
  /\ UNCHANGED <<open, answer>>

Ask(p, i) ==
  /\ answer' = [answer EXCEPT ![i] = IF i \in open /\ <<p, i>> \in moved THEN "yes" ELSE "no"]
  /\ Keeps(moved)
  /\ UNCHANGED open

Done(i) ==
  /\ answer' = [answer EXCEPT ![i] = "none"]
  /\ UNCHANGED <<moved, open>>

LeaveLobby(i) ==
  /\ open' = open \ {i}
  /\ UNCHANGED <<moved, answer>>

EnterLobby(i) ==
  /\ open' = open \union {i}
  /\ UNCHANGED <<moved, answer>>

Restart ==
  /\ moved' = {}
  /\ answer' = [i \in Insts |-> "none"]
  /\ UNCHANGED open

Next ==
  \/ \E i \in Insts : Done(i) \/ LeaveLobby(i) \/ EnterLobby(i)
  \/ \E p \in Players, i \in Insts : Move(p, i) \/ MoveBack(p, i) \/ Ask(p, i)
  \/ Restart

Spec == Init /\ [][Next]_vars
=============================================================================
