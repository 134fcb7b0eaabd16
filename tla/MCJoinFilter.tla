---------------------------- MODULE MCJoinFilter ----------------------------
(* Values for the constants of JoinFilter in the runs of TLC.              *)
EXTENDS JoinFilter

CONSTANTS i1, i2

TwoRooms == {i1, i2}
OneRoom  == {i2}

(* One room for members only; one where the others may watch.              *)
RoomPrefs == [i \in Insts |->
  [hide |-> FALSE, join |-> i # i1, play |-> FALSE, chat |-> TRUE]]

Ban(ends, joining, playing, chatting) ==
  [ends |-> ends, joining |-> joining, playing |-> playing, chatting |-> chatting]

(* One that expires after the first tick, and one that never does.         *)
TwoBans == {Ban(0, TRUE, TRUE, TRUE), Ban(2, FALSE, TRUE, TRUE)}
=============================================================================
