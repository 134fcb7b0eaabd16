------------------------------- MODULE LineFeed -------------------------------
(***************************************************************************)
(* What a runner may rely on about the lines of its game (hoster.go reads  *)
(* them through two pipes, two scanners and one channel): while a message  *)
(* loop runs, the lines of a stream arrive complete and in order; lines    *)
(* are lost only when the loop is left or while none runs, and then the    *)
(* oldest first.                                                           *)
(***************************************************************************)
EXTENDS Naturals

CONSTANT Streams

VARIABLES
  last,       \* the number of lines the game wrote; the Nth line is line N
  inflight,   \* per stream, the set of lines written and not yet handled
  delivered,  \* per stream, the line handled last, 0 if none
  running     \* does a message loop run?

vars == <<last, inflight, delivered, running>>

Init ==
  /\ last = 0
  /\ inflight = [s \in Streams |-> {}]
  /\ delivered = [s \in Streams |-> 0]
  /\ running = TRUE

Write(s) ==
  /\ last' = last + 1
  /\ inflight' = [inflight EXCEPT ![s] = @ \union {last + 1}]
  /\ UNCHANGED <<delivered, running>>

Deliver(s) ==
  /\ running
  /\ \E k \in inflight[s] :
       /\ \A j \in inflight[s] : k <= j
       /\ delivered' = [delivered EXCEPT ![s] = k]
       /\ inflight' = [inflight EXCEPT ![s] = @ \ {k}]
  /\ UNCHANGED <<last, running>>

(* The loop is left, or none runs: only the newest lines of a stream are   *)
(* kept, all of them at best.                                              *)
Lose ==
  /\ running' = FALSE
  /\ \E keep \in [Streams -> 1..(last + 1)] :
       inflight' = [s \in Streams |-> {k \in inflight[s] : k >= keep[s]}]
  /\ UNCHANGED <<last, delivered>>

Resume ==
  /\ ~running
  /\ running' = TRUE
  /\ UNCHANGED <<last, inflight, delivered>>

Next == (\E s \in Streams : Write(s) \/ Deliver(s)) \/ Lose \/ Resume

Spec == Init /\ [][Next]_vars

(* A line is never handled twice, nor after a newer line of its stream:    *)
(* each delivery hands out a line newer than all those before it, and      *)
(* nothing but a delivery moves that mark.                                 *)
InOrder ==
  [][\A s \in Streams :
       /\ Deliver(s) => delivered'[s] > delivered[s]
       /\ ~Deliver(s) => delivered'[s] = delivered[s]]_vars
=============================================================================
