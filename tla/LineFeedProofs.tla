---------------------------- MODULE LineFeedProofs ----------------------------
(* LineFeed delivers in order, for every number of streams and lines.      *)
EXTENDS LineFeed, TLAPS

USE DEF vars

TypeOK ==
  /\ last \in Nat
  /\ inflight \in [Streams -> SUBSET Nat]
  /\ delivered \in [Streams -> Nat]
  /\ running \in BOOLEAN

(* The lines on their way are newer than the one delivered.                *)
Newer(s) ==
  /\ delivered[s] <= last
  /\ \A k \in inflight[s] : delivered[s] < k /\ k <= last

IInv == TypeOK /\ \A s \in Streams : Newer(s)

LEMMA InitInv == Init => IInv
BY DEF Init, IInv, TypeOK, Newer

LEMMA WriteInv == ASSUME IInv, NEW s \in Streams, Write(s) PROVE IInv'
<1> USE DEF IInv, TypeOK, Write
<1>1. TypeOK'
  <2>1. last + 1 \in Nat /\ inflight[s] \union {last + 1} \in SUBSET Nat
    OBVIOUS
  <2> QED BY <2>1
<1>2. ASSUME NEW t \in Streams PROVE Newer(t)'
  BY DEF Newer
<1> QED BY <1>1, <1>2

(* What a delivery hands out is newer than what came before it on its      *)
(* stream, and nothing comes out of the others.                            *)
LEMMA DeliverInv ==
  ASSUME IInv, NEW s \in Streams, Deliver(s)
  PROVE  /\ IInv'
         /\ delivered'[s] > delivered[s]
         /\ \A t \in Streams \ {s} : delivered'[t] = delivered[t]
<1> USE DEF IInv, TypeOK
<1>1. PICK k \in inflight[s] :
        /\ \A j \in inflight[s] : k <= j
        /\ delivered' = [delivered EXCEPT ![s] = k]
        /\ inflight' = [inflight EXCEPT ![s] = @ \ {k}]
  BY DEF Deliver
<1>2. UNCHANGED <<last, running>> /\ k \in Nat
  BY DEF Deliver
<1>3. TypeOK'
  BY <1>1, <1>2
<1>4. \A j \in inflight[s] \ {k} : k < j
  <2>1. ASSUME NEW j \in inflight[s] \ {k} PROVE k < j
    <3>1. k <= j /\ j # k /\ j \in Nat
      BY <1>1
    <3> QED BY <1>2, <3>1
  <2> QED BY <2>1
<1>5. ASSUME NEW t \in Streams PROVE Newer(t)'
  BY <1>1, <1>2, <1>4 DEF Newer
<1>6. delivered'[s] > delivered[s] /\ \A t \in Streams \ {s} : delivered'[t] = delivered[t]
  BY <1>1, <1>2 DEF Newer
<1> QED BY <1>3, <1>5, <1>6

LEMMA LoseInv == ASSUME IInv, Lose PROVE IInv'
<1> USE DEF IInv, TypeOK
<1>1. UNCHANGED <<last, delivered>> /\ running' = FALSE
  BY DEF Lose
<1>2. PICK keep \in [Streams -> 1..(last + 1)] :
        inflight' = [s \in Streams |-> {k \in inflight[s] : k >= keep[s]}]
  BY DEF Lose
<1>3. TypeOK'
  BY <1>1, <1>2
<1>4. ASSUME NEW t \in Streams PROVE Newer(t)'
  BY <1>1, <1>2 DEF Newer
<1> QED BY <1>3, <1>4

LEMMA NextInv == IInv /\ [Next]_vars => IInv'
<1> SUFFICES ASSUME IInv, [Next]_vars PROVE IInv'
  OBVIOUS
<1>1. CASE \E s \in Streams : Write(s)
  BY <1>1, WriteInv
<1>2. CASE \E s \in Streams : Deliver(s)
  BY <1>2, DeliverInv
<1>3. CASE Lose
  BY <1>3, LoseInv
<1>4. CASE Resume
  BY <1>4 DEF Resume, IInv, TypeOK, Newer
<1>5. CASE UNCHANGED vars
  BY <1>5 DEF IInv, TypeOK, Newer
<1> QED BY <1>1, <1>2, <1>3, <1>4, <1>5 DEF Next

(* Every delivery hands out a line newer than all that its stream gave out *)
(* before: no line is handled twice, none after a newer one.               *)
THEOREM DeliveredInOrder == Spec => InOrder
<1> DEFINE Ordered(s) == /\ Deliver(s) => delivered'[s] > delivered[s]
                         /\ ~Deliver(s) => delivered'[s] = delivered[s]
<1>1. IInv /\ [Next]_vars => [\A s \in Streams : Ordered(s)]_vars
  <2> SUFFICES ASSUME IInv, Next, NEW s \in Streams PROVE Ordered(s)
    OBVIOUS
  <2>1. CASE Deliver(s)
    BY <2>1, DeliverInv
  <2>2. CASE ~Deliver(s)
    <3>1. CASE \E t \in Streams : Write(t)
      BY <2>2, <3>1 DEF Write
    <3>2. CASE \E t \in Streams : Deliver(t)
      <4>1. PICK t \in Streams : Deliver(t)
        BY <3>2
      <4>2. s \in Streams \ {t}
        BY <2>2, <4>1
      <4>3. delivered'[s] = delivered[s]
        BY <4>1, <4>2, DeliverInv
      <4> QED BY <2>2, <4>3
    <3>3. CASE Lose \/ Resume
      BY <2>2, <3>3 DEF Lose, Resume
    <3> QED BY <3>1, <3>2, <3>3 DEF Next
  <2> QED BY <2>1, <2>2
<1> QED BY <1>1, InitInv, NextInv, PTL DEF Spec, InOrder
=============================================================================
