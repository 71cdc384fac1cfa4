---------------------------- MODULE BoundedQueue ----------------------------
(***************************************************************************)
(* What a recorder relies on when it hands spans to its buffer: a bounded  *)
(* first-in first-out queue with many producers and one consumer.          *)
(*                                                                         *)
(* A producer offers one element and is answered: the element is either    *)
(* accepted at the end of the queue, or refused.  Refusing is not free: at *)
(* some moment of the call there were n elements queued, m more have been  *)
(* accepted since, and n + m reached MaxSize.  That is weaker than "the    *)
(* queue was full", which the buffer does not promise.                     *)
(***************************************************************************)
EXTENDS Naturals, Sequences

CONSTANTS Producers, Elements, Null, MaxSize

VARIABLES
  queue,  \* the elements accepted and not yet consumed, oldest first
  offer,  \* offer[p]: the element p is offering, Null when p is not calling
  seen    \* seen[p]: elements queued at some moment of p's call, plus those
          \* accepted since that moment

vars == <<queue, offer, seen>>

Init ==
  /\ queue = << >>
  /\ offer = [p \in Producers |-> Null]
  /\ seen  = [p \in Producers |-> 0]

Offer(p, e) ==
  /\ offer[p] = Null
  /\ offer' = [offer EXCEPT ![p] = e]
  /\ seen'  = [seen EXCEPT ![p] = Len(queue)]
  /\ UNCHANGED queue

\* p's call starts over: it looks at the queue again.
Retry(p) ==
  /\ offer[p] # Null
  /\ seen' = [seen EXCEPT ![p] = Len(queue)]
  /\ UNCHANGED <<queue, offer>>

Accept(p) ==
  /\ offer[p] # Null
  /\ Len(queue) < MaxSize
  /\ queue' = Append(queue, offer[p])
  /\ offer' = [offer EXCEPT ![p] = Null]
  /\ seen'  = [q \in Producers |->
                 IF q = p \/ offer[q] = Null THEN 0 ELSE seen[q] + 1]

Refuse(p) ==
  /\ offer[p] # Null
  /\ seen[p] >= MaxSize
  /\ offer' = [offer EXCEPT ![p] = Null]
  /\ seen'  = [seen EXCEPT ![p] = 0]
  /\ UNCHANGED queue

Consume(n) ==
  /\ queue' = SubSeq(queue, n + 1, Len(queue))
  /\ UNCHANGED offer
  /\ UNCHANGED seen

Next ==
  \/ \E p \in Producers : \/ \E e \in Elements : Offer(p, e)
                          \/ Retry(p)
                          \/ Accept(p)
                          \/ Refuse(p)
  \/ \E n \in 1..Len(queue) : Consume(n)

Spec == Init /\ [][Next]_vars
=============================================================================
