--------------------------- MODULE CircularBuffer ---------------------------
(***************************************************************************)
(* common/circular_buffer.h and common/atomic_unique_ptr.h: the buffer     *)
(* between the threads that finish spans (producers, in Add) and the       *)
(* recorder's thread (the one consumer, in Consume).                       *)
(*                                                                         *)
(* A step is one access to shared memory.  head and tail only grow; slot i *)
(* of the array holds the element with sequence number n when n % Capacity *)
(* = i.  A producer first puts its element into the slot of the head it    *)
(* read, then tries to advance head over it; if somebody else has moved    *)
(* head meanwhile it takes the element back and starts over.  Both         *)
(* compare-and-swaps are weak ones, which may fail for no reason.          *)
(*                                                                         *)
(* Consume advances tail first and empties the slots afterwards, one at a  *)
(* time, so a producer can find room in the buffer and still meet a slot   *)
(* that is not empty.  `from` is the first slot of the consumer's callback *)
(* that is not empty yet; from = tail when no Consume is running.          *)
(***************************************************************************)
EXTENDS Integers

CONSTANTS
  Producers,  \* the threads that call Add
  Elements,   \* the allocations: a unique_ptr owns one of them or is Null
  Null,
  MaxSize,    \* max_size of the constructor
  MaxHead     \* bound: Add is only called while head < MaxHead

ASSUME MaxSizeAssumption == MaxSize \in Nat \ {0}
ASSUME MaxHeadAssumption == MaxHead \in Nat
ASSUME NullAssumption == Null \notin Elements

VARIABLES
  data,  \* data_: slot -> element or Null
  head,  \* head_
  tail,  \* tail_
  from,  \* the slots of from..tail-1 are still to be emptied by Consume
  pc,    \* pc[p]: where p stands in Add
  ptr,   \* ptr[p]: what the unique_ptr p passed to Add owns
  t,     \* t[p]: the local `tail` of Add
  h      \* h[p]: the local `head` of Add

vars == <<data, head, tail, from, pc, ptr, t, h>>

Capacity == MaxSize + 1
Slots == 0..MaxSize
Slot(i) == i % Capacity

\* Every element owned by a slot or by a producer.
Live == {data[s] : s \in Slots} \cup {ptr[p] : p \in Producers}

Init ==
  /\ data = [s \in Slots |-> Null]
  /\ head = 0
  /\ tail = 0
  /\ from = 0
  /\ pc  = [p \in Producers |-> "idle"]
  /\ ptr = [p \in Producers |-> Null]
  /\ t   = [p \in Producers |-> 0]
  /\ h   = [p \in Producers |-> 0]

-----------------------------------------------------------------------------
(* Mutants: likely mistakes in the actions below.  With any of them put in *)
(* place of the action its name begins with, some property fails.          *)

ReturnFullEarly(p) ==
  /\ pc[p] = "head"
  /\ head - t[p] >= MaxSize - 1
  /\ h'   = [h EXCEPT ![p] = head]
  /\ pc'  = [pc EXCEPT ![p] = "idle"]
  /\ ptr' = [ptr EXCEPT ![p] = Null]
  /\ UNCHANGED <<data, head, tail, from, t>>

SwapIfNullOverwrites(p) ==
  /\ pc[p] = "swap"
  /\ data' = [data EXCEPT ![Slot(h[p])] = ptr[p]]
  /\ ptr'  = [ptr EXCEPT ![p] = Null]
  /\ pc'   = [pc EXCEPT ![p] = "advance"]
  /\ UNCHANGED <<head, tail, from, t, h>>

\* Tries the same slot again, without looking at head_ and tail_.
SwapFailsSpins(p) ==
  /\ pc[p] = "swap"
  /\ UNCHANGED vars

UndoSwapCopies(p) ==
  /\ pc[p] = "undo"
  /\ ptr'  = [ptr EXCEPT ![p] = data[Slot(h[p])]]
  /\ pc'   = [pc EXCEPT ![p] = "tail"]
  /\ UNCHANGED <<data, head, tail, from, t, h>>

-----------------------------------------------------------------------------
(* Add                                                                     *)

\* The call, with a new allocation, up to the first read of tail_.
BeginAdd(p, e) ==
  /\ pc[p] = "idle"
  /\ head < MaxHead
  /\ e \notin Live
  /\ ptr' = [ptr EXCEPT ![p] = e]
  /\ t'   = [t EXCEPT ![p] = tail]
  /\ pc'  = [pc EXCEPT ![p] = "head"]
  /\ UNCHANGED <<data, head, tail, from, h>>

\* The next iteration of the loop.
ReadTail(p) ==
  /\ pc[p] = "tail"
  /\ t'  = [t EXCEPT ![p] = tail]
  /\ pc' = [pc EXCEPT ![p] = "head"]
  /\ UNCHANGED <<data, head, tail, from, ptr, h>>

ReadHead(p) ==
  /\ pc[p] = "head"
  /\ head - t[p] < MaxSize
  /\ h'  = [h EXCEPT ![p] = head]
  /\ pc' = [pc EXCEPT ![p] = "swap"]
  /\ UNCHANGED <<data, head, tail, from, ptr, t>>

\* Add returns false; the caller drops the element.
ReturnFull(p) ==
  /\ pc[p] = "head"
  /\ head - t[p] >= MaxSize
  /\ h'   = [h EXCEPT ![p] = head]
  /\ pc'  = [pc EXCEPT ![p] = "idle"]
  /\ ptr' = [ptr EXCEPT ![p] = Null]
  /\ UNCHANGED <<data, head, tail, from, t>>

SwapIfNull(p) ==
  /\ pc[p] = "swap"
  /\ data[Slot(h[p])] = Null
  /\ data' = [data EXCEPT ![Slot(h[p])] = ptr[p]]
  /\ ptr'  = [ptr EXCEPT ![p] = Null]
  /\ pc'   = [pc EXCEPT ![p] = "advance"]
  /\ UNCHANGED <<head, tail, from, t, h>>

\* The slot is taken, or the weak compare-and-swap fails on an empty one.
SwapFails(p) ==
  /\ pc[p] = "swap"
  /\ pc' = [pc EXCEPT ![p] = "tail"]
  /\ UNCHANGED <<data, head, tail, from, ptr, t, h>>

\* Add returns true.
AdvanceHead(p) ==
  /\ pc[p] = "advance"
  /\ head = h[p]
  /\ head' = head + 1
  /\ pc'   = [pc EXCEPT ![p] = "idle"]
  /\ ptr'  = [ptr EXCEPT ![p] = Null]
  /\ UNCHANGED <<data, tail, from, t, h>>

\* head_ has moved on, or the weak compare-and-swap fails without that.
AdvanceFails(p) ==
  /\ pc[p] = "advance"
  /\ pc' = [pc EXCEPT ![p] = "undo"]
  /\ UNCHANGED <<data, head, tail, from, ptr, t, h>>

\* Swap the element back out of the slot, and try again.
UndoSwap(p) ==
  /\ pc[p] = "undo"
  /\ data' = [data EXCEPT ![Slot(h[p])] = ptr[p]]
  /\ ptr'  = [ptr EXCEPT ![p] = data[Slot(h[p])]]
  /\ pc'   = [pc EXCEPT ![p] = "tail"]
  /\ UNCHANGED <<head, tail, from, t, h>>

-----------------------------------------------------------------------------
(* Consume                                                                 *)

\* Consume(n): the range is taken and tail_ advanced before the callback.
ConsumeStart(n) ==
  /\ from = tail
  /\ n <= head - tail
  /\ tail' = tail + n
  /\ UNCHANGED <<data, head, from, pc, ptr, t, h>>

\* The callback sets the next pointer of the range to null.
ConsumeSlot ==
  /\ from < tail
  /\ data' = [data EXCEPT ![Slot(from)] = Null]
  /\ from' = from + 1
  /\ UNCHANGED <<head, tail, pc, ptr, t, h>>

-----------------------------------------------------------------------------
Producer(p) ==
  \/ \E e \in Elements : BeginAdd(p, e)
  \/ ReadTail(p)
  \/ ReadHead(p)
  \/ ReturnFull(p)
  \/ SwapIfNull(p)
  \/ SwapFails(p)
  \/ AdvanceHead(p)
  \/ AdvanceFails(p)
  \/ UndoSwap(p)

Consumer ==
  \/ \E n \in 1..(head - tail) : ConsumeStart(n)
  \/ ConsumeSlot

\* The bound is reached and everything has been consumed.
Finished ==
  /\ head >= MaxHead
  /\ \A p \in Producers : pc[p] = "idle"
  /\ from = head
  /\ UNCHANGED vars

Next == (\E p \in Producers : Producer(p)) \/ Consumer \/ Finished

Spec == Init /\ [][Next]_vars

(***************************************************************************)
(* A thread inside Add keeps running, and so does a callback of Consume;   *)
(* nobody has to call either.  A weak compare-and-swap that could succeed  *)
(* again and again does not fail forever.                                  *)
(***************************************************************************)
ProducerFairness(p) ==
  /\ WF_vars(Producer(p) /\ pc[p] # "idle")
  /\ SF_vars(SwapIfNull(p))
  /\ SF_vars(AdvanceHead(p))

Fairness ==
  /\ \A p \in Producers : ProducerFairness(p)
  /\ WF_vars(ConsumeSlot)

FairSpec == Spec /\ Fairness

-----------------------------------------------------------------------------
(* Invariants                                                              *)

TypeOK ==
  /\ data \in [Slots -> Elements \cup {Null}]
  /\ head \in Nat
  /\ tail \in Nat
  /\ from \in Nat
  /\ pc  \in [Producers -> {"idle", "tail", "head", "swap", "advance", "undo"}]
  /\ ptr \in [Producers -> Elements \cup {Null}]
  /\ t   \in [Producers -> Nat]
  /\ h   \in [Producers -> Nat]

\* p's element sits in the slot of the head p read and is not published.
Claiming(p) == pc[p] \in {"advance", "undo"}

\* The slots of the elements published and not yet emptied.
PublishedSlots == {Slot(i) : i \in from..(head - 1)}

(***************************************************************************)
(* The buffer never holds more than MaxSize elements, and the producers    *)
(* never lap a consumer that is still emptying slots, although the check   *)
(* of Add compares two reads that others may have overtaken.               *)
(***************************************************************************)
SizeBound ==
  /\ from <= tail
  /\ tail <= head
  /\ head - tail <= MaxSize
  /\ head - from <= Capacity

(***************************************************************************)
(* What Peek and Consume hand to the consumer is never a null pointer: the *)
(* element is in its slot before head moves over it, and an undo or a      *)
(* claim by a producer with an old head never touches a published slot.    *)
(***************************************************************************)
PublishedNonNull == \A i \in from..(head - 1) : data[Slot(i)] # Null

(***************************************************************************)
(* A producer takes back, or publishes, the element it put in and no other:*)
(* its slot is nobody else's and is not among those of the consumer.       *)
(***************************************************************************)
ClaimsExclusive ==
  \A p \in Producers : Claiming(p) =>
    /\ data[Slot(h[p])] # Null
    /\ Slot(h[p]) \notin PublishedSlots
    /\ \A q \in Producers \ {p} : Claiming(q) => Slot(h[q]) # Slot(h[p])

(***************************************************************************)
(* No leak: once nobody is in the middle of Add, every element in the      *)
(* array is one the consumer will get, so a failed Add left nothing behind.*)
(***************************************************************************)
NothingStranded ==
  \A s \in Slots : data[s] # Null =>
    \/ s \in PublishedSlots
    \/ \E p \in Producers : Claiming(p) /\ Slot(h[p]) = s

(***************************************************************************)
(* Every element has one owner, as its unique_ptr says: never two slots,   *)
(* never two producers, never a slot and a producer (a double delete).     *)
(***************************************************************************)
SingleOwner ==
  /\ \A s1, s2 \in Slots :
       s1 # s2 /\ data[s1] # Null => data[s1] # data[s2]
  /\ \A p, q \in Producers :
       p # q /\ ptr[p] # Null => ptr[p] # ptr[q]
  /\ \A p \in Producers, s \in Slots :
       ptr[p] # Null => ptr[p] # data[s]

(***************************************************************************)
(* What the locals of a producer still say after others have moved on: the *)
(* tail it read is not ahead of tail_, the room it computed was there, and *)
(* its unique_ptr is empty exactly while the element is in a slot.         *)
(***************************************************************************)
LocalsConsistent ==
  \A p \in Producers :
    /\ t[p] <= tail
    /\ pc[p] \in {"swap", "advance", "undo"} =>
         h[p] <= head /\ h[p] - t[p] < MaxSize
    /\ (pc[p] = "idle" \/ Claiming(p)) <=> ptr[p] = Null

\* The inductive invariant: no part of it is inductive without the others.
IndInv ==
  /\ TypeOK
  /\ SizeBound
  /\ PublishedNonNull
  /\ ClaimsExclusive
  /\ NothingStranded
  /\ SingleOwner
  /\ LocalsConsistent

-----------------------------------------------------------------------------
(* Properties of steps and behaviours                                      *)

(***************************************************************************)
(* An element that Peek can see stays in its slot until it is consumed.    *)
(* The streams keep pointers into the elements across calls of Write.      *)
(***************************************************************************)
PublishedStable ==
  [][\A i \in tail..(head - 1) :
       i >= tail' => data'[Slot(i)] = data[Slot(i)]]_vars

(***************************************************************************)
(* A call of Add that does not return is overtaken for ever: it returns,   *)
(* or head moves, because another call has succeeded.  A producer that     *)
(* lost a race, that meets a slot the consumer has not emptied, or one     *)
(* that other producers keep taking and giving back, does not loop while   *)
(* nothing gets in.  More is not true: whenever p looks, others may have   *)
(* the slot, and move head after p has given up, without end.  Below       *)
(* MaxHead the bound takes no step away, so it does not help p.            *)
(***************************************************************************)
AddsProgress ==
  \A p \in Producers : \A n \in 0..(MaxHead - 1) :
    pc[p] # "idle" /\ head = n ~> pc[p] = "idle" \/ head # n

-----------------------------------------------------------------------------
(* The queue this buffer implements: an element is accepted at the moment  *)
(* head moves over it, and consumed when tail does.                        *)

QueueOf == [i \in 1..(head - tail) |-> data[Slot(tail + i - 1)]]

Offered(p) == IF Claiming(p) THEN data[Slot(h[p])] ELSE ptr[p]

SeenBy(p) == IF pc[p] = "idle" THEN 0 ELSE head - t[p]

Queue == INSTANCE BoundedQueue WITH
  queue <- QueueOf,
  offer <- [p \in Producers |-> Offered(p)],
  seen  <- [p \in Producers |-> SeenBy(p)]

(***************************************************************************)
(* The buffer is a bounded first-in first-out queue: elements come out in  *)
(* the order they were accepted, none is lost, repeated or made up, and an *)
(* element is refused only as BoundedQueue allows.                         *)
(***************************************************************************)
ImplementsQueue == Queue!Spec
=============================================================================
