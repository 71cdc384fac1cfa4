------------------------ MODULE ManualRecorderProofs ------------------------
(***************************************************************************)
(* What ManualRecorder promises, for any threads, spans, reports and any   *)
(* capacity of the buffer.  The invariant is IndInv; TLC checks it first.  *)
(***************************************************************************)
EXTENDS ManualRecorder, SequenceTheorems, TLAPS

USE BufferAssumption, NoneAssumption

LEMMA InitInv == Init => IndInv
<1> SUFFICES ASSUME Init PROVE IndInv
  OBVIOUS
<1>1. /\ queue = << >> /\ Len(queue) = 0 /\ Queued = {}
      /\ offer = [t \in Threads |-> NoSpan] /\ seen = [t \in Threads |-> 0]
  BY DEF Init, Buffer!Init, Queued
<1>2. Held = {} /\ InReports = {} /\ CountedInReports = {}
  BY DEF Init, Held, InReports, CountedInReports, None
<1>3. TypeOK
  BY <1>1 DEF Init, TypeOK, None, Unlocked
<1>4. ControlConsistent
  BY <1>1 DEF Init, ControlConsistent, None
<1>5. SizeHolds /\ RoomCounted
  <2>1. /\ since = [t \in Threads |-> MaxBufferedSpans] /\ 0 <= MaxBufferedSpans
        /\ numSpans = [t \in Threads |-> Unlocked]
    BY DEF Init
  <2> QED
    BY <1>1, <2>1 DEF SizeHolds, RoomCounted
<1>6. SpansAccounted
  BY <1>1, <1>2 DEF Init, SpansAccounted, None
<1>7. DropsConserved
  BY <1>2 DEF Init, DropsConserved, None
<1> QED
  BY <1>3, <1>4, <1>5, <1>6, <1>7 DEF IndInv

-----------------------------------------------------------------------------
(* What the steps of the buffer do to it                                   *)

LEMMA ConsumeAll ==
  ASSUME TypeOK, Buffer!Consume(Len(queue))
  PROVE  /\ queue' = << >> /\ Len(queue') = 0 /\ Queued' = {}
         /\ UNCHANGED <<offer, seen>>
<1>1. queue' = << >>
  BY SubSeqEmpty DEF TypeOK, Buffer!Consume
<1> QED
  BY <1>1 DEF Buffer!Consume, Queued

\* The n oldest spans in the buffer.
First(n) == {queue[i] : i \in 1..n}

LEMMA ConsumeSome ==
  ASSUME TypeOK, NEW n \in 0..Len(queue), Buffer!Consume(n)
  PROVE  /\ queue' \in Seq(Spans) /\ Len(queue') = Len(queue) - n
         /\ \A i \in 1..Len(queue') : n + i \in 1..Len(queue) /\ queue'[i] = queue[n + i]
         /\ First(n) \subseteq Spans
         /\ Queued = First(n) \cup Queued'
         /\ UNCHANGED <<offer, seen>>
<1>1. /\ queue' = SubSeq(queue, n + 1, Len(queue)) /\ UNCHANGED <<offer, seen>>
      /\ n \in Nat /\ Len(queue) \in Nat /\ n <= Len(queue)
      /\ \A i \in 1..Len(queue) : queue[i] \in Spans
  BY DEF TypeOK, Buffer!Consume
<1>2. PICK m \in Int : m = n + 1
  BY <1>1
<1>3. PICK k \in Int : k = Len(queue)
  BY <1>1
<1>4. /\ SubSeq(queue, m, k) \in Seq(Spans)
      /\ Len(SubSeq(queue, m, k)) = IF m <= k THEN k - m + 1 ELSE 0
      /\ \A i \in 1..(k - m + 1) : SubSeq(queue, m, k)[i] = queue[m + i - 1]
  <2>1. \A i \in m..k : queue[i] \in Spans
    BY <1>1, <1>2, <1>3
  <2> QED
    BY <2>1, SubSeqProperties
<1>5. queue' \in Seq(Spans) /\ Len(queue') = Len(queue) - n
  BY <1>1, <1>2, <1>3, <1>4
<1>6. ASSUME NEW i \in 1..Len(queue')
      PROVE  n + i \in 1..Len(queue) /\ queue'[i] = queue[n + i]
  <2>1. i \in 1..(k - m + 1) /\ m + i - 1 = n + i /\ n + i \in 1..Len(queue)
    BY <1>1, <1>2, <1>3, <1>5
  <2>2. queue'[i] = queue[m + i - 1]
    BY <1>1, <1>2, <1>3, <1>4, <2>1
  <2> QED
    BY <2>1, <2>2
<1>7. First(n) \subseteq Queued /\ First(n) \subseteq Spans
  BY <1>1 DEF First, Queued
<1>8. Queued' \subseteq Queued
  BY <1>6 DEF Queued
<1>9. ASSUME NEW i \in 1..Len(queue) PROVE queue[i] \in First(n) \cup Queued'
  <2>1. CASE i <= n
    BY <1>1, <2>1 DEF First
  <2>2. CASE i > n
    <3>1. PICK j \in Nat : j = i - n
      BY <1>1, <2>2
    <3>2. j \in 1..Len(queue') /\ n + j = i
      BY <1>1, <1>5, <2>2, <3>1
    <3>3. queue'[j] = queue[i]
      BY <1>6, <3>2
    <3> QED
      BY <3>2, <3>3 DEF Queued
  <2> QED
    BY <1>1, <2>1, <2>2
<1>10. Queued = First(n) \cup Queued'
  <2>1. Queued \subseteq First(n) \cup Queued'
    BY <1>9, Zenon DEF Queued
  <2> QED
    BY <1>7, <1>8, <2>1
<1> QED
  BY <1>1, <1>5, <1>6, <1>7, <1>10

\* The spans a flush takes are not among those that stay.
LEMMA ConsumeSplits ==
  ASSUME TypeOK, NEW n \in 0..Len(queue), Buffer!Consume(n),
         \A i, j \in 1..Len(queue) : i # j => queue[i] # queue[j]
  PROVE  /\ First(n) \cap Queued' = {}
         /\ \A i, j \in 1..Len(queue') : i # j => queue'[i] # queue'[j]
<1>1. /\ Len(queue') = Len(queue) - n /\ n \in Nat /\ Len(queue) \in Nat
      /\ \A i \in 1..Len(queue') : n + i \in 1..Len(queue) /\ queue'[i] = queue[n + i]
  BY ConsumeSome DEF TypeOK
<1>2. ASSUME NEW i \in 1..n, NEW j \in 1..Len(queue') PROVE queue[i] # queue'[j]
  <2>1. i \in 1..Len(queue) /\ i # n + j
    BY <1>1
  <2> QED
    BY <1>1, <2>1
<1>3. ASSUME NEW i \in 1..Len(queue'), NEW j \in 1..Len(queue'), i # j
      PROVE  queue'[i] # queue'[j]
  <2>1. n + i # n + j
    BY <1>1, <1>3
  <2> QED
    BY <1>1, <2>1
<1> QED
  BY <1>2, <1>3 DEF First, Queued

\* A flush that has read the number of spans takes that many.
LEMMA TakeSpansTakes ==
  ASSUME TypeOK, SizeHolds, NEW t \in Threads, TakeSpans(t)
  PROVE  /\ numSpans[t] \in 0..Len(queue) /\ Buffer!Consume(numSpans[t])
         /\ flush[t] \in Reports /\ report[flush[t]].state = "made"
         /\ report' = [report EXCEPT ![flush[t]].state = "filled",
                                     ![flush[t]].spans = First(numSpans[t])]
<1>1. numSpans[t] \in Unlocked..MaxBufferedSpans /\ numSpans[t] # Unlocked
      /\ Len(queue) \in Nat
  BY DEF TypeOK, TakeSpans
<1>2. numSpans[t] <= Len(queue) /\ flush[t] # NoReport /\ report[flush[t]].state = "made"
  BY <1>1 DEF SizeHolds
<1> QED
  BY <1>1, <1>2 DEF TypeOK, TakeSpans, First, Unlocked

LEMMA AcceptOne ==
  ASSUME TypeOK, NEW t \in Threads, Buffer!Accept(t)
  PROVE  /\ offer[t] \in Spans
         /\ Len(queue) < MaxBufferedSpans
         /\ queue' \in Seq(Spans) /\ Len(queue') = Len(queue) + 1
         /\ \A i \in 1..Len(queue) : queue'[i] = queue[i]
         /\ queue'[Len(queue) + 1] = offer[t]
         /\ Queued' = Queued \cup {offer[t]}
<1>1. offer[t] \in Spans /\ queue' = Append(queue, offer[t])
      /\ Len(queue) < MaxBufferedSpans /\ Len(queue) \in Nat
  BY DEF TypeOK, Buffer!Accept
<1>2. /\ queue' \in Seq(Spans) /\ Len(queue') = Len(queue) + 1
      /\ \A i \in 1..Len(queue) : queue'[i] = queue[i]
      /\ queue'[Len(queue) + 1] = offer[t]
  BY <1>1, AppendProperties DEF TypeOK
<1>3. Queued' = Queued \cup {offer[t]}
  BY <1>1, <1>2 DEF Queued
<1> QED
  BY <1>1, <1>2, <1>3

LEMMA QueuedAreSpans == TypeOK => Queued \subseteq Spans
BY DEF TypeOK, Queued

-----------------------------------------------------------------------------
(* Types                                                                   *)

ReportType == [state : {"none", "made", "filled", "inflight", "failed"},
               spans : SUBSET Spans, drops : SUBSET Spans]

\* A report changes its state and its spans.
LEMMA UpdateReport ==
  ASSUME report \in [Reports -> ReportType], NEW r \in Reports,
         NEW s \in {"none", "made", "filled", "inflight", "failed"},
         NEW S \in SUBSET Spans,
         report' = [report EXCEPT ![r].state = s, ![r].spans = S]
  PROVE  /\ report' \in [Reports -> ReportType]
         /\ report'[r] = [state |-> s, spans |-> S, drops |-> report[r].drops]
         /\ \A q \in Reports \ {r} : report'[q] = report[q]
BY DEF ReportType

\* A report changes its state only.
LEMMA UpdateState ==
  ASSUME report \in [Reports -> ReportType], NEW r \in Reports,
         NEW s \in {"none", "made", "filled", "inflight", "failed"},
         report' = [report EXCEPT ![r].state = s]
  PROVE  /\ report' \in [Reports -> ReportType]
         /\ report'[r] = [state |-> s, spans |-> report[r].spans,
                          drops |-> report[r].drops]
         /\ \A q \in Reports \ {r} : report'[q] = report[q]
BY DEF ReportType

LEMMA ReportTypes == TypeOK => report \in [Reports -> ReportType]
BY DEF TypeOK, ReportType

LEMMA TypeInv == IndInv /\ [Next]_vars => TypeOK'
<1> SUFFICES ASSUME IndInv, [Next]_vars PROVE TypeOK'
  OBVIOUS
<1> USE DEF bufferVars, historyVars
<1>0. TypeOK /\ SizeHolds
  BY DEF IndInv
<1>1. ASSUME NEW t \in Threads, NEW s \in Spans, RecordSpan(t, s) PROVE TypeOK'
  BY <1>0, <1>1 DEF TypeOK, RecordSpan, Buffer!Offer
<1>2. ASSUME NEW t \in Threads, Retry(t) PROVE TypeOK'
  BY <1>0, <1>2 DEF TypeOK, Retry, Buffer!Retry
<1>3. ASSUME NEW t \in Threads, Added(t) PROVE TypeOK'
  <2>1. queue' \in Seq(Spans) /\ Len(queue') <= MaxBufferedSpans
    BY <1>0, <1>3, AcceptOne DEF Added, TypeOK
  <2>2. since' \in [Threads -> 0..MaxBufferedSpans]
    BY <1>0, <1>3 DEF Added, CountAccepted, TypeOK
  <2>3. /\ offer' \in [Threads -> Spans \cup {NoSpan}]
        /\ seen' \in [Threads -> Nat]
    BY <1>0, <1>3 DEF Added, Buffer!Accept, TypeOK
  <2> QED
    BY <1>0, <1>3, <2>1, <2>2, <2>3 DEF TypeOK, Added
<1>4. ASSUME NEW t \in Threads, Full(t) PROVE TypeOK'
  BY <1>0, <1>4 DEF TypeOK, Full, Buffer!Refuse
<1>5. ASSUME NEW t \in Threads, AddAgain(t) PROVE TypeOK'
  BY <1>0, <1>5 DEF TypeOK, AddAgain, Buffer!Offer
<1>6. ASSUME NEW t \in Threads, Drop(t) PROVE TypeOK'
  <2>1. span[t] \in Spans
    BY <1>0, <1>6 DEF IndInv, ControlConsistent, TypeOK, Drop
  <2> QED
    BY <1>0, <1>6, <2>1 DEF TypeOK, Drop, Buffer!Refuse
<1>7. ASSUME NEW t \in Threads, NEW r \in Reports, BeginFlush(t, r) PROVE TypeOK'
  BY <1>0, <1>7 DEF TypeOK, BeginFlush
<1>8. ASSUME NEW t \in Threads, NothingToDo(t) PROVE TypeOK'
  BY <1>0, <1>8 DEF TypeOK, NothingToDo, None
<1>9. ASSUME NEW t \in Threads, TakeSpans(t) PROVE TypeOK'
  <2>1. /\ numSpans[t] \in 0..Len(queue) /\ Buffer!Consume(numSpans[t])
        /\ flush[t] \in Reports
        /\ report' = [report EXCEPT ![flush[t]].state = "filled",
                                    ![flush[t]].spans = First(numSpans[t])]
    BY <1>0, <1>9, TakeSpansTakes
  <2>2. /\ queue' \in Seq(Spans) /\ Len(queue') = Len(queue) - numSpans[t]
        /\ First(numSpans[t]) \in SUBSET Spans
        /\ UNCHANGED <<offer, seen>>
    BY <1>0, <2>1, ConsumeSome
  <2>3. Len(queue') <= MaxBufferedSpans
    BY <1>0, <2>1, <2>2 DEF TypeOK
  <2>4. report' \in [Reports -> ReportType]
    BY <1>0, <2>1, <2>2, ReportTypes, UpdateReport
  <2>5. numSpans' \in [Threads -> Unlocked..MaxBufferedSpans]
    BY <1>0, <1>9 DEF TypeOK, TakeSpans, Unlocked
  <2> QED
    BY <1>0, <1>9, <2>2, <2>3, <2>4, <2>5 DEF TypeOK, TakeSpans, ReportType
<1>10. ASSUME NEW t \in Threads, Send(t) PROVE TypeOK'
  <2>1. flush[t] \in Reports
    BY <1>0, <1>10 DEF TypeOK, Send
  <2>2. report' \in [Reports -> ReportType]
    BY <1>0, <1>10, <2>1, ReportTypes, UpdateState DEF Send
  <2> QED
    BY <1>0, <1>10, <2>2 DEF TypeOK, Send, ReportType
<1>11. ASSUME NEW r \in Reports, OnSuccess(r) PROVE TypeOK'
  BY <1>0, <1>11 DEF TypeOK, OnSuccess, None
<1>12. ASSUME NEW r \in Reports, OnFailure(r) PROVE TypeOK'
  <2>0. report \in [Reports -> ReportType] /\ {} \in SUBSET Spans
    BY <1>0, ReportTypes
  <2>1. report' \in [Reports -> ReportType]
    BY <1>12, <2>0, UpdateReport DEF OnFailure
  <2>2. report[r].spans \subseteq Spans
    BY <1>0 DEF TypeOK
  <2> QED
    BY <1>0, <1>12, <2>1, <2>2 DEF TypeOK, OnFailure, ReportType
<1>13. ASSUME NEW r \in Reports, UnconsumeDroppedSpans(r) PROVE TypeOK'
  BY <1>0, <1>13 DEF TypeOK, UnconsumeDroppedSpans, None
<1>14. CASE OnForkedChild
  <2>1. /\ queue' \in Seq(Spans) /\ Len(queue') <= MaxBufferedSpans
        /\ UNCHANGED <<offer, seen>>
    BY <1>0, <1>14, ConsumeAll DEF OnForkedChild
  <2>2. Queued \in SUBSET Spans
    BY <1>0, QueuedAreSpans
  <2> QED
    BY <1>0, <1>14, <2>1, <2>2 DEF TypeOK, OnForkedChild
<1>15. CASE UNCHANGED vars
  BY <1>0, <1>15 DEF TypeOK, vars
<1>16. ASSUME NEW t \in Threads, ReadSize(t) PROVE TypeOK'
  <2>1. Len(queue) \in Unlocked..MaxBufferedSpans
    BY <1>0 DEF TypeOK, Unlocked
  <2> QED
    BY <1>0, <1>16, <2>1 DEF TypeOK, ReadSize
<1> QED
  BY <1>1, <1>2, <1>3, <1>4, <1>5, <1>6, <1>7, <1>8, <1>9, <1>10, <1>11,
     <1>12, <1>13, <1>14, <1>15, <1>16 DEF Next

-----------------------------------------------------------------------------
(* How a step moves reports                                                *)

\* What a step does to one report; the others keep what they have.
Becomes(r, s, S, D) ==
  /\ report'[r] = [state |-> s, spans |-> S, drops |-> D]
  /\ \A q \in Reports \ {r} : report'[q] = report[q]

LEMMA BeginFlushMoves ==
  ASSUME TypeOK, NEW t \in Threads, NEW r \in Reports, BeginFlush(t, r)
  PROVE  Becomes(r, "made", {}, dropped)
BY DEF TypeOK, BeginFlush, Becomes

LEMMA NothingToDoMoves ==
  ASSUME TypeOK, NEW t \in Threads, NothingToDo(t)
  PROVE  flush[t] \in Reports /\ Becomes(flush[t], "none", {}, {})
BY DEF TypeOK, NothingToDo, None, Becomes

LEMMA TakeSpansMoves ==
  ASSUME TypeOK, SizeHolds, NEW t \in Threads, TakeSpans(t)
  PROVE  flush[t] \in Reports
         /\ Becomes(flush[t], "filled", First(numSpans[t]), report[flush[t]].drops)
<1>1. /\ numSpans[t] \in 0..Len(queue) /\ Buffer!Consume(numSpans[t])
      /\ flush[t] \in Reports
      /\ report' = [report EXCEPT ![flush[t]].state = "filled",
                                  ![flush[t]].spans = First(numSpans[t])]
  BY TakeSpansTakes
<1>2. First(numSpans[t]) \in SUBSET Spans
  BY <1>1, ConsumeSome
<1>3. report \in [Reports -> ReportType]
      /\ "filled" \in {"none", "made", "filled", "inflight", "failed"}
  BY ReportTypes
<1>4. /\ report'[flush[t]] = [state |-> "filled", spans |-> First(numSpans[t]),
                             drops |-> report[flush[t]].drops]
      /\ \A q \in Reports \ {flush[t]} : report'[q] = report[q]
  <2>1. PICK r \in Reports : r = flush[t]
    BY <1>1
  <2>2. PICK S \in SUBSET Spans : S = First(numSpans[t])
    BY <1>2
  <2>3. report' = [report EXCEPT ![r].state = "filled", ![r].spans = S]
    BY <1>1, <2>1, <2>2
  <2>4. /\ report'[r] = [state |-> "filled", spans |-> S, drops |-> report[r].drops]
        /\ \A q \in Reports \ {r} : report'[q] = report[q]
    BY <1>3, <2>3, UpdateReport
  <2> QED
    BY <2>1, <2>2, <2>4
<1> QED
  BY <1>1, <1>4 DEF Becomes

LEMMA SendMoves ==
  ASSUME TypeOK, NEW t \in Threads, Send(t)
  PROVE  flush[t] \in Reports
         /\ Becomes(flush[t], "inflight", report[flush[t]].spans, report[flush[t]].drops)
<1>1. flush[t] \in Reports
  BY DEF TypeOK, Send
<1> QED
  BY <1>1, ReportTypes, UpdateState DEF Send, Becomes

LEMMA EndMoves ==
  ASSUME TypeOK, NEW r \in Reports, OnSuccess(r) \/ UnconsumeDroppedSpans(r)
  PROVE  Becomes(r, "none", {}, {})
BY DEF TypeOK, OnSuccess, UnconsumeDroppedSpans, None, Becomes

LEMMA OnFailureMoves ==
  ASSUME TypeOK, NEW r \in Reports, OnFailure(r)
  PROVE  Becomes(r, "failed", {}, report[r].drops)
<1>1. report \in [Reports -> ReportType] /\ {} \in SUBSET Spans
  BY ReportTypes
<1> QED
  BY <1>1, UpdateReport DEF OnFailure, Becomes

\* The spans and the counts in reports, when one report changes.
LEMMA ReportSets ==
  ASSUME TypeOK, SpansAccounted, DropsConserved,
         NEW r \in Reports, NEW s \in {"none", "made", "filled", "inflight", "failed"},
         NEW S \in SUBSET Spans, NEW D \in SUBSET Spans,
         Becomes(r, s, S, D)
  PROVE  /\ InReports' = (InReports \ report[r].spans) \cup S
         /\ CountedInReports' = (CountedInReports \ report[r].drops) \cup D
         /\ report[r].spans \subseteq InReports
         /\ report[r].drops \subseteq CountedInReports
<1>1. /\ report'[r].spans = S /\ report'[r].drops = D
      /\ \A q \in Reports \ {r} : report'[q] = report[q]
  BY DEF Becomes
<1>2. \A q \in Reports : report[q].spans \subseteq Spans /\ report[q].drops \subseteq Spans
  BY DEF TypeOK
<1>3. \A q \in Reports \ {r} : report[q].spans \cap report[r].spans = {}
                           /\ report[q].drops \cap report[r].drops = {}
  BY DEF SpansAccounted, DropsConserved
<1>4. InReports' = (InReports \ report[r].spans) \cup S
  BY <1>1, <1>3 DEF InReports
<1>5. CountedInReports' = (CountedInReports \ report[r].drops) \cup D
  BY <1>1, <1>3 DEF CountedInReports
<1> QED
  BY <1>2, <1>4, <1>5 DEF InReports, CountedInReports

-----------------------------------------------------------------------------
(* Where threads stand                                                     *)

\* A step of the transporter.
LEMMA TransporterControl ==
  ASSUME TypeOK, ControlConsistent, UNCHANGED <<offer, pc, span, flush>>,
         NEW r \in Reports, NEW s \in {"none", "failed"}, NEW D,
         report[r].state \in {"inflight", "failed"},
         Becomes(r, s, {}, D), s = "none" => D = {}
  PROVE  ControlConsistent'
<1>1. \A t \in Threads : flush[t] # r
  BY DEF ControlConsistent
<1>2. /\ report'[r] = [state |-> s, spans |-> {}, drops |-> D]
      /\ \A q \in Reports \ {r} : report'[q] = report[q]
  BY DEF Becomes
<1>3. \A t \in Threads : flush[t] # NoReport =>
        report'[flush[t]].state \in {"made", "filled"} /\ pc[t] \in {"idle", "full"}
  BY <1>1, <1>2 DEF ControlConsistent, TypeOK
<1>4. \A q \in Reports :
        /\ report'[q].state \in {"none", "made", "failed"} => report'[q].spans = {}
        /\ report'[q].state = "none" => report'[q].drops = {}
  BY <1>2 DEF ControlConsistent
<1> QED
  BY <1>3, <1>4 DEF ControlConsistent

LEMMA ControlInv == IndInv /\ [Next]_vars => ControlConsistent'
<1> SUFFICES ASSUME IndInv, [Next]_vars PROVE ControlConsistent'
  OBVIOUS
<1> USE DEF bufferVars, historyVars
<1>0. TypeOK /\ ControlConsistent /\ SizeHolds
  BY DEF IndInv
<1>1. ASSUME NEW t \in Threads, NEW s \in Spans, RecordSpan(t, s)
      PROVE  ControlConsistent'
  BY <1>0, <1>1 DEF TypeOK, ControlConsistent, RecordSpan, Buffer!Offer
<1>2. ASSUME NEW t \in Threads, Retry(t) PROVE ControlConsistent'
  BY <1>0, <1>2 DEF ControlConsistent, Retry, Buffer!Retry
<1>3. ASSUME NEW t \in Threads, Added(t) PROVE ControlConsistent'
  BY <1>0, <1>3 DEF TypeOK, ControlConsistent, Added, Buffer!Accept
<1>4. ASSUME NEW t \in Threads, Full(t) PROVE ControlConsistent'
  BY <1>0, <1>4 DEF TypeOK, ControlConsistent, Full, Buffer!Refuse
<1>5. ASSUME NEW t \in Threads, AddAgain(t) PROVE ControlConsistent'
  BY <1>0, <1>5 DEF TypeOK, ControlConsistent, AddAgain, Buffer!Offer
<1>6. ASSUME NEW t \in Threads, Drop(t) PROVE ControlConsistent'
  BY <1>0, <1>6 DEF TypeOK, ControlConsistent, Drop, Buffer!Refuse
<1>7. ASSUME NEW t \in Threads, NEW r \in Reports, BeginFlush(t, r)
      PROVE  ControlConsistent'
  <2>1. /\ report'[r] = [state |-> "made", spans |-> {}, drops |-> dropped]
        /\ \A q \in Reports \ {r} : report'[q] = report[q]
    BY <1>0, <1>7, BeginFlushMoves DEF Becomes
  <2>2. /\ flush' = [flush EXCEPT ![t] = r] /\ pc[t] \in {"idle", "full"}
        /\ report[r].state = "none" /\ UNCHANGED <<offer, pc, span>>
    BY <1>7 DEF BeginFlush
  <2>3. \A u \in Threads : flush[u] # r
    BY <1>0, <2>2 DEF ControlConsistent
  <2>4. \A u \in Threads : flush'[u] # NoReport =>
          report'[flush'[u]].state \in {"made", "filled"} /\ pc[u] \in {"idle", "full"}
    BY <1>0, <2>1, <2>2, <2>3 DEF TypeOK, ControlConsistent
  <2>5. \A u, v \in Threads : u # v /\ flush'[u] = flush'[v] => flush'[u] = NoReport
    BY <1>0, <2>2, <2>3 DEF TypeOK, ControlConsistent
  <2>6. \A q \in Reports :
          /\ report'[q].state \in {"none", "made", "failed"} => report'[q].spans = {}
          /\ report'[q].state = "none" => report'[q].drops = {}
    BY <1>0, <2>1 DEF ControlConsistent
  <2> QED
    BY <1>0, <2>2, <2>4, <2>5, <2>6 DEF ControlConsistent
<1>8. ASSUME NEW t \in Threads, NothingToDo(t) PROVE ControlConsistent'
  <2>1. /\ flush[t] \in Reports
        /\ report'[flush[t]] = [state |-> "none", spans |-> {}, drops |-> {}]
        /\ \A q \in Reports \ {flush[t]} : report'[q] = report[q]
    BY <1>0, <1>8, NothingToDoMoves DEF Becomes
  <2>2. /\ flush' = [flush EXCEPT ![t] = NoReport]
        /\ UNCHANGED <<offer, pc, span>>
    BY <1>8 DEF NothingToDo
  <2>3. \A u \in Threads : flush'[u] # NoReport =>
          report'[flush'[u]].state \in {"made", "filled"} /\ pc[u] \in {"idle", "full"}
    BY <1>0, <2>1, <2>2 DEF TypeOK, ControlConsistent
  <2>4. \A u, v \in Threads : u # v /\ flush'[u] = flush'[v] => flush'[u] = NoReport
    BY <1>0, <2>2 DEF TypeOK, ControlConsistent
  <2>5. \A q \in Reports :
          /\ report'[q].state \in {"none", "made", "failed"} => report'[q].spans = {}
          /\ report'[q].state = "none" => report'[q].drops = {}
    BY <1>0, <2>1 DEF ControlConsistent
  <2> QED
    BY <1>0, <2>2, <2>3, <2>4, <2>5 DEF ControlConsistent
<1>9. ASSUME NEW t \in Threads, TakeSpans(t) PROVE ControlConsistent'
  <2>1. /\ Becomes(flush[t], "filled", First(numSpans[t]), report[flush[t]].drops)
        /\ flush[t] \in Reports
    BY <1>0, <1>9, TakeSpansMoves
  <2>2. UNCHANGED <<offer, pc, span, flush>>
    BY <1>9 DEF TakeSpans, Buffer!Consume
  <2>3. /\ report'[flush[t]].state = "filled"
        /\ \A q \in Reports \ {flush[t]} : report'[q] = report[q]
    BY <2>1 DEF Becomes
  <2>4. \A u \in Threads : flush[u] # NoReport =>
          report'[flush[u]].state \in {"made", "filled"} /\ pc[u] \in {"idle", "full"}
    <3>1. \A u \in Threads : flush[u] # NoReport => flush[u] \in Reports
      BY <1>0 DEF TypeOK
    <3> QED
      BY <1>0, <2>3, <3>1 DEF ControlConsistent
  <2>5. \A q \in Reports :
          /\ report'[q].state \in {"none", "made", "failed"} => report'[q].spans = {}
          /\ report'[q].state = "none" => report'[q].drops = {}
    BY <1>0, <2>3 DEF ControlConsistent
  <2> QED
    BY <1>0, <2>2, <2>4, <2>5 DEF ControlConsistent
<1>10. ASSUME NEW t \in Threads, Send(t) PROVE ControlConsistent'
  BY <1>0, <1>10, SendMoves DEF TypeOK, ControlConsistent, Send, Becomes
<1>11. ASSUME NEW r \in Reports, OnSuccess(r) PROVE ControlConsistent'
  <2>1. Becomes(r, "none", {}, {})
    BY <1>0, <1>11, EndMoves
  <2>2. report[r].state = "inflight" /\ UNCHANGED <<offer, pc, span, flush>>
    BY <1>11 DEF OnSuccess
  <2> QED
    BY <1>0, <2>1, <2>2, TransporterControl
<1>12. ASSUME NEW r \in Reports, OnFailure(r) PROVE ControlConsistent'
  <2>1. Becomes(r, "failed", {}, report[r].drops)
    BY <1>0, <1>12, OnFailureMoves
  <2>2. report[r].state = "inflight" /\ UNCHANGED <<offer, pc, span, flush>>
    BY <1>12 DEF OnFailure
  <2> QED
    BY <1>0, <2>1, <2>2, TransporterControl
<1>13. ASSUME NEW r \in Reports, UnconsumeDroppedSpans(r) PROVE ControlConsistent'
  <2>1. Becomes(r, "none", {}, {})
    BY <1>0, <1>13, EndMoves
  <2>2. report[r].state = "failed" /\ UNCHANGED <<offer, pc, span, flush>>
    BY <1>13 DEF UnconsumeDroppedSpans
  <2> QED
    BY <1>0, <2>1, <2>2, TransporterControl
<1>14. CASE OnForkedChild
  BY <1>0, <1>14, ConsumeAll DEF ControlConsistent, OnForkedChild
<1>15. CASE UNCHANGED vars
  BY <1>0, <1>15 DEF ControlConsistent, vars
<1>16. ASSUME NEW t \in Threads, ReadSize(t) PROVE ControlConsistent'
  BY <1>0, <1>16 DEF ControlConsistent, ReadSize
<1> QED
  BY <1>1, <1>2, <1>3, <1>4, <1>5, <1>6, <1>7, <1>8, <1>9, <1>10, <1>11,
     <1>12, <1>13, <1>14, <1>15, <1>16 DEF Next

-----------------------------------------------------------------------------
(* The number of spans that a flush has read                               *)

\* Nobody holds the mutex but a thread in the middle of a flush.
LEMMA LockedInFlush ==
  ASSUME SizeHolds, NEW t \in Threads, flush[t] = NoReport
  PROVE  numSpans[t] = Unlocked
BY DEF SizeHolds

\* What stays true of it when the buffer does not shrink and the reports
\* that are being made stay as they are.
LEMMA SizeUnchanged ==
  ASSUME TypeOK, SizeHolds, UNCHANGED numSpans,
         Len(queue') \in Nat, Len(queue) <= Len(queue'),
         \A t \in Threads : numSpans[t] # Unlocked =>
            flush'[t] = flush[t] /\ report'[flush[t]].state = "made"
  PROVE  SizeHolds'
<1>1. Len(queue) \in Nat /\ \A t \in Threads : numSpans[t] \in Int
  BY DEF TypeOK, Unlocked
<1> QED
  BY <1>1 DEF SizeHolds

LEMMA SizeInv == IndInv /\ [Next]_vars => SizeHolds'
<1> SUFFICES ASSUME IndInv, [Next]_vars PROVE SizeHolds'
  OBVIOUS
<1> USE DEF bufferVars, historyVars
<1>0. TypeOK /\ ControlConsistent /\ SizeHolds
  BY DEF IndInv
<1>a. Len(queue) \in Nat /\ Len(queue) <= Len(queue)
  BY <1>0 DEF TypeOK
<1>1. ASSUME NEW t \in Threads, Added(t) PROVE SizeHolds'
  <2>1. Len(queue') \in Nat /\ Len(queue) <= Len(queue')
    BY <1>0, <1>1, <1>a, AcceptOne DEF Added
  <2>2. UNCHANGED <<numSpans, flush, report>>
    BY <1>1 DEF Added
  <2>3. \A u \in Threads : numSpans[u] # Unlocked => report[flush[u]].state = "made"
    BY <1>0 DEF SizeHolds
  <2> QED
    BY <1>0, <2>1, <2>2, <2>3, SizeUnchanged
<1>2. ASSUME NEW t \in Threads, NEW r \in Reports, BeginFlush(t, r) PROVE SizeHolds'
  <2>1. UNCHANGED <<queue, numSpans>> /\ flush' = [flush EXCEPT ![t] = r]
        /\ numSpans[t] = Unlocked /\ report[r].state = "none"
    BY <1>0, <1>2, LockedInFlush DEF BeginFlush
  <2>2. ASSUME NEW u \in Threads, numSpans[u] # Unlocked
        PROVE  flush'[u] = flush[u] /\ report'[flush[u]].state = "made"
    <3>1. flush[u] \in Reports /\ report[flush[u]].state = "made"
      BY <1>0, <2>2 DEF SizeHolds, TypeOK
    <3>2. report'[flush[u]] = report[flush[u]]
      BY <1>0, <1>2, <2>1, <3>1, BeginFlushMoves DEF Becomes
    <3> QED
      BY <1>0, <2>1, <2>2, <3>1, <3>2 DEF TypeOK
  <2> QED
    BY <1>0, <1>a, <2>1, <2>2, SizeUnchanged
<1>3. ASSUME NEW t \in Threads, NothingToDo(t) PROVE SizeHolds'
  BY <1>3 DEF NothingToDo, MutexFree, SizeHolds
<1>4. ASSUME NEW t \in Threads, ReadSize(t) PROVE SizeHolds'
  <2>1. /\ numSpans' = [numSpans EXCEPT ![t] = Len(queue)]
        /\ \A u \in Threads : numSpans[u] = Unlocked
        /\ flush[t] # NoReport /\ report[flush[t]].state = "made"
        /\ UNCHANGED <<queue, flush, report>>
    BY <1>4 DEF ReadSize, MutexFree
  <2>2. /\ numSpans'[t] = Len(queue)
        /\ \A u \in Threads : u # t => numSpans'[u] = Unlocked
    BY <1>0, <2>1 DEF TypeOK
  <2> QED
    BY <1>a, <2>1, <2>2 DEF SizeHolds
<1>5. ASSUME NEW t \in Threads, TakeSpans(t) PROVE SizeHolds'
  <2>1. numSpans[t] # Unlocked /\ numSpans' = [numSpans EXCEPT ![t] = Unlocked]
    BY <1>5 DEF TakeSpans
  <2>2. \A u \in Threads : numSpans'[u] = Unlocked
    BY <1>0, <2>1 DEF SizeHolds, TypeOK
  <2> QED
    BY <2>2 DEF SizeHolds
<1>6. ASSUME NEW t \in Threads, Send(t) PROVE SizeHolds'
  <2>1. UNCHANGED <<queue, numSpans>> /\ flush' = [flush EXCEPT ![t] = NoReport]
        /\ report[flush[t]].state = "filled"
    BY <1>6 DEF Send
  <2>2. ASSUME NEW u \in Threads, numSpans[u] # Unlocked
        PROVE  flush'[u] = flush[u] /\ report'[flush[u]].state = "made"
    <3>1. flush[u] \in Reports /\ report[flush[u]].state = "made"
      BY <1>0, <2>2 DEF SizeHolds, TypeOK
    <3>2. flush[u] # flush[t] /\ u # t
      BY <2>1, <3>1
    <3>3. report'[flush[u]] = report[flush[u]]
      BY <1>0, <1>6, <3>1, <3>2, SendMoves DEF Becomes
    <3> QED
      BY <1>0, <2>1, <3>1, <3>2, <3>3 DEF TypeOK
  <2> QED
    BY <1>0, <1>a, <2>1, <2>2, SizeUnchanged
<1>7. ASSUME NEW r \in Reports, OnSuccess(r) \/ OnFailure(r) \/ UnconsumeDroppedSpans(r)
      PROVE  SizeHolds'
  <2>1. UNCHANGED <<queue, numSpans, flush>> /\ report[r].state \in {"inflight", "failed"}
    BY <1>7 DEF OnSuccess, OnFailure, UnconsumeDroppedSpans
  <2>2. \A q \in Reports \ {r} : report'[q] = report[q]
    BY <1>0, <1>7, EndMoves, OnFailureMoves DEF Becomes
  <2>3. ASSUME NEW u \in Threads, numSpans[u] # Unlocked
        PROVE  flush'[u] = flush[u] /\ report'[flush[u]].state = "made"
    <3>1. flush[u] \in Reports /\ report[flush[u]].state = "made"
      BY <1>0, <2>3 DEF SizeHolds, TypeOK
    <3> QED
      BY <2>1, <2>2, <3>1
  <2> QED
    BY <1>0, <1>a, <2>1, <2>3, SizeUnchanged
<1>8. CASE OnForkedChild
  <2>1. UNCHANGED numSpans /\ \A t \in Threads : flush[t] = NoReport
    BY <1>8 DEF OnForkedChild
  <2>2. \A t \in Threads : numSpans[t] = Unlocked
    BY <1>0, <2>1, LockedInFlush
  <2> QED
    BY <2>1, <2>2 DEF SizeHolds
<1>9. CASE UNCHANGED <<queue, numSpans, flush, report>>
  BY <1>0, <1>9 DEF SizeHolds
<1>10. \/ \E t \in Threads : \/ \E s \in Spans : RecordSpan(t, s)
                             \/ Retry(t) \/ Full(t) \/ AddAgain(t) \/ Drop(t)
       \/ UNCHANGED vars
       => UNCHANGED <<queue, numSpans, flush, report>>
  BY DEF RecordSpan, Retry, Full, AddAgain, Drop, vars,
         Buffer!Offer, Buffer!Retry, Buffer!Refuse
<1> QED
  BY <1>1, <1>2, <1>3, <1>4, <1>5, <1>6, <1>7, <1>8, <1>9, <1>10 DEF Next

-----------------------------------------------------------------------------
(* Room in the buffer after a flush                                        *)

LEMMA RoomInv == IndInv /\ [Next]_vars => RoomCounted'
<1> SUFFICES ASSUME IndInv, [Next]_vars PROVE RoomCounted'
  OBVIOUS
<1> USE DEF bufferVars, historyVars
<1>0. TypeOK /\ RoomCounted /\ ControlConsistent /\ SizeHolds
      /\ Len(queue) \in Nat /\ Len(queue) <= MaxBufferedSpans
      /\ \A t \in Threads : since[t] \in 0..MaxBufferedSpans
  BY DEF IndInv, TypeOK
\* A thread that offers a span is not in a flush.
<1>a. \A t \in Threads : /\ flush[t] = NoReport => numSpans[t] = Unlocked
                         /\ offer[t] # NoSpan => numSpans[t] = Unlocked
  <2>1. \A t \in Threads : offer[t] # NoSpan => flush[t] = NoReport
    BY <1>0 DEF ControlConsistent
  <2> QED
    BY <1>0, <2>1, LockedInFlush
<1>b. \A t \in Threads : numSpans[t] # Unlocked => numSpans[t] \in Nat
  BY <1>0 DEF TypeOK, Unlocked
<1>1. ASSUME NEW t \in Threads, NEW s \in Spans, RecordSpan(t, s)
      PROVE  RoomCounted'
  <2>1. /\ numSpans[t] = Unlocked /\ UNCHANGED <<queue, numSpans>>
        /\ offer' = [offer EXCEPT ![t] = s] /\ seen' = [seen EXCEPT ![t] = Len(queue)]
        /\ since' = [since EXCEPT ![t] = MaxBufferedSpans]
    BY <1>1, <1>a DEF RecordSpan, Buffer!Offer
  <2> QED
    BY <1>0, <2>1 DEF TypeOK, RoomCounted
<1>2. ASSUME NEW t \in Threads, Retry(t) PROVE RoomCounted'
  <2>1. /\ numSpans[t] = Unlocked /\ UNCHANGED <<queue, numSpans, offer, since>>
        /\ seen' = [seen EXCEPT ![t] = Len(queue)]
    BY <1>2, <1>a DEF Retry, Buffer!Retry
  <2> QED
    BY <1>0, <2>1 DEF TypeOK, RoomCounted
<1>3. ASSUME NEW t \in Threads, Added(t) PROVE RoomCounted'
  <2>1. Len(queue') = Len(queue) + 1 /\ Len(queue) < MaxBufferedSpans
    BY <1>0, <1>3, AcceptOne DEF Added
  <2>2. \A u \in Threads : since'[u] = IF since[u] < MaxBufferedSpans
                                      THEN since[u] + 1 ELSE since[u]
    BY <1>3 DEF Added, CountAccepted
  <2>3. \A u \in Threads : offer'[u] # NoSpan =>
          offer[u] # NoSpan /\ seen'[u] = seen[u] + 1
    BY <1>0, <1>3 DEF Added, Buffer!Accept, TypeOK
  <2>4. \A u \in Threads : seen[u] \in Nat
    BY <1>0 DEF TypeOK
  <2>5. UNCHANGED numSpans
    BY <1>3 DEF Added
  <2>6. ASSUME NEW u \in Threads
        PROVE  /\ numSpans'[u] = Unlocked => Len(queue') <= since'[u]
               /\ numSpans'[u] # Unlocked => Len(queue') <= numSpans'[u] + since'[u]
    BY <1>0, <1>b, <2>1, <2>2, <2>5 DEF RoomCounted
  <2>7. ASSUME NEW u \in Threads, offer'[u] # NoSpan
        PROVE  seen'[u] <= since'[u] \/ since'[u] = MaxBufferedSpans
    BY <1>0, <2>2, <2>3, <2>4, <2>7 DEF RoomCounted
  <2> QED
    BY <2>6, <2>7 DEF RoomCounted
<1>4. ASSUME NEW t \in Threads, Full(t) PROVE RoomCounted'
  BY <1>0, <1>4 DEF TypeOK, RoomCounted, Full, Buffer!Refuse
<1>5. ASSUME NEW t \in Threads, AddAgain(t) PROVE RoomCounted'
  <2>1. /\ numSpans[t] = Unlocked /\ UNCHANGED <<queue, numSpans, since>>
        /\ offer' = [offer EXCEPT ![t] = span[t]]
        /\ seen' = [seen EXCEPT ![t] = Len(queue)]
    BY <1>5, <1>a DEF AddAgain, Buffer!Offer
  <2> QED
    BY <1>0, <2>1 DEF TypeOK, RoomCounted
<1>6. ASSUME NEW t \in Threads, Drop(t) PROVE RoomCounted'
  BY <1>0, <1>6 DEF TypeOK, RoomCounted, Drop, Buffer!Refuse
<1>7. ASSUME NEW t \in Threads, NothingToDo(t) PROVE RoomCounted'
  <2>1. offer[t] = NoSpan
    BY <1>0, <1>7 DEF ControlConsistent, NothingToDo
  <2>2. /\ numSpans[t] = Unlocked /\ Len(queue) = 0
        /\ since' = [since EXCEPT ![t] = 0] /\ UNCHANGED <<queue, offer, seen, numSpans>>
    BY <1>7 DEF NothingToDo, MutexFree
  <2> QED
    BY <1>0, <2>1, <2>2 DEF TypeOK, RoomCounted
<1>8. ASSUME NEW t \in Threads, TakeSpans(t) PROVE RoomCounted'
  <2>1. numSpans[t] \in 0..Len(queue) /\ Buffer!Consume(numSpans[t])
        /\ numSpans[t] # Unlocked /\ numSpans[t] \in Nat
    BY <1>0, <1>8, <1>b, TakeSpansTakes DEF TakeSpans
  <2>2. Len(queue') = Len(queue) - numSpans[t] /\ UNCHANGED <<offer, seen>>
    BY <1>0, <2>1, ConsumeSome
  <2>3. numSpans' = [numSpans EXCEPT ![t] = Unlocked] /\ UNCHANGED since
    BY <1>8 DEF TakeSpans
  <2>4. \A u \in Threads : numSpans'[u] = Unlocked /\ (u # t => numSpans[u] = Unlocked)
    BY <1>0, <2>1, <2>3 DEF TypeOK, SizeHolds
  <2>5. ASSUME NEW u \in Threads PROVE Len(queue') <= since[u]
    <3>1. CASE u = t
      <4>1. Len(queue) <= numSpans[t] + since[t]
        BY <1>0, <2>1 DEF RoomCounted
      <4> QED
        BY <1>0, <2>1, <2>2, <3>1, <4>1
    <3>2. CASE u # t
      <4>1. Len(queue) <= since[u]
        BY <1>0, <2>4, <3>2 DEF RoomCounted
      <4> QED
        BY <1>0, <2>1, <2>2, <4>1
    <3> QED
      BY <3>1, <3>2
  <2> QED
    BY <1>0, <2>2, <2>3, <2>4, <2>5 DEF RoomCounted
<1>9. CASE OnForkedChild
  <2>1. Len(queue') = 0 /\ UNCHANGED <<offer, seen, since, numSpans>>
    BY <1>0, <1>9, ConsumeAll DEF OnForkedChild
  <2>2. \A t \in Threads : numSpans[t] = Unlocked
    BY <1>9, <1>a DEF OnForkedChild
  <2> QED
    BY <1>0, <2>1, <2>2 DEF RoomCounted
<1>10. CASE UNCHANGED <<queue, offer, seen, since, numSpans>>
  BY <1>0, <1>10 DEF RoomCounted
<1>11. \/ \E t \in Threads : \/ \E r \in Reports : BeginFlush(t, r)
                             \/ Send(t)
       \/ \E r \in Reports : OnSuccess(r) \/ OnFailure(r) \/ UnconsumeDroppedSpans(r)
       \/ UNCHANGED vars
       => UNCHANGED <<queue, offer, seen, since, numSpans>>
  BY DEF BeginFlush, Send, OnSuccess, OnFailure, UnconsumeDroppedSpans, vars
<1>12. ASSUME NEW t \in Threads, ReadSize(t) PROVE RoomCounted'
  <2>1. offer[t] = NoSpan
    BY <1>0, <1>12 DEF ControlConsistent, ReadSize
  <2>2. /\ numSpans' = [numSpans EXCEPT ![t] = Len(queue)]
        /\ since' = [since EXCEPT ![t] = 0]
        /\ UNCHANGED <<queue, offer, seen>>
    BY <1>12 DEF ReadSize
  <2>3. Len(queue) # Unlocked
    BY <1>0 DEF Unlocked
  <2> QED
    BY <1>0, <2>1, <2>2, <2>3 DEF TypeOK, RoomCounted
<1> QED
  BY <1>1, <1>2, <1>3, <1>4, <1>5, <1>6, <1>7, <1>8, <1>9, <1>10, <1>11, <1>12 DEF Next

-----------------------------------------------------------------------------
(* Spans                                                                   *)

\* What stays true of spans when nothing about them changes.
LEMMA SpansUnchanged ==
  ASSUME SpansAccounted,
         UNCHANGED <<recorded, span, queue, sent, lost, parents>>, InReports' = InReports,
         \A q \in Reports : report'[q].spans = report[q].spans
  PROVE  SpansAccounted'
BY DEF SpansAccounted, Held, Queued

LEMMA HeldAfter ==
  ASSUME TypeOK, SpansAccounted, NEW t \in Threads, NEW s \in Spans \cup {NoSpan},
         span' = [span EXCEPT ![t] = s]
  PROVE  Held' = (Held \ {span[t]}) \cup ({s} \ {NoSpan})
BY DEF TypeOK, SpansAccounted, Held

LEMMA SpansInv == IndInv /\ [Next]_vars => SpansAccounted'
<1> SUFFICES ASSUME IndInv, [Next]_vars PROVE SpansAccounted'
  OBVIOUS
<1> USE DEF bufferVars, historyVars
<1>0. TypeOK /\ ControlConsistent /\ SizeHolds /\ SpansAccounted /\ DropsConserved
  BY DEF IndInv
<1>1. ASSUME NEW t \in Threads, NEW s \in Spans, RecordSpan(t, s)
      PROVE  SpansAccounted'
  <2>1. span[t] = NoSpan /\ s \notin recorded /\ recorded' = recorded \cup {s}
        /\ span' = [span EXCEPT ![t] = s]
        /\ UNCHANGED <<queue, report, sent, lost, parents>>
    BY <1>0, <1>1 DEF RecordSpan, ControlConsistent, Buffer!Offer
  <2>2. Held' = Held \cup {s}
    <3>1. Held' = (Held \ {NoSpan}) \cup ({s} \ {NoSpan})
      BY <1>0, <2>1, HeldAfter
    <3> QED
      BY <3>1 DEF Held
  <2>3. \A u, v \in Threads : u # v /\ span'[u] = span'[v] => span'[u] = NoSpan
    <3>1. \A u \in Threads : span[u] # s
      BY <1>0, <2>1 DEF SpansAccounted, Held
    <3> QED
      BY <1>0, <2>1, <3>1 DEF TypeOK, SpansAccounted
  <2>4. UNCHANGED <<Queued, InReports>>
    BY <2>1 DEF Queued, InReports
  <2> QED
    BY <1>0, <2>1, <2>2, <2>3, <2>4 DEF SpansAccounted
<1>2. ASSUME NEW t \in Threads, Added(t) PROVE SpansAccounted'
  <2>1. /\ offer[t] = span[t] /\ span[t] \in Spans /\ span[t] \in Held
        /\ span' = [span EXCEPT ![t] = NoSpan]
        /\ UNCHANGED <<recorded, report, sent, lost, parents>>
    BY <1>0, <1>2, AcceptOne DEF Added, ControlConsistent, Held
  <2>2. Held' = Held \ {span[t]}
    BY <1>0, <2>1, HeldAfter
  <2>3. /\ Len(queue') = Len(queue) + 1
        /\ \A i \in 1..Len(queue) : queue'[i] = queue[i]
        /\ queue'[Len(queue) + 1] = span[t]
        /\ Queued' = Queued \cup {span[t]}
        /\ Len(queue) \in Nat
    BY <1>0, <1>2, <2>1, AcceptOne DEF Added, TypeOK
  <2>4. \A u, v \in Threads : u # v /\ span'[u] = span'[v] => span'[u] = NoSpan
    BY <1>0, <2>1 DEF TypeOK, SpansAccounted
  <2>5. \A i, j \in 1..Len(queue') : i # j => queue'[i] # queue'[j]
    <3>1. \A i \in 1..Len(queue) : queue[i] # span[t]
      BY <1>0, <2>1 DEF SpansAccounted, Queued
    <3> QED
      BY <1>0, <2>3, <3>1 DEF SpansAccounted
  <2>6. UNCHANGED InReports
    BY <2>1 DEF InReports
  <2> QED
    BY <1>0, <2>1, <2>2, <2>3, <2>4, <2>5, <2>6 DEF SpansAccounted
<1>3. ASSUME NEW t \in Threads, Drop(t) PROVE SpansAccounted'
  <2>1. /\ span[t] \in Spans /\ span[t] \in Held
        /\ span' = [span EXCEPT ![t] = NoSpan]
        /\ lost' = lost \cup {span[t]}
        /\ UNCHANGED <<recorded, queue, report, sent, parents>>
    BY <1>0, <1>3 DEF Drop, ControlConsistent, Held, TypeOK, Buffer!Refuse
  <2>2. Held' = Held \ {span[t]}
    BY <1>0, <2>1, HeldAfter
  <2>3. \A u, v \in Threads : u # v /\ span'[u] = span'[v] => span'[u] = NoSpan
    BY <1>0, <2>1 DEF TypeOK, SpansAccounted
  <2>4. UNCHANGED <<Queued, InReports>>
    BY <2>1 DEF Queued, InReports
  <2> QED
    BY <1>0, <2>1, <2>2, <2>3, <2>4 DEF SpansAccounted
<1>4. ASSUME NEW t \in Threads, NEW r \in Reports, BeginFlush(t, r)
      PROVE  SpansAccounted'
  <2>1. report[r].spans = {} /\ {} \in SUBSET Spans /\ dropped \in SUBSET Spans
        /\ Becomes(r, "made", {}, dropped)
    BY <1>0, <1>4, BeginFlushMoves DEF ControlConsistent, BeginFlush, TypeOK
  <2>2. InReports' = (InReports \ report[r].spans) \cup {}
    BY <1>0, <2>1, ReportSets, ZenonT(60)
  <2>3. \A q \in Reports : report'[q].spans = report[q].spans
    BY <2>1 DEF Becomes
  <2> QED
    BY <1>0, <1>4, <2>1, <2>2, <2>3, SpansUnchanged DEF BeginFlush
<1>5. ASSUME NEW t \in Threads, NothingToDo(t) PROVE SpansAccounted'
  <2>0. PICK r \in Reports : r = flush[t]
    BY <1>0, <1>5, NothingToDoMoves
  <2>1. report[r].spans = {} /\ {} \in SUBSET Spans /\ Becomes(r, "none", {}, {})
    BY <1>0, <1>5, <2>0, NothingToDoMoves DEF ControlConsistent, NothingToDo
  <2>2. InReports' = (InReports \ report[r].spans) \cup {}
    BY <1>0, <2>1, ReportSets, Zenon
  <2>3. \A q \in Reports : report'[q].spans = report[q].spans
    BY <2>1 DEF Becomes
  <2> QED
    BY <1>0, <1>5, <2>1, <2>2, <2>3, SpansUnchanged DEF NothingToDo
<1>6. ASSUME NEW t \in Threads, TakeSpans(t) PROVE SpansAccounted'
  <2>0. PICK r \in Reports : r = flush[t]
    BY <1>0, <1>6, TakeSpansMoves
  <2>1. PICK Taken \in SUBSET Spans : Taken = First(numSpans[t])
    <3>1. numSpans[t] \in 0..Len(queue) /\ Buffer!Consume(numSpans[t])
      BY <1>0, <1>6, TakeSpansTakes
    <3> QED
      BY <1>0, <3>1, ConsumeSome
  <2>2. /\ Queued = Taken \cup Queued' /\ Taken \cap Queued' = {}
        /\ \A i, j \in 1..Len(queue') : i # j => queue'[i] # queue'[j]
    <3>1. numSpans[t] \in 0..Len(queue) /\ Buffer!Consume(numSpans[t])
      BY <1>0, <1>6, TakeSpansTakes
    <3>2. \A i, j \in 1..Len(queue) : i # j => queue[i] # queue[j]
      BY <1>0 DEF SpansAccounted
    <3> QED
      BY <1>0, <2>1, <3>1, <3>2, ConsumeSome, ConsumeSplits
  <2>3. Becomes(r, "filled", Taken, report[r].drops)
    BY <1>0, <1>6, <2>0, <2>1, TakeSpansMoves
  <2>4. report[r].spans = {} /\ report[r].drops \in SUBSET Spans
    BY <1>0, <1>6, <2>0, TakeSpansTakes DEF ControlConsistent, TypeOK
  <2>5. InReports' = (InReports \ report[r].spans) \cup Taken
    BY <1>0, <2>3, <2>4, ReportSets, ZenonT(30)
  <2>6. \A q, p \in Reports : q # p => report'[q].spans \cap report'[p].spans = {}
    <3>1. report'[r].spans = Taken
          /\ \A q \in Reports \ {r} : report'[q] = report[q]
      BY <2>3 DEF Becomes
    <3>2. \A q \in Reports : report[q].spans \cap Taken = {}
      BY <1>0, <2>2 DEF SpansAccounted, InReports, TypeOK
    <3> QED
      BY <1>0, <3>1, <3>2 DEF SpansAccounted
  <2>7. UNCHANGED <<span, recorded, sent, lost, parents>>
    BY <1>6 DEF TakeSpans
  <2>8. UNCHANGED Held
    BY <2>7 DEF Held
  <2> QED
    BY <1>0, <2>2, <2>4, <2>5, <2>6, <2>7, <2>8 DEF SpansAccounted
<1>7. ASSUME NEW t \in Threads, Send(t) PROVE SpansAccounted'
  <2>1. \A q \in Reports : report'[q].spans = report[q].spans
    <3>0. PICK r \in Reports : r = flush[t]
      BY <1>0, <1>7, SendMoves
    <3>1. Becomes(r, "inflight", report[r].spans, report[r].drops)
      BY <1>0, <1>7, <3>0, SendMoves
    <3>2. report'[r].spans = report[r].spans
          /\ \A q \in Reports \ {r} : report'[q] = report[q]
      BY <3>1 DEF Becomes
    <3> QED
      BY <3>2
  <2>2. InReports' = InReports
    BY <2>1 DEF InReports
  <2> QED
    BY <1>0, <1>7, <2>1, <2>2, SpansUnchanged DEF Send
<1>8. ASSUME NEW r \in Reports, OnSuccess(r) PROVE SpansAccounted'
  <2>1. Becomes(r, "none", {}, {}) /\ {} \in SUBSET Spans
        /\ sent' = sent \cup report[r].spans
        /\ UNCHANGED <<queue, span, recorded, lost, parents>>
    BY <1>0, <1>8, EndMoves DEF OnSuccess
  <2>2. InReports' = (InReports \ report[r].spans) \cup {}
        /\ report[r].spans \subseteq InReports
    BY <1>0, <2>1, ReportSets, Zenon
  <2>3. \A q, p \in Reports : q # p => report'[q].spans \cap report'[p].spans = {}
    BY <1>0, <2>1 DEF SpansAccounted, Becomes
  <2>4. UNCHANGED <<Held, Queued>>
    BY <2>1 DEF Held, Queued
  <2> QED
    BY <1>0, <2>1, <2>2, <2>3, <2>4 DEF SpansAccounted
<1>9. ASSUME NEW r \in Reports, OnFailure(r) PROVE SpansAccounted'
  <2>1. Becomes(r, "failed", {}, report[r].drops) /\ {} \in SUBSET Spans
        /\ report[r].drops \in SUBSET Spans
        /\ lost' = lost \cup report[r].spans
        /\ UNCHANGED <<queue, span, recorded, sent, parents>>
    BY <1>0, <1>9, OnFailureMoves DEF OnFailure, TypeOK
  <2>2. InReports' = (InReports \ report[r].spans) \cup {}
        /\ report[r].spans \subseteq InReports
    BY <1>0, <2>1, ReportSets, Zenon
  <2>3. \A q, p \in Reports : q # p => report'[q].spans \cap report'[p].spans = {}
    BY <1>0, <2>1 DEF SpansAccounted, Becomes
  <2>4. UNCHANGED <<Held, Queued>>
    BY <2>1 DEF Held, Queued
  <2> QED
    BY <1>0, <2>1, <2>2, <2>3, <2>4 DEF SpansAccounted
<1>10. ASSUME NEW r \in Reports, UnconsumeDroppedSpans(r) PROVE SpansAccounted'
  <2>1. Becomes(r, "none", {}, {}) /\ {} \in SUBSET Spans /\ report[r].spans = {}
    BY <1>0, <1>10, EndMoves DEF UnconsumeDroppedSpans, ControlConsistent
  <2>2. InReports' = (InReports \ report[r].spans) \cup {}
    BY <1>0, <2>1, ReportSets, Zenon
  <2>3. \A q \in Reports : report'[q].spans = report[q].spans
    BY <2>1 DEF Becomes
  <2> QED
    BY <1>0, <1>10, <2>1, <2>2, <2>3, SpansUnchanged DEF UnconsumeDroppedSpans
<1>11. CASE OnForkedChild
  <2>1. Queued' = {} /\ Len(queue') = 0
        /\ UNCHANGED <<span, report, recorded, sent, lost>>
    BY <1>0, <1>11, ConsumeAll DEF OnForkedChild
  <2>2. parents'.spans = parents.spans \cup Queued
    BY <1>11 DEF OnForkedChild
  <2>3. UNCHANGED <<Held, InReports>>
    BY <2>1 DEF Held, InReports
  <2> QED
    BY <1>0, <2>1, <2>2, <2>3 DEF SpansAccounted
<1>12. CASE UNCHANGED <<recorded, span, queue, report, sent, lost, parents>>
  BY <1>0, <1>12, SpansUnchanged DEF InReports
<1>13. \/ \E t \in Threads : Retry(t) \/ Full(t) \/ AddAgain(t) \/ ReadSize(t)
       \/ UNCHANGED vars
       => UNCHANGED <<recorded, span, queue, report, sent, lost, parents>>
  BY DEF Retry, Full, AddAgain, ReadSize, vars, Buffer!Retry, Buffer!Refuse, Buffer!Offer
<1> QED
  BY <1>1, <1>2, <1>3, <1>4, <1>5, <1>6, <1>7, <1>8, <1>9, <1>10, <1>11,
     <1>12, <1>13 DEF Next

-----------------------------------------------------------------------------
(* Drop counts                                                             *)

LEMMA DropsUnchanged ==
  ASSUME DropsConserved, UNCHANGED <<lost, dropped, reported, parents>>,
         \A q \in Reports : report'[q].drops = report[q].drops
  PROVE  DropsConserved'
<1>1. UNCHANGED CountedInReports
  BY DEF CountedInReports
<1> QED
  BY <1>1 DEF DropsConserved

LEMMA DropsInv == IndInv /\ [Next]_vars => DropsConserved'
<1> SUFFICES ASSUME IndInv, [Next]_vars PROVE DropsConserved'
  OBVIOUS
<1> USE DEF bufferVars, historyVars
<1>0. TypeOK /\ ControlConsistent /\ SizeHolds /\ SpansAccounted /\ DropsConserved
  BY DEF IndInv
<1>1. ASSUME NEW t \in Threads, Drop(t) PROVE DropsConserved'
  <2>1. /\ dropped' = dropped \cup {span[t]} /\ lost' = lost \cup {span[t]}
        /\ UNCHANGED <<report, reported, parents>>
    BY <1>1 DEF Drop
  <2>2. span[t] \notin lost
    <3>1. span[t] # NoSpan
      BY <1>0, <1>1 DEF Drop, ControlConsistent
    <3>2. span[t] \in Held
      BY <3>1 DEF Held
    <3> QED
      BY <1>0, <3>2 DEF SpansAccounted
  <2>3. UNCHANGED CountedInReports
    BY <2>1 DEF CountedInReports
  <2> QED
    BY <1>0, <2>1, <2>2, <2>3 DEF DropsConserved
<1>2. ASSUME NEW t \in Threads, NEW r \in Reports, BeginFlush(t, r)
      PROVE  DropsConserved'
  <2>1. report[r].drops = {} /\ dropped \in SUBSET Spans
        /\ Becomes(r, "made", {}, dropped)
    BY <1>0, <1>2, BeginFlushMoves DEF ControlConsistent, BeginFlush, TypeOK
  <2>2. CountedInReports' = (CountedInReports \ report[r].drops) \cup dropped
    <3>1. {} \in SUBSET Spans /\ "made" \in {"none", "made", "filled", "inflight", "failed"}
      OBVIOUS
    <3> QED
      BY <1>0, <2>1, <3>1, ReportSets, ZenonT(120)
  <2>3. dropped' = {} /\ UNCHANGED <<lost, reported, parents>>
    BY <1>2 DEF BeginFlush
  <2>4. \A q \in Reports \ {r} : report[q].drops \cap dropped = {}
    BY <1>0 DEF DropsConserved, CountedInReports, TypeOK
  <2>5. \A q, p \in Reports : q # p => report'[q].drops \cap report'[p].drops = {}
    BY <1>0, <2>1, <2>4 DEF DropsConserved, Becomes
  <2> QED
    BY <1>0, <2>1, <2>2, <2>3, <2>5 DEF DropsConserved
<1>3. ASSUME NEW t \in Threads, NothingToDo(t) PROVE DropsConserved'
  <2>0. PICK r \in Reports : r = flush[t]
    BY <1>0, <1>3, NothingToDoMoves
  <2>1. report[r].drops = {} /\ Becomes(r, "none", {}, {})
    BY <1>0, <1>3, <2>0, NothingToDoMoves DEF NothingToDo
  <2>2. \A q \in Reports : report'[q].drops = report[q].drops
    BY <2>1 DEF Becomes
  <2> QED
    BY <1>0, <1>3, <2>2, DropsUnchanged DEF NothingToDo
<1>4. ASSUME NEW t \in Threads, TakeSpans(t) PROVE DropsConserved'
  <2>0. PICK r \in Reports : r = flush[t]
    BY <1>0, <1>4, TakeSpansMoves
  <2>1. Becomes(r, "filled", First(numSpans[t]), report[r].drops)
    BY <1>0, <2>0, <1>4, TakeSpansMoves
  <2>2. \A q \in Reports : report'[q].drops = report[q].drops
    BY <2>1 DEF Becomes
  <2> QED
    BY <1>0, <1>4, <2>2, DropsUnchanged DEF TakeSpans
<1>5. ASSUME NEW t \in Threads, Send(t) PROVE DropsConserved'
  <2>0. PICK r \in Reports : r = flush[t]
    BY <1>0, <1>5, SendMoves
  <2>1. Becomes(r, "inflight", report[r].spans, report[r].drops)
    BY <1>0, <1>5, <2>0, SendMoves
  <2>2. \A q \in Reports : report'[q].drops = report[q].drops
    BY <2>1 DEF Becomes
  <2> QED
    BY <1>0, <1>5, <2>2, DropsUnchanged DEF Send
<1>6. ASSUME NEW r \in Reports, OnSuccess(r) PROVE DropsConserved'
  <2>1. Becomes(r, "none", {}, {}) /\ {} \in SUBSET Spans
        /\ reported' = reported \cup report[r].drops
        /\ UNCHANGED <<lost, dropped, parents>>
    BY <1>0, <1>6, EndMoves DEF OnSuccess
  <2>2. CountedInReports' = (CountedInReports \ report[r].drops) \cup {}
        /\ report[r].drops \subseteq CountedInReports
    BY <1>0, <2>1, ReportSets, Zenon
  <2>3. \A q, p \in Reports : q # p => report'[q].drops \cap report'[p].drops = {}
    BY <1>0, <2>1 DEF DropsConserved, Becomes
  <2> QED
    BY <1>0, <2>1, <2>2, <2>3 DEF DropsConserved
<1>7. ASSUME NEW r \in Reports, OnFailure(r) PROVE DropsConserved'
  <2>1. Becomes(r, "failed", {}, report[r].drops)
        /\ dropped' = dropped \cup report[r].spans
        /\ lost' = lost \cup report[r].spans
        /\ UNCHANGED <<reported, parents>>
    BY <1>0, <1>7, OnFailureMoves DEF OnFailure
  <2>2. report[r].spans \cap lost = {}
    BY <1>0 DEF SpansAccounted, InReports, TypeOK
  <2>3. \A q \in Reports : report'[q].drops = report[q].drops
    BY <2>1 DEF Becomes
  <2>4. UNCHANGED CountedInReports
    BY <2>3 DEF CountedInReports
  <2> QED
    BY <1>0, <2>1, <2>2, <2>3, <2>4 DEF DropsConserved
<1>8. ASSUME NEW r \in Reports, UnconsumeDroppedSpans(r) PROVE DropsConserved'
  <2>1. Becomes(r, "none", {}, {}) /\ {} \in SUBSET Spans
        /\ dropped' = dropped \cup report[r].drops
        /\ UNCHANGED <<lost, reported, parents>>
    BY <1>0, <1>8, EndMoves DEF UnconsumeDroppedSpans
  <2>2. CountedInReports' = (CountedInReports \ report[r].drops) \cup {}
        /\ report[r].drops \subseteq CountedInReports
    BY <1>0, <2>1, ReportSets, Zenon
  <2>3. \A q, p \in Reports : q # p => report'[q].drops \cap report'[p].drops = {}
    BY <1>0, <2>1 DEF DropsConserved, Becomes
  <2> QED
    BY <1>0, <2>1, <2>2, <2>3 DEF DropsConserved
<1>9. CASE OnForkedChild
  <2>1. /\ dropped' = {} /\ parents'.drops = parents.drops \cup dropped
        /\ UNCHANGED <<report, lost, reported>>
    BY <1>9 DEF OnForkedChild
  <2>2. UNCHANGED CountedInReports
    BY <2>1 DEF CountedInReports
  <2> QED
    BY <1>0, <2>1, <2>2 DEF DropsConserved
<1>10. CASE UNCHANGED <<lost, dropped, reported, parents, report>>
  BY <1>0, <1>10, DropsUnchanged
<1>11. \/ \E t \in Threads : \/ \E s \in Spans : RecordSpan(t, s)
                             \/ Retry(t) \/ Added(t) \/ Full(t) \/ AddAgain(t)
                             \/ ReadSize(t)
       \/ UNCHANGED vars
       => UNCHANGED <<lost, dropped, reported, parents, report>>
  BY DEF RecordSpan, Retry, Added, Full, AddAgain, ReadSize, vars
<1> QED
  BY <1>1, <1>2, <1>3, <1>4, <1>5, <1>6, <1>7, <1>8, <1>9, <1>10, <1>11 DEF Next

-----------------------------------------------------------------------------
(* Theorems                                                                *)

(***************************************************************************)
(* The inductive invariant: where threads and reports stand, the room a    *)
(* flush makes, and what the three theorems below state apart.             *)
(***************************************************************************)
THEOREM RecorderInvariant == Spec => []IndInv
<1>1. IndInv /\ [Next]_vars => IndInv'
  BY TypeInv, ControlInv, SizeInv, RoomInv, SpansInv, DropsInv DEF IndInv
<1> QED
  BY InitInv, <1>1, PTL DEF Spec

(***************************************************************************)
(* What a flush has counted in the buffer is still there when it takes it, *)
(* whoever adds spans or flushes meanwhile.                                *)
(***************************************************************************)
THEOREM CountedSpansStay == Spec => []SizeHolds
<1>1. IndInv => SizeHolds
  BY DEF IndInv
<1> QED
  BY RecorderInvariant, <1>1, PTL

(***************************************************************************)
(* Every span recorded is in one place, whoever flushes, fails or forks.   *)
(***************************************************************************)
THEOREM SpansAreAccounted == Spec => []SpansAccounted
<1>1. IndInv => SpansAccounted
  BY DEF IndInv
<1> QED
  BY RecorderInvariant, <1>1, PTL

(***************************************************************************)
(* Every dropped span is counted once, until a report that carries the     *)
(* count is delivered.                                                     *)
(***************************************************************************)
THEOREM DropsAreConserved == Spec => []DropsConserved
<1>1. IndInv => DropsConserved
  BY DEF IndInv
<1> QED
  BY RecorderInvariant, <1>1, PTL

(***************************************************************************)
(* A span is dropped after a flush of OnSpanBufferFull only if others have *)
(* filled the whole buffer since that flush counted the spans it takes.    *)
(***************************************************************************)
THEOREM FlushingMakesRoom == Spec => FlushMakesRoom
<1> DEFINE Justified == \A t \in Threads :
             pc[t] # "idle" /\ span[t] \in lost' \ lost => since[t] = MaxBufferedSpans
<1>1. IndInv /\ [Next]_vars => Justified
  <2> SUFFICES ASSUME IndInv, [Next]_vars, NEW u \in Threads,
                      pc[u] # "idle", span[u] \in lost' \ lost
               PROVE  since[u] = MaxBufferedSpans
    OBVIOUS
  <2>0. TypeOK /\ ControlConsistent /\ RoomCounted /\ SpansAccounted
    BY DEF IndInv
  <2>1. span[u] \in Held
    BY <2>0 DEF ControlConsistent, Held
  <2>2. ASSUME NEW t \in Threads, Drop(t) PROVE since[u] = MaxBufferedSpans
    <3>1. pc[t] = "again" /\ lost' = lost \cup {span[t]} /\ Buffer!Refuse(t)
      BY <2>2 DEF Drop
    <3>2. span[u] = span[t] /\ span[t] # NoSpan
      BY <2>0, <3>1 DEF ControlConsistent
    <3>3. u = t
      BY <2>0, <3>2 DEF SpansAccounted
    <3>4. offer[t] # NoSpan /\ seen[t] >= MaxBufferedSpans
      BY <3>1 DEF Buffer!Refuse
    <3>5. since[t] \in 0..MaxBufferedSpans /\ seen[t] \in Nat
      BY <2>0 DEF TypeOK
    <3> QED
      BY <2>0, <3>3, <3>4, <3>5 DEF RoomCounted
  <2>3. ASSUME NEW r \in Reports, OnFailure(r) PROVE FALSE
    <3>1. span[u] \in report[r].spans
      BY <2>3 DEF OnFailure
    <3> QED
      BY <2>0, <2>1, <3>1 DEF SpansAccounted, InReports, TypeOK
  <2>4. ASSUME NEW t \in Threads,
               \/ \E s \in Spans : RecordSpan(t, s)
               \/ Retry(t) \/ Added(t) \/ Full(t) \/ AddAgain(t)
               \/ \E r \in Reports : BeginFlush(t, r)
               \/ NothingToDo(t) \/ ReadSize(t) \/ TakeSpans(t) \/ Send(t)
        PROVE  lost' = lost
    BY <2>4 DEF RecordSpan, Retry, Added, Full, AddAgain, BeginFlush, NothingToDo,
                ReadSize, TakeSpans, Send, historyVars
  <2>5. ASSUME NEW r \in Reports, OnSuccess(r) \/ UnconsumeDroppedSpans(r)
        PROVE  lost' = lost
    BY <2>5 DEF OnSuccess, UnconsumeDroppedSpans, historyVars
  <2>6. OnForkedChild \/ UNCHANGED vars => lost' = lost
    BY DEF OnForkedChild, vars, historyVars
  <2>7. lost' # lost
    OBVIOUS
  <2> QED
    BY <2>2, <2>3, <2>4, <2>5, <2>6, <2>7 DEF Next
<1> QED
  BY RecorderInvariant, <1>1, PTL DEF Spec, FlushMakesRoom
=============================================================================
