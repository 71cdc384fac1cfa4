--------------------------- MODULE ManualRecorder ---------------------------
(***************************************************************************)
(* recorder/manual_recorder.cpp: the recorder without a thread.  Spans     *)
(* wait in the circular buffer, here the bounded queue it implements,      *)
(* until somebody calls FlushWithTimeout; the application's transporter    *)
(* takes the report and calls back later, or before its Send returns.      *)
(*                                                                         *)
(* Any thread may record and flush at any time, and a thread whose span    *)
(* is refused lets the transporter flush (OnSpanBufferFull) in the middle  *)
(* of its RecordSpan, then tries again.  The drop count is a set of the    *)
(* spans it counts, so a count that is lost, doubled or sent with the      *)
(* wrong report shows.                                                     *)
(***************************************************************************)
EXTENDS Integers, Sequences

CONSTANTS
  Threads,           \* the application's threads
  Spans,
  Reports,           \* bound: the ReportRequests that exist at a time
  NoSpan,
  NoReport,
  MaxBufferedSpans   \* max_size of span_buffer_

ASSUME BufferAssumption == MaxBufferedSpans \in Nat \ {0}
ASSUME NoneAssumption == NoSpan \notin Spans /\ NoReport \notin Reports

VARIABLES
  queue, offer, seen,  \* span_buffer_, see BoundedQueue
  dropped,   \* metrics_.num_dropped_spans_, as the set of the spans it counts
  report,    \* report[r]: a ReportRequest, from its allocation to its end
  pc,        \* pc[t]: where t stands in RecordSpan
  span,      \* span[t]: the span RecordSpan owns
  flush,     \* flush[t]: report_request of the FlushWithTimeout t is in
  numSpans,  \* numSpans[t]: num_spans of t's flush while t holds flush_mutex_,
             \* and Unlocked while it does not
  recorded,  \* history: the spans RecordSpan was called with
  sent,      \* history: told to OnSpansSent
  lost,      \* history: told to OnSpansDropped
  reported,  \* history: counted as dropped by a report that was delivered
  parents,   \* history: what this process left to the one it was forked from
  since      \* history: since[t]: spans accepted since the flush of t's
             \* OnSpanBufferFull read how many there are

Buffer == INSTANCE BoundedQueue WITH
  Producers <- Threads, Elements <- Spans, Null <- NoSpan,
  MaxSize <- MaxBufferedSpans

bufferVars == <<queue, offer, seen>>
historyVars == <<recorded, sent, lost, reported, parents>>
vars == <<bufferVars, dropped, report, pc, span, flush, numSpans, historyVars, since>>

\* The spans in the buffer.
Queued == {queue[i] : i \in 1..Len(queue)}

Unlocked == -1

\* Nobody holds flush_mutex_.
MutexFree == \A t \in Threads : numSpans[t] = Unlocked

None == [state |-> "none", spans |-> {}, drops |-> {}]

Init ==
  /\ Buffer!Init
  /\ dropped = {}
  /\ report = [r \in Reports |-> None]
  /\ pc    = [t \in Threads |-> "idle"]
  /\ span  = [t \in Threads |-> NoSpan]
  /\ flush = [t \in Threads |-> NoReport]
  /\ numSpans = [t \in Threads |-> Unlocked]
  /\ recorded = {} /\ sent = {} /\ lost = {} /\ reported = {}
  /\ parents = [spans |-> {}, drops |-> {}]
  /\ since = [t \in Threads |-> MaxBufferedSpans]

\* A span was accepted; counting stops at the capacity.
CountAccepted ==
  since' = [t \in Threads |->
              IF since[t] < MaxBufferedSpans THEN since[t] + 1 ELSE since[t]]

-----------------------------------------------------------------------------
(* Mutants: likely mistakes in the actions below.                          *)

\* Only spans are looked for, and the drop count goes with the report.
NothingToDoWithoutSpans(t) ==
  /\ flush[t] # NoReport
  /\ report[flush[t]].state = "made"
  /\ MutexFree /\ queue = << >>
  /\ report' = [report EXCEPT ![flush[t]] = None]
  /\ flush'  = [flush EXCEPT ![t] = NoReport]
  /\ since'  = [since EXCEPT ![t] = 0]
  /\ UNCHANGED <<bufferVars, dropped, pc, span, numSpans, historyVars>>

\* The number is read without the mutex.
ReadSizeUnlocked(t) ==
  /\ flush[t] # NoReport
  /\ report[flush[t]].state = "made" /\ numSpans[t] = Unlocked
  /\ queue # << >> \/ report[flush[t]].drops # {}
  /\ numSpans' = [numSpans EXCEPT ![t] = Len(queue)]
  /\ since' = [since EXCEPT ![t] = 0]
  /\ UNCHANGED <<bufferVars, dropped, report, pc, span, flush, historyVars>>

\* One span stays behind when there are several.
TakeSpansButOne(t) ==
  LET n == IF numSpans[t] > 1 THEN numSpans[t] - 1 ELSE numSpans[t]
  IN  /\ numSpans[t] # Unlocked
      /\ report' = [report EXCEPT ![flush[t]].state = "filled",
                                  ![flush[t]].spans = {queue[i] : i \in 1..n}]
      /\ Buffer!Consume(n)
      /\ numSpans' = [numSpans EXCEPT ![t] = Unlocked]
      /\ UNCHANGED <<dropped, pc, span, flush, historyVars, since>>

-----------------------------------------------------------------------------
(* RecordSpan                                                              *)

RecordSpan(t, s) ==
  /\ pc[t] = "idle" /\ flush[t] = NoReport
  /\ s \notin recorded
  /\ Buffer!Offer(t, s)
  /\ pc'    = [pc EXCEPT ![t] = "add"]
  /\ span'  = [span EXCEPT ![t] = s]
  /\ since' = [since EXCEPT ![t] = MaxBufferedSpans]
  /\ recorded' = recorded \cup {s}
  /\ UNCHANGED <<dropped, report, flush, numSpans, sent, lost, reported, parents>>

\* Add starts over.
Retry(t) ==
  /\ Buffer!Retry(t)
  /\ UNCHANGED <<dropped, report, pc, span, flush, numSpans, historyVars, since>>

\* The first or the second Add succeeds.
Added(t) ==
  /\ Buffer!Accept(t)
  /\ pc'   = [pc EXCEPT ![t] = "idle"]
  /\ span' = [span EXCEPT ![t] = NoSpan]
  /\ CountAccepted
  /\ UNCHANGED <<dropped, report, flush, numSpans, historyVars>>

\* The first Add fails: OnSpanBufferFull, which may flush, begins.
Full(t) ==
  /\ pc[t] = "add"
  /\ Buffer!Refuse(t)
  /\ pc' = [pc EXCEPT ![t] = "full"]
  /\ UNCHANGED <<dropped, report, span, flush, numSpans, historyVars, since>>

\* OnSpanBufferFull has returned.
AddAgain(t) ==
  /\ pc[t] = "full" /\ flush[t] = NoReport
  /\ Buffer!Offer(t, span[t])
  /\ pc' = [pc EXCEPT ![t] = "again"]
  /\ UNCHANGED <<dropped, report, span, flush, numSpans, historyVars, since>>

\* The second Add fails.
Drop(t) ==
  /\ pc[t] = "again"
  /\ Buffer!Refuse(t)
  /\ dropped' = dropped \cup {span[t]}
  /\ lost'    = lost \cup {span[t]}
  /\ pc'   = [pc EXCEPT ![t] = "idle"]
  /\ span' = [span EXCEPT ![t] = NoSpan]
  /\ UNCHANGED <<report, flush, numSpans, recorded, sent, reported, parents, since>>

-----------------------------------------------------------------------------
(* FlushWithTimeout, called by the application or from OnSpanBufferFull    *)

\* A report is made with the drop count, before the mutex is locked.
BeginFlush(t, r) ==
  /\ pc[t] \in {"idle", "full"} /\ flush[t] = NoReport
  /\ report[r].state = "none"
  /\ report' = [report EXCEPT
                  ![r] = [state |-> "made", spans |-> {}, drops |-> dropped]]
  /\ dropped' = {}
  /\ flush' = [flush EXCEPT ![t] = r]
  /\ UNCHANGED <<bufferVars, pc, span, numSpans, historyVars, since>>

\* There is neither a span nor a drop count to send.
NothingToDo(t) ==
  /\ flush[t] # NoReport
  /\ report[flush[t]].state = "made"
  /\ MutexFree /\ queue = << >> /\ report[flush[t]].drops = {}
  /\ report' = [report EXCEPT ![flush[t]] = None]
  /\ flush'  = [flush EXCEPT ![t] = NoReport]
  /\ since'  = [since EXCEPT ![t] = 0]
  /\ UNCHANGED <<bufferVars, dropped, pc, span, numSpans, historyVars>>

\* The mutex is locked and the number of spans read.  It holds up other
\* flushes, not the threads that add spans.
ReadSize(t) ==
  /\ flush[t] # NoReport
  /\ report[flush[t]].state = "made"
  /\ MutexFree /\ (queue # << >> \/ report[flush[t]].drops # {})
  /\ numSpans' = [numSpans EXCEPT ![t] = Len(queue)]
  /\ since' = [since EXCEPT ![t] = 0]
  /\ UNCHANGED <<bufferVars, dropped, report, pc, span, flush, historyVars>>

\* That many spans move into the report, and the mutex is unlocked.
TakeSpans(t) ==
  /\ numSpans[t] # Unlocked
  /\ report' = [report EXCEPT ![flush[t]].state = "filled",
                              ![flush[t]].spans = {queue[i] : i \in 1..numSpans[t]}]
  /\ Buffer!Consume(numSpans[t])
  /\ numSpans' = [numSpans EXCEPT ![t] = Unlocked]
  /\ UNCHANGED <<dropped, pc, span, flush, historyVars, since>>

\* The transporter gets the report, and the call returns true.
Send(t) ==
  /\ flush[t] # NoReport
  /\ report[flush[t]].state = "filled"
  /\ report' = [report EXCEPT ![flush[t]].state = "inflight"]
  /\ flush'  = [flush EXCEPT ![t] = NoReport]
  /\ UNCHANGED <<bufferVars, dropped, pc, span, numSpans, historyVars, since>>

-----------------------------------------------------------------------------
(* The transporter's callbacks                                             *)

OnSuccess(r) ==
  /\ report[r].state = "inflight"
  /\ report'   = [report EXCEPT ![r] = None]
  /\ sent'     = sent \cup report[r].spans
  /\ reported' = reported \cup report[r].drops
  /\ UNCHANGED <<bufferVars, dropped, pc, span, flush, numSpans, recorded, lost,
                 parents, since>>

\* The spans are dropped ...
OnFailure(r) ==
  /\ report[r].state = "inflight"
  /\ report'  = [report EXCEPT ![r].state = "failed", ![r].spans = {}]
  /\ dropped' = dropped \cup report[r].spans
  /\ lost'    = lost \cup report[r].spans
  /\ UNCHANGED <<bufferVars, pc, span, flush, numSpans, recorded, sent,
                 reported, parents, since>>

\* ... and the count goes back to the tracker, another access to it.
UnconsumeDroppedSpans(r) ==
  /\ report[r].state = "failed"
  /\ report'  = [report EXCEPT ![r] = None]
  /\ dropped' = dropped \cup report[r].drops
  /\ UNCHANGED <<bufferVars, pc, span, flush, numSpans, historyVars, since>>

(***************************************************************************)
(* A fork, when no other thread uses the recorder (fork_aware_recorder.h): *)
(* the module follows the child from then on.  Reports in flight stay with *)
(* the transporter.                                                        *)
(***************************************************************************)
OnForkedChild ==
  /\ \A t \in Threads : pc[t] = "idle" /\ flush[t] = NoReport
  /\ parents' = [spans |-> parents.spans \cup Queued,
                 drops |-> parents.drops \cup dropped]
  /\ dropped' = {}
  /\ Buffer!Consume(Len(queue))
  /\ UNCHANGED <<report, pc, span, flush, numSpans, recorded, sent, lost,
                 reported, since>>

Next ==
  \/ \E t \in Threads :
       \/ \E s \in Spans : RecordSpan(t, s)
       \/ Retry(t) \/ Added(t) \/ Full(t) \/ AddAgain(t) \/ Drop(t)
       \/ \E r \in Reports : BeginFlush(t, r)
       \/ NothingToDo(t) \/ ReadSize(t) \/ TakeSpans(t) \/ Send(t)
  \/ \E r \in Reports : OnSuccess(r) \/ OnFailure(r) \/ UnconsumeDroppedSpans(r)
  \/ OnForkedChild

Spec == Init /\ [][Next]_vars

-----------------------------------------------------------------------------
(* Properties                                                              *)

TypeOK ==
  /\ queue \in Seq(Spans) /\ Len(queue) <= MaxBufferedSpans
  /\ offer \in [Threads -> Spans \cup {NoSpan}]
  /\ seen \in [Threads -> Nat]
  /\ dropped \subseteq Spans
  /\ report \in [Reports -> [state : {"none", "made", "filled", "inflight", "failed"},
                             spans : SUBSET Spans, drops : SUBSET Spans]]
  /\ pc \in [Threads -> {"idle", "add", "full", "again"}]
  /\ span \in [Threads -> Spans \cup {NoSpan}]
  /\ flush \in [Threads -> Reports \cup {NoReport}]
  /\ numSpans \in [Threads -> Unlocked..MaxBufferedSpans]
  /\ recorded \subseteq Spans /\ sent \subseteq Spans
  /\ lost \subseteq Spans /\ reported \subseteq Spans
  /\ parents \in [spans : SUBSET Spans, drops : SUBSET Spans]
  /\ since \in [Threads -> 0..MaxBufferedSpans]

Held == {span[t] : t \in Threads} \ {NoSpan}
InReports == {s \in Spans : \E r \in Reports : s \in report[r].spans}
CountedInReports == {s \in Spans : \E r \in Reports : s \in report[r].drops}

(***************************************************************************)
(* Every span recorded is in one place, whoever flushes, fails or forks    *)
(* meanwhile: with the thread that records it, in the buffer, in one       *)
(* report, sent, dropped, or the parent process's.                         *)
(***************************************************************************)
SpansAccounted ==
  /\ recorded = Held \cup Queued \cup InReports \cup sent \cup lost \cup parents.spans
  /\ \A t, u \in Threads : t # u /\ span[t] = span[u] => span[t] = NoSpan
  /\ \A i, j \in 1..Len(queue) : i # j => queue[i] # queue[j]
  /\ \A q, r \in Reports : q # r => report[q].spans \cap report[r].spans = {}
  /\ Held \cap (Queued \cup InReports \cup sent \cup lost \cup parents.spans) = {}
  /\ Queued \cap (InReports \cup sent \cup lost \cup parents.spans) = {}
  /\ InReports \cap (sent \cup lost \cup parents.spans) = {}
  /\ sent \cap (lost \cup parents.spans) = {}
  /\ lost \cap parents.spans = {}

(***************************************************************************)
(* Every dropped span is counted once: still by the tracker, by one report *)
(* that has not been delivered, by one that has, or by the parent process. *)
(* Concurrent flushes split the count at any point, and the flush that     *)
(* takes it need not be the one that takes the spans.                      *)
(***************************************************************************)
DropsConserved ==
  /\ lost = dropped \cup CountedInReports \cup reported \cup parents.drops
  /\ \A q, r \in Reports : q # r => report[q].drops \cap report[r].drops = {}
  /\ dropped \cap (CountedInReports \cup reported \cup parents.drops) = {}
  /\ CountedInReports \cap (reported \cup parents.drops) = {}
  /\ reported \cap parents.drops = {}

\* Where a thread stands tells what its span and its report are doing.
ControlConsistent ==
  /\ \A t \in Threads :
       /\ pc[t] = "idle" <=> span[t] = NoSpan
       /\ offer[t] = IF pc[t] \in {"add", "again"} THEN span[t] ELSE NoSpan
       /\ flush[t] # NoReport => /\ pc[t] \in {"idle", "full"}
                                 /\ report[flush[t]].state \in {"made", "filled"}
  /\ \A t, u \in Threads : t # u /\ flush[t] = flush[u] => flush[t] = NoReport
  /\ \A r \in Reports :
       /\ report[r].state \in {"none", "made", "failed"} => report[r].spans = {}
       /\ report[r].state = "none" => report[r].drops = {}

(***************************************************************************)
(* The number of spans that a flush has read is still there when it takes  *)
(* them, as Consume asserts (circular_buffer.h:42): others may add spans   *)
(* meanwhile, and no other flush takes any.                                *)
(***************************************************************************)
SizeHolds ==
  /\ \A t \in Threads : numSpans[t] # Unlocked =>
       /\ numSpans[t] <= Len(queue)
       /\ flush[t] # NoReport /\ report[flush[t]].state = "made"
  /\ \A t, u \in Threads :
       numSpans[t] # Unlocked /\ numSpans[u] # Unlocked => t = u

\* What t's flush has made room for, or will when it takes the spans it has
\* counted, is not used up sooner than counted.
RoomCounted ==
  \A t \in Threads :
    /\ numSpans[t] = Unlocked => Len(queue) <= since[t]
    /\ numSpans[t] # Unlocked => Len(queue) <= numSpans[t] + since[t]
    /\ offer[t] # NoSpan => seen[t] <= since[t] \/ since[t] = MaxBufferedSpans

\* The inductive invariant.
IndInv ==
  /\ TypeOK
  /\ ControlConsistent
  /\ SizeHolds
  /\ RoomCounted
  /\ SpansAccounted
  /\ DropsConserved

(***************************************************************************)
(* transporter.h: OnSpanBufferFull "can either flush the pending spans     *)
(* early (so that we don't drop anything)": when it flushed, the span is   *)
(* dropped only if other threads have filled a whole buffer since the      *)
(* flush counted the spans it takes.  The spans added between the count    *)
(* and the taking are among those.                                         *)
(***************************************************************************)
FlushMakesRoom ==
  [][\A t \in Threads :
       pc[t] # "idle" /\ span[t] \in lost' \ lost => since[t] = MaxBufferedSpans]_vars
=============================================================================
