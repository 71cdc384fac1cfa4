---------------------------- MODULE AutoRecorder ----------------------------
(***************************************************************************)
(* recorder/auto_recorder.cpp: spans are buffered in a report that a       *)
(* writer thread sends with a blocking transporter, from time to time or   *)
(* when the buffer is full.  A caller of FlushWithTimeout waits until the  *)
(* report with the spans of its call has been sent.                        *)
(*                                                                         *)
(* Reports are numbered.  encoding is the number of the report being       *)
(* filled, flushed that of the last report the writer is done with, so a   *)
(* report is in flight when encoding = flushed + 2.                        *)
(*                                                                         *)
(* All shared state is guarded by one mutex, notifications are sent with   *)
(* the mutex held, and both the writer and the callers wait on the same    *)
(* condition variable.  A step is a critical section, from where a thread  *)
(* gets the mutex to where it gives it up, or a call of the transporter.   *)
(***************************************************************************)
EXTENDS Integers

CONSTANTS
  Callers,   \* the threads that call FlushWithTimeout
  Limits,    \* the values max_buffered_spans takes; it may be changed
  MaxSpans   \* bound: the number of calls of RecordSpan

ASSUME LimitsAssumption == Limits \subseteq Nat /\ Limits # {}
ASSUME MaxSpansAssumption == MaxSpans \in Nat

VARIABLES
  limit,      \* options_.max_buffered_spans.value()
  snapshot,   \* max_buffered_spans_snapshot_
  pending,    \* builder_.num_pending_spans()
  inflight,   \* the spans of inflight_, save_pending of FlushOne
  saved,      \* save_dropped of FlushOne
  dropped,    \* dropped_spans_
  encoding,   \* encoding_seqno_
  flushed,    \* flushed_seqno_
  exit,       \* write_exit_
  writer,     \* where the writer thread stands
  destroyed,  \* the destructor has been called
  pc,         \* pc[c]: where c stands in FlushWithTimeout
  waitSeq,    \* waitSeq[c]: its local wait_seq
  recorded,   \* history: the calls of RecordSpan
  accepted,   \* history: the spans added to a report
  lost,       \* history: MetricsObserver::OnSpansDropped, summed
  reported,   \* history: the drop counts in the reports delivered
  target      \* history: target[c]: accepted when c's call began

callVars == <<pc, waitSeq, target>>
reportVars == <<pending, inflight, saved, encoding, flushed, accepted>>
dropVars == <<dropped, lost, reported>>
vars == <<limit, snapshot, exit, writer, destroyed, recorded,
          callVars, reportVars, dropVars>>

\* The spans the writer is done with, delivered or not.
Finished == accepted - pending - inflight

Init ==
  /\ limit \in Limits
  /\ snapshot = limit
  /\ pending = 0 /\ inflight = 0 /\ saved = 0 /\ dropped = 0
  /\ encoding = 1 /\ flushed = 0
  /\ exit = FALSE /\ destroyed = FALSE
  /\ writer = "next"
  /\ pc      = [c \in Callers |-> "idle"]
  /\ waitSeq = [c \in Callers |-> 0]
  /\ target  = [c \in Callers |-> 0]
  /\ recorded = 0 /\ accepted = 0 /\ lost = 0 /\ reported = 0

\* write_cond_->NotifyAll, with the writer at w otherwise.
NotifyAll(w) ==
  /\ writer' = IF w = "waiting" THEN "woken" ELSE w
  /\ pc' = [c \in Callers |-> IF pc[c] = "waiting" THEN "woken" ELSE pc[c]]

-----------------------------------------------------------------------------
(* Mutants: likely mistakes in the actions below.                          *)

\* Waits for the report before the one with the pending spans.
WaitSeqPrevious == encoding - 1

\* The writer is not woken when the buffer is full.
AcceptSpanSilently ==
  /\ pending < snapshot /\ ~exit
  /\ pending' = pending + 1
  /\ accepted' = accepted + 1
  /\ UNCHANGED <<writer, pc>>
  /\ UNCHANGED dropVars

\* The drop count that the failed report carried is forgotten.
ReportFailsForgetfully ==
  /\ dropped' = dropped + inflight
  /\ lost' = lost + inflight
  /\ UNCHANGED reported

\* The writer thread ends without a word to the callers.
SendThrowsQuietly ==
  /\ writer = "send"
  /\ exit' = TRUE
  /\ writer' = "done"
  /\ UNCHANGED <<limit, snapshot, destroyed, recorded, callVars, reportVars,
                 dropVars>>

-----------------------------------------------------------------------------
(* RecordSpan                                                              *)

\* The buffer is full or nobody will send it.
RefuseSpan ==
  /\ pending >= snapshot \/ exit
  /\ dropped' = dropped + 1
  /\ lost' = lost + 1
  /\ UNCHANGED <<writer, pc, pending, accepted, reported>>

AcceptSpan ==
  /\ pending < snapshot /\ ~exit
  /\ pending' = pending + 1
  /\ accepted' = accepted + 1
  /\ IF pending' >= snapshot THEN NotifyAll(writer) ELSE UNCHANGED <<writer, pc>>
  /\ UNCHANGED dropVars

RecordSpan ==
  /\ ~destroyed
  /\ recorded < MaxSpans
  /\ recorded' = recorded + 1
  /\ RefuseSpan \/ AcceptSpan
  /\ UNCHANGED <<limit, snapshot, exit, destroyed, waitSeq, target, inflight,
                 saved, encoding, flushed>>

\* The application changes the limit.
SetLimit ==
  /\ limit' \in Limits \ {limit}
  /\ UNCHANGED <<snapshot, exit, writer, destroyed, recorded, callVars,
                 reportVars, dropVars>>

-----------------------------------------------------------------------------
(* FlushWithTimeout                                                        *)

\* The report a call has to wait for: that of the pending spans, or, when
\* there are none, the one before it.
WaitSeq == encoding - IF pending # 0 THEN 0 ELSE 1

Begin(c) ==
  /\ ~destroyed
  /\ pc[c] = "idle"
  /\ pc'     = [pc EXCEPT ![c] = "lock"]
  /\ target' = [target EXCEPT ![c] = accepted]
  /\ UNCHANGED <<limit, snapshot, exit, writer, destroyed, recorded, waitSeq,
                 reportVars, dropVars>>

\* The call returns flushed >= waitSeq[c]; an idle caller has no locals.
Return(c) ==
  /\ pc'      = [pc EXCEPT ![c] = "idle"]
  /\ waitSeq' = [waitSeq EXCEPT ![c] = 0]
  /\ target'  = [target EXCEPT ![c] = 0]

\* Nothing to wait for, or the first test of the predicate.
Enter(c) ==
  /\ pc[c] = "lock"
  /\ IF exit \/ flushed >= WaitSeq
     THEN Return(c)
     ELSE /\ pc'      = [pc EXCEPT ![c] = "waiting"]
          /\ waitSeq' = [waitSeq EXCEPT ![c] = WaitSeq]
          /\ UNCHANGED target
  /\ UNCHANGED <<limit, snapshot, exit, writer, destroyed, recorded,
                 reportVars, dropVars>>

\* Notified: the predicate is tested again.
Resume(c) ==
  /\ pc[c] = "woken"
  /\ IF exit \/ flushed >= waitSeq[c]
     THEN Return(c)
     ELSE pc' = [pc EXCEPT ![c] = "waiting"] /\ UNCHANGED <<waitSeq, target>>
  /\ UNCHANGED <<limit, snapshot, exit, writer, destroyed, recorded,
                 reportVars, dropVars>>

TimeOut(c) ==
  /\ pc[c] \in {"waiting", "woken"}
  /\ Return(c)
  /\ UNCHANGED <<limit, snapshot, exit, writer, destroyed, recorded,
                 reportVars, dropVars>>

-----------------------------------------------------------------------------
(* The writer thread                                                       *)

\* WaitForNextWrite up to the first test of its predicate.
WaitForNextWrite ==
  /\ writer = "next"
  /\ snapshot' = limit
  /\ writer' = IF exit THEN "done"
               ELSE IF pending >= snapshot' THEN "flush" ELSE "waiting"
  /\ UNCHANGED <<limit, exit, destroyed, recorded, callVars, reportVars,
                 dropVars>>

\* Notified, perhaps on behalf of a caller.
WriterTests ==
  /\ writer = "woken"
  /\ writer' = IF exit THEN "done"
               ELSE IF pending >= snapshot THEN "flush" ELSE "waiting"
  /\ UNCHANGED <<limit, snapshot, exit, destroyed, recorded, callVars,
                 reportVars, dropVars>>

\* It is time for the next report.
WriterTimesOut ==
  /\ writer \in {"waiting", "woken"}
  /\ writer' = IF exit THEN "done" ELSE "flush"
  /\ UNCHANGED <<limit, snapshot, exit, destroyed, recorded, callVars,
                 reportVars, dropVars>>

\* FlushOne with nothing to send.
NothingPending ==
  /\ writer = "flush" /\ pending = 0
  /\ writer' = "next"
  /\ UNCHANGED <<limit, snapshot, exit, destroyed, recorded, callVars,
                 reportVars, dropVars>>

\* FlushOne swaps the pending report with the one in flight.
TakeReport ==
  /\ writer = "flush" /\ pending # 0
  /\ writer' = "send"
  /\ inflight' = pending
  /\ pending' = 0
  /\ saved' = dropped
  /\ dropped' = 0
  /\ encoding' = encoding + 1
  /\ UNCHANGED <<limit, snapshot, exit, destroyed, recorded, callVars,
                 flushed, accepted, lost, reported>>

\* Send succeeds; the answer may disable the tracer (MakeWriterExit).
SendSucceeds ==
  /\ writer = "send"
  /\ \/ /\ writer' = "succeeded"
        /\ UNCHANGED <<exit, pc>>
     \/ /\ exit' = TRUE
        /\ NotifyAll("succeeded")
  /\ UNCHANGED <<limit, snapshot, destroyed, recorded, waitSeq, target,
                 reportVars, dropVars>>

SendFails ==
  /\ writer = "send"
  /\ writer' = "failed"
  /\ UNCHANGED <<limit, snapshot, exit, destroyed, recorded, callVars,
                 reportVars, dropVars>>

\* The exception leaves FlushOne, and Write makes the writer exit.
SendThrows ==
  /\ writer = "send"
  /\ exit' = TRUE
  /\ NotifyAll("done")
  /\ UNCHANGED <<limit, snapshot, destroyed, recorded, waitSeq, target,
                 reportVars, dropVars>>

ReportSucceeded ==
  /\ reported' = reported + saved
  /\ UNCHANGED <<dropped, lost>>

\* The spans are dropped, and the counts go into the next report.
ReportFailed ==
  /\ dropped' = dropped + saved + inflight
  /\ lost' = lost + inflight
  /\ UNCHANGED reported

\* The second critical section of FlushOne.
FinishReport ==
  /\ writer \in {"succeeded", "failed"}
  /\ flushed' = flushed + 1
  /\ NotifyAll("next")
  /\ inflight' = 0
  /\ saved' = 0
  /\ IF writer = "failed" THEN ReportFailed ELSE ReportSucceeded
  /\ UNCHANGED <<limit, snapshot, exit, destroyed, recorded, waitSeq, target,
                 pending, encoding, accepted>>

\* The destructor, when nobody uses the recorder any more.
Destroy ==
  /\ ~destroyed
  /\ \A c \in Callers : pc[c] = "idle"
  /\ destroyed' = TRUE
  /\ exit' = TRUE
  /\ NotifyAll(writer)
  /\ UNCHANGED <<limit, snapshot, recorded, waitSeq, target, reportVars,
                 dropVars>>

-----------------------------------------------------------------------------
CallStep(c) == Enter(c) \/ Resume(c)

Write ==
  \/ WaitForNextWrite \/ WriterTests \/ WriterTimesOut
  \/ NothingPending \/ TakeReport
  \/ SendSucceeds \/ SendFails \/ SendThrows
  \/ FinishReport

\* The writer has been joined.
Joined == destroyed /\ writer = "done" /\ UNCHANGED vars

Next ==
  \/ RecordSpan \/ SetLimit
  \/ \E c \in Callers : Begin(c) \/ Enter(c) \/ Resume(c) \/ TimeOut(c)
  \/ Write
  \/ Destroy \/ Joined

Spec == Init /\ [][Next]_vars

(***************************************************************************)
(* The threads run, the time of the next report comes, and Send returns.   *)
(* The timeout of a call need not come.                                    *)
(***************************************************************************)
FairSpec ==
  Spec /\ WF_vars(Write) /\ \A c \in Callers : WF_vars(CallStep(c))

-----------------------------------------------------------------------------
(* Properties                                                              *)

TypeOK ==
  /\ limit \in Nat /\ snapshot \in Nat
  /\ pending \in Nat /\ inflight \in Nat /\ saved \in Nat /\ dropped \in Nat
  /\ encoding \in Nat /\ flushed \in Nat
  /\ exit \in BOOLEAN /\ destroyed \in BOOLEAN
  /\ writer \in {"next", "waiting", "woken", "flush", "send", "succeeded",
                 "failed", "done"}
  /\ pc \in [Callers -> {"idle", "lock", "waiting", "woken"}]
  /\ waitSeq \in [Callers -> Nat]
  /\ target \in [Callers -> Nat]
  /\ recorded \in Nat /\ accepted \in Nat /\ lost \in Nat /\ reported \in Nat
  /\ Finished \in Nat

Waiting(c) == pc[c] \in {"waiting", "woken"}

\* Some report is in flight, or was when the transporter threw.
InFlight == writer \in {"send", "succeeded", "failed"} \/ inflight # 0

(***************************************************************************)
(* The two sequence numbers tell whether a report is in flight, and one    *)
(* never is empty: a caller that finds them next to each other and nothing *)
(* pending may return at once.                                             *)
(***************************************************************************)
SeqnosTellInFlight ==
  /\ encoding = flushed + (IF InFlight THEN 2 ELSE 1)
  /\ InFlight <=> inflight # 0

(***************************************************************************)
(* No lost wakeup, with the writer and all callers on one condition        *)
(* variable: nobody sleeps although what he waits for is there.            *)
(***************************************************************************)
NoLostWakeup ==
  /\ writer = "waiting" => ~exit /\ pending < snapshot
  /\ \A c \in Callers :
       pc[c] = "waiting" => ~exit /\ flushed < waitSeq[c]

(***************************************************************************)
(* A caller never waits for a report too early or too late: its spans are  *)
(* in the report it waits for or in one before, and that one is at most    *)
(* the report being filled.                                                *)
(***************************************************************************)
WaitsForItsSpans ==
  \A c \in Callers : Waiting(c) =>
    /\ waitSeq[c] <= encoding
    /\ target[c] <= accepted
    /\ waitSeq[c] < encoding => target[c] <= accepted - pending
    /\ waitSeq[c] <= flushed => target[c] <= Finished

(***************************************************************************)
(* Drop counts are neither lost nor doubled on their way to the collector, *)
(* whatever reports fail: each dropped span is in the counter, in the      *)
(* report in flight, or was reported.                                      *)
(***************************************************************************)
DropsConserved == lost = dropped + saved + reported

\* The writer begins a report only when it is done with the last one.
OneReport ==
  writer \in {"next", "waiting", "woken", "flush"} => inflight = 0 /\ saved = 0

\* In this step c's call returns true.
ReturnsTrue(c) ==
  /\ pc[c] # "idle" /\ pc'[c] = "idle"
  /\ flushed >= IF pc[c] = "lock" THEN WaitSeq ELSE waitSeq[c]

(***************************************************************************)
(* recorder.h, "@return true if the flush was completed": when             *)
(* FlushWithTimeout returns true, every span recorded before the call has  *)
(* been sent or counted as dropped, though callers only compare numbers    *)
(* read at different times.                                                *)
(***************************************************************************)
FlushTruth ==
  [][\A c \in Callers : ReturnsTrue(c) => Finished >= target[c]]_vars

(***************************************************************************)
(* Calls return although their timeout does not come, also when the        *)
(* transporter throws or the collector disables the tracer, and so does    *)
(* the destructor, which joins the writer.                                 *)
(***************************************************************************)
CallsReturn ==
  /\ \A c \in Callers : pc[c] # "idle" ~> pc[c] = "idle"
  /\ destroyed ~> writer = "done"

\* The inductive invariant behind FlushTruth and NoLostWakeup.
IndInv ==
  /\ TypeOK
  /\ SeqnosTellInFlight
  /\ OneReport
  /\ \A c \in Callers : target[c] <= accepted
  /\ WaitsForItsSpans
  /\ NoLostWakeup
  /\ DropsConserved
=============================================================================
