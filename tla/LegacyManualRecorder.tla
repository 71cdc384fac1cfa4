------------------------ MODULE LegacyManualRecorder ------------------------
(***************************************************************************)
(* recorder/legacy_manual_recorder.cpp over recorder/report_builder.cpp:   *)
(* the recorder of the deprecated LegacyAsyncTransporter.  One thread, one *)
(* report in flight at a time, and whether there is one is told by two     *)
(* counters.                                                               *)
(*                                                                         *)
(* The transporter decides what a Send does: it may call back later, call  *)
(* back before it returns, or throw.  RecordSpan may run FlushOne twice,   *)
(* so FlushOne is a function of the recorder's state and the handlers are  *)
(* compositions of it.  Counts of spans are sets of the spans they count.  *)
(***************************************************************************)
EXTENDS Naturals, FiniteSets

CONSTANTS
  Spans,
  Limits       \* what the functor behind max_buffered_spans may answer

ASSUME SpansAssumption == IsFiniteSet(Spans)
ASSUME LimitsAssumption == Limits \subseteq Nat

VARIABLES
  recorder,    \* the members, and what the world outside has of its spans
  recorded,    \* history: the spans RecordSpan was called with
  limit        \* max_buffered_spans, which the application may change

vars == <<recorder, recorded, limit>>

\* What the transporter may do before Send returns.
Outcomes == {"later", "success", "disable", "failure", "throw"}

Init ==
  /\ recorder = [disabled |-> FALSE,
                 pending |-> {},            \* builder_
                 active |-> {},             \* active_request_: spans
                 activeDrops |-> {},        \* active_request_: spans.dropped
                 savedDropped |-> {}, savedPending |-> {},
                 flushedSeqno |-> 0, encodingSeqno |-> 1,
                 dropped |-> {},
                 lost |-> {},               \* told to OnSpansDropped
                 sent |-> {}, reported |-> {},   \* delivered: spans, drops
                 inflight |-> FALSE,   \* the transporter has yet to call back
                 thrown |-> FALSE]     \* a Send has thrown
  /\ recorded = {}
  /\ limit \in Limits

(* Mutants: likely mistakes in the definitions above.                      *)

\* The drop count is not saved: a failed report forgets it.
OnFailureForgets(r) ==
  [r EXCEPT !.inflight = FALSE, !.flushedSeqno = @ + 1,
            !.active = {}, !.activeDrops = {},
            !.lost = @ \cup r.savedPending,
            !.dropped = @ \cup r.savedPending]

\* The buffer is flushed one span late.
FullOneLate(r) == Cardinality(r.pending) > limit

-----------------------------------------------------------------------------

IsReportInProgress(r) == r.encodingSeqno > 1 + r.flushedSeqno

OnSuccess(r, disable) ==
  [r EXCEPT !.inflight = FALSE, !.flushedSeqno = @ + 1,
            !.active = {}, !.activeDrops = {},
            !.sent = @ \cup r.active, !.reported = @ \cup r.activeDrops,
            !.disabled = @ \/ disable]

OnFailure(r) ==
  [r EXCEPT !.inflight = FALSE, !.flushedSeqno = @ + 1,
            !.active = {}, !.activeDrops = {},
            !.lost = @ \cup r.savedPending,
            !.dropped = @ \cup r.savedDropped \cup r.savedPending]

\* The handler of an exception.
SendThrows(r) ==
  [r EXCEPT !.inflight = FALSE, !.thrown = TRUE,
            !.active = {}, !.activeDrops = {},
            !.lost = @ \cup r.savedPending,
            !.dropped = @ \cup r.savedPending]

\* The pending report becomes the active one.
Encode(r) ==
  [r EXCEPT !.savedPending = r.pending, !.savedDropped = r.dropped,
            !.active = r.pending, !.activeDrops = r.dropped,
            !.pending = {}, !.dropped = {},
            !.encodingSeqno = @ + 1, !.inflight = TRUE]

\* FlushOne sends a report.
Sends(r) == ~IsReportInProgress(r) /\ r.pending # {}

FlushOne(r, outcome) ==
  IF ~Sends(r) THEN r
  ELSE CASE outcome = "later"   -> Encode(r)
         [] outcome = "success" -> OnSuccess(Encode(r), FALSE)
         [] outcome = "disable" -> OnSuccess(Encode(r), TRUE)
         [] outcome = "failure" -> OnFailure(Encode(r))
         [] outcome = "throw"   -> SendThrows(Encode(r))

\* The observer and the next report are told of a span that is refused.
Drop(r, span) ==
  [r EXCEPT !.dropped = @ \cup {span}, !.lost = @ \cup {span}]

AddSpan(r, span) == [r EXCEPT !.pending = @ \cup {span}]

Full(r) == Cardinality(r.pending) >= limit

-----------------------------------------------------------------------------

RefuseSpan(span) ==
  /\ recorder.disabled \/ (Full(recorder) /\ IsReportInProgress(recorder))
  /\ recorder' = Drop(recorder, span)

(***************************************************************************)
(* A full buffer that no report in flight holds up is flushed to make room *)
(* for the span, and once more if it is full with the span.                *)
(***************************************************************************)
BufferSpan(span, first, second) ==
  /\ ~recorder.disabled
  /\ Full(recorder) => ~IsReportInProgress(recorder)
  /\ LET flushed == IF Full(recorder) THEN FlushOne(recorder, first) ELSE recorder
         r == AddSpan(flushed, span)
     IN  recorder' = IF Full(r) THEN FlushOne(r, second) ELSE r

RecordSpan(span) ==
  /\ span \notin recorded
  /\ recorded' = recorded \cup {span}
  /\ UNCHANGED limit
  /\ \/ RefuseSpan(span)
     \/ \E first, second \in Outcomes : BufferSpan(span, first, second)

FlushWithTimeout(outcome) ==
  /\ ~recorder.disabled
  /\ recorder' = FlushOne(recorder, outcome)
  /\ UNCHANGED <<recorded, limit>>

\* The transporter calls back after Send has returned.
Callback ==
  /\ recorder.inflight
  /\ \/ \E disable \in BOOLEAN : recorder' = OnSuccess(recorder, disable)
     \/ recorder' = OnFailure(recorder)
  /\ UNCHANGED <<recorded, limit>>

\* The application's functor answers something else from now on.
SetLimit ==
  /\ limit' \in Limits \ {limit}
  /\ UNCHANGED <<recorder, recorded>>

Next ==
  \/ \E span \in Spans : RecordSpan(span)
  \/ \E outcome \in Outcomes : FlushWithTimeout(outcome)
  \/ Callback
  \/ SetLimit

Spec == Init /\ [][Next]_vars

-----------------------------------------------------------------------------
(* Properties                                                              *)

RecorderStates ==
  [disabled : BOOLEAN,
   pending : SUBSET Spans,
   active : SUBSET Spans, activeDrops : SUBSET Spans,
   savedDropped : SUBSET Spans, savedPending : SUBSET Spans,
   flushedSeqno : Nat, encodingSeqno : Nat,
   dropped : SUBSET Spans,
   lost : SUBSET Spans,
   sent : SUBSET Spans, reported : SUBSET Spans,
   inflight : BOOLEAN, thrown : BOOLEAN]

TypeOK ==
  /\ recorder \in RecorderStates
  /\ recorded \subseteq Spans
  /\ limit \in Limits

(***************************************************************************)
(* Every span recorded is in one place: pending, in the report in flight,  *)
(* delivered, or told to the observer as dropped, whatever the transporter *)
(* does in the middle of a RecordSpan.                                     *)
(***************************************************************************)
SpansAccounted ==
  LET r == recorder
  IN  /\ recorded = r.pending \cup r.active \cup r.sent \cup r.lost
      /\ r.pending \cap (r.active \cup r.sent \cup r.lost) = {}
      /\ r.active \cap (r.sent \cup r.lost) = {}
      /\ r.sent \cap r.lost = {}

(***************************************************************************)
(* Every dropped span is counted once, in the recorder, in the report in   *)
(* flight or in one delivered, as long as no Send has thrown (the handler  *)
(* of the exception does not give back the count FlushOne had moved).      *)
(* Even then nothing is counted twice.                                     *)
(***************************************************************************)
DropsConserved ==
  LET r == recorder
  IN  /\ ~r.thrown => r.lost = r.dropped \cup r.activeDrops \cup r.reported
      /\ r.dropped \cup r.activeDrops \cup r.reported \subseteq r.lost
      /\ r.dropped \cap (r.activeDrops \cup r.reported) = {}
      /\ r.activeDrops \cap r.reported = {}

\* The counters are never more than one report apart; only a throw makes
\* them say that a report is in flight when none is.
SeqnosTellInFlight ==
  LET r == recorder
  IN  /\ r.encodingSeqno \in {1 + r.flushedSeqno, 2 + r.flushedSeqno}
      /\ IsReportInProgress(r) <=> r.inflight \/ r.thrown
      /\ ~(r.inflight /\ r.thrown)
      /\ r.inflight => /\ r.active # {}
                       /\ r.savedPending = r.active
                       /\ r.savedDropped = r.activeDrops
      /\ ~r.inflight => r.active = {} /\ r.activeDrops = {}

\* The inductive invariant.
IndInv == TypeOK /\ SeqnosTellInFlight /\ SpansAccounted /\ DropsConserved

\* The span that RecordSpan adds is in the buffer whatever the limit says.
Room == IF limit = 0 THEN 1 ELSE limit

(***************************************************************************)
(* A RecordSpan never takes the buffer past the limit of the moment (a     *)
(* limit of 0 is not refused by the code, and acts as one of 1), and       *)
(* leaves spans in a full buffer only behind a report that holds up the    *)
(* next flush.                                                             *)
(***************************************************************************)
StaysFlushed ==
  [][recorded' # recorded /\ ~recorder.disabled =>
       /\ \/ recorder'.pending = recorder.pending
          \/ Cardinality(recorder'.pending) <= Room
       /\ (Full(recorder) /\ recorder.pending # {} => IsReportInProgress(recorder))']_vars
=============================================================================
