--------------------- MODULE LegacyManualRecorderProofs ---------------------
(***************************************************************************)
(* Proofs about LegacyManualRecorder, for any spans and any limits.  A     *)
(* handler is a composition of AddSpan, Drop and FlushOne, so the          *)
(* invariant is stated of a recorder and the spans it was called with, and *)
(* each of these operators keeps it.                                       *)
(***************************************************************************)
EXTENDS LegacyManualRecorder, FiniteSetTheorems, TLAPS

\* The parts of IndInv that are about the recorder r and its spans.
Seqnos(r) ==
  /\ r.encodingSeqno \in {1 + r.flushedSeqno, 2 + r.flushedSeqno}
  /\ IsReportInProgress(r) <=> r.inflight \/ r.thrown
  /\ ~(r.inflight /\ r.thrown)
  /\ r.inflight => /\ r.active # {}
                   /\ r.savedPending = r.active
                   /\ r.savedDropped = r.activeDrops
  /\ ~r.inflight => r.active = {} /\ r.activeDrops = {}

Accounted(r, spans) ==
  /\ spans = r.pending \cup r.active \cup r.sent \cup r.lost
  /\ r.pending \cap (r.active \cup r.sent \cup r.lost) = {}
  /\ r.active \cap (r.sent \cup r.lost) = {}
  /\ r.sent \cap r.lost = {}

Counted(r) ==
  /\ ~r.thrown => r.lost = r.dropped \cup r.activeDrops \cup r.reported
  /\ r.dropped \cup r.activeDrops \cup r.reported \subseteq r.lost
  /\ r.dropped \cap (r.activeDrops \cup r.reported) = {}
  /\ r.activeDrops \cap r.reported = {}

Sound(r, spans) ==
  r \in RecorderStates /\ Seqnos(r) /\ Accounted(r, spans) /\ Counted(r)

LEMMA SoundIsInvariant == IndInv <=> /\ Sound(recorder, recorded)
                                     /\ recorded \subseteq Spans
                                     /\ limit \in Limits
  BY DEF IndInv, TypeOK, SeqnosTellInFlight, SpansAccounted, DropsConserved,
         Sound, Seqnos, Accounted, Counted

-----------------------------------------------------------------------------

\* A report is made only when none is in progress, so nothing is in flight.
LEMMA EncodeSound ==
  ASSUME NEW r, NEW spans, Sound(r, spans), Sends(r)
  PROVE  /\ Sound(Encode(r), spans)
         /\ Encode(r).inflight /\ ~Encode(r).thrown
<1>1. ~r.inflight /\ ~r.thrown
  BY DEF Sound, Seqnos, Sends
<1>2. Encode(r) \in RecorderStates
  <2>1. r \in RecorderStates
    BY DEF Sound
  <2>2. r.encodingSeqno + 1 \in Nat
    BY <2>1 DEF RecorderStates
  <2> QED BY <2>1, <2>2 DEF RecorderStates, Encode
<1>3. Seqnos(Encode(r))
  BY <1>1 DEF Sound, Seqnos, Sends, Encode, RecorderStates, IsReportInProgress
<1>4. Accounted(Encode(r), spans)
  BY <1>1 DEF Sound, Seqnos, Accounted, Encode, RecorderStates
<1>5. Counted(Encode(r))
  BY <1>1 DEF Sound, Seqnos, Counted, Encode, RecorderStates
<1> QED BY <1>1, <1>2, <1>3, <1>4, <1>5 DEF Sound, Encode, RecorderStates

LEMMA OnSuccessSound ==
  ASSUME NEW r, NEW spans, NEW disable \in BOOLEAN, Sound(r, spans), r.inflight
  PROVE  Sound(OnSuccess(r, disable), spans)
<1>1. OnSuccess(r, disable) \in RecorderStates
  <2>1. r \in RecorderStates
    BY DEF Sound
  <2>2. r.flushedSeqno + 1 \in Nat
    BY <2>1 DEF RecorderStates
  <2>3. /\ r.sent \cup r.active \in SUBSET Spans
        /\ r.reported \cup r.activeDrops \in SUBSET Spans
        /\ (r.disabled \/ disable) \in BOOLEAN
    BY <2>1 DEF RecorderStates
  <2> QED BY <2>1, <2>2, <2>3 DEF RecorderStates, OnSuccess
<1>2. Seqnos(OnSuccess(r, disable))
  BY DEF Sound, Seqnos, OnSuccess, RecorderStates, IsReportInProgress
<1>3. Accounted(OnSuccess(r, disable), spans)
  BY DEF Sound, Accounted, OnSuccess, RecorderStates
<1>4. Counted(OnSuccess(r, disable))
  BY DEF Sound, Counted, OnSuccess, RecorderStates
<1> QED BY <1>1, <1>2, <1>3, <1>4 DEF Sound

LEMMA OnFailureSound ==
  ASSUME NEW r, NEW spans, Sound(r, spans), r.inflight
  PROVE  Sound(OnFailure(r), spans)
<1>1. OnFailure(r) \in RecorderStates
  <2>1. r \in RecorderStates
    BY DEF Sound
  <2>2. r.flushedSeqno + 1 \in Nat
    BY <2>1 DEF RecorderStates
  <2>3. /\ r.lost \cup r.savedPending \in SUBSET Spans
        /\ r.dropped \cup r.savedDropped \cup r.savedPending \in SUBSET Spans
    BY <2>1 DEF RecorderStates
  <2> QED BY <2>1, <2>2, <2>3 DEF RecorderStates, OnFailure
<1>2. Seqnos(OnFailure(r))
  BY DEF Sound, Seqnos, OnFailure, RecorderStates, IsReportInProgress
<1>3. Accounted(OnFailure(r), spans)
  BY DEF Sound, Seqnos, Accounted, OnFailure, RecorderStates
<1>4. Counted(OnFailure(r))
  BY DEF Sound, Seqnos, Accounted, Counted, OnFailure, RecorderStates
<1> QED BY <1>1, <1>2, <1>3, <1>4 DEF Sound

LEMMA SendThrowsSound ==
  ASSUME NEW r, NEW spans, Sound(r, spans), r.inflight
  PROVE  Sound(SendThrows(r), spans)
<1>1. SendThrows(r) \in RecorderStates
  BY DEF Sound, RecorderStates, SendThrows
<1>2. Seqnos(SendThrows(r))
  BY DEF Sound, Seqnos, SendThrows, RecorderStates, IsReportInProgress
<1>3. Accounted(SendThrows(r), spans)
  BY DEF Sound, Seqnos, Accounted, SendThrows, RecorderStates
<1>4. Counted(SendThrows(r))
  BY DEF Sound, Seqnos, Accounted, Counted, SendThrows, RecorderStates
<1> QED BY <1>1, <1>2, <1>3, <1>4 DEF Sound

LEMMA FlushOneSound ==
  ASSUME NEW r, NEW spans, NEW outcome \in Outcomes, Sound(r, spans)
  PROVE  Sound(FlushOne(r, outcome), spans)
<1>1. CASE ~Sends(r)
  BY <1>1 DEF FlushOne
<1>2. CASE Sends(r)
  <2> DEFINE e == Encode(r)
  <2>1. Sound(e, spans) /\ e.inflight
    BY <1>2, EncodeSound
  <2> HIDE DEF e
  <2>2. /\ Sound(OnSuccess(e, FALSE), spans) /\ Sound(OnSuccess(e, TRUE), spans)
        /\ Sound(OnFailure(e), spans) /\ Sound(SendThrows(e), spans)
    BY <2>1, OnSuccessSound, OnFailureSound, SendThrowsSound
  <2> QED BY <1>2, <2>1, <2>2 DEF FlushOne, Outcomes, e
<1> QED BY <1>1, <1>2

LEMMA AddSpanSound ==
  ASSUME NEW r, NEW spans, NEW span \in Spans \ spans, Sound(r, spans)
  PROVE  Sound(AddSpan(r, span), spans \cup {span})
<1>1. AddSpan(r, span) \in RecorderStates /\ Seqnos(AddSpan(r, span))
  BY DEF Sound, RecorderStates, AddSpan, Seqnos, IsReportInProgress
<1>2. Accounted(AddSpan(r, span), spans \cup {span}) /\ Counted(AddSpan(r, span))
  BY DEF Sound, Accounted, Counted, AddSpan, RecorderStates
<1> QED BY <1>1, <1>2 DEF Sound

LEMMA DropSound ==
  ASSUME NEW r, NEW spans, NEW span \in Spans \ spans, Sound(r, spans)
  PROVE  Sound(Drop(r, span), spans \cup {span})
<1>1. Drop(r, span) \in RecorderStates /\ Seqnos(Drop(r, span))
  BY DEF Sound, RecorderStates, Drop, Seqnos, IsReportInProgress
<1>2. Accounted(Drop(r, span), spans \cup {span}) /\ Counted(Drop(r, span))
  BY DEF Sound, Accounted, Counted, Drop, RecorderStates
<1> QED BY <1>1, <1>2 DEF Sound

-----------------------------------------------------------------------------

LEMMA InitInv == Init => IndInv
<1> SUFFICES ASSUME Init PROVE IndInv
  OBVIOUS
<1>1. recorder \in RecorderStates /\ Seqnos(recorder)
  BY DEF Init, RecorderStates, Seqnos, IsReportInProgress
<1>2. Accounted(recorder, recorded) /\ Counted(recorder)
  BY DEF Init, Accounted, Counted
<1> QED BY <1>1, <1>2, SoundIsInvariant DEF Init, Sound

LEMMA BufferSpanSound ==
  ASSUME Sound(recorder, recorded), NEW span \in Spans \ recorded,
         NEW first \in Outcomes, NEW second \in Outcomes,
         BufferSpan(span, first, second)
  PROVE  Sound(recorder', recorded \cup {span})
<1> DEFINE flushed == IF Full(recorder) THEN FlushOne(recorder, first) ELSE recorder
           r == AddSpan(flushed, span)
<1>1. Sound(flushed, recorded)
  BY FlushOneSound
<1> HIDE DEF flushed
<1>2. Sound(r, recorded \cup {span})
  BY <1>1, AddSpanSound
<1> HIDE DEF r
<1>3. Sound(FlushOne(r, second), recorded \cup {span})
  BY <1>2, FlushOneSound
<1> QED BY <1>2, <1>3 DEF BufferSpan, r, flushed

LEMMA StepInv == IndInv /\ [Next]_vars => IndInv'
<1> SUFFICES ASSUME IndInv, [Next]_vars PROVE IndInv'
  OBVIOUS
<1>0. Sound(recorder, recorded) /\ recorded \subseteq Spans /\ limit \in Limits
  BY SoundIsInvariant
<1> SUFFICES Sound(recorder', recorded') /\ recorded' \subseteq Spans /\ limit' \in Limits
  BY DEF IndInv, TypeOK, SeqnosTellInFlight, SpansAccounted, DropsConserved,
         Sound, Seqnos, Accounted, Counted, IsReportInProgress
<1>1. ASSUME NEW span \in Spans, RecordSpan(span)
      PROVE  Sound(recorder', recorded') /\ recorded' \subseteq Spans /\ limit' \in Limits
  <2>1. span \in Spans \ recorded /\ recorded' = recorded \cup {span} /\ limit' = limit
    BY <1>1 DEF RecordSpan
  <2>2. Sound(recorder', recorded \cup {span})
    <3>1. CASE RefuseSpan(span)
      BY <1>0, <2>1, <3>1, DropSound DEF RefuseSpan
    <3>2. ASSUME NEW first \in Outcomes, NEW second \in Outcomes,
                 BufferSpan(span, first, second)
          PROVE  Sound(recorder', recorded \cup {span})
      BY <1>0, <2>1, <3>2, BufferSpanSound
    <3> QED BY <1>1, <3>1, <3>2 DEF RecordSpan
  <2> QED BY <1>0, <2>1, <2>2
<1>2. ASSUME NEW outcome \in Outcomes, FlushWithTimeout(outcome)
      PROVE  Sound(recorder', recorded') /\ recorded' \subseteq Spans /\ limit' \in Limits
  BY <1>0, <1>2, FlushOneSound DEF FlushWithTimeout
<1>3. CASE Callback
  <2>1. ASSUME NEW disable \in BOOLEAN, recorder' = OnSuccess(recorder, disable)
        PROVE  Sound(recorder', recorded)
    BY <1>0, <1>3, <2>1, OnSuccessSound DEF Callback
  <2>2. CASE recorder' = OnFailure(recorder)
    BY <1>0, <1>3, <2>2, OnFailureSound DEF Callback
  <2> QED BY <1>0, <1>3, <2>1, <2>2 DEF Callback
<1>4. CASE SetLimit
  BY <1>0, <1>4 DEF SetLimit
<1>5. CASE UNCHANGED vars
  BY <1>0, <1>5 DEF vars
<1> QED BY <1>1, <1>2, <1>3, <1>4, <1>5 DEF Next

-----------------------------------------------------------------------------

\* The inductive invariant holds whatever the transporter does, and however
\* the limit moves.
THEOREM RecorderInvariant == Spec => []IndInv
  BY InitInv, StepInv, PTL DEF Spec

\* Every span is pending, in flight, delivered or dropped.
THEOREM SpansAreAccounted == Spec => []SpansAccounted
<1>1. IndInv => SpansAccounted
  BY DEF IndInv
<1> QED BY <1>1, RecorderInvariant, PTL

\* Every dropped span is counted once, until a Send throws.
THEOREM DropsAreConserved == Spec => []DropsConserved
<1>1. IndInv => DropsConserved
  BY DEF IndInv
<1> QED BY <1>1, RecorderInvariant, PTL

-----------------------------------------------------------------------------

\* A flush that is not held up empties the buffer.
LEMMA FlushEmpties ==
  ASSUME NEW r, NEW outcome \in Outcomes, r \in RecorderStates
  PROVE  /\ Sends(r) => FlushOne(r, outcome).pending = {}
         /\ ~Sends(r) => FlushOne(r, outcome) = r
<1> DEFINE e == Encode(r)
<1>1. e.pending = {}
  BY DEF Encode, RecorderStates
<1>2. /\ OnSuccess(e, FALSE).pending = e.pending /\ OnSuccess(e, TRUE).pending = e.pending
      /\ OnFailure(e).pending = e.pending /\ SendThrows(e).pending = e.pending
  BY DEF OnSuccess, OnFailure, SendThrows, Encode, RecorderStates
<1> QED BY <1>1, <1>2 DEF FlushOne, Outcomes

\* The flush at the end of a RecordSpan leaves room, or a report holds it up.
LEMMA FlushWhenFull ==
  ASSUME NEW r, NEW outcome \in Outcomes, r \in RecorderStates,
         limit \in Limits, Cardinality(r.pending) <= Room,
         NEW after, after = IF Full(r) THEN FlushOne(r, outcome) ELSE r
  PROVE  /\ Cardinality(after.pending) <= Room
         /\ Full(after) /\ after.pending # {} => IsReportInProgress(after)
<1>0. limit \in Nat /\ Room \in Nat /\ Cardinality({}) = 0
  BY LimitsAssumption, FS_EmptySet DEF Room
<1>1. CASE ~Full(r)
  BY <1>1
<1>2. CASE Full(r) /\ Sends(r)
  <2>1. after.pending = {}
    BY <1>2, FlushEmpties
  <2> QED BY <1>0, <2>1
<1>3. CASE Full(r) /\ ~Sends(r)
  <2>1. after = r
    BY <1>3, FlushEmpties
  <2> QED BY <1>3, <2>1 DEF Sends
<1> QED BY <1>1, <1>2, <1>3

LEMMA BufferSpanStays ==
  ASSUME IndInv, NEW span \in Spans \ recorded,
         NEW first \in Outcomes, NEW second \in Outcomes,
         BufferSpan(span, first, second)
  PROVE  /\ Cardinality(recorder'.pending) <= Room
         /\ Full(recorder') /\ recorder'.pending # {} => IsReportInProgress(recorder')
<1> DEFINE flushed == IF Full(recorder) THEN FlushOne(recorder, first) ELSE recorder
           r == AddSpan(flushed, span)
<1>0. /\ Sound(recorder, recorded) /\ recorder \in RecorderStates
      /\ limit \in Limits /\ limit \in Nat /\ Cardinality({}) = 0
  BY SoundIsInvariant, LimitsAssumption, FS_EmptySet DEF Sound
<1>a. Room \in Nat \ {0} /\ limit <= Room
  BY <1>0 DEF Room
<1>1. Sound(flushed, recorded) /\ flushed \in RecorderStates
  BY <1>0, FlushOneSound DEF Sound
<1>2. /\ flushed.pending \in SUBSET Spans /\ IsFiniteSet(flushed.pending)
      /\ Cardinality(flushed.pending) \in Nat
  BY <1>1, SpansAssumption, FS_Subset, FS_CardinalityType DEF RecorderStates
<1>3. Cardinality(flushed.pending) < Room
  <2>1. CASE ~Full(recorder)
    BY <1>0, <1>a, <1>2, <2>1 DEF Full
  <2>2. CASE Full(recorder)
    <3>1. recorder.pending = {} \/ Sends(recorder)
      BY <1>0, <2>2 DEF Sends, BufferSpan
    <3>2. flushed.pending = {}
      BY <1>0, <2>2, <3>1, FlushEmpties
    <3> QED BY <1>0, <1>a, <3>2
  <2> QED BY <2>1, <2>2
<1>4. r \in RecorderStates /\ r.pending = flushed.pending \cup {span}
  BY <1>1 DEF AddSpan, RecorderStates
<1>5. Cardinality(r.pending) <= Room
  <2> DEFINE p == flushed.pending
  <2>1. IsFiniteSet(p) /\ Cardinality(p) \in Nat /\ Cardinality(p) < Room
    BY <1>2, <1>3
  <2>2. r.pending = p \cup {span}
    BY <1>4
  <2> HIDE DEF p, r
  <2>3. Cardinality(p \cup {span}) = IF span \in p THEN Cardinality(p) ELSE Cardinality(p) + 1
    BY <2>1, FS_AddElement
  <2> QED BY <1>a, <2>1, <2>2, <2>3
<1>6. recorder' = IF Full(r) THEN FlushOne(r, second) ELSE r
  BY DEF BufferSpan
<1> HIDE DEF r
<1> QED BY <1>0, <1>4, <1>5, <1>6, FlushWhenFull

\* The buffer keeps to the limit of the moment, and a RecordSpan leaves it
\* full only behind a report in progress.
THEOREM BufferStaysFlushed == Spec => StaysFlushed
<1> DEFINE Stays == recorded' # recorded /\ ~recorder.disabled =>
                      /\ \/ recorder'.pending = recorder.pending
                         \/ Cardinality(recorder'.pending) <= Room
                      /\ (Full(recorder) /\ recorder.pending # {}
                            => IsReportInProgress(recorder))'
<1>1. ASSUME IndInv, [Next]_vars PROVE Stays
  <2> SUFFICES ASSUME recorded' # recorded, ~recorder.disabled PROVE Stays
    OBVIOUS
  <2>1. PICK span \in Spans : RecordSpan(span)
    BY <1>1 DEF Next, FlushWithTimeout, Callback, SetLimit, vars
  <2>2. limit' = limit /\ span \in Spans \ recorded
    BY <2>1 DEF RecordSpan
  <2>3. CASE RefuseSpan(span)
    <3>1. recorder \in RecorderStates
      BY <1>1 DEF IndInv, TypeOK
    <3>2. /\ recorder'.pending = recorder.pending
          /\ recorder'.encodingSeqno = recorder.encodingSeqno
          /\ recorder'.flushedSeqno = recorder.flushedSeqno
      BY <2>3, <3>1 DEF RefuseSpan, Drop, RecorderStates
    <3>3. IsReportInProgress(recorder)
      BY <2>3 DEF RefuseSpan
    <3> QED BY <3>2, <3>3 DEF IsReportInProgress
  <2>4. ASSUME NEW first \in Outcomes, NEW second \in Outcomes,
               BufferSpan(span, first, second)
        PROVE  Stays
    <3>1. /\ Cardinality(recorder'.pending) <= Room
          /\ Full(recorder') /\ recorder'.pending # {} => IsReportInProgress(recorder')
      BY <1>1, <2>2, <2>4, BufferSpanStays
    <3> QED BY <2>2, <3>1 DEF Full, IsReportInProgress
  <2> QED BY <2>1, <2>3, <2>4 DEF RecordSpan
<1>2. IndInv /\ [Next]_vars => Stays
  BY <1>1
<1>3. Spec => [][Stays]_vars
  <2>1. IndInv /\ [Next]_vars => [Stays]_vars
    BY <1>2
  <2> QED BY <2>1, RecorderInvariant, PTL DEF Spec
<1> QED BY <1>3 DEF StaysFlushed
=============================================================================
