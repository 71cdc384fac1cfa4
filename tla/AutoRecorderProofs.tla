------------------------- MODULE AutoRecorderProofs -------------------------
(***************************************************************************)
(* What AutoRecorder promises, for any set of callers, any limits and any  *)
(* number of spans.  The invariant is IndInv; TLC checks it first.         *)
(***************************************************************************)
EXTENDS AutoRecorder, TLAPS

\* The part of IndInv that relates targets to the spans accepted.
TargetsAccepted == \A c \in Callers : target[c] <= accepted

\* What the steps of a caller leave alone.
recorderVars == <<limit, snapshot, exit, writer, destroyed, recorded,
                  reportVars, dropVars>>

USE LimitsAssumption, MaxSpansAssumption

LEMMA InitInv == Init => IndInv
<1> SUFFICES ASSUME Init PROVE IndInv
  OBVIOUS
<1>1. /\ limit \in Nat /\ snapshot \in Nat
      /\ pending = 0 /\ inflight = 0 /\ saved = 0 /\ dropped = 0
      /\ encoding = 1 /\ flushed = 0
      /\ exit = FALSE /\ destroyed = FALSE /\ writer = "next"
      /\ recorded = 0 /\ accepted = 0 /\ lost = 0 /\ reported = 0
  BY DEF Init
<1>2. /\ pc \in [Callers -> {"idle", "lock", "waiting", "woken"}]
      /\ waitSeq \in [Callers -> Nat]
      /\ target \in [Callers -> Nat]
  BY DEF Init
<1>3. \A c \in Callers : target[c] = 0 /\ pc[c] = "idle"
  BY DEF Init
<1>4. Finished = 0
  BY <1>1 DEF Finished
<1>5. TypeOK
  BY <1>1, <1>2, <1>4 DEF TypeOK
<1>6. SeqnosTellInFlight /\ OneReport /\ DropsConserved
  BY <1>1 DEF SeqnosTellInFlight, InFlight, OneReport, DropsConserved
<1> QED
  BY <1>1, <1>3, <1>5, <1>6
  DEF IndInv, WaitsForItsSpans, Waiting, NoLostWakeup

\* WaitSeq numbers the report being filled or the one before.
LEMMA WaitSeqBounds ==
  ASSUME IndInv
  PROVE  /\ WaitSeq \in Nat
         /\ pending # 0 => WaitSeq = encoding
         /\ pending = 0 => WaitSeq = encoding - 1
BY DEF IndInv, TypeOK, SeqnosTellInFlight, WaitSeq

\* A call that returns when it looks at the numbers for the first time:
\* everything accepted has been dealt with.
LEMMA NothingToWaitFor ==
  ASSUME IndInv, flushed >= WaitSeq
  PROVE  Finished = accepted
<1>1. pending = 0
  BY WaitSeqBounds DEF IndInv, TypeOK, SeqnosTellInFlight
<1>2. encoding = flushed + 1 /\ inflight = 0
  BY <1>1, WaitSeqBounds DEF IndInv, TypeOK, SeqnosTellInFlight
<1> QED
  BY <1>1, <1>2 DEF IndInv, TypeOK, Finished

-----------------------------------------------------------------------------
(* The steps of callers                                                    *)

\* A step that changes only the locals of c preserves the invariant if it
\* does so for c.
LEMMA CallerStep ==
  ASSUME IndInv, NEW c \in Callers, UNCHANGED recorderVars,
         NEW p \in {"idle", "lock", "waiting", "woken"}, NEW w \in Nat,
         NEW t \in Nat, t <= accepted,
         pc' = [pc EXCEPT ![c] = p],
         waitSeq' = [waitSeq EXCEPT ![c] = w],
         target' = [target EXCEPT ![c] = t],
         p = "waiting" => ~exit /\ flushed < w,
         p \in {"waiting", "woken"} =>
           /\ w <= encoding
           /\ w < encoding => t <= accepted - pending
           /\ w <= flushed => t <= Finished
  PROVE  IndInv'
<1> USE DEF recorderVars, reportVars, dropVars
<1>1. TypeOK'
  BY DEF IndInv, TypeOK, Finished
<1>2. SeqnosTellInFlight' /\ OneReport' /\ DropsConserved'
  BY DEF IndInv, SeqnosTellInFlight, InFlight, OneReport, DropsConserved
<1>3. TargetsAccepted'
  BY DEF IndInv, TypeOK, TargetsAccepted
<1>4. NoLostWakeup'
  BY DEF IndInv, TypeOK, NoLostWakeup
<1>5. WaitsForItsSpans'
  BY DEF IndInv, TypeOK, WaitsForItsSpans, Waiting, Finished
<1> QED
  BY <1>1, <1>2, <1>3, <1>4, <1>5 DEF IndInv, TargetsAccepted

LEMMA ReturnInv ==
  ASSUME IndInv, NEW c \in Callers, Return(c), UNCHANGED recorderVars
  PROVE  IndInv'
<1>1. 0 <= accepted
  BY DEF IndInv, TypeOK
<1> QED
  BY <1>1, CallerStep, Zenon DEF Return

LEMMA BeginInv ==
  ASSUME IndInv, NEW c \in Callers, Begin(c)
  PROVE  IndInv'
<1>1. /\ waitSeq[c] \in Nat /\ accepted \in Nat /\ accepted <= accepted
      /\ waitSeq' = [waitSeq EXCEPT ![c] = waitSeq[c]]
  BY DEF IndInv, TypeOK, Begin
<1>2. UNCHANGED recorderVars
  BY DEF Begin, recorderVars, reportVars, dropVars
<1> QED
  BY <1>1, <1>2, CallerStep DEF Begin

LEMMA EnterInv ==
  ASSUME IndInv, NEW c \in Callers, Enter(c)
  PROVE  IndInv'
<1>1. UNCHANGED recorderVars
  BY DEF Enter, recorderVars, reportVars, dropVars
<1>2. CASE exit \/ flushed >= WaitSeq
  BY <1>1, <1>2, ReturnInv DEF Enter
<1>3. CASE ~(exit \/ flushed >= WaitSeq)
  <2>1. /\ target[c] \in Nat /\ target[c] <= accepted
        /\ target' = [target EXCEPT ![c] = target[c]]
        /\ pc' = [pc EXCEPT ![c] = "waiting"]
        /\ waitSeq' = [waitSeq EXCEPT ![c] = WaitSeq]
    BY <1>3 DEF IndInv, TypeOK, Enter
  <2>2. WaitSeq \in Nat /\ ~exit /\ flushed < WaitSeq
    BY <1>3, WaitSeqBounds DEF IndInv, TypeOK
  <2>3. /\ WaitSeq <= encoding
        /\ WaitSeq < encoding => target[c] <= accepted - pending
        /\ WaitSeq <= flushed => target[c] <= Finished
    BY <2>1, <2>2, WaitSeqBounds DEF IndInv, TypeOK
  <2> QED
    BY <1>1, <2>1, <2>2, <2>3, CallerStep
<1> QED
  BY <1>2, <1>3

LEMMA ResumeInv ==
  ASSUME IndInv, NEW c \in Callers, Resume(c)
  PROVE  IndInv'
<1>1. UNCHANGED recorderVars
  BY DEF Resume, recorderVars, reportVars, dropVars
<1>2. CASE exit \/ flushed >= waitSeq[c]
  BY <1>1, <1>2, ReturnInv DEF Resume
<1>3. CASE ~(exit \/ flushed >= waitSeq[c])
  <2>1. /\ target[c] \in Nat /\ target[c] <= accepted /\ waitSeq[c] \in Nat
        /\ target' = [target EXCEPT ![c] = target[c]]
        /\ pc' = [pc EXCEPT ![c] = "waiting"]
        /\ waitSeq' = [waitSeq EXCEPT ![c] = waitSeq[c]]
    BY <1>3 DEF IndInv, TypeOK, Resume
  <2>2. ~exit /\ flushed < waitSeq[c]
    BY <1>3, <2>1 DEF IndInv, TypeOK
  <2>3. /\ waitSeq[c] <= encoding
        /\ waitSeq[c] < encoding => target[c] <= accepted - pending
        /\ waitSeq[c] <= flushed => target[c] <= Finished
    BY DEF IndInv, WaitsForItsSpans, Waiting, Resume
  <2> QED
    BY <1>1, <2>1, <2>2, <2>3, CallerStep
<1> QED
  BY <1>2, <1>3

LEMMA TimeOutInv ==
  ASSUME IndInv, NEW c \in Callers, TimeOut(c)
  PROVE  IndInv'
<1>1. UNCHANGED recorderVars
  BY DEF TimeOut, recorderVars, reportVars, dropVars
<1> QED
  BY <1>1, ReturnInv DEF TimeOut

-----------------------------------------------------------------------------
(* The steps of the writer, of RecordSpan and of the destructor            *)

\* Accepted or refused: a span that fills the buffer wakes the writer.
LEMMA RecordSpanInv ==
  ASSUME IndInv, RecordSpan
  PROVE  IndInv'
<1> USE DEF RecordSpan
<1>1. CASE RefuseSpan
  <2>1. TypeOK' /\ DropsConserved'
    BY <1>1 DEF IndInv, TypeOK, DropsConserved, RefuseSpan, Finished
  <2> QED
    BY <1>1, <2>1 DEF IndInv, RefuseSpan, SeqnosTellInFlight, InFlight,
       OneReport, WaitsForItsSpans, Waiting, NoLostWakeup, Finished
<1>2. CASE AcceptSpan
  <2> USE <1>2 DEF AcceptSpan, dropVars
  <2>1. /\ writer' = writer \/ (writer = "waiting" /\ writer' = "woken")
        /\ pending' < snapshot' \/ writer' # "waiting"
        /\ pc' \in [Callers -> {"idle", "lock", "waiting", "woken"}]
        /\ \A c \in Callers : Waiting(c)' <=> Waiting(c)
        /\ \A c \in Callers : pc'[c] = "waiting" => pc[c] = "waiting"
    BY DEF IndInv, TypeOK, NotifyAll, Waiting
  <2>2. Finished' = Finished /\ accepted' - pending' = accepted - pending
    BY DEF IndInv, TypeOK, Finished
  <2>3. TypeOK' /\ DropsConserved'
    BY <2>1, <2>2 DEF IndInv, TypeOK, DropsConserved
  <2>4. SeqnosTellInFlight' /\ OneReport'
    BY <2>1 DEF IndInv, SeqnosTellInFlight, InFlight, OneReport
  <2>5. NoLostWakeup'
    BY <2>1 DEF IndInv, TypeOK, NoLostWakeup
  <2>6. TargetsAccepted' /\ WaitsForItsSpans'
    BY <2>1, <2>2 DEF IndInv, TypeOK, TargetsAccepted, WaitsForItsSpans
  <2> QED
    BY <2>3, <2>4, <2>5, <2>6 DEF IndInv, TargetsAccepted
<1> QED
  BY <1>1, <1>2

LEMMA SetLimitInv ==
  ASSUME IndInv, SetLimit
  PROVE  IndInv'
<1>1. TypeOK'
  BY DEF SetLimit, callVars, reportVars, dropVars, IndInv, TypeOK, Finished
<1> QED
  BY <1>1 DEF SetLimit, callVars, reportVars, dropVars, IndInv,
     SeqnosTellInFlight, InFlight, OneReport, WaitsForItsSpans, Waiting,
     NoLostWakeup, DropsConserved, Finished

\* The writer waits, or goes to flush, or ends.
LEMMA WriterWaitsInv ==
  ASSUME IndInv, WaitForNextWrite \/ WriterTests \/ WriterTimesOut
  PROVE  IndInv'
<1> USE DEF WaitForNextWrite, WriterTests, WriterTimesOut, callVars, reportVars,
            dropVars
<1>1. /\ writer \in {"next", "waiting", "woken"}
      /\ writer' \in {"waiting", "flush", "done"}
      /\ snapshot' \in Nat
      /\ writer' = "waiting" => ~exit /\ pending < snapshot'
  BY DEF IndInv, TypeOK
<1>2. TypeOK'
  BY <1>1 DEF IndInv, TypeOK, Finished
<1>3. SeqnosTellInFlight' /\ OneReport' /\ DropsConserved'
  BY <1>1 DEF IndInv, SeqnosTellInFlight, InFlight, OneReport, DropsConserved
<1> QED
  BY <1>1, <1>2, <1>3 DEF IndInv, WaitsForItsSpans, Waiting, NoLostWakeup,
     Finished

LEMMA NothingPendingInv ==
  ASSUME IndInv, NothingPending
  PROVE  IndInv'
<1> USE DEF NothingPending, callVars, reportVars, dropVars
<1>1. TypeOK'
  BY DEF IndInv, TypeOK, Finished
<1> QED
  BY <1>1 DEF IndInv, SeqnosTellInFlight, InFlight, OneReport,
     WaitsForItsSpans, Waiting, NoLostWakeup, DropsConserved, Finished

LEMMA TakeReportInv ==
  ASSUME IndInv, TakeReport
  PROVE  IndInv'
<1> USE DEF TakeReport, callVars
<1>1. inflight = 0 /\ saved = 0 /\ encoding = flushed + 1
  BY DEF IndInv, TypeOK, OneReport, SeqnosTellInFlight, InFlight
<1>2. Finished' = Finished /\ accepted' - pending' = accepted
  BY <1>1 DEF IndInv, TypeOK, Finished
<1>3. TypeOK' /\ DropsConserved'
  BY <1>1, <1>2 DEF IndInv, TypeOK, DropsConserved
<1>4. SeqnosTellInFlight' /\ OneReport'
  BY <1>1 DEF IndInv, TypeOK, SeqnosTellInFlight, InFlight, OneReport
<1>5. TargetsAccepted' /\ WaitsForItsSpans' /\ NoLostWakeup'
  BY <1>2 DEF IndInv, TypeOK, TargetsAccepted, WaitsForItsSpans, Waiting,
     NoLostWakeup
<1> QED
  BY <1>3, <1>4, <1>5 DEF IndInv, TargetsAccepted

\* What a notification does: nobody is left asleep, nobody begins or ends a
\* call.
LEMMA NotifyAllWakes ==
  ASSUME IndInv, NEW w, NotifyAll(w), w # "waiting" \/ writer = "waiting",
         w \in {"next", "waiting", "woken", "flush", "send", "succeeded",
                "failed", "done"}
  PROVE  /\ writer' = w \/ (w = "waiting" /\ writer' = "woken")
         /\ writer' # "waiting"
         /\ pc' \in [Callers -> {"idle", "lock", "waiting", "woken"}]
         /\ \A c \in Callers : pc'[c] # "waiting"
         /\ \A c \in Callers : Waiting(c)' <=> Waiting(c)
BY DEF IndInv, TypeOK, NotifyAll, Waiting

\* While the report is being sent only the writer's place and exit change.
LEMMA SendInv ==
  ASSUME IndInv, SendSucceeds \/ SendFails \/ SendThrows
  PROVE  IndInv'
<1> USE DEF SendSucceeds, SendFails, SendThrows, callVars, reportVars, dropVars
<1>1. /\ writer' \in {"succeeded", "failed", "done"}
      /\ exit' \in BOOLEAN
      /\ pc' \in [Callers -> {"idle", "lock", "waiting", "woken"}]
      /\ \A c \in Callers : Waiting(c)' <=> Waiting(c)
      /\ \A c \in Callers :
           pc'[c] = "waiting" => pc[c] = "waiting" /\ exit' = exit
  <2>1. CASE UNCHANGED <<exit, pc>>
    BY <2>1 DEF IndInv, TypeOK, Waiting, NotifyAll
  <2>2. CASE exit' = TRUE /\ NotifyAll("succeeded")
    <3> "succeeded" # "waiting"
      OBVIOUS
    <3> QED
      BY <2>2, NotifyAllWakes
  <2>3. CASE exit' = TRUE /\ NotifyAll("done")
    <3> "done" # "waiting"
      OBVIOUS
    <3> QED
      BY <2>3, NotifyAllWakes
  <2> QED
    BY <2>1, <2>2, <2>3
<1>2. inflight # 0 /\ encoding = flushed + 2
  BY DEF IndInv, TypeOK, SeqnosTellInFlight, InFlight
<1>3. TypeOK'
  BY <1>1 DEF IndInv, TypeOK, Finished
<1>4. SeqnosTellInFlight' /\ OneReport' /\ DropsConserved'
  BY <1>1, <1>2 DEF IndInv, SeqnosTellInFlight, InFlight, OneReport,
     DropsConserved
<1> QED
  BY <1>1, <1>3, <1>4 DEF IndInv, WaitsForItsSpans, NoLostWakeup, Finished

LEMMA FinishReportInv ==
  ASSUME IndInv, FinishReport
  PROVE  IndInv'
<1> USE DEF FinishReport
<1>1. /\ writer' = "next"
      /\ pc' \in [Callers -> {"idle", "lock", "waiting", "woken"}]
      /\ \A c \in Callers : pc'[c] # "waiting"
      /\ \A c \in Callers : Waiting(c)' <=> Waiting(c)
  BY NotifyAllWakes
<1>2. inflight # 0 /\ encoding = flushed + 2
  BY DEF IndInv, TypeOK, SeqnosTellInFlight, InFlight
<1>3. Finished' = accepted - pending /\ Finished' \in Nat
  BY DEF IndInv, TypeOK, Finished
<1>4. TypeOK' /\ DropsConserved'
  BY <1>1, <1>3 DEF IndInv, TypeOK, DropsConserved, ReportFailed,
     ReportSucceeded
<1>5. SeqnosTellInFlight' /\ OneReport'
  BY <1>1, <1>2 DEF IndInv, TypeOK, SeqnosTellInFlight, InFlight, OneReport
<1>6. TargetsAccepted' /\ WaitsForItsSpans' /\ NoLostWakeup'
  BY <1>1, <1>2, <1>3 DEF IndInv, TypeOK, TargetsAccepted, WaitsForItsSpans,
     NoLostWakeup
<1> QED
  BY <1>4, <1>5, <1>6 DEF IndInv, TargetsAccepted

LEMMA DestroyInv ==
  ASSUME IndInv, Destroy
  PROVE  IndInv'
<1> USE DEF Destroy, reportVars, dropVars
<1>1. /\ writer' = writer \/ (writer = "waiting" /\ writer' = "woken")
      /\ writer' # "waiting"
      /\ pc' \in [Callers -> {"idle", "lock", "waiting", "woken"}]
      /\ \A c \in Callers : pc'[c] # "waiting"
      /\ \A c \in Callers : Waiting(c)' <=> Waiting(c)
  BY DEF IndInv, TypeOK, NotifyAll, Waiting
<1>2. TypeOK'
  BY <1>1 DEF IndInv, TypeOK, Finished
<1>3. SeqnosTellInFlight' /\ OneReport' /\ DropsConserved'
  BY <1>1 DEF IndInv, SeqnosTellInFlight, InFlight, OneReport, DropsConserved
<1> QED
  BY <1>1, <1>2, <1>3 DEF IndInv, WaitsForItsSpans, NoLostWakeup, Finished

-----------------------------------------------------------------------------
(* The theorems                                                            *)

\* Every step preserves the invariant.
LEMMA NextInv == IndInv /\ [Next]_vars => IndInv'
<1> SUFFICES ASSUME IndInv, [Next]_vars PROVE IndInv'
  OBVIOUS
<1>1. CASE RecordSpan
  BY <1>1, RecordSpanInv
<1>2. CASE SetLimit
  BY <1>2, SetLimitInv
<1>3. CASE \E c \in Callers : Begin(c) \/ Enter(c) \/ Resume(c) \/ TimeOut(c)
  BY <1>3, BeginInv, EnterInv, ResumeInv, TimeOutInv
<1>4. CASE Write
  BY <1>4, WriterWaitsInv, NothingPendingInv, TakeReportInv, SendInv,
     FinishReportInv DEF Write
<1>5. CASE Destroy
  BY <1>5, DestroyInv
<1>6. CASE UNCHANGED vars
  BY <1>6 DEF vars, callVars, reportVars, dropVars, IndInv, TypeOK,
     SeqnosTellInFlight, InFlight, OneReport, WaitsForItsSpans, Waiting,
     NoLostWakeup, DropsConserved, Finished
<1> QED
  BY <1>1, <1>2, <1>3, <1>4, <1>5, <1>6 DEF Next, Joined

(***************************************************************************)
(* The invariant of the recorder, whatever reports fail, throw or disable  *)
(* it, and whenever it is destroyed.                                       *)
(***************************************************************************)
THEOREM RecorderInvariant == Spec => []IndInv
<1>1. Init => IndInv
  BY InitInv
<1>2. IndInv /\ [Next]_vars => IndInv'
  BY NextInv
<1> QED
  BY <1>1, <1>2, PTL DEF Spec

\* The variables keep their types, and no span is finished twice.
THEOREM RecorderTypes == Spec => []TypeOK
<1>1. IndInv => TypeOK
  BY DEF IndInv
<1> QED
  BY <1>1, RecorderInvariant, PTL

\* The sequence numbers of auto_recorder.cpp tell whether a report is in
\* flight, and no report is empty.
THEOREM SequenceNumbers == Spec => []SeqnosTellInFlight
<1>1. IndInv => SeqnosTellInFlight
  BY DEF IndInv
<1> QED
  BY <1>1, RecorderInvariant, PTL

\* Neither the writer nor a caller sleeps through what it waits for, on the
\* condition variable they share.
THEOREM NobodySleepsOn == Spec => []NoLostWakeup
<1>1. IndInv => NoLostWakeup
  BY DEF IndInv
<1> QED
  BY <1>1, RecorderInvariant, PTL

\* A dropped span is counted in the recorder, in the report in flight or in
\* one that was delivered, and once.
THEOREM DropsAreConserved == Spec => []DropsConserved
<1>1. IndInv => DropsConserved
  BY DEF IndInv
<1> QED
  BY <1>1, RecorderInvariant, PTL

(***************************************************************************)
(* FlushWithTimeout returns true only when every span recorded before the  *)
(* call has been sent or counted as dropped.                               *)
(***************************************************************************)
THEOREM FlushTellsTruth == Spec => FlushTruth
<1> DEFINE A == \A c \in Callers : ReturnsTrue(c) => Finished >= target[c]
<1>1. IndInv => A
  <2> SUFFICES ASSUME IndInv, NEW c \in Callers, ReturnsTrue(c)
               PROVE  Finished >= target[c]
    OBVIOUS
  <2>1. CASE pc[c] = "lock"
    <3>1. Finished = accepted
      BY <2>1, NothingToWaitFor DEF ReturnsTrue
    <3> QED
      BY <3>1 DEF IndInv, TypeOK
  <2>2. CASE pc[c] # "lock"
    BY <2>2 DEF IndInv, TypeOK, ReturnsTrue, WaitsForItsSpans, Waiting
  <2> QED
    BY <2>1, <2>2
<1>2. IndInv => [A]_vars
  BY <1>1
<1> HIDE DEF A
<1>3. Spec => [][A]_vars
  BY <1>2, RecorderInvariant, PTL
<1> QED
  BY <1>3 DEF FlushTruth, A
=============================================================================
