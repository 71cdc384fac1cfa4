------------------------ MODULE StreamRecorderProofs ------------------------
(***************************************************************************)
(* What StreamRecorder promises, for any set of callers, any buffer and    *)
(* any number of spans and forks.  The invariant is IndInv; TLC checks it  *)
(* first.                                                                  *)
(***************************************************************************)
EXTENDS StreamRecorder, TLAPS

\* The part of IndInv that is not about types.
WaitInv ==
  /\ BlockedIsUnsatisfied
  /\ ForksQuietly
  /\ NoLostWakeup
  /\ UnservedWait
  /\ NoRequestSwallowed
  /\ InactiveIsSeen

LEMMA Bounds == MaxSpans \in Nat /\ MaxForks \in Nat /\ Free \notin Callers
BY RecorderAssumption

USE Bounds

LEMMA InitInv == Init => IndInv
<1> SUFFICES ASSUME Init PROVE IndInv
  OBVIOUS
<1>1. TypeOK
  <2>1. /\ taken \in 0..produced /\ consumed \in 0..taken
        /\ produced \in 0..MaxSpans /\ forks \in 0..MaxForks
        /\ requests \subseteq Kinds /\ unserved \subseteq Callers
    BY DEF Init
  <2>2. /\ mutex \in [Kinds -> Callers \cup {Free}]
        /\ pc \in [Callers -> {"idle", "lock", "block", "waiting", "woken"}]
        /\ kind \in [Callers -> Kinds]
        /\ target \in [Callers -> 0..MaxSpans]
    BY DEF Init, Kinds
  <2> QED
    BY <2>1, <2>2 DEF Init, TypeOK
<1>2. BlockedIsUnsatisfied
  BY DEF Init, BlockedIsUnsatisfied
<1> QED
  BY <1>1, <1>2 DEF Init, IndInv, ForksQuietly, NoLostWakeup, UnservedWait,
     NoRequestSwallowed, InactiveIsSeen

-----------------------------------------------------------------------------
(* Types                                                                   *)

LEMMA TypeStep == TypeOK /\ ForksQuietly /\ [Next]_vars => TypeOK'
<1> SUFFICES ASSUME TypeOK, ForksQuietly, [Next]_vars PROVE TypeOK'
  OBVIOUS
<1> USE DEF TypeOK, Kinds, spanVars, callVars, connectionVars, ownerVars
<1>1. CASE RecordSpan
  BY <1>1 DEF RecordSpan
<1>2. ASSUME NEW c \in Callers, NEW k \in Kinds, Begin(c, k) PROVE TypeOK'
  BY <1>2 DEF Begin
<1>3. ASSUME NEW c \in Callers, TimeOut(c) PROVE TypeOK'
  BY <1>3 DEF TimeOut, Return
<1>4. ASSUME NEW c \in Callers, Enter(c) PROVE TypeOK'
  <2>1. /\ requests' \subseteq Kinds /\ unserved' \subseteq Callers
        /\ UNCHANGED <<spanVars, lastActive, loop, connectionVars, ownerVars>>
    <3>1. UNCHANGED <<spanVars, lastActive, loop, connectionVars, ownerVars>>
      BY <1>4 DEF Enter
    <3>2. requests' \in {requests, requests \cup {kind[c]}}
      BY <1>4 DEF Enter
    <3>3. unserved' \in {unserved, unserved \cup {d \in {c} : kind[d] = "flush"}}
      BY <1>4 DEF Enter
    <3> QED
      BY <3>1, <3>2, <3>3
  <2>2. /\ mutex' \in [Kinds -> Callers \cup {Free}]
        /\ pc' \in [Callers -> {"idle", "lock", "block", "waiting", "woken"}]
        /\ kind' \in [Callers -> Kinds]
        /\ target' \in [Callers -> 0..MaxSpans]
    <3>1. CASE Return(c)
      BY <3>1 DEF Return
    <3>2. CASE /\ mutex' = [mutex EXCEPT ![kind[c]] = c]
               /\ pc' = [pc EXCEPT ![c] = "block"]
               /\ UNCHANGED <<kind, target>>
      BY <3>2
    <3> QED
      BY <1>4, <3>1, <3>2 DEF Enter
  <2> QED
    BY <2>1, <2>2
<1>5. ASSUME NEW c \in Callers, Block(c) PROVE TypeOK'
  BY <1>5 DEF Block
<1>6. ASSUME NEW c \in Callers, Resume(c) PROVE TypeOK'
  BY <1>6 DEF Resume, TestPredicate, Return
<1>7. CASE PollExit \/ FlushTimer
  <2>1. /\ taken' \in 0..produced /\ consumed \in 0..taken'
        /\ UNCHANGED <<produced, consumed>>
    BY <1>7 DEF PollExit, FlushTimer, TakeSpans
  <2> QED
    BY <1>7, <2>1 DEF PollExit, FlushTimer
<1>8. CASE PollRequests
  BY <1>8 DEF PollRequests, AfterFlush
<1>9. CASE PollFlush
  BY <1>9 DEF PollFlush, TakeSpans, AfterFlush
<1>10. CASE StoreConsumed \/ StoreInactive
  <2>1. taken \in 0..taken
    OBVIOUS
  <2> QED
    BY <1>10, <2>1 DEF StoreConsumed, StoreInactive
<1>11. CASE NotifyFlushed \/ NotifyInactive \/ NotifyExit
  BY <1>11 DEF NotifyFlushed, NotifyInactive, NotifyExit, Wakes
<1>12. CASE PollShutdown \/ Deactivate
  BY <1>12 DEF PollShutdown, Deactivate
<1>13. CASE PrepareForFork \/ SetExit
  BY <1>13 DEF PrepareForFork, SetExit
<1>14. CASE OnForkedParent \/ OnForkedChild
  <2>1. produced \in 0..produced
    OBVIOUS
  <2>2. forks' \in 0..MaxForks
    BY <1>14 DEF OnForkedParent, OnForkedChild, NewImpl, ForksQuietly
  <2> QED
    BY <1>14, <2>1, <2>2 DEF OnForkedParent, OnForkedChild, NewImpl
<1>15. CASE Finished \/ UNCHANGED vars
  BY <1>15 DEF Finished, vars
<1> QED
  BY <1>1, <1>2, <1>3, <1>4, <1>5, <1>6, <1>7, <1>8, <1>9, <1>10, <1>11,
     <1>12, <1>13, <1>14, <1>15 DEF Next, CallStep, LoopStep

-----------------------------------------------------------------------------
(* Waiting                                                                 *)

LEMMA WaitStep == IndInv /\ [Next]_vars => WaitInv'
<1> SUFFICES ASSUME IndInv, [Next]_vars PROVE WaitInv'
  OBVIOUS
<1> USE DEF IndInv, TypeOK, Kinds, WaitInv, spanVars, callVars,
            connectionVars, ownerVars, BlockedIsUnsatisfied, ForksQuietly,
            NoLostWakeup, UnservedWait, NoRequestSwallowed, InactiveIsSeen,
            Satisfied, exit, implExit
<1>1. CASE RecordSpan
  BY <1>1 DEF RecordSpan
<1>2. ASSUME NEW c \in Callers, NEW k \in Kinds, Begin(c, k) PROVE WaitInv'
  BY <1>2 DEF Begin
<1>3. ASSUME NEW c \in Callers, TimeOut(c) PROVE WaitInv'
  BY <1>3 DEF TimeOut, Return
<1>4. ASSUME NEW c \in Callers, Enter(c) PROVE WaitInv'
  BY <1>4 DEF Enter, Return
<1>5. ASSUME NEW c \in Callers, Block(c) PROVE WaitInv'
  BY <1>5 DEF Block
<1>6. ASSUME NEW c \in Callers, Resume(c) PROVE WaitInv'
  BY <1>6 DEF Resume, TestPredicate, Return
<1>7. CASE PollExit \/ FlushTimer
  BY <1>7 DEF PollExit, FlushTimer, TakeSpans
<1>8. CASE PollRequests
  BY <1>8 DEF PollRequests, AfterFlush
<1>9. CASE PollFlush
  BY <1>9 DEF PollFlush, TakeSpans, AfterFlush
<1>10. CASE StoreConsumed
  BY <1>10 DEF StoreConsumed
<1>11. CASE StoreInactive
  BY <1>11 DEF StoreInactive
<1>12. CASE NotifyFlushed
  BY <1>12 DEF NotifyFlushed, Wakes
<1>13. CASE NotifyInactive
  BY <1>13 DEF NotifyInactive, Wakes
<1>14. CASE NotifyExit
  BY <1>14 DEF NotifyExit, Wakes
<1>15. CASE PollShutdown \/ Deactivate
  BY <1>15 DEF PollShutdown, Deactivate
<1>16. CASE PrepareForFork \/ SetExit
  BY <1>16 DEF PrepareForFork, SetExit
<1>17. CASE OnForkedParent \/ OnForkedChild
  BY <1>17 DEF OnForkedParent, OnForkedChild, NewImpl
<1>18. CASE Finished \/ UNCHANGED vars
  BY <1>18 DEF Finished, vars
<1> QED
  BY <1>1, <1>2, <1>3, <1>4, <1>5, <1>6, <1>7, <1>8, <1>9, <1>10, <1>11,
     <1>12, <1>13, <1>14, <1>15, <1>16, <1>17, <1>18
  DEF Next, CallStep, LoopStep

LEMMA InvStep == IndInv /\ [Next]_vars => IndInv'
BY TypeStep, WaitStep DEF IndInv, WaitInv

-----------------------------------------------------------------------------
(* Theorems                                                                *)

\* The inductive invariant: types, no lost wakeup, no request swallowed.
THEOREM RecorderInvariant == Spec => []IndInv
BY InitInv, InvStep, PTL DEF Spec

\* NoLostWakeup: a thread that sleeps although what it waits for is there is
\* about to be notified (stream_recorder.cpp: Poll, FlushWithTimeout).
THEOREM WakeupsArrive == Spec => []NoLostWakeup
<1>1. IndInv => NoLostWakeup
  BY DEF IndInv
<1> QED
  BY <1>1, RecorderInvariant, PTL

\* NoRequestSwallowed: a request is there until a flush for it begins.
THEOREM RequestsAreServed == Spec => []NoRequestSwallowed
<1>1. IndInv => NoRequestSwallowed
  BY DEF IndInv
<1> QED
  BY <1>1, RecorderInvariant, PTL

\* FlushTruth: FlushWithTimeout returns true only if every span recorded
\* before the call has left the buffer.
THEOREM FlushTellsTruth == Spec => FlushTruth
<1>1. IndInv /\ [Next]_vars =>
        [\A c \in Callers :
           ReturnsTrue(c, "flush") => taken >= target[c]]_vars
  BY DEF IndInv, TypeOK, ReturnsTrue, Satisfied
<1> QED
  BY <1>1, RecorderInvariant, PTL DEF Spec, FlushTruth

\* ShutdownTruthUnforked: ShutdownWithTimeout returns true only if no
\* connection is active, in a recorder that has not been forked.
THEOREM ShutdownTellsTruth == Spec => ShutdownTruthUnforked
<1>1. IndInv /\ [Next]_vars =>
        [\A c \in Callers :
           ReturnsTrue(c, "shutdown") /\ forks = 0 => ~active]_vars
  BY DEF IndInv, InactiveIsSeen, ReturnsTrue, Satisfied
<1> QED
  BY <1>1, RecorderInvariant, PTL DEF Spec, ShutdownTruthUnforked
=============================================================================
