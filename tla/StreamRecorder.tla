--------------------------- MODULE StreamRecorder ---------------------------
(***************************************************************************)
(* How threads wait for the recorder's thread: recorder/stream_recorder/   *)
(* stream_recorder.cpp and stream_recorder_impl.cpp.                       *)
(*                                                                         *)
(* A caller of FlushWithTimeout or ShutdownWithTimeout leaves a request in *)
(* an atomic counter and waits on a condition variable.  The recorder's    *)
(* thread runs an event loop; its poll timer picks up the requests, does   *)
(* the work, and wakes the callers after storing the outcome under the     *)
(* mutex of the condition variable.  PrepareForFork and the destructor     *)
(* stop the loop and join its thread.  After a fork a new implementation,  *)
(* with new connections, serves the same recorder in either process: this  *)
(* module follows one of them.  As the comment on ForkAwareRecorder asks,  *)
(* nobody else uses the recorder while its owner forks.                    *)
(*                                                                         *)
(* A step is a critical section, or an access to shared memory outside of  *)
(* one.  What the connections do is left open: a flush takes any number of *)
(* the buffered spans, and connections told to shut down close some time.  *)
(***************************************************************************)
EXTENDS Naturals

CONSTANTS
  Callers,     \* the threads that wait
  MaxSize,     \* max_size of the span buffer
  EarlyFlush,  \* early_flush_marker_
  MaxSpans,    \* bound: spans recorded
  MaxForks,    \* bound: forks
  Free         \* a mutex nobody holds

ASSUME RecorderAssumption ==
  /\ {MaxSize, EarlyFlush, MaxSpans, MaxForks} \subseteq Nat
  /\ Free \notin Callers

Kinds == {"flush", "shutdown"}

VARIABLES
  produced,    \* production_count of the span buffer
  taken,       \* consumption_count of the span buffer
  consumed,    \* num_spans_consumed_
  lastActive,  \* last_is_active_
  requests,    \* which of pending_flush_counter_, shutdown_counter_ are > 0
  mutex,       \* who holds flush_mutex_ and shutdown_mutex_
  pc,          \* pc[c]: where c stands in its call
  kind,        \* kind[c]: which call that is
  target,      \* target[c]: num_spans_produced
  loop,        \* where the event loop stands in Poll
  active,      \* some connection is active (StreamRecorderImpl::is_active)
  closing,     \* the connections have been told to shut down
  owner,       \* the thread that forks and in the end destroys the recorder
  forks,       \* forks so far
  unserved     \* history: callers for whom the loop has not flushed yet

spanVars == <<produced, taken, consumed>>
callVars == <<mutex, pc, kind, target>>
connectionVars == <<active, closing>>
ownerVars == <<owner, forks>>
vars == <<spanVars, lastActive, requests, callVars, loop, connectionVars,
          ownerVars, unserved>>

exit == owner \in {"exiting", "joining"}       \* StreamRecorder::exit_
implExit == owner \in {"forking", "joining"}   \* StreamRecorderImpl::exit_

Init ==
  /\ produced = 0 /\ taken = 0 /\ consumed = 0
  /\ lastActive = TRUE
  /\ requests = {}
  /\ mutex = [k \in Kinds |-> Free]
  /\ pc     = [c \in Callers |-> "idle"]
  /\ kind   = [c \in Callers |-> "flush"]
  /\ target = [c \in Callers |-> 0]
  /\ loop = "idle"
  /\ active = TRUE
  /\ closing = FALSE
  /\ owner = "running"
  /\ forks = 0
  /\ unserved = {}

-----------------------------------------------------------------------------
(* The threads that use the recorder                                       *)

\* RecordSpan, if there is room (else the span is dropped).
RecordSpan ==
  /\ owner = "running"
  /\ produced < MaxSpans
  /\ produced - taken < MaxSize
  /\ produced' = produced + 1
  /\ UNCHANGED <<taken, consumed, lastActive, requests, callVars, loop,
                 connectionVars, ownerVars, unserved>>

\* FlushWithTimeout reads the number of spans before it takes the mutex.
Begin(c, k) ==
  /\ owner = "running"
  /\ pc[c] = "idle"
  /\ pc'     = [pc EXCEPT ![c] = "lock"]
  /\ kind'   = [kind EXCEPT ![c] = k]
  /\ target' = [target EXCEPT ![c] = IF k = "flush" THEN produced ELSE 0]
  /\ UNCHANGED <<spanVars, lastActive, requests, mutex, loop,
                 connectionVars, ownerVars, unserved>>

Satisfied(c) ==
  IF kind[c] = "flush" THEN consumed >= target[c] ELSE ~lastActive

\* The call returns Satisfied(c).  An idle caller has no kind and no target.
Return(c) ==
  /\ pc'     = [pc EXCEPT ![c] = "idle"]
  /\ kind'   = [kind EXCEPT ![c] = "flush"]
  /\ target' = [target EXCEPT ![c] = 0]
  /\ UNCHANGED mutex

\* The predicate of wait_for, evaluated with the mutex held.
TestPredicate(c) ==
  IF exit \/ Satisfied(c)
  THEN /\ Return(c)
       /\ unserved' = unserved \ {c}
  ELSE /\ mutex' = [mutex EXCEPT ![kind[c]] = c]
       /\ pc'    = [pc EXCEPT ![c] = "block"]
       /\ UNCHANGED <<kind, target, unserved>>

\* The first critical section; a flush with nothing to wait for is no request.
Enter(c) ==
  /\ pc[c] = "lock"
  /\ mutex[kind[c]] = Free
  /\ IF kind[c] = "flush" /\ Satisfied(c)
     THEN /\ Return(c)
          /\ UNCHANGED <<requests, unserved>>
     ELSE /\ requests' = requests \cup {kind[c]}
          /\ IF exit \/ Satisfied(c)
             THEN Return(c) /\ UNCHANGED unserved
             ELSE /\ mutex' = [mutex EXCEPT ![kind[c]] = c]
                  /\ pc'    = [pc EXCEPT ![c] = "block"]
                  /\ unserved' = unserved \cup
                       {d \in {c} : kind[d] = "flush"}
                  /\ UNCHANGED <<kind, target>>
  /\ UNCHANGED <<spanVars, lastActive, loop, connectionVars, ownerVars>>

\* Blocking on the condition variable releases the mutex.
Block(c) ==
  /\ pc[c] = "block"
  /\ pc'    = [pc EXCEPT ![c] = "waiting"]
  /\ mutex' = [mutex EXCEPT ![kind[c]] = Free]
  /\ UNCHANGED <<spanVars, lastActive, requests, kind, target, loop,
                 connectionVars, ownerVars, unserved>>

\* Notified, or woken for no reason: the predicate is tested again.
Resume(c) ==
  /\ pc[c] \in {"woken", "waiting"}
  /\ mutex[kind[c]] = Free
  /\ TestPredicate(c)
  /\ UNCHANGED <<spanVars, lastActive, requests, loop, connectionVars,
                 ownerVars>>

\* Time is up: wait_for returns the predicate, whatever it is.
TimeOut(c) ==
  /\ pc[c] = "waiting"
  /\ mutex[kind[c]] = Free
  /\ Return(c)
  /\ unserved' = unserved \ {c}
  /\ UNCHANGED <<spanVars, lastActive, requests, loop, connectionVars,
                 ownerVars>>

Wakes(Ks) ==
  pc' = [c \in Callers |->
           IF pc[c] = "waiting" /\ kind[c] \in Ks THEN "woken" ELSE pc[c]]

-----------------------------------------------------------------------------
(* The event loop                                                          *)

\* Flush of the implementation: the connections take what they can.
TakeSpans(atLeast) == \E n \in (taken + atLeast)..produced : taken' = n

\* The flush timer, or a socket that became writable.
FlushTimer ==
  /\ loop = "idle"
  /\ TakeSpans(1)
  /\ UNCHANGED <<produced, consumed, lastActive, requests, callVars, loop,
                 connectionVars, ownerVars, unserved>>

\* The last connection is shut down.
Deactivate ==
  /\ loop = "idle"
  /\ active /\ closing
  /\ active' = FALSE
  /\ UNCHANGED <<spanVars, lastActive, requests, callVars, loop, closing,
                 ownerVars, unserved>>

\* Poll when the implementation is told to exit: one more flush, then stop.
PollExit ==
  /\ loop = "idle" /\ implExit
  /\ TakeSpans(0)
  /\ unserved' = {}
  /\ loop' = "stopped"
  /\ UNCHANGED <<produced, consumed, lastActive, requests, callVars,
                 connectionVars, ownerVars>>

\* Only this thread writes num_spans_consumed_: Poll may read it unlocked.
AfterFlush == loop' = IF taken' > consumed THEN "store" ELSE "shutdown"

PollRequests ==
  /\ loop = "idle" /\ ~implExit
  /\ requests' = requests \ {"flush"}
  /\ UNCHANGED spanVars
  /\ IF "flush" \in requests \/ produced - taken > EarlyFlush
     THEN loop' = "flush" ELSE AfterFlush
  /\ UNCHANGED <<lastActive, callVars, connectionVars, ownerVars, unserved>>

PollFlush ==
  /\ loop = "flush"
  /\ TakeSpans(0)
  /\ AfterFlush
  /\ unserved' = {}
  /\ UNCHANGED <<produced, consumed, lastActive, requests, callVars,
                 connectionVars, ownerVars>>

\* Mutant: the outcome is stored without the mutex.
StoreConsumedUnlocked ==
  /\ loop = "store"
  /\ consumed' = taken
  /\ loop' = "notify"
  /\ UNCHANGED <<produced, taken, lastActive, requests, callVars,
                 connectionVars, ownerVars, unserved>>

StoreConsumed ==
  /\ loop = "store"
  /\ mutex["flush"] = Free
  /\ consumed' = taken
  /\ loop' = "notify"
  /\ UNCHANGED <<produced, taken, lastActive, requests, callVars,
                 connectionVars, ownerVars, unserved>>

\* Mutant: notify_one.
NotifyOneFlushed ==
  /\ loop = "notify"
  /\ \/ \E c \in Callers :
          /\ pc[c] = "waiting" /\ kind[c] = "flush"
          /\ pc' = [pc EXCEPT ![c] = "woken"]
     \/ Wakes({"flush"}) /\ pc' = pc
  /\ loop' = "shutdown"
  /\ UNCHANGED <<spanVars, lastActive, requests, mutex, kind, target,
                 connectionVars, ownerVars, unserved>>

NotifyFlushed ==
  /\ loop = "notify"
  /\ Wakes({"flush"})
  /\ loop' = "shutdown"
  /\ UNCHANGED <<spanVars, lastActive, requests, mutex, kind, target,
                 connectionVars, ownerVars, unserved>>

\* Mutant: connections that were told to shut down count as inactive.
PollShutdownTooSoon ==
  /\ loop = "shutdown"
  /\ requests' = requests \ {"shutdown"}
  /\ closing' = (closing \/ "shutdown" \in requests)
  /\ loop' = IF lastActive /\ closing' THEN "storeActive" ELSE "idle"
  /\ UNCHANGED <<spanVars, lastActive, callVars, active, ownerVars, unserved>>

PollShutdown ==
  /\ loop = "shutdown"
  /\ requests' = requests \ {"shutdown"}
  /\ closing' = (closing \/ "shutdown" \in requests)
  /\ loop' = IF lastActive /\ ~active THEN "storeActive" ELSE "idle"
  /\ UNCHANGED <<spanVars, lastActive, callVars, active, ownerVars, unserved>>

StoreInactive ==
  /\ loop = "storeActive"
  /\ mutex["shutdown"] = Free
  /\ lastActive' = FALSE
  /\ loop' = "notifyActive"
  /\ UNCHANGED <<spanVars, requests, callVars, connectionVars, ownerVars,
                 unserved>>

NotifyInactive ==
  /\ loop = "notifyActive"
  /\ Wakes({"shutdown"})
  /\ loop' = "idle"
  /\ UNCHANGED <<spanVars, lastActive, requests, mutex, kind, target,
                 connectionVars, ownerVars, unserved>>

-----------------------------------------------------------------------------
(* Forks and the destructor                                                *)

\* The destructor of the implementation, which joins the loop's thread.
PrepareForFork ==
  /\ owner = "running"
  /\ forks < MaxForks
  /\ \A c \in Callers : pc[c] = "idle"
  /\ owner' = "forking"
  /\ UNCHANGED <<spanVars, lastActive, requests, callVars, loop,
                 connectionVars, forks, unserved>>

\* A new implementation: all its connections are active.
NewImpl ==
  /\ owner = "forking" /\ loop = "stopped"
  /\ owner' = "running"
  /\ forks' = forks + 1
  /\ loop' = "idle"
  /\ active' = TRUE
  /\ closing' = FALSE

OnForkedParent ==
  /\ NewImpl
  /\ UNCHANGED <<spanVars, lastActive, requests, callVars, unserved>>

\* Mutant: the child keeps the parent's spans, and counts them as flushed.
OnForkedChildKeepsSpans ==
  /\ NewImpl
  /\ consumed' = produced
  /\ requests' = requests \ {"flush"}
  /\ UNCHANGED <<produced, taken, lastActive, callVars, unserved>>

\* The spans in the buffer are the parent's to send.
OnForkedChild ==
  /\ NewImpl
  /\ taken' = produced
  /\ consumed' = produced
  /\ requests' = requests \ {"flush"}
  /\ UNCHANGED <<produced, lastActive, callVars, unserved>>

\* ~StreamRecorder sets exit_ with both mutexes held...
SetExit ==
  /\ owner = "running"
  /\ \A k \in Kinds : mutex[k] = Free
  /\ owner' = "exiting"
  /\ UNCHANGED <<spanVars, lastActive, requests, callVars, loop,
                 connectionVars, forks, unserved>>

\* ...then wakes everybody, and stops the implementation.
NotifyExit ==
  /\ owner = "exiting"
  /\ Wakes(Kinds)
  /\ owner' = "joining"
  /\ UNCHANGED <<spanVars, lastActive, requests, mutex, kind, target,
                 loop, connectionVars, forks, unserved>>

-----------------------------------------------------------------------------
CallStep(c) == Enter(c) \/ Block(c) \/ Resume(c)

LoopStep ==
  \/ PollExit \/ PollRequests \/ PollFlush
  \/ StoreConsumed \/ NotifyFlushed
  \/ PollShutdown \/ StoreInactive \/ NotifyInactive

\* The recorder is destroyed.
Finished ==
  /\ owner = "joining" /\ loop = "stopped"
  /\ \A c \in Callers : pc[c] = "idle"
  /\ UNCHANGED vars

Next ==
  \/ RecordSpan
  \/ \E c \in Callers : \/ \E k \in Kinds : Begin(c, k)
                        \/ TimeOut(c)
  \/ \E c \in Callers : CallStep(c)
  \/ LoopStep
  \/ FlushTimer \/ Deactivate
  \/ PrepareForFork \/ OnForkedParent \/ OnForkedChild
  \/ SetExit \/ NotifyExit
  \/ Finished

Spec == Init /\ [][Next]_vars

(***************************************************************************)
(* The threads run, the poll timer fires, a mutex that is free again and   *)
(* again is obtained.  Satellites accept everything in the end and         *)
(* connections told to shut down do.  Timeouts need not fire: no call      *)
(* depends on its timeout to return.                                       *)
(***************************************************************************)
FairSpec ==
  /\ Spec
  /\ \A c \in Callers : SF_vars(CallStep(c) /\ pc[c] # "waiting")
  /\ SF_vars(LoopStep)
  /\ SF_vars(FlushTimer /\ taken' = produced) /\ SF_vars(Deactivate)
  /\ WF_vars(NotifyExit)

-----------------------------------------------------------------------------
(* Properties                                                              *)

TypeOK ==
  /\ taken \in 0..produced /\ consumed \in 0..taken /\ produced \in 0..MaxSpans
  /\ {lastActive, active, closing} \subseteq BOOLEAN
  /\ requests \subseteq Kinds
  /\ mutex \in [Kinds -> Callers \cup {Free}]
  /\ pc \in [Callers -> {"idle", "lock", "block", "waiting", "woken"}]
  /\ kind \in [Callers -> Kinds]
  /\ target \in [Callers -> 0..MaxSpans]
  /\ loop \in {"idle", "flush", "store", "notify", "shutdown",
               "storeActive", "notifyActive", "stopped"}
  /\ owner \in {"running", "forking", "exiting", "joining"}
  /\ forks \in 0..MaxForks
  /\ unserved \subseteq Callers

(***************************************************************************)
(* No lost wakeup: a thread that sleeps although what it waits for is      *)
(* there is about to be notified.                                          *)
(***************************************************************************)
NoLostWakeup ==
  \A c \in Callers : pc[c] = "waiting" =>
    /\ Satisfied(c) => loop = IF kind[c] = "flush" THEN "notify"
                                                   ELSE "notifyActive"
    /\ exit => owner = "exiting"

(***************************************************************************)
(* No request is swallowed: until the loop has flushed after a caller of   *)
(* FlushWithTimeout began to wait, its request is still counted or the     *)
(* flush is about to begin.                                                *)
(***************************************************************************)
NoRequestSwallowed == unserved # {} => "flush" \in requests \/ loop = "flush"

\* A thread between its test and its sleep holds the mutex; what it waits for
\* is not there yet, and cannot arrive before it sleeps.
BlockedIsUnsatisfied ==
  /\ \A j \in Kinds, c \in Callers :
       mutex[j] = c => pc[c] = "block" /\ kind[c] = j
  /\ \A c \in Callers : pc[c] = "block" =>
       mutex[kind[c]] = c /\ ~Satisfied(c) /\ ~exit

\* Nobody is in a call while the recorder forks.
ForksQuietly ==
  owner = "forking" => forks < MaxForks /\ \A c \in Callers : pc[c] = "idle"

\* Only callers that wait are unserved.
UnservedWait == \A c \in unserved : pc[c] \in {"block", "waiting", "woken"}

\* Until a fork, what callers and the loop know of the connections is true.
InactiveIsSeen ==
  /\ loop = "storeActive" => ~active
  /\ forks = 0 /\ ~lastActive => ~active

\* The inductive invariant.
IndInv ==
  /\ TypeOK
  /\ BlockedIsUnsatisfied
  /\ ForksQuietly
  /\ NoLostWakeup
  /\ UnservedWait
  /\ NoRequestSwallowed
  /\ InactiveIsSeen

\* In this step c's call of kind k returns true.
ReturnsTrue(c, k) ==
  pc[c] # "idle" /\ pc'[c] = "idle" /\ kind[c] = k /\ Satisfied(c)

(***************************************************************************)
(* recorder.h, "@return true if the flush was completed": when             *)
(* FlushWithTimeout returns true, every span recorded before the call has  *)
(* left the buffer, though the outcome was computed by another thread.     *)
(***************************************************************************)
FlushTruth ==
  [][\A c \in Callers :
       ReturnsTrue(c, "flush") => taken >= target[c]]_vars

(***************************************************************************)
(* recorder.h, "Block until the recorder cleanly shuts down its            *)
(* connections to satellites. ... @return true if the shutdown was         *)
(* completed."  So it is until the recorder is forked; the new connections *)
(* that follow a fork are not looked at when a shutdown ended before it.   *)
(***************************************************************************)
ShutdownTruthUnforked ==
  [][\A c \in Callers :
       ReturnsTrue(c, "shutdown") /\ forks = 0 => ~active]_vars

(***************************************************************************)
(* Calls return although no timeout fires: those that wait for a flush or  *)
(* a shutdown, also while the recorder is destroyed, and the destructor of *)
(* the implementation that PrepareForFork and ~StreamRecorder wait for.    *)
(***************************************************************************)
CallsReturn ==
  /\ \A c \in Callers : pc[c] # "idle" ~> pc[c] = "idle"
  /\ implExit ~> loop = "stopped"
=============================================================================
