------------------------- MODULE SatelliteConnection -------------------------
(***************************************************************************)
(* The life of one connection: recorder/stream_recorder/                   *)
(* satellite_connection.cpp, driven by its streamer and by libevent.       *)
(*                                                                         *)
(* A connection is never closed for good before the recorder shuts down.   *)
(* While it streams, a reconnect timer ends every session after a while: a *)
(* terminal chunk is written, the satellite answers and closes, and the    *)
(* connection opens the next session.  A failure is answered with another  *)
(* attempt, at once or after a retry period.                               *)
(*                                                                         *)
(* A handler calls others (Flush calls HandleFailure, OnSocketError calls  *)
(* FreeSocket and Connect), and some of them may end in several ways.  So  *)
(* each method is an operator from the connection's state k to the set of  *)
(* states it can leave behind, or to the state if there is only one, and   *)
(* an action is one callback of the event loop.                            *)
(*                                                                         *)
(* A timer or event is a set: {} when it is not pending, {n} when it fires *)
(* n ticks from now.  Time passes only while nothing is due.               *)
(***************************************************************************)
EXTENDS Naturals, Sequences

CONSTANTS
  RetryPeriod,      \* satellite_failure_retry_period
  WriteTimeout,     \* satellite_write_timeout
  GracefulTimeout,  \* satellite_graceful_stream_shutdown_timeout
  MinReconnect,     \* min_satellite_reconnect_period
  MaxReconnect      \* max_satellite_reconnect_period

ASSUME PeriodsAssumption ==
  /\ {RetryPeriod, WriteTimeout, GracefulTimeout, MinReconnect, MaxReconnect}
       \subseteq Nat \ {0}
  /\ MinReconnect <= MaxReconnect

VARIABLES
  started,  \* OnEndpointManagerReady has been called
  k         \* the connection: the fields below

vars == <<started, k>>

\* No session lasts longer than this if it is ended by its reconnect timer.
MaxAge == MaxReconnect + GracefulTimeout

NewConnection ==
  [socket    |-> FALSE,  \* socket_ is open
   read      |-> FALSE,  \* read_event_ is pending (it has no timeout)
   write     |-> {},     \* write_event_, with its timeout
   reconnect |-> {},     \* reconnect_timer_
   graceful  |-> {},     \* graceful_shutdown_timeout_
   retries   |-> << >>,  \* the calls of Connect asked for with OnTimeout
   writable  |-> FALSE,  \* writable_
   begun     |-> FALSE,  \* some of connection_stream_ has been written
   closing   |-> FALSE,  \* connection_stream_.shutting_down()
   completed |-> FALSE,  \* connection_stream_.completed()
   line      |-> "",     \* status_line_parser_, see Parse
   isShuttingDown |-> FALSE,
   wasShutdown    |-> FALSE,
   age       |-> 0,      \* history: ticks since the session was opened
   revived   |-> FALSE]  \* history: a session was opened during shutdown

Init ==
  /\ started = FALSE
  /\ k = NewConnection

-----------------------------------------------------------------------------
(* The methods                                                             *)

\* Mutant: the reconnect timer of the old session keeps running.
FreeSocketKeepsTimer(s) ==
  [s EXCEPT !.socket = FALSE, !.read = FALSE, !.write = {},
            !.graceful = {}, !.writable = FALSE,
            !.begun = FALSE, !.closing = FALSE, !.completed = FALSE,
            !.line = ""]

\* FreeSocket: ConnectionStream::Reset makes the stream a fresh one.
FreeSocket(s) ==
  [s EXCEPT !.socket = FALSE, !.read = FALSE, !.write = {},
            !.reconnect = {}, !.graceful = {}, !.writable = FALSE,
            !.begun = FALSE, !.closing = FALSE, !.completed = FALSE,
            !.line = ""]

\* Mutant: no further attempt.
HandleFailureGivesUp(s) ==
  IF s.isShuttingDown
  THEN [FreeSocket(s) EXCEPT !.wasShutdown = TRUE]
  ELSE FreeSocket(s)

\* Mutant: a failure during the shutdown does not end it.
HandleFailureForgetsShutdown(s) ==
  IF s.isShuttingDown
  THEN FreeSocket(s)
  ELSE [FreeSocket(s) EXCEPT !.retries = Append(@, RetryPeriod)]

HandleFailure(s) ==
  IF s.isShuttingDown
  THEN [FreeSocket(s) EXCEPT !.wasShutdown = TRUE]
  ELSE [FreeSocket(s) EXCEPT !.retries = Append(@, RetryPeriod)]

\* Connect: on success ScheduleReconnect picks a random period.
Connect(s) ==
  {[s EXCEPT !.socket = TRUE, !.read = TRUE, !.write = {WriteTimeout},
             !.reconnect = {d}, !.age = 0, !.revived = @ \/ s.isShuttingDown] :
     d \in MinReconnect..MaxReconnect}
  \cup {HandleFailure(s)}

\* Flush: everything is written, a part is, or the write fails.
Flushed(s) ==
  [s EXCEPT !.writable = TRUE, !.begun = TRUE, !.completed = s.closing]

Flush(s) ==
  IF s.completed THEN {Flushed(s)}
  ELSE {Flushed(s), HandleFailure(s)} \cup
       {[s EXCEPT !.writable = FALSE, !.write = {WriteTimeout}, !.begun = b] :
          b \in {s.begun, TRUE}}

\* Mutant: when nothing could be flushed no timer is armed.
InitiateReconnectUntimed(s) ==
  LET closing == [s EXCEPT !.closing = TRUE]
  IN IF s.isShuttingDown THEN {s}
     ELSE IF s.writable
          THEN {[f EXCEPT !.graceful = {GracefulTimeout}] : f \in Flush(closing)}
          ELSE {closing}

\* InitiateReconnect: the graceful timer is armed however the flush ends.
InitiateReconnect(s) ==
  LET closing == [s EXCEPT !.closing = TRUE]
  IN IF s.isShuttingDown THEN {s}
     ELSE {[f EXCEPT !.graceful = {GracefulTimeout}] :
             f \in IF s.writable THEN Flush(closing) ELSE {closing}}

Reconnect(s) ==
  IF s.isShuttingDown
  THEN {[FreeSocket(s) EXCEPT !.wasShutdown = TRUE]}
  ELSE Connect(FreeSocket(s))

OnSocketError(s) == Connect(FreeSocket(s))

\* What StatusLineParser::Parse makes of more of the answer: nothing has come
\* (""), a part of the status line, or all of it.  It ignores the rest.
Parse(line) ==
  IF line \in {"200", "error"} THEN {line} ELSE {line, "part", "200", "error"}

-----------------------------------------------------------------------------
(* Calls from the streamer                                                 *)

\* OnEndpointManagerReady: some host has been resolved.
Start ==
  /\ ~started
  /\ started' = TRUE
  /\ k' \in Connect(k)

\* SatelliteStreamer::Flush picks this connection.
StreamerFlush ==
  /\ k.writable /\ ~k.closing
  /\ k' \in Flush(k)
  /\ UNCHANGED started

InitiateShutdown ==
  /\ ~k.isShuttingDown
  /\ k' \in {[s EXCEPT !.isShuttingDown = TRUE] : s \in InitiateReconnect(k)}
  /\ UNCHANGED started

-----------------------------------------------------------------------------
(* Callbacks of the event loop                                             *)

OnWritable ==
  /\ k.write # {}
  /\ k' \in Flush([k EXCEPT !.write = {}])
  /\ UNCHANGED started

OnWriteTimeout ==
  /\ 0 \in k.write
  /\ k' \in OnSocketError([k EXCEPT !.write = {}])
  /\ UNCHANGED started

(* OnReadable parses what has come, and then there is no more for now, the *)
(* satellite has closed, or reading fails.                                 *)

OnReadable ==
  /\ k.read
  /\ \E line \in Parse(k.line) : k' = [k EXCEPT !.line = line]
  /\ UNCHANGED started

\* It answered 200 and closed, after the terminal chunk.
OnResponse ==
  /\ k.read /\ k.completed
  /\ "200" \in Parse(k.line)
  /\ k' \in Reconnect([k EXCEPT !.read = FALSE])
  /\ UNCHANGED started

\* It closed early, answered something else or nothing, or reading failed.
OnReadError ==
  /\ k.read
  /\ k' \in OnSocketError([k EXCEPT !.read = FALSE])
  /\ UNCHANGED started

\* The status line is complete and has no code: ParseFields throws.
OnBadStatusLine ==
  /\ k.read /\ k.line \in {"", "part"}
  /\ k' = HandleFailure([k EXCEPT !.read = FALSE])
  /\ UNCHANGED started

OnReconnectTimer ==
  /\ 0 \in k.reconnect
  /\ k' \in InitiateReconnect([k EXCEPT !.reconnect = {}])
  /\ UNCHANGED started

GracefulShutdownTimeout ==
  /\ 0 \in k.graceful
  /\ k' \in Reconnect([k EXCEPT !.graceful = {}])
  /\ UNCHANGED started

OnRetryTimer ==
  /\ \E i \in DOMAIN k.retries :
       /\ k.retries[i] = 0
       /\ k' \in Connect([k EXCEPT !.retries =
            SubSeq(@, 1, i - 1) \o SubSeq(@, i + 1, Len(@))])
  /\ UNCHANGED started

Due ==
  \/ 0 \in k.write \cup k.reconnect \cup k.graceful
  \/ \E i \in DOMAIN k.retries : k.retries[i] = 0

Less(T) == {n - 1 : n \in T}

Tick ==
  /\ ~Due
  /\ k' = [k EXCEPT !.write = Less(@), !.reconnect = Less(@),
                    !.graceful = Less(@),
                    !.retries = [i \in DOMAIN @ |-> @[i] - 1],
                    !.age = IF k.socket /\ @ <= MaxAge THEN @ + 1 ELSE @]
  /\ UNCHANGED started

Timers == OnWriteTimeout \/ OnReconnectTimer \/ GracefulShutdownTimeout
          \/ OnRetryTimer

Next ==
  \/ Start \/ StreamerFlush \/ InitiateShutdown
  \/ OnWritable \/ OnReadable \/ OnResponse \/ OnReadError \/ OnBadStatusLine
  \/ OnWriteTimeout \/ OnReconnectTimer \/ GracefulShutdownTimeout
  \/ OnRetryTimer \/ Tick

Spec == Init /\ [][Next]_vars

(***************************************************************************)
(* The event loop runs what is due, and time passes.  An attempt to        *)
(* connect does not fail every time (only needed for Reconnects).          *)
(***************************************************************************)
LoopFairness == WF_vars(Timers) /\ WF_vars(Tick)

FairSpec ==
  Spec /\ LoopFairness /\ SF_vars(OnRetryTimer /\ k'.socket)

-----------------------------------------------------------------------------
(* Invariants                                                              *)

States ==
  [socket : BOOLEAN, read : BOOLEAN,
   write : SUBSET (0..WriteTimeout),
   reconnect : SUBSET (0..MaxReconnect),
   graceful : SUBSET (0..GracefulTimeout),
   retries : Seq(0..RetryPeriod),
   writable : BOOLEAN, begun : BOOLEAN, closing : BOOLEAN, completed : BOOLEAN,
   line : {"", "part", "200", "error"},
   isShuttingDown : BOOLEAN, wasShutdown : BOOLEAN,
   age : 0..(MaxAge + 1), revived : BOOLEAN]

TypeOK ==
  /\ started \in BOOLEAN
  /\ k \in States

(***************************************************************************)
(* While a session is open it is always waiting for the socket: it can be  *)
(* read, and unless it may be flushed at once its write event is pending,  *)
(* so a blocked or silent satellite is noticed.  No event outlives its     *)
(* socket, and neither does what is remembered of a request or an answer,   *)
(* so no session is judged by the answer to another one.                   *)
(***************************************************************************)
EventsMatchSocket ==
  /\ k.read = k.socket
  /\ (k.write # {}) = (k.socket /\ ~k.writable)
  /\ k.writable \/ k.reconnect # {} \/ k.begun \/ k.completed \/ k.line # ""
       => k.socket

(***************************************************************************)
(* A connection that was started is never forgotten: without a session it  *)
(* has a timer that opens one or ends the shutdown, and with a session     *)
(* there is a timer that will end it or a graceful shutdown in progress.   *)
(***************************************************************************)
NeverForgotten ==
  started /\ ~k.wasShutdown =>
    /\ ~k.socket => k.retries # << >>
    /\ k.socket /\ ~k.isShuttingDown => k.reconnect # {} \/ k.graceful # {}

(***************************************************************************)
(* Attempts to connect do not pile up: there is never a second retry, nor  *)
(* one that would replace the socket of an open session.                   *)
(***************************************************************************)
OneAttempt ==
  /\ Len(k.retries) <= 1
  /\ k.socket => k.retries = << >>

\* A graceful timer may outlive its socket (InitiateReconnect arms it although
\* the flush failed), but it never fires before the retry that is pending.
RetryComesFirst ==
  \A i \in DOMAIN k.retries : \A n \in k.graceful : k.retries[i] < n

\* The reconnect timer, and after it the graceful one, ends a session in time.
Deadlines ==
  k.socket /\ ~k.isShuttingDown =>
    /\ \A n \in k.reconnect : k.age + n <= MaxReconnect
    /\ k.reconnect = {} => \A n \in k.graceful : k.age + n <= MaxAge

\* Only a shutdown ends a connection, and it has nothing to end before Start.
Phases ==
  /\ k.wasShutdown => k.isShuttingDown
  /\ ~started => /\ ~k.socket /\ k.retries = << >>
                 /\ k.graceful # {} => k.isShuttingDown

\* The inductive invariant: what holds of a connection between two callbacks.
IndInv ==
  /\ TypeOK
  /\ EventsMatchSocket
  /\ NeverForgotten
  /\ OneAttempt
  /\ RetryComesFirst
  /\ Deadlines
  /\ Phases

(***************************************************************************)
(* Sessions are reestablished: until the shutdown none lasts longer than   *)
(* the longest reconnect period and the graceful timeout together.         *)
(***************************************************************************)
SessionBounded == k.socket /\ ~k.isShuttingDown => k.age <= MaxAge

-----------------------------------------------------------------------------
(* Liveness                                                                *)

(***************************************************************************)
(* A connection that lost its session gets another, or is shut down.       *)
(***************************************************************************)
Reconnects == started /\ ~k.socket ~> k.socket \/ k.isShuttingDown

(***************************************************************************)
(* A shutdown ends, unless a session is opened after it has begun: after   *)
(* an error OnSocketError connects again, and that session's reconnect     *)
(* timer takes the shutdown for one that is scheduled.                     *)
(***************************************************************************)
ShutdownEnds == k.isShuttingDown ~> k.wasShutdown \/ k.revived
=============================================================================
