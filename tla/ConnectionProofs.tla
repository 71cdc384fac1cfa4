-------------------------- MODULE ConnectionProofs --------------------------
(***************************************************************************)
(* Proofs about a connection to a satellite: first its control side, the   *)
(* sessions and timers of SatelliteConnection, then its data side, the     *)
(* requests, spans and drop counts of ConnectionStreams.                   *)
(***************************************************************************)
EXTENDS SatelliteConnection, ConnectionStreams, SequenceTheorems, TLAPS

(***************************************************************************)
(* SatelliteConnection, for any periods.  A callback is a composition of   *)
(* FreeSocket, HandleFailure, Connect, Flush and InitiateReconnect, so the *)
(* invariant is split into predicates of the state s of a connection, and  *)
(* there is a lemma for each of these methods about what it leaves behind. *)
(***************************************************************************)
-----------------------------------------------------------------------------
(* The parts of the invariant.                                             *)

\* What is true of a connection whatever the periods are.
NoLeftovers(s) ==
  s.read \/ s.write # {} \/ s.writable \/ s.reconnect # {} \/ s.begun
    \/ s.completed \/ s.line # "" => s.socket

Ends(s) == s.wasShutdown => s.isShuttingDown

InTime(s) ==
  s.socket /\ ~s.isShuttingDown =>
    /\ \A n \in s.reconnect : s.age + n <= MaxReconnect
    /\ s.reconnect = {} => \A n \in s.graceful : s.age + n <= MaxAge

Sane(s) == s \in States /\ NoLeftovers(s) /\ Ends(s)

Retrying(s) == ~s.wasShutdown /\ ~s.socket => s.retries # << >>

Watched(s) ==
  ~s.wasShutdown /\ s.socket /\ ~s.isShuttingDown =>
    s.reconnect # {} \/ s.graceful # {}

Unstarted(s) ==
  ~s.socket /\ s.retries = << >> /\ (s.graceful # {} => s.isShuttingDown)

\* What is true of it if the retry period is shorter than the graceful timeout.
Listening(s) ==
  /\ s.read = s.socket
  /\ (s.write # {}) = (s.socket /\ ~s.writable)

Single(s) ==
  /\ Len(s.retries) <= 1
  /\ s.socket => s.retries = << >>
  /\ \A i \in DOMAIN s.retries : \A n \in s.graceful : s.retries[i] < n

\* The invariant for any periods: what a handler must leave behind.
Kept(b, s) ==
  /\ Sane(s) /\ InTime(s)
  /\ b => Retrying(s) /\ Watched(s)
  /\ ~b => Unstarted(s)

AnyInv == started \in BOOLEAN /\ Kept(started, k)

\* Keeps(b, t): a callback made of the connection k the connection t.
Keeps(b, t) ==
  /\ Kept(b, t)
  /\ RetryPeriod < GracefulTimeout /\ Listening(k) /\ Single(k) =>
       Listening(t) /\ Single(t)

LEMMA IndInvParts == IndInv <=> AnyInv /\ Listening(k) /\ Single(k)
<1>1. IndInv => AnyInv /\ Listening(k) /\ Single(k)
  BY DEF IndInv, TypeOK, EventsMatchSocket, NeverForgotten, OneAttempt,
         RetryComesFirst, Deadlines, Phases, AnyInv, Kept, Sane, NoLeftovers, Ends,
         InTime, Retrying, Watched, Unstarted, Listening, Single, States
<1>2. AnyInv /\ Listening(k) /\ Single(k) => IndInv
  BY DEF IndInv, TypeOK, EventsMatchSocket, NeverForgotten, OneAttempt,
         RetryComesFirst, Deadlines, Phases, AnyInv, Kept, Sane, NoLeftovers, Ends,
         InTime, Retrying, Watched, Unstarted, Listening, Single
<1> QED BY <1>1, <1>2

LEMMA Periods ==
  /\ RetryPeriod \in Nat \ {0} /\ WriteTimeout \in Nat \ {0}
  /\ GracefulTimeout \in Nat \ {0} /\ MinReconnect \in Nat \ {0}
  /\ MaxReconnect \in Nat \ {0} /\ MaxAge \in Nat
  /\ MinReconnect <= MaxReconnect /\ MaxReconnect <= MaxAge
  /\ MaxReconnect + GracefulTimeout = MaxAge
<1>1. /\ RetryPeriod \in Nat \ {0} /\ WriteTimeout \in Nat \ {0}
      /\ GracefulTimeout \in Nat \ {0} /\ MinReconnect \in Nat \ {0}
      /\ MaxReconnect \in Nat \ {0} /\ MinReconnect <= MaxReconnect
  BY PeriodsAssumption
<1> QED BY <1>1 DEF MaxAge

-----------------------------------------------------------------------------
(* The methods.                                                            *)

\* FreeSocket leaves nothing of the session, and the rest as it was.
LEMMA FreeSocketFields ==
  ASSUME NEW s \in States, NEW f, f = FreeSocket(s)
  PROVE  /\ f \in States
         /\ f.socket = FALSE /\ f.read = FALSE /\ f.write = {} /\ f.reconnect = {}
         /\ f.graceful = {} /\ ~f.writable /\ ~f.begun /\ ~f.closing
         /\ ~f.completed /\ f.line = ""
         /\ f.retries = s.retries /\ f.age = s.age
         /\ f.isShuttingDown = s.isShuttingDown
         /\ f.wasShutdown = s.wasShutdown
  BY DEF FreeSocket, States

LEMMA FreeSocketSane ==
  ASSUME NEW s \in States, Ends(s), NEW f, f = FreeSocket(s)
  PROVE  Sane(f) /\ InTime(f)
  BY FreeSocketFields DEF Sane, NoLeftovers, Ends, InTime

\* HandleFailure frees the socket, and ends the shutdown or asks for a retry.
LEMMA HandleFailureFields ==
  ASSUME NEW s \in States, NEW f, f = HandleFailure(s)
  PROVE  /\ f \in States
         /\ f.socket = FALSE /\ f.read = FALSE /\ f.write = {} /\ f.reconnect = {}
         /\ f.graceful = {} /\ ~f.writable /\ ~f.begun
         /\ ~f.completed /\ f.line = ""
         /\ f.isShuttingDown = s.isShuttingDown
         /\ s.isShuttingDown => f.wasShutdown /\ f.retries = s.retries
         /\ ~s.isShuttingDown => /\ f.wasShutdown = s.wasShutdown
                                 /\ f.retries = Append(s.retries, RetryPeriod)
<1> DEFINE g == FreeSocket(s)
<1>1. /\ g \in States
      /\ g.socket = FALSE /\ g.read = FALSE /\ g.write = {} /\ g.reconnect = {}
      /\ g.graceful = {} /\ ~g.writable /\ ~g.begun
      /\ ~g.completed /\ g.line = "" /\ g.retries = s.retries
      /\ g.isShuttingDown = s.isShuttingDown
      /\ g.wasShutdown = s.wasShutdown
  BY FreeSocketFields
<1>2. f = IF s.isShuttingDown
          THEN [g EXCEPT !.wasShutdown = TRUE]
          ELSE [g EXCEPT !.retries = Append(g.retries, RetryPeriod)]
  BY DEF HandleFailure
<1> HIDE DEF g
<1>3. CASE s.isShuttingDown
  <2>1. f = [g EXCEPT !.wasShutdown = TRUE]
    BY <1>2, <1>3
  <2> QED BY <1>1, <1>3, <2>1, ZenonT(30) DEF States
<1>4. CASE ~s.isShuttingDown
  <2>1. g.retries \in Seq(0..RetryPeriod)
    BY <1>1 DEF States
  <2>2. RetryPeriod \in 0..RetryPeriod
    BY Periods
  <2>3. Append(g.retries, RetryPeriod) \in Seq(0..RetryPeriod)
    BY <2>1, <2>2
  <2>4. f = [g EXCEPT !.retries = Append(g.retries, RetryPeriod)]
    BY <1>2, <1>4
  <2> QED BY <1>1, <1>4, <2>3, <2>4, ZenonT(30) DEF States
<1> QED BY <1>3, <1>4

LEMMA HandleFailureSane ==
  ASSUME NEW s \in States, Ends(s), NEW f, f = HandleFailure(s)
  PROVE  /\ Sane(f) /\ InTime(f) /\ Retrying(f) /\ Watched(f)
         /\ Listening(f)
         /\ s.retries = << >> => Single(f)
<1>1. s.retries \in Seq(0..RetryPeriod)
  BY DEF States
<1>2. RetryPeriod \in 0..RetryPeriod
  BY Periods
<1>3. /\ Append(s.retries, RetryPeriod) # << >>
      /\ Len(Append(s.retries, RetryPeriod)) = Len(s.retries) + 1
  BY <1>1, <1>2, AppendProperties
<1>4. /\ f \in States
      /\ f.socket = FALSE /\ f.read = FALSE /\ f.write = {} /\ f.reconnect = {}
      /\ f.graceful = {} /\ ~f.writable /\ ~f.begun
      /\ ~f.completed /\ f.line = ""
      /\ f.isShuttingDown = s.isShuttingDown
      /\ s.isShuttingDown => f.wasShutdown /\ f.retries = s.retries
      /\ ~s.isShuttingDown => /\ f.wasShutdown = s.wasShutdown
                              /\ f.retries = Append(s.retries, RetryPeriod)
  BY HandleFailureFields
<1>5. Sane(f) /\ InTime(f)
  BY <1>4 DEF Sane, NoLeftovers, Ends, InTime
<1>6. Retrying(f) /\ Watched(f)
  BY <1>3, <1>4 DEF Ends, Retrying, Watched
<1>7. Listening(f)
  BY <1>4 DEF Listening
<1>8. ASSUME s.retries = << >>
      PROVE  Single(f)
  <2>1. ~f.socket /\ f.graceful = {}
    BY <1>4
  <2>2. f.retries = s.retries \/ f.retries = Append(s.retries, RetryPeriod)
    BY <1>4
  <2>3. Len(s.retries) = 0
    BY <1>8
  <2>4. Len(f.retries) <= 1
    BY <1>3, <2>2, <2>3
  <2> QED BY <2>1, <2>4 DEF Single
<1> QED BY <1>5, <1>6, <1>7, <1>8

\* Connect opens a session with all its timers, or fails.
LEMMA ConnectSane ==
  ASSUME NEW s \in States, Ends(s), NEW t \in Connect(s)
  PROVE  /\ Sane(t) /\ InTime(t) /\ Retrying(t) /\ Watched(t)
         /\ ~s.writable /\ s.retries = << >> => Listening(t) /\ Single(t)
<1>1. CASE t = HandleFailure(s)
  BY <1>1, HandleFailureSane
<1>2. ASSUME NEW d \in MinReconnect..MaxReconnect,
             t = [s EXCEPT !.socket = TRUE, !.read = TRUE, !.write = {WriteTimeout},
                           !.reconnect = {d}, !.age = 0,
                           !.revived = @ \/ s.isShuttingDown]
      PROVE  /\ Sane(t) /\ InTime(t) /\ Retrying(t) /\ Watched(t)
             /\ ~s.writable /\ s.retries = << >> => Listening(t) /\ Single(t)
  <2>1. /\ d \in 0..MaxReconnect /\ 0 \in 0..(MaxAge + 1) /\ d <= MaxReconnect
        /\ WriteTimeout \in 0..WriteTimeout
    BY Periods
  <2>2. t \in States
    BY <1>2, <2>1 DEF States
  <2>3. /\ t.socket /\ t.read /\ t.write = {WriteTimeout} /\ t.reconnect = {d}
        /\ t.age = 0 /\ t.retries = s.retries /\ t.writable = s.writable
        /\ t.isShuttingDown = s.isShuttingDown /\ t.wasShutdown = s.wasShutdown
    BY <1>2 DEF States
  <2>4. Sane(t) /\ InTime(t) /\ Retrying(t) /\ Watched(t)
    BY <2>1, <2>2, <2>3 DEF Sane, NoLeftovers, Ends, InTime, Retrying, Watched
  <2>5. ASSUME ~s.writable, s.retries = << >>
        PROVE  Listening(t) /\ Single(t)
    BY <2>3, <2>5 DEF Listening, Single
  <2> QED BY <2>4, <2>5
<1> QED BY <1>1, <1>2 DEF Connect

\* Flush keeps the session as it is, or handles a failure.
LEMMA FlushSane ==
  ASSUME NEW s \in States, Ends(s), s.socket, NEW t \in Flush(s)
  PROVE  /\ Sane(t)
         /\ t.isShuttingDown = s.isShuttingDown
         /\ t.wasShutdown = s.wasShutdown \/ s.isShuttingDown
         /\ InTime(s) => InTime(t)
         /\ Retrying(t)
         /\ Watched(s) => Watched(t)
         /\ t.socket => /\ t.age = s.age /\ t.retries = s.retries
                        /\ t.reconnect = s.reconnect
         /\ s.read /\ s.retries = << >> /\ s.write = {} => Listening(t)
         /\ s.retries = << >> => Single(t)
         /\ ~t.socket /\ s.retries = << >> /\ ~s.isShuttingDown =>
              t.retries = << RetryPeriod >>
<1>1. CASE t = HandleFailure(s)
  <2>1. s.retries = << >> => Append(s.retries, RetryPeriod) = << RetryPeriod >>
    OBVIOUS
  <2> QED BY <1>1, <2>1, HandleFailureSane, HandleFailureFields DEF InTime, Watched
<1>2. CASE t = Flushed(s)
  <2>1. t \in States
    BY <1>2 DEF Flushed, States
  <2>2. /\ t.socket = s.socket /\ t.read = s.read /\ t.write = s.write
        /\ t.reconnect = s.reconnect /\ t.graceful = s.graceful
        /\ t.retries = s.retries /\ t.age = s.age /\ t.writable
        /\ t.isShuttingDown = s.isShuttingDown /\ t.wasShutdown = s.wasShutdown
    BY <1>2 DEF Flushed, States
  <2>3. Sane(t) /\ (InTime(s) => InTime(t)) /\ Retrying(t)
        /\ (Watched(s) => Watched(t))
    BY <2>1, <2>2 DEF Sane, NoLeftovers, Ends, InTime, Retrying, Watched
  <2>4. s.read /\ s.write = {} => Listening(t)
    BY <2>2 DEF Listening, States
  <2>5. s.retries = << >> => Single(t)
    BY <2>2 DEF Single
  <2> QED BY <2>2, <2>3, <2>4, <2>5
<1>3. CASE \E b \in {s.begun, TRUE} :
             t = [s EXCEPT !.writable = FALSE, !.write = {WriteTimeout}, !.begun = b]
  <2>1. PICK b \in {s.begun, TRUE} :
          t = [s EXCEPT !.writable = FALSE, !.write = {WriteTimeout}, !.begun = b]
    BY <1>3
  <2>2. b \in BOOLEAN /\ {WriteTimeout} \in SUBSET (0..WriteTimeout)
    <3>1. b \in BOOLEAN
      BY DEF States
    <3>2. {WriteTimeout} \in SUBSET (0..WriteTimeout)
      BY Periods
    <3> QED BY <3>1, <3>2
  <2>3. t \in States
    BY <2>1, <2>2 DEF States
  <2>4. /\ t.socket = s.socket /\ t.read = s.read /\ t.write = {WriteTimeout}
        /\ t.reconnect = s.reconnect /\ t.graceful = s.graceful
        /\ t.retries = s.retries /\ t.age = s.age /\ ~t.writable
        /\ t.isShuttingDown = s.isShuttingDown /\ t.wasShutdown = s.wasShutdown
    BY <2>1 DEF States
  <2>5. Sane(t) /\ (InTime(s) => InTime(t)) /\ Retrying(t)
        /\ (Watched(s) => Watched(t))
    BY <2>3, <2>4 DEF Sane, NoLeftovers, Ends, InTime, Retrying, Watched
  <2>6. s.read => Listening(t)
    BY <2>4 DEF Listening, States
  <2>7. s.retries = << >> => Single(t)
    BY <2>4 DEF Single
  <2> QED BY <2>4, <2>5, <2>6, <2>7
<1> QED BY <1>1, <1>2, <1>3 DEF Flush

\* OnSocketError and Reconnect begin with FreeSocket, so what s was does not
\* matter but for its retries.
LEMMA FreshConnectSane ==
  ASSUME NEW s \in States, Ends(s), NEW t \in Connect(FreeSocket(s))
  PROVE  /\ Sane(t) /\ InTime(t) /\ Retrying(t) /\ Watched(t)
         /\ s.retries = << >> => Listening(t) /\ Single(t)
<1> DEFINE f == FreeSocket(s)
<1>1. /\ f \in States /\ ~f.writable /\ f.retries = s.retries
      /\ f.isShuttingDown = s.isShuttingDown /\ f.wasShutdown = s.wasShutdown
  BY FreeSocketFields
<1>2. Ends(f)
  BY <1>1 DEF Ends
<1> HIDE DEF f
<1>3. t \in Connect(f)
  BY DEF f
<1> QED BY <1>1, <1>2, <1>3, ConnectSane

LEMMA ReconnectSane ==
  ASSUME NEW s \in States, Ends(s), NEW t \in Reconnect(s)
  PROVE  /\ Sane(t) /\ InTime(t) /\ Retrying(t) /\ Watched(t)
         /\ s.retries = << >> => Listening(t) /\ Single(t)
         /\ s.isShuttingDown /\ s.retries = << >> => Unstarted(t)
<1>1. CASE ~s.isShuttingDown
  BY <1>1, FreshConnectSane DEF Reconnect
<1>2. CASE s.isShuttingDown
  <2> DEFINE f == FreeSocket(s)
  <2>1. /\ f \in States
        /\ f.socket = FALSE /\ f.read = FALSE /\ f.write = {} /\ f.reconnect = {}
        /\ f.graceful = {} /\ ~f.writable /\ ~f.begun /\ ~f.completed
        /\ f.line = "" /\ f.retries = s.retries
        /\ f.isShuttingDown = s.isShuttingDown
    BY FreeSocketFields
  <2>2. t = [f EXCEPT !.wasShutdown = TRUE]
    BY <1>2 DEF Reconnect
  <2> HIDE DEF f
  <2>3. /\ t \in States
        /\ t.socket = FALSE /\ t.read = FALSE /\ t.write = {} /\ t.reconnect = {}
        /\ t.graceful = {} /\ ~t.writable /\ ~t.begun /\ ~t.completed
        /\ t.line = "" /\ t.retries = s.retries
        /\ t.isShuttingDown = s.isShuttingDown /\ t.wasShutdown
    BY <2>1, <2>2 DEF States
  <2>4. Sane(t) /\ InTime(t) /\ Retrying(t) /\ Watched(t)
    BY <1>2, <2>3 DEF Sane, NoLeftovers, Ends, InTime, Retrying, Watched
  <2>5. Listening(t)
    BY <2>3 DEF Listening
  <2>6. ASSUME s.retries = << >>
        PROVE  Single(t) /\ Unstarted(t)
    <3>1. t.retries = << >> /\ t.graceful = {} /\ ~t.socket
      BY <2>3, <2>6
    <3> QED BY <3>1 DEF Single, Unstarted
  <2> QED BY <2>4, <2>5, <2>6
<1> QED BY <1>1, <1>2

\* InitiateReconnect leaves a graceful timer, also where its flush failed.
LEMMA InitiateReconnectSane ==
  ASSUME NEW s \in States, NoLeftovers(s), Ends(s), ~s.isShuttingDown,
         NEW t \in InitiateReconnect(s)
  PROVE  /\ Sane(t) /\ ~t.isShuttingDown /\ Watched(t)
         /\ s.reconnect = {} /\ (s.socket => s.age <= MaxReconnect) => InTime(t)
         /\ Retrying(s) => Retrying(t)
         /\ ~s.socket => ~t.socket /\ t.retries = s.retries
         /\ RetryPeriod < GracefulTimeout /\ Listening(s) /\ Single(s) =>
              Listening(t) /\ Single(t)
<1> DEFINE c == [s EXCEPT !.closing = TRUE]
<1>1. /\ c \in States
      /\ c.socket = s.socket /\ c.read = s.read /\ c.write = s.write
      /\ c.reconnect = s.reconnect /\ c.graceful = s.graceful
      /\ c.retries = s.retries /\ c.writable = s.writable /\ c.begun = s.begun
      /\ c.completed = s.completed /\ c.line = s.line /\ c.age = s.age
      /\ c.isShuttingDown = s.isShuttingDown /\ c.wasShutdown = s.wasShutdown
  BY DEF States
<1>2. PICK f \in IF s.writable THEN Flush(c) ELSE {c} :
        t = [f EXCEPT !.graceful = {GracefulTimeout}]
  BY DEF InitiateReconnect
<1> HIDE DEF c
<1>3. /\ NoLeftovers(c) /\ Ends(c) /\ (InTime(s) => InTime(c))
      /\ (Retrying(s) => Retrying(c))
      /\ (Listening(s) => Listening(c)) /\ (Single(s) => Single(c))
  BY <1>1 DEF NoLeftovers, Ends, InTime, Retrying, Listening, Single
<1>4. s.writable => c.socket
  BY <1>1, <1>3 DEF NoLeftovers
<1>5. /\ Sane(f) /\ f.isShuttingDown = s.isShuttingDown
      /\ f.wasShutdown = s.wasShutdown
  <2>1. CASE s.writable
    BY <1>1, <1>2, <1>3, <1>4, <2>1, FlushSane
  <2>2. CASE ~s.writable
    BY <1>1, <1>2, <1>3, <2>2 DEF Sane
  <2> QED BY <2>1, <2>2
<1>6. Retrying(s) => Retrying(f)
  <2>1. CASE s.writable
    BY <1>1, <1>2, <1>3, <1>4, <2>1, FlushSane
  <2>2. CASE ~s.writable
    BY <1>2, <1>3, <2>2
  <2> QED BY <2>1, <2>2
<1>7. f.socket => f.age = s.age /\ f.reconnect = s.reconnect /\ s.socket
  BY <1>1, <1>2, <1>3, <1>4, FlushSane
<1>8. ~s.socket => ~f.socket /\ f.retries = s.retries
  BY <1>1, <1>2, <1>4
<1>9. Listening(s) /\ Single(s) =>
        /\ Listening(f)
        /\ Len(f.retries) <= 1 /\ (f.socket => f.retries = << >>)
  BY <1>1, <1>2, <1>3, <1>4, FlushSane DEF Listening, Single
<1>10. /\ t \in States
       /\ t.socket = f.socket /\ t.read = f.read /\ t.write = f.write
       /\ t.reconnect = f.reconnect /\ t.graceful = {GracefulTimeout}
       /\ t.retries = f.retries /\ t.writable = f.writable /\ t.begun = f.begun
       /\ t.completed = f.completed /\ t.line = f.line /\ t.age = f.age
       /\ t.isShuttingDown = f.isShuttingDown /\ t.wasShutdown = f.wasShutdown
  <2>1. {GracefulTimeout} \in SUBSET (0..GracefulTimeout)
    BY Periods
  <2> QED BY <1>2, <1>5, <2>1 DEF Sane, States
<1>11. Sane(t) /\ ~t.isShuttingDown /\ Watched(t)
  BY <1>5, <1>10 DEF Sane, NoLeftovers, Ends, Watched
<1>12. ASSUME s.reconnect = {}, s.socket => s.age <= MaxReconnect
       PROVE  InTime(t)
  <2>1. s.age \in Nat
    <3>1. s.age \in 0..(MaxAge + 1)
      BY DEF States
    <3> QED BY <3>1, Periods
  <2> QED BY <1>7, <1>10, <1>12, <2>1, Periods DEF InTime
<1>13. ASSUME RetryPeriod < GracefulTimeout, Listening(s), Single(s)
       PROVE  Listening(t) /\ Single(t)
  <2>1. Listening(t)
    BY <1>9, <1>10, <1>13 DEF Listening
  <2>2. \A i \in DOMAIN t.retries : t.retries[i] \in 0..RetryPeriod
    <3>1. t.retries \in Seq(0..RetryPeriod)
      BY <1>10 DEF States
    <3> QED BY <3>1, ElementOfSeq, LenProperties
  <2>3. \A i \in DOMAIN t.retries : t.retries[i] < GracefulTimeout
    BY <1>13, <2>2, Periods
  <2> QED BY <1>9, <1>10, <1>13, <2>1, <2>3 DEF Single
<1> QED BY <1>6, <1>8, <1>10, <1>11, <1>12, <1>13 DEF Retrying

-----------------------------------------------------------------------------
(* The actions.  A session is open only after Start.                       *)

\* A function on a prefix of the positive numbers is a sequence.
LEMMA FunctionIsSeq ==
  ASSUME NEW S, NEW l \in Nat, NEW f \in [1..l -> S]
  PROVE  f \in Seq(S)
BY SeqDef

LEMMA AtMostOne ==
  ASSUME NEW l \in Nat, l <= 1, NEW i \in 1..l
  PROVE  l = 1 /\ i = 1
  OBVIOUS

LEMMA NoRetrySingle ==
  ASSUME NEW s, s.retries = << >>, s.graceful = {}
  PROVE  Single(s)
<1>1. Len(s.retries) = 0
  OBVIOUS
<1> QED BY <1>1 DEF Single

LEMMA StartKeeps == AnyInv /\ Start => started' \in BOOLEAN /\ Keeps(started', k')
<1> SUFFICES ASSUME AnyInv, Start
             PROVE  started' \in BOOLEAN /\ Keeps(started', k')
  OBVIOUS
<1>1. k \in States /\ Ends(k) /\ ~k.writable /\ k.retries = << >>
  BY DEF AnyInv, Kept, Start, Sane, NoLeftovers, Unstarted
<1>2. k' \in Connect(k) /\ started' = TRUE
  BY DEF Start
<1>3. /\ Sane(k') /\ InTime(k') /\ Retrying(k') /\ Watched(k')
      /\ Listening(k') /\ Single(k')
  BY <1>1, <1>2, ConnectSane
<1> QED BY <1>2, <1>3 DEF Keeps, Kept

LEMMA Session ==
  ASSUME AnyInv, k.socket
  PROVE  /\ started = TRUE /\ k \in States /\ Ends(k) /\ InTime(k) /\ Watched(k)
         /\ Single(k) => k.retries = << >>
  BY DEF AnyInv, Kept, Sane, Unstarted, Single

\* A session that is flushed.
LEMMA FlushKeeps ==
  ASSUME AnyInv, k.socket,
         NEW s, s = [k EXCEPT !.write = {}] \/ (k.writable /\ s = k),
         NEW t \in Flush(s)
  PROVE  Keeps(started, t)
<1>1. /\ k \in States /\ Ends(k) /\ InTime(k) /\ Watched(k) /\ started = TRUE
      /\ Single(k) => k.retries = << >>
  BY Session
<1>2. /\ s \in States /\ s.socket /\ s.read = k.read
      /\ s.write = {} \/ (k.writable /\ s.write = k.write)
      /\ s.reconnect = k.reconnect /\ s.graceful = k.graceful
      /\ s.retries = k.retries /\ s.age = k.age
      /\ s.isShuttingDown = k.isShuttingDown /\ s.wasShutdown = k.wasShutdown
  BY <1>1 DEF States
<1>3. Ends(s) /\ InTime(s) /\ Watched(s)
  BY <1>1, <1>2 DEF Ends, InTime, Watched
<1>4. /\ Sane(t) /\ InTime(t) /\ Retrying(t) /\ Watched(t)
      /\ s.read /\ s.retries = << >> /\ s.write = {} => Listening(t)
      /\ s.retries = << >> => Single(t)
  BY <1>2, <1>3, FlushSane
<1>5. Listening(k) => s.read /\ s.write = {}
  BY <1>2 DEF Listening
<1> QED BY <1>1, <1>2, <1>4, <1>5 DEF Keeps, Kept

\* A session that is ended by an error.
LEMMA SocketErrorKeeps ==
  ASSUME AnyInv, k.socket, NEW s \in States,
         s.retries = k.retries, s.isShuttingDown = k.isShuttingDown,
         s.wasShutdown = k.wasShutdown,
         NEW t, t \in Connect(FreeSocket(s)) \/ t \in Reconnect(s)
                \/ t = HandleFailure(s)
  PROVE  Keeps(started, t)
<1>1. /\ Ends(k) /\ started = TRUE
      /\ Single(k) => k.retries = << >>
  BY Session
<1>2. Ends(s)
  BY <1>1 DEF Ends
<1>3. /\ Sane(t) /\ InTime(t) /\ Retrying(t) /\ Watched(t)
      /\ s.retries = << >> => Listening(t) /\ Single(t)
  BY <1>2, FreshConnectSane, ReconnectSane, HandleFailureSane
<1> QED BY <1>1, <1>3 DEF Keeps, Kept

LEMMA StreamerFlushKeeps == AnyInv /\ StreamerFlush => Keeps(started, k')
<1>1. AnyInv /\ StreamerFlush => k.socket
  BY DEF AnyInv, Kept, Sane, NoLeftovers, StreamerFlush
<1> QED BY <1>1, FlushKeeps DEF StreamerFlush

LEMMA OnWritableKeeps == AnyInv /\ OnWritable => Keeps(started, k')
<1>1. AnyInv /\ OnWritable => k.socket
  BY DEF AnyInv, Kept, Sane, NoLeftovers, OnWritable
<1> QED BY <1>1, FlushKeeps DEF OnWritable

LEMMA OnWriteTimeoutKeeps == AnyInv /\ OnWriteTimeout => Keeps(started, k')
<1> SUFFICES ASSUME AnyInv, OnWriteTimeout
             PROVE  Keeps(started, k')
  OBVIOUS
<1> DEFINE s == [k EXCEPT !.write = {}]
<1>1. k.socket /\ k \in States
  BY DEF AnyInv, Kept, Sane, NoLeftovers, OnWriteTimeout
<1>2. /\ s \in States /\ s.retries = k.retries
      /\ s.isShuttingDown = k.isShuttingDown /\ s.wasShutdown = k.wasShutdown
  BY <1>1 DEF States
<1>3. k' \in Connect(FreeSocket(s))
  BY DEF OnWriteTimeout, OnSocketError
<1> HIDE DEF s
<1> QED BY <1>1, <1>2, <1>3, SocketErrorKeeps

LEMMA OnReadableKeeps == AnyInv /\ OnReadable => Keeps(started, k')
<1> SUFFICES ASSUME AnyInv, OnReadable
             PROVE  Keeps(started, k')
  OBVIOUS
<1>1. k.socket /\ k \in States /\ Kept(started, k)
  BY DEF AnyInv, Kept, Sane, NoLeftovers, OnReadable
<1>2. PICK line \in Parse(k.line) : k' = [k EXCEPT !.line = line]
  BY DEF OnReadable
<1>3. line \in {"", "part", "200", "error"}
  BY <1>1, <1>2 DEF Parse, States
<1>4. /\ k' \in States
      /\ k'.socket = k.socket /\ k'.read = k.read /\ k'.write = k.write
      /\ k'.reconnect = k.reconnect /\ k'.graceful = k.graceful
      /\ k'.retries = k.retries /\ k'.writable = k.writable
      /\ k'.begun = k.begun /\ k'.completed = k.completed /\ k'.age = k.age
      /\ k'.isShuttingDown = k.isShuttingDown /\ k'.wasShutdown = k.wasShutdown
  BY <1>1, <1>2, <1>3 DEF States
<1>5. Kept(started, k')
  BY <1>1, <1>4 DEF Kept, Sane, NoLeftovers, Ends, InTime, Retrying, Watched,
                    Unstarted
<1>6. Listening(k) /\ Single(k) => Listening(k') /\ Single(k')
  BY <1>4 DEF Listening, Single
<1> QED BY <1>5, <1>6 DEF Keeps

\* OnResponse, OnReadError and OnBadStatusLine end the session.
LEMMA AnswerKeeps ==
  AnyInv /\ (OnResponse \/ OnReadError \/ OnBadStatusLine) => Keeps(started, k')
<1> SUFFICES ASSUME AnyInv, OnResponse \/ OnReadError \/ OnBadStatusLine
             PROVE  Keeps(started, k')
  OBVIOUS
<1> DEFINE s == [k EXCEPT !.read = FALSE]
<1>1. k.socket /\ k \in States
  BY DEF AnyInv, Kept, Sane, NoLeftovers, OnResponse, OnReadError, OnBadStatusLine
<1>2. /\ s \in States /\ s.retries = k.retries
      /\ s.isShuttingDown = k.isShuttingDown /\ s.wasShutdown = k.wasShutdown
  BY <1>1 DEF States
<1>3. k' \in Connect(FreeSocket(s)) \/ k' \in Reconnect(s) \/ k' = HandleFailure(s)
  BY DEF OnResponse, OnReadError, OnBadStatusLine, OnSocketError
<1> HIDE DEF s
<1> QED BY <1>1, <1>2, <1>3, SocketErrorKeeps

LEMMA OnReconnectTimerKeeps == AnyInv /\ OnReconnectTimer => Keeps(started, k')
<1> SUFFICES ASSUME AnyInv, OnReconnectTimer
             PROVE  Keeps(started, k')
  OBVIOUS
<1> DEFINE s == [k EXCEPT !.reconnect = {}]
<1>1. /\ k.socket /\ k \in States /\ started = TRUE /\ Ends(k) /\ InTime(k)
      /\ Retrying(k) /\ Watched(k) /\ NoLeftovers(k)
  BY DEF AnyInv, Kept, Sane, NoLeftovers, Unstarted, OnReconnectTimer
<1>2. /\ s \in States
      /\ s.socket = k.socket /\ s.read = k.read /\ s.write = k.write
      /\ s.reconnect = {} /\ s.graceful = k.graceful
      /\ s.retries = k.retries /\ s.writable = k.writable
      /\ s.begun = k.begun /\ s.completed = k.completed /\ s.line = k.line
      /\ s.age = k.age
      /\ s.isShuttingDown = k.isShuttingDown /\ s.wasShutdown = k.wasShutdown
  BY <1>1 DEF States
<1>3. k' \in InitiateReconnect(s)
  BY DEF OnReconnectTimer
<1> HIDE DEF s
<1>4. NoLeftovers(s) /\ Ends(s) /\ Retrying(s)
  BY <1>1, <1>2 DEF NoLeftovers, Ends, Retrying
<1>5. Listening(k) /\ Single(k) => Listening(s) /\ Single(s)
  BY <1>2 DEF Listening, Single
<1>6. CASE k.isShuttingDown
  <2>1. k' = s
    BY <1>2, <1>3, <1>6 DEF InitiateReconnect
  <2>2. InTime(s) /\ Watched(s)
    BY <1>2, <1>6 DEF InTime, Watched
  <2> QED BY <1>1, <1>2, <1>4, <1>5, <2>1, <2>2 DEF Keeps, Kept, Sane
<1>7. CASE ~k.isShuttingDown
  <2>1. s.age <= MaxReconnect
    <3>1. k.age \in 0..(MaxAge + 1)
      BY <1>1 DEF States
    <3>2. k.age + 0 <= MaxReconnect
      BY <1>1, <1>7 DEF InTime, OnReconnectTimer
    <3> QED BY <1>2, <3>1, <3>2, Periods
  <2>2. ~s.isShuttingDown
    BY <1>2, <1>7
  <2>3. /\ Sane(k') /\ Watched(k') /\ InTime(k') /\ Retrying(k')
        /\ RetryPeriod < GracefulTimeout /\ Listening(s) /\ Single(s) =>
             Listening(k') /\ Single(k')
    BY <1>2, <1>3, <1>4, <2>1, <2>2, InitiateReconnectSane
  <2> QED BY <1>1, <1>5, <2>3 DEF Keeps, Kept
<1> QED BY <1>6, <1>7

\* The recorder shuts down, before or after Start.
LEMMA InitiateShutdownKeeps == AnyInv /\ InitiateShutdown => Keeps(started, k')
<1> SUFFICES ASSUME AnyInv, InitiateShutdown
             PROVE  Keeps(started, k')
  OBVIOUS
<1>1. /\ k \in States /\ started \in BOOLEAN /\ NoLeftovers(k) /\ Ends(k)
      /\ ~k.isShuttingDown
      /\ started => Retrying(k)
      /\ ~started => Unstarted(k)
  BY DEF AnyInv, Kept, Sane, InitiateShutdown
<1>2. PICK u \in InitiateReconnect(k) : k' = [u EXCEPT !.isShuttingDown = TRUE]
  BY DEF InitiateShutdown
<1>3. /\ Sane(u)
      /\ Retrying(k) => Retrying(u)
      /\ ~k.socket => ~u.socket /\ u.retries = k.retries
      /\ RetryPeriod < GracefulTimeout /\ Listening(k) /\ Single(k) =>
           Listening(u) /\ Single(u)
  BY <1>1, <1>2, InitiateReconnectSane
<1>4. /\ k' \in States
      /\ k'.socket = u.socket /\ k'.read = u.read /\ k'.write = u.write
      /\ k'.reconnect = u.reconnect /\ k'.graceful = u.graceful
      /\ k'.retries = u.retries /\ k'.writable = u.writable
      /\ k'.begun = u.begun /\ k'.completed = u.completed /\ k'.line = u.line
      /\ k'.isShuttingDown = TRUE /\ k'.wasShutdown = u.wasShutdown
  BY <1>2, <1>3 DEF Sane, States
<1>5. Sane(k') /\ InTime(k') /\ Watched(k')
  BY <1>3, <1>4 DEF Sane, NoLeftovers, Ends, InTime, Watched
<1>6. started => Retrying(k')
  BY <1>1, <1>3, <1>4 DEF Retrying
<1>7. ~started => Unstarted(k')
  BY <1>1, <1>3, <1>4 DEF Unstarted
<1>8. Listening(u) /\ Single(u) => Listening(k') /\ Single(k')
  BY <1>4 DEF Listening, Single
<1> QED BY <1>3, <1>5, <1>6, <1>7, <1>8 DEF Keeps, Kept

\* It fires without a session only if there is no retry that comes first.
LEMMA GracefulShutdownTimeoutKeeps ==
  AnyInv /\ GracefulShutdownTimeout => Keeps(started, k')
<1> SUFFICES ASSUME AnyInv, GracefulShutdownTimeout
             PROVE  Keeps(started, k')
  OBVIOUS
<1> DEFINE s == [k EXCEPT !.graceful = {}]
<1>1. /\ k \in States /\ Ends(k) /\ 0 \in k.graceful
      /\ ~started => Unstarted(k)
  BY DEF AnyInv, Kept, Sane, GracefulShutdownTimeout
<1>2. /\ s \in States /\ s.retries = k.retries
      /\ s.isShuttingDown = k.isShuttingDown /\ s.wasShutdown = k.wasShutdown
  BY <1>1 DEF States
<1>3. k' \in Reconnect(s)
  BY DEF GracefulShutdownTimeout
<1> HIDE DEF s
<1>4. Ends(s)
  BY <1>1, <1>2 DEF Ends
<1>5. /\ Sane(k') /\ InTime(k') /\ Retrying(k') /\ Watched(k')
      /\ s.retries = << >> => Listening(k') /\ Single(k')
      /\ s.isShuttingDown /\ s.retries = << >> => Unstarted(k')
  BY <1>2, <1>3, <1>4, ReconnectSane
<1>6. ~started => Unstarted(k')
  BY <1>1, <1>2, <1>5 DEF Unstarted
<1>7. Single(k) => k.retries = << >>
  <2> SUFFICES ASSUME Single(k), k.retries # << >>
               PROVE  FALSE
    OBVIOUS
  <2>1. k.retries \in Seq(0..RetryPeriod)
    BY <1>1 DEF States
  <2>2. Len(k.retries) \in Nat \ {0} /\ DOMAIN k.retries = 1..Len(k.retries)
    BY <2>1, EmptySeq, LenProperties
  <2>3. 1 \in DOMAIN k.retries /\ 1 \in 1..Len(k.retries)
    BY <2>2
  <2>4. k.retries[1] \in 0..RetryPeriod
    BY <2>1, <2>3, ElementOfSeq
  <2>5. k.retries[1] < 0
    BY <1>1, <2>3 DEF Single
  <2> QED BY <2>4, <2>5, Periods
<1> QED BY <1>2, <1>5, <1>6, <1>7 DEF Keeps, Kept

LEMMA OnRetryTimerKeeps == AnyInv /\ OnRetryTimer => Keeps(started, k')
<1> SUFFICES ASSUME AnyInv, OnRetryTimer
             PROVE  Keeps(started, k')
  OBVIOUS
<1>1. /\ k \in States /\ Ends(k) /\ NoLeftovers(k)
      /\ ~started => Unstarted(k)
  BY DEF AnyInv, Kept, Sane
<1>2. k.retries \in Seq(0..RetryPeriod)
  BY <1>1 DEF States
<1>3. PICK i \in DOMAIN k.retries :
        k' \in Connect([k EXCEPT !.retries =
                SubSeq(@, 1, i - 1) \o SubSeq(@, i + 1, Len(@))])
  BY DEF OnRetryTimer
<1> DEFINE r == SubSeq(k.retries, 1, i - 1)
                \o SubSeq(k.retries, i + 1, Len(k.retries))
           s == [k EXCEPT !.retries = r]
<1>4. r \in Seq(0..RetryPeriod)
  <2>1. /\ i \in 1..Len(k.retries) /\ Len(k.retries) \in Int
        /\ i - 1 \in Int /\ i + 1 \in Int
    BY <1>2, <1>3, LenProperties
  <2>2. SubSeq(k.retries, 1, i - 1) \in Seq(0..RetryPeriod)
    <3>1. \A j \in 1..(i - 1) : j \in 1..Len(k.retries)
      BY <2>1
    <3>2. \A j \in 1..(i - 1) : k.retries[j] \in 0..RetryPeriod
      BY <1>2, <3>1, ElementOfSeq
    <3> QED BY <2>1, <3>2, SubSeqProperties
  <2>3. SubSeq(k.retries, i + 1, Len(k.retries)) \in Seq(0..RetryPeriod)
    <3>1. \A j \in (i + 1)..Len(k.retries) : j \in 1..Len(k.retries)
      BY <2>1
    <3>2. \A j \in (i + 1)..Len(k.retries) : k.retries[j] \in 0..RetryPeriod
      BY <1>2, <3>1, ElementOfSeq
    <3> QED BY <2>1, <3>2, SubSeqProperties
  <2> QED BY <2>2, <2>3, ConcatProperties
<1>5. k.retries # << >>
  BY <1>2, <1>3
<1>6. Len(k.retries) <= 1 => r = << >>
  <2> SUFFICES ASSUME Len(k.retries) <= 1
               PROVE  r = << >>
    OBVIOUS
  <2>1. Len(k.retries) = 1 /\ i = 1
    <3>1. Len(k.retries) \in Nat /\ i \in 1..Len(k.retries)
      BY <1>2, <1>3, LenProperties
    <3> QED BY <3>1, AtMostOne
  <2>2. SubSeq(k.retries, 1, 0) = << >> /\ SubSeq(k.retries, 2, 1) = << >>
    BY <1>2, <2>1, SubSeqEmpty
  <2> QED BY <2>1, <2>2
<1> HIDE DEF r
<1>7. /\ s \in States /\ s.retries = r /\ s.writable = k.writable
      /\ s.isShuttingDown = k.isShuttingDown /\ s.wasShutdown = k.wasShutdown
  BY <1>1, <1>4 DEF States
<1>8. k' \in Connect(s)
  BY <1>3 DEF r
<1> HIDE DEF s
<1>9. Ends(s)
  BY <1>1, <1>7 DEF Ends
<1>10. /\ Sane(k') /\ InTime(k') /\ Retrying(k') /\ Watched(k')
       /\ ~s.writable /\ s.retries = << >> => Listening(k') /\ Single(k')
  BY <1>7, <1>8, <1>9, ConnectSane
<1>11. Single(k) => ~k.writable /\ r = << >>
  BY <1>1, <1>5, <1>6 DEF Single, NoLeftovers
<1>12. started
  BY <1>1, <1>5 DEF Unstarted
<1> QED BY <1>7, <1>10, <1>11, <1>12 DEF Keeps, Kept

\* Time passes: what is pending comes nearer as the session grows older.
LEMMA TickKeeps == AnyInv /\ Tick => Keeps(started, k')
<1> SUFFICES ASSUME AnyInv, Tick
             PROVE  Keeps(started, k')
  OBVIOUS
<1>1. /\ k \in States /\ NoLeftovers(k) /\ Ends(k) /\ InTime(k)
      /\ started => Retrying(k) /\ Watched(k)
      /\ ~started => Unstarted(k)
  BY DEF AnyInv, Kept, Sane
<1> DEFINE w == Less(k.write)
           n == Less(k.reconnect)
           g == Less(k.graceful)
           r == [i \in DOMAIN k.retries |-> k.retries[i] - 1]
           a == IF k.socket /\ k.age <= MaxAge THEN k.age + 1 ELSE k.age
<1>2. k' = [k EXCEPT !.write = w, !.reconnect = n, !.graceful = g,
                     !.retries = r, !.age = a]
  BY DEF Tick
<1>3. /\ 0 \notin k.write /\ 0 \notin k.reconnect /\ 0 \notin k.graceful
      /\ \A i \in DOMAIN k.retries : k.retries[i] # 0
  BY DEF Tick, Due
<1>4. /\ k.write \in SUBSET (0..WriteTimeout)
      /\ k.reconnect \in SUBSET (0..MaxReconnect)
      /\ k.graceful \in SUBSET (0..GracefulTimeout)
      /\ k.age \in 0..(MaxAge + 1)
  BY <1>1 DEF States
<1>5. /\ w \in SUBSET (0..WriteTimeout)
      /\ n \in SUBSET (0..MaxReconnect)
      /\ g \in SUBSET (0..GracefulTimeout)
  BY <1>3, <1>4, Periods DEF Less
<1>6. /\ (w # {}) = (k.write # {}) /\ (n # {}) = (k.reconnect # {})
      /\ (g # {}) = (k.graceful # {})
  BY DEF Less
<1>7. a \in 0..(MaxAge + 1)
  BY <1>4, Periods
<1>8. /\ r \in Seq(0..RetryPeriod)
      /\ Len(r) = Len(k.retries) /\ DOMAIN r = DOMAIN k.retries
      /\ (r = << >>) = (k.retries = << >>)
  <2>1. k.retries \in Seq(0..RetryPeriod)
    BY <1>1 DEF States
  <2>2. /\ Len(k.retries) \in Nat
        /\ k.retries \in [1..Len(k.retries) -> 0..RetryPeriod]
    BY <2>1, LenProperties
  <2>3. r \in [1..Len(k.retries) -> 0..RetryPeriod]
    BY <1>3, <2>2, Periods
  <2>4. r \in Seq(0..RetryPeriod) /\ Len(r) = Len(k.retries)
    <3>1. r \in Seq(0..RetryPeriod)
      <4> HIDE DEF r
      <4> QED BY <2>2, <2>3, FunctionIsSeq
    <3>2. DOMAIN r = 1..Len(r) /\ Len(r) \in Nat /\ DOMAIN r = 1..Len(k.retries)
      BY <2>3, <3>1, LenProperties
    <3> HIDE DEF r
    <3>3. Len(r) = Len(k.retries)
      BY <2>2, <3>2
    <3> QED BY <3>1, <3>3
  <2>5. DOMAIN r = DOMAIN k.retries
    OBVIOUS
  <2>6. (r = << >>) = (k.retries = << >>)
    BY <2>1, <2>4, EmptySeq
  <2> QED BY <2>4, <2>5, <2>6
<1>9. /\ InTime(k) => (k.socket /\ ~k.isShuttingDown =>
           /\ \A m \in n : a + m <= MaxReconnect
           /\ n = {} => \A m \in g : a + m <= MaxAge)
  <2>1. /\ \A m \in n : m + 1 \in k.reconnect /\ m \in Nat
        /\ \A m \in g : m + 1 \in k.graceful /\ m \in Nat
    BY <1>3, <1>4, Periods DEF Less
  <2>2. a <= k.age + 1 /\ a \in Nat /\ k.age \in Nat
    BY <1>4, Periods
  <2> HIDE DEF n, g, a
  <2> QED BY <1>6, <2>1, <2>2, Periods DEF InTime
<1>10. Single(k) => \A i \in DOMAIN r : \A m \in g : r[i] < m
  <2> SUFFICES ASSUME Single(k), NEW i \in DOMAIN k.retries, NEW m \in k.graceful
               PROVE  k.retries[i] - 1 < m - 1
    BY <1>8 DEF Less
  <2>1. k.retries \in Seq(0..RetryPeriod)
    BY <1>1 DEF States
  <2>2. k.retries[i] \in 0..RetryPeriod
    BY <2>1, ElementOfSeq, LenProperties
  <2>3. m \in 0..GracefulTimeout
    BY <1>4
  <2> QED BY <2>2, <2>3, Periods DEF Single
<1> HIDE DEF w, n, g, r, a
<1>11. /\ k' \in States
       /\ k'.socket = k.socket /\ k'.read = k.read /\ k'.write = w
       /\ k'.reconnect = n /\ k'.graceful = g
       /\ k'.retries = r /\ k'.writable = k.writable
       /\ k'.begun = k.begun /\ k'.completed = k.completed /\ k'.line = k.line
       /\ k'.age = a
       /\ k'.isShuttingDown = k.isShuttingDown /\ k'.wasShutdown = k.wasShutdown
  BY <1>1, <1>2, <1>5, <1>7, <1>8 DEF States
<1>12. Sane(k')
  BY <1>1, <1>6, <1>11 DEF Sane, NoLeftovers, Ends
<1>13. InTime(k')
  BY <1>1, <1>9, <1>11 DEF InTime
<1>14. /\ started => Retrying(k') /\ Watched(k')
       /\ ~started => Unstarted(k')
  BY <1>1, <1>6, <1>8, <1>11 DEF Retrying, Watched, Unstarted
<1>15. Listening(k) => Listening(k')
  BY <1>6, <1>11 DEF Listening
<1>16. Single(k) => Single(k')
  BY <1>8, <1>10, <1>11 DEF Single
<1> QED BY <1>12, <1>13, <1>14, <1>15, <1>16 DEF Keeps, Kept

-----------------------------------------------------------------------------
(* The theorems.                                                           *)

LEMMA InitKeeps == Init => AnyInv /\ Listening(k) /\ Single(k)
<1> SUFFICES ASSUME Init
             PROVE  AnyInv /\ Listening(k) /\ Single(k)
  OBVIOUS
<1>1. << >> \in Seq(0..RetryPeriod) /\ Len(<< >>) = 0
  BY EmptySeq
<1>2. 0 \in 0..(MaxAge + 1)
  BY Periods
<1>3. /\ k \in States /\ started = FALSE
      /\ k.socket = FALSE /\ k.read = FALSE /\ k.write = {} /\ k.reconnect = {}
      /\ k.graceful = {} /\ k.retries = << >> /\ ~k.writable /\ ~k.begun
      /\ ~k.completed /\ k.line = "" /\ ~k.wasShutdown
  BY <1>1, <1>2 DEF Init, NewConnection, States
<1>4. AnyInv /\ Listening(k)
  BY <1>3 DEF AnyInv, Kept, Sane, NoLeftovers, Ends, InTime, Unstarted, Listening
<1>5. Single(k)
  BY <1>3, NoRetrySingle
<1> QED BY <1>4, <1>5

LEMMA NextKeeps ==
  AnyInv /\ [Next]_vars => started' \in BOOLEAN /\ Keeps(started', k')
<1> SUFFICES ASSUME AnyInv, [Next]_vars
             PROVE  started' \in BOOLEAN /\ Keeps(started', k')
  OBVIOUS
<1>1. CASE Start
  BY <1>1, StartKeeps
<1>2. ASSUME started' = started, Keeps(started, k')
      PROVE  started' \in BOOLEAN /\ Keeps(started', k')
  BY <1>2 DEF AnyInv
<1>3. CASE StreamerFlush \/ OnWritable \/ OnReadable
  BY <1>2, <1>3, StreamerFlushKeeps, OnWritableKeeps, OnReadableKeeps
     DEF StreamerFlush, OnWritable, OnReadable
<1>4. CASE OnResponse \/ OnReadError \/ OnBadStatusLine
  BY <1>2, <1>4, AnswerKeeps DEF OnResponse, OnReadError, OnBadStatusLine
<1>5. CASE InitiateShutdown \/ OnWriteTimeout \/ OnReconnectTimer
  BY <1>2, <1>5, InitiateShutdownKeeps, OnWriteTimeoutKeeps, OnReconnectTimerKeeps
     DEF InitiateShutdown, OnWriteTimeout, OnReconnectTimer
<1>6. CASE GracefulShutdownTimeout \/ OnRetryTimer \/ Tick
  BY <1>2, <1>6, GracefulShutdownTimeoutKeeps, OnRetryTimerKeeps, TickKeeps
     DEF GracefulShutdownTimeout, OnRetryTimer, Tick
<1>7. CASE UNCHANGED vars
  BY <1>7 DEF vars, AnyInv, Keeps
<1> QED BY <1>1, <1>3, <1>4, <1>5, <1>6, <1>7 DEF Next

(***************************************************************************)
(* Whatever the periods are, the state of a connection is well formed, and *)
(* nothing of a request or an answer outlives its socket.                  *)
(***************************************************************************)
THEOREM AnyPeriods == Spec => []AnyInv
<1>1. Init => AnyInv
  BY InitKeeps
<1>2. AnyInv /\ [Next]_vars => AnyInv'
  BY NextKeeps DEF AnyInv, Keeps
<1> QED BY <1>1, <1>2, PTL DEF Spec

(***************************************************************************)
(* The inductive invariant of a connection (satellite_connection.cpp): its *)
(* events match its socket, it is never forgotten, it has at most one      *)
(* attempt to connect ahead of it.  It needs a retry period shorter than   *)
(* the graceful timeout, as in the defaults (stream_recorder_options.h):   *)
(* a graceful timer that outlives its socket would otherwise connect while *)
(* the retry timer still runs.                                             *)
(***************************************************************************)
THEOREM ConnectionInvariant ==
  ASSUME RetryPeriod < GracefulTimeout
  PROVE  Spec => []IndInv
<1>1. Init => IndInv
  BY InitKeeps, IndInvParts
<1>2. IndInv /\ [Next]_vars => IndInv'
  <2> SUFFICES ASSUME IndInv, [Next]_vars
               PROVE  IndInv'
    OBVIOUS
  <2>1. AnyInv /\ Listening(k) /\ Single(k)
    BY IndInvParts
  <2>2. started' \in BOOLEAN /\ Keeps(started', k')
    BY <2>1, NextKeeps
  <2>3. Kept(started', k') /\ Listening(k') /\ Single(k')
    BY <2>1, <2>2 DEF Keeps
  <2>4. (AnyInv /\ Listening(k) /\ Single(k))'
    BY <2>2, <2>3 DEF AnyInv, Kept, Sane, NoLeftovers, Ends, InTime, Retrying,
                      Watched, Unstarted, Listening, Single
  <2>5. (IndInv <=> AnyInv /\ Listening(k) /\ Single(k))'
    BY IndInvParts, PTL
  <2> QED BY <2>4, <2>5
<1> QED BY <1>1, <1>2, PTL DEF Spec

(***************************************************************************)
(* A connection is never forgotten, whatever the periods are: without a    *)
(* session some timer opens one or ends the shutdown, and a session has a  *)
(* timer that will end it (OnReconnectTimer, GracefulShutdownTimeout).     *)
(***************************************************************************)
THEOREM NeverForgottenAlways == Spec => []NeverForgotten
<1>1. AnyInv => NeverForgotten
  BY DEF AnyInv, Kept, Retrying, Watched, NeverForgotten
<1> QED BY <1>1, AnyPeriods, PTL

(***************************************************************************)
(* Sessions are reestablished, whatever the periods are: until a shutdown  *)
(* none lasts longer than the longest reconnect period and the graceful    *)
(* timeout together (ScheduleReconnect, InitiateReconnect).                *)
(***************************************************************************)
THEOREM SessionsBounded == Spec => []SessionBounded
<1>1. AnyInv => SessionBounded
  <2> SUFFICES ASSUME AnyInv, k.socket, ~k.isShuttingDown
               PROVE  k.age <= MaxAge
    BY DEF SessionBounded
  <2>1. InTime(k) /\ Watched(k) /\ k \in States /\ ~k.wasShutdown
    BY DEF AnyInv, Kept, Sane, Unstarted, Ends
  <2>2. /\ k.age \in 0..(MaxAge + 1)
        /\ k.reconnect \subseteq 0..MaxReconnect
        /\ k.graceful \subseteq 0..GracefulTimeout
    BY <2>1 DEF States
  <2>3. CASE k.reconnect # {}
    <3>1. PICK n \in k.reconnect : k.age + n <= MaxReconnect
      BY <2>1, <2>3 DEF InTime
    <3> QED BY <2>2, <3>1, Periods
  <2>4. CASE k.reconnect = {}
    <3>1. PICK n \in k.graceful : k.age + n <= MaxAge
      BY <2>1, <2>4 DEF InTime, Watched
    <3> QED BY <2>2, <3>1, Periods
  <2> QED BY <2>3, <2>4
<1> QED BY <1>1, AnyPeriods, PTL

(***************************************************************************)
(* Attempts to connect do not pile up, and the events match the socket, if *)
(* the retry period is shorter than the graceful timeout.                  *)
(***************************************************************************)
THEOREM AttemptsDoNotPileUp ==
  ASSUME RetryPeriod < GracefulTimeout
  PROVE  Spec => [](OneAttempt /\ EventsMatchSocket)
<1>1. IndInv => OneAttempt /\ EventsMatchSocket
  BY DEF IndInv
<1> QED BY <1>1, ConnectionInvariant, PTL

(***************************************************************************)
(* ConnectionStreams, for any connections and sizes.  A write takes some   *)
(* pieces from the front of Streams(c) and some bytes of the next one, and *)
(* appends them to the wire.  So there are lemmas about sequences and      *)
(* about Sends, then about what Streams(c) consists of, then about each    *)
(* part of StreamsInv after a write that ends in one way or the other:     *)
(* FlushCut is a Flush that returns, Failed a Flush that throws and, with  *)
(* nothing written, Reset.                                                 *)
(***************************************************************************)
-----------------------------------------------------------------------------
(* Sizes, pieces and segments.                                             *)

LEMMA Product == \A m, n \in Nat \ {0} : m * n \in Nat \ {0}
OBVIOUS

LEMMA Sizes ==
  /\ MaxSpans \in Nat /\ MaxSize \in Nat \ {0}
  /\ Header = 0 /\ Terminal = MaxSpans + 1 /\ Spans = 1..MaxSpans
  /\ \A item : Size(item) \in Nat \ {0}
  /\ \A s \in Spans : Size(s) = Size(1)
  /\ Size(Header) <= Size(1) /\ Size(Terminal) = Size(Header)
<1>1. /\ FragmentSize \in Nat \ {0} /\ SpanFragments \in Nat \ {0}
      /\ MaxSpans \in Nat /\ MaxSize \in Nat \ {0}
  BY SizesAssumption
<1> DEFINE long == FragmentSize * SpanFragments
<1>2. long \in Nat \ {0} /\ FragmentSize * 1 = FragmentSize /\ FragmentSize <= long
  <2>1. long \in Nat \ {0}
    BY <1>1, Product
  <2>2. PICK f : f = SpanFragments - 1
    OBVIOUS
  <2>3. f \in Nat /\ SpanFragments = f + 1
    BY <1>1, <2>2
  <2>4. FragmentSize * (f + 1) = FragmentSize * f + FragmentSize
    BY <1>1, <2>3
  <2>5. FragmentSize * f \in Nat
    BY <1>1, <2>3
  <2> QED BY <1>1, <2>1, <2>3, <2>4, <2>5
<1>3. \A item : Size(item) = IF item \in Spans THEN long ELSE FragmentSize
  BY <1>2 DEF Size
<1> HIDE DEF long
<1>4. Header \notin Spans /\ Terminal \notin Spans
  BY <1>1 DEF Header, Terminal, Spans
<1>5. \A s \in Spans : 1 \in Spans
  BY <1>1 DEF Spans
<1> QED BY <1>1, <1>2, <1>3, <1>4, <1>5 DEF Header, Terminal, Spans

\* Everything that is written is a piece of an item.
Chunks == [item : Header..Terminal, at : Nat]

LEMMA PieceFields ==
  ASSUME NEW item \in Header..Terminal, NEW at \in Nat
  PROVE  /\ Piece(item, at) \in Chunks /\ Piece(item, at) # None
         /\ Piece(item, at).item = item /\ Piece(item, at).at = at
<1>1. Header..Terminal \subseteq Nat
  BY Sizes
<1> QED BY <1>1, NoneAssumption DEF Piece, Chunks

LEMMA PieceOf == \A p \in Chunks : p = Piece(p.item, p.at)
BY DEF Chunks, Piece

LEMMA ChunkFields ==
  \A p \in Chunks : /\ p.item \in Header..Terminal /\ p.item \in Nat /\ p.at \in Nat
                    /\ Size(p.item) \in Nat \ {0}
<1>1. \A p \in Chunks : p.item \in Header..Terminal /\ p.at \in Nat
  BY DEF Chunks
<1>2. Header..Terminal \subseteq Nat
  BY Sizes
<1> QED BY <1>1, <1>2, Sizes

LEMMA SegmentFields ==
  \A s \in Segments : /\ s.item \in Header..Terminal /\ s.item \in Nat
                      /\ s.from \in Nat /\ s.to \in Nat
<1>1. \A s \in Segments : s.item \in Header..Terminal /\ s.from \in Nat /\ s.to \in Nat
  BY DEF Segments
<1>2. Header..Terminal \subseteq Nat
  BY Sizes
<1> QED BY <1>1, <1>2

LEMMA SegmentOf ==
  ASSUME NEW item \in Header..Terminal, NEW from \in Nat, NEW to \in Nat
  PROVE  [item |-> item, from |-> from, to |-> to] \in Segments
BY DEF Segments

\* What is where in a concatenation.
LEMMA ConcatShape ==
  ASSUME NEW T, NEW u \in Seq(T), NEW v \in Seq(T)
  PROVE  /\ Len(u) \in Nat /\ Len(v) \in Nat
         /\ u \o v \in Seq(T) /\ Len(u \o v) = Len(u) + Len(v)
         /\ \A i \in 1..Len(u) : (u \o v)[i] = u[i]
         /\ \A i \in 1..Len(v) : (u \o v)[Len(u) + i] = v[i]
<1>1. PICK t, m, W : t = Len(u) /\ m = Len(v) /\ W = u \o v
  OBVIOUS
<1>2. t \in Nat /\ m \in Nat
  BY <1>1, LenProperties
<1>3. /\ W \in Seq(T) /\ Len(W) = t + m
      /\ \A i \in 1..t + m : W[i] = IF i <= t THEN u[i] ELSE v[i - t]
  BY <1>1, ConcatProperties
<1>4. \A i \in 1..t : i \in 1..t + m /\ i <= t
  BY <1>2
<1>5. \A i \in 1..m : t + i \in 1..t + m /\ ~(t + i <= t) /\ (t + i) - t = i
  BY <1>2
<1>6. \A i \in 1..m : W[t + i] = v[i]
  <2> SUFFICES ASSUME NEW i \in 1..m PROVE W[t + i] = v[i]
    OBVIOUS
  <2>1. W[t + i] = v[(t + i) - t]
    BY <1>3, <1>5
  <2> QED BY <1>5, <2>1
<1> QED BY <1>1, <1>2, <1>3, <1>4, <1>6

LEMMA Concatenated ==
  ASSUME NEW u \in Seq(Segments), NEW v \in Seq(Segments)
  PROVE  /\ Len(u) \in Nat /\ Len(v) \in Nat
         /\ u \o v \in Seq(Segments) /\ Len(u \o v) = Len(u) + Len(v)
         /\ \A i \in 1..Len(u) : (u \o v)[i] = u[i]
         /\ \A i \in 1..Len(v) : (u \o v)[Len(u) + i] = v[i]
BY ConcatShape

LEMMA ConcatenatedChunks ==
  ASSUME NEW u \in Seq(Chunks), NEW v \in Seq(Chunks)
  PROVE  /\ Len(u) \in Nat /\ Len(v) \in Nat
         /\ u \o v \in Seq(Chunks) /\ Len(u \o v) = Len(u) + Len(v)
         /\ \A i \in 1..Len(u) : (u \o v)[i] = u[i]
         /\ \A i \in 1..Len(v) : (u \o v)[Len(u) + i] = v[i]
BY ConcatShape

\* Two sequences are joined by one segment, instead of the last of w and the
\* first of v.
Joined(w, one, v) == Front(w) \o one \o Tail(v)

LEMMA JoinShape ==
  ASSUME NEW w \in Seq(Segments), w # << >>, NEW v \in Seq(Segments), v # << >>,
         NEW one \in Seq(Segments), Len(one) = 1
  PROVE  /\ Joined(w, one, v) \in Seq(Segments)
         /\ Len(Joined(w, one, v)) = Len(w) - 1 + Len(v)
         /\ \A i \in 1..Len(w) - 1 : Joined(w, one, v)[i] = w[i]
         /\ Joined(w, one, v)[Len(w)] = one[1]
         /\ \A q \in 2..Len(v) : Joined(w, one, v)[Len(w) - 1 + q] = v[q]
<1>1. PICK t, m : t = Len(w) - 1 /\ m = Len(v)
  OBVIOUS
<1>2. /\ Len(w) \in Nat \ {0} /\ m \in Nat \ {0} /\ t \in Nat /\ Len(w) = t + 1
      /\ \A i \in 1..Len(w) : w[i] \in Segments
  BY <1>1, LenProperties, ElementOfSeq, EmptySeq
<1>3. PICK front : front = Front(w)
  OBVIOUS
<1>4. front \in Seq(Segments) /\ Len(front) = t /\ \A i \in 1..t : front[i] = w[i]
  <2>1. front = SubSeq(w, 1, t)
    BY <1>1, <1>3 DEF Front
  <2>2. \A i \in 1..t : w[i] \in Segments
    BY <1>2
  <2>3. /\ front \in Seq(Segments)
        /\ Len(front) = IF 1 <= t THEN t - 1 + 1 ELSE 0
        /\ \A i \in 1..(t - 1 + 1) : front[i] = w[1 + i - 1]
    BY <1>2, <2>1, <2>2, SubSeqProperties
  <2>4. \A i \in 1..t : 1 + i - 1 = i /\ i \in 1..(t - 1 + 1)
    BY <1>2
  <2> QED BY <1>2, <2>3, <2>4
<1>5. PICK tail : tail = Tail(v)
  OBVIOUS
<1>6. /\ tail \in Seq(Segments) /\ Len(tail) = m - 1
      /\ \A i \in 1..m - 1 : tail[i] = v[i + 1]
  BY <1>1, <1>5, HeadTailProperties
<1>7. PICK u : u = front \o one
  OBVIOUS
<1>8. /\ u \in Seq(Segments) /\ Len(u) = t + 1
      /\ \A i \in 1..t : u[i] = front[i]
      /\ \A i \in 1..1 : u[t + i] = one[i]
  <2>1. /\ u \in Seq(Segments) /\ Len(u) = Len(front) + Len(one)
        /\ \A i \in 1..Len(front) : u[i] = front[i]
        /\ \A i \in 1..Len(one) : u[Len(front) + i] = one[i]
    BY <1>4, <1>7, Concatenated, ZenonT(30)
  <2> QED BY <1>4, <2>1
<1>9. PICK W : W = u \o tail
  OBVIOUS
<1>10. /\ W \in Seq(Segments) /\ Len(W) = (t + 1) + (m - 1)
       /\ \A i \in 1..t + 1 : W[i] = u[i]
       /\ \A q \in 1..m - 1 : W[t + 1 + q] = tail[q]
  <2>1. u \in Seq(Segments) /\ tail \in Seq(Segments)
    BY <1>6, <1>8
  <2>2. /\ u \o tail \in Seq(Segments) /\ Len(u \o tail) = Len(u) + Len(tail)
        /\ \A i \in 1..Len(u) : (u \o tail)[i] = u[i]
        /\ \A i \in 1..Len(tail) : (u \o tail)[Len(u) + i] = tail[i]
    BY <2>1, Concatenated, Zenon
  <2> QED BY <1>6, <1>8, <1>9, <2>2
<1>11. /\ Len(W) = Len(w) - 1 + Len(v)
       /\ \A i \in 1..Len(w) - 1 : W[i] = w[i]
       /\ W[Len(w)] = one[1]
  BY <1>1, <1>2, <1>4, <1>8, <1>10
<1>12. \A q \in 2..m : W[t + q] = v[q]
  <2> SUFFICES ASSUME NEW q \in 2..m PROVE W[t + q] = v[q]
    OBVIOUS
  <2>1. PICK p : p = q - 1
    OBVIOUS
  <2>2. p \in 1..m - 1 /\ p + 1 = q /\ t + 1 + p = t + q
    BY <1>2, <2>1
  <2> QED BY <1>6, <1>10, <2>2
<1>13. W = Joined(w, one, v)
  BY <1>3, <1>5, <1>7, <1>9 DEF Joined
<1> QED BY <1>1, <1>10, <1>11, <1>12, <1>13

\* The segments that a write of n pieces of S and b bytes of the next one sends.
Segment(S, n, b, i) ==
  [item |-> S[i].item, from |-> S[i].at,
   to |-> IF i <= n THEN Size(S[i].item) ELSE S[i].at + b]

LEMMA SegmentShape ==
  ASSUME NEW S, NEW n, NEW b, NEW i
  PROVE  /\ Segment(S, n, b, i).item = S[i].item /\ Segment(S, n, b, i).from = S[i].at
         /\ Segment(S, n, b, i).to = IF i <= n THEN Size(S[i].item) ELSE S[i].at + b
BY DEF Segment

\* How many pieces of S a write touches, and how many segments of the wire w it
\* leaves as they are.
Touched(n, b) == IF b > 0 THEN n + 1 ELSE n
Retained(w, S, n, b) ==
  IF Touched(n, b) > 0 /\ Continues(w, S[1]) THEN Len(w) - 1 ELSE Len(w)

\* A write appends its pieces to the wire, the first one to the segment that it
\* continues.
LEMMA SendsShape ==
  ASSUME NEW w \in Seq(Segments), NEW S \in Seq(Chunks), NEW n \in 0..Len(S), NEW b \in Nat,
         b > 0 => n < Len(S)
  PROVE  /\ Retained(w, S, n, b) \in Nat
         /\ Sends(w, S, n, b) \in Seq(Segments)
         /\ Len(Sends(w, S, n, b)) = Retained(w, S, n, b) + Touched(n, b)
         /\ \A i \in 1..Retained(w, S, n, b) : Sends(w, S, n, b)[i] = w[i]
         /\ \A q \in 1..Touched(n, b) :
              /\ Sends(w, S, n, b)[Retained(w, S, n, b) + q].item = S[q].item
              /\ Sends(w, S, n, b)[Retained(w, S, n, b) + q].from =
                   IF Continues(w, S[1]) /\ q = 1 THEN Last(w).from ELSE S[q].at
              /\ Sends(w, S, n, b)[Retained(w, S, n, b) + q].to =
                   IF q <= n THEN Size(S[q].item) ELSE S[q].at + b
<1>0. PICK m, W, o : /\ m = Touched(n, b) /\ W = Sends(w, S, n, b) /\ o = Retained(w, S, n, b)
  OBVIOUS
<1>1. /\ Len(w) \in Nat /\ Len(S) \in Nat /\ n \in Nat /\ m \in 0..Len(S) /\ m \in Nat
      /\ \A i \in 1..Len(S) : S[i] \in Chunks
  BY <1>0, LenProperties, ElementOfSeq DEF Touched
<1>2. PICK v : v = [i \in 1..m |-> Segment(S, n, b, i)]
  OBVIOUS
<1>3. /\ v \in Seq(Segments) /\ Len(v) = m /\ \A i \in 1..m : v[i] = Segment(S, n, b, i)
  <2>1. \A i \in 1..m : Segment(S, n, b, i) \in Segments
    <3> SUFFICES ASSUME NEW i \in 1..m PROVE Segment(S, n, b, i) \in Segments
      OBVIOUS
    <3>1. S[i] \in Chunks
      BY <1>1
    <3>2. PICK to : to = IF i <= n THEN Size(S[i].item) ELSE S[i].at + b
      OBVIOUS
    <3>3. to \in Nat
      BY <3>1, <3>2, ChunkFields
    <3> QED BY <3>1, <3>2, <3>3, ChunkFields, SegmentOf DEF Segment
  <2>2. v \in Seq(Segments)
    BY <1>1, <1>2, <2>1
  <2>3. DOMAIN v = 1..m /\ Len(v) \in Nat /\ DOMAIN v = 1..Len(v)
    BY <1>2, <2>2, LenProperties
  <2> QED BY <1>1, <1>2, <2>2, <2>3
<1>4. W = IF w # << >> /\ v # << >> /\ Last(w).item = v[1].item /\ Last(w).to = v[1].from
          THEN Front(w) \o <<[v[1] EXCEPT !.from = Last(w).from]>> \o Tail(v)
          ELSE w \o v
  <2>1. CASE b > 0
    <3>1. m = n + 1
      BY <1>0, <2>1 DEF Touched
    <3>2. W = Sends(w, S, n, b)
      BY <1>0
    <3> QED BY <1>2, <2>1, <3>1, <3>2 DEF Sends, Segment
  <2>2. CASE ~(b > 0)
    <3>1. m = n
      BY <1>0, <2>2 DEF Touched
    <3>2. W = Sends(w, S, n, b)
      BY <1>0
    <3> QED BY <1>2, <2>2, <3>1, <3>2 DEF Sends, Segment
  <2> QED BY <2>1, <2>2
<1>5. v # << >> <=> m > 0
  BY <1>1, <1>3, EmptySeq
<1>6. m > 0 => v[1].item = S[1].item /\ v[1].from = S[1].at
  <2> SUFFICES ASSUME m > 0 PROVE v[1] = Segment(S, n, b, 1)
    BY DEF Segment
  <2>1. 1 \in 1..m
    BY <1>1
  <2> QED BY <1>3, <2>1
<1>7. CASE ~(m > 0 /\ Continues(w, S[1]))
  <2>1. W = w \o v
    BY <1>4, <1>5, <1>6, <1>7 DEF Continues
  <2>2. /\ W \in Seq(Segments) /\ Len(W) = Len(w) + m
        /\ \A i \in 1..Len(w) : W[i] = w[i]
        /\ \A q \in 1..m : W[Len(w) + q] = v[q]
    <3>1. v \in Seq(Segments)
      BY <1>3
    <3>2. /\ w \o v \in Seq(Segments) /\ Len(w \o v) = Len(w) + Len(v)
          /\ \A i \in 1..Len(w) : (w \o v)[i] = w[i]
          /\ \A i \in 1..Len(v) : (w \o v)[Len(w) + i] = v[i]
      BY <3>1, Concatenated, Zenon
    <3> QED BY <1>3, <2>1, <3>2
  <2>3. \A q \in 1..m : W[Len(w) + q] = Segment(S, n, b, q)
    BY <1>3, <2>2
  <2>4. \A q \in 1..m :
          /\ W[Len(w) + q].item = S[q].item
          /\ W[Len(w) + q].from = S[q].at
          /\ W[Len(w) + q].to = IF q <= n THEN Size(S[q].item) ELSE S[q].at + b
    BY <2>3, SegmentShape
  <2>5. o = Len(w) /\ ~(m > 0 /\ Continues(w, S[1]))
    BY <1>0, <1>7 DEF Retained
  <2>6. \A q \in 1..m : ~Continues(w, S[1])
    BY <1>1, <1>7
  <2>7. /\ o \in Nat /\ W \in Seq(Segments) /\ Len(W) = o + m
        /\ \A i \in 1..o : W[i] = w[i]
    BY <1>1, <2>2, <2>5
  <2>8. \A q \in 1..m :
          /\ W[o + q].item = S[q].item
          /\ W[o + q].from = IF Continues(w, S[1]) /\ q = 1 THEN Last(w).from ELSE S[q].at
          /\ W[o + q].to = IF q <= n THEN Size(S[q].item) ELSE S[q].at + b
    <3> SUFFICES ASSUME NEW q \in 1..m
                 PROVE  /\ W[o + q].item = S[q].item
                        /\ W[o + q].from = IF Continues(w, S[1]) /\ q = 1
                                           THEN Last(w).from ELSE S[q].at
                        /\ W[o + q].to = IF q <= n THEN Size(S[q].item) ELSE S[q].at + b
      OBVIOUS
    <3>1. ~Continues(w, S[1]) /\ o + q = Len(w) + q
      BY <2>5, <2>6
    <3> QED BY <2>4, <3>1, Zenon
  <2> QED BY <1>0, <2>7, <2>8, Zenon
<1>8. CASE m > 0 /\ Continues(w, S[1])
  <2>1. PICK e : e = [v[1] EXCEPT !.from = Last(w).from]
    OBVIOUS
  <2>2. PICK t : t = Len(w) - 1
    OBVIOUS
  <2>3. w # << >> /\ Last(w) \in Segments /\ t \in Nat /\ t + 1 = Len(w)
    <3>1. w # << >> /\ Len(w) \in 1..Len(w)
      BY <1>1, <1>8, EmptySeq DEF Continues
    <3> QED BY <1>1, <2>2, <3>1, ElementOfSeq DEF Last
  <2>4. v[1] \in Segments
    BY <1>1, <1>3, <1>8, ElementOfSeq
  <2>5. e \in Segments
    BY <2>1, <2>3, <2>4 DEF Segments
  <2>6. W = Front(w) \o <<e>> \o Tail(v)
    BY <1>4, <1>5, <1>6, <1>8, <2>1 DEF Continues
  <2>7. /\ W \in Seq(Segments) /\ Len(W) = t + m
        /\ \A i \in 1..t : W[i] = w[i]
        /\ W[t + 1] = e
        /\ \A q \in 2..m : W[t + q] = v[q]
    <3>1. v # << >>
      BY <1>5, <1>8
    <3>2. PICK one : one = <<e>>
      OBVIOUS
    <3>3. one \in Seq(Segments) /\ Len(one) = 1 /\ one[1] = e
      BY <2>5, <3>2
    <3>4. /\ W \in Seq(Segments) /\ Len(W) = Len(w) - 1 + Len(v)
          /\ \A i \in 1..Len(w) - 1 : W[i] = w[i]
          /\ W[Len(w)] = one[1]
          /\ \A q \in 2..Len(v) : W[Len(w) - 1 + q] = v[q]
      <4>1. v \in Seq(Segments) /\ w # << >> /\ one \in Seq(Segments) /\ Len(one) = 1
        BY <1>3, <2>3, <3>3
      <4>2. W = Joined(w, one, v)
        BY <2>6, <3>2 DEF Joined
      <4>3. /\ Joined(w, one, v) \in Seq(Segments)
            /\ Len(Joined(w, one, v)) = Len(w) - 1 + Len(v)
            /\ \A i \in 1..Len(w) - 1 : Joined(w, one, v)[i] = w[i]
            /\ Joined(w, one, v)[Len(w)] = one[1]
            /\ \A q \in 2..Len(v) : Joined(w, one, v)[Len(w) - 1 + q] = v[q]
        BY <3>1, <4>1, JoinShape, Zenon
      <4> QED BY <4>2, <4>3, Zenon
    <3> QED BY <1>3, <2>2, <2>3, <3>3, <3>4
  <2>8. \A q \in 1..m : q = 1 \/ q \in 2..m
    BY <1>1
  <2>9. e = [Segment(S, n, b, 1) EXCEPT !.from = Last(w).from]
    <3>1. v[1] = Segment(S, n, b, 1)
      BY <1>1, <1>3, <1>8
    <3> QED BY <2>1, <3>1
  <2>10. \A q \in 1..m : W[t + q] = IF q = 1 THEN e ELSE Segment(S, n, b, q)
    BY <1>3, <2>7, <2>8
  <2>11. \A q \in 1..m :
           /\ W[t + q].item = S[q].item
           /\ W[t + q].from = IF q = 1 THEN Last(w).from ELSE S[q].at
           /\ W[t + q].to = IF q <= n THEN Size(S[q].item) ELSE S[q].at + b
    <3>1. e.item = S[1].item /\ e.from = Last(w).from /\ e.to = Segment(S, n, b, 1).to
      BY <2>9 DEF Segment
    <3> QED BY <2>10, <3>1, SegmentShape
  <2>12. o = t
    BY <1>0, <1>8, <2>2 DEF Retained
  <2> QED BY <1>0, <1>8, <2>3, <2>7, <2>11, <2>12
<1> QED BY <1>7, <1>8

\* The pieces S may follow the request w, of which P is left.
Sendable(w, S, P) ==
  /\ S \in Seq(Chunks)
  /\ \A i, j \in 1..Len(S) : i < j => S[i].item < S[j].item
  /\ \A p \in P : \E j \in 1..Len(S) : p = S[j]
  /\ \A j \in 1..Len(S) :
       S[j] \in P \/ (S[j].at = 0 /\ \A i \in DOMAIN w : w[i].item < S[j].item)

\* What a write of n pieces of S and b bytes of the next one leaves.
LeftOver(S, n, b) ==
  {Piece(S[j].item, IF j = n + 1 THEN S[j].at + b ELSE S[j].at) : j \in n + 1..Len(S)}

\* The only piece that can go on where the wire stops is the first.
LEMMA FirstContinues ==
  ASSUME NEW w \in Seq(Segments), NEW S, NEW P, Sendable(w, S, P), Linked(w, P),
         NEW j \in 1..Len(S), Continues(w, S[j])
  PROVE  j = 1
<1>1. Len(w) \in Nat /\ DOMAIN w = 1..Len(w) /\ Len(w) \in DOMAIN w /\ Last(w) = w[Len(w)]
  BY LenProperties, EmptySeq DEF Continues, Last
<1>2. Len(S) \in Nat /\ \A i \in 1..Len(S) : S[i] \in Chunks /\ S[i].item \in Nat
  BY LenProperties, ElementOfSeq, ChunkFields DEF Sendable
<1>3. w[Len(w)].item = S[j].item
  BY <1>1 DEF Continues
<1>4. SUFFICES ASSUME j # 1 PROVE FALSE
  OBVIOUS
<1>5. 1 \in 1..Len(S) /\ 1 < j
  BY <1>2, <1>4
<1>6. S[1].item < S[j].item
  BY <1>5 DEF Sendable
<1>7. w[Len(w)].item < S[1].item \/ w[Len(w)].item = S[1].item
  BY <1>1, <1>5 DEF Sendable, Linked, Continues
<1> QED BY <1>2, <1>3, <1>5, <1>6, <1>7

\* What is left of a request after a write is linked to what has been sent.
LEMMA CutLinked ==
  ASSUME NEW w \in Seq(Segments), NEW S, NEW P, Sendable(w, S, P), Linked(w, P),
         NEW n \in 0..Len(S), NEW b \in Nat, b > 0 => n < Len(S),
         NEW Q, Q \subseteq LeftOver(S, n, b),
         b > 0 => Piece(S[n + 1].item, S[n + 1].at + b) \in Q,
         n = 0 /\ b = 0 => P \subseteq Q,
         NEW W, W = Sends(w, S, n, b)
  PROVE  W \in Seq(Segments) /\ Linked(W, Q) /\ (Straight(w, P) => Straight(W, Q))
<1>1. PICK m, o : m = Touched(n, b) /\ o = Retained(w, S, n, b)
  OBVIOUS
<1>2. /\ Len(w) \in Nat /\ DOMAIN w = 1..Len(w) /\ Len(S) \in Nat /\ n \in Nat
      /\ m \in 0..Len(S) /\ (m = 0 <=> n = 0 /\ b = 0)
      /\ m = IF b > 0 THEN n + 1 ELSE n
      /\ S \in Seq(Chunks)
      /\ \A i \in 1..Len(w) : w[i] \in Segments
      /\ \A j \in 1..Len(S) : S[j] \in Chunks
  BY <1>1, LenProperties, ElementOfSeq DEF Sendable, Touched
<1>3. /\ \A i \in 1..Len(w) : w[i].item \in Nat /\ w[i].from \in Nat /\ w[i].to \in Nat
      /\ \A j \in 1..Len(S) : S[j].item \in Nat /\ S[j].at \in Nat /\ S[j] = Piece(S[j].item, S[j].at)
  BY <1>2, SegmentFields, ChunkFields, PieceOf
<1>4. \A j \in 1..Len(S) : Continues(w, S[j]) => j = 1
  BY FirstContinues
<1>5. /\ o \in Nat
      /\ W \in Seq(Segments) /\ Len(W) = o + m
      /\ \A i \in 1..o : W[i] = w[i]
      /\ \A q \in 1..m :
           /\ W[o + q].item = S[q].item
           /\ W[o + q].from = IF Continues(w, S[1]) /\ q = 1 THEN Last(w).from ELSE S[q].at
           /\ W[o + q].to = IF q <= n THEN Size(S[q].item) ELSE S[q].at + b
  <2>1. S \in Seq(Chunks)
    BY <1>2
  <2>2. /\ Retained(w, S, n, b) \in Nat
        /\ Sends(w, S, n, b) \in Seq(Segments)
        /\ Len(Sends(w, S, n, b)) = Retained(w, S, n, b) + Touched(n, b)
        /\ \A i \in 1..Retained(w, S, n, b) : Sends(w, S, n, b)[i] = w[i]
        /\ \A q \in 1..Touched(n, b) :
             /\ Sends(w, S, n, b)[Retained(w, S, n, b) + q].item = S[q].item
             /\ Sends(w, S, n, b)[Retained(w, S, n, b) + q].from =
                  IF Continues(w, S[1]) /\ q = 1 THEN Last(w).from ELSE S[q].at
             /\ Sends(w, S, n, b)[Retained(w, S, n, b) + q].to =
                  IF q <= n THEN Size(S[q].item) ELSE S[q].at + b
    BY <2>1, SendsShape, Zenon
  <2> QED BY <1>1, <2>2
<1>6. /\ o <= Len(w)
      /\ m > 0 /\ Continues(w, S[1]) => o + 1 = Len(w) /\ w # << >> /\ Last(w) = w[Len(w)]
      /\ ~(m > 0 /\ Continues(w, S[1])) => o = Len(w)
  <2>1. o \in Nat /\ Len(w) \in Nat
    BY <1>2, <1>5
  <2>2. CASE m > 0 /\ Continues(w, S[1])
    <3>1. o = Len(w) - 1
      BY <1>1, <2>2 DEF Retained
    <3>2. w # << >> /\ Last(w) = w[Len(w)]
      BY <2>2 DEF Continues, Last
    <3> QED BY <2>1, <2>2, <3>1, <3>2
  <2>3. CASE ~(m > 0 /\ Continues(w, S[1]))
    <3>1. o = Len(w)
      BY <1>1, <2>3 DEF Retained
    <3> QED BY <2>1, <2>3, <3>1
  <2> QED BY <2>2, <2>3
<1>7. /\ DOMAIN W = 1..o + m
      /\ \A i \in 1..o : i \in 1..Len(w) /\ W[i] = w[i]
      /\ \A i \in DOMAIN W : i \in 1..o \/ \E q \in 1..m : i = o + q
  <2>1. DOMAIN W = 1..o + m
    BY <1>5, LenProperties
  <2>2. o \in Nat /\ m \in Nat /\ Len(w) \in Nat /\ o <= Len(w)
    <3>1. o \in Nat
      BY <1>5
    <3>2. m \in Nat /\ Len(w) \in Nat
      BY <1>2
    <3> QED BY <1>6, <3>1, <3>2
  <2>3. /\ \A i \in 1..o : i \in 1..Len(w)
        /\ \A i \in 1..o + m : i \in 1..o \/ (i - o \in 1..m /\ i = o + (i - o))
    BY <2>2
  <2> QED BY <1>5, <2>1, <2>2, <2>3
<1>8. o \in Nat /\ m \in Nat /\ \A j \in 1..m : j \in 1..Len(S)
  <2>1. o \in Nat
    BY <1>5
  <2> QED BY <1>2, <2>1
<1>9. CASE m = 0
  <2>1. n = 0 /\ b = 0 /\ P \subseteq Q
    BY <1>2, <1>9
  <2>2. W = w
    <3>1. o = Len(w) /\ Len(W) = Len(w)
      BY <1>5, <1>6, <1>8, <1>9
    <3> QED BY <1>5, <3>1, SeqEqual
  <2>3. Q \subseteq {S[j] : j \in 1..Len(S)}
    BY <1>3, <2>1 DEF LeftOver
  <2>4. Linked(W, Q)
    <3>1. ASSUME NEW i \in DOMAIN w, NEW p \in Q
          PROVE  w[i].item < p.item \/ (i = Len(w) /\ Continues(w, p))
      BY <2>3 DEF Linked, Sendable
    <3> QED BY <2>1, <2>2, <3>1 DEF Linked
  <2>5. Straight(w, P) => Straight(W, Q)
    BY <1>3, <2>2, <2>3 DEF Straight, Sendable
  <2> QED BY <1>5, <2>4, <2>5
<1>10. CASE m # 0
  <2>1. m > 0 /\ 1 \in 1..Len(S)
    BY <1>2, <1>8, <1>10
  <2>2. \A i \in 1..o, j \in 1..Len(S) : w[i].item < S[j].item
    <3>1. \A i \in 1..o : w[i].item < S[1].item
      <4> SUFFICES ASSUME NEW i \in 1..o PROVE w[i].item < S[1].item
        OBVIOUS
      <4>1. i \in DOMAIN w
        BY <1>2, <1>7
      <4>2. CASE Continues(w, S[1])
        <5>1. o + 1 = Len(w) /\ i < o + 1 /\ w[o + 1].item = S[1].item
          BY <1>6, <1>8, <2>1, <4>2 DEF Continues
        <5>2. o + 1 \in DOMAIN w
          BY <1>2, <1>8, <5>1
        <5> QED BY <4>1, <5>1, <5>2 DEF Linked
      <4>3. CASE ~Continues(w, S[1])
        BY <2>1, <4>1, <4>3 DEF Sendable, Linked
      <4> QED BY <4>2, <4>3
    <3>2. \A j \in 1..Len(S) : j = 1 \/ S[1].item < S[j].item
      <4>1. \A j \in 1..Len(S) : j = 1 \/ 1 < j
        BY <1>2
      <4> QED BY <2>1, <4>1 DEF Sendable
    <3>3. \A i \in 1..o : w[i].item \in Nat
      BY <1>3, <1>7
    <3> SUFFICES ASSUME NEW i \in 1..o, NEW j \in 1..Len(S) PROVE w[i].item < S[j].item
      OBVIOUS
    <3>4. w[i].item \in Nat /\ S[1].item \in Nat /\ S[j].item \in Nat
      BY <1>3, <2>1, <3>3
    <3>5. w[i].item < S[1].item /\ (j = 1 \/ S[1].item < S[j].item)
      BY <3>1, <3>2
    <3> QED BY <3>4, <3>5
  <2>3. \A i \in 1..o : w[i].to = Size(w[i].item)
    <3> SUFFICES ASSUME NEW i \in 1..o, w[i].to # Size(w[i].item) PROVE FALSE
      OBVIOUS
    <3>1. i \in DOMAIN w
      BY <1>2, <1>7
    <3>2. PICK p \in P : i = Len(w) /\ Continues(w, p)
      BY <3>1 DEF Linked
    <3>3. Continues(w, S[1])
      BY <1>4, <3>2 DEF Sendable
    <3>4. o + 1 = Len(w)
      BY <1>6, <2>1, <3>3
    <3> QED BY <1>8, <3>2, <3>4
  <2>4. /\ \A i \in 1..o : W[i].item = w[i].item /\ W[i].to = w[i].to /\ W[i].from = w[i].from
        /\ \A q \in 1..m : W[o + q].item = S[q].item
    BY <1>5
  <2>5. ASSUME NEW i \in DOMAIN W, NEW j \in DOMAIN W, i < j
        PROVE  W[i].item < W[j].item
    <3>1. (i \in 1..o \/ \E q \in 1..m : i = o + q) /\ (j \in 1..o \/ \E q \in 1..m : j = o + q)
      BY <1>7
    <3>2. CASE i \in 1..o /\ j \in 1..o
      <4>1. i \in DOMAIN w /\ j \in DOMAIN w
        BY <1>2, <1>7, <3>2
      <4>2. w[i].item < w[j].item
        BY <2>5, <4>1 DEF Linked
      <4> QED BY <2>4, <3>2, <4>2
    <3>3. ASSUME i \in 1..o, NEW q \in 1..m, j = o + q
          PROVE  W[i].item < W[j].item
      <4>1. w[i].item < S[q].item
        BY <1>8, <2>2, <3>3
      <4> QED BY <2>4, <3>3, <4>1
    <3>4. ASSUME NEW p \in 1..m, i = o + p, j \in 1..o
          PROVE  FALSE
      BY <1>8, <2>5, <3>4
    <3>5. ASSUME NEW p \in 1..m, i = o + p, NEW q \in 1..m, j = o + q
          PROVE  W[i].item < W[j].item
      <4>1. p < q /\ p \in 1..Len(S) /\ q \in 1..Len(S)
        BY <1>8, <2>5, <3>5
      <4>2. S[p].item < S[q].item
        BY <4>1 DEF Sendable
      <4> QED BY <2>4, <3>5, <4>2
    <3> QED BY <3>1, <3>2, <3>3, <3>4, <3>5
  <2>6. ASSUME NEW i \in DOMAIN W, NEW p \in Q
        PROVE  W[i].item < p.item \/ (i = Len(W) /\ Continues(W, p))
    <3>1. PICK j \in n + 1..Len(S) :
            p = Piece(S[j].item, IF j = n + 1 THEN S[j].at + b ELSE S[j].at)
      BY DEF LeftOver
    <3>2. j \in 1..Len(S) /\ p.item = S[j].item
      BY <1>2, <3>1 DEF Piece
    <3>3. CASE i \in 1..o
      <4>1. w[i].item < S[j].item
        BY <2>2, <3>2, <3>3
      <4> QED BY <2>4, <3>2, <3>3, <4>1
    <3>4. ASSUME NEW q \in 1..m, i = o + q
          PROVE  W[i].item < p.item \/ (i = Len(W) /\ Continues(W, p))
      <4>1. q \in 1..Len(S) /\ W[i].item = S[q].item
        BY <1>8, <2>4, <3>4
      <4>2. CASE q < j
        <5>1. S[q].item < S[j].item
          BY <3>2, <4>1, <4>2 DEF Sendable
        <5> QED BY <3>2, <4>1, <5>1
      <4>3. CASE ~(q < j)
        <5>1. b > 0 /\ q = n + 1 /\ m = n + 1 /\ j = n + 1
          BY <1>2, <3>1, <3>4, <4>3
        <5>2. i = Len(W) /\ W[i].to = S[j].at + b
          BY <1>2, <1>5, <3>4, <5>1
        <5>3. p.at = S[j].at + b
          BY <3>1, <5>1 DEF Piece
        <5>4. W # << >> /\ Last(W) = W[i]
          BY <2>6, <5>2 DEF Last
        <5> QED BY <3>2, <4>1, <5>1, <5>2, <5>3, <5>4 DEF Continues
      <4> QED BY <4>2, <4>3
    <3> QED BY <1>7, <3>3, <3>4
  <2>7. ASSUME NEW i \in DOMAIN W
        PROVE  W[i].to = Size(W[i].item) \/ (i = Len(W) /\ \E p \in Q : Continues(W, p))
    <3>1. CASE i \in 1..o
      BY <2>3, <2>4, <3>1
    <3>2. ASSUME NEW q \in 1..m, i = o + q, q <= n
          PROVE  W[i].to = Size(W[i].item)
      BY <1>5, <3>2
    <3>3. ASSUME NEW q \in 1..m, i = o + q, ~(q <= n)
          PROVE  i = Len(W) /\ \E p \in Q : Continues(W, p)
      <4>1. b > 0 /\ q = n + 1 /\ m = n + 1
        BY <1>2, <3>3
      <4>2. i = Len(W) /\ W[i].to = S[n + 1].at + b /\ W[i].item = S[n + 1].item
        BY <1>2, <1>5, <3>3, <4>1
      <4>3. W # << >> /\ Last(W) = W[i]
        BY <2>7, <4>2 DEF Last
      <4>4. PICK p \in Q : p = Piece(S[n + 1].item, S[n + 1].at + b)
        BY <4>1
      <4>5. Continues(W, p)
        BY <4>2, <4>3, <4>4 DEF Continues, Piece
      <4> QED BY <4>2, <4>5
    <3> QED BY <1>7, <3>1, <3>2, <3>3
  <2>8. W # << >> /\ W[1].item = Header
    <3>1. W # << >> /\ 1 \in DOMAIN W
      BY <1>5, <1>7, <1>8, <2>1
    <3>2. CASE o > 0
      <4>1. 1 \in 1..o /\ 1 \in DOMAIN w /\ w # << >>
        BY <1>2, <1>7, <1>8, <3>2
      <4> QED BY <2>4, <3>1, <4>1 DEF Linked
    <3>3. CASE ~(o > 0)
      <4>1. o = 0 /\ W[1].item = S[1].item
        <5>1. o = 0 /\ o + 1 = 1 /\ 1 \in 1..m
          BY <1>8, <2>1, <3>3
        <5>2. W[o + 1].item = S[1].item
          BY <2>4, <5>1
        <5> QED BY <5>1, <5>2
      <4>2. CASE Continues(w, S[1])
        <5>1. Len(w) = 1 /\ w # << >> /\ w[1].item = S[1].item
          <6>1. o + 1 = Len(w) /\ w # << >> /\ Last(w) = w[Len(w)]
            BY <1>6, <2>1, <4>2
          <6>2. Len(w) = 1
            BY <4>1, <6>1
          <6>3. Last(w) = w[1]
            BY <6>1, <6>2
          <6> QED BY <4>2, <6>1, <6>2, <6>3 DEF Continues
        <5> QED BY <3>1, <4>1, <5>1 DEF Linked
      <4>3. CASE ~Continues(w, S[1])
        <5>1. w = << >>
          BY <1>6, <4>1, <4>3, EmptySeq
        <5>2. PICK j \in 1..Len(S) : S[j] = Piece(Header, 0)
          BY <5>1 DEF Linked, Sendable
        <5>3. S[j].item = 0 /\ Header = 0
          BY <5>2, Sizes DEF Piece
        <5>4. j = 1 \/ S[1].item < S[j].item
          <6>1. j = 1 \/ 1 < j
            BY <1>2
          <6> QED BY <2>1, <6>1 DEF Sendable
        <5> QED BY <1>3, <2>1, <3>1, <4>1, <5>3, <5>4
      <4> QED BY <4>2, <4>3
    <3> QED BY <3>2, <3>3
  <2>9. Straight(w, P) => Straight(W, Q)
    <3> SUFFICES ASSUME Straight(w, P) PROVE Straight(W, Q)
      OBVIOUS
    <3>1. \A j \in 1..Len(S) : S[j].at > 0 => j = 1 /\ Continues(w, S[1])
      <4> SUFFICES ASSUME NEW j \in 1..Len(S), S[j].at > 0
                   PROVE  j = 1 /\ Continues(w, S[1])
        OBVIOUS
      <4>1. S[j] \in P
        <5>1. S[j].at # 0
          BY <1>3
        <5> QED BY <5>1 DEF Sendable
      <4>2. Continues(w, S[j])
        BY <4>1 DEF Straight
      <4> QED BY <1>4, <4>2
    <3>2. ASSUME NEW i \in DOMAIN W PROVE W[i].from = 0
      <4>1. CASE i \in 1..o
        <5>1. i \in DOMAIN w
          BY <1>2, <1>7, <4>1
        <5> QED BY <2>4, <4>1, <5>1 DEF Straight
      <4>2. ASSUME NEW q \in 1..m, i = o + q
            PROVE  W[i].from = 0
        <5>1. q \in 1..Len(S) /\ S[q].at \in Nat
          BY <1>3, <1>8
        <5>2. W[i].from = IF Continues(w, S[1]) /\ q = 1 THEN Last(w).from ELSE S[q].at
          BY <1>5, <4>2
        <5>3. CASE Continues(w, S[1]) /\ q = 1
          <6>1. Last(w) = w[Len(w)] /\ Len(w) \in DOMAIN w
            <7>1. o + 1 = Len(w) /\ Last(w) = w[Len(w)]
              BY <1>6, <2>1, <5>3
            <7> QED BY <1>2, <1>8, <7>1
          <6> QED BY <5>2, <5>3, <6>1 DEF Straight
        <5>4. CASE ~(Continues(w, S[1]) /\ q = 1)
          BY <3>1, <5>1, <5>2, <5>4
        <5> QED BY <5>3, <5>4
      <4> QED BY <1>7, <4>1, <4>2
    <3>3. ASSUME NEW p \in Q, p.at > 0 PROVE Continues(W, p)
      <4>1. PICK j \in n + 1..Len(S) :
              p = Piece(S[j].item, IF j = n + 1 THEN S[j].at + b ELSE S[j].at)
        BY DEF LeftOver
      <4>2. j \in 1..Len(S) /\ S[j].at \in Nat
        BY <1>2, <1>3, <4>1
      <4>3. CASE j = n + 1 /\ b > 0
        <5>1. m = n + 1 /\ m \in 1..m /\ ~(m <= n)
          BY <1>2, <4>3
        <5>2. /\ Len(W) = o + m /\ W[o + m].item = S[j].item
              /\ W[o + m].to = S[j].at + b
          BY <1>5, <4>3, <5>1
        <5>3. W # << >> /\ Last(W) = W[o + m]
          BY <1>8, <2>1, <5>2, <2>8 DEF Last
        <5> QED BY <4>1, <4>3, <5>2, <5>3 DEF Continues, Piece
      <4>4. CASE ~(j = n + 1 /\ b > 0)
        <5>1. p.at = S[j].at
          BY <1>2, <4>1, <4>2, <4>4 DEF Piece
        <5>2. j = 1
          BY <3>1, <3>3, <4>2, <5>1
        <5> QED BY <1>2, <1>10, <4>1, <4>4, <5>2
      <4> QED BY <4>3, <4>4
    <3> QED BY <3>2, <3>3 DEF Straight
  <2> QED BY <1>5, <2>5, <2>6, <2>7, <2>8, <2>9 DEF Linked
<1> QED BY <1>9, <1>10

\* A piece of an item after all those sent may be left too.
LEMMA LinkedMore ==
  ASSUME NEW w, NEW P, Linked(w, P), NEW r, \A i \in DOMAIN w : w[i].item < r.item
  PROVE  Linked(w, P \cup {r})
BY DEF Linked

-----------------------------------------------------------------------------
(* What Flush hands to the writer.                                         *)

\* The parts of the invariant that say what Streams(c) is made of.
LEMMA StreamsState ==
  ASSUME StreamsTypes
  PROVE  /\ Len(buffer) \in Nat /\ DOMAIN buffer = 1..Len(buffer)
         /\ \A i \in 1..Len(buffer) : buffer[i] \in Spans /\ buffer[i] \in Nat /\ buffer[i] # Header
                                      /\ buffer[i] # Terminal /\ buffer[i] \in Header..Terminal
         /\ \A c \in Connections :
              /\ header[c] \in Nat /\ header[c] <= Size(Header)
              /\ terminal[c] \in Nat /\ terminal[c] <= Size(Terminal)
              /\ wire[c] \in Seq(Segments)
              /\ remnant[c] \in Pieces
<1>1. /\ Len(buffer) \in Nat /\ DOMAIN buffer = 1..Len(buffer)
      /\ \A i \in 1..Len(buffer) : buffer[i] \in Spans
  BY LenProperties, ElementOfSeq DEF StreamsTypes
<1>2. \A s \in Spans : s \in Nat /\ s # Header /\ s # Terminal /\ s \in Header..Terminal
  BY Sizes
<1>3. \A c \in Connections :
         /\ header[c] \in 0..Size(Header) /\ terminal[c] \in 0..Size(Terminal)
         /\ wire[c] \in Seq(Segments) /\ remnant[c] \in Pieces
  BY DEF StreamsTypes
<1>4. Size(Header) \in Nat /\ Size(Terminal) \in Nat
  BY Sizes
<1> QED BY <1>1, <1>2, <1>3, <1>4

LEMMA RemnantPiece ==
  ASSUME NEW p \in Pieces, p # None
  PROVE  /\ p \in Chunks /\ p.item \in Spans /\ p.item \in Nat
         /\ p.at \in Nat /\ 0 < p.at /\ p.at < Size(p.item)
         /\ p.item # Header /\ p.item # Terminal
<1>1. p \in [item : Spans, at : 1..(Size(1) - 1)]
  BY DEF Pieces
<1>2. p = [item |-> p.item, at |-> p.at] /\ p.item \in Spans /\ p.at \in 1..(Size(1) - 1)
  BY <1>1
<1>3. /\ p.at \in Nat /\ 0 < p.at /\ p.at < Size(1) /\ Size(p.item) = Size(1)
      /\ p.item \in Nat /\ p.item \in Header..Terminal /\ p.item # Header /\ p.item # Terminal
  BY <1>2, Sizes
<1> QED BY <1>2, <1>3 DEF Chunks

LEMMA RestShape ==
  ASSUME NEW item \in Header..Terminal, NEW at \in Nat
  PROVE  /\ Rest(item, at) \in Seq(Chunks)
         /\ at < Size(item) => Len(Rest(item, at)) = 1 /\ Rest(item, at)[1] = Piece(item, at)
         /\ ~(at < Size(item)) => Len(Rest(item, at)) = 0
<1>1. Piece(item, at) \in Chunks
  BY PieceFields
<1>2. CASE at < Size(item)
  <2>1. Rest(item, at) = <<Piece(item, at)>>
    BY <1>2 DEF Rest
  <2> QED BY <1>1, <1>2, <2>1
<1>3. CASE ~(at < Size(item))
  <2>1. Rest(item, at) = << >>
    BY <1>3 DEF Rest
  <2> QED BY <1>3, <2>1
<1> QED BY <1>2, <1>3

\* The lengths of the parts of BeforeSpans(c).
HeaderPieces(c) == IF header[c] < Size(Header) THEN 1 ELSE 0
RemnantPieces(c) == IF remnant[c] = None THEN 0 ELSE 1
Pending(c) == HeaderPieces(c) + RemnantPieces(c)

LEMMA BeforeSpansShape ==
  ASSUME StreamsTypes, NEW c \in Connections
  PROVE  /\ BeforeSpans(c) \in Seq(Chunks) /\ Len(BeforeSpans(c)) = Pending(c)
         /\ Pending(c) \in 0..2
         /\ header[c] < Size(Header) =>
              Pending(c) >= 1 /\ BeforeSpans(c)[1] = Piece(Header, header[c])
         /\ remnant[c] # None => Pending(c) >= 1 /\ BeforeSpans(c)[Pending(c)] = remnant[c]
         /\ Pending(c) = 2 => header[c] < Size(Header)
         /\ Pending(c) = 1 => header[c] < Size(Header) \/ remnant[c] # None
<1>1. PICK u, v : /\ u = Rest(Header, header[c])
                  /\ v = IF remnant[c] = None THEN << >> ELSE <<remnant[c]>>
  OBVIOUS
<1>2. header[c] \in Nat /\ Header \in Header..Terminal
  BY StreamsState, Sizes
<1>3. /\ u \in Seq(Chunks) /\ Len(u) = HeaderPieces(c)
      /\ header[c] < Size(Header) => u[1] = Piece(Header, header[c])
  BY <1>1, <1>2, RestShape DEF HeaderPieces
<1>4. /\ v \in Seq(Chunks) /\ Len(v) = RemnantPieces(c)
      /\ remnant[c] # None => v[1] = remnant[c]
  <2>1. CASE remnant[c] = None
    BY <1>1, <2>1 DEF RemnantPieces
  <2>2. CASE remnant[c] # None
    <3>1. remnant[c] \in Chunks
      BY <2>2, StreamsState, RemnantPiece
    <3>2. v = <<remnant[c]>>
      BY <1>1, <2>2
    <3> QED BY <2>2, <3>1, <3>2 DEF RemnantPieces
  <2> QED BY <2>1, <2>2
<1>5. u \in Seq(Chunks) /\ v \in Seq(Chunks)
  BY <1>3, <1>4
<1>6. /\ u \o v \in Seq(Chunks) /\ Len(u \o v) = Len(u) + Len(v)
      /\ \A i \in 1..Len(u) : (u \o v)[i] = u[i]
      /\ \A i \in 1..Len(v) : (u \o v)[Len(u) + i] = v[i]
  BY <1>5, ConcatenatedChunks, Zenon
<1>7. BeforeSpans(c) = u \o v
  BY <1>1 DEF BeforeSpans
<1>8. /\ BeforeSpans(c) \in Seq(Chunks)
      /\ Len(BeforeSpans(c)) = HeaderPieces(c) + RemnantPieces(c)
      /\ \A i \in 1..HeaderPieces(c) : BeforeSpans(c)[i] = u[i]
      /\ \A i \in 1..RemnantPieces(c) : BeforeSpans(c)[HeaderPieces(c) + i] = v[i]
  BY <1>3, <1>4, <1>6, <1>7
<1>9. /\ header[c] < Size(Header) => HeaderPieces(c) = 1
      /\ ~(header[c] < Size(Header)) => HeaderPieces(c) = 0
      /\ remnant[c] = None => RemnantPieces(c) = 0
      /\ remnant[c] # None => RemnantPieces(c) = 1
  BY DEF HeaderPieces, RemnantPieces
<1> QED BY <1>3, <1>4, <1>8, <1>9 DEF Pending

LEMMA StreamsShape ==
  ASSUME StreamsTypes, NEW c \in Connections
  PROVE  /\ Streams(c) \in Seq(Chunks) /\ Len(Streams(c)) \in Nat /\ Len(Streams(c)) >= Pending(c)
         /\ \A i \in 1..Pending(c) : Streams(c)[i] = BeforeSpans(c)[i]
         /\ ~shuttingDown[c] =>
              /\ Len(Streams(c)) = Pending(c) + Len(buffer)
              /\ \A i \in 1..Len(buffer) : Streams(c)[Pending(c) + i] = Piece(buffer[i], 0)
         /\ shuttingDown[c] /\ terminal[c] < Size(Terminal) =>
              /\ Len(Streams(c)) = Pending(c) + 1
              /\ Streams(c)[Pending(c) + 1] = Piece(Terminal, terminal[c])
         /\ shuttingDown[c] /\ ~(terminal[c] < Size(Terminal)) => Len(Streams(c)) = Pending(c)
<1>1. PICK u, v : /\ u = BeforeSpans(c)
                  /\ v = IF shuttingDown[c] THEN Rest(Terminal, terminal[c])
                         ELSE [i \in DOMAIN buffer |-> Piece(buffer[i], 0)]
  OBVIOUS
<1>2. u \in Seq(Chunks) /\ Len(u) = Pending(c) /\ Pending(c) \in Nat
  BY <1>1, BeforeSpansShape
<1>3. CASE ~shuttingDown[c]
  <2>1. v = [i \in 1..Len(buffer) |-> Piece(buffer[i], 0)]
    BY <1>1, <1>3, StreamsState
  <2>2. \A i \in 1..Len(buffer) : Piece(buffer[i], 0) \in Chunks
    BY StreamsState, PieceFields
  <2>3. Len(buffer) \in Nat
    BY StreamsState
  <2>4. v \in Seq(Chunks)
    BY <2>1, <2>2, <2>3
  <2>5. Len(v) = Len(buffer)
    <3>1. DOMAIN v = 1..Len(buffer) /\ Len(v) \in Nat /\ DOMAIN v = 1..Len(v)
      BY <2>1, <2>4, LenProperties
    <3> QED BY <2>3, <3>1
  <2>6. \A i \in 1..Len(buffer) : v[i] = Piece(buffer[i], 0)
    BY <2>1
  <2>7. u \in Seq(Chunks)
    BY <1>2
  <2>8. /\ u \o v \in Seq(Chunks) /\ Len(u \o v) = Len(u) + Len(v)
        /\ \A i \in 1..Len(u) : (u \o v)[i] = u[i]
        /\ \A i \in 1..Len(v) : (u \o v)[Len(u) + i] = v[i]
    BY <2>4, <2>7, ConcatenatedChunks, Zenon
  <2>9. Streams(c) = u \o v
    BY <1>1 DEF Streams
  <2> QED BY <1>1, <1>2, <1>3, <2>3, <2>5, <2>6, <2>8, <2>9
<1>4. CASE shuttingDown[c]
  <2>1. v = Rest(Terminal, terminal[c]) /\ Terminal \in Header..Terminal /\ terminal[c] \in Nat
    BY <1>1, <1>4, StreamsState, Sizes
  <2>2. /\ v \in Seq(Chunks)
        /\ terminal[c] < Size(Terminal) => Len(v) = 1 /\ v[1] = Piece(Terminal, terminal[c])
        /\ ~(terminal[c] < Size(Terminal)) => Len(v) = 0
    BY <2>1, RestShape
  <2>3. u \in Seq(Chunks) /\ v \in Seq(Chunks)
    BY <1>2, <2>2
  <2>4. /\ u \o v \in Seq(Chunks) /\ Len(u \o v) = Len(u) + Len(v)
        /\ \A i \in 1..Len(u) : (u \o v)[i] = u[i]
        /\ \A i \in 1..Len(v) : (u \o v)[Len(u) + i] = v[i]
    BY <2>3, ConcatenatedChunks, Zenon
  <2>5. Streams(c) = u \o v
    BY <1>1 DEF Streams
  <2>6. /\ Streams(c) \in Seq(Chunks) /\ Len(Streams(c)) = Pending(c) + Len(v)
        /\ \A i \in 1..Pending(c) : Streams(c)[i] = BeforeSpans(c)[i]
        /\ \A i \in 1..Len(v) : Streams(c)[Pending(c) + i] = v[i]
    BY <1>1, <1>2, <2>4, <2>5
  <2>7. CASE terminal[c] < Size(Terminal)
    BY <1>2, <1>4, <2>2, <2>6, <2>7
  <2>8. CASE ~(terminal[c] < Size(Terminal))
    BY <1>2, <1>4, <2>2, <2>6, <2>8
  <2> QED BY <2>7, <2>8
<1> QED BY <1>3, <1>4

\* What each piece is.
LEMMA StreamsElements ==
  ASSUME StreamsTypes, NEW c \in Connections, NEW j \in 1..Len(Streams(c))
  PROVE  \/ j = 1 /\ header[c] < Size(Header) /\ Streams(c)[j] = Piece(Header, header[c])
            /\ Pending(c) >= 1
         \/ j = Pending(c) /\ remnant[c] # None /\ Streams(c)[j] = remnant[c]
         \/ ~shuttingDown[c] /\ \E i \in 1..Len(buffer) :
              j = Pending(c) + i /\ Streams(c)[j] = Piece(buffer[i], 0)
         \/ shuttingDown[c] /\ j = Pending(c) + 1 /\ terminal[c] < Size(Terminal)
            /\ Streams(c)[j] = Piece(Terminal, terminal[c])
<1>1. /\ Len(buffer) \in Nat /\ Len(Streams(c)) \in Nat /\ Pending(c) \in 0..2
  BY StreamsState, StreamsShape, BeforeSpansShape
<1>2. CASE j <= Pending(c)
  <2>1. j \in 1..Pending(c) /\ Pending(c) >= 1
    BY <1>1, <1>2
  <2>2. Streams(c)[j] = BeforeSpans(c)[j]
    BY <2>1, StreamsShape
  <2>3. CASE j = 1 /\ header[c] < Size(Header)
    BY <2>1, <2>2, <2>3, BeforeSpansShape
  <2>4. CASE ~(j = 1 /\ header[c] < Size(Header))
    <3>1. j = Pending(c) /\ remnant[c] # None
      <4>1. CASE header[c] < Size(Header)
        <5>1. j = 2 /\ Pending(c) = 2
          BY <1>1, <2>1, <2>4, <4>1
        <5>2. remnant[c] # None
          BY <5>1 DEF Pending, HeaderPieces, RemnantPieces
        <5> QED BY <5>1, <5>2
      <4>2. CASE ~(header[c] < Size(Header))
        <5>1. Pending(c) = 1 /\ j = 1
          BY <1>1, <2>1, <4>2, BeforeSpansShape
        <5> QED BY <4>2, <5>1, BeforeSpansShape
      <4> QED BY <4>1, <4>2
    <3> QED BY <2>2, <3>1, BeforeSpansShape
  <2> QED BY <2>3, <2>4
<1>3. CASE ~(j <= Pending(c)) /\ ~shuttingDown[c]
  <2>1. PICK i : i = j - Pending(c)
    OBVIOUS
  <2>2. Len(Streams(c)) = Pending(c) + Len(buffer)
    BY <1>3, StreamsShape
  <2>3. i \in 1..Len(buffer) /\ j = Pending(c) + i
    BY <1>1, <1>3, <2>1, <2>2
  <2> QED BY <1>3, <2>3, StreamsShape
<1>4. CASE ~(j <= Pending(c)) /\ shuttingDown[c]
  <2>1. terminal[c] < Size(Terminal)
    <3>1. SUFFICES ASSUME ~(terminal[c] < Size(Terminal)) PROVE FALSE
      OBVIOUS
    <3>2. Len(Streams(c)) = Pending(c)
      BY <1>4, <3>1, StreamsShape
    <3> QED BY <1>1, <1>4, <3>2
  <2>2. Len(Streams(c)) = Pending(c) + 1 /\ Streams(c)[Pending(c) + 1] = Piece(Terminal, terminal[c])
    BY <1>4, <2>1, StreamsShape
  <2>3. j = Pending(c) + 1
    BY <1>1, <1>4, <2>2
  <2> QED BY <1>4, <2>1, <2>2, <2>3
<1> QED BY <1>2, <1>3, <1>4

LEMMA HeldElements ==
  ASSUME StreamsTypes, NEW c \in Connections, NEW p
  PROVE  p \in Held(c) <=>
           \/ p = Piece(Header, header[c]) /\ header[c] < Size(Header)
           \/ p = remnant[c] /\ remnant[c] # None
           \/ p = Piece(Terminal, terminal[c]) /\ terminal[c] < Size(Terminal) /\ shuttingDown[c]
<1>1. /\ Header \in Header..Terminal /\ Terminal \in Header..Terminal /\ Header # Terminal
      /\ header[c] \in Nat /\ terminal[c] \in Nat
  BY StreamsState, Sizes
<1>2. /\ Piece(Header, header[c]).item = Header /\ Piece(Header, header[c]).at = header[c]
      /\ Piece(Terminal, terminal[c]).item = Terminal /\ Piece(Terminal, terminal[c]).at = terminal[c]
  BY <1>1, PieceFields
<1> QED BY <1>1, <1>2 DEF Held

LEMMA HeldInStreams ==
  ASSUME StreamsTypes, NEW c \in Connections, NEW p \in Held(c)
  PROVE  \E j \in 1..Len(Streams(c)) : p = Streams(c)[j]
<1>1. /\ Len(Streams(c)) \in Nat /\ Len(Streams(c)) >= Pending(c) /\ Pending(c) \in 0..2
  BY StreamsShape, BeforeSpansShape
<1>2. CASE p = Piece(Header, header[c]) /\ header[c] < Size(Header)
  <2>1. 1 \in 1..Pending(c) /\ 1 \in 1..Len(Streams(c))
    BY <1>1, <1>2, BeforeSpansShape
  <2>2. Streams(c)[1] = BeforeSpans(c)[1]
    BY <2>1, StreamsShape
  <2> QED BY <1>2, <2>1, <2>2, BeforeSpansShape
<1>3. CASE p = remnant[c] /\ remnant[c] # None
  <2>1. Pending(c) \in 1..Pending(c) /\ Pending(c) \in 1..Len(Streams(c))
    BY <1>1, <1>3, BeforeSpansShape
  <2>2. Streams(c)[Pending(c)] = BeforeSpans(c)[Pending(c)]
    BY <2>1, StreamsShape
  <2> QED BY <1>3, <2>1, <2>2, BeforeSpansShape
<1>4. CASE p = Piece(Terminal, terminal[c]) /\ terminal[c] < Size(Terminal) /\ shuttingDown[c]
  <2>1. /\ Len(Streams(c)) = Pending(c) + 1
        /\ Streams(c)[Pending(c) + 1] = Piece(Terminal, terminal[c])
    BY <1>4, StreamsShape
  <2>2. Pending(c) + 1 \in 1..Len(Streams(c))
    BY <1>1, <2>1
  <2> QED BY <1>4, <2>1, <2>2
<1> QED BY <1>2, <1>3, <1>4, HeldElements

\* On the wire are the header, spans that were begun and the terminal chunk.
LEMMA WireItems ==
  ASSUME StreamsTypes, NEW c \in Connections, NEW i \in DOMAIN wire[c]
  PROVE  LET item == wire[c][i].item IN
         /\ item \in Nat
         /\ item = Header \/ (item \in Spans /\ item \in Begun) \/ item = Terminal
<1>1. wire[c] \in Seq(Segments)
  BY StreamsState
<1>2. wire[c][i] \in Segments
  BY <1>1, ElementOfSeq, LenProperties
<1>3. \A t \in Header..Terminal : t = Header \/ t \in Spans \/ t = Terminal
  BY Sizes
<1>4. wire[c][i].item \in Spans => wire[c][i].item \in Begun
  BY DEF Begun
<1> QED BY <1>2, <1>3, <1>4, SegmentFields

\* Every piece has its place after those before it and after the wire.
LEMMA StreamsSendable ==
  ASSUME StreamsTypes, TerminalIsLast, Ordered, NEW c \in Connections
  PROVE  Sendable(wire[c], Streams(c), Held(c))
<1> DEFINE S == Streams(c)
<1>1. /\ S \in Seq(Chunks) /\ Len(S) \in Nat /\ Pending(c) \in 0..2
      /\ Len(buffer) \in Nat /\ header[c] \in Nat /\ terminal[c] \in Nat
      /\ MaxSpans \in Nat /\ Header = 0 /\ Terminal = MaxSpans + 1 /\ Spans = 1..MaxSpans
      /\ Header \in Header..Terminal /\ Terminal \in Header..Terminal
  BY StreamsShape, BeforeSpansShape, StreamsState, Sizes
<1>2. /\ Piece(Header, header[c]).item = 0
      /\ Piece(Terminal, terminal[c]).item = Terminal
      /\ \A i \in 1..Len(buffer) : /\ Piece(buffer[i], 0).item = buffer[i]
                                   /\ Piece(buffer[i], 0).at = 0 /\ buffer[i] \in Spans
  BY <1>1, StreamsState, PieceFields
<1>3. remnant[c] # None => /\ remnant[c].item \in Spans /\ remnant[c].item \in Begun
                           /\ remnant[c].item \in HalfWritten
  BY StreamsState, RemnantPiece DEF Begun, HalfWritten, Remnants
<1>4. \A i \in 1..Len(buffer) : \A s \in Begun : s < buffer[i]
  BY StreamsState DEF Ordered
<1>5. \A i, j \in 1..Len(buffer) : i < j => buffer[i] < buffer[j]
  BY StreamsState DEF Ordered
<1> HIDE DEF S
<1>6. \A j \in 1..Len(S) :
        \/ j = 1 /\ Pending(c) >= 1 /\ S[j].item = 0 /\ S[j] \in Held(c)
        \/ j = Pending(c) /\ S[j].item \in Spans /\ S[j].item \in Begun /\ S[j] \in Held(c)
        \/ ~shuttingDown[c] /\ \E i \in 1..Len(buffer) :
             j = Pending(c) + i /\ S[j].item = buffer[i] /\ S[j].at = 0
        \/ shuttingDown[c] /\ j = Pending(c) + 1 /\ S[j].item = Terminal /\ S[j] \in Held(c)
  BY <1>2, <1>3, StreamsElements, HeldElements DEF S
<1>7. ASSUME NEW i \in 1..Len(S), NEW j \in 1..Len(S), i < j
      PROVE  S[i].item < S[j].item
  <2>1. i \in Nat /\ j \in Nat /\ j > 1
    BY <1>1, <1>7
  <2>2. \/ j = Pending(c) /\ S[j].item \in Spans /\ S[j].item \in Begun
        \/ ~shuttingDown[c] /\ \E t \in 1..Len(buffer) : j = Pending(c) + t /\ S[j].item = buffer[t]
        \/ shuttingDown[c] /\ j = Pending(c) + 1 /\ S[j].item = Terminal
    BY <1>6, <2>1
  <2>3. \/ i = 1 /\ Pending(c) >= 1 /\ S[i].item = 0
        \/ i = Pending(c) /\ S[i].item \in Spans /\ S[i].item \in Begun
        \/ ~shuttingDown[c] /\ \E t \in 1..Len(buffer) : i = Pending(c) + t /\ S[i].item = buffer[t]
        \/ shuttingDown[c] /\ i = Pending(c) + 1 /\ S[i].item = Terminal
    BY <1>6
  <2>4. CASE j = Pending(c) /\ S[j].item \in Spans /\ S[j].item \in Begun
    <3>1. S[i].item = 0
      BY <1>1, <1>7, <2>3, <2>4
    <3> QED BY <1>1, <2>4, <3>1
  <2>5. ASSUME ~shuttingDown[c], NEW t \in 1..Len(buffer), j = Pending(c) + t, S[j].item = buffer[t]
        PROVE  S[i].item < S[j].item
    <3>1. CASE S[i].item = 0
      BY <1>1, <1>2, <2>5, <3>1
    <3>2. CASE S[i].item \in Spans /\ S[i].item \in Begun
      BY <1>4, <2>5, <3>2
    <3>3. ASSUME NEW h \in 1..Len(buffer), i = Pending(c) + h, S[i].item = buffer[h]
          PROVE  S[i].item < S[j].item
      <4>1. h < t
        BY <1>1, <1>7, <2>5, <3>3
      <4> QED BY <1>5, <2>5, <3>3, <4>1
    <3> QED BY <2>3, <2>5, <3>1, <3>2, <3>3
  <2>6. CASE shuttingDown[c] /\ j = Pending(c) + 1 /\ S[j].item = Terminal
    <3>1. S[i].item = 0 \/ S[i].item \in Spans
      BY <1>1, <1>7, <2>3, <2>6
    <3> QED BY <1>1, <2>6, <3>1
  <2> QED BY <2>2, <2>4, <2>5, <2>6
<1>8. ASSUME NEW j \in 1..Len(S)
      PROVE  S[j] \in Held(c) \/ (S[j].at = 0 /\ \A i \in DOMAIN wire[c] : wire[c][i].item < S[j].item)
  <2>1. SUFFICES ASSUME ~shuttingDown[c],
                        NEW t \in 1..Len(buffer), S[j].item = buffer[t] /\ S[j].at = 0,
                        NEW i \in DOMAIN wire[c]
                 PROVE  wire[c][i].item < buffer[t]
    BY <1>6
  <2>2. wire[c][i].item # Terminal
    <3>1. ~(terminal[c] > 0)
      BY <2>1 DEF TerminalIsLast
    <3> QED BY <3>1 DEF TerminalIsLast
  <2>3. wire[c][i].item = Header \/ (wire[c][i].item \in Spans /\ wire[c][i].item \in Begun)
    BY <2>2, WireItems
  <2> QED BY <1>1, <1>2, <1>4, <2>3
<1>9. \A p \in Held(c) : \E j \in 1..Len(S) : p = S[j]
  BY HeldInStreams DEF S
<1> QED BY <1>1, <1>7, <1>8, <1>9 DEF Sendable, S

-----------------------------------------------------------------------------
(* What a write that stops after n pieces and b bytes does.                *)

IsCut(S, n, b) ==
  n \in 0..Len(S) /\ b \in Nat /\ (b > 0 => n < Len(S) /\ b < Left(S[n + 1]))

LEMMA CutsShape ==
  ASSUME NEW S, NEW cut \in Cuts(S)
  PROVE  IsCut(S, cut[1], cut[2]) /\ cut = <<cut[1], cut[2]>>
<1>1. Size(1) \in Nat
  BY Sizes
<1>2. /\ cut \in (0..Len(S)) \X (0..Size(1))
      /\ cut[2] > 0 => cut[1] < Len(S) /\ cut[2] < Left(S[cut[1] + 1])
  BY DEF Cuts
<1>3. cut[1] \in 0..Len(S) /\ cut[2] \in 0..Size(1) /\ cut = <<cut[1], cut[2]>>
  BY <1>2
<1> QED BY <1>1, <1>2, <1>3 DEF IsCut

\* How many spans leave the buffer.
Took(c, n, b) == SpansDone(c, n) + IF ReachesSpans(c, n) /\ b > 0 THEN 1 ELSE 0

LEMMA Reaches ==
  ASSUME StreamsTypes, NEW c \in Connections, NEW n, NEW b, IsCut(Streams(c), n, b)
  PROVE  /\ n \in Nat /\ b \in Nat /\ Pending(c) \in Nat /\ Len(Streams(c)) \in Nat
         /\ ReachesSpans(c, n) =>
              /\ ~shuttingDown[c] /\ n >= Pending(c) /\ n <= Len(Streams(c))
              /\ Len(Streams(c)) = Pending(c) + Len(buffer)
              /\ SpansDone(c, n) = n - Pending(c)
         /\ ~shuttingDown[c] /\ ~ReachesSpans(c, n) =>
              n < Pending(c) \/ (n = 0 /\ b = 0 /\ Pending(c) = 0 /\ Len(buffer) = 0)
         /\ ~ReachesSpans(c, n) => SpansDone(c, n) = 0 /\ Took(c, n, b) = 0
<1>1. /\ Streams(c) \in Seq(Chunks) /\ Len(Streams(c)) \in Nat /\ Pending(c) \in 0..2
      /\ Len(BeforeSpans(c)) = Pending(c) /\ Len(buffer) \in Nat
      /\ ~shuttingDown[c] => Len(Streams(c)) = Pending(c) + Len(buffer)
  BY StreamsShape, BeforeSpansShape, StreamsState
<1>2. n \in 0..Len(Streams(c)) /\ b \in Nat /\ (b > 0 => n < Len(Streams(c)))
  BY DEF IsCut
<1>3. CASE ReachesSpans(c, n)
  <2>1. ~shuttingDown[c] /\ n >= Pending(c) /\ SpansDone(c, n) = n - Pending(c)
    BY <1>1, <1>3 DEF ReachesSpans, SpansDone
  <2> QED BY <1>1, <1>2, <1>3, <2>1
<1>4. CASE ~ReachesSpans(c, n)
  <2>1. SpansDone(c, n) = 0 /\ Took(c, n, b) = 0
    BY <1>4 DEF SpansDone, Took
  <2>2. ~shuttingDown[c] => n < Pending(c) \/ Streams(c) = << >>
    BY <1>1, <1>2, <1>4 DEF ReachesSpans
  <2>3. Streams(c) = << >> => Len(Streams(c)) = 0
    OBVIOUS
  <2>4. Streams(c) = << >> /\ ~shuttingDown[c] => Pending(c) = 0 /\ Len(buffer) = 0 /\ n = 0 /\ b = 0
    BY <1>1, <1>2, <2>3
  <2> QED BY <1>1, <1>2, <1>4, <2>1, <2>2, <2>4
<1> QED BY <1>3, <1>4

LEMMA TookShape ==
  ASSUME StreamsTypes, NEW c \in Connections, NEW n, NEW b, IsCut(Streams(c), n, b)
  PROVE  /\ Took(c, n, b) \in 0..Len(buffer) /\ SpansDone(c, n) \in 0..Took(c, n, b)
         /\ ReachesSpans(c, n) /\ b > 0 =>
              /\ Took(c, n, b) = SpansDone(c, n) + 1
              /\ Took(c, n, b) = n + 1 - Pending(c)
              /\ StrayAfter(c, n, b) = Piece(buffer[Took(c, n, b)], b)
              /\ Streams(c)[n + 1] = Piece(buffer[Took(c, n, b)], 0)
              /\ StrayAfter(c, n, b) \in Pieces /\ StrayAfter(c, n, b) # None
              /\ StrayAfter(c, n, b).item = buffer[Took(c, n, b)]
         /\ ReachesSpans(c, n) /\ ~(b > 0) =>
              Took(c, n, b) = SpansDone(c, n) /\ StrayAfter(c, n, b) = None
         /\ ~ReachesSpans(c, n) => StrayAfter(c, n, b) = stray
<1>1. /\ n \in Nat /\ b \in Nat /\ Pending(c) \in Nat /\ Len(Streams(c)) \in Nat
      /\ Len(buffer) \in Nat
      /\ n \in 0..Len(Streams(c)) /\ (b > 0 => n < Len(Streams(c)) /\ b < Left(Streams(c)[n + 1]))
  BY Reaches, StreamsState DEF IsCut
<1>2. CASE ~ReachesSpans(c, n)
  <2>1. SpansDone(c, n) = 0 /\ Took(c, n, b) = 0
    BY <1>2, Reaches
  <2>2. StrayAfter(c, n, b) = stray
    BY <1>2 DEF StrayAfter
  <2> QED BY <1>1, <1>2, <2>1, <2>2
<1>3. CASE ReachesSpans(c, n) /\ ~(b > 0)
  <2>1. Took(c, n, b) = SpansDone(c, n) + 0 /\ StrayAfter(c, n, b) = None
    BY <1>3 DEF Took, StrayAfter
  <2>2. /\ SpansDone(c, n) = n - Pending(c) /\ n >= Pending(c)
        /\ Len(Streams(c)) = Pending(c) + Len(buffer)
    BY <1>3, Reaches
  <2> QED BY <1>1, <1>3, <2>1, <2>2
<1>4. CASE ReachesSpans(c, n) /\ b > 0
  <2>1. Took(c, n, b) = SpansDone(c, n) + 1
    BY <1>4 DEF Took
  <2>2. /\ SpansDone(c, n) = n - Pending(c) /\ n >= Pending(c) /\ ~shuttingDown[c]
        /\ Len(Streams(c)) = Pending(c) + Len(buffer)
    BY <1>4, Reaches
  <2>3. PICK t : t = Took(c, n, b)
    OBVIOUS
  <2>4. t \in 1..Len(buffer) /\ n + 1 = Pending(c) + t /\ t = n + 1 - Pending(c)
    BY <1>1, <1>4, <2>1, <2>2, <2>3
  <2>5. Streams(c)[n + 1] = Piece(buffer[t], 0) /\ buffer[t] \in Spans /\ buffer[t] \in Header..Terminal
    BY <2>2, <2>4, StreamsShape, StreamsState
  <2>6. /\ Piece(buffer[t], 0).item = buffer[t] /\ Piece(buffer[t], 0).at = 0
    BY <2>5, PieceFields
  <2>7. StrayAfter(c, n, b) = Piece(buffer[t], b)
    BY <1>4, <2>5, <2>6 DEF StrayAfter
  <2>8. b \in 1..(Size(1) - 1)
    <3>1. Size(buffer[t]) = Size(1) /\ Size(1) \in Nat
      BY <2>5, Sizes
    <3>2. b < Size(buffer[t]) - 0
      BY <1>1, <1>4, <2>5, <2>6 DEF Left
    <3> QED BY <1>1, <1>4, <3>1, <3>2
  <2>9. /\ Piece(buffer[t], b).item = buffer[t] /\ Piece(buffer[t], b) # None
    BY <1>1, <2>5, PieceFields
  <2>10. Piece(buffer[t], b) \in Pieces
    BY <2>5, <2>8 DEF Pieces, Piece
  <2>11. t \in 0..Len(buffer) /\ SpansDone(c, n) \in 0..t /\ t = SpansDone(c, n) + 1
    BY <1>1, <2>1, <2>2, <2>3, <2>4
  <2> QED BY <1>4, <2>3, <2>4, <2>5, <2>7, <2>9, <2>10, <2>11
<1> QED BY <1>2, <1>3, <1>4

LEMMA HeaderAfterShape ==
  ASSUME StreamsTypes, NEW c \in Connections, NEW n, NEW b, IsCut(Streams(c), n, b)
  PROVE  /\ HeaderAfter(c, n, b) \in 0..Size(Header)
         /\ HeaderAfter(c, n, b) = Size(Header) <=> header[c] = Size(Header) \/ n > 0
         /\ HeaderAfter(c, n, b) # Size(Header) =>
              /\ HeaderAfter(c, n, b) = header[c] + b /\ header[c] < Size(Header) /\ n = 0
              /\ 1 \in 1..Len(Streams(c)) /\ Streams(c)[1] = Piece(Header, header[c])
<1>1. /\ n \in Nat /\ b \in Nat /\ Pending(c) \in Nat /\ Len(Streams(c)) \in Nat
      /\ header[c] \in Nat /\ header[c] <= Size(Header) /\ Size(Header) \in Nat \ {0}
      /\ b > 0 => b < Left(Streams(c)[n + 1])
      /\ Len(Streams(c)) >= Pending(c)
  BY Reaches, StreamsState, Sizes, StreamsShape DEF IsCut
<1>2. CASE header[c] = Size(Header) \/ n > 0
  BY <1>1, <1>2 DEF HeaderAfter
<1>3. CASE ~(header[c] = Size(Header) \/ n > 0)
  <2>1. HeaderAfter(c, n, b) = header[c] + b /\ header[c] < Size(Header) /\ n = 0
    BY <1>1, <1>3 DEF HeaderAfter
  <2>2. Pending(c) >= 1 /\ BeforeSpans(c)[1] = Piece(Header, header[c])
    BY <2>1, BeforeSpansShape
  <2>3. 1 \in 1..Pending(c) /\ 1 \in 1..Len(Streams(c))
    BY <1>1, <2>2
  <2>4. Streams(c)[1] = Piece(Header, header[c])
    BY <2>2, <2>3, StreamsShape
  <2>5. Left(Piece(Header, header[c])) = Size(Header) - header[c]
    BY <1>1, PieceFields, Sizes DEF Left, Piece
  <2>6. b > 0 => b < Size(Header) - header[c]
    BY <1>1, <2>1, <2>4, <2>5
  <2> QED BY <1>1, <1>3, <2>1, <2>3, <2>4, <2>6
<1> QED BY <1>2, <1>3

LEMMA RemnantAfterShape ==
  ASSUME StreamsTypes, NEW c \in Connections, NEW n, NEW b, IsCut(Streams(c), n, b)
  PROVE  LET rm == RemnantAfter(c, n, b) IN
         /\ remnant[c] = None => rm = None
         /\ remnant[c] # None =>
              /\ rm # None /\ rm.item = remnant[c].item /\ rm.item \in Spans
              /\ Left(rm) \in Nat /\ (Left(rm) = 0 <=> n >= Pending(c))
              /\ Pending(c) >= 1 /\ Streams(c)[Pending(c)] = remnant[c]
              /\ Pending(c) \in 1..Len(Streams(c))
              /\ n < Pending(c) =>
                   /\ rm = IF n + 1 = Pending(c)
                           THEN Piece(remnant[c].item, remnant[c].at + b) ELSE remnant[c]
                   /\ rm \in Pieces
<1>1. /\ n \in Nat /\ b \in Nat /\ Pending(c) \in Nat /\ Len(Streams(c)) \in Nat
      /\ Len(Streams(c)) >= Pending(c) /\ Len(BeforeSpans(c)) = Pending(c)
      /\ b > 0 => b < Left(Streams(c)[n + 1])
  BY Reaches, StreamsShape, BeforeSpansShape DEF IsCut
<1>2. PICK rm : rm = RemnantAfter(c, n, b)
  OBVIOUS
<1>3. CASE remnant[c] = None
  BY <1>3 DEF RemnantAfter
<1>4. CASE remnant[c] # None
  <2>1. PICK r : r = remnant[c]
    OBVIOUS
  <2>2. /\ r \in Chunks /\ r.item \in Spans /\ r.item \in Nat /\ r.item \in Header..Terminal
        /\ r.at \in Nat /\ 0 < r.at /\ r.at < Size(r.item) /\ r # None /\ r \in Pieces
        /\ Size(r.item) \in Nat /\ Size(r.item) = Size(1)
    BY <1>4, <2>1, StreamsState, RemnantPiece, ChunkFields, Sizes
  <2>3. Pending(c) >= 1 /\ BeforeSpans(c)[Pending(c)] = r
    BY <1>4, <2>1, BeforeSpansShape
  <2>4. Pending(c) \in 1..Pending(c) /\ Pending(c) \in 1..Len(Streams(c))
    BY <1>1, <2>3
  <2>5. Streams(c)[Pending(c)] = r
    BY <2>3, <2>4, StreamsShape
  <2>6. rm = IF n < Pending(c) - 1 THEN r
             ELSE Piece(r.item, IF n >= Pending(c) THEN Size(r.item) ELSE r.at + b)
    BY <1>1, <1>2, <1>4, <2>1 DEF RemnantAfter
  <2>7. CASE n < Pending(c) - 1
    <3>1. rm = r /\ Left(r) = Size(r.item) - r.at
      BY <2>6, <2>7 DEF Left
    <3> QED BY <1>1, <1>2, <1>4, <2>1, <2>2, <2>3, <2>4, <2>5, <2>7, <3>1, SMTT(30)
  <2>8. CASE n = Pending(c) - 1
    <3>1. rm = Piece(r.item, r.at + b) /\ n + 1 = Pending(c)
      BY <1>1, <2>6, <2>8
    <3>2. rm.item = r.item /\ rm.at = r.at + b /\ rm # None
      BY <1>1, <2>2, <3>1, PieceFields
    <3>3. b > 0 => b < Size(r.item) - r.at
      BY <1>1, <2>5, <3>1 DEF Left
    <3>4. Left(rm) = Size(r.item) - (r.at + b)
      BY <3>2 DEF Left
    <3>5. r.at + b \in 1..(Size(1) - 1)
      BY <1>1, <2>2, <3>3
    <3>6. rm \in Pieces
      BY <2>2, <3>1, <3>5 DEF Pieces, Piece
    <3>7. Left(rm) \in Nat \ {0}
      BY <1>1, <2>2, <3>3, <3>4
    <3> QED BY <1>1, <1>2, <1>4, <2>1, <2>2, <2>3, <2>4, <2>5, <2>8, <3>1, <3>2, <3>6, <3>7
  <2>9. CASE n >= Pending(c)
    <3>1. rm = Piece(r.item, Size(r.item))
      BY <1>1, <2>6, <2>9
    <3>2. rm.item = r.item /\ rm.at = Size(r.item) /\ rm # None
      BY <2>2, <3>1, PieceFields
    <3>3. Left(rm) = 0
      BY <2>2, <3>2 DEF Left
    <3> QED BY <1>1, <1>2, <1>4, <2>1, <2>2, <2>3, <2>4, <2>5, <2>9, <3>2, <3>3
  <2> QED BY <1>1, <2>7, <2>8, <2>9
<1> QED BY <1>3, <1>4

\* The end of the wire after a write that sent something.
LEMMA SendsLast ==
  ASSUME NEW w \in Seq(Segments), NEW S \in Seq(Chunks), NEW n \in 0..Len(S), NEW b \in Nat,
         b > 0 => n < Len(S), n > 0 \/ b > 0
  PROVE  LET W == Sends(w, S, n, b)
             m == Touched(n, b)
         IN /\ m \in 1..Len(S) /\ W # << >> /\ Last(W).item = S[m].item
            /\ Last(W).to = IF m <= n THEN Size(S[m].item) ELSE S[m].at + b
<1>1. PICK m, o, W : m = Touched(n, b) /\ o = Retained(w, S, n, b) /\ W = Sends(w, S, n, b)
  OBVIOUS
<1>2. Len(S) \in Nat /\ n \in Nat
  BY LenProperties
<1>3. m \in Nat /\ m \in 1..Len(S) /\ m \in 1..m
  BY <1>1, <1>2 DEF Touched
<1>4. /\ o \in Nat /\ W \in Seq(Segments) /\ Len(W) = o + m
      /\ \A q \in 1..m : /\ W[o + q].item = S[q].item
                         /\ W[o + q].to = IF q <= n THEN Size(S[q].item) ELSE S[q].at + b
  <2>1. /\ Retained(w, S, n, b) \in Nat
        /\ Sends(w, S, n, b) \in Seq(Segments)
        /\ Len(Sends(w, S, n, b)) = Retained(w, S, n, b) + Touched(n, b)
        /\ \A i \in 1..Retained(w, S, n, b) : Sends(w, S, n, b)[i] = w[i]
        /\ \A q \in 1..Touched(n, b) :
             /\ Sends(w, S, n, b)[Retained(w, S, n, b) + q].item = S[q].item
             /\ Sends(w, S, n, b)[Retained(w, S, n, b) + q].from =
                  IF Continues(w, S[1]) /\ q = 1 THEN Last(w).from ELSE S[q].at
             /\ Sends(w, S, n, b)[Retained(w, S, n, b) + q].to =
                  IF q <= n THEN Size(S[q].item) ELSE S[q].at + b
    BY SendsShape, Zenon
  <2> QED BY <1>1, <2>1
<1>5. W # << >>
  BY <1>3, <1>4
<1>6. Last(W) = W[o + m]
  BY <1>4 DEF Last
<1> QED BY <1>1, <1>3, <1>4, <1>5, <1>6

\* Every segment was on the wire or is of a piece that was written.
LEMMA SendsItems ==
  ASSUME NEW w \in Seq(Segments), NEW S \in Seq(Chunks), NEW n \in 0..Len(S), NEW b \in Nat,
         b > 0 => n < Len(S),
         NEW W, W = Sends(w, S, n, b), NEW i \in DOMAIN W
  PROVE  \/ i \in DOMAIN w /\ W[i] = w[i]
         \/ \E q \in 1..Touched(n, b) :
              /\ q \in 1..Len(S) /\ W[i].item = S[q].item
              /\ W[i].to = IF q <= n THEN Size(S[q].item) ELSE S[q].at + b
<1>1. PICK m, o : m = Touched(n, b) /\ o = Retained(w, S, n, b)
  OBVIOUS
<1>2. Len(S) \in Nat /\ n \in Nat /\ Len(w) \in Nat /\ DOMAIN w = 1..Len(w)
  BY LenProperties
<1>3. m \in Nat /\ m <= Len(S)
  BY <1>1, <1>2 DEF Touched
<1>4. /\ o \in Nat /\ W \in Seq(Segments) /\ Len(W) = o + m
      /\ \A t \in 1..o : W[t] = w[t]
      /\ \A q \in 1..m : /\ W[o + q].item = S[q].item
                         /\ W[o + q].to = IF q <= n THEN Size(S[q].item) ELSE S[q].at + b
  <2>1. /\ Retained(w, S, n, b) \in Nat
        /\ Sends(w, S, n, b) \in Seq(Segments)
        /\ Len(Sends(w, S, n, b)) = Retained(w, S, n, b) + Touched(n, b)
        /\ \A t \in 1..Retained(w, S, n, b) : Sends(w, S, n, b)[t] = w[t]
        /\ \A q \in 1..Touched(n, b) :
             /\ Sends(w, S, n, b)[Retained(w, S, n, b) + q].item = S[q].item
             /\ Sends(w, S, n, b)[Retained(w, S, n, b) + q].from =
                  IF Continues(w, S[1]) /\ q = 1 THEN Last(w).from ELSE S[q].at
             /\ Sends(w, S, n, b)[Retained(w, S, n, b) + q].to =
                  IF q <= n THEN Size(S[q].item) ELSE S[q].at + b
    BY SendsShape, Zenon
  <2> QED BY <1>1, <2>1
<1>5. o <= Len(w)
  <2>1. o = Len(w) - 1 \/ o = Len(w)
    BY <1>1 DEF Retained
  <2> QED BY <1>2, <2>1
<1>6. i \in 1..o + m
  BY <1>4, LenProperties
<1>7. CASE i \in 1..o
  BY <1>2, <1>4, <1>5, <1>7
<1>8. CASE ~(i \in 1..o)
  <2>1. PICK q : q = i - o
    OBVIOUS
  <2>2. o \in Nat
    BY <1>4
  <2>3. q \in 1..m /\ i = o + q /\ q \in 1..Len(S)
    BY <1>2, <1>3, <1>6, <1>8, <2>1, <2>2
  <2> QED BY <1>1, <1>4, <2>3
<1> QED BY <1>7, <1>8

-----------------------------------------------------------------------------
(* Flush with a writer that returns.                                       *)

Done(c, n, b) == RemnantAfter(c, n, b) # None /\ Left(RemnantAfter(c, n, b)) = 0

Takes(c, n, b) == ~shuttingDown[c] /\ (RemnantAfter(c, n, b) = None \/ Done(c, n, b))

TerminalAfter(c, n, b) ==
  IF ~shuttingDown[c] \/ n < Len(BeforeSpans(c)) THEN terminal[c]
  ELSE IF n = Len(Streams(c)) THEN Size(Terminal) ELSE terminal[c] + b

RemnantNext(c, n, b) ==
  IF Takes(c, n, b) THEN StrayAfter(c, n, b)
  ELSE IF Done(c, n, b) THEN None ELSE RemnantAfter(c, n, b)

\* The spans that the request w holds from the first byte to the last.
Whole(w) ==
  {s \in Spans : \E i \in DOMAIN w : w[i] = [item |-> s, from |-> 0, to |-> Size(s)]}

WireAfter(c, n, b) == Sends(wire[c], Streams(c), n, b)

\* What Flush and a failed Flush have in common.
Transmitted(c, n, b) ==
  /\ IsCut(Streams(c), n, b)
  /\ buffer' = SubSeq(buffer, Took(c, n, b) + 1, Len(buffer))
  /\ received' = received \cup Whole(WireAfter(c, n, b))
  /\ reported' = IF HeaderAfter(c, n, b) > header[c] /\ HeaderAfter(c, n, b) = Size(Header)
                 THEN reported \cup embedded[c] ELSE reported

FlushCut(c, n, b) ==
  /\ Transmitted(c, n, b)
  /\ header' = [header EXCEPT ![c] = HeaderAfter(c, n, b)]
  /\ terminal' = [terminal EXCEPT ![c] = TerminalAfter(c, n, b)]
  /\ remnant' = [remnant EXCEPT ![c] = RemnantNext(c, n, b)]
  /\ wire' = [wire EXCEPT ![c] = WireAfter(c, n, b)]
  /\ stray' = IF Takes(c, n, b) THEN None ELSE StrayAfter(c, n, b)
  /\ sent' = sent \cup FirstSpans(SpansDone(c, n)) \cup
             IF Done(c, n, b) THEN {RemnantAfter(c, n, b).item} ELSE {}
  /\ UNCHANGED <<recorded, dropped, embedded, shuttingDown, lost, interrupted>>

LEMMA TransmitOpens ==
  ASSUME NEW c \in Connections, NEW cut \in Cuts(Streams(c)), Transmit(c, cut[1], cut[2])
  PROVE  Transmitted(c, cut[1], cut[2])
<1>1. IsCut(Streams(c), cut[1], cut[2])
  BY CutsShape
<1> QED BY <1>1 DEF Transmit, Transmitted, Took, Whole, WireAfter

LEMMA FlushOpens ==
  ASSUME NEW c \in Connections, FlushStream(c)
  PROVE  \E n, b : FlushCut(c, n, b)
<1>1. PICK cut \in Cuts(Streams(c)) :
        LET n == cut[1]
            b == cut[2]
            rm == RemnantAfter(c, n, b)
            done == rm # None /\ Left(rm) = 0
            takes == ~shuttingDown[c] /\ (rm = None \/ done)
        IN /\ Transmit(c, n, b)
           /\ header' = [header EXCEPT ![c] = HeaderAfter(c, n, b)]
           /\ terminal' = [terminal EXCEPT ![c] =
                IF ~shuttingDown[c] \/ n < Len(BeforeSpans(c)) THEN @
                ELSE IF n = Len(Streams(c)) THEN Size(Terminal) ELSE @ + b]
           /\ remnant' = [remnant EXCEPT ![c] =
                IF takes THEN StrayAfter(c, n, b)
                ELSE IF done THEN None ELSE rm]
           /\ stray' = IF takes THEN None ELSE StrayAfter(c, n, b)
           /\ wire' = [wire EXCEPT ![c] = Sends(@, Streams(c), n, b)]
           /\ sent' = sent \cup FirstSpans(SpansDone(c, n)) \cup
                      IF done THEN {rm.item} ELSE {}
           /\ UNCHANGED <<recorded, dropped, embedded, shuttingDown, lost,
                          interrupted>>
  BY Zenon DEF FlushStream
<1>2. PICK n, b : n = cut[1] /\ b = cut[2]
  OBVIOUS
<1>3. Transmitted(c, n, b)
  BY <1>1, <1>2, TransmitOpens
<1>4. /\ header' = [header EXCEPT ![c] = HeaderAfter(c, n, b)]
      /\ terminal' = [terminal EXCEPT ![c] = TerminalAfter(c, n, b)]
      /\ remnant' = [remnant EXCEPT ![c] = RemnantNext(c, n, b)]
      /\ wire' = [wire EXCEPT ![c] = WireAfter(c, n, b)]
      /\ stray' = IF Takes(c, n, b) THEN None ELSE StrayAfter(c, n, b)
      /\ sent' = sent \cup FirstSpans(SpansDone(c, n)) \cup
                 IF Done(c, n, b) THEN {RemnantAfter(c, n, b).item} ELSE {}
      /\ UNCHANGED <<recorded, dropped, embedded, shuttingDown, lost, interrupted>>
  BY <1>1, <1>2 DEF TerminalAfter, RemnantNext, WireAfter, Takes, Done
<1> QED BY <1>3, <1>4 DEF FlushCut

\* The pieces and the segments of a write, for SendsShape and the like.
LEMMA WriteTypes ==
  ASSUME StreamsTypes, NEW c \in Connections, NEW n, NEW b, IsCut(Streams(c), n, b)
  PROVE  /\ wire[c] \in Seq(Segments) /\ Streams(c) \in Seq(Chunks)
         /\ n \in 0..Len(Streams(c)) /\ b \in Nat /\ (b > 0 => n < Len(Streams(c)))
         /\ WireAfter(c, n, b) \in Seq(Segments)
<1>1. /\ wire[c] \in Seq(Segments) /\ Streams(c) \in Seq(Chunks)
      /\ n \in 0..Len(Streams(c)) /\ b \in Nat /\ (b > 0 => n < Len(Streams(c)))
  BY StreamsState, StreamsShape DEF IsCut
<1>2. Sends(wire[c], Streams(c), n, b) \in Seq(Segments)
  BY <1>1, SendsShape
<1> QED BY <1>1, <1>2 DEF WireAfter

\* The buffer after a write.
LEMMA BufferAfter ==
  ASSUME StreamsTypes, NEW c \in Connections, NEW n, NEW b, Transmitted(c, n, b)
  PROVE  /\ buffer' \in Seq(Spans) /\ Len(buffer') = Len(buffer) - Took(c, n, b)
         /\ Len(buffer') \in Nat /\ DOMAIN buffer' = 1..Len(buffer')
         /\ Len(buffer') <= Len(buffer)
         /\ Took(c, n, b) \in Nat
         /\ \A i \in 1..Len(buffer') : /\ Took(c, n, b) + i \in 1..Len(buffer)
                                       /\ buffer'[i] = buffer[Took(c, n, b) + i]
<1>1. PICK t, m : t = Took(c, n, b) /\ m = Len(buffer)
  OBVIOUS
<1>2. t \in 0..m /\ m \in Nat /\ \A i \in 1..m : buffer[i] \in Spans
  BY <1>1, TookShape, StreamsState DEF Transmitted
<1>3. PICK v : v = SubSeq(buffer, t + 1, m)
  OBVIOUS
<1>4. \A i \in t + 1..m : buffer[i] \in Spans
  BY <1>2
<1>5. t + 1 \in Int /\ m \in Int
  BY <1>2
<1>6. /\ v \in Seq(Spans)
      /\ Len(v) = IF t + 1 <= m THEN m - (t + 1) + 1 ELSE 0
      /\ \A i \in 1..(m - (t + 1) + 1) : v[i] = buffer[(t + 1) + i - 1]
  BY <1>3, <1>4, <1>5, SubSeqProperties
<1>7. Len(v) = m - t /\ Len(v) \in Nat /\ Len(v) <= m
  BY <1>2, <1>6
<1>8. \A i \in 1..Len(v) : t + i \in 1..m /\ v[i] = buffer[t + i]
  <2> SUFFICES ASSUME NEW i \in 1..Len(v) PROVE t + i \in 1..m /\ v[i] = buffer[t + i]
    OBVIOUS
  <2>1. i \in 1..(m - (t + 1) + 1) /\ (t + 1) + i - 1 = t + i /\ t + i \in 1..m
    BY <1>2, <1>7
  <2> QED BY <1>6, <2>1
<1>9. buffer' = v /\ DOMAIN v = 1..Len(v)
  BY <1>1, <1>3, <1>6, LenProperties DEF Transmitted
<1> QED BY <1>1, <1>2, <1>6, <1>7, <1>8, <1>9

LEMMA FlushFields ==
  ASSUME StreamsTypes, NEW c \in Connections, NEW n, NEW b, FlushCut(c, n, b)
  PROVE  /\ \A d \in Connections :
              /\ header'[d] = IF d = c THEN HeaderAfter(c, n, b) ELSE header[d]
              /\ terminal'[d] = IF d = c THEN TerminalAfter(c, n, b) ELSE terminal[d]
              /\ remnant'[d] = IF d = c THEN RemnantNext(c, n, b) ELSE remnant[d]
              /\ wire'[d] = IF d = c THEN WireAfter(c, n, b) ELSE wire[d]
              /\ embedded'[d] = embedded[d] /\ shuttingDown'[d] = shuttingDown[d]
         /\ IsCut(Streams(c), n, b)
<1>1. /\ header \in [Connections -> 0..Size(Header)] /\ terminal \in [Connections -> 0..Size(Terminal)]
      /\ remnant \in [Connections -> Pieces] /\ wire \in [Connections -> Seq(Segments)]
  BY DEF StreamsTypes
<1> QED BY <1>1 DEF FlushCut, Transmitted

LEMMA TerminalAfterShape ==
  ASSUME StreamsTypes, NEW c \in Connections, NEW n, NEW b, IsCut(Streams(c), n, b)
  PROVE  /\ TerminalAfter(c, n, b) \in 0..Size(Terminal) /\ TerminalAfter(c, n, b) >= terminal[c]
         /\ ~shuttingDown[c] \/ n < Pending(c) => TerminalAfter(c, n, b) = terminal[c]
         /\ shuttingDown[c] /\ n >= Pending(c) =>
              \/ n = Len(Streams(c)) /\ TerminalAfter(c, n, b) = Size(Terminal)
              \/ /\ n = Pending(c) /\ Len(Streams(c)) = n + 1 /\ terminal[c] < Size(Terminal)
                 /\ Streams(c)[n + 1] = Piece(Terminal, terminal[c])
                 /\ TerminalAfter(c, n, b) = terminal[c] + b
                 /\ TerminalAfter(c, n, b) < Size(Terminal)
<1>1. /\ n \in Nat /\ b \in Nat /\ Pending(c) \in Nat /\ Len(Streams(c)) \in Nat
      /\ n <= Len(Streams(c)) /\ Len(BeforeSpans(c)) = Pending(c)
      /\ b > 0 => b < Left(Streams(c)[n + 1])
      /\ terminal[c] \in Nat /\ terminal[c] <= Size(Terminal) /\ Size(Terminal) \in Nat \ {0}
      /\ Terminal \in Header..Terminal
  BY Reaches, StreamsState, BeforeSpansShape, Sizes DEF IsCut
<1>2. CASE ~shuttingDown[c] \/ n < Pending(c)
  <2>1. TerminalAfter(c, n, b) = terminal[c]
    BY <1>1, <1>2 DEF TerminalAfter
  <2> QED BY <1>1, <1>2, <2>1
<1>3. CASE ~(~shuttingDown[c] \/ n < Pending(c)) /\ n = Len(Streams(c))
  <2>1. TerminalAfter(c, n, b) = Size(Terminal)
    BY <1>1, <1>3 DEF TerminalAfter
  <2> QED BY <1>1, <1>3, <2>1
<1>4. CASE ~(~shuttingDown[c] \/ n < Pending(c)) /\ n # Len(Streams(c))
  <2>1. TerminalAfter(c, n, b) = terminal[c] + b
    BY <1>1, <1>4 DEF TerminalAfter
  <2>2. terminal[c] < Size(Terminal)
    <3>1. SUFFICES ASSUME ~(terminal[c] < Size(Terminal)) PROVE FALSE
      OBVIOUS
    <3>2. Len(Streams(c)) = Pending(c)
      BY <1>4, <3>1, StreamsShape
    <3> QED BY <1>1, <1>4, <3>2
  <2>3. /\ Len(Streams(c)) = Pending(c) + 1
        /\ Streams(c)[Pending(c) + 1] = Piece(Terminal, terminal[c])
    BY <1>4, <2>2, StreamsShape
  <2>4. n = Pending(c)
    BY <1>1, <1>4, <2>3
  <2>5. Left(Piece(Terminal, terminal[c])) = Size(Terminal) - terminal[c]
    BY <1>1, PieceFields DEF Left
  <2>6. b > 0 => b < Size(Terminal) - terminal[c]
    BY <1>1, <2>3, <2>4, <2>5
  <2> QED BY <1>1, <1>4, <2>1, <2>2, <2>3, <2>4, <2>6
<1> QED BY <1>2, <1>3, <1>4

\* The span that a connection holds after a Flush.
LEMMA RemnantNextShape ==
  ASSUME StreamsTypes, NEW c \in Connections, NEW n, NEW b, IsCut(Streams(c), n, b)
  PROVE  /\ RemnantNext(c, n, b) \in Pieces
         /\ Done(c, n, b) <=> remnant[c] # None /\ n >= Pending(c)
         /\ Takes(c, n, b) <=> ~shuttingDown[c] /\ (remnant[c] = None \/ n >= Pending(c))
         /\ ReachesSpans(c, n) => Takes(c, n, b)
         /\ ~Takes(c, n, b) /\ Done(c, n, b) => RemnantNext(c, n, b) = None
         /\ ~Takes(c, n, b) /\ ~Done(c, n, b) =>
              \/ remnant[c] = None /\ RemnantNext(c, n, b) = None
              \/ /\ remnant[c] # None /\ n < Pending(c)
                 /\ RemnantNext(c, n, b) = RemnantAfter(c, n, b)
                 /\ RemnantNext(c, n, b) # None
                 /\ RemnantNext(c, n, b).item = remnant[c].item
<1>1. /\ n \in Nat /\ Pending(c) \in Nat
      /\ ReachesSpans(c, n) => ~shuttingDown[c] /\ n >= Pending(c)
      /\ stray \in Pieces /\ None \in Pieces
  BY Reaches DEF StreamsTypes, Pieces
<1>2. StrayAfter(c, n, b) \in Pieces
  <2>1. ReachesSpans(c, n) /\ b > 0 => StrayAfter(c, n, b) \in Pieces
    BY TookShape
  <2>2. ReachesSpans(c, n) /\ ~(b > 0) => StrayAfter(c, n, b) = None
    BY TookShape
  <2>3. ~ReachesSpans(c, n) => StrayAfter(c, n, b) = stray
    BY TookShape
  <2> QED BY <1>1, <2>1, <2>2, <2>3
<1>3. remnant[c] = None => RemnantAfter(c, n, b) = None
  BY RemnantAfterShape
<1>4. remnant[c] # None => /\ RemnantAfter(c, n, b) # None
                           /\ RemnantAfter(c, n, b).item = remnant[c].item
                           /\ (Left(RemnantAfter(c, n, b)) = 0 <=> n >= Pending(c))
                           /\ n < Pending(c) => RemnantAfter(c, n, b) \in Pieces
  BY RemnantAfterShape
<1>5. Done(c, n, b) <=> remnant[c] # None /\ n >= Pending(c)
  BY <1>3, <1>4 DEF Done
<1>6. Takes(c, n, b) <=> ~shuttingDown[c] /\ (remnant[c] = None \/ n >= Pending(c))
  BY <1>3, <1>4, <1>5 DEF Takes
<1>7. CASE Takes(c, n, b)
  <2>1. RemnantNext(c, n, b) = StrayAfter(c, n, b)
    BY <1>7 DEF RemnantNext
  <2> QED BY <1>1, <1>2, <1>5, <1>6, <1>7, <2>1
<1>8. CASE ~Takes(c, n, b) /\ Done(c, n, b)
  <2>1. RemnantNext(c, n, b) = None
    BY <1>8 DEF RemnantNext
  <2> QED BY <1>1, <1>5, <1>6, <1>8, <2>1
<1>9. CASE ~Takes(c, n, b) /\ ~Done(c, n, b)
  <2>1. RemnantNext(c, n, b) = RemnantAfter(c, n, b)
    BY <1>9 DEF RemnantNext
  <2> QED BY <1>1, <1>3, <1>4, <1>5, <1>6, <1>9, <2>1
<1> QED BY <1>7, <1>8, <1>9

LEMMA FlushTypes ==
  ASSUME StreamsTypes, NEW c \in Connections, NEW n, NEW b, FlushCut(c, n, b)
  PROVE  StreamsTypes'
<1>1. IsCut(Streams(c), n, b) /\ Transmitted(c, n, b)
  BY DEF FlushCut, Transmitted
<1>2. buffer' \in Seq(Spans) /\ Len(buffer') <= MaxSize
  <2>1. Len(buffer) <= MaxSize /\ MaxSize \in Nat /\ Len(buffer) \in Nat
    BY StreamsState, Sizes DEF StreamsTypes
  <2> QED BY <1>1, <2>1, BufferAfter
<1>3. stray' \in Pieces
  <2>1. StrayAfter(c, n, b) \in Pieces
    <3>1. ReachesSpans(c, n) /\ b > 0 => StrayAfter(c, n, b) \in Pieces
      BY <1>1, TookShape
    <3>2. (ReachesSpans(c, n) /\ ~(b > 0)) \/ ~ReachesSpans(c, n) => StrayAfter(c, n, b) \in {None, stray}
      BY <1>1, TookShape
    <3> QED BY <3>1, <3>2 DEF StreamsTypes, Pieces
  <2> QED BY <2>1 DEF FlushCut, Pieces
<1>4. /\ header' \in [Connections -> 0..Size(Header)]
      /\ terminal' \in [Connections -> 0..Size(Terminal)]
      /\ remnant' \in [Connections -> Pieces]
      /\ wire' \in [Connections -> Seq(Segments)]
  <2>1. /\ HeaderAfter(c, n, b) \in 0..Size(Header)
        /\ TerminalAfter(c, n, b) \in 0..Size(Terminal)
        /\ RemnantNext(c, n, b) \in Pieces
        /\ WireAfter(c, n, b) \in Seq(Segments)
    BY <1>1, HeaderAfterShape, TerminalAfterShape, RemnantNextShape, WriteTypes
  <2> QED BY <2>1 DEF StreamsTypes, FlushCut
<1>5. sent' \subseteq Spans
  <2>1. FirstSpans(SpansDone(c, n)) \subseteq Spans
    <3>1. SpansDone(c, n) \in 0..Took(c, n, b) /\ Took(c, n, b) \in 0..Len(buffer) /\ Len(buffer) \in Nat
      BY <1>1, TookShape, StreamsState
    <3>2. \A i \in 1..SpansDone(c, n) : i \in 1..Len(buffer)
      BY <3>1
    <3> QED BY <3>2, StreamsState DEF FirstSpans
  <2>2. Done(c, n, b) => RemnantAfter(c, n, b).item \in Spans
    BY <1>1, RemnantAfterShape DEF Done
  <2> QED BY <2>1, <2>2 DEF StreamsTypes, FlushCut
<1>6. received' \subseteq Spans /\ reported' \subseteq Spans
  BY <1>1 DEF StreamsTypes, Transmitted, Whole
<1> QED BY <1>2, <1>3, <1>4, <1>5, <1>6 DEF StreamsTypes, FlushCut

LEMMA HeldNext ==
  ASSUME StreamsTypes', NEW c \in Connections, NEW p
  PROVE  p \in Held(c)' <=>
           \/ p = Piece(Header, header'[c]) /\ header'[c] < Size(Header)
           \/ p = remnant'[c] /\ remnant'[c] # None
           \/ p = Piece(Terminal, terminal'[c]) /\ terminal'[c] < Size(Terminal) /\ shuttingDown'[c]
<1>1. header'[c] \in 0..Size(Header) /\ terminal'[c] \in 0..Size(Terminal)
  BY DEF StreamsTypes
<1>2. /\ Header \in Header..Terminal /\ Terminal \in Header..Terminal /\ Header # Terminal
      /\ header'[c] \in Nat /\ terminal'[c] \in Nat
  BY <1>1, Sizes
<1>3. /\ Piece(Header, header'[c]).item = Header /\ Piece(Header, header'[c]).at = header'[c]
      /\ Piece(Terminal, terminal'[c]).item = Terminal
      /\ Piece(Terminal, terminal'[c]).at = terminal'[c]
  BY <1>2, PieceFields
<1> QED BY <1>2, <1>3 DEF Held

\* What a connection holds after a Flush is what the write left over, or a span
\* that a failed write had left in the SpanStream.
LEMMA FlushHeld ==
  ASSUME StreamsTypes, NEW c \in Connections, NEW n, NEW b, FlushCut(c, n, b), NEW p \in Held(c)'
  PROVE  \/ p \in LeftOver(Streams(c), n, b)
         \/ /\ p = stray /\ stray # None /\ p = remnant'[c]
            /\ Takes(c, n, b) /\ ~ReachesSpans(c, n) /\ remnant[c] = None
<1> DEFINE S == Streams(c)
<1>1. /\ IsCut(S, n, b) /\ StreamsTypes' /\ n \in Nat /\ b \in Nat /\ Len(S) \in Nat
      /\ S \in Seq(Chunks) /\ Pending(c) \in Nat /\ n \in 0..Len(S)
  BY FlushFields, FlushTypes, Reaches, StreamsShape DEF IsCut
<1>2. \A j \in n + 1..Len(S) :
        /\ S[j].at \in Nat /\ S[j] = Piece(S[j].item, S[j].at)
        /\ j # n + 1 => S[j] \in LeftOver(S, n, b)
        /\ j = n + 1 => Piece(S[j].item, S[j].at + b) \in LeftOver(S, n, b)
  <2> SUFFICES ASSUME NEW j \in n + 1..Len(S)
               PROVE  /\ S[j].at \in Nat /\ S[j] = Piece(S[j].item, S[j].at)
                      /\ j # n + 1 => S[j] \in LeftOver(S, n, b)
                      /\ j = n + 1 => Piece(S[j].item, S[j].at + b) \in LeftOver(S, n, b)
    OBVIOUS
  <2>1. S[j] \in Chunks
    BY <1>1, ElementOfSeq
  <2>2. S[j].at \in Nat /\ S[j] = Piece(S[j].item, S[j].at)
    BY <2>1, ChunkFields, PieceOf
  <2>3. Piece(S[j].item, IF j = n + 1 THEN S[j].at + b ELSE S[j].at) \in LeftOver(S, n, b)
    BY DEF LeftOver
  <2> QED BY <2>2, <2>3
<1>3. /\ header'[c] = HeaderAfter(c, n, b) /\ terminal'[c] = TerminalAfter(c, n, b)
      /\ remnant'[c] = RemnantNext(c, n, b) /\ shuttingDown'[c] = shuttingDown[c]
  BY FlushFields
<1>4. CASE p = Piece(Header, header'[c]) /\ header'[c] < Size(Header)
  <2>1. HeaderAfter(c, n, b) # Size(Header)
    BY <1>3, <1>4, Sizes
  <2>2. /\ HeaderAfter(c, n, b) = header[c] + b /\ n = 0 /\ 1 \in 1..Len(S)
        /\ S[1] = Piece(Header, header[c])
    BY <1>1, <2>1, HeaderAfterShape
  <2>3. S[1].item = Header /\ S[1].at = header[c] /\ 1 = n + 1
    BY <2>2 DEF Piece
  <2> QED BY <1>2, <1>3, <1>4, <2>2, <2>3
<1>5. CASE p = remnant'[c] /\ remnant'[c] # None
  <2>1. CASE ~Takes(c, n, b)
    <3>1. /\ remnant[c] # None /\ n < Pending(c)
          /\ RemnantNext(c, n, b) = RemnantAfter(c, n, b)
      BY <1>1, <1>3, <1>5, <2>1, RemnantNextShape
    <3>2. /\ Pending(c) \in 1..Len(S) /\ S[Pending(c)] = remnant[c]
          /\ RemnantAfter(c, n, b) = IF n + 1 = Pending(c)
               THEN Piece(remnant[c].item, remnant[c].at + b) ELSE remnant[c]
      BY <1>1, <3>1, RemnantAfterShape
    <3>3. Pending(c) \in n + 1..Len(S)
      BY <1>1, <3>1, <3>2
    <3>4. CASE n + 1 = Pending(c)
      <4>1. p = Piece(S[Pending(c)].item, S[Pending(c)].at + b)
        BY <1>3, <1>5, <3>1, <3>2, <3>4
      <4> QED BY <1>2, <3>3, <3>4, <4>1
    <3>5. CASE n + 1 # Pending(c)
      <4>1. p = S[Pending(c)]
        BY <1>3, <1>5, <3>1, <3>2, <3>5
      <4> QED BY <1>2, <3>3, <3>5, <4>1
    <3> QED BY <3>4, <3>5
  <2>2. CASE Takes(c, n, b)
    <3>1. p = StrayAfter(c, n, b) /\ p # None
      BY <1>3, <1>5, <2>2 DEF RemnantNext
    <3>2. CASE ReachesSpans(c, n)
      <4>1. b > 0
        BY <1>1, <3>1, <3>2, TookShape
      <4>2. /\ p = Piece(buffer[Took(c, n, b)], b)
            /\ S[n + 1] = Piece(buffer[Took(c, n, b)], 0)
        BY <1>1, <3>1, <3>2, <4>1, TookShape
      <4>3. n + 1 \in n + 1..Len(S)
        BY <1>1, <4>1 DEF IsCut
      <4>4. S[n + 1].item = buffer[Took(c, n, b)] /\ S[n + 1].at + b = b
        BY <1>1, <4>2 DEF Piece
      <4> QED BY <1>2, <4>2, <4>3, <4>4
    <3>3. CASE ~ReachesSpans(c, n)
      <4>1. p = stray
        BY <1>1, <3>1, <3>3, TookShape
      <4>2. ~shuttingDown[c] /\ (remnant[c] = None \/ n >= Pending(c))
        BY <1>1, <2>2, RemnantNextShape
      <4>3. n < Pending(c) \/ (n = 0 /\ b = 0 /\ Pending(c) = 0)
        BY <1>1, <3>3, <4>2, Reaches
      <4>4. remnant[c] = None
        <5>1. remnant[c] # None => Pending(c) >= 1
          BY BeforeSpansShape
        <5> QED BY <1>1, <4>2, <4>3, <5>1
      <4> QED BY <1>1, <1>5, <2>2, <3>1, <3>3, <4>1, <4>3, <4>4
    <3> QED BY <3>2, <3>3
  <2> QED BY <2>1, <2>2
<1>6. CASE p = Piece(Terminal, terminal'[c]) /\ terminal'[c] < Size(Terminal) /\ shuttingDown'[c]
  <2>1. TerminalAfter(c, n, b) < Size(Terminal) /\ shuttingDown[c]
    BY <1>3, <1>6
  <2>2. CASE n < Pending(c)
    <3>1. TerminalAfter(c, n, b) = terminal[c]
      BY <1>1, <2>2, TerminalAfterShape
    <3>2. Len(S) = Pending(c) + 1 /\ S[Pending(c) + 1] = Piece(Terminal, terminal[c])
      BY <2>1, <3>1, StreamsShape
    <3>3. Pending(c) + 1 \in n + 1..Len(S) /\ Pending(c) + 1 # n + 1
      BY <1>1, <2>2, <3>2
    <3> QED BY <1>2, <1>3, <1>6, <3>1, <3>2, <3>3
  <2>3. CASE ~(n < Pending(c))
    <3>1. n >= Pending(c) /\ TerminalAfter(c, n, b) # Size(Terminal)
      BY <1>1, <2>1, <2>3, Sizes
    <3>2. /\ Len(S) = n + 1 /\ S[n + 1] = Piece(Terminal, terminal[c])
          /\ TerminalAfter(c, n, b) = terminal[c] + b
      BY <1>1, <2>1, <3>1, TerminalAfterShape
    <3>3. n + 1 \in n + 1..Len(S)
      BY <1>1, <3>2
    <3>4. S[n + 1].item = Terminal /\ S[n + 1].at = terminal[c]
      BY <3>2 DEF Piece
    <3> QED BY <1>2, <1>3, <1>6, <3>2, <3>3, <3>4
  <2> QED BY <2>2, <2>3
<1> QED BY <1>1, <1>4, <1>5, <1>6, HeldNext

\* The piece that was cut is still held, and a write of nothing leaves everything.
LEMMA FlushHolds ==
  ASSUME StreamsTypes, NEW c \in Connections, NEW n, NEW b, FlushCut(c, n, b)
  PROVE  /\ b > 0 => Piece(Streams(c)[n + 1].item, Streams(c)[n + 1].at + b) \in Held(c)'
         /\ n = 0 /\ b = 0 => Held(c) \subseteq Held(c)'
<1> DEFINE S == Streams(c)
<1>1. /\ IsCut(S, n, b) /\ StreamsTypes' /\ n \in Nat /\ b \in Nat /\ Len(S) \in Nat
      /\ S \in Seq(Chunks) /\ Pending(c) \in Nat
      /\ b > 0 => n + 1 \in 1..Len(S)
  <2>1. /\ IsCut(S, n, b) /\ StreamsTypes' /\ S \in Seq(Chunks)
    BY FlushFields, FlushTypes, StreamsShape
  <2>2. n \in Nat /\ b \in Nat /\ Len(S) \in Nat /\ Pending(c) \in Nat
    BY <2>1, Reaches
  <2>3. b > 0 => n < Len(S)
    BY <2>1 DEF IsCut
  <2> QED BY <2>1, <2>2, <2>3
<1>2. /\ header'[c] = HeaderAfter(c, n, b) /\ terminal'[c] = TerminalAfter(c, n, b)
      /\ remnant'[c] = RemnantNext(c, n, b) /\ shuttingDown'[c] = shuttingDown[c]
      /\ HeaderAfter(c, n, b) \in 0..Size(Header) /\ Size(Header) \in Nat
      /\ Size(Terminal) \in Nat
  BY <1>1, FlushFields, HeaderAfterShape, Sizes
<1>3. ASSUME b > 0
      PROVE  Piece(S[n + 1].item, S[n + 1].at + b) \in Held(c)'
  <2>1. CASE /\ n + 1 = 1 /\ header[c] < Size(Header) /\ S[n + 1] = Piece(Header, header[c])
    <3>1. HeaderAfter(c, n, b) # Size(Header)
      BY <1>1, <2>1, HeaderAfterShape, StreamsState
    <3>2. HeaderAfter(c, n, b) = header[c] + b
      BY <1>1, <3>1, HeaderAfterShape
    <3>3. S[n + 1].item = Header /\ S[n + 1].at = header[c]
      BY <2>1 DEF Piece
    <3>4. header'[c] < Size(Header)
      BY <1>2, <3>1
    <3> QED BY <1>1, <1>2, <3>2, <3>3, <3>4, HeldNext
  <2>2. CASE n + 1 = Pending(c) /\ remnant[c] # None /\ S[n + 1] = remnant[c]
    <3>1. n < Pending(c)
      BY <1>1, <2>2
    <3>2. RemnantAfter(c, n, b) = Piece(remnant[c].item, remnant[c].at + b)
      BY <1>1, <2>2, <3>1, RemnantAfterShape
    <3>3. ~Takes(c, n, b) /\ ~Done(c, n, b)
      BY <1>1, <2>2, <3>1, RemnantNextShape
    <3>4. remnant'[c] = RemnantAfter(c, n, b) /\ remnant'[c] # None
      BY <1>1, <1>2, <2>2, <3>3, RemnantNextShape
    <3> QED BY <1>1, <2>2, <3>2, <3>4, HeldNext
  <2>3. ASSUME ~shuttingDown[c], NEW i \in 1..Len(buffer), n + 1 = Pending(c) + i
        PROVE  Piece(S[n + 1].item, S[n + 1].at + b) \in Held(c)'
    <3>1. n >= Pending(c) /\ Len(buffer) \in Nat
      BY <1>1, <2>3, StreamsState
    <3>2. ReachesSpans(c, n)
      <4>1. ~(n < Pending(c)) /\ ~(n = 0 /\ b = 0 /\ Pending(c) = 0 /\ Len(buffer) = 0)
        BY <1>1, <1>3, <3>1
      <4> QED BY <1>1, <2>3, <4>1, Reaches
    <3>3. /\ StrayAfter(c, n, b) = Piece(buffer[Took(c, n, b)], b)
          /\ S[n + 1] = Piece(buffer[Took(c, n, b)], 0)
          /\ StrayAfter(c, n, b) # None
      BY <1>1, <1>3, <3>2, TookShape
    <3>4. remnant'[c] = StrayAfter(c, n, b)
      BY <1>1, <1>2, <3>2, RemnantNextShape DEF RemnantNext
    <3>5. S[n + 1].item = buffer[Took(c, n, b)] /\ S[n + 1].at + b = b
      BY <1>1, <3>3 DEF Piece
    <3> QED BY <1>1, <3>3, <3>4, <3>5, HeldNext
  <2>4. CASE /\ shuttingDown[c] /\ n + 1 = Pending(c) + 1 /\ terminal[c] < Size(Terminal)
             /\ S[n + 1] = Piece(Terminal, terminal[c])
    <3>1. n = Pending(c) /\ n # Len(S) /\ n >= Pending(c)
      BY <1>1, <1>3, <2>4
    <3>2. TerminalAfter(c, n, b) = terminal[c] + b /\ TerminalAfter(c, n, b) < Size(Terminal)
      BY <1>1, <2>4, <3>1, TerminalAfterShape
    <3>3. S[n + 1].item = Terminal /\ S[n + 1].at = terminal[c]
      BY <2>4 DEF Piece
    <3> QED BY <1>1, <1>2, <2>4, <3>2, <3>3, HeldNext
  <2>5. n + 1 \in 1..Len(S)
    BY <1>1, <1>3
  <2> QED BY <2>1, <2>2, <2>3, <2>4, <2>5, StreamsElements
<1>4. ASSUME n = 0, b = 0, NEW p \in Held(c)
      PROVE  p \in Held(c)'
  <2>1. CASE p = Piece(Header, header[c]) /\ header[c] < Size(Header)
    <3>1. HeaderAfter(c, n, b) # Size(Header)
      BY <1>1, <1>4, <2>1, HeaderAfterShape, StreamsState
    <3>2. HeaderAfter(c, n, b) = header[c] + 0 /\ header[c] \in Nat
      BY <1>1, <1>4, <3>1, HeaderAfterShape, StreamsState
    <3>3. header'[c] = header[c]
      BY <1>2, <3>2
    <3> QED BY <1>1, <2>1, <3>3, HeldNext
  <2>2. CASE p = remnant[c] /\ remnant[c] # None
    <3>1. n < Pending(c)
      BY <1>1, <1>4, <2>2, BeforeSpansShape
    <3>2. RemnantAfter(c, n, b) = remnant[c]
      <4>1. RemnantAfter(c, n, b) = IF n + 1 = Pending(c)
              THEN Piece(remnant[c].item, remnant[c].at + b) ELSE remnant[c]
        BY <1>1, <2>2, <3>1, RemnantAfterShape
      <4>2. remnant[c] \in Chunks
        BY <2>2, StreamsState, RemnantPiece
      <4>3. remnant[c].at + b = remnant[c].at /\ remnant[c] = Piece(remnant[c].item, remnant[c].at)
        BY <1>4, <4>2, ChunkFields, PieceOf
      <4> QED BY <4>1, <4>3
    <3>3. ~Takes(c, n, b) /\ ~Done(c, n, b)
      BY <1>1, <2>2, <3>1, RemnantNextShape
    <3>4. remnant'[c] = remnant[c]
      BY <1>1, <1>2, <2>2, <3>2, <3>3, RemnantNextShape
    <3> QED BY <1>1, <2>2, <3>4, HeldNext
  <2>3. CASE p = Piece(Terminal, terminal[c]) /\ terminal[c] < Size(Terminal) /\ shuttingDown[c]
    <3>1. TerminalAfter(c, n, b) = terminal[c]
      <4>1. CASE n < Pending(c)
        BY <1>1, <4>1, TerminalAfterShape
      <4>2. CASE ~(n < Pending(c))
        <5>1. n >= Pending(c) /\ Len(S) = Pending(c) + 1 /\ n # Len(S)
          BY <1>1, <1>4, <2>3, <4>2, StreamsShape
        <5>2. TerminalAfter(c, n, b) = terminal[c] + b
          BY <1>1, <2>3, <5>1, TerminalAfterShape
        <5> QED BY <1>4, <5>2, StreamsState
      <4> QED BY <4>1, <4>2
    <3> QED BY <1>1, <1>2, <2>3, <3>1, HeldNext
  <2> QED BY <2>1, <2>2, <2>3, HeldElements
<1> QED BY <1>3, <1>4

\* Of the other connections nothing changes.
LEMMA OthersKept ==
  ASSUME NEW d \in Connections,
         header'[d] = header[d] /\ terminal'[d] = terminal[d] /\ remnant'[d] = remnant[d],
         shuttingDown'[d] = shuttingDown[d]
  PROVE  Held(d)' = Held(d)
BY DEF Held

LEMMA FlushLinked ==
  ASSUME StreamsInv, NEW c \in Connections, NEW n, NEW b, FlushCut(c, n, b)
  PROVE  RequestsLinked' /\ RequestsStraight'
<1> DEFINE S == Streams(c)
           W == WireAfter(c, n, b)
           Q == Held(c)' \cap LeftOver(S, n, b)
<1>1. /\ StreamsTypes /\ RequestsLinked /\ RequestsStraight /\ TerminalIsLast /\ Ordered /\ StrayIsLost
      /\ StreamsTypes' /\ IsCut(S, n, b)
  BY FlushTypes, FlushFields DEF StreamsInv
<1>2. /\ wire[c] \in Seq(Segments) /\ S \in Seq(Chunks) /\ n \in 0..Len(S) /\ b \in Nat
      /\ (b > 0 => n < Len(S)) /\ W = Sends(wire[c], S, n, b)
      /\ n \in Nat /\ Len(S) \in Nat
  BY <1>1, WriteTypes, Reaches DEF WireAfter
<1>3. Sendable(wire[c], S, Held(c)) /\ Linked(wire[c], Held(c))
  BY <1>1, StreamsSendable DEF RequestsLinked
<1>4. b > 0 => Piece(S[n + 1].item, S[n + 1].at + b) \in Q
  <2>1. b > 0 => n + 1 \in n + 1..Len(S)
    BY <1>2
  <2>2. b > 0 => Piece(S[n + 1].item, S[n + 1].at + b) \in LeftOver(S, n, b)
    BY <2>1 DEF LeftOver
  <2> QED BY <1>1, <2>2, FlushHolds
<1>5. n = 0 /\ b = 0 => Held(c) \subseteq Q
  <2> SUFFICES ASSUME n = 0, b = 0, NEW p \in Held(c) PROVE p \in Q
    OBVIOUS
  <2>1. p \in Held(c)'
    BY <1>1, FlushHolds
  <2>2. PICK j \in 1..Len(S) : p = S[j]
    BY <1>1, HeldInStreams
  <2>3. S[j] \in Chunks /\ j \in n + 1..Len(S)
    BY <1>2, <2>2, ElementOfSeq
  <2>4. S[j].at + b = S[j].at /\ S[j] = Piece(S[j].item, S[j].at)
    BY <2>3, ChunkFields, PieceOf
  <2>5. p \in LeftOver(S, n, b)
    BY <2>2, <2>3, <2>4 DEF LeftOver
  <2> QED BY <2>1, <2>5
<1>6. Linked(W, Q) /\ (Straight(wire[c], Held(c)) => Straight(W, Q))
  <2> HIDE DEF S, W, Q
  <2>1. Q \subseteq LeftOver(S, n, b)
    BY DEF Q
  <2> QED BY <1>2, <1>3, <1>4, <1>5, <2>1, CutLinked
<1>7. ASSUME NEW p \in Held(c)', p \notin Q
      PROVE  Linked(W, Held(c)') /\ interrupted
  <2>1. /\ p = stray /\ stray # None /\ ~shuttingDown[c]
        /\ ~ReachesSpans(c, n) /\ remnant[c] = None
    BY <1>1, <1>7, FlushHeld DEF Takes
  <2>2. stray.item \in Spans /\ stray.item \in Nat /\ Header = 0 /\ stray.item # Header
    BY <1>1, <2>1, RemnantPiece, Sizes DEF StreamsTypes
  <2>3. \A s \in Begun : s < stray.item
    BY <1>1, <2>1 DEF Ordered
  <2>4. ASSUME NEW i \in DOMAIN W PROVE W[i].item < p.item
    <3>1. \/ i \in DOMAIN wire[c] /\ W[i] = wire[c][i]
          \/ \E q \in 1..Touched(n, b) : q \in 1..Len(S) /\ W[i].item = S[q].item
      <4> HIDE DEF S, W
      <4> QED BY <1>2, <2>4, SendsItems
    <3>2. CASE i \in DOMAIN wire[c] /\ W[i] = wire[c][i]
      <4>1. wire[c][i].item # Terminal
        <5>1. ~(terminal[c] > 0)
          BY <1>1, <2>1 DEF TerminalIsLast
        <5> QED BY <1>1, <3>2, <5>1 DEF TerminalIsLast
      <4>2. wire[c][i].item = Header \/ wire[c][i].item \in Begun
        BY <1>1, <3>2, <4>1, WireItems
      <4> QED BY <2>1, <2>2, <2>3, <3>2, <4>2
    <3>3. ASSUME NEW q \in 1..Touched(n, b), q \in 1..Len(S), W[i].item = S[q].item
          PROVE  W[i].item < p.item
      <4>1. Pending(c) \in Nat /\ q <= Pending(c) /\ Len(buffer) \in Nat
        <5>1. n < Pending(c) \/ (n = 0 /\ b = 0)
          BY <1>1, <2>1, Reaches
        <5>2. q \in Nat /\ q <= Touched(n, b) /\ q >= 1 /\ Touched(n, b) \in Nat
          BY <1>2, <3>3 DEF Touched
        <5>3. Touched(n, b) = n \/ Touched(n, b) = n + 1
          BY DEF Touched
        <5>4. n = 0 /\ b = 0 => Touched(n, b) = 0
          BY DEF Touched
        <5>5. Pending(c) \in Nat /\ Len(buffer) \in Nat
          BY <1>1, BeforeSpansShape, StreamsState
        <5> QED BY <1>2, <5>1, <5>2, <5>3, <5>4, <5>5
      <4>2. S[q] = Piece(Header, header[c])
        <5>1. \A t \in 1..Len(buffer) : q # Pending(c) + t
          BY <3>3, <4>1
        <5> QED BY <1>1, <2>1, <3>3, <5>1, StreamsElements
      <4>3. W[i].item = Header
        BY <3>3, <4>2 DEF Piece
      <4> QED BY <2>1, <2>2, <4>3
    <3> QED BY <3>1, <3>2, <3>3
  <2>5. Linked(W, Q \cup {p})
    <3> HIDE DEF W, Q
    <3> QED BY <1>6, <2>4, LinkedMore
  <2>6. Held(c)' = Q \cup {p}
    <3>1. \A r \in Held(c)' : r \in LeftOver(S, n, b) \/ r = stray
      BY <1>1, FlushHeld
    <3> QED BY <1>7, <2>1, <3>1
  <2> QED BY <1>1, <2>1, <2>5, <2>6 DEF StrayIsLost
<1>8. Linked(W, Held(c)') /\ (~interrupted => Straight(W, Held(c)'))
  <2>1. CASE \E p \in Held(c)' : p \notin Q
    BY <1>7, <2>1
  <2>2. CASE ~\E p \in Held(c)' : p \notin Q
    <3>1. Held(c)' = Q
      BY <2>2
    <3>2. ~interrupted => Straight(W, Q)
      BY <1>1, <1>6 DEF RequestsStraight
    <3> QED BY <1>6, <3>1, <3>2
  <2> QED BY <2>1, <2>2
<1>9. ASSUME NEW d \in Connections, d # c
      PROVE  Held(d)' = Held(d) /\ wire'[d] = wire[d]
  <2>1. /\ header'[d] = header[d] /\ terminal'[d] = terminal[d] /\ remnant'[d] = remnant[d]
        /\ shuttingDown'[d] = shuttingDown[d] /\ wire'[d] = wire[d]
    BY <1>1, <1>9, FlushFields
  <2> QED BY <2>1, OthersKept
<1>10. wire'[c] = W /\ interrupted' = interrupted
  <2>1. wire'[c] = W
    BY <1>1, FlushFields
  <2>2. interrupted' = interrupted
    BY DEF FlushCut
  <2> QED BY <2>1, <2>2
<1>11. ASSUME NEW d \in Connections
       PROVE  Linked(wire'[d], Held(d)') /\ (~interrupted => Straight(wire'[d], Held(d)'))
  <2>1. CASE d = c
    BY <1>8, <1>10, <2>1
  <2>2. CASE d # c
    <3>1. Linked(wire[d], Held(d)) /\ (~interrupted => Straight(wire[d], Held(d)))
      BY <1>1 DEF RequestsLinked, RequestsStraight
    <3> QED BY <1>9, <2>2, <3>1
  <2> QED BY <2>1, <2>2
<1>12. RequestsLinked'
  BY <1>11 DEF RequestsLinked, Linked, Continues
<1>13. RequestsStraight'
  BY <1>10, <1>11 DEF RequestsStraight, Straight, Continues
<1> QED BY <1>12, <1>13

LEMMA NothingSent ==
  ASSUME NEW w \in Seq(Segments), NEW S \in Seq(Chunks)
  PROVE  Sends(w, S, 0, 0) = w
<1>1. PICK W : W = Sends(w, S, 0, 0)
  OBVIOUS
<1>2. Touched(0, 0) = 0
  BY DEF Touched
<1>3. Retained(w, S, 0, 0) = Len(w)
  BY <1>2 DEF Retained
<1>4. Len(S) \in Nat /\ Len(w) \in Nat
  BY LenProperties
<1>5. 0 \in 0..Len(S) /\ 0 \in Nat /\ (0 > 0 => 0 < Len(S))
  BY <1>4
<1>6. /\ W \in Seq(Segments) /\ Len(W) = Retained(w, S, 0, 0) + Touched(0, 0)
      /\ \A i \in 1..Retained(w, S, 0, 0) : W[i] = w[i]
  BY <1>1, <1>5, SendsShape
<1>7. Len(W) = Len(w) /\ \A i \in 1..Len(w) : W[i] = w[i]
  BY <1>2, <1>3, <1>4, <1>6
<1> QED BY <1>1, <1>6, <1>7, SeqEqual

LEMMA FlushTerminal ==
  ASSUME StreamsInv, NEW c \in Connections, NEW n, NEW b, FlushCut(c, n, b)
  PROVE  TerminalIsLast'
<1> DEFINE S == Streams(c)
           W == WireAfter(c, n, b)
<1>1. /\ StreamsTypes /\ TerminalIsLast /\ IsCut(S, n, b) /\ RequestsLinked
  BY FlushFields DEF StreamsInv
<1>2. /\ wire[c] \in Seq(Segments) /\ S \in Seq(Chunks) /\ n \in 0..Len(S) /\ b \in Nat
      /\ (b > 0 => n < Len(S)) /\ W = Sends(wire[c], S, n, b)
      /\ n \in Nat /\ Len(S) \in Nat /\ Pending(c) \in Nat
  BY <1>1, WriteTypes, Reaches DEF WireAfter
<1>3. /\ header'[c] = HeaderAfter(c, n, b) /\ terminal'[c] = TerminalAfter(c, n, b)
      /\ remnant'[c] = RemnantNext(c, n, b) /\ shuttingDown'[c] = shuttingDown[c]
      /\ wire'[c] = W
  BY <1>1, FlushFields
<1>4. /\ terminal[c] \in Nat /\ terminal[c] <= Size(Terminal) /\ Size(Terminal) \in Nat \ {0}
      /\ Terminal \in Header..Terminal /\ Header # Terminal /\ Terminal \notin Spans
  BY <1>1, StreamsState, Sizes
<1>5. /\ TerminalAfter(c, n, b) \in Nat /\ TerminalAfter(c, n, b) >= terminal[c]
  BY <1>1, <1>4, TerminalAfterShape
<1>6. TerminalAfter(c, n, b) > 0 =>
        /\ shuttingDown[c] /\ RemnantNext(c, n, b) = None /\ HeaderAfter(c, n, b) = Size(Header)
        /\ Continues(W, Piece(Terminal, TerminalAfter(c, n, b)))
  <2> SUFFICES ASSUME TerminalAfter(c, n, b) > 0
               PROVE  /\ shuttingDown[c] /\ RemnantNext(c, n, b) = None
                      /\ HeaderAfter(c, n, b) = Size(Header)
                      /\ Continues(W, Piece(Terminal, TerminalAfter(c, n, b)))
    OBVIOUS
  <2>1. terminal[c] > 0 => /\ shuttingDown[c] /\ remnant[c] = None /\ header[c] = Size(Header)
                           /\ Continues(wire[c], Piece(Terminal, terminal[c]))
                           /\ Pending(c) = 0
    <3>1. terminal[c] > 0 => /\ shuttingDown[c] /\ remnant[c] = None /\ header[c] = Size(Header)
                             /\ Continues(wire[c], Piece(Terminal, terminal[c]))
      BY <1>1 DEF TerminalIsLast
    <3>2. ~(Size(Header) < Size(Header))
      BY Sizes
    <3> QED BY <3>1, <3>2 DEF Pending, HeaderPieces, RemnantPieces
  <2>2. shuttingDown[c] /\ n >= Pending(c)
    <3>1. CASE terminal[c] > 0
      BY <1>2, <2>1, <3>1
    <3>2. CASE ~(terminal[c] > 0)
      <4>1. TerminalAfter(c, n, b) # terminal[c]
        BY <1>4, <3>2
      <4>2. shuttingDown[c] /\ ~(n < Pending(c))
        BY <1>1, <4>1, TerminalAfterShape
      <4> QED BY <1>2, <4>2
    <3> QED BY <3>1, <3>2
  <2>3. RemnantNext(c, n, b) = None
    <3>1. ~Takes(c, n, b)
      BY <1>1, <2>2, RemnantNextShape
    <3>2. remnant[c] = None \/ Done(c, n, b)
      BY <1>1, <2>2, RemnantNextShape
    <3>3. ~(n < Pending(c))
      BY <1>2, <2>2
    <3> QED BY <1>1, <3>1, <3>2, <3>3, RemnantNextShape
  <2>4. HeaderAfter(c, n, b) = Size(Header)
    <3>1. header[c] = Size(Header) \/ n > 0
      <4>1. header[c] < Size(Header) \/ header[c] = Size(Header)
        BY <1>1, StreamsState, Sizes
      <4>2. header[c] < Size(Header) => Pending(c) >= 1
        BY <1>1, BeforeSpansShape
      <4> QED BY <1>2, <2>2, <4>1, <4>2
    <3> QED BY <1>1, <3>1, HeaderAfterShape
  <2>5. CASE n = Len(S) /\ TerminalAfter(c, n, b) = Size(Terminal) /\ Len(S) = Pending(c)
    <3>1. ~(terminal[c] < Size(Terminal))
      <4>1. terminal[c] < Size(Terminal) => Len(S) = Pending(c) + 1
        BY <1>1, <2>2, StreamsShape
      <4> QED BY <1>2, <2>5, <4>1
    <3>2. terminal[c] = Size(Terminal) /\ terminal[c] > 0
      BY <1>4, <3>1
    <3>3. n = 0 /\ b = 0
      BY <1>2, <2>1, <2>5, <3>2
    <3>4. W = wire[c]
      BY <1>2, <3>3, NothingSent
    <3> QED BY <2>1, <2>2, <2>3, <2>4, <2>5, <3>2, <3>4
  <2>6. ASSUME Len(S) = Pending(c) + 1, terminal[c] < Size(Terminal),
               S[Pending(c) + 1] = Piece(Terminal, terminal[c])
        PROVE  Continues(W, Piece(Terminal, TerminalAfter(c, n, b)))
    <3>1. Piece(Terminal, terminal[c]).item = Terminal /\ Piece(Terminal, terminal[c]).at = terminal[c]
      BY DEF Piece
    <3>2. CASE n > 0 \/ b > 0
      <4>1. /\ Touched(n, b) \in 1..Len(S) /\ W # << >> /\ Last(W).item = S[Touched(n, b)].item
            /\ Last(W).to = IF Touched(n, b) <= n THEN Size(S[Touched(n, b)].item)
                                                  ELSE S[Touched(n, b)].at + b
        <5>1. LET V == Sends(wire[c], S, n, b)
                  m == Touched(n, b)
              IN /\ m \in 1..Len(S) /\ V # << >> /\ Last(V).item = S[m].item
                 /\ Last(V).to = IF m <= n THEN Size(S[m].item) ELSE S[m].at + b
          <6> HIDE DEF S
          <6> QED BY <1>2, <3>2, SendsLast, Zenon
        <5> QED BY <1>2, <5>1
      <4>2. CASE Touched(n, b) = Pending(c) + 1
        <5>1. S[Touched(n, b)].item = Terminal /\ S[Touched(n, b)].at = terminal[c]
          BY <2>6, <3>1, <4>2
        <5>2. CASE n = Len(S)
          <6>1. ~(n = Pending(c))
            BY <1>2, <2>6, <5>2
          <6>2. TerminalAfter(c, n, b) = Size(Terminal) /\ Touched(n, b) <= n
            <7>1. TerminalAfter(c, n, b) = Size(Terminal)
              BY <1>1, <2>2, <6>1, TerminalAfterShape
            <7> QED BY <1>2, <2>6, <4>2, <5>2, <7>1
          <6> QED BY <4>1, <5>1, <6>2 DEF Continues, Piece
        <5>3. CASE n # Len(S)
          <6>1. TerminalAfter(c, n, b) = terminal[c] + b /\ n = Pending(c)
            BY <1>1, <2>2, <5>3, TerminalAfterShape
          <6>2. ~(Touched(n, b) <= n)
            BY <1>2, <4>2, <6>1
          <6> QED BY <4>1, <5>1, <6>1, <6>2 DEF Continues, Piece
        <5> QED BY <5>2, <5>3
      <4>3. CASE Touched(n, b) # Pending(c) + 1
        <5>1. n = Pending(c) /\ b = 0
          BY <1>2, <2>2, <2>6, <4>3 DEF Touched
        <5>2. n # Len(S)
          BY <1>2, <2>6, <5>1
        <5>3. TerminalAfter(c, n, b) = terminal[c] + b
          BY <1>1, <2>2, <5>2, TerminalAfterShape
        <5>4. terminal[c] > 0
          BY <1>4, <5>1, <5>3
        <5> QED BY <2>1, <3>2, <5>1, <5>4
      <4> QED BY <4>2, <4>3
    <3>3. CASE ~(n > 0 \/ b > 0)
      <4>1. n = 0 /\ b = 0 /\ n # Len(S)
        BY <1>2, <2>6, <3>3
      <4>2. TerminalAfter(c, n, b) = terminal[c] + 0
        BY <1>1, <2>2, <4>1, TerminalAfterShape
      <4>3. TerminalAfter(c, n, b) = terminal[c] /\ terminal[c] > 0
        BY <1>4, <4>2
      <4>4. W = wire[c]
        BY <1>2, <4>1, NothingSent
      <4> QED BY <2>1, <4>3, <4>4
    <3> QED BY <3>2, <3>3
  <2>7. CASE Len(S) = Pending(c)
    <3>1. n = Len(S) /\ ~(Len(S) = n + 1)
      BY <1>2, <2>2, <2>7
    <3>2. TerminalAfter(c, n, b) = Size(Terminal)
      BY <1>1, <2>2, <3>1, TerminalAfterShape
    <3> QED BY <2>5, <2>7, <3>1, <3>2
  <2>8. Len(S) = Pending(c) \/ (/\ Len(S) = Pending(c) + 1 /\ terminal[c] < Size(Terminal)
                                /\ S[Pending(c) + 1] = Piece(Terminal, terminal[c]))
    BY <1>1, <2>2, StreamsShape
  <2> QED BY <2>2, <2>3, <2>4, <2>6, <2>7, <2>8
<1>7. ASSUME NEW i \in DOMAIN W, W[i].item = Terminal
      PROVE  TerminalAfter(c, n, b) > 0
  <2>1. \/ i \in DOMAIN wire[c] /\ W[i] = wire[c][i]
        \/ \E q \in 1..Touched(n, b) : q \in 1..Len(S) /\ W[i].item = S[q].item
    <3> HIDE DEF S, W
    <3> QED BY <1>2, <1>7, SendsItems
  <2>2. CASE i \in DOMAIN wire[c] /\ W[i] = wire[c][i]
    <3>1. terminal[c] > 0
      BY <1>1, <1>7, <2>2 DEF TerminalIsLast
    <3> QED BY <1>4, <1>5, <3>1
  <2>3. ASSUME NEW q \in 1..Touched(n, b), q \in 1..Len(S), S[q].item = Terminal
        PROVE  TerminalAfter(c, n, b) > 0
    <3>1. /\ shuttingDown[c] /\ q = Pending(c) + 1 /\ terminal[c] < Size(Terminal)
      <4>1. Piece(Header, header[c]).item # Terminal
        BY <1>4 DEF Piece
      <4>2. remnant[c] # None => remnant[c].item # Terminal
        BY <1>1, StreamsState, RemnantPiece
      <4>3. \A t \in 1..Len(buffer) : Piece(buffer[t], 0).item # Terminal
        BY <1>1, StreamsState DEF Piece
      <4> QED BY <1>1, <2>3, <4>1, <4>2, <4>3, StreamsElements
    <3>2. Len(S) = Pending(c) + 1
      BY <1>1, <3>1, StreamsShape
    <3>3. n >= Pending(c) /\ (n = Pending(c) => b > 0)
      BY <1>2, <2>3, <3>1 DEF Touched
    <3>4. CASE n = Len(S)
      <4>1. ~(n = Pending(c))
        BY <1>2, <3>2, <3>4
      <4>2. TerminalAfter(c, n, b) = Size(Terminal)
        BY <1>1, <3>1, <3>3, <4>1, TerminalAfterShape
      <4> QED BY <1>4, <4>2
    <3>5. CASE n # Len(S)
      <4>1. TerminalAfter(c, n, b) = terminal[c] + b /\ n = Pending(c)
        BY <1>1, <3>1, <3>3, <3>5, TerminalAfterShape
      <4> QED BY <1>2, <1>4, <3>3, <4>1
    <3> QED BY <3>4, <3>5
  <2> QED BY <1>7, <2>1, <2>2, <2>3
<1>8. ASSUME NEW d \in Connections
      PROVE  /\ terminal'[d] > 0 =>
                  /\ shuttingDown'[d] /\ remnant'[d] = None /\ header'[d] = Size(Header)
                  /\ Continues(wire'[d], Piece(Terminal, terminal'[d]))
             /\ \A i \in DOMAIN wire'[d] : wire'[d][i].item = Terminal => terminal'[d] > 0
  <2>1. CASE d = c
    BY <1>3, <1>6, <1>7, <2>1
  <2>2. CASE d # c
    <3>1. /\ header'[d] = header[d] /\ terminal'[d] = terminal[d] /\ remnant'[d] = remnant[d]
          /\ shuttingDown'[d] = shuttingDown[d] /\ wire'[d] = wire[d]
      BY <1>1, <2>2, FlushFields
    <3>2. /\ terminal[d] > 0 =>
                /\ shuttingDown[d] /\ remnant[d] = None /\ header[d] = Size(Header)
                /\ Continues(wire[d], Piece(Terminal, terminal[d]))
          /\ \A i \in DOMAIN wire[d] : wire[d][i].item = Terminal => terminal[d] > 0
      BY <1>1 DEF TerminalIsLast
    <3> QED BY <3>1, <3>2
  <2> QED BY <2>1, <2>2
<1> QED BY <1>8 DEF TerminalIsLast, Continues

\* The spans that a write of n pieces of S finishes.
Finished(S, n) == {S[q].item : q \in 1..n} \cap Spans

LEMMA FinishedSpans ==
  ASSUME StreamsTypes, NEW c \in Connections, NEW n, NEW b, IsCut(Streams(c), n, b)
  PROVE  /\ FirstSpans(SpansDone(c, n)) \subseteq Finished(Streams(c), n)
         /\ Done(c, n, b) => RemnantAfter(c, n, b).item \in Finished(Streams(c), n)
         /\ \A s \in Finished(Streams(c), n) :
              \/ s \in FirstSpans(SpansDone(c, n))
              \/ Done(c, n, b) /\ s = RemnantAfter(c, n, b).item
<1> DEFINE S == Streams(c)
<1>1. /\ n \in Nat /\ b \in Nat /\ Len(S) \in Nat /\ n <= Len(S) /\ Pending(c) \in Nat
      /\ Len(buffer) \in Nat
  <2>1. n \in Nat /\ b \in Nat /\ Len(S) \in Nat /\ Pending(c) \in Nat /\ Len(buffer) \in Nat
    BY Reaches, StreamsState
  <2>2. n \in 0..Len(S)
    BY DEF IsCut
  <2> QED BY <2>1, <2>2
<1>2. ASSUME NEW t \in 1..SpansDone(c, n)
      PROVE  buffer[t] \in Finished(S, n)
  <2>1. ReachesSpans(c, n)
    <3>1. SpansDone(c, n) # 0
      BY <1>2
    <3> QED BY <3>1, Reaches
  <2>2. /\ ~shuttingDown[c] /\ n >= Pending(c) /\ SpansDone(c, n) = n - Pending(c)
        /\ Len(S) = Pending(c) + Len(buffer)
    BY <2>1, Reaches
  <2>3. Pending(c) + t \in 1..n /\ t \in 1..Len(buffer)
    BY <1>1, <1>2, <2>2
  <2>4. S[Pending(c) + t] = Piece(buffer[t], 0) /\ buffer[t] \in Spans
    BY <2>2, <2>3, StreamsShape, StreamsState
  <2>5. S[Pending(c) + t].item = buffer[t]
    BY <2>4 DEF Piece
  <2> QED BY <2>3, <2>4, <2>5 DEF Finished
<1>3. ASSUME Done(c, n, b)
      PROVE  RemnantAfter(c, n, b).item \in Finished(S, n)
  <2>1. remnant[c] # None /\ n >= Pending(c)
    BY <1>3, RemnantNextShape
  <2>2. /\ RemnantAfter(c, n, b).item = remnant[c].item /\ RemnantAfter(c, n, b).item \in Spans
        /\ Pending(c) >= 1 /\ S[Pending(c)] = remnant[c]
    BY <2>1, RemnantAfterShape
  <2>3. Pending(c) \in 1..n
    BY <1>1, <2>1, <2>2
  <2> QED BY <2>2, <2>3 DEF Finished
<1>4. ASSUME NEW s \in Finished(S, n)
      PROVE  s \in FirstSpans(SpansDone(c, n)) \/ (Done(c, n, b) /\ s = RemnantAfter(c, n, b).item)
  <2>1. PICK q \in 1..n : s = S[q].item /\ s \in Spans
    BY <1>4 DEF Finished
  <2>2. q \in 1..Len(S)
    BY <1>1
  <2>3. s # Header /\ s # Terminal
    BY <2>1, Sizes
  <2>4. CASE q = Pending(c) /\ remnant[c] # None /\ S[q] = remnant[c]
    <3>1. n >= Pending(c)
      BY <1>1, <2>4
    <3>2. Done(c, n, b)
      BY <2>4, <3>1, RemnantNextShape
    <3>3. RemnantAfter(c, n, b).item = remnant[c].item
      BY <2>4, RemnantAfterShape
    <3> QED BY <2>1, <2>4, <3>2, <3>3
  <2>5. ASSUME ~shuttingDown[c], NEW t \in 1..Len(buffer), q = Pending(c) + t,
               S[q] = Piece(buffer[t], 0)
        PROVE  s \in FirstSpans(SpansDone(c, n))
    <3>1. ~(n < Pending(c)) /\ n # 0
      BY <1>1, <2>5
    <3>2. ReachesSpans(c, n)
      BY <2>5, <3>1, Reaches
    <3>3. SpansDone(c, n) = n - Pending(c)
      BY <3>2, Reaches
    <3>4. t \in 1..SpansDone(c, n)
      BY <1>1, <2>5, <3>3
    <3>5. s = buffer[t]
      BY <2>1, <2>5 DEF Piece
    <3> QED BY <3>4, <3>5 DEF FirstSpans
  <2>6. CASE S[q] = Piece(Header, header[c]) \/ S[q] = Piece(Terminal, terminal[c])
    BY <2>1, <2>3, <2>6 DEF Piece
  <2> QED BY <2>2, <2>4, <2>5, <2>6, StreamsElements
<1> QED BY <1>2, <1>3, <1>4 DEF FirstSpans

\* What a request holds whole after a write.
LEMMA WholeAfter ==
  ASSUME NEW w \in Seq(Segments), NEW S \in Seq(Chunks), NEW n, NEW b, IsCut(S, n, b),
         NEW W, W = Sends(w, S, n, b)
  PROVE  /\ Whole(W) \subseteq Whole(w) \cup Finished(S, n)
         /\ (\A i \in DOMAIN W : W[i].from = 0) => Finished(S, n) \subseteq Whole(W)
<1>1. /\ n \in 0..Len(S) /\ b \in Nat /\ (b > 0 => n < Len(S)) /\ Len(S) \in Nat /\ n \in Nat
      /\ b > 0 => b < Left(S[n + 1])
  BY LenProperties DEF IsCut
<1>2. ASSUME NEW s \in Whole(W), s \notin Whole(w)
      PROVE  s \in Finished(S, n)
  <2>1. PICK i \in DOMAIN W : W[i] = [item |-> s, from |-> 0, to |-> Size(s)] /\ s \in Spans
    BY <1>2 DEF Whole
  <2>2. ~(i \in DOMAIN w /\ W[i] = w[i])
    BY <1>2, <2>1 DEF Whole
  <2>3. PICK q \in 1..Touched(n, b) :
          /\ q \in 1..Len(S) /\ W[i].item = S[q].item
          /\ W[i].to = IF q <= n THEN Size(S[q].item) ELSE S[q].at + b
    BY <1>1, <2>2, SendsItems
  <2>4. S[q].item = s
    BY <2>1, <2>3
  <2>5. q <= n
    <3>1. SUFFICES ASSUME ~(q <= n) PROVE FALSE
      OBVIOUS
    <3>2. q = n + 1 /\ b > 0
      BY <1>1, <2>3, <3>1 DEF Touched
    <3>3. Size(s) = S[q].at + b
      BY <2>1, <2>3, <3>1
    <3>4. S[q] \in Chunks
      BY <2>3, ElementOfSeq
    <3>5. S[q].at \in Nat /\ Size(s) \in Nat
      BY <2>4, <3>4, ChunkFields
    <3>6. b < Size(s) - S[q].at
      BY <1>1, <2>4, <3>2 DEF Left
    <3> QED BY <1>1, <3>3, <3>5, <3>6
  <2>6. q \in 1..n
    BY <1>1, <2>3, <2>5
  <2> QED BY <2>1, <2>4, <2>6 DEF Finished
<1>3. ASSUME \A i \in DOMAIN W : W[i].from = 0, NEW s \in Finished(S, n)
      PROVE  s \in Whole(W)
  <2>1. PICK q \in 1..n : s = S[q].item /\ s \in Spans
    BY <1>3 DEF Finished
  <2>2. PICK m, o : m = Touched(n, b) /\ o = Retained(w, S, n, b)
    OBVIOUS
  <2>3. m \in Nat /\ q \in 1..m /\ q <= n
    BY <1>1, <2>2 DEF Touched
  <2>4. /\ o \in Nat /\ W \in Seq(Segments) /\ Len(W) = o + m
        /\ \A t \in 1..m : /\ W[o + t].item = S[t].item
                           /\ W[o + t].to = IF t <= n THEN Size(S[t].item) ELSE S[t].at + b
    <3>1. /\ Retained(w, S, n, b) \in Nat
          /\ Sends(w, S, n, b) \in Seq(Segments)
          /\ Len(Sends(w, S, n, b)) = Retained(w, S, n, b) + Touched(n, b)
          /\ \A i \in 1..Retained(w, S, n, b) : Sends(w, S, n, b)[i] = w[i]
          /\ \A t \in 1..Touched(n, b) :
               /\ Sends(w, S, n, b)[Retained(w, S, n, b) + t].item = S[t].item
               /\ Sends(w, S, n, b)[Retained(w, S, n, b) + t].from =
                    IF Continues(w, S[1]) /\ t = 1 THEN Last(w).from ELSE S[t].at
               /\ Sends(w, S, n, b)[Retained(w, S, n, b) + t].to =
                    IF t <= n THEN Size(S[t].item) ELSE S[t].at + b
      BY <1>1, SendsShape, Zenon
    <3> QED BY <2>2, <3>1
  <2>5. o + q \in DOMAIN W
    <3>1. DOMAIN W = 1..Len(W) /\ Len(W) = o + m
      BY <2>4, LenProperties
    <3>2. o \in Nat
      BY <2>4
    <3> QED BY <2>3, <3>1, <3>2
  <2>6. W[o + q].item = s /\ W[o + q].from = 0 /\ W[o + q].to = Size(s)
    BY <1>3, <2>1, <2>3, <2>4, <2>5
  <2>7. W[o + q] \in Segments
    BY <2>4, <2>5, ElementOfSeq, LenProperties
  <2>8. W[o + q] = [item |-> s, from |-> 0, to |-> Size(s)]
    BY <2>6, <2>7 DEF Segments
  <2> QED BY <2>1, <2>5, <2>8 DEF Whole
<1> QED BY <1>2, <1>3

LEMMA ReceivedWhole ==
  WholeAreReceived <=> \A d \in Connections : Whole(wire[d]) \subseteq received
BY DEF WholeAreReceived, Whole

LEMMA FlushReceived ==
  ASSUME StreamsInv, NEW c \in Connections, NEW n, NEW b, FlushCut(c, n, b)
  PROVE  SentAreReceived' /\ WholeAreReceived'
<1>1. /\ StreamsTypes /\ IsCut(Streams(c), n, b) /\ SentAreReceived
      /\ \A d \in Connections : Whole(wire[d]) \subseteq received
  BY FlushFields, ReceivedWhole DEF StreamsInv
<1>2. /\ received' = received \cup Whole(WireAfter(c, n, b)) /\ interrupted' = interrupted
      /\ sent' = sent \cup FirstSpans(SpansDone(c, n)) \cup
                 IF Done(c, n, b) THEN {RemnantAfter(c, n, b).item} ELSE {}
  BY DEF FlushCut, Transmitted
<1>3. \A d \in Connections : wire'[d] = IF d = c THEN WireAfter(c, n, b) ELSE wire[d]
  BY <1>1, FlushFields
<1>4. WholeAreReceived'
  <2>1. \A d \in Connections : Whole(wire'[d]) \subseteq received'
    BY <1>1, <1>2, <1>3
  <2> QED BY <2>1 DEF WholeAreReceived, Whole
<1>5. sent' = sent \cup Finished(Streams(c), n)
  BY <1>1, <1>2, FinishedSpans
<1>6. ASSUME ~interrupted'
      PROVE  sent' = received'
  <2>1. Straight(wire'[c], Held(c)')
    <3>1. RequestsStraight'
      BY FlushLinked
    <3>2. \A d \in Connections : Straight(wire'[d], Held(d)')
      BY <1>6, <3>1 DEF RequestsStraight, Straight, Continues
    <3> QED BY <3>2
  <2>2. \A i \in DOMAIN WireAfter(c, n, b) : WireAfter(c, n, b)[i].from = 0
    BY <1>3, <2>1 DEF Straight
  <2>3. wire[c] \in Seq(Segments) /\ Streams(c) \in Seq(Chunks)
    BY <1>1, WriteTypes
  <2>4. /\ Whole(WireAfter(c, n, b)) \subseteq Whole(wire[c]) \cup Finished(Streams(c), n)
        /\ Finished(Streams(c), n) \subseteq Whole(WireAfter(c, n, b))
    BY <1>1, <2>2, <2>3, WholeAfter DEF WireAfter
  <2>5. sent = received
    BY <1>1, <1>2, <1>6 DEF SentAreReceived
  <2> QED BY <1>1, <1>2, <1>5, <2>4, <2>5
<1> QED BY <1>4, <1>6 DEF SentAreReceived

\* The spans that a Flush begins were at the front of the buffer, or in the
\* SpanStream.
LEMMA FlushBegunBy ==
  ASSUME StreamsTypes, NEW c \in Connections, NEW n, NEW b, FlushCut(c, n, b),
         NEW d \in Connections, NEW s \in BegunBy(d)'
  PROVE  \/ s \in BegunBy(d)
         \/ d = c /\ \E t \in 1..Took(c, n, b) : s = buffer[t]
         \/ d = c /\ stray # None /\ s = stray.item /\ Takes(c, n, b) /\ ~ReachesSpans(c, n)
<1>1. /\ IsCut(Streams(c), n, b)
      /\ remnant'[d] = IF d = c THEN RemnantNext(c, n, b) ELSE remnant[d]
      /\ wire'[d] = IF d = c THEN WireAfter(c, n, b) ELSE wire[d]
  BY FlushFields
<1>2. /\ n \in Nat /\ b \in Nat /\ Len(Streams(c)) \in Nat /\ Pending(c) \in Nat /\ Len(buffer) \in Nat
  BY <1>1, Reaches, StreamsState
<1>3. s \in Spans
  BY DEF BegunBy, Spans
<1>4. CASE remnant'[d] # None /\ s = remnant'[d].item
  <2>1. CASE d # c \/ ~Takes(c, n, b)
    <3>1. remnant[d] # None /\ s = remnant[d].item
      BY <1>1, <1>4, <2>1, RemnantNextShape
    <3> QED BY <1>3, <3>1 DEF BegunBy
  <2>2. CASE d = c /\ Takes(c, n, b)
    <3>1. StrayAfter(c, n, b) # None /\ s = StrayAfter(c, n, b).item
      BY <1>1, <1>4, <2>2 DEF RemnantNext
    <3>2. CASE ReachesSpans(c, n)
      <4>1. b > 0
        BY <1>1, <3>1, <3>2, TookShape
      <4>2. Took(c, n, b) = SpansDone(c, n) + 1 /\ SpansDone(c, n) \in 0..Took(c, n, b)
            /\ s = buffer[Took(c, n, b)] /\ Took(c, n, b) \in 0..Len(buffer)
        BY <1>1, <3>1, <3>2, <4>1, TookShape
      <4>3. Took(c, n, b) \in 1..Took(c, n, b)
        BY <1>2, <4>2
      <4> QED BY <2>2, <4>2, <4>3
    <3>3. CASE ~ReachesSpans(c, n)
      BY <1>1, <2>2, <3>1, <3>3, TookShape
    <3> QED BY <3>2, <3>3
  <2> QED BY <2>1, <2>2
<1>5. ASSUME NEW i \in DOMAIN wire'[d], wire'[d][i].item = s
      PROVE  s \in BegunBy(d) \/ (d = c /\ \E t \in 1..Took(c, n, b) : s = buffer[t])
  <2>1. CASE d # c
    <3>1. i \in DOMAIN wire[d] /\ wire[d][i].item = s
      BY <1>1, <1>5, <2>1
    <3> QED BY <1>3, <3>1 DEF BegunBy
  <2>2. CASE d = c
    <3>1. /\ wire[c] \in Seq(Segments) /\ Streams(c) \in Seq(Chunks)
          /\ n \in 0..Len(Streams(c)) /\ (b > 0 => n < Len(Streams(c)))
      BY <1>1, WriteTypes
    <3>2. PICK W : W = Sends(wire[c], Streams(c), n, b)
      OBVIOUS
    <3>3. i \in DOMAIN W /\ W[i].item = s
      BY <1>1, <1>5, <2>2, <3>2 DEF WireAfter
    <3>4. \/ i \in DOMAIN wire[c] /\ W[i] = wire[c][i]
          \/ \E q \in 1..Touched(n, b) : q \in 1..Len(Streams(c)) /\ W[i].item = Streams(c)[q].item
      <4>1. i \in DOMAIN W
        BY <3>3
      <4> DEFINE S == Streams(c)
                 w == wire[c]
      <4>2. /\ w \in Seq(Segments) /\ S \in Seq(Chunks) /\ n \in 0..Len(S) /\ b \in Nat
            /\ (b > 0 => n < Len(S)) /\ W = Sends(w, S, n, b)
        BY <1>2, <3>1, <3>2
      <4> HIDE DEF S, w
      <4>3. \/ i \in DOMAIN w /\ W[i] = w[i]
            \/ \E q \in 1..Touched(n, b) :
                 /\ q \in 1..Len(S) /\ W[i].item = S[q].item
                 /\ W[i].to = IF q <= n THEN Size(S[q].item) ELSE S[q].at + b
        BY <4>1, <4>2, SendsItems
      <4> QED BY <4>3 DEF S, w
    <3>5. CASE i \in DOMAIN wire[c] /\ W[i] = wire[c][i]
      BY <1>3, <2>2, <3>3, <3>5 DEF BegunBy
    <3>6. ASSUME NEW q \in 1..Touched(n, b), q \in 1..Len(Streams(c)), Streams(c)[q].item = s
          PROVE  s \in BegunBy(c) \/ \E t \in 1..Took(c, n, b) : s = buffer[t]
      <4>1. s # Header /\ s # Terminal
        BY <1>3, Sizes
      <4>2. CASE Streams(c)[q] = Piece(Header, header[c]) \/ Streams(c)[q] = Piece(Terminal, terminal[c])
        BY <3>6, <4>1, <4>2 DEF Piece
      <4>3. CASE remnant[c] # None /\ Streams(c)[q] = remnant[c]
        BY <1>3, <3>6, <4>3 DEF BegunBy
      <4>4. ASSUME ~shuttingDown[c], NEW t \in 1..Len(buffer), q = Pending(c) + t,
                   Streams(c)[q] = Piece(buffer[t], 0)
            PROVE  \E j \in 1..Took(c, n, b) : s = buffer[j]
        <5>1. s = buffer[t]
          BY <3>6, <4>4 DEF Piece
        <5>2. Pending(c) + t <= Touched(n, b) /\ t >= 1 /\ t \in Nat
          <6>1. Touched(n, b) \in Nat
            BY <1>2 DEF Touched
          <6> QED BY <1>2, <3>6, <4>4, <6>1
        <5>3. ReachesSpans(c, n)
          <6>1. ~(n < Pending(c)) /\ ~(n = 0 /\ b = 0)
            BY <1>2, <5>2 DEF Touched
          <6> QED BY <1>1, <4>4, <6>1, Reaches
        <5>4. SpansDone(c, n) = n - Pending(c)
          BY <1>1, <5>3, Reaches
        <5>5. CASE b > 0
          <6>1. Took(c, n, b) = n - Pending(c) + 1 /\ Touched(n, b) = n + 1
            BY <5>3, <5>4, <5>5 DEF Took, Touched
          <6>2. t \in 1..Took(c, n, b)
            BY <1>2, <5>2, <6>1
          <6> QED BY <5>1, <6>2
        <5>6. CASE ~(b > 0)
          <6>1. Took(c, n, b) = n - Pending(c) + 0 /\ Touched(n, b) = n
            BY <5>3, <5>4, <5>6 DEF Took, Touched
          <6>2. t \in 1..Took(c, n, b)
            BY <1>2, <5>2, <6>1
          <6> QED BY <5>1, <6>2
        <5> QED BY <5>5, <5>6
      <4> QED BY <3>6, <4>2, <4>3, <4>4, StreamsElements
    <3> QED BY <2>2, <3>3, <3>4, <3>5, <3>6
  <2> QED BY <2>1, <2>2
<1>6. \/ remnant'[d] # None /\ s = remnant'[d].item
      \/ \E i \in DOMAIN wire'[d] : wire'[d][i].item = s
  BY DEF BegunBy, Spans
<1> QED BY <1>4, <1>5, <1>6

\* The spans begun are those that some connection has begun.
LEMMA BegunUnion ==
  /\ StreamsTypes => Begun = UNION {BegunBy(c) : c \in Connections}
  /\ StreamsTypes' => Begun' = UNION {BegunBy(c)' : c \in Connections}
<1>1. ASSUME StreamsTypes
      PROVE  Begun = UNION {BegunBy(c) : c \in Connections}
  <2>1. \A c \in Connections : remnant[c] # None => remnant[c].item \in Spans
    BY <1>1, StreamsState, RemnantPiece
  <2> QED BY <2>1 DEF Begun, BegunBy, HalfWritten, Remnants
<1>2. ASSUME StreamsTypes'
      PROVE  Begun' = UNION {BegunBy(c)' : c \in Connections}
  <2>1. \A c \in Connections : remnant'[c] \in Pieces
    BY <1>2 DEF StreamsTypes, Pieces, Spans, Size
  <2>2. \A c \in Connections : remnant'[c] # None => remnant'[c].item \in Spans
    BY <2>1, RemnantPiece
  <2> QED BY <2>2 DEF Begun, BegunBy, HalfWritten, Remnants, Spans
<1> QED BY <1>1, <1>2

LEMMA FlushBegun ==
  ASSUME StreamsTypes, NEW c \in Connections, NEW n, NEW b, FlushCut(c, n, b), NEW s \in Begun'
  PROVE  \/ s \in Begun
         \/ \E t \in 1..Took(c, n, b) : s = buffer[t]
         \/ stray # None /\ s = stray.item /\ Takes(c, n, b) /\ ~ReachesSpans(c, n)
<1>1. StreamsTypes'
  BY FlushTypes
<1>2. PICK d \in Connections : s \in BegunBy(d)'
  BY <1>1, BegunUnion
<1>3. s \in BegunBy(d) => s \in Begun
  BY BegunUnion
<1> QED BY <1>2, <1>3, FlushBegunBy

\* After a Flush the SpanStream keeps what it had, or nothing.
LEMMA FlushStray ==
  ASSUME StreamsTypes, NEW c \in Connections, NEW n, NEW b, FlushCut(c, n, b), stray' # None
  PROVE  /\ stray' = stray /\ ~Takes(c, n, b) /\ ~ReachesSpans(c, n) /\ Took(c, n, b) = 0
         /\ SpansDone(c, n) = 0
<1>1. IsCut(Streams(c), n, b) /\ stray' = IF Takes(c, n, b) THEN None ELSE StrayAfter(c, n, b)
  BY DEF FlushCut, Transmitted
<1>2. ~Takes(c, n, b) /\ stray' = StrayAfter(c, n, b)
  BY <1>1
<1>3. ~ReachesSpans(c, n)
  BY <1>1, <1>2, RemnantNextShape
<1> QED BY <1>1, <1>2, <1>3, TookShape, Reaches

LEMMA FlushOrdered ==
  ASSUME StreamsInv, NEW c \in Connections, NEW n, NEW b, FlushCut(c, n, b)
  PROVE  Ordered'
<1>1. /\ StreamsTypes /\ Ordered /\ StrayIsLost /\ AccountedOnce /\ Transmitted(c, n, b)
      /\ recorded \in Nat /\ recorded' = recorded
  BY Sizes DEF StreamsInv, FlushCut, StreamsTypes
<1>2. PICK t : t = Took(c, n, b)
  OBVIOUS
<1>3. /\ t \in Nat /\ DOMAIN buffer' = 1..Len(buffer') /\ DOMAIN buffer = 1..Len(buffer)
      /\ Len(buffer) \in Nat /\ Len(buffer') \in Nat /\ t <= Len(buffer)
      /\ \A i \in DOMAIN buffer' : t + i \in DOMAIN buffer /\ buffer'[i] = buffer[t + i]
      /\ \A i \in DOMAIN buffer : buffer[i] \in Nat /\ buffer[i] <= recorded
      /\ t = 0 => \A i \in DOMAIN buffer' : i \in DOMAIN buffer /\ buffer'[i] = buffer[i]
  <2>1. /\ t \in Nat /\ DOMAIN buffer' = 1..Len(buffer') /\ DOMAIN buffer = 1..Len(buffer)
        /\ Len(buffer) \in Nat /\ Len(buffer') \in Nat /\ Len(buffer') = Len(buffer) - t
    BY <1>1, <1>2, BufferAfter, StreamsState
  <2>2. \A i \in DOMAIN buffer' : t + i \in DOMAIN buffer /\ buffer'[i] = buffer[t + i]
    BY <1>1, <1>2, <2>1, BufferAfter
  <2>3. \A i \in DOMAIN buffer : buffer[i] \in Nat
    BY <1>1, StreamsState
  <2>4. \A i \in DOMAIN buffer : buffer[i] \in 1..recorded
    BY <1>1 DEF AccountedOnce, Accounted, ToSet
  <2>5. t = 0 => \A i \in DOMAIN buffer' : t + i = i
    BY <2>1
  <2> QED BY <1>1, <2>1, <2>2, <2>3, <2>4, <2>5
<1>4. ASSUME NEW i \in DOMAIN buffer', NEW j \in DOMAIN buffer', i < j
      PROVE  buffer'[i] < buffer'[j]
  <2>1. t + i < t + j
    BY <1>3, <1>4
  <2> QED BY <1>1, <1>3, <2>1 DEF Ordered
<1>5. ASSUME NEW s \in Begun'
      PROVE  s <= recorded /\ \A i \in DOMAIN buffer' : s < buffer'[i]
  <2>1. CASE s \in Begun
    BY <1>1, <1>3, <2>1 DEF Ordered
  <2>2. ASSUME NEW h \in 1..t, s = buffer[h]
        PROVE  s <= recorded /\ \A i \in DOMAIN buffer' : s < buffer'[i]
    <3>1. h \in DOMAIN buffer /\ \A i \in DOMAIN buffer' : h < t + i
      BY <1>3, <2>2
    <3>2. \A i \in DOMAIN buffer' : buffer[h] < buffer[t + i]
      BY <1>1, <1>3, <3>1 DEF Ordered
    <3> QED BY <1>3, <2>2, <3>1, <3>2
  <2>3. CASE stray # None /\ s = stray.item
    BY <1>1, <1>3, <2>3 DEF Ordered, StrayIsLost
  <2> QED BY <1>1, <1>2, <1>5, <2>1, <2>2, <2>3, FlushBegun
<1>6. ASSUME stray' # None
      PROVE  /\ \A i \in DOMAIN buffer' : stray'.item < buffer'[i]
             /\ \A s \in Begun' : s < stray'.item
  <2>1. stray' = stray /\ ~Takes(c, n, b) /\ t = 0
    BY <1>1, <1>2, <1>6, FlushStray
  <2>2. \A s \in Begun' : s \in Begun
    <3>1. \A h \in 1..t : FALSE
      BY <2>1
    <3> QED BY <1>1, <1>2, <2>1, <3>1, FlushBegun
  <2> QED BY <1>1, <1>3, <1>6, <2>1, <2>2 DEF Ordered
<1> QED BY <1>1, <1>4, <1>5, <1>6 DEF Ordered

\* A Flush takes only spans that nobody has begun, and other connections keep
\* what they have.
LEMMA FlushOneWriter ==
  ASSUME StreamsInv, NEW c \in Connections, NEW n, NEW b, FlushCut(c, n, b)
  PROVE  OneWriter'
<1>1. StreamsTypes /\ Ordered /\ OneWriter /\ IsCut(Streams(c), n, b)
  BY FlushFields DEF StreamsInv
<1>2. /\ Took(c, n, b) \in 0..Len(buffer) /\ DOMAIN buffer = 1..Len(buffer)
      /\ Len(buffer) \in Nat
  BY <1>1, TookShape, StreamsState
<1>3. \A t \in 1..Took(c, n, b) : t \in DOMAIN buffer
  BY <1>2
<1>4. \A e \in Connections : e # c => BegunBy(e)' \subseteq BegunBy(e)
  BY <1>1, FlushBegunBy
<1>5. ASSUME NEW e \in Connections, e # c, NEW s \in BegunBy(c)', s \in BegunBy(e)
      PROVE  FALSE
  <2>1. s \in Begun /\ s \in Nat
    <3>1. s \in Spans
      BY <1>5 DEF BegunBy
    <3> QED BY <1>1, <1>5, <3>1, BegunUnion, Sizes
  <2>2. CASE s \in BegunBy(c)
    BY <1>1, <1>5, <2>2 DEF OneWriter
  <2>3. CASE \E t \in 1..Took(c, n, b) : s = buffer[t]
    <3>1. PICK t \in DOMAIN buffer : s = buffer[t]
      BY <1>3, <2>3
    <3>2. s < buffer[t]
      BY <1>1, <2>1, <3>1 DEF Ordered
    <3> QED BY <2>1, <3>1, <3>2
  <2>4. CASE stray # None /\ s = stray.item
    <3>1. s < stray.item
      BY <1>1, <2>1, <2>4 DEF Ordered
    <3> QED BY <2>1, <2>4, <3>1
  <2> QED BY <1>1, <1>5, <2>2, <2>3, <2>4, FlushBegunBy
<1>6. ASSUME NEW d \in Connections, NEW e \in Connections, d # e
      PROVE  BegunBy(d)' \cap BegunBy(e)' = {}
  <2>1. CASE d = c
    BY <1>4, <1>5, <1>6, <2>1
  <2>2. CASE e = c
    BY <1>4, <1>5, <1>6, <2>2
  <2>3. CASE d # c /\ e # c
    BY <1>1, <1>4, <1>6, <2>3 DEF OneWriter
  <2> QED BY <2>1, <2>2, <2>3
<1> QED BY <1>6 DEF OneWriter

LEMMA FlushStrayIsLost ==
  ASSUME StreamsInv, NEW c \in Connections, NEW n, NEW b, FlushCut(c, n, b)
  PROVE  StrayIsLost'
<1>1. SUFFICES ASSUME stray' # None
               PROVE  interrupted' /\ stray'.item <= recorded' /\ stray'.item \notin sent' \cup lost'
  BY DEF StrayIsLost
<1>2. StreamsTypes /\ Ordered /\ StrayIsLost /\ IsCut(Streams(c), n, b)
  BY FlushFields DEF StreamsInv
<1>3. stray' = stray /\ SpansDone(c, n) = 0
  BY <1>1, <1>2, FlushStray
<1>4. interrupted /\ stray.item <= recorded /\ stray.item \notin sent \cup lost
  BY <1>1, <1>2, <1>3 DEF StrayIsLost
<1>5. stray.item \in Nat
  BY <1>1, <1>2, <1>3, RemnantPiece DEF StreamsTypes
<1>6. Done(c, n, b) => RemnantAfter(c, n, b).item # stray.item
  <2> SUFFICES ASSUME Done(c, n, b) PROVE RemnantAfter(c, n, b).item # stray.item
    OBVIOUS
  <2>1. remnant[c] # None
    BY <1>2, RemnantNextShape
  <2>2. RemnantAfter(c, n, b).item = remnant[c].item
    BY <1>2, <2>1, RemnantAfterShape
  <2>3. remnant[c].item \in Begun
    BY <2>1 DEF Begun, HalfWritten, Remnants
  <2>4. remnant[c].item < stray.item
    BY <1>1, <1>2, <1>3, <2>3 DEF Ordered
  <2> QED BY <1>5, <2>2, <2>4
<1>7. FirstSpans(SpansDone(c, n)) = {}
  BY <1>3 DEF FirstSpans
<1> QED BY <1>3, <1>4, <1>6, <1>7 DEF FlushCut

-----------------------------------------------------------------------------
(* Where the spans are after a write.                                      *)

ItemOf(p) == IF p = None THEN {} ELSE {p.item}

\* The spans that the connections other than c have half written.
OthersHalf(c) == {remnant[d].item : d \in Remnants \ {c}}

\* No two connections have half written the same span.
Distinct == \A d, e \in Remnants : remnant[d].item = remnant[e].item => d = e

LEMMA HalfSplit ==
  ASSUME NEW c \in Connections
  PROVE  /\ HalfWritten = OthersHalf(c) \cup ItemOf(remnant[c])
         /\ Distinct => OthersHalf(c) \cap ItemOf(remnant[c]) = {}
<1>1. HalfWritten \subseteq OthersHalf(c) \cup ItemOf(remnant[c])
  BY DEF HalfWritten, OthersHalf, ItemOf, Remnants
<1>2. OthersHalf(c) \subseteq HalfWritten
  BY DEF HalfWritten, OthersHalf
<1>3. ItemOf(remnant[c]) \subseteq HalfWritten
  BY DEF HalfWritten, ItemOf, Remnants
<1>4. ASSUME Distinct, NEW s \in OthersHalf(c), s \in ItemOf(remnant[c])
      PROVE  FALSE
  <2>1. PICK d \in Remnants : d # c /\ s = remnant[d].item
    BY <1>4 DEF OthersHalf
  <2>2. c \in Remnants /\ s = remnant[c].item
    BY <1>4 DEF ItemOf, Remnants
  <2> QED BY <1>4, <2>1, <2>2 DEF Distinct
<1> QED BY <1>1, <1>2, <1>3, <1>4

\* The same once the remnant of c is p.
LEMMA HalfNext ==
  ASSUME NEW c \in Connections, NEW p,
         \A d \in Connections : remnant'[d] = IF d = c THEN p ELSE remnant[d]
  PROVE  /\ HalfWritten' = OthersHalf(c) \cup ItemOf(p)
         /\ Distinct /\ OthersHalf(c) \cap ItemOf(p) = {} => Distinct'
<1>1. HalfWritten' \subseteq OthersHalf(c) \cup ItemOf(p)
  BY DEF HalfWritten, OthersHalf, ItemOf, Remnants
<1>2. OthersHalf(c) \subseteq HalfWritten'
  BY DEF HalfWritten, OthersHalf, Remnants
<1>3. ItemOf(p) \subseteq HalfWritten'
  BY DEF HalfWritten, ItemOf, Remnants
<1>4. ASSUME Distinct, OthersHalf(c) \cap ItemOf(p) = {},
             NEW d \in Remnants', NEW e \in Remnants', remnant'[d].item = remnant'[e].item
      PROVE  d = e
  <2>1. d \in Connections /\ e \in Connections /\ remnant'[d] # None /\ remnant'[e] # None
    BY DEF Remnants
  <2>2. CASE d = c
    <3>1. e # c => remnant[e].item \in OthersHalf(c) /\ remnant[e].item \in ItemOf(p)
      BY <1>4, <2>1, <2>2 DEF OthersHalf, ItemOf, Remnants
    <3> QED BY <1>4, <2>2, <3>1
  <2>3. CASE e = c
    <3>1. d # c => remnant[d].item \in OthersHalf(c) /\ remnant[d].item \in ItemOf(p)
      BY <1>4, <2>1, <2>3 DEF OthersHalf, ItemOf, Remnants
    <3> QED BY <1>4, <2>3, <3>1
  <2>4. CASE d # c /\ e # c
    BY <1>4, <2>1, <2>4 DEF Distinct, Remnants
  <2> QED BY <2>2, <2>3, <2>4
<1> QED BY <1>1, <1>2, <1>3, <1>4 DEF Distinct

\* The span that a write cuts in two, if there is one.
CutSpan(c, n, b) == IF ReachesSpans(c, n) /\ b > 0 THEN {buffer[Took(c, n, b)]} ELSE {}

Unrepeated == \A i, j \in DOMAIN buffer : buffer[i] = buffer[j] => i = j

LEMMA BufferTaken ==
  ASSUME StreamsTypes, Unrepeated, NEW c \in Connections, NEW n, NEW b, Transmitted(c, n, b)
  PROVE  /\ ToSet(buffer) = FirstSpans(SpansDone(c, n)) \cup CutSpan(c, n, b) \cup ToSet(buffer')
         /\ FirstSpans(SpansDone(c, n)) \cap CutSpan(c, n, b) = {}
         /\ FirstSpans(SpansDone(c, n)) \cap ToSet(buffer') = {}
         /\ CutSpan(c, n, b) \cap ToSet(buffer') = {}
         /\ Unrepeated'
<1>1. IsCut(Streams(c), n, b)
  BY DEF Transmitted
<1>2. PICK t, f : t = Took(c, n, b) /\ f = SpansDone(c, n)
  OBVIOUS
<1>3. /\ t \in Nat /\ f \in Nat /\ f <= t /\ t <= Len(buffer)
      /\ ReachesSpans(c, n) /\ b > 0 => t = f + 1
      /\ ~(ReachesSpans(c, n) /\ b > 0) => t = f
  <2>1. t \in 0..Len(buffer) /\ f \in 0..t
    BY <1>1, <1>2, TookShape
  <2>2. Len(buffer) \in Nat
    BY StreamsState
  <2>3. ReachesSpans(c, n) /\ b > 0 => t = f + 1
    BY <1>1, <1>2, TookShape
  <2>4. ~(ReachesSpans(c, n) /\ b > 0) => t = f
    <3>1. ~ReachesSpans(c, n) => f = 0 /\ t = 0
      BY <1>1, <1>2, Reaches
    <3>2. ReachesSpans(c, n) /\ ~(b > 0) => t = f
      BY <1>1, <1>2, TookShape
    <3> QED BY <3>1, <3>2
  <2> QED BY <2>1, <2>2, <2>3, <2>4
<1>4. /\ DOMAIN buffer = 1..Len(buffer) /\ Len(buffer) \in Nat
      /\ Len(buffer') = Len(buffer) - t /\ DOMAIN buffer' = 1..Len(buffer')
      /\ \A i \in 1..Len(buffer') : t + i \in 1..Len(buffer) /\ buffer'[i] = buffer[t + i]
  <2>1. DOMAIN buffer = 1..Len(buffer) /\ Len(buffer) \in Nat
    BY StreamsState
  <2>2. /\ Len(buffer') = Len(buffer) - Took(c, n, b) /\ DOMAIN buffer' = 1..Len(buffer')
        /\ \A i \in 1..Len(buffer') : /\ Took(c, n, b) + i \in 1..Len(buffer)
                                      /\ buffer'[i] = buffer[Took(c, n, b) + i]
    BY BufferAfter
  <2> QED BY <1>2, <2>1, <2>2
<1>5. ToSet(buffer') = {buffer[i] : i \in t + 1..Len(buffer)}
  <2>1. ASSUME NEW i \in t + 1..Len(buffer)
        PROVE  buffer[i] \in ToSet(buffer')
    <3>1. i - t \in 1..Len(buffer') /\ t + (i - t) = i
      BY <1>3, <1>4
    <3>2. buffer'[i - t] = buffer[i]
      BY <1>4, <3>1
    <3> QED BY <1>4, <3>1, <3>2 DEF ToSet
  <2>2. ASSUME NEW s \in ToSet(buffer')
        PROVE  s \in {buffer[i] : i \in t + 1..Len(buffer)}
    <3>1. PICK i \in DOMAIN buffer' : s = buffer'[i]
      BY <2>2 DEF ToSet
    <3>2. t + i \in t + 1..Len(buffer) /\ s = buffer[t + i]
      BY <1>3, <1>4, <3>1
    <3> QED BY <3>2
  <2> QED BY <2>1, <2>2
<1>6. CutSpan(c, n, b) = {buffer[i] : i \in f + 1..t}
  <2>1. CASE ReachesSpans(c, n) /\ b > 0
    <3>1. f + 1..t = {t}
      BY <1>3, <2>1
    <3> QED BY <1>2, <2>1, <3>1 DEF CutSpan
  <2>2. CASE ~(ReachesSpans(c, n) /\ b > 0)
    <3>1. f + 1..t = {}
      BY <1>3, <2>2
    <3> QED BY <2>2, <3>1 DEF CutSpan
  <2> QED BY <2>1, <2>2
<1>7. FirstSpans(SpansDone(c, n)) = {buffer[i] : i \in 1..f}
  BY <1>2 DEF FirstSpans
<1>8. ToSet(buffer) = {buffer[i] : i \in 1..Len(buffer)}
  BY <1>4 DEF ToSet
<1>9. ASSUME NEW x \in Nat, NEW y \in Nat, NEW z \in Nat, x <= y, z <= Len(buffer), y <= Len(buffer)
      PROVE  {buffer[i] : i \in 1..x} \cap {buffer[i] : i \in y + 1..z} = {}
  <2>1. \A i \in 1..x, j \in y + 1..z : i \in DOMAIN buffer /\ j \in DOMAIN buffer /\ i # j
    BY <1>4, <1>9
  <2> QED BY <2>1 DEF Unrepeated
<1>10. {buffer[i] : i \in f + 1..t} \cap {buffer[i] : i \in t + 1..Len(buffer)} = {}
  <2>1. \A i \in f + 1..t, j \in t + 1..Len(buffer) : i \in DOMAIN buffer /\ j \in DOMAIN buffer /\ i # j
    BY <1>3, <1>4
  <2> QED BY <2>1 DEF Unrepeated
<1>11. {buffer[i] : i \in 1..Len(buffer)} =
         {buffer[i] : i \in 1..f} \cup {buffer[i] : i \in f + 1..t} \cup {buffer[i] : i \in t + 1..Len(buffer)}
  <2>1. \A i : i \in 1..Len(buffer) <=> i \in 1..f \/ i \in f + 1..t \/ i \in t + 1..Len(buffer)
    BY <1>3, <1>4
  <2> QED BY <2>1
<1>12. Unrepeated'
  <2>1. ASSUME NEW i \in DOMAIN buffer', NEW j \in DOMAIN buffer', buffer'[i] = buffer'[j]
        PROVE  i = j
    <3>1. t + i = t + j
      BY <1>4, <2>1 DEF Unrepeated
    <3> QED BY <1>3, <1>4, <3>1
  <2> QED BY <2>1 DEF Unrepeated
<1>13. /\ {buffer[i] : i \in 1..f} \cap {buffer[i] : i \in f + 1..t} = {}
       /\ {buffer[i] : i \in 1..f} \cap {buffer[i] : i \in t + 1..Len(buffer)} = {}
  <2>1. f <= f /\ f <= Len(buffer) /\ t <= Len(buffer) /\ Len(buffer) <= Len(buffer)
    BY <1>3, <1>4
  <2>2. {buffer[i] : i \in 1..f} \cap {buffer[i] : i \in f + 1..t} = {}
    BY <1>3, <1>9, <2>1, Zenon
  <2>3. {buffer[i] : i \in 1..f} \cap {buffer[i] : i \in t + 1..Len(buffer)} = {}
    BY <1>3, <1>4, <1>9, <2>1, Zenon
  <2> QED BY <2>2, <2>3
<1> QED BY <1>5, <1>6, <1>7, <1>8, <1>10, <1>11, <1>12, <1>13, Zenon

\* A foreign span, which a failed write left in the SpanStream, may become the
\* remnant of a connection that did not reach the spans.
Foreign(c, n, b) == IF Takes(c, n, b) /\ ~ReachesSpans(c, n) THEN ItemOf(stray) ELSE {}

FinishedRemnant(c, n, b) == IF Done(c, n, b) THEN {RemnantAfter(c, n, b).item} ELSE {}

LEMMA RemnantItems ==
  ASSUME StreamsTypes, NEW c \in Connections, NEW n, NEW b, IsCut(Streams(c), n, b)
  PROVE  /\ ItemOf(RemnantNext(c, n, b)) =
              (ItemOf(remnant[c]) \ FinishedRemnant(c, n, b)) \cup CutSpan(c, n, b) \cup Foreign(c, n, b)
         /\ FinishedRemnant(c, n, b) \subseteq ItemOf(remnant[c])
<1>1. Done(c, n, b) => remnant[c] # None /\ RemnantAfter(c, n, b).item = remnant[c].item
  BY RemnantNextShape, RemnantAfterShape
<1>2. FinishedRemnant(c, n, b) = IF Done(c, n, b) THEN ItemOf(remnant[c]) ELSE {}
  BY <1>1 DEF FinishedRemnant, ItemOf
<1>3. CASE ~Takes(c, n, b)
  <2>1. CutSpan(c, n, b) = {} /\ Foreign(c, n, b) = {}
    BY <1>3, RemnantNextShape DEF CutSpan, Foreign
  <2>2. ItemOf(RemnantNext(c, n, b)) = IF Done(c, n, b) THEN {} ELSE ItemOf(remnant[c])
    BY <1>3, RemnantNextShape DEF ItemOf
  <2> QED BY <1>2, <2>1, <2>2
<1>4. CASE Takes(c, n, b) /\ ReachesSpans(c, n)
  <2>1. remnant[c] = None \/ Done(c, n, b)
    BY <1>4, RemnantNextShape
  <2>2. ItemOf(remnant[c]) \ FinishedRemnant(c, n, b) = {}
    BY <1>2, <2>1 DEF ItemOf
  <2>3. Foreign(c, n, b) = {} /\ RemnantNext(c, n, b) = StrayAfter(c, n, b)
    BY <1>4 DEF Foreign, RemnantNext
  <2>4. ItemOf(StrayAfter(c, n, b)) = CutSpan(c, n, b)
    BY <1>4, TookShape DEF ItemOf, CutSpan
  <2> QED BY <1>2, <2>2, <2>3, <2>4
<1>5. CASE Takes(c, n, b) /\ ~ReachesSpans(c, n)
  <2>1. remnant[c] = None
    <3>1. ~shuttingDown[c] /\ (remnant[c] = None \/ n >= Pending(c))
      BY <1>5, RemnantNextShape
    <3>2. n < Pending(c) \/ Pending(c) = 0
      BY <1>5, <3>1, Reaches
    <3>3. Pending(c) = 0 => remnant[c] = None
      BY BeforeSpansShape
    <3>4. n \in Nat /\ Pending(c) \in Nat
      BY Reaches
    <3> QED BY <3>1, <3>2, <3>3, <3>4
  <2>2. CutSpan(c, n, b) = {} /\ Foreign(c, n, b) = ItemOf(stray) /\ ItemOf(remnant[c]) = {}
    BY <1>5, <2>1 DEF CutSpan, Foreign, ItemOf
  <2>3. RemnantNext(c, n, b) = stray
    BY <1>5, TookShape DEF RemnantNext
  <2> QED BY <1>2, <2>2, <2>3
<1> QED BY <1>2, <1>3, <1>4, <1>5

\* A span left in the SpanStream is nowhere else.
LEMMA StrayIsElsewhere ==
  ASSUME StreamsTypes, Ordered, StrayIsLost, NEW s \in ItemOf(stray)
  PROVE  /\ s \notin Accounted /\ interrupted /\ s \in 1..recorded
         /\ s \notin HalfWritten /\ s \notin ToSet(buffer)
<1>1. stray # None /\ s = stray.item
  BY DEF ItemOf
<1>2. s \in Spans /\ s \in Nat
  BY <1>1, RemnantPiece DEF StreamsTypes
<1>3. s \notin HalfWritten
  <2>1. s \notin Begun
    BY <1>1, <1>2 DEF Ordered
  <2> QED BY <2>1 DEF Begun
<1>4. s \notin ToSet(buffer)
  BY <1>1, <1>2 DEF Ordered, ToSet
<1>5. interrupted /\ s <= recorded /\ s \notin sent \cup lost
  BY <1>1 DEF StrayIsLost
<1>6. s \in 1..recorded
  BY <1>2, <1>5, Sizes DEF StreamsTypes
<1> QED BY <1>3, <1>4, <1>5, <1>6 DEF Accounted

LEMMA AccountedParts ==
  AccountedOnce <=>
    /\ Unrepeated
    /\ Distinct
    /\ ToSet(buffer) \cap (HalfWritten \cup sent \cup lost) = {}
    /\ HalfWritten \cap (sent \cup lost) = {}
    /\ sent \cap lost = {}
    /\ Accounted \subseteq 1..recorded
    /\ ~interrupted => EverySpanAccounted
BY DEF AccountedOnce, Unrepeated, Distinct

LEMMA FlushAccounted ==
  ASSUME StreamsInv, NEW c \in Connections, NEW n, NEW b, FlushCut(c, n, b)
  PROVE  AccountedOnce'
<1>1. StreamsTypes /\ Ordered /\ StrayIsLost /\ AccountedOnce /\ Transmitted(c, n, b)
  BY DEF StreamsInv, FlushCut
<1>2. IsCut(Streams(c), n, b)
      /\ \A d \in Connections : remnant'[d] = IF d = c THEN RemnantNext(c, n, b) ELSE remnant[d]
  BY <1>1, FlushFields
<1>3. PICK B, B1, F, T, O, R, D, G :
        /\ B = ToSet(buffer) /\ B1 = ToSet(buffer') /\ F = FirstSpans(SpansDone(c, n))
        /\ T = CutSpan(c, n, b) /\ O = OthersHalf(c) /\ R = ItemOf(remnant[c])
        /\ D = FinishedRemnant(c, n, b) /\ G = Foreign(c, n, b)
  OBVIOUS
<1>4. /\ B = F \cup T \cup B1 /\ F \cap T = {} /\ F \cap B1 = {} /\ T \cap B1 = {}
      /\ Unrepeated'
  BY <1>1, <1>3, BufferTaken, AccountedParts
<1>5. HalfWritten = O \cup R /\ O \cap R = {}
  BY <1>1, <1>3, HalfSplit, AccountedParts
<1>6. ItemOf(RemnantNext(c, n, b)) = (R \ D) \cup T \cup G /\ D \subseteq R
  BY <1>1, <1>2, <1>3, RemnantItems
<1>7. /\ \A s \in G : s \notin Accounted /\ interrupted /\ s \in 1..recorded
  BY <1>1, <1>3, StrayIsElsewhere DEF Foreign
<1>8. /\ B \cap (O \cup R \cup sent \cup lost) = {} /\ (O \cup R) \cap (sent \cup lost) = {}
      /\ sent \cap lost = {} /\ B \cup O \cup R \cup sent \cup lost \subseteq 1..recorded
      /\ ~interrupted => B \cup O \cup R \cup sent \cup lost = 1..recorded
      /\ \A s \in G : s \notin B \cup O \cup R \cup sent \cup lost
      /\ Distinct
  BY <1>1, <1>3, <1>5, <1>7, AccountedParts DEF Accounted, EverySpanAccounted
<1>9. HalfWritten' = O \cup (R \ D) \cup T \cup G /\ Distinct'
  <2>1. O \cap ((R \ D) \cup T \cup G) = {}
    BY <1>4, <1>5, <1>8
  <2>2. /\ HalfWritten' = OthersHalf(c) \cup ItemOf(RemnantNext(c, n, b))
        /\ Distinct /\ OthersHalf(c) \cap ItemOf(RemnantNext(c, n, b)) = {} => Distinct'
    BY <1>2, HalfNext
  <2> QED BY <1>3, <1>6, <1>8, <2>1, <2>2
<1>10. /\ sent' = sent \cup F \cup D /\ lost' = lost /\ recorded' = recorded
       /\ interrupted' = interrupted /\ ToSet(buffer)' = B1
  BY <1>3 DEF FlushCut, FinishedRemnant, ToSet
<1>11. Accounted' = B1 \cup (O \cup (R \ D) \cup T \cup G) \cup (sent \cup F \cup D) \cup lost
  BY <1>9, <1>10 DEF Accounted
<1>12. /\ B1 \cap (O \cup (R \ D) \cup T \cup G \cup sent \cup F \cup D \cup lost) = {}
       /\ (O \cup (R \ D) \cup T \cup G) \cap (sent \cup F \cup D \cup lost) = {}
       /\ (sent \cup F \cup D) \cap lost = {}
  BY <1>4, <1>5, <1>6, <1>8
<1>13. B1 \cup (O \cup (R \ D) \cup T \cup G) \cup (sent \cup F \cup D) \cup lost
         = B \cup O \cup R \cup sent \cup lost \cup G
  BY <1>4, <1>6
<1>14. Accounted' \subseteq 1..recorded' /\ (~interrupted' => Accounted' = 1..recorded')
  BY <1>7, <1>8, <1>10, <1>11, <1>13
<1>15. /\ ToSet(buffer)' \cap (HalfWritten \cup sent \cup lost)' = {}
       /\ (HalfWritten \cap (sent \cup lost))' = {} /\ (sent \cap lost)' = {}
  BY <1>9, <1>10, <1>12
<1> QED BY <1>4, <1>9, <1>14, <1>15 DEF AccountedOnce, Unrepeated, Distinct, EverySpanAccounted

-----------------------------------------------------------------------------
(* Where the drop counts are after a write.                                *)

Carried == UNION {embedded[c] : c \in Announcing}

\* What the headers of the connections other than c carry.
OthersCarried(c) == UNION {embedded[d] : d \in Announcing \ {c}}

\* No two headers carry the count of the same span.
Apart == \A d, e \in Announcing : d # e => embedded[d] \cap embedded[e] = {}

LEMMA DropsParts ==
  DropsConserved <=>
    /\ lost = dropped \cup Carried \cup reported
    /\ dropped \cap (Carried \cup reported) = {}
    /\ Carried \cap reported = {}
    /\ Apart
BY DEF DropsConserved, Carried, Apart

LEMMA CarriedSplit ==
  ASSUME NEW c \in Connections
  PROVE  /\ Carried = OthersCarried(c) \cup Unsent(c, header[c])
         /\ Apart => OthersCarried(c) \cap Unsent(c, header[c]) = {}
<1>1. Carried \subseteq OthersCarried(c) \cup Unsent(c, header[c])
  BY DEF Carried, OthersCarried, Unsent, Announcing
<1>2. OthersCarried(c) \subseteq Carried
  BY DEF Carried, OthersCarried
<1>3. Unsent(c, header[c]) \subseteq Carried
  BY DEF Carried, Unsent, Announcing
<1>4. ASSUME Apart, NEW s \in OthersCarried(c), s \in Unsent(c, header[c])
      PROVE  FALSE
  <2>1. PICK d \in Announcing : d # c /\ s \in embedded[d]
    BY <1>4 DEF OthersCarried
  <2>2. c \in Announcing /\ s \in embedded[c]
    BY <1>4 DEF Unsent, Announcing
  <2> QED BY <1>4, <2>1, <2>2 DEF Apart
<1> QED BY <1>1, <1>2, <1>3, <1>4

\* The same once the header of c carries e, of which h bytes are written.
LEMMA CarriedNext ==
  ASSUME NEW c \in Connections, NEW e, NEW h, NEW E,
         \A d \in Connections : embedded'[d] = IF d = c THEN e ELSE embedded[d],
         \A d \in Connections : header'[d] = IF d = c THEN h ELSE header[d],
         E = IF h < Size(Header) THEN e ELSE {}
  PROVE  /\ Carried' = OthersCarried(c) \cup E
         /\ Apart /\ OthersCarried(c) \cap E = {} => Apart'
<1>1. \A d \in Connections : d \in Announcing' <=> IF d = c THEN h < Size(Header) ELSE d \in Announcing
  BY DEF Announcing, Size, Spans
<1>2. Announcing' \subseteq Connections /\ Announcing \subseteq Connections
  BY DEF Announcing
<1>3. Carried' \subseteq OthersCarried(c) \cup E
  <2>1. ASSUME NEW s \in Carried'
        PROVE  s \in OthersCarried(c) \cup E
    <3>1. PICK d \in Announcing' : s \in embedded'[d]
      BY <2>1 DEF Carried
    <3>2. CASE d = c
      BY <1>1, <1>2, <3>1, <3>2
    <3>3. CASE d # c
      <4>1. d \in Announcing \ {c} /\ s \in embedded[d]
        BY <1>1, <1>2, <3>1, <3>3
      <4> QED BY <4>1 DEF OthersCarried
    <3> QED BY <3>2, <3>3
  <2> QED BY <2>1
<1>4. OthersCarried(c) \subseteq Carried'
  <2>1. ASSUME NEW s \in OthersCarried(c)
        PROVE  s \in Carried'
    <3>1. PICK d \in Announcing : d # c /\ s \in embedded[d]
      BY <2>1 DEF OthersCarried
    <3>2. d \in Announcing' /\ s \in embedded'[d]
      BY <1>1, <1>2, <3>1
    <3> QED BY <3>2 DEF Carried
  <2> QED BY <2>1
<1>5. E \subseteq Carried'
  <2>1. CASE h < Size(Header)
    <3>1. c \in Announcing' /\ embedded'[c] = E
      BY <1>1, <2>1
    <3> QED BY <3>1 DEF Carried
  <2>2. CASE ~(h < Size(Header))
    BY <2>2
  <2> QED BY <2>1, <2>2
<1>6. ASSUME Apart, OthersCarried(c) \cap E = {},
             NEW d \in Announcing', NEW f \in Announcing', d # f
      PROVE  embedded'[d] \cap embedded'[f] = {}
  <2>1. d \in Connections /\ f \in Connections
    BY <1>2
  <2>2. CASE d = c
    <3>1. embedded'[d] = E /\ f \in Announcing \ {c} /\ embedded'[f] = embedded[f]
      BY <1>1, <1>6, <2>1, <2>2
    <3>2. embedded[f] \subseteq OthersCarried(c)
      BY <3>1 DEF OthersCarried
    <3> QED BY <1>6, <3>1, <3>2
  <2>3. CASE f = c
    <3>1. embedded'[f] = E /\ d \in Announcing \ {c} /\ embedded'[d] = embedded[d]
      BY <1>1, <1>6, <2>1, <2>3
    <3>2. embedded[d] \subseteq OthersCarried(c)
      BY <3>1 DEF OthersCarried
    <3> QED BY <1>6, <3>1, <3>2
  <2>4. CASE d # c /\ f # c
    <3>1. d \in Announcing /\ f \in Announcing /\ embedded'[d] = embedded[d] /\ embedded'[f] = embedded[f]
      BY <1>1, <2>1, <2>4
    <3> QED BY <1>6, <3>1 DEF Apart
  <2> QED BY <2>2, <2>3, <2>4
<1> QED BY <1>3, <1>4, <1>5, <1>6 DEF Apart

\* A count is reported as its header is completed.
LEMMA ReportedAfter ==
  ASSUME StreamsTypes, NEW c \in Connections, NEW n, NEW b, Transmitted(c, n, b)
  PROVE  \/ /\ reported' = reported \cup Unsent(c, header[c])
            /\ Unsent(c, HeaderAfter(c, n, b)) = {}
         \/ /\ reported' = reported
            /\ Unsent(c, HeaderAfter(c, n, b)) = Unsent(c, header[c])
<1>1. IsCut(Streams(c), n, b)
  BY DEF Transmitted
<1>2. /\ HeaderAfter(c, n, b) \in Nat /\ HeaderAfter(c, n, b) <= Size(Header)
      /\ header[c] \in Nat /\ header[c] <= Size(Header) /\ Size(Header) \in Nat
  BY <1>1, HeaderAfterShape, StreamsState, Sizes
<1>3. HeaderAfter(c, n, b) = Size(Header) <=> header[c] = Size(Header) \/ n > 0
  BY <1>1, HeaderAfterShape
<1>4. reported' = IF HeaderAfter(c, n, b) > header[c] /\ HeaderAfter(c, n, b) = Size(Header)
                  THEN reported \cup embedded[c] ELSE reported
  BY DEF Transmitted
<1>5. CASE HeaderAfter(c, n, b) = Size(Header)
  <2>1. Unsent(c, HeaderAfter(c, n, b)) = {}
    BY <1>2, <1>5 DEF Unsent
  <2>2. reported' = reported \cup Unsent(c, header[c])
    BY <1>2, <1>4, <1>5 DEF Unsent
  <2> QED BY <2>1, <2>2
<1>6. CASE HeaderAfter(c, n, b) # Size(Header)
  <2>1. header[c] < Size(Header) /\ HeaderAfter(c, n, b) < Size(Header)
    BY <1>2, <1>3, <1>6
  <2> QED BY <1>4, <1>6, <2>1 DEF Unsent
<1> QED BY <1>5, <1>6

LEMMA FlushDrops ==
  ASSUME StreamsInv, NEW c \in Connections, NEW n, NEW b, FlushCut(c, n, b)
  PROVE  DropsConserved'
<1>1. StreamsTypes /\ DropsConserved /\ Transmitted(c, n, b)
  BY DEF StreamsInv, FlushCut
<1>2. PICK O, U, V : /\ O = OthersCarried(c) /\ U = Unsent(c, header[c])
                     /\ V = Unsent(c, HeaderAfter(c, n, b))
  OBVIOUS
<1>3. Carried = O \cup U /\ (Apart => O \cap U = {})
  BY <1>2, CarriedSplit
<1>4. /\ lost = dropped \cup O \cup U \cup reported
      /\ dropped \cap (O \cup U \cup reported) = {}
      /\ (O \cup U) \cap reported = {}
      /\ Apart /\ O \cap U = {}
  BY <1>1, <1>3, DropsParts
<1>5. (reported' = reported \cup U /\ V = {}) \/ (reported' = reported /\ V = U)
  BY <1>1, <1>2, ReportedAfter
<1>6. Carried' = O \cup V /\ Apart'
  <2>1. \A d \in Connections : /\ embedded'[d] = IF d = c THEN embedded[c] ELSE embedded[d]
                               /\ header'[d] = IF d = c THEN HeaderAfter(c, n, b) ELSE header[d]
    BY <1>1, FlushFields
  <2>2. V = IF HeaderAfter(c, n, b) < Size(Header) THEN embedded[c] ELSE {}
    BY <1>2 DEF Unsent
  <2>3. /\ Carried' = OthersCarried(c) \cup V
        /\ Apart /\ OthersCarried(c) \cap V = {} => Apart'
    <3>1. PICK e, h : e = embedded[c] /\ h = HeaderAfter(c, n, b)
      OBVIOUS
    <3>2. \A d \in Connections : embedded'[d] = IF d = c THEN e ELSE embedded[d]
      BY <2>1, <3>1
    <3>3. \A d \in Connections : header'[d] = IF d = c THEN h ELSE header[d]
      BY <2>1, <3>1
    <3>4. V = IF h < Size(Header) THEN e ELSE {}
      BY <2>2, <3>1
    <3> QED BY <3>2, <3>3, <3>4, CarriedNext, Zenon
  <2>4. O \cap V = {}
    BY <1>4, <1>5
  <2> QED BY <1>2, <1>4, <2>3, <2>4
<1>7. dropped' = dropped /\ lost' = lost
  BY DEF FlushCut
<1>8. /\ lost' = dropped' \cup Carried' \cup reported'
      /\ dropped' \cap (Carried' \cup reported') = {}
      /\ Carried' \cap reported' = {}
  BY <1>4, <1>5, <1>6, <1>7
<1> QED BY <1>6, <1>8 DEF DropsConserved, Carried, Apart

LEMMA FlushKeepsInv ==
  ASSUME StreamsInv, NEW c \in Connections, FlushStream(c)
  PROVE  StreamsInv'
<1>1. PICK n, b : FlushCut(c, n, b)
  BY FlushOpens
<1>2. StreamsTypes'
  BY <1>1, FlushTypes DEF StreamsInv
<1>3. AccountedOnce' /\ DropsConserved'
  BY <1>1, FlushAccounted, FlushDrops
<1>4. SentAreReceived' /\ WholeAreReceived'
  BY <1>1, FlushReceived
<1>5. RequestsLinked' /\ RequestsStraight'
  BY <1>1, FlushLinked
<1>6. TerminalIsLast'
  BY <1>1, FlushTerminal
<1>7. Ordered' /\ StrayIsLost'
  BY <1>1, FlushOrdered, FlushStrayIsLost
<1>8. OneWriter'
  BY <1>1, FlushOneWriter
<1> QED BY <1>2, <1>3, <1>4, <1>5, <1>6, <1>7, <1>8 DEF StreamsInv

-----------------------------------------------------------------------------
(* A write that fails, and Reset.                                          *)

\* What is dropped of c's remnant when its stream is reset.
Abandoned(c, n, b) == Unfinished(RemnantAfter(c, n, b))

\* A write that failed after n pieces and b bytes, and the reset that follows.
\* Reset by itself is one that failed at once and left the SpanStream alone.
Failed(c, n, b) ==
  /\ Transmitted(c, n, b)
  /\ stray' = StrayAfter(c, n, b) \/ (n = 0 /\ b = 0 /\ stray' = stray)
  /\ sent' = sent \cup FirstSpans(SpansDone(c, n))
  /\ InitializeStream(c, dropped \cup Unsent(c, HeaderAfter(c, n, b)) \cup Abandoned(c, n, b))
  /\ lost' = lost \cup Abandoned(c, n, b)
  /\ interrupted' = (interrupted \/ ~(n = 0 /\ b = 0))
  /\ recorded' = recorded

LEMMA FailsOpens ==
  ASSUME NEW c \in Connections, FlushFails(c)
  PROVE  \E n, b : Failed(c, n, b)
<1>1. PICK cut \in ErrorCuts(Streams(c)) :
        LET n == cut[1]
            b == cut[2]
        IN /\ Transmit(c, n, b)
           /\ stray' = StrayAfter(c, n, b)
           /\ sent' = sent \cup FirstSpans(SpansDone(c, n))
           /\ ResetFrom(c, HeaderAfter(c, n, b), RemnantAfter(c, n, b))
           /\ interrupted' = (interrupted \/ cut # <<0, 0>>)
           /\ UNCHANGED recorded
  BY Zenon DEF FlushFails
<1>2. cut \in Cuts(Streams(c))
  BY DEF ErrorCuts
<1>3. PICK n, b : n = cut[1] /\ b = cut[2]
  OBVIOUS
<1>4. Transmitted(c, n, b)
  BY <1>1, <1>2, <1>3, TransmitOpens
<1>5. cut = <<n, b>>
  BY <1>2, <1>3, CutsShape
<1>6. cut # <<0, 0>> <=> ~(n = 0 /\ b = 0)
  BY <1>5
<1>7. interrupted' = (interrupted \/ cut # <<0, 0>>)
  BY <1>1
<1>8. (interrupted \/ cut # <<0, 0>>) = (interrupted \/ ~(n = 0 /\ b = 0))
  BY <1>6, Zenon
<1>9. ResetFrom(c, HeaderAfter(c, n, b), RemnantAfter(c, n, b))
  BY <1>1, <1>3
<1>10. /\ stray' = StrayAfter(c, n, b) /\ sent' = sent \cup FirstSpans(SpansDone(c, n))
       /\ recorded' = recorded
  BY <1>1, <1>3
<1> QED BY <1>4, <1>7, <1>8, <1>9, <1>10 DEF Failed, Abandoned, ResetFrom

\* A write of nothing leaves everything as it is.
LEMMA NothingWritten ==
  ASSUME StreamsTypes, NEW c \in Connections
  PROVE  /\ IsCut(Streams(c), 0, 0) /\ WireAfter(c, 0, 0) = wire[c]
         /\ Took(c, 0, 0) = 0 /\ SpansDone(c, 0) = 0 /\ FirstSpans(0) = {}
         /\ HeaderAfter(c, 0, 0) = header[c] /\ RemnantAfter(c, 0, 0) = remnant[c]
<1>1. /\ Streams(c) \in Seq(Chunks) /\ Len(Streams(c)) \in Nat /\ wire[c] \in Seq(Segments)
      /\ header[c] \in Nat /\ remnant[c] \in Pieces
  BY StreamsShape, StreamsState
<1>2. IsCut(Streams(c), 0, 0)
  <2>1. 0 \in 0..Len(Streams(c)) /\ 0 \in Nat /\ ~(0 > 0)
    BY <1>1
  <2> QED BY <2>1 DEF IsCut
<1>3. WireAfter(c, 0, 0) = wire[c]
  <2>1. Sends(wire[c], Streams(c), 0, 0) = wire[c]
    BY <1>1, NothingSent, Zenon
  <2> QED BY <2>1 DEF WireAfter
<1>4. Took(c, 0, 0) = 0 /\ SpansDone(c, 0) = 0
  <2>1. ReachesSpans(c, 0) => SpansDone(c, 0) = 0 - Pending(c) /\ 0 >= Pending(c) /\ Pending(c) \in Nat
    BY <1>2, Reaches
  <2>2. SpansDone(c, 0) = 0
    BY <1>2, <2>1, Reaches
  <2> QED BY <2>2 DEF Took
<1>5. FirstSpans(0) = {}
  BY DEF FirstSpans
<1>6. HeaderAfter(c, 0, 0) = header[c]
  BY <1>1 DEF HeaderAfter
<1>7. RemnantAfter(c, 0, 0) = remnant[c]
  <2>1. CASE remnant[c] = None
    BY <1>2, <2>1, RemnantAfterShape
  <2>2. CASE remnant[c] # None
    <3>1. Pending(c) \in Nat /\ Pending(c) >= 1
      BY <1>2, <2>2, RemnantAfterShape, Reaches
    <3>2. RemnantAfter(c, 0, 0) = IF 0 + 1 = Pending(c)
                                  THEN Piece(remnant[c].item, remnant[c].at + 0) ELSE remnant[c]
      BY <1>2, <2>2, <3>1, RemnantAfterShape
    <3>3. remnant[c] \in Chunks
      BY <1>1, <2>2, RemnantPiece
    <3>4. Piece(remnant[c].item, remnant[c].at + 0) = remnant[c]
      BY <3>3, ChunkFields, PieceOf
    <3> QED BY <3>2, <3>4
  <2> QED BY <2>1, <2>2
<1> QED BY <1>2, <1>3, <1>4, <1>5, <1>6, <1>7

LEMMA ResetOpens ==
  ASSUME StreamsInv, NEW c \in Connections, Reset(c)
  PROVE  Failed(c, 0, 0)
<1>1. StreamsTypes /\ Whole(wire[c]) \subseteq received
  BY ReceivedWhole DEF StreamsInv
<1>2. /\ buffer' = buffer /\ received' = received /\ reported' = reported /\ sent' = sent
      /\ stray' = stray /\ interrupted' = interrupted /\ recorded' = recorded
      /\ InitializeStream(c, dropped \cup Unsent(c, header[c]) \cup Unfinished(remnant[c]))
      /\ lost' = lost \cup Unfinished(remnant[c])
  BY DEF Reset, ResetFrom
<1>3. Transmitted(c, 0, 0)
  <2>1. buffer' = SubSeq(buffer, Took(c, 0, 0) + 1, Len(buffer))
    <3>1. buffer = SubSeq(buffer, 1, Len(buffer))
      BY <1>1 DEF StreamsTypes
    <3>2. Took(c, 0, 0) + 1 = 1
      BY <1>1, NothingWritten
    <3> QED BY <1>2, <3>1, <3>2
  <2>2. received' = received \cup Whole(WireAfter(c, 0, 0))
    BY <1>1, <1>2, NothingWritten
  <2>3. ~(HeaderAfter(c, 0, 0) > header[c])
    BY <1>1, NothingWritten, StreamsState
  <2> QED BY <1>1, <1>2, <2>1, <2>2, <2>3, NothingWritten DEF Transmitted
<1>4. HeaderAfter(c, 0, 0) = header[c] /\ RemnantAfter(c, 0, 0) = remnant[c]
  BY <1>1, NothingWritten
<1>5. sent' = sent \cup FirstSpans(SpansDone(c, 0))
  BY <1>1, <1>2, NothingWritten
<1>6. interrupted' = (interrupted \/ ~(0 = 0 /\ 0 = 0))
  BY <1>1, <1>2 DEF StreamsTypes
<1> QED BY <1>2, <1>3, <1>4, <1>5, <1>6 DEF Failed, Abandoned

LEMMA FailedFields ==
  ASSUME StreamsTypes, NEW c \in Connections, NEW n, NEW b, Failed(c, n, b)
  PROVE  /\ IsCut(Streams(c), n, b) /\ Transmitted(c, n, b)
         /\ \A d \in Connections :
              /\ header'[d] = IF d = c THEN 0 ELSE header[d]
              /\ terminal'[d] = IF d = c THEN 0 ELSE terminal[d]
              /\ remnant'[d] = IF d = c THEN None ELSE remnant[d]
              /\ wire'[d] = IF d = c THEN << >> ELSE wire[d]
              /\ shuttingDown'[d] = IF d = c THEN FALSE ELSE shuttingDown[d]
              /\ embedded'[d] = IF d = c
                   THEN dropped \cup Unsent(c, HeaderAfter(c, n, b)) \cup Abandoned(c, n, b)
                   ELSE embedded[d]
BY DEF Failed, Transmitted, InitializeStream, StreamsTypes

LEMMA AbandonedItems ==
  ASSUME StreamsTypes, NEW c \in Connections, NEW n, NEW b, IsCut(Streams(c), n, b)
  PROVE  /\ Abandoned(c, n, b) = ItemOf(remnant[c]) \ FinishedRemnant(c, n, b)
         /\ Abandoned(c, n, b) \subseteq Spans
         /\ n = 0 => FinishedRemnant(c, n, b) = {}
<1>1. CASE remnant[c] = None
  <2>1. RemnantAfter(c, n, b) = None
    BY <1>1, RemnantAfterShape
  <2> QED BY <1>1, <2>1 DEF Abandoned, Unfinished, ItemOf, FinishedRemnant, Done
<1>2. CASE remnant[c] # None
  <2>1. PICK rm : rm = RemnantAfter(c, n, b)
    OBVIOUS
  <2>2. /\ rm # None /\ rm.item = remnant[c].item /\ rm.item \in Spans /\ Left(rm) \in Nat
        /\ Left(rm) = 0 <=> n >= Pending(c)
        /\ Pending(c) >= 1 /\ Pending(c) \in Nat
    BY <1>2, <2>1, RemnantAfterShape, Reaches
  <2>3. Abandoned(c, n, b) = IF Left(rm) > 0 THEN {rm.item} ELSE {}
    BY <2>1, <2>2 DEF Abandoned, Unfinished
  <2>4. FinishedRemnant(c, n, b) = IF Left(rm) = 0 THEN {rm.item} ELSE {}
    BY <2>1, <2>2 DEF FinishedRemnant, Done
  <2>5. ItemOf(remnant[c]) = {rm.item}
    BY <1>2, <2>2 DEF ItemOf
  <2>6. Left(rm) > 0 <=> Left(rm) # 0
    BY <2>2
  <2>7. n = 0 => Left(rm) # 0
    BY <2>2
  <2> QED BY <2>2, <2>3, <2>4, <2>5, <2>6, <2>7
<1> QED BY <1>1, <1>2

\* What a failed write leaves in the SpanStream: what it had, or the span that
\* it cut in two.
LEMMA FailedStray ==
  ASSUME StreamsTypes, NEW c \in Connections, NEW n, NEW b, Failed(c, n, b)
  PROVE  /\ stray' \in Pieces
         /\ stray' # None =>
              \/ stray' = stray /\ SpansDone(c, n) = 0 /\ Took(c, n, b) = 0
              \/ /\ ReachesSpans(c, n) /\ b > 0 /\ b \in Nat
                 /\ stray'.item \in CutSpan(c, n, b) /\ stray'.item = buffer[Took(c, n, b)]
<1>1. IsCut(Streams(c), n, b) /\ stray \in Pieces
  BY FailedFields DEF StreamsTypes
<1>2. n \in Nat /\ b \in Nat
  BY <1>1, Reaches
<1>3. CASE n = 0 /\ b = 0 /\ stray' = stray
  <2>1. SpansDone(c, n) = 0 /\ Took(c, n, b) = 0
    BY <1>3, NothingWritten
  <2> QED BY <1>1, <1>3, <2>1
<1>4. CASE stray' = StrayAfter(c, n, b)
  <2>1. CASE ReachesSpans(c, n) /\ b > 0
    <3>1. /\ StrayAfter(c, n, b) \in Pieces
          /\ StrayAfter(c, n, b).item = buffer[Took(c, n, b)]
      BY <1>1, <2>1, TookShape
    <3>2. CutSpan(c, n, b) = {buffer[Took(c, n, b)]}
      BY <2>1 DEF CutSpan
    <3> QED BY <1>2, <1>4, <2>1, <3>1, <3>2
  <2>2. CASE ReachesSpans(c, n) /\ ~(b > 0)
    <3>1. StrayAfter(c, n, b) = None
      BY <1>1, <2>2, TookShape
    <3> QED BY <1>4, <3>1 DEF Pieces
  <2>3. CASE ~ReachesSpans(c, n)
    <3>1. StrayAfter(c, n, b) = stray
      BY <1>1, <2>3, TookShape
    <3>2. SpansDone(c, n) = 0 /\ Took(c, n, b) = 0
      BY <1>1, <2>3, Reaches
    <3> QED BY <1>1, <1>4, <3>1, <3>2
  <2> QED BY <2>1, <2>2, <2>3
<1> QED BY <1>3, <1>4 DEF Failed

LEMMA FirstSpansTypes ==
  ASSUME StreamsTypes, NEW c \in Connections, NEW n, NEW b, IsCut(Streams(c), n, b)
  PROVE  FirstSpans(SpansDone(c, n)) \subseteq Spans
<1>1. SpansDone(c, n) \in 0..Took(c, n, b) /\ Took(c, n, b) \in 0..Len(buffer) /\ Len(buffer) \in Nat
  BY TookShape, StreamsState
<1>2. \A i \in 1..SpansDone(c, n) : i \in 1..Len(buffer)
  BY <1>1
<1> QED BY <1>2, StreamsState DEF FirstSpans

LEMMA FailedTypes ==
  ASSUME StreamsTypes, NEW c \in Connections, NEW n, NEW b, Failed(c, n, b)
  PROVE  StreamsTypes'
<1>1. IsCut(Streams(c), n, b) /\ Transmitted(c, n, b)
  BY FailedFields
<1>2. buffer' \in Seq(Spans) /\ Len(buffer') <= MaxSize
  <2>1. Len(buffer) <= MaxSize /\ MaxSize \in Nat /\ Len(buffer) \in Nat
    BY StreamsState, Sizes DEF StreamsTypes
  <2> QED BY <1>1, <2>1, BufferAfter
<1>3. stray' \in Pieces
  BY FailedStray
<1>4. Abandoned(c, n, b) \subseteq Spans
  BY <1>1, AbandonedItems
<1>5. Unsent(c, HeaderAfter(c, n, b)) \subseteq Spans
  BY DEF Unsent, StreamsTypes
<1>6. received' \subseteq Spans /\ reported' \subseteq Spans
  BY <1>1 DEF StreamsTypes, Transmitted, Whole
<1>7. sent' \subseteq Spans /\ lost' \subseteq Spans /\ dropped' \subseteq Spans
  BY <1>1, <1>4, FirstSpansTypes DEF StreamsTypes, Failed, InitializeStream
<1>8. PICK e : e = dropped \cup Unsent(c, HeaderAfter(c, n, b)) \cup Abandoned(c, n, b)
  OBVIOUS
<1>9. e \subseteq Spans
  BY <1>4, <1>5, <1>8 DEF StreamsTypes
<1>10. /\ embedded' = [embedded EXCEPT ![c] = e]
       /\ header' = [header EXCEPT ![c] = 0]
       /\ terminal' = [terminal EXCEPT ![c] = 0]
       /\ remnant' = [remnant EXCEPT ![c] = None]
       /\ shuttingDown' = [shuttingDown EXCEPT ![c] = FALSE]
       /\ wire' = [wire EXCEPT ![c] = << >>]
  BY <1>8 DEF Failed, InitializeStream
<1>11. 0 \in 0..Size(Header) /\ 0 \in 0..Size(Terminal) /\ None \in Pieces /\ << >> \in Seq(Segments)
  BY Sizes DEF Pieces
<1>12. /\ embedded' \in [Connections -> SUBSET Spans]
       /\ header' \in [Connections -> 0..Size(Header)]
       /\ terminal' \in [Connections -> 0..Size(Terminal)]
       /\ remnant' \in [Connections -> Pieces]
       /\ shuttingDown' \in [Connections -> BOOLEAN]
       /\ wire' \in [Connections -> Seq(Segments)]
  BY <1>9, <1>10, <1>11 DEF StreamsTypes
<1>13. interrupted' \in BOOLEAN /\ recorded' \in 0..MaxSpans
  BY DEF StreamsTypes, Failed
<1> QED BY <1>2, <1>3, <1>6, <1>7, <1>12, <1>13 DEF StreamsTypes

LEMMA FailedRequests ==
  ASSUME StreamsInv, NEW c \in Connections, NEW n, NEW b, Failed(c, n, b)
  PROVE  RequestsLinked' /\ RequestsStraight'
<1>1. StreamsTypes /\ StreamsTypes' /\ RequestsLinked /\ RequestsStraight
  BY FailedTypes DEF StreamsInv
<1>2. \A d \in Connections :
        /\ header'[d] = IF d = c THEN 0 ELSE header[d]
        /\ terminal'[d] = IF d = c THEN 0 ELSE terminal[d]
        /\ remnant'[d] = IF d = c THEN None ELSE remnant[d]
        /\ wire'[d] = IF d = c THEN << >> ELSE wire[d]
        /\ shuttingDown'[d] = IF d = c THEN FALSE ELSE shuttingDown[d]
  BY <1>1, FailedFields
<1>3. \A p : p \in Held(c)' <=> p = Piece(Header, 0)
  <2>1. 0 < Size(Header)
    BY Sizes
  <2>2. TAKE p
  <2>3. p \in Held(c)' <=>
          \/ p = Piece(Header, header'[c]) /\ header'[c] < Size(Header)
          \/ p = remnant'[c] /\ remnant'[c] # None
          \/ p = Piece(Terminal, terminal'[c]) /\ terminal'[c] < Size(Terminal) /\ shuttingDown'[c]
    BY <1>1, HeldNext
  <2> QED BY <1>2, <2>1, <2>3
<1>4. Linked(wire'[c], Held(c)') /\ Straight(wire'[c], Held(c)')
  <2>1. wire'[c] = << >> /\ DOMAIN wire'[c] = {}
    <3>1. wire'[c] = << >>
      BY <1>2
    <3>2. DOMAIN << >> = {}
      OBVIOUS
    <3> QED BY <3>1, <3>2
  <2>2. Piece(Header, 0) \in Held(c)' /\ \A p \in Held(c)' : ~(p.at > 0)
    BY <1>3 DEF Piece
  <2> QED BY <2>1, <2>2 DEF Linked, Straight
<1>5. ASSUME NEW d \in Connections, d # c
      PROVE  wire'[d] = wire[d] /\ Held(d)' = Held(d)
  BY <1>2, <1>5, OthersKept
<1>6. \A d \in Connections : Linked(wire'[d], Held(d)')
  BY <1>1, <1>4, <1>5 DEF RequestsLinked
<1>7. ~interrupted' => \A d \in Connections : Straight(wire'[d], Held(d)')
  <2>1. ~interrupted' => ~interrupted
    BY DEF Failed
  <2> QED BY <1>1, <1>4, <1>5, <2>1 DEF RequestsStraight
<1> QED BY <1>6, <1>7 DEF RequestsLinked, RequestsStraight, Linked, Straight, Continues

LEMMA FailedTerminal ==
  ASSUME StreamsTypes, TerminalIsLast, NEW c \in Connections, NEW n, NEW b, Failed(c, n, b)
  PROVE  TerminalIsLast'
<1>1. \A d \in Connections :
        /\ header'[d] = IF d = c THEN 0 ELSE header[d]
        /\ terminal'[d] = IF d = c THEN 0 ELSE terminal[d]
        /\ remnant'[d] = IF d = c THEN None ELSE remnant[d]
        /\ wire'[d] = IF d = c THEN << >> ELSE wire[d]
        /\ shuttingDown'[d] = IF d = c THEN FALSE ELSE shuttingDown[d]
  BY FailedFields
<1>2. ASSUME NEW d \in Connections
      PROVE  /\ terminal'[d] > 0 =>
                  /\ shuttingDown'[d] /\ remnant'[d] = None /\ header'[d] = Size(Header)
                  /\ Continues(wire'[d], Piece(Terminal, terminal'[d]))
             /\ \A i \in DOMAIN wire'[d] : wire'[d][i].item = Terminal => terminal'[d] > 0
  <2>1. CASE d = c
    <3>1. terminal'[d] = 0 /\ wire'[d] = << >>
      BY <1>1, <2>1
    <3>2. DOMAIN << >> = {}
      OBVIOUS
    <3> QED BY <3>1, <3>2
  <2>2. CASE d # c
    BY <1>1, <2>2 DEF TerminalIsLast
  <2> QED BY <2>1, <2>2
<1> QED BY <1>2 DEF TerminalIsLast, Continues, Piece, Terminal, Header, Size, Spans

LEMMA FailedBegun ==
  ASSUME StreamsTypes, NEW c \in Connections, NEW n, NEW b, Failed(c, n, b)
  PROVE  Begun' \subseteq Begun
<1>1. \A d \in Connections :
        /\ remnant'[d] = IF d = c THEN None ELSE remnant[d]
        /\ wire'[d] = IF d = c THEN << >> ELSE wire[d]
  BY FailedFields
<1>2. HalfWritten' \subseteq HalfWritten
  <2>1. \A d \in Connections : remnant'[d] # None => remnant[d] = remnant'[d] /\ remnant[d] # None
    BY <1>1
  <2> QED BY <2>1 DEF HalfWritten, Remnants
<1>3. \A d \in Connections : \A i \in DOMAIN wire'[d] : i \in DOMAIN wire[d] /\ wire'[d][i] = wire[d][i]
  <2>1. DOMAIN << >> = {}
    OBVIOUS
  <2> QED BY <1>1, <2>1
<1> QED BY <1>2, <1>3 DEF Begun

\* A stream that was reset has begun nothing.
LEMMA FailedOneWriter ==
  ASSUME StreamsInv, NEW c \in Connections, NEW n, NEW b, Failed(c, n, b)
  PROVE  OneWriter'
<1>1. \A d \in Connections :
        /\ remnant'[d] = IF d = c THEN None ELSE remnant[d]
        /\ wire'[d] = IF d = c THEN << >> ELSE wire[d]
  BY FailedFields DEF StreamsInv
<1>2. DOMAIN << >> = {}
  OBVIOUS
<1>3. \A d \in Connections : BegunBy(d)' \subseteq BegunBy(d) /\ (d = c => BegunBy(d)' = {})
  BY <1>1, <1>2 DEF BegunBy, Spans
<1> QED BY <1>3 DEF StreamsInv, OneWriter

LEMMA FailedReceived ==
  ASSUME StreamsInv, NEW c \in Connections, NEW n, NEW b, Failed(c, n, b)
  PROVE  SentAreReceived' /\ WholeAreReceived'
<1>1. /\ StreamsTypes /\ SentAreReceived
      /\ \A d \in Connections : Whole(wire[d]) \subseteq received
  BY ReceivedWhole DEF StreamsInv
<1>2. received' = received \cup Whole(WireAfter(c, n, b))
  BY DEF Failed, Transmitted
<1>3. WholeAreReceived'
  <2>1. \A d \in Connections : wire'[d] = IF d = c THEN << >> ELSE wire[d]
    BY <1>1, FailedFields
  <2>2. Whole(<< >>) = {}
    <3>1. DOMAIN << >> = {}
      OBVIOUS
    <3> QED BY <3>1 DEF Whole
  <2>3. \A d \in Connections : Whole(wire'[d]) \subseteq received'
    BY <1>1, <1>2, <2>1, <2>2
  <2> QED BY <2>3 DEF WholeAreReceived, Whole
<1>4. ASSUME ~interrupted'
      PROVE  sent' = received'
  <2>1. n = 0 /\ b = 0 /\ ~interrupted
    BY <1>4 DEF Failed
  <2>2. sent' = sent
    BY <1>1, <2>1, NothingWritten DEF Failed
  <2>3. received' = received
    BY <1>1, <1>2, <2>1, NothingWritten
  <2> QED BY <1>1, <2>1, <2>2, <2>3 DEF SentAreReceived
<1> QED BY <1>3, <1>4 DEF SentAreReceived

LEMMA FailedAccounted ==
  ASSUME StreamsInv, NEW c \in Connections, NEW n, NEW b, Failed(c, n, b)
  PROVE  AccountedOnce'
<1>1. StreamsTypes /\ AccountedOnce
  BY DEF StreamsInv
<1>2. /\ IsCut(Streams(c), n, b) /\ Transmitted(c, n, b)
      /\ \A d \in Connections : remnant'[d] = IF d = c THEN None ELSE remnant[d]
  BY <1>1, FailedFields
<1>3. PICK B, B1, F, T, O, R, D :
        /\ B = ToSet(buffer) /\ B1 = ToSet(buffer') /\ F = FirstSpans(SpansDone(c, n))
        /\ T = CutSpan(c, n, b) /\ O = OthersHalf(c) /\ R = ItemOf(remnant[c])
        /\ D = FinishedRemnant(c, n, b)
  OBVIOUS
<1>4. /\ B = F \cup T \cup B1 /\ F \cap T = {} /\ F \cap B1 = {} /\ T \cap B1 = {}
      /\ Unrepeated'
  BY <1>1, <1>2, <1>3, BufferTaken, AccountedParts
<1>5. HalfWritten = O \cup R /\ O \cap R = {}
  BY <1>1, <1>3, HalfSplit, AccountedParts
<1>6. Abandoned(c, n, b) = R \ D
  BY <1>1, <1>2, <1>3, AbandonedItems
<1>7. /\ B \cap (O \cup R \cup sent \cup lost) = {} /\ (O \cup R) \cap (sent \cup lost) = {}
      /\ sent \cap lost = {} /\ B \cup O \cup R \cup sent \cup lost \subseteq 1..recorded
      /\ ~interrupted => B \cup O \cup R \cup sent \cup lost = 1..recorded
      /\ Distinct
  BY <1>1, <1>3, <1>5, AccountedParts DEF Accounted, EverySpanAccounted
<1>8. HalfWritten' = O /\ Distinct'
  <2>1. ItemOf(None) = {}
    BY DEF ItemOf
  <2>2. /\ HalfWritten' = OthersHalf(c) \cup ItemOf(None)
        /\ Distinct /\ OthersHalf(c) \cap ItemOf(None) = {} => Distinct'
    BY <1>2, HalfNext
  <2> QED BY <1>3, <1>7, <2>1, <2>2
<1>9. /\ sent' = sent \cup F /\ lost' = lost \cup (R \ D) /\ recorded' = recorded
      /\ ToSet(buffer)' = B1
  BY <1>3, <1>6 DEF Failed, ToSet
<1>10. Accounted' = B1 \cup O \cup (sent \cup F) \cup (lost \cup (R \ D))
  BY <1>8, <1>9 DEF Accounted
<1>11. /\ B1 \cap (O \cup sent \cup F \cup lost \cup (R \ D)) = {}
       /\ O \cap (sent \cup F \cup lost \cup (R \ D)) = {}
       /\ (sent \cup F) \cap (lost \cup (R \ D)) = {}
  BY <1>4, <1>5, <1>7
<1>12. Accounted' \subseteq 1..recorded'
  BY <1>4, <1>7, <1>9, <1>10
<1>13. ASSUME ~interrupted'
       PROVE  Accounted' = 1..recorded'
  <2>1. n = 0 /\ b = 0 /\ ~interrupted
    BY <1>13 DEF Failed
  <2>2. T = {}
    BY <1>3, <2>1 DEF CutSpan
  <2>3. D = {}
    BY <1>1, <1>2, <1>3, <2>1, AbandonedItems
  <2> QED BY <1>4, <1>7, <1>9, <1>10, <2>1, <2>2, <2>3
<1>14. /\ ToSet(buffer)' \cap (HalfWritten \cup sent \cup lost)' = {}
       /\ (HalfWritten \cap (sent \cup lost))' = {} /\ (sent \cap lost)' = {}
  BY <1>8, <1>9, <1>11
<1> QED BY <1>4, <1>8, <1>12, <1>13, <1>14 DEF AccountedOnce, Unrepeated, Distinct, EverySpanAccounted

LEMMA FailedDrops ==
  ASSUME StreamsInv, NEW c \in Connections, NEW n, NEW b, Failed(c, n, b)
  PROVE  DropsConserved'
<1>1. StreamsTypes /\ DropsConserved /\ AccountedOnce /\ Transmitted(c, n, b) /\ IsCut(Streams(c), n, b)
  BY FailedFields DEF StreamsInv
<1>2. PICK O, U, V, L : /\ O = OthersCarried(c) /\ U = Unsent(c, header[c])
                        /\ V = Unsent(c, HeaderAfter(c, n, b)) /\ L = Abandoned(c, n, b)
  OBVIOUS
<1>3. Carried = O \cup U /\ (Apart => O \cap U = {})
  BY <1>2, CarriedSplit
<1>4. /\ lost = dropped \cup O \cup U \cup reported
      /\ dropped \cap (O \cup U \cup reported) = {}
      /\ (O \cup U) \cap reported = {}
      /\ Apart /\ O \cap U = {}
  BY <1>1, <1>3, DropsParts
<1>5. (reported' = reported \cup U /\ V = {}) \/ (reported' = reported /\ V = U)
  BY <1>1, <1>2, ReportedAfter
<1>6. L \cap lost = {}
  <2>1. L \subseteq HalfWritten
    BY <1>1, <1>2, AbandonedItems, HalfSplit
  <2> QED BY <1>1, <2>1, AccountedParts
<1>7. PICK e, h : e = dropped \cup V \cup L /\ h = 0
  OBVIOUS
<1>8. Carried' = O \cup e /\ Apart'
  <2>1. \A d \in Connections : embedded'[d] = IF d = c THEN e ELSE embedded[d]
    <3>1. \A d \in Connections : embedded'[d] =
            IF d = c THEN dropped \cup Unsent(c, HeaderAfter(c, n, b)) \cup Abandoned(c, n, b)
            ELSE embedded[d]
      BY <1>1, FailedFields
    <3> QED BY <1>2, <1>7, <3>1
  <2>2. \A d \in Connections : header'[d] = IF d = c THEN h ELSE header[d]
    BY <1>1, <1>7, FailedFields
  <2>3. e = IF h < Size(Header) THEN e ELSE {}
    BY <1>7, Sizes
  <2>4. /\ Carried' = OthersCarried(c) \cup e
        /\ Apart /\ OthersCarried(c) \cap e = {} => Apart'
    BY <2>1, <2>2, <2>3, CarriedNext, Zenon
  <2>5. O \cap e = {}
    BY <1>4, <1>5, <1>6, <1>7
  <2> QED BY <1>2, <1>4, <2>4, <2>5
<1>9. dropped' = {} /\ lost' = lost \cup L
  BY <1>2 DEF Failed, InitializeStream
<1>10. /\ lost' = dropped' \cup Carried' \cup reported'
       /\ dropped' \cap (Carried' \cup reported') = {}
       /\ Carried' \cap reported' = {}
  BY <1>4, <1>5, <1>6, <1>7, <1>8, <1>9
<1> QED BY <1>8, <1>10 DEF DropsConserved, Carried, Apart

LEMMA FailedOrdered ==
  ASSUME StreamsInv, NEW c \in Connections, NEW n, NEW b, Failed(c, n, b)
  PROVE  Ordered'
<1>1. /\ StreamsTypes /\ Ordered /\ StrayIsLost /\ AccountedOnce /\ Transmitted(c, n, b)
      /\ recorded \in Nat /\ recorded' = recorded /\ IsCut(Streams(c), n, b)
  <2>1. StreamsTypes /\ Ordered /\ StrayIsLost /\ AccountedOnce
    BY DEF StreamsInv
  <2>2. Transmitted(c, n, b) /\ IsCut(Streams(c), n, b)
    BY <2>1, FailedFields
  <2>3. recorded \in Nat
    BY <2>1, Sizes DEF StreamsTypes
  <2>4. recorded' = recorded
    BY DEF Failed
  <2> QED BY <2>1, <2>2, <2>3, <2>4
<1>2. PICK t : t = Took(c, n, b)
  OBVIOUS
<1>3. /\ t \in Nat /\ DOMAIN buffer' = 1..Len(buffer') /\ DOMAIN buffer = 1..Len(buffer)
      /\ Len(buffer) \in Nat /\ Len(buffer') \in Nat /\ t <= Len(buffer)
      /\ \A i \in DOMAIN buffer' : t + i \in DOMAIN buffer /\ buffer'[i] = buffer[t + i]
      /\ \A i \in DOMAIN buffer : buffer[i] \in Nat
      /\ t = 0 => \A i \in DOMAIN buffer' : i \in DOMAIN buffer /\ buffer'[i] = buffer[i]
  <2>1. /\ t \in Nat /\ DOMAIN buffer' = 1..Len(buffer') /\ DOMAIN buffer = 1..Len(buffer)
        /\ Len(buffer) \in Nat /\ Len(buffer') \in Nat /\ Len(buffer') = Len(buffer) - t
    BY <1>1, <1>2, BufferAfter, StreamsState
  <2>2. \A i \in DOMAIN buffer' : t + i \in DOMAIN buffer /\ buffer'[i] = buffer[t + i]
    BY <1>1, <1>2, <2>1, BufferAfter
  <2>3. \A i \in DOMAIN buffer : buffer[i] \in Nat
    BY <1>1, StreamsState
  <2>4. t = 0 => \A i \in DOMAIN buffer' : t + i = i
    BY <2>1
  <2> QED BY <1>1, <2>1, <2>2, <2>3, <2>4
<1>4. ASSUME NEW i \in DOMAIN buffer', NEW j \in DOMAIN buffer', i < j
      PROVE  buffer'[i] < buffer'[j]
  <2>1. t + i < t + j
    BY <1>3, <1>4
  <2> QED BY <1>1, <1>3, <2>1 DEF Ordered
<1>5. \A s \in Begun' : s \in Begun
  BY <1>1, FailedBegun
<1>6. \A s \in Begun' : s <= recorded /\ \A i \in DOMAIN buffer' : s < buffer'[i]
  BY <1>1, <1>3, <1>5 DEF Ordered
<1>7. ASSUME stray' # None
      PROVE  /\ \A i \in DOMAIN buffer' : stray'.item < buffer'[i]
             /\ \A s \in Begun' : s < stray'.item
  <2>1. CASE stray' = stray /\ t = 0
    BY <1>1, <1>3, <1>5, <1>7, <2>1 DEF Ordered
  <2>2. CASE ReachesSpans(c, n) /\ b > 0 /\ stray'.item = buffer[t]
    <3>1. t \in DOMAIN buffer
      <4>1. t = SpansDone(c, n) + 1 /\ SpansDone(c, n) \in 0..t
        BY <1>1, <1>2, <2>2, TookShape
      <4> QED BY <1>3, <4>1
    <3>2. \A i \in DOMAIN buffer' : t < t + i
      BY <1>3
    <3>3. \A i \in DOMAIN buffer' : buffer[t] < buffer'[i]
      BY <1>1, <1>3, <3>1, <3>2 DEF Ordered
    <3>4. \A s \in Begun' : s < buffer[t]
      BY <1>1, <1>5, <3>1 DEF Ordered
    <3> QED BY <2>2, <3>3, <3>4
  <2> QED BY <1>1, <1>2, <1>7, <2>1, <2>2, FailedStray
<1> QED BY <1>1, <1>4, <1>6, <1>7 DEF Ordered

LEMMA FailedStrayIsLost ==
  ASSUME StreamsInv, NEW c \in Connections, NEW n, NEW b, Failed(c, n, b)
  PROVE  StrayIsLost'
<1>1. SUFFICES ASSUME stray' # None
               PROVE  interrupted' /\ stray'.item <= recorded' /\ stray'.item \notin sent' \cup lost'
  BY DEF StrayIsLost
<1>2. /\ StreamsTypes /\ Ordered /\ StrayIsLost /\ AccountedOnce /\ IsCut(Streams(c), n, b)
      /\ Transmitted(c, n, b)
  BY FailedFields DEF StreamsInv
<1>3. /\ sent' = sent \cup FirstSpans(SpansDone(c, n)) /\ lost' = lost \cup Abandoned(c, n, b)
      /\ recorded' = recorded /\ (interrupted => interrupted') /\ (b > 0 => interrupted')
      /\ recorded \in Nat
  <2>1. b \in Nat
    BY <1>2, Reaches
  <2>2. b > 0 => ~(n = 0 /\ b = 0)
    BY <2>1
  <2>3. recorded \in Nat
    BY <1>2, Sizes DEF StreamsTypes
  <2>4. interrupted' = (interrupted \/ ~(n = 0 /\ b = 0))
    BY DEF Failed
  <2>5. (interrupted => interrupted') /\ (b > 0 => interrupted')
    BY <2>2, <2>4, Zenon
  <2> QED BY <2>3, <2>5 DEF Failed
<1>4. Abandoned(c, n, b) \subseteq HalfWritten
  BY <1>2, AbandonedItems, HalfSplit
<1>5. CASE stray' = stray /\ SpansDone(c, n) = 0
  <2>1. FirstSpans(SpansDone(c, n)) = {}
    BY <1>5 DEF FirstSpans
  <2>2. interrupted /\ stray.item <= recorded /\ stray.item \notin sent \cup lost
    BY <1>1, <1>2, <1>5 DEF StrayIsLost
  <2>3. stray.item \notin HalfWritten
    <3>1. stray.item \in ItemOf(stray)
      BY <1>1, <1>5 DEF ItemOf
    <3> QED BY <1>2, <3>1, StrayIsElsewhere
  <2> QED BY <1>3, <1>4, <1>5, <2>1, <2>2, <2>3
<1>6. CASE b > 0 /\ stray'.item \in CutSpan(c, n, b)
  <2>1. PICK s : s = stray'.item
    OBVIOUS
  <2>2. s \in ToSet(buffer) /\ s \notin FirstSpans(SpansDone(c, n))
    BY <1>2, <1>6, <2>1, BufferTaken, AccountedParts
  <2>3. s \notin HalfWritten \cup sent \cup lost /\ s \in 1..recorded
    BY <1>2, <2>2, AccountedParts DEF Accounted
  <2> QED BY <1>3, <1>4, <1>6, <2>1, <2>2, <2>3
<1> QED BY <1>1, <1>2, <1>5, <1>6, FailedStray

LEMMA FailedKeepsInv ==
  ASSUME StreamsInv, NEW c \in Connections, NEW n, NEW b, Failed(c, n, b)
  PROVE  StreamsInv'
<1>1. StreamsTypes'
  BY FailedTypes DEF StreamsInv
<1>2. AccountedOnce' /\ DropsConserved'
  BY FailedAccounted, FailedDrops
<1>3. SentAreReceived' /\ WholeAreReceived'
  BY FailedReceived
<1>4. RequestsLinked' /\ RequestsStraight'
  BY FailedRequests
<1>5. TerminalIsLast'
  BY FailedTerminal DEF StreamsInv
<1>6. Ordered' /\ StrayIsLost'
  BY FailedOrdered, FailedStrayIsLost
<1>7. OneWriter'
  BY FailedOneWriter
<1> QED BY <1>1, <1>2, <1>3, <1>4, <1>5, <1>6, <1>7 DEF StreamsInv

-----------------------------------------------------------------------------
(* The other actions.                                                      *)

LEMMA BegunKept ==
  ASSUME StreamsInv, remnant' = remnant, wire' = wire
  PROVE  OneWriter'
BY DEF StreamsInv, OneWriter, BegunBy, Spans

LEMMA ShutdownKeepsInv ==
  ASSUME StreamsInv, NEW c \in Connections, Shutdown(c)
  PROVE  StreamsInv'
<1>1. /\ UNCHANGED <<recorded, buffer, stray, dropped, header, terminal, embedded,
                     remnant, wire, received, reported, sent, lost, interrupted>>
      /\ shuttingDown' = [shuttingDown EXCEPT ![c] = TRUE]
  BY DEF Shutdown
<1>2. StreamsTypes
  BY DEF StreamsInv
<1>3. StreamsTypes'
  BY <1>1, <1>2 DEF StreamsTypes
<1>4. \A d \in Connections : shuttingDown'[d] = IF d = c THEN TRUE ELSE shuttingDown[d]
  BY <1>1, <1>2 DEF StreamsTypes
<1>5. AccountedOnce' /\ DropsConserved' /\ SentAreReceived' /\ WholeAreReceived' /\ Ordered' /\ StrayIsLost'
  <2>1. Accounted' = Accounted /\ HalfWritten' = HalfWritten /\ Remnants' = Remnants
        /\ ToSet(buffer)' = ToSet(buffer)
    BY <1>1 DEF Accounted, HalfWritten, Remnants, ToSet
  <2>2. AccountedOnce'
    BY <1>1, <2>1 DEF StreamsInv, AccountedOnce, EverySpanAccounted
  <2>3. Announcing' = Announcing
    BY <1>1 DEF Announcing, Size, Header, Spans
  <2>4. DropsConserved'
    BY <1>1, <2>3 DEF StreamsInv, DropsConserved
  <2>5. Begun' = Begun
    BY <1>1, <2>1 DEF Begun, Spans
  <2> QED BY <1>1, <2>2, <2>4, <2>5
      DEF StreamsInv, SentAreReceived, WholeAreReceived, Ordered, StrayIsLost, Spans, Size
<1>6. TerminalIsLast'
  BY <1>1, <1>4 DEF StreamsInv, TerminalIsLast, Continues, Piece, Terminal, Header, Size, Spans
<1>7. ASSUME NEW d \in Connections
      PROVE  Linked(wire[d], Held(d)') /\ (~interrupted => Straight(wire[d], Held(d)'))
  <2>1. Linked(wire[d], Held(d)) /\ (~interrupted => Straight(wire[d], Held(d)))
    BY DEF StreamsInv, RequestsLinked, RequestsStraight
  <2>2. CASE shuttingDown'[d] = shuttingDown[d]
    <3>1. Held(d)' = Held(d)
      BY <1>1, <2>2, OthersKept
    <3> QED BY <2>1, <3>1
  <2>3. CASE shuttingDown'[d] # shuttingDown[d]
    <3>1. d = c /\ ~shuttingDown[c] /\ shuttingDown'[c]
      BY <1>2, <1>4, <2>3 DEF StreamsTypes
    <3>2. terminal[c] = 0
      BY <1>2, <3>1, StreamsState DEF StreamsInv, TerminalIsLast
    <3>3. PICK r : r = Piece(Terminal, 0)
      OBVIOUS
    <3>4. \A p : p \in Held(c)' <=> p \in Held(c) \/ p = r
      <4>1. 0 < Size(Terminal)
        BY Sizes
      <4>2. TAKE p
      <4>3. p \in Held(c)' <=>
              \/ p = Piece(Header, header'[c]) /\ header'[c] < Size(Header)
              \/ p = remnant'[c] /\ remnant'[c] # None
              \/ p = Piece(Terminal, terminal'[c]) /\ terminal'[c] < Size(Terminal) /\ shuttingDown'[c]
        BY <1>3, HeldNext
      <4>4. p \in Held(c) <=>
              \/ p = Piece(Header, header[c]) /\ header[c] < Size(Header)
              \/ p = remnant[c] /\ remnant[c] # None
              \/ p = Piece(Terminal, terminal[c]) /\ terminal[c] < Size(Terminal) /\ shuttingDown[c]
        BY <1>2, HeldElements
      <4> QED BY <1>1, <3>1, <3>2, <3>3, <4>1, <4>3, <4>4
    <3>5. Held(c)' = Held(c) \cup {r}
      BY <3>4
    <3>6. r.item = Terminal /\ r.at = 0
      BY <3>3 DEF Piece
    <3>7. \A i \in DOMAIN wire[c] : wire[c][i].item < r.item
      <4> SUFFICES ASSUME NEW i \in DOMAIN wire[c] PROVE wire[c][i].item < r.item
        OBVIOUS
      <4>1. wire[c][i].item # Terminal
        BY <3>2 DEF StreamsInv, TerminalIsLast
      <4>2. wire[c][i] \in Segments
        <5>1. wire[c] \in Seq(Segments)
          BY <1>2, StreamsState
        <5> QED BY <5>1, ElementOfSeq, LenProperties
      <4>3. wire[c][i].item \in Header..Terminal
        BY <4>2, SegmentFields
      <4> QED BY <3>6, <4>1, <4>3, Sizes
    <3>8. Linked(wire[c], Held(c)')
      <4>1. Linked(wire[c], Held(c))
        BY <2>1, <3>1
      <4> QED BY <3>5, <3>7, <4>1, LinkedMore
    <3>9. ~interrupted => Straight(wire[c], Held(c)')
      BY <2>1, <3>1, <3>4, <3>6 DEF Straight
    <3> QED BY <3>1, <3>8, <3>9
  <2> QED BY <2>2, <2>3
<1>8. RequestsLinked' /\ RequestsStraight'
  BY <1>1, <1>7 DEF RequestsLinked, RequestsStraight, Linked, Straight, Continues, Piece, Header, Size, Spans
<1> QED BY <1>1, <1>3, <1>5, <1>6, <1>8, BegunKept DEF StreamsInv

\* The buffer after a span is added.
LEMMA RecordBuffer ==
  ASSUME StreamsTypes, NEW r, r = recorded + 1, r \in Spans, buffer' = Append(buffer, r)
  PROVE  /\ buffer' \in Seq(Spans) /\ Len(buffer') = Len(buffer) + 1
         /\ DOMAIN buffer' = 1..Len(buffer') /\ DOMAIN buffer = 1..Len(buffer) /\ Len(buffer) \in Nat
         /\ \A i \in DOMAIN buffer : buffer'[i] = buffer[i]
         /\ buffer'[Len(buffer) + 1] = r
         /\ ToSet(buffer') = ToSet(buffer) \cup {r}
<1>1. /\ buffer \in Seq(Spans) /\ DOMAIN buffer = 1..Len(buffer) /\ Len(buffer) \in Nat
  BY StreamsState DEF StreamsTypes
<1>2. /\ buffer' \in Seq(Spans) /\ Len(buffer') = Len(buffer) + 1
      /\ \A i \in 1..Len(buffer) : buffer'[i] = buffer[i]
      /\ buffer'[Len(buffer) + 1] = r
  BY <1>1, AppendProperties
<1>3. DOMAIN buffer' = 1..Len(buffer')
  BY <1>2, LenProperties
<1>4. ToSet(buffer') \subseteq ToSet(buffer) \cup {r}
  <2>1. \A i \in DOMAIN buffer' : i \in DOMAIN buffer \/ i = Len(buffer) + 1
    BY <1>1, <1>2, <1>3
  <2> QED BY <1>1, <1>2, <2>1 DEF ToSet
<1>5. ToSet(buffer) \cup {r} \subseteq ToSet(buffer')
  <2>1. DOMAIN buffer \subseteq DOMAIN buffer' /\ Len(buffer) + 1 \in DOMAIN buffer'
    BY <1>1, <1>2, <1>3
  <2>2. \A i \in DOMAIN buffer : buffer'[i] = buffer[i]
    BY <1>1, <1>2
  <2> QED BY <1>2, <2>1, <2>2 DEF ToSet
<1> QED BY <1>1, <1>2, <1>3, <1>4, <1>5

LEMMA RecordKeepsInv ==
  ASSUME StreamsInv, RecordSpan
  PROVE  StreamsInv'
<1>1. PICK r : r = recorded + 1
  OBVIOUS
<1>2. /\ StreamsTypes /\ AccountedOnce /\ DropsConserved /\ Ordered /\ StrayIsLost
      /\ recorded \in Nat /\ r \in Spans /\ r \in Nat /\ recorded' = r /\ recorded < MaxSpans
  <2>1. StreamsTypes /\ AccountedOnce /\ DropsConserved /\ Ordered /\ StrayIsLost
    BY DEF StreamsInv
  <2>2. recorded \in Nat /\ recorded < MaxSpans /\ recorded' = r /\ MaxSpans \in Nat
    BY <1>1, <2>1, Sizes DEF StreamsTypes, RecordSpan
  <2> QED BY <1>1, <2>1, <2>2 DEF Spans
<1>3. /\ stray' = stray /\ header' = header /\ terminal' = terminal /\ embedded' = embedded
      /\ remnant' = remnant /\ shuttingDown' = shuttingDown /\ wire' = wire
      /\ received' = received /\ reported' = reported /\ sent' = sent
      /\ interrupted' = interrupted
  BY DEF RecordSpan, connectionVars
<1>4. \/ /\ Len(buffer) < MaxSize /\ buffer' = Append(buffer, r)
         /\ dropped' = dropped /\ lost' = lost
      \/ /\ buffer' = buffer
         /\ dropped' = dropped \cup {r} /\ lost' = lost \cup {r}
  BY <1>1 DEF RecordSpan
<1>5. r \notin Accounted
  BY <1>1, <1>2, AccountedParts
<1>6. StreamsTypes'
  <2>1. buffer' \in Seq(Spans) /\ Len(buffer') <= MaxSize
    <3>1. CASE buffer' = buffer
      BY <1>2, <3>1 DEF StreamsTypes
    <3>2. CASE Len(buffer) < MaxSize /\ buffer' = Append(buffer, r)
      BY <1>1, <1>2, <3>2, RecordBuffer, Sizes
    <3> QED BY <1>4, <3>1, <3>2
  <2>2. recorded' \in 0..MaxSpans
    BY <1>1, <1>2, Sizes
  <2>3. dropped' \subseteq Spans /\ lost' \subseteq Spans
    BY <1>2, <1>4 DEF StreamsTypes
  <2> QED BY <1>2, <1>3, <2>1, <2>2, <2>3 DEF StreamsTypes
<1>7. HalfWritten' = HalfWritten /\ Remnants' = Remnants /\ Begun' = Begun /\ Announcing' = Announcing
  <2>1. HalfWritten' = HalfWritten /\ Remnants' = Remnants
    BY <1>3 DEF HalfWritten, Remnants
  <2>2. Begun' = Begun
    BY <1>3, <2>1 DEF Begun, Spans
  <2>3. Announcing' = Announcing
    BY <1>3 DEF Announcing, Size, Header, Spans
  <2> QED BY <2>1, <2>2, <2>3
<1>8. AccountedOnce'
  <2>1. /\ Unrepeated /\ Distinct
        /\ ToSet(buffer) \cap (HalfWritten \cup sent \cup lost) = {}
        /\ HalfWritten \cap (sent \cup lost) = {}
        /\ sent \cap lost = {}
        /\ ToSet(buffer) \cup HalfWritten \cup sent \cup lost \subseteq 1..recorded
        /\ ~interrupted => ToSet(buffer) \cup HalfWritten \cup sent \cup lost = 1..recorded
    BY <1>2, AccountedParts DEF Accounted, EverySpanAccounted
  <2>2. r \notin ToSet(buffer) \cup HalfWritten \cup sent \cup lost
    BY <1>5 DEF Accounted
  <2>3. 1..recorded' = 1..recorded \cup {r}
    BY <1>1, <1>2
  <2>4. /\ Unrepeated'
        /\ \/ ToSet(buffer') = ToSet(buffer) \cup {r} /\ lost' = lost
           \/ ToSet(buffer') = ToSet(buffer) /\ lost' = lost \cup {r}
    <3>1. CASE buffer' = buffer /\ lost' = lost \cup {r}
      BY <2>1, <3>1 DEF Unrepeated
    <3>2. CASE buffer' = Append(buffer, r) /\ lost' = lost
      <4>1. ToSet(buffer') = ToSet(buffer) \cup {r}
        BY <1>1, <1>2, <3>2, RecordBuffer
      <4>2. ASSUME NEW i \in DOMAIN buffer', NEW j \in DOMAIN buffer', buffer'[i] = buffer'[j]
            PROVE  i = j
        <5>1. /\ DOMAIN buffer = 1..Len(buffer) /\ Len(buffer) \in Nat
              /\ DOMAIN buffer' = 1..Len(buffer') /\ Len(buffer') = Len(buffer) + 1
              /\ \A t \in DOMAIN buffer : buffer'[t] = buffer[t]
              /\ buffer'[Len(buffer) + 1] = r
          BY <1>1, <1>2, <3>2, RecordBuffer
        <5>2. \A t \in DOMAIN buffer : buffer[t] # r
          BY <2>2 DEF ToSet
        <5>3. /\ i \in DOMAIN buffer \/ i = Len(buffer) + 1
              /\ j \in DOMAIN buffer \/ j = Len(buffer) + 1
          BY <5>1
        <5> QED BY <2>1, <4>2, <5>1, <5>2, <5>3 DEF Unrepeated
      <4> QED BY <3>2, <4>1, <4>2 DEF Unrepeated
    <3> QED BY <1>4, <3>1, <3>2
  <2>5. Distinct'
    BY <1>3, <1>7, <2>1 DEF Distinct
  <2>6. ToSet(buffer)' = ToSet(buffer')
    BY DEF ToSet
  <2>7. /\ ToSet(buffer') \cap (HalfWritten \cup sent \cup lost') = {}
        /\ HalfWritten \cap (sent \cup lost') = {}
        /\ sent \cap lost' = {}
        /\ ToSet(buffer') \cup HalfWritten \cup sent \cup lost' =
             ToSet(buffer) \cup HalfWritten \cup sent \cup lost \cup {r}
    BY <2>1, <2>2, <2>4
  <2>8. Accounted' = ToSet(buffer) \cup HalfWritten \cup sent \cup lost \cup {r}
    BY <1>3, <1>7, <2>6, <2>7 DEF Accounted
  <2>9. Accounted' \subseteq 1..recorded' /\ (~interrupted' => Accounted' = 1..recorded')
    BY <1>3, <2>1, <2>3, <2>8
  <2>10. /\ ToSet(buffer)' \cap (HalfWritten \cup sent \cup lost)' = {}
         /\ (HalfWritten \cap (sent \cup lost))' = {} /\ (sent \cap lost)' = {}
    BY <1>3, <1>7, <2>6, <2>7
  <2> QED BY <2>4, <2>5, <2>9, <2>10 DEF AccountedOnce, Unrepeated, Distinct, EverySpanAccounted
<1>9. DropsConserved'
  <2>1. /\ lost = dropped \cup Carried \cup reported
        /\ dropped \cap (Carried \cup reported) = {}
        /\ Carried \cap reported = {} /\ Apart
    BY <1>2, DropsParts
  <2>2. Carried' = Carried /\ Apart'
    BY <1>3, <1>7, <2>1 DEF Carried, Apart
  <2>3. r \notin lost
    BY <1>5 DEF Accounted
  <2>4. /\ lost' = dropped' \cup Carried' \cup reported'
        /\ dropped' \cap (Carried' \cup reported') = {}
        /\ Carried' \cap reported' = {}
    BY <1>3, <1>4, <2>1, <2>2, <2>3
  <2> QED BY <2>2, <2>4 DEF DropsConserved, Carried, Apart
<1>10. Ordered'
  <2>1. \A i \in DOMAIN buffer : buffer[i] \in Nat /\ buffer[i] <= recorded
    <3>1. \A i \in DOMAIN buffer : buffer[i] \in 1..recorded
      BY <1>2 DEF AccountedOnce, Accounted, ToSet
    <3> QED BY <1>2, <3>1
  <2>2. \A s \in Begun : s <= recorded
    BY <1>2 DEF Ordered
  <2>3. stray # None => stray.item <= recorded /\ stray.item \in Nat
    BY <1>2, RemnantPiece DEF StrayIsLost, StreamsTypes
  <2>4. \A s \in Begun : s \in Nat
    <3>1. HalfWritten \subseteq Spans
      <4>1. \A d \in Remnants : remnant[d] \in Pieces /\ remnant[d] # None
        BY <1>2, StreamsState DEF Remnants
      <4> QED BY <4>1, RemnantPiece DEF HalfWritten
    <3> QED BY <3>1, Sizes DEF Begun
  <2>5. ASSUME NEW i \in DOMAIN buffer'
        PROVE  (i \in DOMAIN buffer /\ buffer'[i] = buffer[i]) \/ (i = Len(buffer) + 1 /\ buffer'[i] = r)
    <3>1. CASE buffer' = buffer
      BY <2>5, <3>1
    <3>2. CASE buffer' = Append(buffer, r)
      <4>1. /\ DOMAIN buffer = 1..Len(buffer) /\ Len(buffer) \in Nat
            /\ DOMAIN buffer' = 1..Len(buffer') /\ Len(buffer') = Len(buffer) + 1
            /\ \A t \in DOMAIN buffer : buffer'[t] = buffer[t]
            /\ buffer'[Len(buffer) + 1] = r
        BY <1>1, <1>2, <3>2, RecordBuffer
      <4>2. i \in DOMAIN buffer \/ i = Len(buffer) + 1
        BY <4>1
      <4> QED BY <4>1, <4>2
    <3> QED BY <1>4, <3>1, <3>2
  <2>6. recorded < r
    BY <1>1, <1>2
  <2>7. ASSUME NEW i \in DOMAIN buffer', NEW j \in DOMAIN buffer', i < j
        PROVE  buffer'[i] < buffer'[j]
    <3>1. DOMAIN buffer = 1..Len(buffer) /\ Len(buffer) \in Nat
      BY <1>2, StreamsState
    <3>2. CASE j \in DOMAIN buffer /\ buffer'[j] = buffer[j]
      <4>1. i \in DOMAIN buffer /\ buffer'[i] = buffer[i]
        BY <2>5, <2>7, <3>1, <3>2
      <4> QED BY <1>2, <2>7, <3>2, <4>1 DEF Ordered
    <3>3. CASE j = Len(buffer) + 1 /\ buffer'[j] = r
      <4>1. i \in DOMAIN buffer /\ buffer'[i] = buffer[i]
        BY <2>5, <2>7, <3>1, <3>3
      <4> QED BY <1>2, <2>1, <2>6, <3>3, <4>1
    <3> QED BY <2>5, <3>2, <3>3
  <2>8. \A s \in Begun : s <= r /\ \A i \in DOMAIN buffer' : s < buffer'[i]
    BY <1>2, <2>2, <2>4, <2>5, <2>6 DEF Ordered
  <2>9. stray # None =>
          /\ \A i \in DOMAIN buffer' : stray.item < buffer'[i]
          /\ \A s \in Begun : s < stray.item
    BY <1>2, <2>3, <2>5, <2>6 DEF Ordered
  <2> QED BY <1>2, <1>3, <1>7, <2>7, <2>8, <2>9 DEF Ordered
<1>11. StrayIsLost'
  <2>1. stray # None => stray.item <= recorded /\ stray.item \in Nat /\ stray.item # r
    <3>1. stray # None => stray.item <= recorded /\ stray.item \in Nat
      BY <1>2, RemnantPiece DEF StrayIsLost, StreamsTypes
    <3> QED BY <1>1, <1>2, <3>1
  <2> QED BY <1>1, <1>2, <1>3, <1>4, <2>1 DEF StrayIsLost
<1>12. \A d \in Connections : Held(d)' = Held(d)
  BY <1>3, OthersKept
<1>13. RequestsLinked' /\ RequestsStraight'
  <2>1. \A d \in Connections : Linked(wire'[d], Held(d)') /\ (~interrupted' => Straight(wire'[d], Held(d)'))
    BY <1>3, <1>12 DEF StreamsInv, RequestsLinked, RequestsStraight
  <2> QED BY <2>1 DEF RequestsLinked, RequestsStraight, Linked, Straight, Continues, Piece, Header, Size, Spans
<1>14. TerminalIsLast' /\ SentAreReceived' /\ WholeAreReceived'
  BY <1>3 DEF StreamsInv, TerminalIsLast, SentAreReceived, WholeAreReceived, Continues, Piece,
              Terminal, Header, Size, Spans
<1> QED BY <1>3, <1>6, <1>8, <1>9, <1>10, <1>11, <1>13, <1>14, BegunKept DEF StreamsInv

LEMMA StutterKeepsInv ==
  ASSUME StreamsInv, UNCHANGED streamsVars
  PROVE  StreamsInv'
<1>1. /\ recorded' = recorded /\ buffer' = buffer /\ stray' = stray /\ dropped' = dropped
      /\ header' = header /\ terminal' = terminal /\ embedded' = embedded
      /\ remnant' = remnant /\ shuttingDown' = shuttingDown /\ wire' = wire
      /\ received' = received /\ reported' = reported /\ sent' = sent /\ lost' = lost
      /\ interrupted' = interrupted
  BY DEF streamsVars, connectionVars
<1>2. HalfWritten' = HalfWritten /\ Remnants' = Remnants /\ Begun' = Begun /\ Announcing' = Announcing
      /\ Accounted' = Accounted
  <2>1. HalfWritten' = HalfWritten /\ Remnants' = Remnants
    BY <1>1 DEF HalfWritten, Remnants
  <2>2. Begun' = Begun
    BY <1>1, <2>1 DEF Begun, Spans
  <2>3. Announcing' = Announcing
    BY <1>1 DEF Announcing, Size, Header, Spans
  <2>4. Accounted' = Accounted
    BY <1>1, <2>1 DEF Accounted, ToSet
  <2> QED BY <2>1, <2>2, <2>3, <2>4
<1>3. StreamsTypes'
  BY <1>1 DEF StreamsInv, StreamsTypes
<1>4. AccountedOnce' /\ DropsConserved'
  BY <1>1, <1>2 DEF StreamsInv, AccountedOnce, EverySpanAccounted, DropsConserved, ToSet
<1>5. Ordered' /\ StrayIsLost'
  BY <1>1, <1>2 DEF StreamsInv, Ordered, StrayIsLost
<1>6. \A d \in Connections : Held(d)' = Held(d)
  BY <1>1, OthersKept
<1>7. RequestsLinked' /\ RequestsStraight'
  <2>1. \A d \in Connections : Linked(wire'[d], Held(d)') /\ (~interrupted' => Straight(wire'[d], Held(d)'))
    BY <1>1, <1>6 DEF StreamsInv, RequestsLinked, RequestsStraight
  <2> QED BY <2>1 DEF RequestsLinked, RequestsStraight, Linked, Straight, Continues, Piece, Header, Size, Spans
<1>8. TerminalIsLast' /\ SentAreReceived' /\ WholeAreReceived'
  BY <1>1 DEF StreamsInv, TerminalIsLast, SentAreReceived, WholeAreReceived, Continues, Piece,
              Terminal, Header, Size, Spans
<1> QED BY <1>1, <1>3, <1>4, <1>5, <1>7, <1>8, BegunKept DEF StreamsInv

LEMMA InitHasInv ==
  ASSUME StreamsInit
  PROVE  StreamsInv
<1>1. /\ recorded = 0 /\ buffer = << >> /\ stray = None /\ dropped = {} /\ received = {}
      /\ reported = {} /\ sent = {} /\ lost = {} /\ interrupted = FALSE
      /\ header = [c \in Connections |-> 0] /\ terminal = [c \in Connections |-> 0]
      /\ embedded = [c \in Connections |-> {}] /\ remnant = [c \in Connections |-> None]
      /\ shuttingDown = [c \in Connections |-> FALSE] /\ wire = [c \in Connections |-> << >>]
  BY DEF StreamsInit
<1>2. DOMAIN << >> = {}
  OBVIOUS
<1>3. StreamsTypes
  <2>1. 0 \in 0..MaxSpans /\ 0 \in 0..Size(Header) /\ 0 \in 0..Size(Terminal) /\ None \in Pieces
    BY Sizes DEF Pieces
  <2>2. buffer \in Seq(Spans) /\ Len(buffer) <= MaxSize
    BY <1>1, Sizes
  <2>3. wire \in [Connections -> Seq(Segments)]
    <3>1. << >> \in Seq(Segments)
      OBVIOUS
    <3> QED BY <1>1, <3>1
  <2> QED BY <1>1, <2>1, <2>2, <2>3 DEF StreamsTypes
<1>4. Remnants = {} /\ HalfWritten = {} /\ Begun = {} /\ ToSet(buffer) = {} /\ Accounted = {}
  <2>1. Remnants = {}
    BY <1>1 DEF Remnants
  <2>2. HalfWritten = {}
    BY <2>1 DEF HalfWritten
  <2>3. Begun = {}
    BY <1>1, <1>2, <2>2 DEF Begun
  <2>4. ToSet(buffer) = {}
    BY <1>1, <1>2 DEF ToSet
  <2> QED BY <1>1, <2>1, <2>2, <2>3, <2>4 DEF Accounted
<1>5. AccountedOnce
  <2>1. 1..recorded = {}
    BY <1>1
  <2>2. Unrepeated /\ Distinct
    BY <1>1, <1>2, <1>4 DEF Unrepeated, Distinct
  <2> QED BY <1>1, <1>4, <2>1, <2>2 DEF AccountedOnce, EverySpanAccounted, Unrepeated, Distinct
<1>6. DropsConserved
  <2>1. Carried = {} /\ Apart
    BY <1>1 DEF Carried, Apart, Announcing
  <2> QED BY <1>1, <2>1, DropsParts
<1>7. ASSUME NEW c \in Connections
      PROVE  Linked(wire[c], Held(c)) /\ Straight(wire[c], Held(c))
  <2>1. \A p : p \in Held(c) <=> p = Piece(Header, 0)
    <3>1. 0 < Size(Header) /\ header[c] = 0 /\ remnant[c] = None /\ ~shuttingDown[c]
      BY <1>1, Sizes
    <3>2. TAKE p
    <3>3. p \in Held(c) <=>
            \/ p = Piece(Header, header[c]) /\ header[c] < Size(Header)
            \/ p = remnant[c] /\ remnant[c] # None
            \/ p = Piece(Terminal, terminal[c]) /\ terminal[c] < Size(Terminal) /\ shuttingDown[c]
      BY <1>3, HeldElements
    <3> QED BY <3>1, <3>3
  <2>2. wire[c] = << >>
    BY <1>1
  <2>3. Piece(Header, 0) \in Held(c) /\ \A p \in Held(c) : ~(p.at > 0)
    BY <2>1 DEF Piece
  <2> QED BY <1>2, <2>2, <2>3 DEF Linked, Straight
<1>8. TerminalIsLast
  <2>1. \A c \in Connections : terminal[c] = 0 /\ wire[c] = << >>
    BY <1>1
  <2> QED BY <1>2, <2>1 DEF TerminalIsLast
<1>9. Ordered /\ StrayIsLost
  BY <1>1, <1>2, <1>4 DEF Ordered, StrayIsLost
<1>10. SentAreReceived /\ WholeAreReceived
  <2>1. \A c \in Connections : wire[c] = << >>
    BY <1>1
  <2> QED BY <1>1, <1>2, <2>1 DEF SentAreReceived, WholeAreReceived
<1>11. OneWriter
  <2>1. \A c \in Connections : remnant[c] = None /\ wire[c] = << >>
    BY <1>1
  <2> QED BY <1>2, <2>1 DEF OneWriter, BegunBy
<1> QED BY <1>3, <1>5, <1>6, <1>7, <1>8, <1>9, <1>10, <1>11 DEF StreamsInv, RequestsLinked, RequestsStraight

\* The invariant is inductive: it holds at first and every step keeps it.
THEOREM StreamsInductive == StreamsSpec => []StreamsInv
<1>1. StreamsInit => StreamsInv
  BY InitHasInv
<1>2. ASSUME StreamsInv, [StreamsNext]_streamsVars
      PROVE  StreamsInv'
  <2>1. CASE RecordSpan
    BY <1>2, <2>1, RecordKeepsInv
  <2>2. ASSUME NEW c \in Connections, FlushStream(c)
        PROVE  StreamsInv'
    BY <1>2, <2>2, FlushKeepsInv
  <2>3. ASSUME NEW c \in Connections, FlushFails(c)
        PROVE  StreamsInv'
    <3>1. PICK n, b : Failed(c, n, b)
      BY <2>3, FailsOpens
    <3> QED BY <1>2, <3>1, FailedKeepsInv
  <2>4. ASSUME NEW c \in Connections, Shutdown(c)
        PROVE  StreamsInv'
    BY <1>2, <2>4, ShutdownKeepsInv
  <2>5. ASSUME NEW c \in Connections, Reset(c)
        PROVE  StreamsInv'
    <3>1. Failed(c, 0, 0)
      BY <1>2, <2>5, ResetOpens
    <3> QED BY <1>2, <3>1, FailedKeepsInv
  <2>6. CASE UNCHANGED streamsVars
    BY <1>2, <2>6, StutterKeepsInv
  <2> QED BY <1>2, <2>1, <2>2, <2>3, <2>4, <2>5, <2>6 DEF StreamsNext
<1> QED BY <1>1, <1>2, PTL DEF StreamsSpec

LEMMA InvIsComplete ==
  ASSUME StreamsInv
  PROVE  CompletedIsComplete
<1>1. StreamsTypes /\ TerminalIsLast /\ RequestsLinked
  BY DEF StreamsInv
<1>2. SUFFICES ASSUME NEW c \in Connections, terminal[c] = Size(Terminal)
               PROVE  /\ remnant[c] = None
                      /\ wire[c] # << >> /\ Last(wire[c]).item = Terminal
                      /\ \A i \in DOMAIN wire[c] : wire[c][i].to = Size(wire[c][i].item)
  BY DEF CompletedIsComplete
<1>3. terminal[c] > 0
  BY <1>2, Sizes
<1>4. remnant[c] = None /\ Continues(wire[c], Piece(Terminal, terminal[c]))
  BY <1>1, <1>3 DEF TerminalIsLast
<1>5. wire[c] # << >> /\ Last(wire[c]).item = Terminal /\ Last(wire[c]).to = Size(Terminal)
  BY <1>2, <1>4 DEF Continues, Piece
<1>6. ASSUME NEW i \in DOMAIN wire[c]
      PROVE  wire[c][i].to = Size(wire[c][i].item)
  <2>1. CASE i = Len(wire[c])
    <3>1. Last(wire[c]) = wire[c][i]
      BY <2>1 DEF Last
    <3> QED BY <1>5, <3>1
  <2>2. CASE i # Len(wire[c])
    BY <1>1, <2>2 DEF RequestsLinked, Linked
  <2> QED BY <2>1, <2>2
<1> QED BY <1>4, <1>5, <1>6

\* Between two calls everything is consistent, and a completed stream has
\* nothing unfinished: for every number of connections, size of the buffer, of a
\* span and of a batch, wherever a socket blocks and whenever a write fails.
THEOREM StreamsAreConsistent == StreamsSpec => []Consistent
<1>1. StreamsInv => Consistent
  BY InvIsComplete DEF Consistent
<1> QED BY <1>1, StreamsInductive, PTL

\* No span is accounted for twice, and none disappears unless a write was
\* interrupted.
THEOREM SpansAccountedOnce == StreamsSpec => []AccountedOnce
<1>1. StreamsInv => AccountedOnce
  BY DEF StreamsInv
<1> QED BY <1>1, StreamsInductive, PTL

\* Drop counts are neither lost nor doubled, whatever fails and is reset.
THEOREM DropCountsConserved == StreamsSpec => []DropsConserved
<1>1. StreamsInv => DropsConserved
  BY DEF StreamsInv
<1> QED BY <1>1, StreamsInductive, PTL

\* What the observer was told was sent is what the satellites have got.
THEOREM SentSpansAreReceived == StreamsSpec => []SentAreReceived
<1>1. StreamsInv => SentAreReceived
  BY DEF StreamsInv
<1> QED BY <1>1, StreamsInductive, PTL

\* All connections take spans from one buffer and one SpanStream, and yet no span
\* is in two of the requests being written.
THEOREM SpansHaveOneWriter == StreamsSpec => []OneWriter
<1>1. StreamsInv => OneWriter
  BY DEF StreamsInv
<1> QED BY <1>1, StreamsInductive, PTL

LEMMA WireSegments ==
  ASSUME StreamsTypes, NEW c \in Connections
  PROVE  /\ wire[c] \in Seq(Segments) /\ Len(wire[c]) \in Nat /\ DOMAIN wire[c] = 1..Len(wire[c])
         /\ \A i \in DOMAIN wire[c] :
              wire[c][i].item \in Header..Terminal /\ wire[c][i].item \in Nat
<1>1. wire[c] \in Seq(Segments)
  BY StreamsState
<1>2. Len(wire[c]) \in Nat /\ DOMAIN wire[c] = 1..Len(wire[c])
  BY <1>1, LenProperties
<1>3. \A i \in DOMAIN wire[c] : wire[c][i] \in Segments
  BY <1>1, <1>2, ElementOfSeq
<1> QED BY <1>1, <1>2, <1>3, SegmentFields

\* The items of a request are on the wire in order: header, spans, terminal.
THEOREM WiresInOrder == StreamsSpec => []WireInOrder
<1>1. StreamsInv => WireInOrder
  BY DEF StreamsInv, RequestsLinked, Linked, WireInOrder
<1> QED BY <1>1, StreamsInductive, PTL

\* Unless a write was interrupted, what a satellite gets is one well-formed
\* request, whole up to the last segment.
THEOREM RequestsAreWellFormed == StreamsSpec => []WellFormedUnlessInterrupted
<1>1. ASSUME StreamsInv
      PROVE  WellFormedUnlessInterrupted
  <2>1. SUFFICES ASSUME ~interrupted, NEW c \in Connections, NEW i \in DOMAIN wire[c]
                 PROVE  /\ wire[c][i].from = 0
                        /\ wire[c][i].item = Header <=> i = 1
                        /\ i < Len(wire[c]) =>
                             wire[c][i].to = Size(wire[c][i].item) /\ wire[c][i].item # Terminal
    BY DEF WellFormedUnlessInterrupted, RequestsWellFormed
  <2>2. StreamsTypes /\ Linked(wire[c], Held(c)) /\ Straight(wire[c], Held(c))
    BY <1>1, <2>1 DEF StreamsInv, RequestsLinked, RequestsStraight
  <2>3. /\ Len(wire[c]) \in Nat /\ DOMAIN wire[c] = 1..Len(wire[c]) /\ i \in Nat
        /\ \A j \in DOMAIN wire[c] : wire[c][j].item \in Header..Terminal /\ wire[c][j].item \in Nat
    <3>1. /\ Len(wire[c]) \in Nat /\ DOMAIN wire[c] = 1..Len(wire[c])
          /\ \A j \in DOMAIN wire[c] : wire[c][j].item \in Header..Terminal /\ wire[c][j].item \in Nat
      BY <2>2, WireSegments
    <3> QED BY <2>1, <3>1
  <2>4. \A j, t \in DOMAIN wire[c] : j < t => wire[c][j].item < wire[c][t].item
    BY <2>2 DEF Linked
  <2>5. wire[c][i].from = 0
    BY <2>2 DEF Straight
  <2>6. wire[c][1].item = Header /\ 1 \in DOMAIN wire[c]
    <3>1. wire[c] # << >>
      BY <2>1, <2>3
    <3> QED BY <2>1, <2>2, <2>3, <3>1 DEF Linked
  <2>7. i # 1 => wire[c][i].item # Header
    <3>1. i # 1 => 1 < i
      BY <2>1, <2>3
    <3> QED BY <2>3, <2>4, <2>6, <3>1, Sizes
  <2>8. i < Len(wire[c]) => wire[c][i].to = Size(wire[c][i].item)
    BY <2>2, <2>3 DEF Linked
  <2>9. ASSUME i < Len(wire[c])
        PROVE  wire[c][i].item # Terminal
    <3>1. Len(wire[c]) \in DOMAIN wire[c]
      BY <2>3, <2>9
    <3>2. wire[c][i].item < wire[c][Len(wire[c])].item
      BY <2>4, <2>9, <3>1
    <3>3. wire[c][Len(wire[c])].item <= Terminal
      BY <2>3, <3>1, Sizes
    <3> QED BY <2>3, <3>1, <3>2, <3>3, Sizes
  <2> QED BY <2>5, <2>6, <2>7, <2>8, <2>9
<1> QED BY <1>1, StreamsInductive, PTL
=============================================================================
