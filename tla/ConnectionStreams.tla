-------------------------- MODULE ConnectionStreams --------------------------
(***************************************************************************)
(* The data side of streaming: recorder/stream_recorder/connection_stream, *)
(* span_stream, recorder/metrics_tracker and network/vector_write.         *)
(*                                                                         *)
(* Every connection writes one chunked HTTP request: a header that carries *)
(* the count of dropped spans, then spans, then a terminal chunk.  All     *)
(* connections take spans from the same buffer, through one SpanStream.  A *)
(* span whose bytes did not all fit into the socket becomes the remnant of *)
(* its connection, which has to finish it before it takes other spans.     *)
(*                                                                         *)
(* A Flush is one step: it runs on the recorder's thread, and what other   *)
(* threads do meanwhile (add a span, count a dropped one) commutes with it *)
(* because Flush works on the spans it allotted when it began.             *)
(*                                                                         *)
(* An item is the header (0), a span (1, 2, ... in the order recorded) or  *)
(* the terminal chunk.  A piece is an item and the number of its bytes     *)
(* already written.  A count of spans, dropped or sent, is the set of the  *)
(* spans it counts: sums are unions, which lose nothing because no span is *)
(* counted twice, as AccountedOnce and DropsConserved say.  wire[c] and    *)
(* the variables after it are history variables for what the satellites    *)
(* and the observer have seen.                                             *)
(***************************************************************************)
EXTENDS Naturals, Sequences, FiniteSets, SequencesExt

CONSTANTS
  Connections,
  MaxSize,        \* max_size of the span buffer
  MaxSpans,       \* bound: the number of spans recorded
  SpanFragments,  \* fragments in a span; header and terminal have one
  FragmentSize,   \* bytes in a fragment
  IoVecMax,       \* fragments in one call of writev
  None            \* a null unique_ptr<ChainedStream>

ASSUME SizesAssumption ==
  /\ {MaxSize, SpanFragments, FragmentSize, IoVecMax} \subseteq Nat \ {0}
  /\ MaxSpans \in Nat
ASSUME NoneAssumption == None \notin [item : Nat, at : Nat]

Header == 0
Spans == 1..MaxSpans
Terminal == MaxSpans + 1

Size(item) == FragmentSize * (IF item \in Spans THEN SpanFragments ELSE 1)

VARIABLES
  recorded,      \* the spans recorded so far are 1..recorded
  buffer,        \* the spans in the circular buffer
  stray,         \* SpanStream::remnant_, a piece or None
  dropped,       \* MetricsTracker::num_dropped_spans_
  header,        \* header[c]: bytes written of header_stream_
  terminal,      \* terminal[c]: bytes written of terminal_stream_
  embedded,      \* embedded[c]: those counted in embedded_metrics_message_
  remnant,       \* remnant[c]: span_remnant_, a piece or None
  shuttingDown,  \* shuttingDown[c]: shutting_down_
  wire,          \* wire[c]: what c has sent since it connected
  received,      \* the spans some satellite has got from first to last byte
  reported,      \* dropped spans in the headers satellites have got
  sent,          \* the spans counted by MetricsObserver::OnSpansSent
  lost,          \* the spans counted by MetricsObserver::OnSpansDropped
  interrupted    \* some write failed after a part of it had gone out

connectionVars == <<header, terminal, embedded, remnant, shuttingDown, wire>>
streamsVars == <<recorded, buffer, stray, dropped, connectionVars, received,
          reported, sent, lost, interrupted>>

StreamsInit ==
  /\ recorded = 0
  /\ buffer = << >>
  /\ stray = None
  /\ dropped = {}
  /\ header   = [c \in Connections |-> 0]
  /\ terminal = [c \in Connections |-> 0]
  /\ embedded = [c \in Connections |-> {}]
  /\ remnant  = [c \in Connections |-> None]
  /\ shuttingDown = [c \in Connections |-> FALSE]
  /\ wire = [c \in Connections |-> << >>]
  /\ received = {}
  /\ reported = {}
  /\ sent = {}
  /\ lost = {}
  /\ interrupted = FALSE

-----------------------------------------------------------------------------
(* Writing                                                                 *)

Piece(item, at) == [item |-> item, at |-> at]
Left(p) == Size(p.item) - p.at
FragmentsLeft(p) == (Left(p) + FragmentSize - 1) \div FragmentSize

\* The pieces of an item that is not used up: none or one.
Rest(item, at) == IF at < Size(item) THEN <<Piece(item, at)>> ELSE << >>

\* Mutant: a shutdown forgets the span that was being written.
BeforeSpansWithoutRemnant(c) ==
  Rest(Header, header[c]) \o
    IF remnant[c] = None \/ shuttingDown[c] THEN << >> ELSE <<remnant[c]>>

BeforeSpans(c) ==
  Rest(Header, header[c]) \o (IF remnant[c] = None THEN << >> ELSE <<remnant[c]>>)

\* Mutant: the remnant goes after the new spans.
StreamsRemnantLast(c) ==
  Rest(Header, header[c]) \o
  (IF shuttingDown[c] THEN Rest(Terminal, terminal[c])
                      ELSE [i \in DOMAIN buffer |-> Piece(buffer[i], 0)]) \o
  (IF remnant[c] = None THEN << >> ELSE <<remnant[c]>>)

\* What Flush hands to the writer, in order.
Streams(c) ==
  BeforeSpans(c) \o
    IF shuttingDown[c] THEN Rest(Terminal, terminal[c])
                       ELSE [i \in DOMAIN buffer |-> Piece(buffer[i], 0)]

(***************************************************************************)
(* A write stops after n whole pieces and b bytes of the next one.  A      *)
(* socket that blocks stops it anywhere, an error only between two calls   *)
(* of writev, that is after a whole number of batches.                     *)
(***************************************************************************)
Cuts(S) ==
  {cut \in (0..Len(S)) \X (0..Size(1)) :
     cut[2] > 0 => cut[1] < Len(S) /\ cut[2] < Left(S[cut[1] + 1])}

FragmentsBefore(S, n, b) ==
  FoldSeq(LAMBDA p, sum : FragmentsLeft(p) + sum, 0, SubSeq(S, 1, n))
    + IF b = 0 THEN 0
      ELSE FragmentsLeft(S[n + 1]) -
           FragmentsLeft(Piece(S[n + 1].item, S[n + 1].at + b))

ErrorCuts(S) ==
  {cut \in Cuts(S) :
     /\ cut[1] < Len(S)
     /\ cut[2] > 0 => (S[cut[1] + 1].at + cut[2]) % FragmentSize = 0
     /\ FragmentsBefore(S, cut[1], cut[2]) % IoVecMax = 0}

\* The bytes w followed by the first n pieces of S and b bytes of the next.
Sends(w, S, n, b) ==
  LET segment(i) ==
        [item |-> S[i].item, from |-> S[i].at,
         to |-> IF i <= n THEN Size(S[i].item) ELSE S[i].at + b]
      new == [i \in 1..(IF b > 0 THEN n + 1 ELSE n) |-> segment(i)]
      joins == /\ w # << >> /\ new # << >>
               /\ Last(w).item = new[1].item /\ Last(w).to = new[1].from
  IN IF joins
     THEN Front(w) \o <<[new[1] EXCEPT !.from = Last(w).from]>> \o Tail(new)
     ELSE w \o new

-----------------------------------------------------------------------------
(* ConnectionStream and SpanStream                                         *)

\* InitializeStream, and what Reset clears: a new request, with a header
\* that carries the given count.
InitializeStream(c, count) ==
  /\ embedded' = [embedded EXCEPT ![c] = count]
  /\ dropped' = {}
  /\ header'   = [header EXCEPT ![c] = 0]
  /\ terminal' = [terminal EXCEPT ![c] = 0]
  /\ remnant'  = [remnant EXCEPT ![c] = None]
  /\ shuttingDown' = [shuttingDown EXCEPT ![c] = FALSE]
  /\ wire' = [wire EXCEPT ![c] = << >>]

Unsent(c, hd) == IF hd < Size(Header) THEN embedded[c] ELSE {}
Unfinished(rm) == IF rm # None /\ Left(rm) > 0 THEN {rm.item} ELSE {}

\* Mutant: the span that was being written is not counted.
ResetFromUncounted(c, hd, rm) ==
  /\ InitializeStream(c, dropped \cup Unsent(c, hd))
  /\ UNCHANGED lost

\* Mutant: the count of a header that was not uploaded is lost.
ResetFromForgetsUnsent(c, hd, rm) ==
  /\ InitializeStream(c, dropped \cup Unfinished(rm))
  /\ lost' = lost \cup Unfinished(rm)

(***************************************************************************)
(* Reset, of a connection whose header and remnant are hd and rm: counts   *)
(* that were not uploaded go back to the tracker, an unfinished span is    *)
(* dropped, and InitializeStream embeds the tracker's count in a new       *)
(* header.                                                                 *)
(***************************************************************************)
ResetFrom(c, hd, rm) ==
  /\ InitializeStream(c, dropped \cup Unsent(c, hd) \cup Unfinished(rm))
  /\ lost' = lost \cup Unfinished(rm)

Reset(c) ==
  /\ ResetFrom(c, header[c], remnant[c])
  /\ UNCHANGED <<recorded, buffer, stray, received, reported, sent,
                 interrupted>>

Shutdown(c) ==
  /\ shuttingDown' = [shuttingDown EXCEPT ![c] = TRUE]
  /\ UNCHANGED <<recorded, buffer, stray, dropped, header, terminal, embedded,
                 remnant, wire, received, reported, sent, lost, interrupted>>

\* The write got as far as the SpanStream, which then clears or seeks.
ReachesSpans(c, n) ==
  ~shuttingDown[c] /\ Streams(c) # << >> /\ n >= Len(BeforeSpans(c))

\* SpanStream::Seek keeps the span it cut in two, and only that one.
StrayAfter(c, n, b) ==
  IF ~ReachesSpans(c, n) THEN stray
  ELSE IF b > 0 THEN Piece(Streams(c)[n + 1].item, b)
  ELSE None

\* Mutant: the span cut in two counts as written.
SpansDoneRoundedUp(c, n) ==
  IF ReachesSpans(c, n) /\ n < Len(Streams(c))
  THEN n + 1 - Len(BeforeSpans(c)) ELSE 0

\* How many spans of the buffer were written completely.
SpansDone(c, n) == IF ReachesSpans(c, n) THEN n - Len(BeforeSpans(c)) ELSE 0

FirstSpans(n) == {buffer[i] : i \in 1..n}

HeaderAfter(c, n, b) ==
  IF header[c] = Size(Header) \/ n > 0 THEN Size(Header) ELSE header[c] + b

RemnantAfter(c, n, b) ==
  LET i == Len(BeforeSpans(c))
  IN IF remnant[c] = None \/ n < i - 1 THEN remnant[c]
     ELSE Piece(remnant[c].item,
                IF n >= i THEN Size(remnant[c].item) ELSE remnant[c].at + b)

\* What the write does to the wire and to the buffer, however it ends.
Transmit(c, n, b) ==
  LET S == Streams(c)
      w == Sends(wire[c], S, n, b)
      took == SpansDone(c, n) + IF ReachesSpans(c, n) /\ b > 0 THEN 1 ELSE 0
  IN /\ buffer' = SubSeq(buffer, took + 1, Len(buffer))
     /\ received' = received \cup
          {s \in Spans : \E i \in DOMAIN w :
             w[i] = [item |-> s, from |-> 0, to |-> Size(s)]}
     /\ reported' = IF HeaderAfter(c, n, b) > header[c]
                       /\ HeaderAfter(c, n, b) = Size(Header)
                    THEN reported \cup embedded[c] ELSE reported

(***************************************************************************)
(* Flush and FlushShutdown with a writer that returns: the remnant that    *)
(* was finished counts as sent, and the connection takes over the span     *)
(* that SpanStream cut in two.                                             *)
(***************************************************************************)
FlushStream(c) == \E cut \in Cuts(Streams(c)) :
  LET n == cut[1]
      b == cut[2]
      rm == RemnantAfter(c, n, b)
      done == rm # None /\ Left(rm) = 0
      takes == ~shuttingDown[c] /\ (rm = None \/ done)
  IN /\ Transmit(c, n, b)
     /\ header' = [header EXCEPT ![c] = HeaderAfter(c, n, b)]
     /\ terminal' = [terminal EXCEPT ![c] =
          IF ~shuttingDown[c] \/ n < Len(BeforeSpans(c)) THEN @
          ELSE IF n = Len(Streams(c)) THEN Size(Terminal) ELSE @ + b]
     /\ remnant' = [remnant EXCEPT ![c] =
          IF takes THEN StrayAfter(c, n, b)
          ELSE IF done THEN None ELSE rm]
     /\ stray' = IF takes THEN None ELSE StrayAfter(c, n, b)
     /\ wire' = [wire EXCEPT ![c] = Sends(@, Streams(c), n, b)]
     /\ sent' = sent \cup FirstSpans(SpansDone(c, n)) \cup
                IF done THEN {rm.item} ELSE {}
     /\ UNCHANGED <<recorded, dropped, embedded, shuttingDown, lost,
                    interrupted>>

(***************************************************************************)
(* Flush with a writer that throws: the bytes written before the error are *)
(* consumed, the rest of ConnectionStream::Flush is skipped, and           *)
(* SatelliteConnection::Flush frees the socket, which resets the stream.   *)
(***************************************************************************)
FlushFails(c) == \E cut \in ErrorCuts(Streams(c)) :
  LET n == cut[1]
      b == cut[2]
  IN /\ Transmit(c, n, b)
     /\ stray' = StrayAfter(c, n, b)
     /\ sent' = sent \cup FirstSpans(SpansDone(c, n))
     /\ ResetFrom(c, HeaderAfter(c, n, b), RemnantAfter(c, n, b))
     /\ interrupted' = (interrupted \/ cut # <<0, 0>>)
     /\ UNCHANGED recorded

\* StreamRecorder::RecordSpan: the span is buffered, or dropped and counted.
RecordSpan ==
  /\ recorded < MaxSpans
  /\ recorded' = recorded + 1
  /\ IF Len(buffer) < MaxSize
     THEN /\ buffer' = Append(buffer, recorded + 1)
          /\ UNCHANGED <<dropped, lost>>
     ELSE /\ dropped' = dropped \cup {recorded + 1}
          /\ lost' = lost \cup {recorded + 1}
          /\ UNCHANGED buffer
  /\ UNCHANGED <<stray, connectionVars, received, reported, sent, interrupted>>

StreamsNext ==
  \/ RecordSpan
  \/ \E c \in Connections : FlushStream(c) \/ FlushFails(c) \/ Shutdown(c) \/ Reset(c)

StreamsSpec == StreamsInit /\ [][StreamsNext]_streamsVars

-----------------------------------------------------------------------------
(* Properties                                                              *)

Pieces == [item : Spans, at : 1..(Size(1) - 1)] \cup {None}
Segments == [item : Header..Terminal, from : Nat, to : Nat]

StreamsTypes ==
  /\ recorded \in 0..MaxSpans
  /\ buffer \in Seq(Spans) /\ Len(buffer) <= MaxSize
  /\ stray \in Pieces
  /\ {dropped, reported, sent, lost} \subseteq SUBSET Spans
  /\ header   \in [Connections -> 0..Size(Header)]
  /\ terminal \in [Connections -> 0..Size(Terminal)]
  /\ embedded \in [Connections -> SUBSET Spans]
  /\ remnant  \in [Connections -> Pieces]
  /\ shuttingDown \in [Connections -> BOOLEAN]
  /\ wire \in [Connections -> Seq(Segments)]
  /\ received \subseteq Spans
  /\ interrupted \in BOOLEAN

(***************************************************************************)
(* Every satellite gets one well-formed request: the header first, then    *)
(* whole spans, none of them interrupted or begun in the middle, then at   *)
(* most one terminal chunk.                                                *)
(***************************************************************************)
RequestsWellFormed ==
  \A c \in Connections :
    \A i \in DOMAIN wire[c] :
      LET s == wire[c][i] IN
      /\ s.from = 0
      /\ s.item = Header <=> i = 1
      /\ (i < Len(wire[c]) => s.to = Size(s.item) /\ s.item # Terminal)

(***************************************************************************)
(* That is so wherever the sockets block and whenever a connection fails,  *)
(* as long as no write fails between two of its batches.                   *)
(***************************************************************************)
WellFormedUnlessInterrupted == ~interrupted => RequestsWellFormed

(***************************************************************************)
(* A stream is completed (the terminal chunk is out) only if everything    *)
(* its satellite has got the beginning of was finished, the span in flight *)
(* when the stream was shut down too, whatever failed before.              *)
(***************************************************************************)
CompletedIsComplete ==
  \A c \in Connections :
    terminal[c] = Size(Terminal) =>
      /\ remnant[c] = None
      /\ wire[c] # << >> /\ Last(wire[c]).item = Terminal
      /\ \A i \in DOMAIN wire[c] : wire[c][i].to = Size(wire[c][i].item)

Remnants == {c \in Connections : remnant[c] # None}
HalfWritten == {remnant[c].item : c \in Remnants}

\* The spans in the buffer, half written by a connection, sent or dropped.
Accounted == ToSet(buffer) \cup HalfWritten \cup sent \cup lost

(***************************************************************************)
(* No span disappears: each one is in the buffer, or some connection has   *)
(* it half written, or it was counted as sent or as dropped.               *)
(* connection_stream_test.cpp:211, "If ConnectionStream is reset when      *)
(* there's a remnant left, it clears it and records a dropped span."       *)
(***************************************************************************)
EverySpanAccounted == Accounted = 1..recorded

(***************************************************************************)
(* No span is accounted for twice, whatever fails, and none disappears as  *)
(* long as no write fails between two of its batches.                      *)
(***************************************************************************)
AccountedOnce ==
  /\ \A i, j \in DOMAIN buffer : buffer[i] = buffer[j] => i = j
  /\ \A c, d \in Remnants : remnant[c].item = remnant[d].item => c = d
  /\ ToSet(buffer) \cap (HalfWritten \cup sent \cup lost) = {}
  /\ HalfWritten \cap (sent \cup lost) = {}
  /\ sent \cap lost = {}
  /\ Accounted \subseteq 1..recorded
  /\ ~interrupted => EverySpanAccounted

(***************************************************************************)
(* The spans reported as sent to the observer are those the satellites     *)
(* got, although they are counted when a write returns and in two places.  *)
(***************************************************************************)
SentAreReceived == ~interrupted => sent = received

\* The connections whose headers carry a drop count still to be sent.
Announcing == {c \in Connections : header[c] < Size(Header)}

(***************************************************************************)
(* Drop counts are neither lost nor doubled on their way to a satellite:   *)
(* each span dropped is counted in the tracker, in one header not yet      *)
(* sent, or in one that was.                                               *)
(***************************************************************************)
DropsConserved ==
  LET carried == UNION {embedded[c] : c \in Announcing} IN
  /\ lost = dropped \cup carried \cup reported
  /\ dropped \cap (carried \cup reported) = {}
  /\ carried \cap reported = {}
  /\ \A c, d \in Announcing : c # d => embedded[c] \cap embedded[d] = {}

(***************************************************************************)
(* Spans reach a connection in the order they were recorded.               *)
(***************************************************************************)
WireInOrder ==
  \A c \in Connections : \A i, j \in DOMAIN wire[c] :
    i < j => wire[c][i].item < wire[c][j].item

-----------------------------------------------------------------------------
(* What has to be true between two calls for all this to hold.             *)

\* The pieces that no other connection can write: c's header, the span it has
\* half written, and once it is shut down the terminal chunk.
Held(c) ==
  {p \in {Piece(Header, header[c]), Piece(Terminal, terminal[c])} :
     p.at < Size(p.item) /\ (p.item = Terminal => shuttingDown[c])}
  \cup ({remnant[c]} \ {None})

\* The piece p goes on where the request w stops.
Continues(w, p) == w # << >> /\ Last(w).item = p.item /\ Last(w).to = p.at

\* The pieces P are what is left of the request w: they come after it, and the
\* only item of w that is not whole goes on in one of them.
Linked(w, P) ==
  /\ \A i, j \in DOMAIN w : i < j => w[i].item < w[j].item
  /\ \A i \in DOMAIN w, p \in P :
       w[i].item < p.item \/ (i = Len(w) /\ Continues(w, p))
  /\ \A i \in DOMAIN w :
       w[i].to = Size(w[i].item) \/ (i = Len(w) /\ \E p \in P : Continues(w, p))
  /\ IF w = << >> THEN Piece(Header, 0) \in P ELSE w[1].item = Header

RequestsLinked == \A c \in Connections : Linked(wire[c], Held(c))

\* Nothing on the wire was begun in the middle, and nothing that was begun has
\* its beginning elsewhere.
Straight(w, P) ==
  /\ \A i \in DOMAIN w : w[i].from = 0
  /\ \A p \in P : p.at > 0 => Continues(w, p)

RequestsStraight ==
  ~interrupted => \A c \in Connections : Straight(wire[c], Held(c))

\* The terminal chunk is begun after all the rest, and only by a shutdown.
TerminalIsLast ==
  \A c \in Connections :
    /\ terminal[c] > 0 =>
         /\ shuttingDown[c] /\ remnant[c] = None /\ header[c] = Size(Header)
         /\ Continues(wire[c], Piece(Terminal, terminal[c]))
    /\ \A i \in DOMAIN wire[c] : wire[c][i].item = Terminal => terminal[c] > 0

\* The spans that connections have begun to write.
Begun ==
  HalfWritten \cup
    {s \in Spans : \E c \in Connections : \E i \in DOMAIN wire[c] : wire[c][i].item = s}

\* Those that c has begun, in the request it is writing.
BegunBy(c) ==
  {s \in Spans : \/ remnant[c] # None /\ s = remnant[c].item
                 \/ \E i \in DOMAIN wire[c] : s = wire[c][i].item}

\* No span is in two of the requests being written, although all connections
\* take spans from one buffer and one SpanStream.
OneWriter == \A c, d \in Connections : c # d => BegunBy(c) \cap BegunBy(d) = {}

\* Spans leave the buffer in the order recorded, the one that a failed write
\* left in the SpanStream after all others.
Ordered ==
  /\ \A i, j \in DOMAIN buffer : i < j => buffer[i] < buffer[j]
  /\ \A s \in Begun : s <= recorded /\ \A i \in DOMAIN buffer : s < buffer[i]
  /\ stray # None =>
       /\ \A i \in DOMAIN buffer : stray.item < buffer[i]
       /\ \A s \in Begun : s < stray.item

\* Only a write that was interrupted leaves a span there, and nobody counts it.
StrayIsLost ==
  stray # None => interrupted /\ stray.item <= recorded /\ stray.item \notin sent \cup lost

\* What some satellite has of a span from the first to the last byte.
WholeAreReceived ==
  \A c \in Connections, s \in Spans :
    (\E i \in DOMAIN wire[c] : wire[c][i] = [item |-> s, from |-> 0, to |-> Size(s)])
      => s \in received

\* The inductive invariant.
StreamsInv ==
  /\ StreamsTypes
  /\ AccountedOnce
  /\ DropsConserved
  /\ SentAreReceived
  /\ RequestsLinked
  /\ RequestsStraight
  /\ TerminalIsLast
  /\ OneWriter
  /\ Ordered
  /\ StrayIsLost
  /\ WholeAreReceived

\* What holds between two calls, and what a completed stream means.
Consistent == StreamsInv /\ CompletedIsComplete
=============================================================================
