----------------------------- MODULE Propagation -----------------------------
(***************************************************************************)
(* Span contexts on their way through services (src/src/tracer/propaga-    *)
(* tion/).  Each service extracts a context from the headers of the        *)
(* request it received, starts a span under it, and injects that span's    *)
(* context into the headers of its own request.  Services are configured   *)
(* with different propagation modes, a proxy may hand the headers it       *)
(* received on with its own, headers may get lost or garbled on the way,   *)
(* and an injection may fail half way (TextMapWriter::Set returned an      *)
(* error).                                                                 *)
(*                                                                         *)
(* A header is a pair of a mode and a field; "baggage" headers belong to   *)
(* no mode.  A value is what its text denotes, or Corrupt when the text    *)
(* does not parse.  Upper and lower case are not told apart, as for HTTP.  *)
(***************************************************************************)
EXTENDS Naturals, Sequences, SequencesExt

CONSTANTS ModeLists,  \* what services may be configured with
          BaggageKey, \* the one baggage item a request carries
          State,      \* the trace state a foreign client may send
          Corrupt, Missing,
          MaxHops,    \* bound: services after the first
          MaxFaults   \* bound: headers lost or garbled, injections cut short

\* The modes that have a header for each part of the context, and the others.
Multi == {"lightstep", "b3"}
Single == {"envoy", "trace_context", "cloud_trace"}
Modes == Multi \cup Single

ASSUME ModesAssumption == ModeLists \subseteq Seq(Modes)

\* What the texts of headers denote.
Traces == [high : Nat, low : Nat]
Empty == [h \in {} |-> Corrupt]
Baggages == {Empty, [k \in {BaggageKey} |-> 1]}
BinaryCarriers == [trace : Traces, span : Nat, sampled : BOOLEAN, baggage : Baggages]
TraceParents == [trace : Traces, span : Nat \cup {Missing}, sampled : BOOLEAN \cup {Missing}]

ASSUME MarksAssumption ==
  /\ Corrupt \notin Traces \cup Nat \cup BOOLEAN \cup BinaryCarriers \cup TraceParents
                   \cup {<<State>>}
  /\ Missing \notin Nat \cup BOOLEAN

VARIABLES
  carrier,  \* the headers of the request on its way
  sent,     \* history: the contexts injected so far
  lists,    \* history: the modes of the services so far
  faults,   \* history: how much went wrong
  fresh,    \* history: only the last service wrote to the carrier, all it has to
  mixed     \* history: an injection was cut short over older headers

propagationVars == <<carrier, sent, lists, faults, fresh, mixed>>

-----------------------------------------------------------------------------
(* Which propagators a tracer has (propagation_options.cpp).               *)

\* The first of each mode, in order.  The vector's elements keep their places in
\* the list they come from: what is dropped leaves a gap.
UniqifyPropagationModes(modes) ==
  [i \in {j \in DOMAIN modes : \A k \in 1 .. j - 1 : modes[k] # modes[j]} |-> modes[i]]

\* Mutant: no baggage headers if envoy is one of the modes.
InjectPropagatorsAnyEnvoy(modes) ==
  UniqifyPropagationModes(IF "envoy" \in ToSet(modes) THEN modes ELSE Append(modes, "baggage"))

\* Baggage has its own headers, unless the modes are the envoy mode alone.
InjectPropagators(modes) ==
  UniqifyPropagationModes(IF modes = <<"envoy">> THEN modes ELSE Append(modes, "baggage"))

\* Envoy always falls back to LightStep's headers; the others have two places,
\* of which the second is dropped.
ExtractPropagators(modes) ==
  UniqifyPropagationModes([i \in 1 .. 2 * Len(modes) |->
    IF i % 2 = 0 /\ modes[i \div 2] = "envoy" THEN "lightstep"
                                              ELSE modes[(i + 1) \div 2]])

-----------------------------------------------------------------------------
(* Injection: the calls of Set, in order.                                  *)

Set(mode, field, value) == [header |-> <<mode, field>>, value |-> value]

\* The lower half of an id, as a 64-bit header denotes it.
Low(trace) == [trace EXCEPT !.high = 0]

\* Mutant: 128-bit support is lost.
MultiheaderNarrow(mode, trace, c) ==
  <<Set(mode, "trace", Low(trace)), Set(mode, "span", c.span), Set(mode, "sampled", c.sampled)>>

Multiheader(mode, trace, c) ==
  <<Set(mode, "trace", trace), Set(mode, "span", c.span), Set(mode, "sampled", c.sampled)>>

\* The encoding of envoy's header has room for the lower half of the id only.
BinaryCarrier(c) ==
  [trace |-> Low(c.trace), span |-> c.span, sampled |-> c.sampled, baggage |-> c.baggage]

InjectEnvoy(c) == <<Set("envoy", "context", BinaryCarrier(c))>>

\* What the traceparent and the cloud trace header denote.
TraceParent(c) == [trace |-> c.trace, span |-> c.span, sampled |-> c.sampled]

InjectTraceContext(c) ==
  <<Set("trace_context", "context", TraceParent(c))>>
    \o (IF c.state = <<>> THEN <<>> ELSE <<Set("trace_context", "state", c.state)>>)

InjectCloudTrace(c) == <<Set("cloud_trace", "context", TraceParent(c))>>

InjectBaggage(c) ==
  IF BaggageKey \in DOMAIN c.baggage
  THEN <<Set("baggage", BaggageKey, c.baggage[BaggageKey])>> ELSE <<>>

Inject(mode, c) ==
  CASE mode = "lightstep" -> Multiheader(mode, Low(c.trace), c)
    [] mode = "b3" -> Multiheader(mode, c.trace, c)
    [] mode = "envoy" -> InjectEnvoy(c)
    [] mode = "trace_context" -> InjectTraceContext(c)
    [] mode = "cloud_trace" -> InjectCloudTrace(c)
    [] mode = "baggage" -> InjectBaggage(c)

\* The calls of Set, propagator by propagator, each with its place.
InjectSpanContext(modes, c) ==
  LET propagators == InjectPropagators(modes)
  IN UNION {{[place |-> <<i, k>>, set |-> Inject(propagators[i], c)[k]] :
               k \in DOMAIN Inject(propagators[i], c)} : i \in DOMAIN propagators}

\* Those before one that returns an error.
Until(calls, stop) ==
  {call \in calls : \/ call.place[1] < stop.place[1]
                    \/ call.place[1] = stop.place[1] /\ call.place[2] < stop.place[2]}

\* The carrier after these calls: no two of them set the same header.
Written(headers, calls) ==
  [h \in DOMAIN headers \cup {call.set.header : call \in calls} |->
     IF \E call \in calls : call.set.header = h
     THEN (CHOOSE call \in calls : call.set.header = h).set.value ELSE headers[h]]

-----------------------------------------------------------------------------
(* Extraction.  The out parameters go from one extractor to the next.      *)

NoContext == [trace |-> [high |-> 0, low |-> 0], span |-> 0, sampled |-> FALSE,
              baggage |-> Empty, state |-> <<>>]

Result(kind, out) == [kind |-> kind, out |-> out]

\* The items of the baggage headers, which every mode but envoy collects.
BaggageHeaders(headers) ==
  [k \in {h[2] : h \in {g \in DOMAIN headers : g[1] = "baggage"}} |-> headers[<<"baggage", k>>]]

\* Mutant: one id is enough.
ExtractMultiheaderUncounted(mode, headers, out) ==
  LET found == DOMAIN headers \cap {<<mode, "trace">>, <<mode, "span">>}
      sampled == <<mode, "sampled">>
  IN IF \E h \in found : headers[h] = Corrupt THEN Result("error", out)
     ELSE IF found = {} THEN Result("none", [out EXCEPT !.baggage = BaggageHeaders(headers)])
     ELSE Result("context", [out EXCEPT
            !.trace = IF <<mode, "trace">> \in found THEN headers[<<mode, "trace">>] ELSE @,
            !.span = IF <<mode, "span">> \in found THEN headers[<<mode, "span">>] ELSE @,
            !.sampled = sampled \in DOMAIN headers => headers[sampled] # FALSE,
            !.baggage = BaggageHeaders(headers)])

\* Both ids have to be there; sampled is on unless the header says otherwise.
ExtractMultiheader(mode, headers, out) ==
  LET found == DOMAIN headers \cap {<<mode, "trace">>, <<mode, "span">>}
      sampled == <<mode, "sampled">>
  IN IF \E h \in found : headers[h] = Corrupt THEN Result("error", out)
     ELSE IF found = {} THEN Result("none", [out EXCEPT !.baggage = BaggageHeaders(headers)])
     ELSE IF found # {<<mode, "trace">>, <<mode, "span">>} THEN Result("error", out)
     ELSE Result("context", [out EXCEPT
            !.trace = headers[<<mode, "trace">>],
            !.span = headers[<<mode, "span">>],
            !.sampled = sampled \in DOMAIN headers => headers[sampled] # FALSE,
            !.baggage = BaggageHeaders(headers)])

\* The fields of envoy's header, baggage included.
ParseBinaryCarrier(value, out) ==
  [out EXCEPT !.trace = value.trace, !.span = value.span,
              !.sampled = value.sampled, !.baggage = value.baggage]

\* One header holds all. The upper half of the id is cleared first of all.
ExtractEnvoy(headers, out) ==
  LET h == <<"envoy", "context">>
      cleared == [out EXCEPT !.trace.high = 0]
  IN IF h \notin DOMAIN headers THEN Result("none", cleared)
     ELSE IF headers[h] = Corrupt THEN Result("error", cleared)
     ELSE Result("context", ParseBinaryCarrier(headers[h], cleared))

ParseTraceContext(value, out) ==
  [out EXCEPT !.trace = value.trace, !.span = value.span, !.sampled = value.sampled]

\* The trace state is taken even when there is no traceparent beside it.
ExtractTraceContext(headers, out) ==
  LET h == <<"trace_context", "context">>
      s == <<"trace_context", "state">>
      collected == [out EXCEPT !.baggage = BaggageHeaders(headers),
                               !.state = IF s \in DOMAIN headers THEN headers[s] ELSE @]
  IN IF h \notin DOMAIN headers THEN Result("none", collected)
     ELSE IF headers[h] = Corrupt THEN Result("error", collected)
     ELSE Result("context", ParseTraceContext(headers[h], collected))

\* The short forms of the header hold no span id, or no sampling decision.
ParseCloudTrace(value, out) ==
  [out EXCEPT !.trace = value.trace,
              !.span = IF value.span = Missing THEN @ ELSE value.span,
              !.sampled = value.sampled # FALSE]

ExtractCloudTrace(headers, out) ==
  LET h == <<"cloud_trace", "context">>
      collected == [out EXCEPT !.baggage = BaggageHeaders(headers)]
  IN IF h \notin DOMAIN headers THEN Result("none", collected)
     ELSE IF headers[h] = Corrupt THEN Result("error", collected)
     ELSE Result("context", ParseCloudTrace(headers[h], collected))

Extract(mode, headers, out) ==
  CASE mode \in {"lightstep", "b3"} -> ExtractMultiheader(mode, headers, out)
    [] mode = "envoy" -> ExtractEnvoy(headers, out)
    [] mode = "trace_context" -> ExtractTraceContext(headers, out)
    [] mode = "cloud_trace" -> ExtractCloudTrace(headers, out)

\* The first extractor that finds something, or finds it corrupt, decides.
ExtractNext(propagators, headers, i, result) ==
  IF i \in DOMAIN propagators /\ result.kind = "none"
  THEN Extract(propagators[i], headers, [result.out EXCEPT !.baggage = Empty])
  ELSE result

ExtractSpanContext(modes, headers) ==
  LET result[i \in 0 .. 2 * Len(modes)] ==
        IF i = 0 THEN Result("none", NoContext)
        ELSE ExtractNext(ExtractPropagators(modes), headers, i, result[i - 1])
  IN result[2 * Len(modes)]

-----------------------------------------------------------------------------
\* A client of another make, whose trace ids have 128 bits.
Foreign == [trace : {[high |-> 1, low |-> 1]}, span : {1}, sampled : BOOLEAN,
            baggage : Baggages, state : {<<>>, <<State>>}]

\* The forms a foreign client may write its cloud trace header in.
Forms(headers) ==
  LET h == <<"cloud_trace", "context">>
  IN IF h \in DOMAIN headers /\ headers[h].sampled
     THEN {headers, [headers EXCEPT ![h].sampled = Missing],
           [headers EXCEPT ![h].sampled = Missing, ![h].span = Missing]}
     ELSE {headers}

PropagationInit ==
  \E modes \in ModeLists, c \in Foreign :
    /\ carrier \in Forms(Written(Empty, InjectSpanContext(modes, c)))
    /\ sent = <<c>>
    /\ lists = <<modes>>
    /\ faults = 0
    /\ fresh = (carrier = Written(Empty, InjectSpanContext(modes, c)))
    /\ mixed = FALSE

\* The context of the span started under what was extracted; without a parent
\* the trace is new, and its id has 64 bits.  Ids are random: here, the hop.
Child(result) ==
  LET hop == Len(sent) + 1
  IN IF result.kind = "context" THEN [result.out EXCEPT !.span = hop]
     ELSE [NoContext EXCEPT !.trace.low = hop, !.span = hop, !.sampled = TRUE]

\* A service: extract, start a span, inject.  Without forwarding its request
\* starts from no headers.  An injection stops when a call of Set fails.
Serve(modes, forward) ==
  LET c == Child(ExtractSpanContext(modes, carrier))
      calls == InjectSpanContext(modes, c)
  IN /\ Len(sent) <= MaxHops
     /\ \E made \in {calls} \cup {Until(calls, stop) : stop \in calls} :
          LET cut == made # calls
          IN /\ cut => faults < MaxFaults
             /\ carrier' = Written(IF forward THEN carrier ELSE Empty, made)
             /\ faults' = IF cut THEN faults + 1 ELSE faults
             /\ fresh' = (~forward /\ ~cut)
             /\ mixed' = (mixed \/ (forward /\ cut))
     /\ sent' = Append(sent, c)
     /\ lists' = Append(lists, modes)

Damage(headers) ==
  /\ faults < MaxFaults
  /\ carrier' = headers
  /\ faults' = faults + 1
  /\ fresh' = FALSE
  /\ UNCHANGED <<sent, lists, mixed>>

Lose(h) ==
  /\ h \in DOMAIN carrier
  /\ Damage([g \in DOMAIN carrier \ {h} |-> carrier[g]])

Garble(h) ==
  /\ h \in DOMAIN carrier /\ h[1] # "baggage" /\ h[2] # "state"
  /\ Damage([carrier EXCEPT ![h] = Corrupt])

Headers ==
  Multi \X {"trace", "span", "sampled"} \cup Single \X {"context"}
    \cup {<<"trace_context", "state">>, <<"baggage", BaggageKey>>}

PropagationNext ==
  \/ \E modes \in ModeLists, forward \in BOOLEAN : Serve(modes, forward)
  \/ \E h \in Headers : Lose(h) \/ Garble(h)

PropagationSpec == PropagationInit /\ [][PropagationNext]_propagationVars

-----------------------------------------------------------------------------
(* Properties: about what a service of any configuration would extract     *)
(* from the headers as they are.                                           *)

\* What a receiver understands of what a sender writes.
Common(sender, receiver) ==
  \E mode \in ToSet(sender) :
    \/ mode \in ToSet(receiver)
    \/ mode = "lightstep" /\ "envoy" \in ToSet(receiver)

\* Extraction undoes injection, for every pair of configurations: a service
\* finds a context exactly if it has a mode in common with the sender, whatever
\* the order of their modes, and then span, sampling decision and baggage are
\* the sender's; of the trace id the upper half may be missing, and the trace
\* state (propagation_test.cpp:68 tests it for one configuration at a time).
ExtractUndoesInject ==
  fresh => \A modes \in ModeLists :
    LET result == ExtractSpanContext(modes, carrier)
        c == Last(sent)
    IN /\ result.kind = IF Common(Last(lists), modes) THEN "context" ELSE "none"
       /\ result.kind = "context" =>
            /\ result.out.trace \in {c.trace, Low(c.trace)}
            /\ result.out.span = c.span
            /\ result.out.sampled = c.sampled
            /\ result.out.baggage = c.baggage
            /\ result.out.state \in {<<>>, c.state}

\* Headers may be lost, garbled, or left over from an earlier service, and an
\* injection into a new request may be cut short: the ids a service extracts are
\* still those of one and the same span, and a sampled span is not found
\* unsampled.  Only an injection cut short over older headers mixes two spans.
FromOneSpan ==
  ~mixed => \A modes \in ModeLists :
    LET result == ExtractSpanContext(modes, carrier)
    IN result.kind = "context" =>
         \E i \in DOMAIN sent :
           /\ result.out.trace \in {sent[i].trace, Low(sent[i].trace)}
           /\ result.out.span \in {sent[i].span, NoContext.span}
           /\ sent[i].sampled => result.out.sampled

\* As long as nothing is damaged and each service understands the one before
\* it, all belong to one trace with one sampling decision, also when headers are
\* forwarded past services that do not know them; and the trace id keeps its
\* 128 bits if no service uses a mode that has only 64.
OneTrace ==
  LET joined == \A i \in 2 .. Len(lists) : Common(lists[i - 1], lists[i])
      wide == \A i \in DOMAIN lists : ToSet(lists[i]) \cap {"lightstep", "envoy"} = {}
  IN faults = 0 /\ joined =>
       \A i \in DOMAIN sent :
         /\ Low(sent[i].trace) = Low(sent[1].trace)
         /\ sent[i].sampled = sent[1].sampled
         /\ wide => sent[i].trace = sent[1].trace

-----------------------------------------------------------------------------
(* What has to be true of a request on its way for all this to hold.       *)

SpanContexts == [trace : Traces, span : Nat, sampled : BOOLEAN,
                 baggage : Baggages, state : {<<>>, <<State>>}]

\* What the text of header h may denote.
Denotations(h) ==
  CASE h[1] = "baggage" -> {1}
    [] h[1] # "baggage" /\ h[2] = "trace" -> Traces \cup {Corrupt}
    [] h[1] # "baggage" /\ h[2] = "span" -> Nat \cup {Corrupt}
    [] h[1] # "baggage" /\ h[2] = "sampled" -> BOOLEAN \cup {Corrupt}
    [] h[1] # "baggage" /\ h[2] = "state" -> {<<State>>}
    [] h = <<"envoy", "context">> -> BinaryCarriers \cup {Corrupt}
    [] h = <<"trace_context", "context">> ->
         [trace : Traces, span : Nat, sampled : BOOLEAN] \cup {Corrupt}
    [] h = <<"cloud_trace", "context">> -> TraceParents \cup {Corrupt}

WellTyped(headers) ==
  /\ DOMAIN headers \subseteq Headers
  /\ \A h \in DOMAIN headers : headers[h] \in Denotations(h)

PropagationTypes ==
  /\ WellTyped(carrier)
  /\ sent \in Seq(SpanContexts) /\ lists \in Seq(ModeLists)
  /\ Len(sent) = Len(lists) /\ Len(sent) > 0
  /\ faults \in Nat /\ fresh \in BOOLEAN /\ mixed \in BOOLEAN

\* The trace id in this mode's headers.
TraceIn(mode, c) == IF mode \in {"lightstep", "envoy"} THEN Low(c.trace) ELSE c.trace

\* As far as the headers of this mode can be read they tell of the context c.
Tells(headers, mode, c) ==
  /\ <<mode, "trace">> \in DOMAIN headers =>
       headers[<<mode, "trace">>] \in {TraceIn(mode, c), Corrupt}
  /\ <<mode, "span">> \in DOMAIN headers => headers[<<mode, "span">>] \in {c.span, Corrupt}
  /\ <<mode, "sampled">> \in DOMAIN headers =>
       headers[<<mode, "sampled">>] \in {c.sampled, Corrupt}
  /\ <<mode, "context">> \in DOMAIN headers =>
       LET value == headers[<<mode, "context">>]
       IN \/ value = Corrupt
          \/ /\ value.trace = TraceIn(mode, c)
             /\ value.span \in {c.span, Missing}
             /\ value.sampled = c.sampled \/ (value.sampled = Missing /\ c.sampled)

\* Each mode's headers come from one span.
Sources == ~mixed => \A mode \in Modes : \E i \in DOMAIN sent : Tells(carrier, mode, sent[i])

\* Without a fault nothing of what was injected is missing.
Complete(headers, mode) ==
  IF mode \in Multi THEN {<<mode, "trace">>, <<mode, "span">>, <<mode, "sampled">>} \subseteq DOMAIN headers
                    ELSE <<mode, "context">> \in DOMAIN headers

Absent(headers, mode) ==
  {<<mode, "trace">>, <<mode, "span">>, <<mode, "context">>} \cap DOMAIN headers = {}

Undamaged ==
  faults = 0 =>
    /\ ~mixed
    /\ \A h \in DOMAIN carrier : carrier[h] # Corrupt
    /\ \A mode \in Modes : Complete(carrier, mode) \/ Absent(carrier, mode)
    /\ \A mode \in ToSet(Last(lists)) : Complete(carrier, mode)

\* All that a fresh request carries is what its sender injected.
Fresh == fresh => carrier = Written(Empty, InjectSpanContext(Last(lists), Last(sent)))

\* The inductive invariant.
PropagationInv == PropagationTypes /\ Sources /\ Undamaged /\ Fresh /\ OneTrace
=============================================================================
