-------------------------------- MODULE Spans --------------------------------
(***************************************************************************)
(* Spans shared by threads: Span (src/src/tracer/span.cpp) and LegacySpan  *)
(* (src/src/tracer/legacy/legacy_span.cpp).  A process may run tracers of  *)
(* both kinds, and a span may refer to spans of either kind or to a        *)
(* context extracted from a request (ImmutableSpanContext).  Every method  *)
(* takes the span's lock for its whole body, so it is one step; three      *)
(* calls are not: starting a span reads the flags and then the baggage of  *)
(* each reference in two critical sections, a LegacySpan is marked         *)
(* finished before its lock is taken, and a destructor takes no lock.      *)
(***************************************************************************)
EXTENDS Naturals, Sequences, FiniteSets

CONSTANTS Threads,      \* the application's threads
          Spans,        \* the spans they may start
          Legacy,       \* those a LegacyTracerImpl starts
          Remotes,      \* the extracted contexts, each of a trace of its own
          Keys, Values, \* baggage, keys in lower case
          None,         \* a null reference, or one of an unexpected type
          MaxWrites,    \* bound: writes of names, tags and logs to a span
          MaxReferences \* bound: the references of one StartSpan

ASSUME LegacyAssumption == Legacy \subseteq Spans
ASSUME NamesAssumption == /\ Spans \cap Remotes = {}
                          /\ None \notin Spans \cup Remotes
ASSUME BoundsAssumption == MaxWrites \in Nat /\ MaxReferences \in Nat

VARIABLES
  phase,    \* of each span: "unborn", "starting", "open", "destroyed"
  context,  \* what a span or a remote context propagates
  written,  \* how many writes each span's message has taken
  finished, \* is_finished_
  recorded, \* the messages given to the recorder, per span
  pc,       \* what each thread is in the middle of
  parents,  \* history: the valid references of each span, in order
  promised, \* history: baggage keys its references had when a start began
  decided   \* history: traces with more than one source of a sampling decision

spanVars == <<phase, context, written, finished, recorded, pc>>
vars == <<spanVars, parents, promised, decided>>

-----------------------------------------------------------------------------
(* Data. *)

Baggage == UNION {[K -> Values] : K \in SUBSET Keys}

\* FlatMap::insert_or_assign and operator[] of a protobuf map: the new value.
InsertOrAssign(baggage, items) ==
  [k \in DOMAIN baggage \cup DOMAIN items |->
     IF k \in DOMAIN items THEN items[k] ELSE baggage[k]]

\* insert of a protobuf map: a key that is there keeps its value.
Insert(baggage, items) == InsertOrAssign(items, baggage)

\* The separator is written before whatever follows, an empty state included.
AppendTraceState(state, other) ==
  IF state = <<>> THEN other ELSE state \o <<",">> \o other

Contexts == [trace : Spans \cup Remotes \cup {None}, sampled : BOOLEAN,
             baggage : Baggage, state : Seq(Remotes \cup {","})]

NewContext == [trace |-> None, sampled |-> FALSE, baggage |-> <<>>, state |-> <<>>]

Idle == [at |-> "idle", span |-> None, references |-> <<>>]

References == UNION {[1 .. n -> Spans \cup Remotes \cup {None}] : n \in 0 .. MaxReferences}

\* What FinishImpl serializes: the span as it is when it is recorded.
Report(s) == [baggage |-> context[s].baggage, written |-> written[s]]

Using(t, s) == pc[t].span = s \/ \E i \in DOMAIN pc[t].references : pc[t].references[i] = s

Open(s) == phase[s] = "open"

-----------------------------------------------------------------------------
RemoteContexts(r) ==
  [trace : {r}, sampled : BOOLEAN, baggage : Baggage, state : {<<>>, <<r>>}]

Init ==
  /\ phase = [s \in Spans |-> "unborn"]
  /\ \E remote \in [Remotes -> UNION {RemoteContexts(r) : r \in Remotes}] :
       /\ \A r \in Remotes : remote[r] \in RemoteContexts(r)
       /\ context = [x \in Spans \cup Remotes |->
                      IF x \in Spans THEN NewContext ELSE remote[x]]
  /\ written = [s \in Spans |-> 0]
  /\ finished = [s \in Spans |-> FALSE]
  /\ recorded = [s \in Spans |-> <<>>]
  /\ pc = [t \in Threads |-> Idle]
  /\ parents = [s \in Spans |-> <<>>]
  /\ promised = [s \in Spans |-> {}]
  /\ decided = {}

-----------------------------------------------------------------------------
(* StartSpanWithOptions: the constructor.                                  *)

\* The caller keeps what it refers to alive until the constructor returns.
Start(t, s, references) ==
  /\ pc[t] = Idle
  /\ phase[s] = "unborn"
  /\ \A i \in DOMAIN references : references[i] \in Spans => Open(references[i])
  /\ phase' = [phase EXCEPT ![s] = "starting"]
  /\ pc' = [pc EXCEPT ![t] = [at |-> "flags", span |-> s, references |-> references]]
  /\ promised' = [promised EXCEPT ![s] =
       UNION {DOMAIN context[references[i]].baggage :
                i \in {j \in DOMAIN references : references[j] # None}}]
  /\ UNCHANGED <<context, written, finished, recorded, parents, decided>>

NextReference(t) == [pc EXCEPT ![t].at = "flags", ![t].references = Tail(@)]

\* SetSpanReference warns and returns false: no reference is counted.
SkipReference(t) ==
  /\ pc[t].at = "flags" /\ pc[t].references # <<>>
  /\ Head(pc[t].references) = None
  /\ pc' = NextReference(t)
  /\ UNCHANGED <<phase, context, written, finished, recorded, parents, promised, decided>>

\* A mutant: every valid reference gives the trace, so the last one wins.
ReadFlagsLastTrace(t) ==
  LET s == pc[t].span
      p == Head(pc[t].references)
  IN /\ pc[t].at = "flags" /\ pc[t].references # <<>>
     /\ p # None
     /\ context' = [context EXCEPT
          ![s].trace = context[p].trace,
          ![s].sampled = @ \/ context[p].sampled,
          ![s].state = AppendTraceState(@, context[p].state)]
     /\ pc' = [pc EXCEPT ![t].at = "baggage"]
     /\ parents' = [parents EXCEPT ![s] = Append(@, p)]
     /\ decided' = IF parents[s] # <<>> /\ context[p].trace # context[s].trace
                   THEN decided \cup {context[s].trace} ELSE decided
     /\ UNCHANGED <<phase, written, finished, recorded, promised>>

\* trace_flags() of the reference takes its lock; its ids and its trace state
\* never change once it is open.  The first valid reference gives the trace.
ReadFlags(t) ==
  LET s == pc[t].span
      p == Head(pc[t].references)
  IN /\ pc[t].at = "flags" /\ pc[t].references # <<>>
     /\ p # None
     /\ context' = [context EXCEPT
          ![s].trace = IF parents[s] = <<>> THEN context[p].trace ELSE @,
          ![s].sampled = @ \/ context[p].sampled,
          ![s].state = AppendTraceState(@, context[p].state)]
     /\ pc' = [pc EXCEPT ![t].at = "baggage"]
     /\ parents' = [parents EXCEPT ![s] = Append(@, p)]
     /\ decided' = IF parents[s] # <<>> /\ context[p].trace # context[s].trace
                   THEN decided \cup {context[s].trace} ELSE decided
     /\ UNCHANGED <<phase, written, finished, recorded, promised>>

\* ForeachBaggageItem takes the reference's lock again.
ReadBaggage(t) ==
  LET s == pc[t].span
      p == Head(pc[t].references)
  IN /\ pc[t].at = "baggage"
     /\ context' = [context EXCEPT
          ![s].baggage = InsertOrAssign(@, context[p].baggage)]
     /\ pc' = NextReference(t)
     /\ UNCHANGED <<phase, written, finished, recorded, parents, promised, decided>>

\* A mutant: every span starts sampled, whatever its references say.
OpenedSampled(t, tags) ==
  LET s == pc[t].span
  IN /\ pc[t].at = "flags" /\ pc[t].references = <<>>
     /\ context' = [context EXCEPT
          ![s].trace = IF parents[s] = <<>> THEN s ELSE @,
          ![s].sampled = IF tags # {} THEN TRUE \in tags ELSE TRUE]
     /\ phase' = [phase EXCEPT ![s] = "open"]
     /\ pc' = [pc EXCEPT ![t] = Idle]
     /\ decided' = IF tags # {} THEN decided \cup {context'[s].trace} ELSE decided
     /\ UNCHANGED <<written, finished, recorded, parents, promised>>

\* Without a valid reference the span is the root of a trace and is sampled;
\* a sampling.priority among the tags overrides whatever was derived.
Opened(t, tags) ==
  LET s == pc[t].span
  IN /\ pc[t].at = "flags" /\ pc[t].references = <<>>
     /\ context' = [context EXCEPT
          ![s].trace = IF parents[s] = <<>> THEN s ELSE @,
          ![s].sampled = IF tags # {} THEN TRUE \in tags ELSE @ \/ parents[s] = <<>>]
     /\ phase' = [phase EXCEPT ![s] = "open"]
     /\ pc' = [pc EXCEPT ![t] = Idle]
     /\ decided' = IF tags # {} THEN decided \cup {context'[s].trace} ELSE decided
     /\ UNCHANGED <<written, finished, recorded, parents, promised>>

-----------------------------------------------------------------------------
(* The methods of a started span, one critical section each.               *)

\* A mutant: Span's methods do not look at is_finished_ either.
WritableFinished(s) == Open(s)

\* A Span refuses every change once it is finished; a LegacySpan never does.
Writable(s) == Open(s) /\ (s \in Legacy \/ ~finished[s])

\* SetOperationName, SetTag of any other key, Log.  Writes are counted: a name
\* replaces the one before in a LegacySpan, and follows it in a Span's message.
Write(t, s) ==
  /\ pc[t] = Idle /\ Writable(s)
  /\ written[s] < MaxWrites
  /\ written' = [written EXCEPT ![s] = @ + 1]
  /\ UNCHANGED <<phase, context, finished, recorded, pc, parents, promised, decided>>

\* SetTag of sampling.priority, which is written like any other tag.
SetSampling(t, s, sampled) ==
  /\ pc[t] = Idle /\ Writable(s)
  /\ written[s] < MaxWrites
  /\ written' = [written EXCEPT ![s] = @ + 1]
  /\ context' = [context EXCEPT ![s].sampled = sampled]
  /\ decided' = decided \cup {context[s].trace}
  /\ UNCHANGED <<phase, finished, recorded, pc, parents, promised>>

SetBaggageItem(t, s, k, v) ==
  LET item == [x \in {k} |-> v]
  IN /\ pc[t] = Idle /\ Writable(s)
     /\ context' = [context EXCEPT ![s].baggage =
          IF s \in Legacy THEN Insert(@, item) ELSE InsertOrAssign(@, item)]
     /\ UNCHANGED <<phase, written, finished, recorded, pc, parents, promised, decided>>

\* The end of FinishWithOptions: an unsampled span is dropped without a trace.
RecordIfSampled(s) ==
  recorded' = IF context[s].sampled
              THEN [recorded EXCEPT ![s] = Append(@, Report(s))] ELSE recorded

\* Span::FinishWithOptions: the exchange and the recording under one lock.
Finish(t, s) ==
  /\ pc[t] = Idle /\ Open(s) /\ s \notin Legacy
  /\ ~finished[s]
  /\ finished' = [finished EXCEPT ![s] = TRUE]
  /\ RecordIfSampled(s)
  /\ UNCHANGED <<phase, context, written, pc, parents, promised, decided>>

\* A mutant: the result of the exchange is not looked at.
FinishLegacyAgain(t, s) ==
  /\ pc[t] = Idle /\ Open(s) /\ s \in Legacy
  /\ finished' = [finished EXCEPT ![s] = TRUE]
  /\ pc' = [pc EXCEPT ![t] = [Idle EXCEPT !.at = "record", !.span = s]]
  /\ UNCHANGED <<phase, context, written, recorded, parents, promised, decided>>

\* LegacySpan::FinishWithOptions: the exchange, before the lock.
FinishLegacy(t, s) ==
  /\ pc[t] = Idle /\ Open(s) /\ s \in Legacy
  /\ ~finished[s]
  /\ finished' = [finished EXCEPT ![s] = TRUE]
  /\ pc' = [pc EXCEPT ![t] = [Idle EXCEPT !.at = "record", !.span = s]]
  /\ UNCHANGED <<phase, context, written, recorded, parents, promised, decided>>

\* ... and the rest of it, under the lock.
RecordLegacy(t) ==
  /\ pc[t].at = "record"
  /\ RecordIfSampled(pc[t].span)
  /\ pc' = [pc EXCEPT ![t] = Idle]
  /\ UNCHANGED <<phase, context, written, finished, parents, promised, decided>>

\* The destructor: the last owner is gone, so no other thread is in a method
\* of the span or refers to it.  An unfinished span is finished here.
Destroy(t, s) ==
  /\ pc[t] = Idle /\ Open(s)
  /\ \A u \in Threads : ~Using(u, s)
  /\ phase' = [phase EXCEPT ![s] = "destroyed"]
  /\ finished' = [finished EXCEPT ![s] = TRUE]
  /\ IF finished[s] THEN UNCHANGED recorded ELSE RecordIfSampled(s)
  /\ UNCHANGED <<context, written, pc, parents, promised, decided>>

-----------------------------------------------------------------------------
Starting(t) ==
  \/ \E s \in Spans, references \in References : Start(t, s, references)
  \/ SkipReference(t)
  \/ ReadFlags(t)
  \/ ReadBaggage(t)
  \/ \E tags \in SUBSET BOOLEAN : Cardinality(tags) < 2 /\ Opened(t, tags)

Changing(t) ==
  \E s \in Spans :
    \/ Write(t, s)
    \/ \E sampled \in BOOLEAN : SetSampling(t, s, sampled)
    \/ \E k \in Keys, v \in Values : SetBaggageItem(t, s, k, v)

Finishing(t) ==
  \/ \E s \in Spans : Finish(t, s) \/ FinishLegacy(t, s) \/ Destroy(t, s)
  \/ RecordLegacy(t)

Next == \E t \in Threads : Starting(t) \/ Changing(t) \/ Finishing(t)

Spec == Init /\ [][Next]_vars

-----------------------------------------------------------------------------
(* Properties.                                                             *)

Pcs == [at : {"idle"}, span : {None}, references : {<<>>}]
         \cup [at : {"flags", "baggage"}, span : Spans,
               references : Seq(Spans \cup Remotes \cup {None})]
         \cup [at : {"record"}, span : Legacy, references : {<<>>}]

Reports == [baggage : Baggage, written : Nat]

\* Every variable has its type.
TypeOK ==
  /\ phase \in [Spans -> {"unborn", "starting", "open", "destroyed"}]
  /\ context \in [Spans \cup Remotes -> Contexts]
  /\ written \in [Spans -> Nat]
  /\ finished \in [Spans -> BOOLEAN]
  /\ recorded \in [Spans -> Seq(Reports)]
  /\ pc \in [Threads -> Pcs]
  /\ parents \in [Spans -> Seq(Spans \cup Remotes)]
  /\ promised \in [Spans -> SUBSET Keys]
  /\ decided \subseteq Spans \cup Remotes \cup {None}

\* A thread works on a span in the phase its step belongs to, alone where it
\* has to be: one constructor per span, and one recorder per finished span.
OneOwner ==
  /\ \A t \in Threads : pc[t].at \in {"flags", "baggage"} => phase[pc[t].span] = "starting"
  /\ \A t \in Threads : pc[t].at = "baggage" =>
       pc[t].references # <<>> /\ Head(pc[t].references) # None
  /\ \A t \in Threads : pc[t].at = "record" =>
       /\ finished[pc[t].span] /\ Open(pc[t].span)
       /\ recorded[pc[t].span] = <<>>
  /\ \A t, u \in Threads : pc[t].span = pc[u].span /\ pc[t].span # None => t = u
  /\ \A s \in Spans : phase[s] \in {"unborn", "starting"} => ~finished[s]
  /\ \A s \in Spans : phase[s] = "destroyed" => finished[s]

\* span.cpp:234 and legacy_span.cpp:94, "Ensure the span is only finished
\* once": whoever finishes or destroys it, it reaches the recorder at most once
\* and never before it is finished.
RecordedOnce ==
  \A s \in Spans : /\ Len(recorded[s]) <= 1
                   /\ recorded[s] # <<>> => finished[s]

\* As soon as any call has finished a Span, its report is with the recorder,
\* exactly if it is sampled, and nothing about the span differs from the report
\* ever after: no tag, baggage or sampling decision arrives too late.
ReportIsFinal ==
  \A s \in Spans \ Legacy : finished[s] =>
    recorded[s] = IF context[s].sampled THEN <<Report(s)>> ELSE <<>>

\* A LegacySpan goes on taking writes after it was recorded: what was reported is
\* made of the first of its writes, and of baggage that the span still holds.
\* (Tags and logs it holds too; of names it holds the last, legacy_span.cpp:137.)
ReportIsPart ==
  \A s \in Legacy : recorded[s] # <<>> =>
    LET report == Head(recorded[s])
    IN /\ report.written <= written[s]
       /\ \A k \in DOMAIN report.baggage :
            /\ k \in DOMAIN context[s].baggage
            /\ context[s].baggage[k] = report.baggage[k]

ReportsAreFaithful == ReportIsFinal /\ ReportIsPart

\* A started span belongs to the trace of its first valid reference, or starts
\* one, whatever invalid references come before it; it has every baggage key its
\* references had when the start began and every member of their trace states,
\* although other threads change the references meanwhile.
Inherits ==
  \A s \in Spans : phase[s] \in {"open", "destroyed"} =>
    /\ context[s].trace = IF parents[s] = <<>> THEN s
                          ELSE context[Head(parents[s])].trace
    /\ promised[s] \subseteq DOMAIN context[s].baggage
    /\ \A i \in DOMAIN parents[s] : \A j \in DOMAIN context[parents[s][i]].state :
         \E k \in DOMAIN context[s].state :
           context[s].state[k] = context[parents[s][i]].state[j]

\* All the spans of a trace carry one sampling decision, unless a
\* sampling.priority tag or a reference into another trace brought a second
\* one: a trace is recorded whole or not at all.
OneDecision ==
  \A x, y \in {s \in Spans : phase[s] \in {"open", "destroyed"}} \cup Remotes :
    context[x].trace = context[y].trace /\ context[x].trace \notin decided =>
      context[x].sampled = context[y].sampled

-----------------------------------------------------------------------------
(* What has to be true of a span while its constructor runs.               *)

\* The constructor of x has returned, here or in another process.
Settled(x) == x \in Remotes \/ phase[x] \in {"open", "destroyed"}

\* A reference is alive until a constructor has read it, and what has been read
\* of a parent is what the parent has for good.
ReferencesLive ==
  /\ \A t \in Threads : \A i \in DOMAIN pc[t].references :
       pc[t].references[i] # None =>
         pc[t].references[i] \in Remotes \/ Open(pc[t].references[i])
  /\ \A s \in Spans : \A i \in DOMAIN parents[s] : Settled(parents[s][i])
  /\ \A s \in Spans : phase[s] = "unborn" => parents[s] = <<>>

\* Whatever its constructor has read so far is inherited.
InheritsSoFar ==
  \A s \in Spans :
    /\ parents[s] # <<>> => context[s].trace = context[Head(parents[s])].trace
    /\ \A i \in DOMAIN parents[s] : \A j \in DOMAIN context[parents[s][i]].state :
         \E k \in DOMAIN context[s].state :
           context[s].state[k] = context[parents[s][i]].state[j]

\* A promised key is there, or with a reference that is still to be read.
PromisesKept ==
  /\ \A s \in Spans : Settled(s) => promised[s] \subseteq DOMAIN context[s].baggage
  /\ \A t \in Threads : pc[t].at \in {"flags", "baggage"} =>
       \A k \in promised[pc[t].span] :
         \/ k \in DOMAIN context[pc[t].span].baggage
         \/ \E i \in DOMAIN pc[t].references :
              /\ pc[t].references[i] # None
              /\ k \in DOMAIN context[pc[t].references[i]].baggage

\* What belongs to a trace: a span as soon as it has read a reference's ids.
HasTrace(x) == Settled(x) \/ parents[x] # <<>>

\* A trace is named after its root, which was started before the others.
TracesRooted ==
  /\ \A r \in Remotes : context[r].trace = r
  /\ \A s \in Spans : Settled(s) /\ parents[s] = <<>> => context[s].trace = s
  /\ \A x \in Spans \cup Remotes : HasTrace(x) =>
       context[x].trace # None /\ Settled(context[x].trace)

\* A span agrees with its trace already while its constructor runs.
DecidedSoFar ==
  /\ \A x, y \in Spans \cup Remotes :
       HasTrace(x) /\ HasTrace(y) /\ context[x].trace = context[y].trace
         /\ context[x].trace \notin decided =>
       context[x].sampled = context[y].sampled
  /\ \A s \in Spans : ~HasTrace(s) => context[s].sampled = FALSE

\* The inductive invariant.
IndInv ==
  /\ TypeOK
  /\ OneOwner
  /\ RecordedOnce
  /\ ReportsAreFaithful
  /\ ReferencesLive
  /\ InheritsSoFar
  /\ PromisesKept
  /\ TracesRooted
  /\ DecidedSoFar
=============================================================================
