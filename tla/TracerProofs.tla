----------------------------- MODULE TracerProofs -----------------------------
(***************************************************************************)
(* Proofs about the tracer's spans and about the contexts it propagates:   *)
(* about Spans, for any threads, spans, extracted contexts and baggage,    *)
(* and about Propagation, for any lists of modes, any number of services   *)
(* and any number of faults.                                               *)
(*                                                                         *)
(* The loop over the extractors is a recursive function.  What is proved   *)
(* of it goes by least elements: a set of numbers that is not empty has    *)
(* one (WFMin), so a set that holds 0 and each successor holds all.        *)
(***************************************************************************)
EXTENDS Spans, Propagation, SequenceTheorems, WellFoundedInduction, TLAPS

-----------------------------------------------------------------------------
(* The data of Spans.                                                      *)

LEMMA EmptyBaggage == <<>> \in Baggage /\ DOMAIN <<>> = {}
<1>1. <<>> \in Seq(Values) /\ Len(<<>>) = 0
  BY EmptySeq
<1>2. <<>> \in [1..0 -> Values]
  BY <1>1, LenProperties
<1>3. 1..0 = {}
  OBVIOUS
<1>4. <<>> \in [{} -> Values] /\ DOMAIN <<>> = {}
  BY <1>2, <1>3
<1> QED BY <1>4 DEF Baggage

\* A key that is given keeps or gets a value, and the others keep theirs.
LEMMA InsertOrAssignBaggage ==
  ASSUME NEW b \in Baggage, NEW items \in Baggage,
         NEW c, c = InsertOrAssign(b, items)
  PROVE  /\ c \in Baggage
         /\ DOMAIN c = DOMAIN b \cup DOMAIN items
<1>1. PICK K \in SUBSET Keys : b \in [K -> Values]
  BY DEF Baggage
<1>2. PICK L \in SUBSET Keys : items \in [L -> Values]
  BY DEF Baggage
<1>3. c = [k \in K \cup L |-> IF k \in L THEN items[k] ELSE b[k]]
  BY <1>1, <1>2 DEF InsertOrAssign
<1>4. c \in [K \cup L -> Values]
  BY <1>1, <1>2, <1>3
<1>5. K \cup L \in SUBSET Keys
  BY <1>1, <1>2
<1> QED BY <1>1, <1>2, <1>4, <1>5 DEF Baggage

\* What was there keeps its value.
Preserves(c, b) == \A k \in DOMAIN b : c[k] = b[k]

LEMMA InsertBaggage ==
  ASSUME NEW b \in Baggage, NEW items \in Baggage, NEW c, c = Insert(b, items)
  PROVE  /\ c \in Baggage
         /\ DOMAIN c = DOMAIN b \cup DOMAIN items
         /\ Preserves(c, b)
<1>1. c = InsertOrAssign(items, b)
  BY DEF Insert
<1>2. c \in Baggage /\ DOMAIN c = DOMAIN items \cup DOMAIN b
  BY <1>1, InsertOrAssignBaggage
<1>3. Preserves(c, b)
  BY <1>1 DEF InsertOrAssign, Preserves
<1> QED BY <1>2, <1>3

LEMMA ItemBaggage ==
  ASSUME NEW k \in Keys, NEW v \in Values
  PROVE  [x \in {k} |-> v] \in Baggage
<1>1. [x \in {k} |-> v] \in [{k} -> Values]
  OBVIOUS
<1>2. {k} \in SUBSET Keys
  OBVIOUS
<1> QED BY <1>1, <1>2 DEF Baggage

LEMMA SingletonSeq ==
  ASSUME NEW S, NEW e \in S
  PROVE  <<e>> \in Seq(S)
  OBVIOUS

\* The states, and what it means that c holds all that b does.
Members == Remotes \cup {","}
States == Seq(Members)
Holds(c, b) == \A j \in DOMAIN b : \E k \in DOMAIN c : c[k] = b[j]

LEMMA HoldsTransitive ==
  ASSUME NEW a, NEW b, NEW c, Holds(a, b), Holds(b, c)
  PROVE  Holds(a, c)
<1> SUFFICES ASSUME NEW j \in DOMAIN c
             PROVE  \E k \in DOMAIN a : a[k] = c[j]
  BY DEF Holds
<1>1. PICK i \in DOMAIN b : b[i] = c[j]
  BY DEF Holds
<1> QED BY <1>1 DEF Holds

LEMMA ConcatHolds ==
  ASSUME NEW a \in States, NEW b \in States, NEW c, c = a \o b
  PROVE  c \in States /\ Holds(c, a) /\ Holds(c, b)
<1>1. /\ c \in Seq(Members) /\ Len(c) = Len(a) + Len(b)
      /\ \A i \in 1..(Len(a) + Len(b)) :
           c[i] = IF i <= Len(a) THEN a[i] ELSE b[i - Len(a)]
  BY ConcatProperties DEF States
<1>2. /\ Len(a) \in Nat /\ DOMAIN a = 1..Len(a)
      /\ Len(b) \in Nat /\ DOMAIN b = 1..Len(b)
      /\ Len(c) \in Nat /\ DOMAIN c = 1..Len(c)
  BY <1>1, LenProperties DEF States
<1>3. ASSUME NEW j \in DOMAIN a
      PROVE  \E k \in DOMAIN c : c[k] = a[j]
  <2>1. j \in 1..(Len(a) + Len(b)) /\ j <= Len(a) /\ j \in DOMAIN c
    BY <1>1, <1>2
  <2> QED BY <1>1, <2>1
<1>4. ASSUME NEW j \in DOMAIN b
      PROVE  \E k \in DOMAIN c : c[k] = b[j]
  <2> DEFINE k == Len(a) + j
  <2>1. k \in 1..(Len(a) + Len(b)) /\ ~(k <= Len(a)) /\ k \in DOMAIN c
        /\ k - Len(a) = j
    BY <1>1, <1>2
  <2> HIDE DEF k
  <2> QED BY <1>1, <2>1
<1> QED BY <1>1, <1>3, <1>4 DEF States, Holds

\* Nothing of the two states is lost.
LEMMA AppendTraceStateHolds ==
  ASSUME NEW a \in States, NEW b \in States, NEW c, c = AppendTraceState(a, b)
  PROVE  c \in States /\ Holds(c, a) /\ Holds(c, b)
<1>1. CASE a = <<>>
  BY <1>1 DEF AppendTraceState, Holds
<1>2. CASE a # <<>>
  <2> DEFINE e == <<",">>
             d == a \o e
  <2>1. e \in States
    <3>1. "," \in Members
      BY DEF Members
    <3> QED BY <3>1, SingletonSeq DEF States
  <2>2. c = d \o b
    BY <1>2 DEF AppendTraceState
  <2> HIDE DEF e
  <2>3. d \in States /\ Holds(d, a)
    BY <2>1, ConcatHolds
  <2> HIDE DEF d
  <2>4. c \in States /\ Holds(c, d) /\ Holds(c, b)
    BY <2>2, <2>3, ConcatHolds
  <2> QED BY <2>3, <2>4, HoldsTransitive
<1> QED BY <1>1, <1>2

-----------------------------------------------------------------------------
(* The types of what a thread is in the middle of, and of contexts.        *)

Refs == Spans \cup Remotes \cup {None}

LEMMA PcTypes ==
  ASSUME TypeOK, NEW t \in Threads
  PROVE  /\ pc[t].at \in {"idle", "flags", "baggage", "record"}
         /\ pc[t].at = "idle" => pc[t] = Idle /\ pc[t].span = None
         /\ pc[t].at \in {"flags", "baggage"} =>
              pc[t].span \in Spans /\ pc[t].references \in Seq(Refs)
         /\ pc[t].at = "record" => pc[t].span \in Legacy
         /\ pc[t].at \in {"idle", "record"} => pc[t].references = <<>>
<1>1. pc[t] \in Pcs
  BY DEF TypeOK
<1> QED BY <1>1 DEF Pcs, Idle, Refs

LEMMA IdleFields ==
  Idle.at = "idle" /\ Idle.span = None /\ Idle.references = <<>> /\ Idle \in Pcs
  BY DEF Idle, Pcs

LEMMA ContextTypes ==
  ASSUME TypeOK, NEW x \in Spans \cup Remotes
  PROVE  /\ context[x].trace \in Refs /\ context[x].sampled \in BOOLEAN
         /\ context[x].baggage \in Baggage /\ context[x].state \in States
  BY DEF TypeOK, Contexts, Refs, States, Members

LEMMA ReportTypes ==
  ASSUME TypeOK, NEW s \in Spans
  PROVE  /\ Report(s) \in Reports
         /\ Report(s).baggage = context[s].baggage /\ Report(s).written = written[s]
<1>1. context[s].baggage \in Baggage /\ written[s] \in Nat
  BY ContextTypes DEF TypeOK
<1> QED BY <1>1 DEF Report, Reports

\* The head of a sequence, and the sequence without it or with one more.
LEMMA AppendHead ==
  ASSUME NEW S, NEW q \in Seq(S), NEW e \in S, NEW r, r = Append(q, e)
  PROVE  /\ r \in Seq(S) /\ r # <<>>
         /\ Head(r) = IF q = <<>> THEN e ELSE Head(q)
         /\ \A i \in DOMAIN r : (i \in DOMAIN q /\ r[i] = q[i]) \/ r[i] = e
<1>1. /\ r \in Seq(S) /\ Len(r) = Len(q) + 1 /\ r # <<>>
      /\ \A i \in 1..Len(q) : r[i] = q[i]
      /\ r[Len(q) + 1] = e
  BY AppendProperties
<1>2. Len(q) \in Nat /\ DOMAIN q = 1..Len(q) /\ DOMAIN r = 1..Len(r)
  BY <1>1, LenProperties
<1>3. Head(r) = IF q = <<>> THEN e ELSE Head(q)
  <2>1. CASE q = <<>>
    BY <1>1, <2>1
  <2>2. CASE q # <<>>
    <3>1. Len(q) >= 1
      BY <1>2, <2>2, EmptySeq
    <3> QED BY <1>1, <1>2, <2>2, <3>1
  <2> QED BY <2>1, <2>2
<1>4. ASSUME NEW i \in DOMAIN r
      PROVE  (i \in DOMAIN q /\ r[i] = q[i]) \/ r[i] = e
  BY <1>1, <1>2, <1>4
<1> QED BY <1>1, <1>3, <1>4

LEMMA TailProperties ==
  ASSUME NEW S, NEW q \in Seq(S), q # <<>>
  PROVE  /\ Head(q) \in S /\ Tail(q) \in Seq(S)
         /\ 1 \in DOMAIN q /\ q[1] = Head(q)
         /\ \A i \in DOMAIN Tail(q) : i + 1 \in DOMAIN q /\ Tail(q)[i] = q[i + 1]
         /\ \A i \in DOMAIN q : i # 1 => i - 1 \in DOMAIN Tail(q) /\ Tail(q)[i - 1] = q[i]
<1>1. /\ Head(q) \in S /\ Tail(q) \in Seq(S) /\ Len(Tail(q)) = Len(q) - 1
      /\ \A i \in 1..Len(Tail(q)) : Tail(q)[i] = q[i + 1]
  BY HeadTailProperties
<1>2. Len(q) \in Nat \ {0} /\ DOMAIN q = 1..Len(q) /\ DOMAIN Tail(q) = 1..Len(Tail(q))
  BY <1>1, LenProperties, EmptySeq
<1>3. \A i \in DOMAIN Tail(q) : i + 1 \in DOMAIN q /\ Tail(q)[i] = q[i + 1]
  BY <1>1, <1>2
<1>4. ASSUME NEW i \in DOMAIN q, i # 1
      PROVE  i - 1 \in DOMAIN Tail(q) /\ Tail(q)[i - 1] = q[i]
  <2>1. i \in Int /\ i - 1 \in 1..Len(Tail(q)) /\ (i - 1) + 1 = i
    BY <1>1, <1>2, <1>4
  <2> QED BY <1>1, <1>2, <2>1
<1>5. 1 \in DOMAIN q /\ q[1] = Head(q)
  BY <1>2
<1> QED BY <1>1, <1>3, <1>4, <1>5

-----------------------------------------------------------------------------
(* The invariant in two halves: what the constructors build, and what is   *)
(* recorded.                                                               *)

Construction ==
  ReferencesLive /\ InheritsSoFar /\ PromisesKept /\ TracesRooted /\ DecidedSoFar

Recording == OneOwner /\ RecordedOnce /\ ReportsAreFaithful

LEMMA IndInvHalves == IndInv <=> TypeOK /\ Construction /\ Recording
  BY DEF IndInv, Construction, Recording

\* A step that leaves the constructors alone.
LEMMA ConstructionKept ==
  ASSUME Construction, UNCHANGED <<phase, context, parents, promised, decided>>,
         \A t \in Threads :
           /\ pc'[t].references = pc[t].references
           /\ pc'[t].at \in {"flags", "baggage"} =>
                pc[t].at \in {"flags", "baggage"} /\ pc'[t].span = pc[t].span
  PROVE  Construction'
<1>1. ReferencesLive'
  BY DEF Construction, ReferencesLive, Open, Settled
<1>2. InheritsSoFar'
  BY DEF Construction, InheritsSoFar
<1>3. PromisesKept'
  BY DEF Construction, PromisesKept, Settled
<1>4. TracesRooted' /\ DecidedSoFar'
  BY DEF Construction, TracesRooted, DecidedSoFar, HasTrace, Settled
<1> QED BY <1>1, <1>2, <1>3, <1>4 DEF Construction

\* A step that records nothing, and changes no span that may be recorded.
LEMMA RecordingKept ==
  ASSUME TypeOK, Recording, UNCHANGED <<written, finished, recorded>>, OneOwner',
         \A s \in Spans : finished[s] => context'[s] = context[s]
  PROVE  Recording'
<1>1. RecordedOnce'
  BY DEF Recording, RecordedOnce
<1>2. ReportIsFinal'
  BY DEF Recording, ReportsAreFaithful, ReportIsFinal, Report
<1>3. ReportIsPart'
  <2> SUFFICES ASSUME NEW s \in Legacy, recorded[s] # <<>>
               PROVE  /\ Head(recorded[s]).written <= written[s]
                      /\ \A k \in DOMAIN Head(recorded[s]).baggage :
                           /\ k \in DOMAIN context'[s].baggage
                           /\ context'[s].baggage[k] = Head(recorded[s]).baggage[k]
    BY DEF ReportIsPart
  <2>1. s \in Spans
    BY LegacyAssumption
  <2>2. finished[s]
    BY <2>1 DEF Recording, RecordedOnce
  <2>3. context'[s] = context[s]
    BY <2>1, <2>2
  <2> QED BY <2>3 DEF Recording, ReportsAreFaithful, ReportIsPart
<1> QED BY <1>1, <1>2, <1>3 DEF Recording, ReportsAreFaithful

-----------------------------------------------------------------------------
(* The methods of a started span.                                          *)

\* What the parents and the references are.
LEMMA ParentTypes ==
  ASSUME TypeOK, NEW s \in Spans
  PROVE  /\ parents[s] \in Seq(Spans \cup Remotes)
         /\ \A i \in DOMAIN parents[s] : parents[s][i] \in Spans \cup Remotes
         /\ parents[s] # <<>> => Head(parents[s]) \in Spans \cup Remotes
<1>1. parents[s] \in Seq(Spans \cup Remotes)
  BY DEF TypeOK
<1> QED BY <1>1, HeadTailProperties, ElementOfSeq, LenProperties

LEMMA ReferenceTypes ==
  ASSUME TypeOK, NEW t \in Threads, NEW i \in DOMAIN pc[t].references,
         pc[t].references[i] # None
  PROVE  pc[t].references[i] \in Spans \cup Remotes
<1>1. pc[t].references \in Seq(Refs)
  <2>1. <<>> \in Seq(Refs)
    BY EmptySeq
  <2> QED BY <2>1, PcTypes
<1>2. pc[t].references[i] \in Refs
  BY <1>1, ElementOfSeq, LenProperties
<1> QED BY <1>2 DEF Refs

\* What the methods of s have in common: they only add to it, until a Span is
\* finished, and a sampling decision they bring is known.
LEMMA MethodKeeps ==
  ASSUME TypeOK, Construction, Recording, NEW s \in Spans, Writable(s),
         UNCHANGED <<phase, finished, recorded, pc, parents, promised>>,
         written' \in [Spans -> Nat],
         \A x \in Spans : /\ written[x] <= written'[x]
                          /\ x # s => written'[x] = written[x],
         context' \in [Spans \cup Remotes -> Contexts],
         \A x \in Spans \cup Remotes :
           /\ x # s => context'[x] = context[x]
           /\ context'[x].trace = context[x].trace
           /\ context'[x].state = context[x].state
           /\ DOMAIN context[x].baggage \subseteq DOMAIN context'[x].baggage,
         s \in Legacy => \A k \in DOMAIN context[s].baggage :
                           context'[s].baggage[k] = context[s].baggage[k],
         decided \subseteq decided', decided' \subseteq Spans \cup Remotes \cup {None},
         context'[s].sampled = context[s].sampled \/ context[s].trace \in decided'
  PROVE  TypeOK' /\ Construction' /\ Recording'
<1>1. Open(s) /\ (s \in Legacy \/ finished[s] = FALSE)
  BY DEF Writable, TypeOK
<1>2. TypeOK'
  BY DEF TypeOK
<1>3. ReferencesLive'
  BY DEF Construction, ReferencesLive, Open, Settled
<1>4. InheritsSoFar'
  <2> SUFFICES ASSUME NEW x \in Spans
               PROVE  /\ parents[x] # <<>> =>
                           context'[x].trace = context'[Head(parents[x])].trace
                      /\ \A i \in DOMAIN parents[x] :
                           \A j \in DOMAIN context'[parents[x][i]].state :
                             \E k \in DOMAIN context'[x].state :
                               context'[x].state[k] = context'[parents[x][i]].state[j]
    BY DEF InheritsSoFar
  <2>1. /\ context'[x].trace = context[x].trace
        /\ context'[x].state = context[x].state
        /\ parents[x] # <<>> =>
             context'[Head(parents[x])].trace = context[Head(parents[x])].trace
        /\ \A i \in DOMAIN parents[x] :
             context'[parents[x][i]].state = context[parents[x][i]].state
    BY ParentTypes
  <2>2. parents[x] # <<>> => context[x].trace = context[Head(parents[x])].trace
    BY DEF Construction, InheritsSoFar
  <2>3. \A i \in DOMAIN parents[x] : Holds(context[x].state, context[parents[x][i]].state)
    BY DEF Construction, InheritsSoFar, Holds
  <2>4. \A i \in DOMAIN parents[x] : Holds(context'[x].state, context'[parents[x][i]].state)
    BY <2>1, <2>3
  <2> QED BY <2>1, <2>2, <2>4 DEF Holds
<1>5. PromisesKept'
  <2>1. \A x \in Spans : Settled(x) => promised'[x] \subseteq DOMAIN context'[x].baggage
    BY DEF Construction, PromisesKept, Settled
  <2>2. ASSUME NEW t \in Threads, pc[t].at \in {"flags", "baggage"},
               NEW k \in promised[pc[t].span]
        PROVE  \/ k \in DOMAIN context'[pc[t].span].baggage
               \/ \E i \in DOMAIN pc[t].references :
                    /\ pc[t].references[i] # None
                    /\ k \in DOMAIN context'[pc[t].references[i]].baggage
    <3>1. pc[t].span \in Spans
      BY <2>2, PcTypes
    <3>2. CASE k \in DOMAIN context[pc[t].span].baggage
      BY <3>1, <3>2
    <3>3. CASE k \notin DOMAIN context[pc[t].span].baggage
      <4>1. PICK i \in DOMAIN pc[t].references :
              /\ pc[t].references[i] # None
              /\ k \in DOMAIN context[pc[t].references[i]].baggage
        BY <2>2, <3>3 DEF Construction, PromisesKept
      <4> QED BY <4>1, ReferenceTypes
    <3> QED BY <3>2, <3>3
  <2> QED BY <2>1, <2>2 DEF PromisesKept, Settled
<1>6. TracesRooted'
  BY DEF Construction, TracesRooted, HasTrace, Settled
<1>7. DecidedSoFar'
  BY <1>1 DEF Construction, DecidedSoFar, HasTrace, Settled, Open
<1>8. OneOwner' /\ RecordedOnce'
  BY DEF Recording, OneOwner, RecordedOnce, Open
<1>9. ReportIsFinal'
  BY <1>1 DEF Recording, ReportsAreFaithful, ReportIsFinal, Report
<1>10. ReportIsPart'
  <2> SUFFICES ASSUME NEW x \in Legacy, recorded[x] # <<>>
               PROVE  /\ Head(recorded[x]).written <= written'[x]
                      /\ \A k \in DOMAIN Head(recorded[x]).baggage :
                           /\ k \in DOMAIN context'[x].baggage
                           /\ context'[x].baggage[k] = Head(recorded[x]).baggage[k]
    BY DEF ReportIsPart
  <2>1. /\ x \in Spans /\ written[x] \in Nat /\ written'[x] \in Nat
        /\ written[x] <= written'[x] /\ recorded[x] \in Seq(Reports)
    BY LegacyAssumption DEF TypeOK
  <2>2. Head(recorded[x]) \in Reports
    BY <2>1, HeadTailProperties
  <2>3. Head(recorded[x]).written \in Nat
    BY <2>2 DEF Reports
  <2>4. /\ Head(recorded[x]).written <= written[x]
        /\ \A k \in DOMAIN Head(recorded[x]).baggage :
             /\ k \in DOMAIN context[x].baggage
             /\ context[x].baggage[k] = Head(recorded[x]).baggage[k]
    BY DEF Recording, ReportsAreFaithful, ReportIsPart
  <2>5. \A k \in DOMAIN context[x].baggage :
          /\ k \in DOMAIN context'[x].baggage
          /\ context'[x].baggage[k] = context[x].baggage[k]
    BY <2>1
  <2> QED BY <2>1, <2>3, <2>4, <2>5
<1> QED BY <1>2, <1>3, <1>4, <1>5, <1>6, <1>7, <1>8, <1>9, <1>10
        DEF Construction, Recording, ReportsAreFaithful

LEMMA WriteKeeps ==
  ASSUME TypeOK, Construction, Recording, NEW t \in Threads, NEW s \in Spans,
         Write(t, s)
  PROVE  TypeOK' /\ Construction' /\ Recording'
<1>1. /\ written' \in [Spans -> Nat]
      /\ \A x \in Spans : /\ written[x] <= written'[x]
                          /\ x # s => written'[x] = written[x]
  BY DEF TypeOK, Write
<1> QED BY <1>1, MethodKeeps DEF Write, TypeOK

\* The trace of s gets a decision, and nothing else of s changes.
LEMMA SetSamplingKeeps ==
  ASSUME TypeOK, Construction, Recording, NEW t \in Threads, NEW s \in Spans,
         NEW sampled \in BOOLEAN, SetSampling(t, s, sampled)
  PROVE  TypeOK' /\ Construction' /\ Recording'
<1>1. /\ context' = [context EXCEPT ![s].sampled = sampled]
      /\ written' = [written EXCEPT ![s] = @ + 1]
      /\ decided' = decided \cup {context[s].trace}
      /\ UNCHANGED <<phase, finished, recorded, pc, parents, promised>>
      /\ Writable(s)
  BY DEF SetSampling
<1>2. /\ context' \in [Spans \cup Remotes -> Contexts]
      /\ \A x \in Spans \cup Remotes :
           /\ x # s => context'[x] = context[x]
           /\ context'[x].trace = context[x].trace
           /\ context'[x].baggage = context[x].baggage
           /\ context'[x].state = context[x].state
  <2> DEFINE r == [context[s] EXCEPT !.sampled = sampled]
  <2>1. context[s] \in Contexts
    BY DEF TypeOK
  <2>2. /\ r \in Contexts /\ r.trace = context[s].trace
        /\ r.baggage = context[s].baggage /\ r.state = context[s].state
    BY <2>1 DEF Contexts
  <2>3. context' = [context EXCEPT ![s] = r]
    BY <1>1
  <2> HIDE DEF r
  <2> QED BY <2>2, <2>3 DEF TypeOK
<1>3. /\ written' \in [Spans -> Nat]
      /\ \A x \in Spans : /\ written[x] <= written'[x]
                          /\ x # s => written'[x] = written[x]
  BY <1>1 DEF TypeOK
<1>4. decided' \subseteq Spans \cup Remotes \cup {None}
  BY <1>1, ContextTypes DEF TypeOK, Refs
<1> QED BY <1>1, <1>2, <1>3, <1>4, MethodKeeps

LEMMA SetBaggageItemKeeps ==
  ASSUME TypeOK, Construction, Recording, NEW t \in Threads, NEW s \in Spans,
         NEW k \in Keys, NEW v \in Values, SetBaggageItem(t, s, k, v)
  PROVE  TypeOK' /\ Construction' /\ Recording'
<1> DEFINE b == context[s].baggage
           item == [x \in {k} |-> v]
           c == IF s \in Legacy THEN Insert(b, item) ELSE InsertOrAssign(b, item)
<1>1. b \in Baggage /\ item \in Baggage
  BY ContextTypes, ItemBaggage
<1>2. /\ context' = [context EXCEPT ![s].baggage = c]
      /\ UNCHANGED <<phase, written, finished, recorded, pc, parents, promised, decided>>
      /\ Writable(s)
  BY DEF SetBaggageItem
<1>3. /\ c \in Baggage /\ DOMAIN b \subseteq DOMAIN c
      /\ s \in Legacy => \A x \in DOMAIN b : c[x] = b[x]
  <2> HIDE DEF b, item
  <2>1. CASE s \in Legacy
    <3>1. c = Insert(b, item)
      BY <2>1
    <3> HIDE DEF c
    <3>2. c \in Baggage /\ DOMAIN c = DOMAIN b \cup DOMAIN item
      BY <1>1, <3>1, InsertBaggage
    <3>3. Preserves(c, b)
      BY <1>1, <3>1, InsertBaggage
    <3> QED BY <3>2, <3>3 DEF Preserves
  <2>2. CASE s \notin Legacy
    <3>1. c = InsertOrAssign(b, item)
      BY <2>2
    <3> HIDE DEF c
    <3>2. c \in Baggage /\ DOMAIN c = DOMAIN b \cup DOMAIN item
      BY <1>1, <3>1, InsertOrAssignBaggage
    <3> QED BY <2>2, <3>2
  <2> QED BY <2>1, <2>2
<1> HIDE DEF c
<1>4. /\ context' \in [Spans \cup Remotes -> Contexts]
      /\ \A x \in Spans \cup Remotes :
           /\ x # s => context'[x] = context[x]
           /\ context'[x].trace = context[x].trace
           /\ context'[x].state = context[x].state
           /\ context'[x].sampled = context[x].sampled
      /\ context'[s].baggage = c
  <2> DEFINE r == [context[s] EXCEPT !.baggage = c]
  <2>1. context[s] \in Contexts
    BY DEF TypeOK
  <2>2. /\ r \in Contexts /\ r.trace = context[s].trace /\ r.baggage = c
        /\ r.sampled = context[s].sampled /\ r.state = context[s].state
    BY <1>3, <2>1 DEF Contexts
  <2>3. context' = [context EXCEPT ![s] = r]
    BY <1>2
  <2> HIDE DEF r
  <2> QED BY <2>2, <2>3 DEF TypeOK
<1>5. \A x \in Spans \cup Remotes :
        DOMAIN context[x].baggage \subseteq DOMAIN context'[x].baggage
  BY <1>3, <1>4
<1>6. /\ written' \in [Spans -> Nat]
      /\ \A x \in Spans : /\ written[x] <= written'[x]
                          /\ x # s => written'[x] = written[x]
      /\ decided \subseteq decided' /\ decided' \subseteq Spans \cup Remotes \cup {None}
  BY <1>2 DEF TypeOK
<1> QED BY <1>2, <1>3, <1>4, <1>5, <1>6, MethodKeeps

-----------------------------------------------------------------------------
(* Finishing a span.                                                       *)

\* The span s is recorded, or dropped, while nothing about it changes.
LEMMA Recorded ==
  ASSUME TypeOK, RecordedOnce, ReportsAreFaithful, NEW s \in Spans,
         recorded[s] = <<>>, RecordIfSampled(s), UNCHANGED <<context, written>>,
         finished' \in [Spans -> BOOLEAN], finished'[s] = TRUE,
         \A x \in Spans : x # s => finished'[x] = finished[x]
  PROVE  /\ recorded' \in [Spans -> Seq(Reports)]
         /\ \A x \in Spans : x # s => recorded'[x] = recorded[x]
         /\ RecordedOnce' /\ ReportsAreFaithful'
<1> DEFINE r == Report(s)
<1>1. /\ r \in Reports
      /\ r.baggage = context[s].baggage /\ r.written = written[s]
  BY ReportTypes
<1>2. Append(<<>>, r) = <<r>> /\ Len(<<r>>) = 1 /\ Head(<<r>>) = r /\ Len(<<>>) = 0
  OBVIOUS
<1>3. recorded' = IF context[s].sampled THEN [recorded EXCEPT ![s] = <<r>>] ELSE recorded
  BY <1>2 DEF RecordIfSampled
<1>4. <<r>> \in Seq(Reports)
  BY <1>1, SingletonSeq
<1> HIDE DEF r
<1>5. /\ recorded' \in [Spans -> Seq(Reports)]
      /\ \A x \in Spans : x # s => recorded'[x] = recorded[x]
      /\ recorded'[s] = IF context[s].sampled THEN <<r>> ELSE <<>>
  BY <1>3, <1>4 DEF TypeOK
<1>6. RecordedOnce'
  <2> SUFFICES ASSUME NEW x \in Spans
               PROVE  /\ Len(recorded'[x]) <= 1
                      /\ recorded'[x] # <<>> => finished'[x]
    BY DEF RecordedOnce
  <2>1. CASE x = s
    <3>1. recorded'[x] = <<r>> \/ recorded'[x] = <<>>
      BY <1>5, <2>1
    <3>2. Len(<<r>>) <= 1 /\ Len(<<>>) <= 1
      OBVIOUS
    <3>3. Len(recorded'[x]) <= 1
      BY <3>1, <3>2
    <3> QED BY <2>1, <3>3
  <2>2. CASE x # s
    BY <1>5, <2>2 DEF RecordedOnce
  <2> QED BY <2>1, <2>2
<1>7. ReportIsFinal'
  <2>1. \A x \in Spans : Report(x)' = Report(x)
    BY DEF Report
  <2>2. r = Report(s)
    BY DEF r
  <2> QED BY <1>5, <2>1, <2>2 DEF ReportsAreFaithful, ReportIsFinal
<1>8. ReportIsPart'
  <2> SUFFICES ASSUME NEW x \in Legacy, recorded'[x] # <<>>
               PROVE  /\ Head(recorded'[x]).written <= written[x]
                      /\ \A k \in DOMAIN Head(recorded'[x]).baggage :
                           /\ k \in DOMAIN context[x].baggage
                           /\ context[x].baggage[k] = Head(recorded'[x]).baggage[k]
    BY DEF ReportIsPart
  <2>1. x \in Spans /\ written[x] \in Nat
    BY LegacyAssumption DEF TypeOK
  <2>2. CASE x = s
    <3>1. Head(recorded'[x]) = r
      BY <1>2, <1>5, <2>2
    <3> QED BY <1>1, <2>1, <2>2, <3>1
  <2>3. CASE x # s
    BY <1>5, <2>1, <2>3 DEF ReportsAreFaithful, ReportIsPart
  <2> QED BY <2>2, <2>3
<1> QED BY <1>5, <1>6, <1>7, <1>8 DEF ReportsAreFaithful

LEMMA FinishKeeps ==
  ASSUME TypeOK, Construction, Recording, NEW t \in Threads, NEW s \in Spans,
         Finish(t, s)
  PROVE  TypeOK' /\ Construction' /\ Recording'
<1>1. /\ finished' \in [Spans -> BOOLEAN] /\ finished'[s] = TRUE
      /\ \A x \in Spans : x # s => finished'[x] = finished[x]
  BY DEF TypeOK, Finish
<1>2. recorded[s] = <<>>
  BY DEF Finish, Recording, RecordedOnce
<1>3. /\ recorded' \in [Spans -> Seq(Reports)]
      /\ \A x \in Spans : x # s => recorded'[x] = recorded[x]
      /\ RecordedOnce' /\ ReportsAreFaithful'
  BY <1>1, <1>2, Recorded DEF Finish, Recording
<1>4. TypeOK'
  BY <1>1, <1>3 DEF TypeOK, Finish
<1>5. Construction'
  BY ConstructionKept DEF Finish
<1>6. OneOwner'
  <2>1. \A u \in Threads : pc[u].at = "record" => pc[u].span \in Spans /\ pc[u].span # s
    BY PcTypes, LegacyAssumption DEF Finish
  <2> QED BY <1>1, <1>3, <2>1, ZenonT(30) DEF Recording, OneOwner, Open, Finish
<1> QED BY <1>3, <1>4, <1>5, <1>6 DEF Recording

LEMMA FinishLegacyKeeps ==
  ASSUME TypeOK, Construction, Recording, NEW t \in Threads, NEW s \in Spans,
         FinishLegacy(t, s)
  PROVE  TypeOK' /\ Construction' /\ Recording'
<1> DEFINE r == [Idle EXCEPT !.at = "record", !.span = s]
<1>1. /\ finished' \in [Spans -> BOOLEAN] /\ finished'[s] = TRUE /\ ~finished[s]
      /\ \A x \in Spans : x # s => finished'[x] = finished[x]
  BY DEF TypeOK, FinishLegacy
<1>2. r \in Pcs /\ r.at = "record" /\ r.span = s /\ r.references = <<>>
  BY DEF Idle, Pcs, FinishLegacy
<1>3. pc[t].references = <<>> /\ pc' = [pc EXCEPT ![t] = r] /\ Open(s) /\ s \in Legacy
  BY IdleFields DEF FinishLegacy
<1> HIDE DEF r
<1>4. /\ pc' \in [Threads -> Pcs] /\ pc'[t] = r
      /\ \A u \in Threads : u # t => pc'[u] = pc[u]
  BY <1>2, <1>3 DEF TypeOK
<1>5. recorded[s] = <<>>
  BY <1>1 DEF Recording, RecordedOnce
<1>6. TypeOK'
  BY <1>1, <1>4 DEF TypeOK, FinishLegacy
<1>7. Construction'
  BY <1>2, <1>3, <1>4, ConstructionKept DEF FinishLegacy
<1>8. OneOwner'
  <2>1. \A u \in Threads : pc[u].span # s \/ pc[u].at = "idle"
    <3> SUFFICES ASSUME NEW u \in Threads, pc[u].span = s, pc[u].at # "idle"
                 PROVE  FALSE
      OBVIOUS
    <3> QED BY <1>1, <1>3, PcTypes DEF Recording, OneOwner, Open
  <2>2. s # None
    BY NamesAssumption
  <2>3. \A u \in Threads : pc[u].at = "idle" => pc[u].span = None
    BY PcTypes
  <2>4. \A u, v \in Threads : pc'[u].span = pc'[v].span /\ pc'[u].span # None => u = v
    BY <1>2, <1>4, <2>1, <2>2, <2>3 DEF Recording, OneOwner
  <2> QED BY <1>1, <1>2, <1>3, <1>4, <1>5, <2>4
          DEF Recording, OneOwner, Open, FinishLegacy
<1>9. RecordedOnce' /\ ReportsAreFaithful'
  BY <1>1, <1>3, <1>5
     DEF Recording, RecordedOnce, ReportsAreFaithful, ReportIsFinal, ReportIsPart,
         Report, FinishLegacy
<1> QED BY <1>6, <1>7, <1>8, <1>9 DEF Recording

LEMMA RecordLegacyKeeps ==
  ASSUME TypeOK, Construction, Recording, NEW t \in Threads, RecordLegacy(t)
  PROVE  TypeOK' /\ Construction' /\ Recording'
<1> DEFINE s == pc[t].span
<1>1. /\ s \in Spans /\ finished[s] = TRUE /\ recorded[s] = <<>>
      /\ pc[t].references = <<>> /\ pc' = [pc EXCEPT ![t] = Idle]
      /\ RecordIfSampled(s)
      /\ UNCHANGED <<phase, context, written, finished, parents, promised, decided>>
  BY PcTypes, LegacyAssumption DEF RecordLegacy, Recording, OneOwner, TypeOK
<1>2. /\ pc' \in [Threads -> Pcs] /\ pc'[t] = Idle
      /\ \A u \in Threads : u # t => pc'[u] = pc[u]
  BY <1>1, IdleFields DEF TypeOK
<1>3. \A u \in Threads : u # t => pc[u].span # s
  BY <1>1, NamesAssumption DEF Recording, OneOwner
<1> HIDE DEF s
<1>4. finished' \in [Spans -> BOOLEAN] /\ finished'[s] = TRUE
  BY <1>1 DEF TypeOK
<1>5. /\ recorded' \in [Spans -> Seq(Reports)]
      /\ \A x \in Spans : x # s => recorded'[x] = recorded[x]
      /\ RecordedOnce' /\ ReportsAreFaithful'
  BY <1>1, <1>4, Recorded DEF Recording
<1>6. TypeOK'
  BY <1>1, <1>2, <1>5 DEF TypeOK
<1>7. Construction'
  BY <1>1, <1>2, IdleFields, ConstructionKept
<1>8. OneOwner'
  <2>1. \A u \in Threads : pc'[u].at = "record" =>
          pc'[u].span \in Spans /\ recorded'[pc'[u].span] = <<>>
    <3> SUFFICES ASSUME NEW u \in Threads, pc'[u].at = "record"
                 PROVE  pc'[u].span \in Spans /\ recorded'[pc'[u].span] = <<>>
      OBVIOUS
    <3>1. u # t /\ pc'[u] = pc[u]
      BY <1>2, IdleFields
    <3>2. pc[u].span \in Spans /\ pc[u].span # s /\ recorded[pc[u].span] = <<>>
      BY <1>3, <3>1, PcTypes, LegacyAssumption DEF Recording, OneOwner
    <3> QED BY <1>5, <3>1, <3>2
  <2> QED BY <1>1, <1>2, <2>1, IdleFields DEF Recording, OneOwner, Open
<1> QED BY <1>5, <1>6, <1>7, <1>8 DEF Recording

\* Nobody reads from a span that is destroyed, or is about to record it.
LEMMA DestroyKeeps ==
  ASSUME TypeOK, Construction, Recording, NEW t \in Threads, NEW s \in Spans,
         Destroy(t, s)
  PROVE  TypeOK' /\ Construction' /\ Recording'
<1>1. /\ phase' = [phase EXCEPT ![s] = "destroyed"] /\ Open(s)
      /\ finished' = [finished EXCEPT ![s] = TRUE]
      /\ UNCHANGED <<context, written, pc, parents, promised, decided>>
      /\ \A u \in Threads :
           /\ pc[u].span # s
           /\ \A i \in DOMAIN pc[u].references : pc[u].references[i] # s
  BY DEF Destroy, Using
<1>2. /\ phase' \in [Spans -> {"unborn", "starting", "open", "destroyed"}]
      /\ phase[s] = "open" /\ phase'[s] = "destroyed"
      /\ \A x \in Spans : x # s => phase'[x] = phase[x]
      /\ finished' \in [Spans -> BOOLEAN] /\ finished'[s] = TRUE
      /\ \A x \in Spans : x # s => finished'[x] = finished[x]
  BY <1>1 DEF TypeOK, Open
<1>3. /\ recorded' \in [Spans -> Seq(Reports)]
      /\ \A x \in Spans : x # s => recorded'[x] = recorded[x]
      /\ RecordedOnce' /\ ReportsAreFaithful'
  <2>1. CASE finished[s]
    <3>1. finished' = finished /\ recorded' = recorded
      BY <1>1, <2>1 DEF TypeOK, Destroy
    <3> QED BY <1>1, <3>1
            DEF TypeOK, Recording, RecordedOnce, ReportsAreFaithful, ReportIsFinal,
                ReportIsPart, Report
  <2>2. CASE ~finished[s]
    <3>1. recorded[s] = <<>> /\ RecordIfSampled(s)
      BY <2>2 DEF Recording, RecordedOnce, Destroy
    <3> QED BY <1>1, <1>2, <3>1, Recorded DEF Recording
  <2> QED BY <2>1, <2>2
<1>4. TypeOK'
  BY <1>1, <1>2, <1>3 DEF TypeOK
<1>5. OneOwner'
  <2>1. \A u \in Threads : pc[u].at # "idle" => pc[u].span \in Spans
    BY PcTypes, LegacyAssumption
  <2> QED BY <1>1, <1>2, <1>3, <2>1 DEF Recording, OneOwner, Open
<1>6. \A x \in Spans \cup Remotes : Settled(x)' <=> Settled(x)
  BY <1>2 DEF Settled
<1>7. ReferencesLive'
  <2>1. \A u \in Threads : \A i \in DOMAIN pc[u].references :
          pc[u].references[i] # None =>
            pc[u].references[i] \in Remotes \/ phase'[pc[u].references[i]] = "open"
    BY <1>1, <1>2, ReferenceTypes DEF Construction, ReferencesLive, Open
  <2>2. \A x \in Spans : \A i \in DOMAIN parents[x] : Settled(parents[x][i])'
    BY <1>1, <1>6, ParentTypes DEF Construction, ReferencesLive
  <2>3. \A x \in Spans : phase'[x] = "unborn" => parents[x] = <<>>
    BY <1>2 DEF Construction, ReferencesLive
  <2> QED BY <1>1, <2>1, <2>2, <2>3 DEF ReferencesLive, Open
<1>8. InheritsSoFar'
  <2>1. InheritsSoFar /\ context' = context /\ parents' = parents
    BY <1>1 DEF Construction
  <2> QED BY <2>1, ZenonT(30) DEF InheritsSoFar
<1>9. PromisesKept'
  BY <1>1, <1>6 DEF Construction, PromisesKept
<1>10. TracesRooted' /\ DecidedSoFar'
  <2>1. \A x \in Spans \cup Remotes : HasTrace(x)' <=> HasTrace(x)
    BY <1>1, <1>6 DEF HasTrace
  <2>2. \A x \in Spans \cup Remotes : HasTrace(x) =>
          context[x].trace \in Spans \cup Remotes
    BY ContextTypes DEF Construction, TracesRooted, Refs
  <2> QED BY <1>1, <1>6, <2>1, <2>2 DEF Construction, TracesRooted, DecidedSoFar
<1> QED BY <1>3, <1>4, <1>5, <1>7, <1>8, <1>9, <1>10 DEF Construction, Recording

-----------------------------------------------------------------------------
(* The constructor.                                                        *)

LEMMA StartKeeps ==
  ASSUME TypeOK, Construction, Recording, NEW t \in Threads, NEW s \in Spans,
         NEW references \in References, Start(t, s, references)
  PROVE  TypeOK' /\ Construction' /\ Recording'
<1> DEFINE r == [at |-> "flags", span |-> s, references |-> references]
           q == UNION {DOMAIN context[references[i]].baggage :
                         i \in {j \in DOMAIN references : references[j] # None}}
<1>1. /\ pc[t] = Idle /\ phase[s] = "unborn"
      /\ \A i \in DOMAIN references : references[i] \in Spans => Open(references[i])
      /\ phase' = [phase EXCEPT ![s] = "starting"]
      /\ pc' = [pc EXCEPT ![t] = r]
      /\ promised' = [promised EXCEPT ![s] = q]
      /\ UNCHANGED <<context, written, finished, recorded, parents, decided>>
  BY DEF Start
<1>2. /\ references \in Seq(Refs)
      /\ \A i \in DOMAIN references :
           references[i] # None => references[i] \in Spans \cup Remotes
  <2>1. PICK n \in 0..MaxReferences : references \in [1..n -> Refs]
    BY DEF References, Refs
  <2>2. n \in Nat
    BY <2>1, BoundsAssumption
  <2>3. references \in Seq(Refs)
    BY <2>1, <2>2, SeqDef
  <2>4. \A i \in DOMAIN references : references[i] \in Refs
    BY <2>1
  <2> QED BY <2>3, <2>4 DEF Refs
<1>3. r \in Pcs /\ r.at = "flags" /\ r.span = s /\ r.references = references
  BY <1>2 DEF Pcs, Refs
<1>4. q \subseteq Keys
  <2>1. \A x \in Spans \cup Remotes : DOMAIN context[x].baggage \subseteq Keys
    BY ContextTypes DEF Baggage
  <2> QED BY <1>2, <2>1
<1>5. \A i \in DOMAIN references : references[i] # None =>
        \A k \in DOMAIN context[references[i]].baggage : k \in q
  OBVIOUS
<1>6. \A k \in q : \E i \in DOMAIN references :
        references[i] # None /\ k \in DOMAIN context[references[i]].baggage
  OBVIOUS
<1> HIDE DEF r, q
<1>7. /\ pc' \in [Threads -> Pcs] /\ pc'[t] = r
      /\ \A u \in Threads : u # t => pc'[u] = pc[u]
      /\ phase' \in [Spans -> {"unborn", "starting", "open", "destroyed"}]
      /\ phase'[s] = "starting"
      /\ \A x \in Spans : x # s => phase'[x] = phase[x]
      /\ promised' \in [Spans -> SUBSET Keys] /\ promised'[s] = q
      /\ \A x \in Spans : x # s => promised'[x] = promised[x]
  BY <1>1, <1>3, <1>4 DEF TypeOK
<1>8. TypeOK'
  BY <1>1, <1>7 DEF TypeOK
<1>9. \A u \in Threads : pc[u].span # s
  <2> SUFFICES ASSUME NEW u \in Threads, pc[u].span = s
               PROVE  FALSE
    OBVIOUS
  <2>1. s # None
    BY NamesAssumption
  <2> QED BY <1>1, <2>1, PcTypes DEF Recording, OneOwner, Open
<1>10. OneOwner'
  <2>1. \A u \in Threads : pc[u].at # "idle" => pc[u].span \in Spans
    BY PcTypes, LegacyAssumption
  <2>2. \A u \in Threads : pc'[u].at \in {"flags", "baggage"} =>
          phase'[pc'[u].span] = "starting"
    BY <1>3, <1>7, <1>9, <2>1 DEF Recording, OneOwner
  <2>3. \A u \in Threads : pc'[u].at = "record" =>
          /\ finished[pc'[u].span] /\ phase'[pc'[u].span] = "open"
          /\ recorded[pc'[u].span] = <<>>
    BY <1>1, <1>3, <1>7, <1>9, <2>1 DEF Recording, OneOwner, Open
  <2>4. \A u \in Threads : pc'[u].at = "baggage" =>
          pc'[u].references # <<>> /\ Head(pc'[u].references) # None
    BY <1>3, <1>7 DEF Recording, OneOwner
  <2>5. \A u, v \in Threads : pc'[u].span = pc'[v].span /\ pc'[u].span # None => u = v
    BY <1>3, <1>7, <1>9 DEF Recording, OneOwner
  <2>6. \A x \in Spans : /\ phase'[x] \in {"unborn", "starting"} => ~finished[x]
                         /\ phase'[x] = "destroyed" => finished[x]
    BY <1>1, <1>7 DEF Recording, OneOwner
  <2> QED BY <1>1, <2>2, <2>3, <2>4, <2>5, <2>6 DEF OneOwner, Open
<1>11. Recording'
  BY <1>1, <1>10, RecordingKept
<1>12. \A x \in Spans \cup Remotes : Settled(x)' <=> Settled(x)
  BY <1>1, <1>7 DEF Settled
<1>13. ReferencesLive'
  <2>1. \A x \in Spans : phase[x] = "open" => phase'[x] = "open"
    BY <1>1, <1>7
  <2>2. ASSUME NEW u \in Threads, NEW i \in DOMAIN pc'[u].references,
               pc'[u].references[i] # None
        PROVE  pc'[u].references[i] \in Remotes \/ phase'[pc'[u].references[i]] = "open"
    <3>1. CASE u = t
      BY <1>1, <1>2, <1>3, <1>7, <2>1, <2>2, <3>1 DEF Open
    <3>2. CASE u # t
      BY <1>7, <2>1, <2>2, <3>2, ReferenceTypes DEF Construction, ReferencesLive, Open
    <3> QED BY <3>1, <3>2
  <2>3. \A x \in Spans : \A i \in DOMAIN parents[x] : Settled(parents[x][i])'
    BY <1>1, <1>12, ParentTypes DEF Construction, ReferencesLive
  <2>4. \A x \in Spans : phase'[x] = "unborn" => parents[x] = <<>>
    BY <1>7 DEF Construction, ReferencesLive
  <2> QED BY <1>1, <2>2, <2>3, <2>4 DEF ReferencesLive, Open
<1>14. InheritsSoFar'
  BY <1>1 DEF Construction, InheritsSoFar
<1>15. PromisesKept'
  <2>1. \A x \in Spans : Settled(x)' => promised'[x] \subseteq DOMAIN context[x].baggage
    <3>1. ~Settled(s)
      BY <1>1, NamesAssumption DEF Settled
    <3> QED BY <1>7, <1>12, <3>1 DEF Construction, PromisesKept
  <2>2. ASSUME NEW u \in Threads, pc'[u].at \in {"flags", "baggage"},
               NEW k \in promised'[pc'[u].span]
        PROVE  \/ k \in DOMAIN context[pc'[u].span].baggage
               \/ \E i \in DOMAIN pc'[u].references :
                    /\ pc'[u].references[i] # None
                    /\ k \in DOMAIN context[pc'[u].references[i]].baggage
    <3>1. CASE u = t
      BY <1>3, <1>6, <1>7, <2>2, <3>1
    <3>2. CASE u # t
      <4>1. pc[u].span \in Spans /\ pc[u].span # s
        BY <1>7, <1>9, <2>2, <3>2, PcTypes
      <4> QED BY <1>7, <2>2, <3>2, <4>1, SMTT(30) DEF Construction, PromisesKept
    <3> QED BY <3>1, <3>2
  <2> QED BY <1>1, <2>1, <2>2 DEF PromisesKept
<1>16. TracesRooted' /\ DecidedSoFar'
  <2>1. \A x \in Spans \cup Remotes : HasTrace(x)' <=> HasTrace(x)
    BY <1>1, <1>12 DEF HasTrace
  <2>2. \A x \in Spans \cup Remotes : HasTrace(x) =>
          context[x].trace \in Spans \cup Remotes
    BY ContextTypes DEF Construction, TracesRooted, Refs
  <2> QED BY <1>1, <1>12, <2>1, <2>2 DEF Construction, TracesRooted, DecidedSoFar
<1> QED BY <1>8, <1>11, <1>13, <1>14, <1>15, <1>16 DEF Construction

\* A span under construction belongs to one thread, and nobody else knows it.
LEMMA UnderConstruction ==
  ASSUME TypeOK, Construction, Recording, NEW t \in Threads,
         pc[t].at \in {"flags", "baggage"}, NEW s, s = pc[t].span
  PROVE  /\ s \in Spans /\ s # None /\ s \notin Remotes
         /\ pc[t].references \in Seq(Refs)
         /\ phase[s] = "starting" /\ ~Settled(s) /\ ~finished[s]
         /\ \A u \in Threads : u # t => pc[u].span # s
         /\ \A u \in Threads : \A i \in DOMAIN pc[u].references :
              pc[u].references[i] # s
         /\ \A x \in Spans : \A i \in DOMAIN parents[x] : parents[x][i] # s
         /\ \A x \in Spans : parents[x] # <<>> => Head(parents[x]) # s
         /\ \A x \in Spans \cup Remotes : HasTrace(x) => context[x].trace # s
<1>1. s \in Spans /\ s # None /\ s \notin Remotes /\ pc[t].references \in Seq(Refs)
  BY PcTypes, NamesAssumption
<1>2. phase[s] = "starting" /\ ~finished[s]
  BY <1>1 DEF Recording, OneOwner
<1>3. ~Settled(s) /\ ~Open(s)
  BY <1>1, <1>2 DEF Settled, Open
<1>4. \A u \in Threads : u # t => pc[u].span # s
  BY <1>1 DEF Recording, OneOwner
<1>5. \A u \in Threads : \A i \in DOMAIN pc[u].references : pc[u].references[i] # s
  BY <1>1, <1>3 DEF Construction, ReferencesLive
<1>6. \A x \in Spans : \A i \in DOMAIN parents[x] : parents[x][i] # s
  BY <1>3 DEF Construction, ReferencesLive
<1>7. \A x \in Spans : parents[x] # <<>> => Head(parents[x]) # s
  <2> SUFFICES ASSUME NEW x \in Spans, parents[x] # <<>>
               PROVE  Head(parents[x]) # s
    OBVIOUS
  <2>1. parents[x] \in Seq(Spans \cup Remotes)
    BY ParentTypes
  <2>2. 1 \in DOMAIN parents[x] /\ parents[x][1] = Head(parents[x])
    BY <2>1, TailProperties
  <2> QED BY <1>6, <2>2
<1>8. \A x \in Spans \cup Remotes : HasTrace(x) => context[x].trace # s
  BY <1>3 DEF Construction, TracesRooted
<1> QED BY <1>1, <1>2, <1>3, <1>4, <1>5, <1>6, <1>7, <1>8

\* It may change while nobody has read anything from it.
LEMMA OthersInherit ==
  ASSUME TypeOK, Construction, NEW s \in Spans,
         \A x \in Spans : \A i \in DOMAIN parents[x] : parents[x][i] # s,
         \A x \in Spans : parents[x] # <<>> => Head(parents[x]) # s,
         \A x \in Spans \cup Remotes : x # s => context'[x] = context[x],
         \A x \in Spans : x # s => parents'[x] = parents[x],
         /\ parents'[s] # <<>> => context'[s].trace = context'[Head(parents'[s])].trace
         /\ \A i \in DOMAIN parents'[s] :
              Holds(context'[s].state, context'[parents'[s][i]].state)
  PROVE  InheritsSoFar'
<1> SUFFICES ASSUME NEW x \in Spans
             PROVE  /\ parents'[x] # <<>> =>
                         context'[x].trace = context'[Head(parents'[x])].trace
                    /\ \A i \in DOMAIN parents'[x] :
                         Holds(context'[x].state, context'[parents'[x][i]].state)
  BY DEF InheritsSoFar, Holds
<1>1. CASE x = s
  BY <1>1
<1>2. CASE x # s
  <2>1. parents'[x] = parents[x] /\ context'[x] = context[x]
    BY <1>2
  <2>2. parents[x] # <<>> => context'[Head(parents[x])] = context[Head(parents[x])]
    BY ParentTypes
  <2>3. \A i \in DOMAIN parents[x] : context'[parents[x][i]] = context[parents[x][i]]
    BY ParentTypes
  <2>4. parents[x] # <<>> => context[x].trace = context[Head(parents[x])].trace
    BY DEF Construction, InheritsSoFar
  <2>5. \A i \in DOMAIN parents[x] : Holds(context[x].state, context[parents[x][i]].state)
    BY DEF Construction, InheritsSoFar, Holds
  <2> QED BY <2>1, <2>2, <2>3, <2>4, <2>5
<1> QED BY <1>1, <1>2

\* The step to the next reference.
LEMMA NextReferenceFields ==
  ASSUME TypeOK, NEW t \in Threads, pc[t].at \in {"flags", "baggage"},
         pc[t].references # <<>>, pc' = NextReference(t)
  PROVE  /\ pc' \in [Threads -> Pcs]
         /\ pc'[t].at = "flags" /\ pc'[t].span = pc[t].span
         /\ pc'[t].references = Tail(pc[t].references)
         /\ \A u \in Threads : u # t => pc'[u] = pc[u]
<1> DEFINE r == [[pc[t] EXCEPT !.at = "flags"] EXCEPT !.references = Tail(pc[t].references)]
<1>1. pc[t] \in Pcs /\ pc[t].references \in Seq(Refs)
  BY PcTypes DEF TypeOK
<1>2. Tail(pc[t].references) \in Seq(Refs)
  BY <1>1, TailProperties
<1>3. pc[t] \in [at : {"flags", "baggage"}, span : Spans, references : Seq(Refs)]
  BY <1>1 DEF Pcs, Refs
<1>4. /\ r \in [at : {"flags", "baggage"}, span : Spans, references : Seq(Refs)]
      /\ r.at = "flags" /\ r.span = pc[t].span /\ r.references = Tail(pc[t].references)
  BY <1>2, <1>3
<1>5. r \in Pcs
  BY <1>4 DEF Pcs, Refs
<1>6. pc' = [pc EXCEPT ![t] = r]
  BY DEF NextReference, TypeOK
<1> HIDE DEF r
<1> QED BY <1>4, <1>5, <1>6 DEF TypeOK

LEMMA SkipReferenceKeeps ==
  ASSUME TypeOK, Construction, Recording, NEW t \in Threads, SkipReference(t)
  PROVE  TypeOK' /\ Construction' /\ Recording'
<1> DEFINE s == pc[t].span
           q == pc[t].references
<1>1. /\ pc[t].at = "flags" /\ q # <<>> /\ Head(q) = None /\ pc' = NextReference(t)
      /\ UNCHANGED <<phase, context, written, finished, recorded, parents, promised, decided>>
  BY DEF SkipReference
<1>2. /\ s \in Spans /\ q \in Seq(Refs) /\ phase[s] = "starting"
      /\ \A u \in Threads : u # t => pc[u].span # s
  BY <1>1, UnderConstruction
<1>3. /\ pc' \in [Threads -> Pcs]
      /\ pc'[t].at = "flags" /\ pc'[t].span = s /\ pc'[t].references = Tail(q)
      /\ \A u \in Threads : u # t => pc'[u] = pc[u]
  BY <1>1, NextReferenceFields
<1>4. /\ 1 \in DOMAIN q /\ q[1] = None
      /\ \A i \in DOMAIN Tail(q) : i + 1 \in DOMAIN q /\ Tail(q)[i] = q[i + 1]
      /\ \A i \in DOMAIN q : i # 1 => i - 1 \in DOMAIN Tail(q) /\ Tail(q)[i - 1] = q[i]
  BY <1>1, <1>2, TailProperties
<1>5. TypeOK'
  BY <1>1, <1>3 DEF TypeOK
<1>6. OneOwner'
  BY <1>1, <1>2, <1>3 DEF Recording, OneOwner, Open
<1>7. Recording'
  BY <1>1, <1>6, RecordingKept
<1>8. ReferencesLive'
  <2>1. \A i \in DOMAIN Tail(q) : Tail(q)[i] # None =>
          Tail(q)[i] \in Remotes \/ Open(Tail(q)[i])
    BY <1>4 DEF Construction, ReferencesLive
  <2>2. ASSUME NEW u \in Threads, NEW i \in DOMAIN pc'[u].references,
               pc'[u].references[i] # None
        PROVE  pc'[u].references[i] \in Remotes \/ Open(pc'[u].references[i])
    <3>1. CASE u = t
      BY <1>3, <2>1, <2>2, <3>1
    <3>2. CASE u # t
      BY <1>3, <2>2, <3>2 DEF Construction, ReferencesLive
    <3> QED BY <3>1, <3>2
  <2> QED BY <1>1, <2>2 DEF Construction, ReferencesLive, Open, Settled
<1>9. InheritsSoFar'
  BY <1>1 DEF Construction, InheritsSoFar
<1>10. PromisesKept'
  <2>1. ASSUME NEW k \in promised[s]
        PROVE  \/ k \in DOMAIN context[s].baggage
               \/ \E i \in DOMAIN Tail(q) :
                    Tail(q)[i] # None /\ k \in DOMAIN context[Tail(q)[i]].baggage
    <3>1. CASE k \notin DOMAIN context[s].baggage
      <4>1. PICK i \in DOMAIN q : q[i] # None /\ k \in DOMAIN context[q[i]].baggage
        BY <1>1, <3>1 DEF Construction, PromisesKept
      <4>2. i - 1 \in DOMAIN Tail(q) /\ Tail(q)[i - 1] = q[i]
        BY <1>4, <4>1
      <4> QED BY <4>1, <4>2
    <3> QED BY <3>1
  <2>2. ASSUME NEW u \in Threads, pc'[u].at \in {"flags", "baggage"},
               NEW k \in promised[pc'[u].span]
        PROVE  \/ k \in DOMAIN context[pc'[u].span].baggage
               \/ \E i \in DOMAIN pc'[u].references :
                    /\ pc'[u].references[i] # None
                    /\ k \in DOMAIN context[pc'[u].references[i]].baggage
    <3>1. CASE u = t
      BY <1>3, <2>1, <2>2, <3>1
    <3>2. CASE u # t
      BY <1>3, <2>2, <3>2 DEF Construction, PromisesKept
    <3> QED BY <3>1, <3>2
  <2> QED BY <1>1, <2>2 DEF Construction, PromisesKept, Settled
<1>11. TracesRooted' /\ DecidedSoFar'
  BY <1>1 DEF Construction, TracesRooted, DecidedSoFar, HasTrace, Settled
<1> QED BY <1>5, <1>7, <1>8, <1>9, <1>10, <1>11 DEF Construction

LEMMA ReadBaggageKeeps ==
  ASSUME TypeOK, Construction, Recording, NEW t \in Threads, ReadBaggage(t)
  PROVE  TypeOK' /\ Construction' /\ Recording'
<1> DEFINE s == pc[t].span
           q == pc[t].references
           p == Head(q)
           c == InsertOrAssign(context[s].baggage, context[p].baggage)
<1>1. /\ pc[t].at = "baggage" /\ q # <<>> /\ p # None /\ pc' = NextReference(t)
      /\ context' = [context EXCEPT ![s].baggage = c]
      /\ UNCHANGED <<phase, written, finished, recorded, parents, promised, decided>>
  BY DEF ReadBaggage, Recording, OneOwner
<1>2. /\ s \in Spans /\ q \in Seq(Refs) /\ phase[s] = "starting"
      /\ ~Settled(s) /\ ~finished[s] /\ s \notin Remotes
      /\ \A u \in Threads : u # t => pc[u].span # s
      /\ \A u \in Threads : \A i \in DOMAIN pc[u].references :
           pc[u].references[i] # s
      /\ \A x \in Spans : \A i \in DOMAIN parents[x] : parents[x][i] # s
      /\ \A x \in Spans : parents[x] # <<>> => Head(parents[x]) # s
  BY <1>1, UnderConstruction
<1>3. /\ pc' \in [Threads -> Pcs]
      /\ pc'[t].at = "flags" /\ pc'[t].span = s /\ pc'[t].references = Tail(q)
      /\ \A u \in Threads : u # t => pc'[u] = pc[u]
  BY <1>1, NextReferenceFields
<1>4. /\ 1 \in DOMAIN q /\ q[1] = p
      /\ \A i \in DOMAIN Tail(q) : i + 1 \in DOMAIN q /\ Tail(q)[i] = q[i + 1]
      /\ \A i \in DOMAIN q : i # 1 => i - 1 \in DOMAIN Tail(q) /\ Tail(q)[i - 1] = q[i]
  BY <1>1, <1>2, TailProperties
<1>5. p \in Spans \cup Remotes
  BY <1>1, <1>4, ReferenceTypes
<1>6. c \in Baggage /\ DOMAIN c = DOMAIN context[s].baggage \cup DOMAIN context[p].baggage
  <2>1. context[s].baggage \in Baggage /\ context[p].baggage \in Baggage
    BY <1>2, <1>5, ContextTypes
  <2> HIDE DEF s, p
  <2> QED BY <2>1, InsertOrAssignBaggage
<1> HIDE DEF c, s, p, q
<1>7. /\ context' \in [Spans \cup Remotes -> Contexts]
      /\ \A x \in Spans \cup Remotes :
           /\ x # s => context'[x] = context[x]
           /\ context'[x].trace = context[x].trace
           /\ context'[x].state = context[x].state
           /\ context'[x].sampled = context[x].sampled
      /\ context'[s].baggage = c
  <2> DEFINE r == [context[s] EXCEPT !.baggage = c]
  <2>1. context[s] \in Contexts
    BY <1>2 DEF TypeOK
  <2>2. /\ r \in Contexts /\ r.trace = context[s].trace /\ r.baggage = c
        /\ r.sampled = context[s].sampled /\ r.state = context[s].state
    BY <1>6, <2>1 DEF Contexts
  <2>3. context' = [context EXCEPT ![s] = r]
    BY <1>1
  <2> HIDE DEF r
  <2> QED BY <1>2, <2>2, <2>3 DEF TypeOK
<1>8. TypeOK'
  BY <1>1, <1>3, <1>7 DEF TypeOK
<1>9. OneOwner'
  BY <1>1, <1>2, <1>3 DEF Recording, OneOwner, Open
<1>10. Recording'
  BY <1>1, <1>2, <1>7, <1>9, RecordingKept
<1>11. ReferencesLive'
  <2>1. \A i \in DOMAIN Tail(q) : Tail(q)[i] # None =>
          Tail(q)[i] \in Remotes \/ Open(Tail(q)[i])
    BY <1>4 DEF Construction, ReferencesLive, q
  <2>2. ASSUME NEW u \in Threads, NEW i \in DOMAIN pc'[u].references,
               pc'[u].references[i] # None
        PROVE  pc'[u].references[i] \in Remotes \/ Open(pc'[u].references[i])
    <3>1. CASE u = t
      BY <1>3, <2>1, <2>2, <3>1
    <3>2. CASE u # t
      BY <1>3, <2>2, <3>2 DEF Construction, ReferencesLive
    <3> QED BY <3>1, <3>2
  <2> QED BY <1>1, <2>2 DEF Construction, ReferencesLive, Open, Settled
<1>12. InheritsSoFar'
  <2>1. parents[s] # <<>> => context'[s].trace = context'[Head(parents[s])].trace
    BY <1>2, <1>7, ParentTypes DEF Construction, InheritsSoFar
  <2>2. \A i \in DOMAIN parents[s] : Holds(context'[s].state, context'[parents[s][i]].state)
    <3>1. \A i \in DOMAIN parents[s] : Holds(context[s].state, context[parents[s][i]].state)
      BY <1>2 DEF Construction, InheritsSoFar, Holds
    <3> QED BY <1>2, <1>7, <3>1, ParentTypes
  <2> QED BY <1>1, <1>2, <1>7, <2>1, <2>2, OthersInherit
<1>13. PromisesKept'
  <2>1. \A x \in Spans : Settled(x)' => promised'[x] \subseteq DOMAIN context'[x].baggage
    BY <1>1, <1>2, <1>7 DEF Construction, PromisesKept, Settled
  <2>2. ASSUME NEW k \in promised[s]
        PROVE  \/ k \in DOMAIN context'[s].baggage
               \/ \E i \in DOMAIN Tail(q) :
                    Tail(q)[i] # None /\ k \in DOMAIN context'[Tail(q)[i]].baggage
    <3>1. CASE k \in DOMAIN context[s].baggage
      BY <1>6, <1>7, <3>1
    <3>2. CASE k \notin DOMAIN context[s].baggage
      <4>1. PICK i \in DOMAIN q : q[i] # None /\ k \in DOMAIN context[q[i]].baggage
        BY <1>1, <3>2 DEF Construction, PromisesKept, s, q
      <4>2. CASE i = 1
        BY <1>4, <1>6, <1>7, <4>1, <4>2
      <4>3. CASE i # 1
        <5>1. i - 1 \in DOMAIN Tail(q) /\ Tail(q)[i - 1] = q[i]
          BY <1>4, <4>3
        <5>2. q[i] \in Spans \cup Remotes /\ q[i] # s
          BY <1>2, <4>1, ReferenceTypes DEF q
        <5> QED BY <1>7, <4>1, <5>1, <5>2
      <4> QED BY <4>2, <4>3
    <3> QED BY <3>1, <3>2
  <2>3. ASSUME NEW u \in Threads, u # t, pc[u].at \in {"flags", "baggage"},
               NEW k \in promised[pc[u].span]
        PROVE  \/ k \in DOMAIN context'[pc[u].span].baggage
               \/ \E i \in DOMAIN pc[u].references :
                    /\ pc[u].references[i] # None
                    /\ k \in DOMAIN context'[pc[u].references[i]].baggage
    <3>1. pc[u].span \in Spans /\ pc[u].span # s
      BY <1>2, <2>3, PcTypes
    <3>2. CASE k \in DOMAIN context[pc[u].span].baggage
      BY <1>7, <3>1, <3>2
    <3>3. CASE k \notin DOMAIN context[pc[u].span].baggage
      <4>1. PICK i \in DOMAIN pc[u].references :
              /\ pc[u].references[i] # None
              /\ k \in DOMAIN context[pc[u].references[i]].baggage
        BY <2>3, <3>3 DEF Construction, PromisesKept
      <4>2. pc[u].references[i] \in Spans \cup Remotes /\ pc[u].references[i] # s
        BY <1>2, <4>1, ReferenceTypes
      <4> QED BY <1>7, <4>1, <4>2
    <3> QED BY <3>2, <3>3
  <2>4. ASSUME NEW u \in Threads, pc'[u].at \in {"flags", "baggage"},
               NEW k \in promised[pc'[u].span]
        PROVE  \/ k \in DOMAIN context'[pc'[u].span].baggage
               \/ \E i \in DOMAIN pc'[u].references :
                    /\ pc'[u].references[i] # None
                    /\ k \in DOMAIN context'[pc'[u].references[i]].baggage
    <3>1. CASE u = t
      BY <1>3, <2>2, <2>4, <3>1
    <3>2. CASE u # t
      BY <1>3, <2>3, <2>4, <3>2
    <3> QED BY <3>1, <3>2
  <2> QED BY <1>1, <2>1, <2>4 DEF PromisesKept
<1>14. TracesRooted' /\ DecidedSoFar'
  BY <1>1, <1>7 DEF Construction, TracesRooted, DecidedSoFar, HasTrace, Settled
<1> QED BY <1>8, <1>10, <1>11, <1>12, <1>13, <1>14 DEF Construction

\* The reference p is settled, so what is read of it stays true, and s agrees
\* with p's trace as p does.
LEMMA ReadFlagsKeeps ==
  ASSUME TypeOK, Construction, Recording, NEW t \in Threads, ReadFlags(t)
  PROVE  TypeOK' /\ Construction' /\ Recording'
<1>s. PICK s, q, p : s = pc[t].span /\ q = pc[t].references /\ p = Head(q)
  OBVIOUS
<1>c. PICK T, b, c :
      /\ T = IF parents[s] = <<>> THEN context[p].trace ELSE context[s].trace
      /\ b = (context[s].sampled \/ context[p].sampled)
      /\ c = AppendTraceState(context[s].state, context[p].state)
  OBVIOUS
<1> DEFINE r == [pc[t] EXCEPT !.at = "baggage"]
<1>1. /\ pc[t].at = "flags" /\ q # <<>> /\ p # None
      /\ context' = [context EXCEPT ![s].trace = T, ![s].sampled = b, ![s].state = c]
      /\ pc' = [pc EXCEPT ![t] = r]
      /\ parents' = [parents EXCEPT ![s] = Append(@, p)]
      /\ decided' = IF parents[s] # <<>> /\ context[p].trace # context[s].trace
                    THEN decided \cup {context[s].trace} ELSE decided
      /\ UNCHANGED <<phase, written, finished, recorded, promised>>
  BY <1>s, <1>c DEF ReadFlags
<1>2. /\ s \in Spans /\ q \in Seq(Refs) /\ phase[s] = "starting"
      /\ ~Settled(s) /\ ~finished[s] /\ s \notin Remotes
      /\ \A u \in Threads : u # t => pc[u].span # s
      /\ \A u \in Threads : \A i \in DOMAIN pc[u].references :
           pc[u].references[i] # s
      /\ \A x \in Spans : \A i \in DOMAIN parents[x] : parents[x][i] # s
      /\ \A x \in Spans : parents[x] # <<>> => Head(parents[x]) # s
  BY <1>s, <1>1, UnderConstruction
<1>3. p \in Spans \cup Remotes /\ p # s /\ Settled(p)
  <2>1. 1 \in DOMAIN q /\ q[1] = p
    BY <1>s, <1>1, <1>2, TailProperties
  <2> QED BY <1>s, <1>1, <1>2, <2>1, ReferenceTypes, SMTT(30)
          DEF Construction, ReferencesLive, Open, Settled
<1>4. /\ r \in Pcs /\ r.at = "baggage" /\ r.span = s /\ r.references = q
  <2>1. pc[t] \in [at : {"flags", "baggage"}, span : Spans, references : Seq(Refs)]
    BY <1>1 DEF TypeOK, Pcs, Refs
  <2>2. /\ r \in [at : {"flags", "baggage"}, span : Spans, references : Seq(Refs)]
        /\ r.at = "baggage" /\ r.span = s /\ r.references = q
    BY <1>s, <2>1
  <2> HIDE DEF r
  <2> QED BY <2>2 DEF Pcs, Refs
<1> HIDE DEF r
<1>5. /\ pc' \in [Threads -> Pcs] /\ pc'[t] = r
      /\ \A u \in Threads : u # t => pc'[u] = pc[u]
  BY <1>1, <1>4 DEF TypeOK
<1>6. /\ context[s].trace \in Refs /\ context[p].trace \in Refs
      /\ context[s].sampled \in BOOLEAN /\ context[p].sampled \in BOOLEAN
      /\ context[s].state \in States /\ context[p].state \in States
  BY <1>2, <1>3, ContextTypes
<1>7. T \in Refs /\ b \in BOOLEAN
  BY <1>c, <1>6
<1>8. c \in States /\ Holds(c, context[s].state) /\ Holds(c, context[p].state)
  BY <1>c, <1>6, AppendTraceStateHolds
<1>9. /\ parents' \in [Spans -> Seq(Spans \cup Remotes)]
      /\ \A x \in Spans : x # s => parents'[x] = parents[x]
      /\ parents'[s] # <<>>
      /\ Head(parents'[s]) = IF parents[s] = <<>> THEN p ELSE Head(parents[s])
      /\ \A i \in DOMAIN parents'[s] :
           (i \in DOMAIN parents[s] /\ parents'[s][i] = parents[s][i])
           \/ parents'[s][i] = p
  <2> DEFINE a == Append(parents[s], p)
  <2>1. parents[s] \in Seq(Spans \cup Remotes)
    BY <1>2 DEF TypeOK
  <2>2. /\ a \in Seq(Spans \cup Remotes) /\ a # <<>>
        /\ Head(a) = IF parents[s] = <<>> THEN p ELSE Head(parents[s])
        /\ \A i \in DOMAIN a : (i \in DOMAIN parents[s] /\ a[i] = parents[s][i]) \/ a[i] = p
    <3> HIDE DEF a
    <3>1. a = Append(parents[s], p)
      BY DEF a
    <3> QED BY <1>3, <2>1, <3>1, AppendHead
  <2>3. parents' = [parents EXCEPT ![s] = a]
    BY <1>1
  <2> HIDE DEF a
  <2> QED BY <1>2, <2>2, <2>3 DEF TypeOK
<1>10. /\ context' \in [Spans \cup Remotes -> Contexts]
       /\ \A x \in Spans \cup Remotes : x # s => context'[x] = context[x]
       /\ \A x \in Spans \cup Remotes : context'[x].baggage = context[x].baggage
       /\ context'[s].trace = T /\ context'[s].sampled = b /\ context'[s].state = c
  <2> DEFINE e == [[[context[s] EXCEPT !.trace = T] EXCEPT !.sampled = b] EXCEPT !.state = c]
  <2>1. context[s] \in Contexts
    BY <1>2 DEF TypeOK
  <2>2. /\ e \in Contexts /\ e.trace = T /\ e.sampled = b /\ e.state = c
        /\ e.baggage = context[s].baggage
    BY <1>7, <1>8, <2>1 DEF Contexts, Refs, States, Members
  <2>3. context' = [context EXCEPT ![s] = e]
    BY <1>1, <1>2 DEF TypeOK
  <2> HIDE DEF e
  <2> QED BY <1>2, <2>2, <2>3 DEF TypeOK
<1>11. TypeOK'
  BY <1>1, <1>5, <1>6, <1>9, <1>10 DEF TypeOK, Refs
<1>12. OneOwner'
  BY <1>s, <1>1, <1>2, <1>4, <1>5 DEF Recording, OneOwner, Open
<1>13. Recording'
  BY <1>1, <1>2, <1>10, <1>12, RecordingKept
<1>14. ReferencesLive'
  <2>1. \A u \in Threads : pc'[u].references = pc[u].references
    BY <1>s, <1>4, <1>5
  <2>2. \A x \in Spans : \A i \in DOMAIN parents'[x] : Settled(parents'[x][i])
    BY <1>3, <1>9 DEF Construction, ReferencesLive
  <2>3. \A x \in Spans : phase[x] = "unborn" => parents'[x] = <<>>
    BY <1>2, <1>9 DEF Construction, ReferencesLive
  <2> QED BY <1>1, <2>1, <2>2, <2>3 DEF Construction, ReferencesLive, Open, Settled
<1>15. InheritsSoFar'
  <2>1. context'[s].trace = context'[Head(parents'[s])].trace
    <3>1. CASE parents[s] = <<>>
      BY <1>c, <1>3, <1>9, <1>10, <3>1
    <3>2. CASE parents[s] # <<>>
      <4>1. Head(parents[s]) \in Spans \cup Remotes /\ Head(parents[s]) # s
        BY <1>2, <3>2, ParentTypes
      <4>2. context[s].trace = context[Head(parents[s])].trace
        BY <1>2, <3>2 DEF Construction, InheritsSoFar
      <4> QED BY <1>c, <1>9, <1>10, <3>2, <4>1, <4>2
    <3> QED BY <3>1, <3>2
  <2>2. ASSUME NEW i \in DOMAIN parents'[s]
        PROVE  Holds(context'[s].state, context'[parents'[s][i]].state)
    <3>1. CASE parents'[s][i] = p
      BY <1>3, <1>8, <1>10, <3>1
    <3>2. CASE i \in DOMAIN parents[s] /\ parents'[s][i] = parents[s][i]
      <4>1. Holds(context[s].state, context[parents[s][i]].state)
        BY <1>2, <3>2 DEF Construction, InheritsSoFar, Holds
      <4>2. parents[s][i] \in Spans \cup Remotes /\ parents[s][i] # s
        BY <1>2, <3>2, ParentTypes
      <4>3. Holds(c, context[parents[s][i]].state)
        BY <1>8, <4>1, HoldsTransitive
      <4> QED BY <1>10, <3>2, <4>2, <4>3
    <3> QED BY <1>9, <3>1, <3>2
  <2> QED BY <1>2, <1>9, <1>10, <2>1, <2>2, OthersInherit
<1>16. PromisesKept'
  <2>1. ASSUME NEW u \in Threads
        PROVE  /\ pc'[u].references = pc[u].references
               /\ pc'[u].span = pc[u].span
               /\ pc'[u].at \in {"flags", "baggage"} => pc[u].at \in {"flags", "baggage"}
    <3>1. CASE u = t
      BY <1>s, <1>1, <1>4, <1>5, <3>1
    <3>2. CASE u # t
      BY <1>5, <3>2
    <3> QED BY <3>1, <3>2
  <2>2. \A u \in Threads : pc[u].at \in {"flags", "baggage"} => pc[u].span \in Spans
    BY PcTypes
  <2>3. \A u \in Threads : \A i \in DOMAIN pc[u].references :
          pc[u].references[i] # None => pc[u].references[i] \in Spans \cup Remotes
    BY ReferenceTypes
  <2>4. \A x \in Spans : Settled(x)' => promised'[x] \subseteq DOMAIN context'[x].baggage
    BY <1>1, <1>10 DEF Construction, PromisesKept, Settled
  <2>5. ASSUME NEW u \in Threads, pc'[u].at \in {"flags", "baggage"},
               NEW k \in promised'[pc'[u].span]
        PROVE  \/ k \in DOMAIN context'[pc'[u].span].baggage
               \/ \E i \in DOMAIN pc'[u].references :
                    /\ pc'[u].references[i] # None
                    /\ k \in DOMAIN context'[pc'[u].references[i]].baggage
    <3>1. /\ pc[u].at \in {"flags", "baggage"} /\ pc[u].span \in Spans
          /\ k \in promised[pc[u].span]
      BY <1>1, <2>1, <2>2, <2>5
    <3>2. CASE k \in DOMAIN context[pc[u].span].baggage
      BY <1>10, <2>1, <3>1, <3>2
    <3>3. CASE k \notin DOMAIN context[pc[u].span].baggage
      <4>1. PICK i \in DOMAIN pc[u].references :
              /\ pc[u].references[i] # None
              /\ k \in DOMAIN context[pc[u].references[i]].baggage
        BY <3>1, <3>3 DEF Construction, PromisesKept
      <4> QED BY <1>10, <2>1, <2>3, <4>1
    <3> QED BY <3>2, <3>3
  <2> QED BY <2>4, <2>5 DEF PromisesKept
<1>17. HasTrace(s)' /\ \A x \in Spans \cup Remotes : x # s => (HasTrace(x)' <=> HasTrace(x))
  <2>1. HasTrace(s)'
    BY <1>9 DEF HasTrace
  <2>2. \A x \in Spans \cup Remotes : Settled(x)' <=> Settled(x)
    BY <1>1 DEF Settled
  <2>3. ASSUME NEW x \in Spans, x # s
        PROVE  HasTrace(x)' <=> HasTrace(x)
    BY <1>9, <2>2, <2>3 DEF HasTrace
  <2>4. ASSUME NEW x \in Remotes
        PROVE  HasTrace(x)' <=> HasTrace(x)
    BY DEF HasTrace, Settled
  <2> QED BY <2>1, <2>3, <2>4
<1>18. TracesRooted'
  <2>1. context[p].trace # None /\ Settled(context[p].trace)
    BY <1>3 DEF Construction, TracesRooted, HasTrace
  <2>2. parents[s] # <<>> => context[s].trace # None /\ Settled(context[s].trace)
    BY <1>2 DEF Construction, TracesRooted, HasTrace
  <2>3. T # None /\ Settled(T)
    BY <1>c, <2>1, <2>2
  <2>4. \A y : Settled(y)' <=> Settled(y)
    BY <1>1 DEF Settled
  <2>5. \A x \in Spans \cup Remotes : HasTrace(x)' =>
          context'[x].trace # None /\ Settled(context'[x].trace)
    BY <1>10, <1>17, <2>3 DEF Construction, TracesRooted
  <2>6. \A x \in Remotes : context'[x].trace = x
    BY <1>2, <1>10 DEF Construction, TracesRooted
  <2>7. \A x \in Spans : Settled(x) /\ parents'[x] = <<>> => context'[x].trace = x
    BY <1>2, <1>9, <1>10 DEF Construction, TracesRooted
  <2> QED BY <2>4, <2>5, <2>6, <2>7 DEF TracesRooted
<1>19. DecidedSoFar'
  <2>1. ASSUME NEW x \in Spans \cup Remotes, x # s, HasTrace(x),
               context[x].trace = T, T \notin decided'
        PROVE  context[x].sampled = b
    <3>1. HasTrace(p)
      BY <1>3 DEF HasTrace
    <3>2. CASE parents[s] = <<>>
      <4>1. context[s].sampled = FALSE
        BY <1>2, <3>2 DEF Construction, DecidedSoFar, HasTrace
      <4>2. context[x].sampled = context[p].sampled
        BY <1>c, <1>1, <1>3, <2>1, <3>1, <3>2 DEF Construction, DecidedSoFar
      <4> QED BY <1>c, <1>6, <4>1, <4>2
    <3>3. CASE parents[s] # <<>>
      <4>1. HasTrace(s)
        BY <3>3 DEF HasTrace
      <4>2. context[p].trace = T /\ context[s].trace = T /\ decided' = decided
        BY <1>c, <1>1, <2>1, <3>3
      <4>3. context[x].sampled = context[s].sampled
        BY <1>2, <2>1, <4>1, <4>2 DEF Construction, DecidedSoFar
      <4>4. context[p].sampled = context[s].sampled
        BY <1>2, <1>3, <2>1, <3>1, <4>1, <4>2 DEF Construction, DecidedSoFar
      <4> QED BY <1>c, <1>6, <4>3, <4>4
    <3> QED BY <3>2, <3>3
  <2>2. decided \subseteq decided'
    BY <1>1
  <2>3. ASSUME NEW x \in Spans, ~HasTrace(x)'
        PROVE  context'[x].sampled = FALSE
    <3>1. x # s /\ ~HasTrace(x)
      BY <1>17, <2>3
    <3>2. context[x].sampled = FALSE
      BY <3>1 DEF Construction, DecidedSoFar
    <3> QED BY <1>10, <3>1, <3>2
  <2>4. ASSUME NEW x \in Spans \cup Remotes, NEW y \in Spans \cup Remotes,
               HasTrace(x)', HasTrace(y)', context'[x].trace = context'[y].trace,
               context'[x].trace \notin decided'
        PROVE  context'[x].sampled = context'[y].sampled
    <3>1. CASE x # s /\ y # s
      <4>1. /\ HasTrace(x) /\ HasTrace(y) /\ context[x].trace = context[y].trace
            /\ context[x].trace \notin decided
        BY <1>10, <1>17, <2>2, <2>4, <3>1
      <4>2. context[x].sampled = context[y].sampled
        BY <4>1 DEF Construction, DecidedSoFar
      <4> QED BY <1>10, <3>1, <4>2
    <3>2. CASE x = s /\ y # s
      BY <1>10, <1>17, <2>1, <2>4, <3>2
    <3>3. CASE x # s /\ y = s
      BY <1>10, <1>17, <2>1, <2>4, <3>3
    <3>4. CASE x = s /\ y = s
      BY <3>4
    <3> QED BY <3>1, <3>2, <3>3, <3>4
  <2> QED BY <2>3, <2>4 DEF DecidedSoFar
<1> QED BY <1>11, <1>13, <1>14, <1>15, <1>16, <1>18, <1>19 DEF Construction

\* The constructor returns: s is the root of a trace of its own, or belongs to
\* the trace of its first parent.
LEMMA OpenedKeeps ==
  ASSUME TypeOK, Construction, Recording, NEW t \in Threads,
         NEW tags \in SUBSET BOOLEAN, Opened(t, tags)
  PROVE  TypeOK' /\ Construction' /\ Recording'
<1>s. PICK s : s = pc[t].span
  OBVIOUS
<1>c. PICK T, b :
        /\ T = IF parents[s] = <<>> THEN s ELSE context[s].trace
        /\ b = IF tags # {} THEN TRUE \in tags
               ELSE context[s].sampled \/ parents[s] = <<>>
  OBVIOUS
<1>1. /\ pc[t].at = "flags" /\ pc[t].references = <<>>
      /\ context' = [context EXCEPT ![s].trace = T, ![s].sampled = b]
      /\ phase' = [phase EXCEPT ![s] = "open"]
      /\ pc' = [pc EXCEPT ![t] = Idle]
      /\ decided' = IF tags # {} THEN decided \cup {context'[s].trace} ELSE decided
      /\ UNCHANGED <<written, finished, recorded, parents, promised>>
  BY <1>s, <1>c DEF Opened
<1>2. /\ s \in Spans /\ s # None /\ s \notin Remotes /\ phase[s] = "starting"
      /\ ~Settled(s) /\ ~finished[s]
      /\ \A u \in Threads : u # t => pc[u].span # s
      /\ \A u \in Threads : \A i \in DOMAIN pc[u].references :
           pc[u].references[i] # s
      /\ \A x \in Spans : \A i \in DOMAIN parents[x] : parents[x][i] # s
      /\ \A x \in Spans : parents[x] # <<>> => Head(parents[x]) # s
      /\ \A x \in Spans \cup Remotes : HasTrace(x) => context[x].trace # s
  BY <1>s, <1>1, UnderConstruction
<1>3. /\ pc' \in [Threads -> Pcs] /\ pc'[t] = Idle
      /\ \A u \in Threads : u # t => pc'[u] = pc[u]
      /\ phase' \in [Spans -> {"unborn", "starting", "open", "destroyed"}]
      /\ phase'[s] = "open"
      /\ \A x \in Spans : x # s => phase'[x] = phase[x]
  BY <1>1, <1>2, IdleFields DEF TypeOK
<1>4. context[s].trace \in Refs /\ context[s].sampled \in BOOLEAN
  BY <1>2, ContextTypes
<1>5. T \in Refs /\ b \in BOOLEAN
  <2>1. T \in Refs
    BY <1>c, <1>2, <1>4 DEF Refs
  <2>2. b \in BOOLEAN
    <3>1. CASE tags # {}
      <4>1. b = (TRUE \in tags)
        BY <1>c, <3>1
      <4> QED BY <4>1
    <3>2. CASE tags = {}
      <4>1. b = (context[s].sampled \/ parents[s] = <<>>)
        BY <1>c, <3>2
      <4> QED BY <4>1
    <3> QED BY <3>1, <3>2
  <2> QED BY <2>1, <2>2
<1>6. /\ context' \in [Spans \cup Remotes -> Contexts]
      /\ \A x \in Spans \cup Remotes : x # s => context'[x] = context[x]
      /\ \A x \in Spans \cup Remotes : /\ context'[x].baggage = context[x].baggage
                                       /\ context'[x].state = context[x].state
      /\ context'[s].trace = T /\ context'[s].sampled = b
  <2> DEFINE e == [[context[s] EXCEPT !.trace = T] EXCEPT !.sampled = b]
  <2>1. context[s] \in Contexts
    BY <1>2 DEF TypeOK
  <2>2. /\ e \in Contexts /\ e.trace = T /\ e.sampled = b
        /\ e.baggage = context[s].baggage /\ e.state = context[s].state
    BY <1>5, <2>1 DEF Contexts, Refs
  <2>3. context' = [context EXCEPT ![s] = e]
    BY <1>1, <1>2 DEF TypeOK
  <2> HIDE DEF e
  <2> QED BY <1>2, <2>2, <2>3 DEF TypeOK
<1>7. TypeOK'
  <2>1. decided' = decided \/ decided' = decided \cup {T}
    BY <1>1, <1>6
  <2>2. decided' \subseteq Spans \cup Remotes \cup {None}
    BY <1>5, <2>1 DEF TypeOK, Refs
  <2> QED BY <1>1, <1>3, <1>6, <2>2 DEF TypeOK
<1>8. OneOwner'
  <2>1. \A u \in Threads : pc[u].at # "idle" => pc[u].span \in Spans
    BY PcTypes, LegacyAssumption
  <2> QED BY <1>1, <1>2, <1>3, <2>1, IdleFields DEF Recording, OneOwner, Open
<1>9. Recording'
  BY <1>1, <1>2, <1>6, <1>8, RecordingKept
<1>10. /\ \A x \in Spans \cup Remotes : x # s => (Settled(x)' <=> Settled(x))
       /\ \A x \in Spans \cup Remotes : Settled(x) => Settled(x)'
  BY <1>2, <1>3 DEF Settled
<1>11. ReferencesLive'
  <2>1. \A x \in Spans : phase[x] = "open" => phase'[x] = "open"
    BY <1>3
  <2>2. ASSUME NEW u \in Threads, NEW i \in DOMAIN pc'[u].references,
               pc'[u].references[i] # None
        PROVE  pc'[u].references[i] \in Remotes \/ phase'[pc'[u].references[i]] = "open"
    <3>1. u # t /\ pc'[u] = pc[u]
      BY <1>3, <2>2, IdleFields
    <3> QED BY <2>1, <2>2, <3>1, ReferenceTypes DEF Construction, ReferencesLive, Open
  <2>3. \A x \in Spans : \A i \in DOMAIN parents[x] : Settled(parents[x][i])'
    <3> SUFFICES ASSUME NEW x \in Spans, NEW i \in DOMAIN parents[x]
                 PROVE  Settled(parents[x][i])'
      OBVIOUS
    <3>1. PICK y : y = parents[x][i]
      OBVIOUS
    <3>2. y \in Spans \cup Remotes /\ Settled(y) /\ parents'[x][i] = y
      BY <1>1, <3>1, ParentTypes DEF Construction, ReferencesLive
    <3>3. Settled(y)'
      BY <1>10, <3>2
    <3> QED BY <3>2, <3>3 DEF Settled
  <2>4. \A x \in Spans : phase'[x] = "unborn" => parents[x] = <<>>
    BY <1>3 DEF Construction, ReferencesLive
  <2> QED BY <1>1, <2>2, <2>3, <2>4 DEF ReferencesLive, Open
<1>12. InheritsSoFar'
  <2>1. parents[s] # <<>> => context'[s].trace = context'[Head(parents[s])].trace
    BY <1>c, <1>2, <1>6, ParentTypes DEF Construction, InheritsSoFar
  <2>2. \A i \in DOMAIN parents[s] : Holds(context'[s].state, context'[parents[s][i]].state)
    <3>1. \A i \in DOMAIN parents[s] : Holds(context[s].state, context[parents[s][i]].state)
      BY <1>2 DEF Construction, InheritsSoFar, Holds
    <3> QED BY <1>2, <1>6, <3>1, ParentTypes
  <2> QED BY <1>1, <1>2, <1>6, <2>1, <2>2, OthersInherit
<1>13. PromisesKept'
  <2>1. promised[s] \subseteq DOMAIN context[s].baggage
    <3>1. DOMAIN pc[t].references = {}
      BY <1>1
    <3> QED BY <1>s, <1>1, <3>1 DEF Construction, PromisesKept
  <2>2. \A x \in Spans : Settled(x)' => promised[x] \subseteq DOMAIN context'[x].baggage
    <3> SUFFICES ASSUME NEW x \in Spans, Settled(x)'
                 PROVE  promised[x] \subseteq DOMAIN context'[x].baggage
      OBVIOUS
    <3>1. CASE x = s
      BY <1>6, <2>1, <3>1
    <3>2. CASE x # s
      BY <1>6, <1>10, <3>2 DEF Construction, PromisesKept
    <3> QED BY <3>1, <3>2
  <2>3. ASSUME NEW u \in Threads, pc'[u].at \in {"flags", "baggage"},
               NEW k \in promised[pc'[u].span]
        PROVE  \/ k \in DOMAIN context'[pc'[u].span].baggage
               \/ \E i \in DOMAIN pc'[u].references :
                    /\ pc'[u].references[i] # None
                    /\ k \in DOMAIN context'[pc'[u].references[i]].baggage
    <3>1. pc'[u] = pc[u]
      BY <1>3, <2>3, IdleFields
    <3>2. pc[u].span \in Spans
      BY <2>3, <3>1, PcTypes
    <3>3. CASE k \in DOMAIN context[pc[u].span].baggage
      BY <1>6, <3>1, <3>2, <3>3
    <3>4. CASE k \notin DOMAIN context[pc[u].span].baggage
      <4>1. PICK i \in DOMAIN pc[u].references :
              /\ pc[u].references[i] # None
              /\ k \in DOMAIN context[pc[u].references[i]].baggage
        BY <2>3, <3>1, <3>4 DEF Construction, PromisesKept
      <4> QED BY <1>6, <3>1, <4>1, ReferenceTypes
    <3> QED BY <3>3, <3>4
  <2> QED BY <1>1, <2>2, <2>3 DEF PromisesKept
<1>14. /\ Settled(s)' /\ HasTrace(s)'
       /\ \A x \in Spans \cup Remotes : x # s => (HasTrace(x)' <=> HasTrace(x))
  <2>1. Settled(s)'
    BY <1>3 DEF Settled
  <2>2. ASSUME NEW x \in Spans, x # s
        PROVE  HasTrace(x)' <=> HasTrace(x)
    <3>1. (Settled(x)' <=> Settled(x)) /\ parents' = parents
      BY <1>1, <1>10, <2>2
    <3> QED BY <3>1 DEF HasTrace
  <2>3. ASSUME NEW x \in Remotes
        PROVE  HasTrace(x)' <=> HasTrace(x)
    BY DEF HasTrace, Settled
  <2> QED BY <2>1, <2>2, <2>3 DEF HasTrace
<1>15. TracesRooted'
  <2>1. parents[s] # <<>> => context[s].trace # None /\ Settled(context[s].trace)
    BY <1>2 DEF Construction, TracesRooted, HasTrace
  <2>2. \A y \in Refs : y # None /\ Settled(y) => Settled(y)'
    <3> SUFFICES ASSUME NEW y \in Refs, y # None, Settled(y)
                 PROVE  Settled(y)'
      OBVIOUS
    <3> QED BY <1>10 DEF Refs
  <2>3. T # None /\ Settled(T)'
    <3>1. CASE parents[s] = <<>>
      BY <1>c, <1>2, <1>14, <3>1
    <3>2. CASE parents[s] # <<>>
      BY <1>c, <1>4, <2>1, <2>2, <3>2
    <3> QED BY <3>1, <3>2
  <2>4. ASSUME NEW x \in Spans \cup Remotes, x # s, HasTrace(x)
        PROVE  context'[x].trace # None /\ Settled(context[x].trace)'
    <3>1. PICK y : y = context[x].trace
      OBVIOUS
    <3>2. y \in Refs /\ y # None /\ Settled(y)
      BY <2>4, <3>1, ContextTypes DEF Construction, TracesRooted
    <3>3. Settled(y)' /\ context'[x].trace = y
      BY <1>6, <2>2, <2>4, <3>1, <3>2
    <3> QED BY <3>2, <3>3 DEF Settled
  <2>5. \A x \in Spans \cup Remotes : HasTrace(x)' =>
          context'[x].trace # None /\ Settled(context[x].trace)'
    <3> SUFFICES ASSUME NEW x \in Spans \cup Remotes, HasTrace(x)'
                 PROVE  context'[x].trace # None /\ Settled(context[x].trace)'
      OBVIOUS
    <3>1. CASE x = s
      <4> QED BY <1>6, <2>3, <3>1 DEF Settled
    <3>2. CASE x # s
      BY <1>14, <2>4, <3>2
    <3> QED BY <3>1, <3>2
  <2>6. \A x \in Remotes : context'[x].trace = x
    BY <1>2, <1>6 DEF Construction, TracesRooted
  <2>7. ASSUME NEW x \in Spans, Settled(x)', parents[x] = <<>>
        PROVE  context'[x].trace = x
    <3>1. CASE x = s
      BY <1>c, <1>6, <2>7, <3>1
    <3>2. CASE x # s
      BY <1>6, <1>10, <2>7, <3>2 DEF Construction, TracesRooted
    <3> QED BY <3>1, <3>2
  <2> QED BY <1>1, <2>5, <2>6, <2>7 DEF TracesRooted, Settled
<1>16. DecidedSoFar'
  <2>1. ASSUME NEW x \in Spans \cup Remotes, x # s, HasTrace(x),
               context[x].trace = T, T \notin decided'
        PROVE  context[x].sampled = b
    <3>1. parents[s] # <<>>
      BY <1>c, <1>2, <2>1
    <3>2. HasTrace(s) /\ context[s].trace = T
      BY <1>c, <3>1 DEF HasTrace
    <3>3. tags = {} /\ decided' = decided
      BY <1>1, <1>6, <2>1
    <3>4. context[x].sampled = context[s].sampled
      BY <1>2, <2>1, <3>2, <3>3 DEF Construction, DecidedSoFar
    <3> QED BY <1>c, <1>4, <3>1, <3>3, <3>4
  <2>2. decided \subseteq decided'
    BY <1>1
  <2>3. ASSUME NEW x \in Spans, ~HasTrace(x)'
        PROVE  context'[x].sampled = FALSE
    <3>1. x # s /\ ~HasTrace(x)
      BY <1>14, <2>3
    <3>2. context[x].sampled = FALSE
      BY <3>1 DEF Construction, DecidedSoFar
    <3> QED BY <1>6, <3>1, <3>2
  <2>4. ASSUME NEW x \in Spans \cup Remotes, NEW y \in Spans \cup Remotes,
               HasTrace(x)', HasTrace(y)', context'[x].trace = context'[y].trace,
               context'[x].trace \notin decided'
        PROVE  context'[x].sampled = context'[y].sampled
    <3>1. CASE x # s /\ y # s
      <4>1. /\ HasTrace(x) /\ HasTrace(y) /\ context[x].trace = context[y].trace
            /\ context[x].trace \notin decided
        BY <1>6, <1>14, <2>2, <2>4, <3>1
      <4>2. context[x].sampled = context[y].sampled
        BY <4>1 DEF Construction, DecidedSoFar
      <4> QED BY <1>6, <3>1, <4>2
    <3>2. CASE x = s /\ y # s
      BY <1>6, <1>14, <2>1, <2>4, <3>2
    <3>3. CASE x # s /\ y = s
      BY <1>6, <1>14, <2>1, <2>4, <3>3
    <3>4. CASE x = s /\ y = s
      BY <3>4
    <3> QED BY <3>1, <3>2, <3>3, <3>4
  <2> QED BY <2>3, <2>4 DEF DecidedSoFar
<1> QED BY <1>7, <1>9, <1>11, <1>12, <1>13, <1>15, <1>16 DEF Construction

-----------------------------------------------------------------------------
(* The initial states and the steps.                                       *)

LEMMA InitKeeps == Init => TypeOK /\ Construction /\ Recording
<1> SUFFICES ASSUME Init
             PROVE  TypeOK /\ Construction /\ Recording
  OBVIOUS
<1>1. PICK remote \in [Remotes -> UNION {RemoteContexts(r) : r \in Remotes}] :
        /\ \A r \in Remotes : remote[r] \in RemoteContexts(r)
        /\ context = [x \in Spans \cup Remotes |->
                        IF x \in Spans THEN NewContext ELSE remote[x]]
  BY DEF Init
<1>2. /\ phase = [s \in Spans |-> "unborn"] /\ written = [s \in Spans |-> 0]
      /\ finished = [s \in Spans |-> FALSE] /\ recorded = [s \in Spans |-> <<>>]
      /\ pc = [t \in Threads |-> Idle] /\ parents = [s \in Spans |-> <<>>]
      /\ promised = [s \in Spans |-> {}] /\ decided = {}
  BY DEF Init
<1>3. NewContext \in Contexts /\ NewContext.sampled = FALSE
  <2>1. <<>> \in Seq(Remotes \cup {","})
    BY EmptySeq
  <2> QED BY <2>1, EmptyBaggage DEF NewContext, Contexts
<1>4. ASSUME NEW r \in Remotes
      PROVE  remote[r] \in Contexts /\ remote[r].trace = r
  <2>1. <<>> \in Seq(Remotes \cup {","}) /\ <<r>> \in Seq(Remotes \cup {","})
    BY EmptySeq, SingletonSeq
  <2>2. remote[r] \in RemoteContexts(r)
    BY <1>1
  <2> QED BY <2>1, <2>2 DEF RemoteContexts, Contexts
<1>5. /\ context \in [Spans \cup Remotes -> Contexts]
      /\ \A s \in Spans : context[s].sampled = FALSE
      /\ \A r \in Remotes : context[r].trace = r
  BY <1>1, <1>3, <1>4, NamesAssumption
<1>6. TypeOK
  <2>1. <<>> \in Seq(Reports) /\ <<>> \in Seq(Spans \cup Remotes)
    BY EmptySeq
  <2> QED BY <1>2, <1>5, <2>1, IdleFields DEF TypeOK
<1>7. \A s \in Spans : ~Settled(s) /\ ~HasTrace(s)
  BY <1>2, NamesAssumption DEF Settled, HasTrace
<1>8. ReferencesLive
  BY <1>2, IdleFields DEF ReferencesLive
<1>9. InheritsSoFar /\ PromisesKept
  BY <1>2, <1>7, IdleFields DEF InheritsSoFar, PromisesKept
<1>10. TracesRooted
  BY <1>5, <1>7, NamesAssumption DEF TracesRooted, Settled
<1>11. DecidedSoFar
  BY <1>5, <1>7 DEF DecidedSoFar
<1>12. Recording
  <2>1. Len(<<>>) <= 1
    OBVIOUS
  <2>2. RecordedOnce
    BY <1>2, <2>1 DEF RecordedOnce
  <2>3. OneOwner
    BY <1>2, IdleFields DEF OneOwner
  <2>4. ReportsAreFaithful
    BY <1>2, LegacyAssumption DEF ReportsAreFaithful, ReportIsFinal, ReportIsPart
  <2> QED BY <2>2, <2>3, <2>4 DEF Recording
<1> QED BY <1>6, <1>8, <1>9, <1>10, <1>11, <1>12 DEF Construction

LEMMA StutterKeeps ==
  ASSUME TypeOK, Construction, Recording, UNCHANGED vars
  PROVE  TypeOK' /\ Construction' /\ Recording'
<1>1. TypeOK'
  BY DEF vars, spanVars, TypeOK
<1>2. Construction'
  BY ConstructionKept DEF vars, spanVars
<1>3. OneOwner'
  BY DEF vars, spanVars, Recording, OneOwner, Open
<1>4. Recording'
  BY <1>3, RecordingKept DEF vars, spanVars
<1> QED BY <1>1, <1>2, <1>4

LEMMA NextKeeps ==
  ASSUME TypeOK, Construction, Recording, Next
  PROVE  TypeOK' /\ Construction' /\ Recording'
<1>1. PICK t \in Threads : Starting(t) \/ Changing(t) \/ Finishing(t)
  BY DEF Next
<1>2. CASE Starting(t)
  <2>1. CASE \E s \in Spans, references \in References : Start(t, s, references)
    BY <2>1, StartKeeps
  <2>2. CASE SkipReference(t)
    BY <2>2, SkipReferenceKeeps
  <2>3. CASE ReadFlags(t)
    BY <2>3, ReadFlagsKeeps
  <2>4. CASE ReadBaggage(t)
    BY <2>4, ReadBaggageKeeps
  <2>5. CASE \E tags \in SUBSET BOOLEAN : Opened(t, tags)
    BY <2>5, OpenedKeeps
  <2> QED BY <1>2, <2>1, <2>2, <2>3, <2>4, <2>5 DEF Starting
<1>3. CASE Changing(t)
  <2>1. PICK s \in Spans :
          \/ Write(t, s)
          \/ \E sampled \in BOOLEAN : SetSampling(t, s, sampled)
          \/ \E k \in Keys, v \in Values : SetBaggageItem(t, s, k, v)
    BY <1>3 DEF Changing
  <2>2. CASE Write(t, s)
    BY <2>2, WriteKeeps
  <2>3. CASE \E sampled \in BOOLEAN : SetSampling(t, s, sampled)
    BY <2>3, SetSamplingKeeps
  <2>4. CASE \E k \in Keys, v \in Values : SetBaggageItem(t, s, k, v)
    BY <2>4, SetBaggageItemKeeps
  <2> QED BY <2>1, <2>2, <2>3, <2>4
<1>4. CASE Finishing(t)
  <2>1. CASE \E s \in Spans : Finish(t, s)
    BY <2>1, FinishKeeps
  <2>2. CASE \E s \in Spans : FinishLegacy(t, s)
    BY <2>2, FinishLegacyKeeps
  <2>3. CASE \E s \in Spans : Destroy(t, s)
    BY <2>3, DestroyKeeps
  <2>4. CASE RecordLegacy(t)
    BY <2>4, RecordLegacyKeeps
  <2> QED BY <1>4, <2>1, <2>2, <2>3, <2>4 DEF Finishing
<1> QED BY <1>1, <1>2, <1>3, <1>4

LEMMA InitInv == Init => IndInv
BY InitKeeps, IndInvHalves

LEMMA InvStep == IndInv /\ [Next]_vars => IndInv'
<1> SUFFICES ASSUME IndInv, [Next]_vars
             PROVE  IndInv'
  OBVIOUS
<1>1. TypeOK /\ Construction /\ Recording
  BY IndInvHalves
<1>2. TypeOK' /\ Construction' /\ Recording'
  BY <1>1, NextKeeps, StutterKeeps
<1> QED BY <1>2 DEF IndInv, Construction, Recording

-----------------------------------------------------------------------------
(* Theorems                                                                *)

\* The inductive invariant: types, one owner per span, and what has been built
\* and recorded so far.
THEOREM SpansInvariant == Spec => []IndInv
BY InitInv, InvStep, PTL DEF Spec

\* ReportsAreFaithful: the report of a Span is final and there exactly if it is
\* sampled; the report of a LegacySpan is made of the first of its writes and of
\* baggage that the span keeps (span.cpp and legacy_span.cpp: FinishWithOptions, the destructors).
THEOREM ReportsFaithful == Spec => []ReportsAreFaithful
<1>1. IndInv => ReportsAreFaithful
  BY DEF IndInv
<1> QED BY <1>1, SpansInvariant, PTL

\* RecordedOnce: no span reaches the recorder twice, or before it is finished.
THEOREM SpansRecordedOnce == Spec => []RecordedOnce
<1>1. IndInv => RecordedOnce
  BY DEF IndInv
<1> QED BY <1>1, SpansInvariant, PTL

\* Inherits: a started span has the trace of its first valid reference, the
\* baggage its references had, and their trace states, although other threads
\* change the references while the constructor reads them.
THEOREM SpansInherit == Spec => []Inherits
<1>1. IndInv => Inherits
  <2> SUFFICES ASSUME IndInv, NEW s \in Spans, phase[s] \in {"open", "destroyed"}
               PROVE  /\ context[s].trace = IF parents[s] = <<>> THEN s
                                            ELSE context[Head(parents[s])].trace
                      /\ promised[s] \subseteq DOMAIN context[s].baggage
                      /\ \A i \in DOMAIN parents[s] :
                           Holds(context[s].state, context[parents[s][i]].state)
    BY DEF Inherits, Holds
  <2>1. Settled(s)
    BY DEF Settled
  <2>2. parents[s] = <<>> => context[s].trace = s
    BY <2>1 DEF IndInv, TracesRooted
  <2>3. parents[s] # <<>> => context[s].trace = context[Head(parents[s])].trace
    BY DEF IndInv, InheritsSoFar
  <2>4. promised[s] \subseteq DOMAIN context[s].baggage
    BY <2>1 DEF IndInv, PromisesKept
  <2>5. \A i \in DOMAIN parents[s] : Holds(context[s].state, context[parents[s][i]].state)
    BY DEF IndInv, InheritsSoFar, Holds
  <2> QED BY <2>2, <2>3, <2>4, <2>5
<1> QED BY <1>1, SpansInvariant, PTL

\* OneDecision: the spans of a trace are all sampled or all not, unless a tag or
\* a reference into another trace brought a second decision.
THEOREM DecisionsAgree == Spec => []OneDecision
<1>1. IndInv => OneDecision
  <2> SUFFICES ASSUME IndInv,
                      NEW x \in {s \in Spans : phase[s] \in {"open", "destroyed"}} \cup Remotes,
                      NEW y \in {s \in Spans : phase[s] \in {"open", "destroyed"}} \cup Remotes,
                      context[x].trace = context[y].trace, context[x].trace \notin decided
               PROVE  context[x].sampled = context[y].sampled
    BY DEF OneDecision
  <2>1. x \in Spans \cup Remotes /\ y \in Spans \cup Remotes /\ HasTrace(x) /\ HasTrace(y)
    BY DEF HasTrace, Settled
  <2> QED BY <2>1 DEF IndInv, DecidedSoFar
<1> QED BY <1>1, SpansInvariant, PTL

-----------------------------------------------------------------------------
(* Induction.                                                              *)

\* A set of numbers that is not empty has a smallest element.
LEMMA NatLeast ==
  ASSUME NEW T, T \subseteq Nat, T # {}
  PROVE  \E x \in T : \A y \in T : x <= y
<1>1. PICK R : R = OpToRel(<, Nat)
  OBVIOUS
<1>2. IsWellFoundedOn(R, Nat)
  BY <1>1, NatLessThanWellFounded
<1>3. PICK x \in T : \A y \in T : ~ (<<y, x>> \in R)
  BY <1>2, WFMin, Zenon
<1>4. \A y \in T : ~(y < x)
  BY <1>1, <1>3 DEF OpToRel
<1>5. \A y \in T : x <= y
  BY <1>4
<1> QED BY <1>5

\* Induction, for a set of numbers.
LEMMA NatAll ==
  ASSUME NEW T, 0 \in T, \A n \in Nat : n \in T => n + 1 \in T
  PROVE  Nat \subseteq T
<1>1. SUFFICES ASSUME Nat \ T # {} PROVE FALSE
  OBVIOUS
<1>2. PICK x \in Nat \ T : \A y \in Nat \ T : x <= y
  BY <1>1, NatLeast
<1>3. x # 0 /\ x - 1 \in Nat /\ (x - 1) + 1 = x /\ ~(x <= x - 1)
  BY <1>2
<1>4. x - 1 \in T
  BY <1>2, <1>3
<1> QED BY <1>2, <1>3, <1>4

-----------------------------------------------------------------------------
(* The loop over the extractors.                                           *)

\* f holds what the loop has found after each place up to n.
Loop(f, n, modes, headers) ==
  f = [i \in 0 .. n |->
        IF i = 0 THEN Result("none", NoContext)
        ELSE ExtractNext(ExtractPropagators(modes), headers, i, f[i - 1])]

LEMMA LoopExtends ==
  ASSUME NEW modes, NEW headers, NEW n \in Nat, NEW f, Loop(f, n, modes, headers)
  PROVE  \E g : Loop(g, n + 1, modes, headers)
<1>1. f = [i \in 0 .. n |->
        IF i = 0 THEN Result("none", NoContext)
        ELSE ExtractNext(ExtractPropagators(modes), headers, i, f[i - 1])]
  BY DEF Loop
<1>2. PICK g : g = [i \in 0 .. n + 1 |-> IF i = n + 1
             THEN ExtractNext(ExtractPropagators(modes), headers, i, f[i - 1]) ELSE f[i]]
  OBVIOUS
<1>3. ASSUME NEW i \in 0 .. n + 1
      PROVE  g[i] = IF i = 0 THEN Result("none", NoContext)
                    ELSE ExtractNext(ExtractPropagators(modes), headers, i, g[i - 1])
  <2>1. CASE i = 0
    BY <1>1, <1>2, <2>1
  <2>2. CASE i # 0
    <3>1. i - 1 \in 0 .. n /\ i - 1 # n + 1 /\ i - 1 \in 0 .. n + 1
      BY <1>3, <2>2
    <3>2. g[i - 1] = f[i - 1]
      BY <1>2, <3>1
    <3>3. g[i] = ExtractNext(ExtractPropagators(modes), headers, i, f[i - 1])
      BY <1>1, <1>2, <1>3, <2>2
    <3> QED BY <2>2, <3>2, <3>3
  <2> QED BY <2>1, <2>2
<1>4. Loop(g, n + 1, modes, headers)
  BY <1>2, <1>3 DEF Loop
<1> QED BY <1>4

LEMMA LoopExists ==
  ASSUME NEW modes, NEW headers, NEW n \in Nat
  PROVE  \E f : Loop(f, n, modes, headers)
<1>1. PICK T : T = {m \in Nat : \E f : Loop(f, m, modes, headers)}
  OBVIOUS
<1>2. 0 \in T
  <2>1. PICK f : f = [i \in 0 .. 0 |-> Result("none", NoContext)]
    OBVIOUS
  <2>2. \A i \in 0 .. 0 : i = 0
    OBVIOUS
  <2>3. Loop(f, 0, modes, headers)
    BY <2>1, <2>2 DEF Loop
  <2> QED BY <1>1, <2>3
<1>3. \A m \in Nat : m \in T => m + 1 \in T
  BY <1>1, LoopExtends
<1>4. Nat \subseteq T
  BY <1>2, <1>3, NatAll
<1> QED BY <1>1, <1>4

\* The loop starts with nothing and goes on as each extractor says.
LEMMA ExtractLoop ==
  ASSUME NEW modes, NEW headers, Len(modes) \in Nat
  PROVE  \E f : /\ f[0] = Result("none", NoContext)
                /\ \A i \in 1 .. 2 * Len(modes) :
                     f[i] = ExtractNext(ExtractPropagators(modes), headers, i, f[i - 1])
                /\ ExtractSpanContext(modes, headers) = f[2 * Len(modes)]
<1>1. PICK n : n = 2 * Len(modes)
  OBVIOUS
<1>2. n \in Nat /\ 0 \in 0 .. n
  BY <1>1
<1> DEFINE g == CHOOSE f : Loop(f, n, modes, headers)
<1>3. Loop(g, n, modes, headers)
  BY <1>2, LoopExists
<1>4. ExtractSpanContext(modes, headers) = g[n]
  BY <1>1 DEF ExtractSpanContext, Loop
<1> HIDE DEF g
<1>5. g = [i \in 0 .. n |->
           IF i = 0 THEN Result("none", NoContext)
           ELSE ExtractNext(ExtractPropagators(modes), headers, i, g[i - 1])]
  BY <1>3 DEF Loop
<1>6. g[0] = Result("none", NoContext)
  BY <1>2, <1>5
<1>7. \A i \in 1 .. n : g[i] = ExtractNext(ExtractPropagators(modes), headers, i, g[i - 1])
  BY <1>2, <1>5
<1> QED BY <1>1, <1>4, <1>6, <1>7

-----------------------------------------------------------------------------
(* Which propagators there are.                                            *)

\* Dropping repetitions loses no mode.
LEMMA Uniqified ==
  ASSUME NEW S, NEW modes \in Seq(S), NEW u, u = UniqifyPropagationModes(modes)
  PROVE  /\ \A i \in DOMAIN u : i \in DOMAIN modes /\ u[i] = modes[i]
         /\ \A j \in DOMAIN modes : \E i \in DOMAIN u : u[i] = modes[j]
<1>1. DOMAIN modes = 1..Len(modes) /\ Len(modes) \in Nat
  BY LenProperties
<1>2. \A i \in DOMAIN u : i \in DOMAIN modes /\ u[i] = modes[i]
  BY DEF UniqifyPropagationModes
<1>3. ASSUME NEW j \in DOMAIN modes
      PROVE  \E i \in DOMAIN u : u[i] = modes[j]
  <2>1. PICK T : T = {i \in DOMAIN modes : modes[i] = modes[j]}
    OBVIOUS
  <2>2. T \subseteq Nat /\ T # {}
    BY <1>1, <1>3, <2>1
  <2>3. PICK i \in T : \A k \in T : i <= k
    BY <2>2, NatLeast
  <2>4. \A k \in 1 .. i - 1 : k \in DOMAIN modes /\ ~(i <= k)
    BY <1>1, <2>1, <2>3
  <2>5. \A k \in 1 .. i - 1 : modes[k] # modes[i]
    BY <2>1, <2>3, <2>4
  <2>6. i \in DOMAIN u
    BY <2>1, <2>3, <2>5 DEF UniqifyPropagationModes
  <2> QED BY <1>2, <2>1, <2>3, <2>6
<1> QED BY <1>2, <1>3

\* The modes that a service extracts, and those that it injects.
Extracted(modes) == ToSet(modes) \cup IF "envoy" \in ToSet(modes) THEN {"lightstep"} ELSE {}
Injected(modes) == ToSet(modes) \cup IF modes = <<"envoy">> THEN {} ELSE {"baggage"}

LEMMA Extractors ==
  ASSUME NEW modes \in Seq(Modes), NEW u, u = ExtractPropagators(modes)
  PROVE  /\ DOMAIN u \subseteq 1 .. 2 * Len(modes)
         /\ \A i \in DOMAIN u : u[i] \in Extracted(modes)
         /\ \A mode \in Extracted(modes) : \E i \in DOMAIN u : u[i] = mode
         /\ Extracted(modes) \subseteq Modes
<1>1. DOMAIN modes = 1..Len(modes) /\ Len(modes) \in Nat /\ \A i \in DOMAIN modes : modes[i] \in Modes
  BY LenProperties, ElementOfSeq
<1>2. PICK pushed : pushed = [i \in 1 .. 2 * Len(modes) |->
        IF i % 2 = 0 /\ modes[i \div 2] = "envoy" THEN "lightstep" ELSE modes[(i + 1) \div 2]]
  OBVIOUS
<1>3. \A i \in 1 .. 2 * Len(modes) : (i + 1) \div 2 \in DOMAIN modes /\ i \div 2 \in Nat
                                     /\ (i % 2 = 0 => i \div 2 \in DOMAIN modes)
  BY <1>1
<1>4. \A i \in DOMAIN pushed : pushed[i] \in Extracted(modes)
  BY <1>1, <1>2, <1>3 DEF Extracted, ToSet
<1>5. Extracted(modes) \subseteq Modes
  BY <1>1 DEF Extracted, ToSet, Modes, Multi
<1>6. pushed \in Seq(Modes) /\ DOMAIN pushed = 1 .. 2 * Len(modes)
  <2>1. pushed \in [1 .. 2 * Len(modes) -> Modes] /\ 2 * Len(modes) \in Nat
    BY <1>1, <1>2, <1>4, <1>5
  <2> QED BY <1>2, <2>1, SeqDef, SMTT(30)
<1>7. u = UniqifyPropagationModes(pushed)
  BY <1>2 DEF ExtractPropagators
<1>8. /\ \A i \in DOMAIN u : i \in DOMAIN pushed /\ u[i] = pushed[i]
      /\ \A j \in DOMAIN pushed : \E i \in DOMAIN u : u[i] = pushed[j]
  BY <1>6, <1>7, Uniqified
<1>9. ASSUME NEW mode \in Extracted(modes)
      PROVE  \E j \in DOMAIN pushed : pushed[j] = mode
  <2>1. CASE mode \in ToSet(modes)
    <3>1. PICK i \in DOMAIN modes : modes[i] = mode
      BY <2>1 DEF ToSet
    <3>2. PICK j : j = 2 * i - 1
      OBVIOUS
    <3>3. j \in 1 .. 2 * Len(modes) /\ j % 2 # 0 /\ (j + 1) \div 2 = i
      BY <1>1, <3>1, <3>2
    <3> QED BY <1>2, <1>6, <3>1, <3>3
  <2>2. CASE "envoy" \in ToSet(modes) /\ mode = "lightstep"
    <3>1. PICK i \in DOMAIN modes : modes[i] = "envoy"
      BY <2>2 DEF ToSet
    <3>2. PICK j : j = 2 * i
      OBVIOUS
    <3>3. j \in 1 .. 2 * Len(modes) /\ j % 2 = 0 /\ j \div 2 = i
      BY <1>1, <3>1, <3>2
    <3> QED BY <1>2, <1>6, <2>2, <3>1, <3>3
  <2> QED BY <1>9, <2>1, <2>2 DEF Extracted
<1> QED BY <1>4, <1>5, <1>6, <1>8, <1>9

LEMMA Injectors ==
  ASSUME NEW modes \in Seq(Modes), NEW u, u = InjectPropagators(modes)
  PROVE  /\ \A i \in DOMAIN u : u[i] \in Injected(modes)
         /\ \A mode \in Injected(modes) : \E i \in DOMAIN u : u[i] = mode
<1>1. DOMAIN modes = 1..Len(modes) /\ Len(modes) \in Nat /\ \A i \in DOMAIN modes : modes[i] \in Modes
  BY LenProperties, ElementOfSeq
<1>2. PICK pushed : pushed = IF modes = <<"envoy">> THEN modes ELSE Append(modes, "baggage")
  OBVIOUS
<1>3. pushed \in Seq(Modes \cup {"baggage"})
  <2>1. modes \in Seq(Modes \cup {"baggage"})
    BY <1>1, SeqDef
  <2> QED BY <1>2, <2>1, AppendProperties
<1>4. u = UniqifyPropagationModes(pushed)
  BY <1>2 DEF InjectPropagators
<1>5. ToSet(pushed) = Injected(modes)
  <2>1. CASE modes = <<"envoy">>
    BY <1>2, <2>1 DEF Injected
  <2>2. CASE modes # <<"envoy">>
    <3>1. /\ DOMAIN pushed = 1 .. Len(modes) + 1
          /\ \A i \in 1 .. Len(modes) : pushed[i] = modes[i]
          /\ pushed[Len(modes) + 1] = "baggage"
      BY <1>1, <1>2, <2>2, AppendProperties
    <3>2. 1 .. Len(modes) + 1 = DOMAIN modes \cup {Len(modes) + 1}
      BY <1>1
    <3> QED BY <1>1, <2>2, <3>1, <3>2 DEF Injected, ToSet
  <2> QED BY <2>1, <2>2
<1>6. /\ \A i \in DOMAIN u : i \in DOMAIN pushed /\ u[i] = pushed[i]
      /\ \A j \in DOMAIN pushed : \E i \in DOMAIN u : u[i] = pushed[j]
  BY <1>3, <1>4, Uniqified
<1> QED BY <1>5, <1>6 DEF ToSet

-----------------------------------------------------------------------------
(* Extraction.                                                             *)

StateHeader == <<"trace_context", "state">>

\* The trace state of a context extracted from headers is in them, or empty.
StateFrom(headers, out) ==
  out.state = <<>> \/ (StateHeader \in DOMAIN headers /\ out.state = headers[StateHeader])

\* The out parameters as long as nothing was found.
Blank(headers, out) == out \in SpanContexts /\ out.span = 0 /\ StateFrom(headers, out)

\* The context that the headers of a mode denote.
Denoted(headers, mode, out) ==
  /\ out \in SpanContexts /\ StateFrom(headers, out)
  /\ mode \in Multi =>
       /\ {<<mode, "trace">>, <<mode, "span">>} \subseteq DOMAIN headers
       /\ headers[<<mode, "trace">>] # Corrupt /\ headers[<<mode, "span">>] # Corrupt
       /\ out.trace = headers[<<mode, "trace">>] /\ out.span = headers[<<mode, "span">>]
       /\ out.sampled = (<<mode, "sampled">> \in DOMAIN headers => headers[<<mode, "sampled">>] # FALSE)
       /\ out.baggage = BaggageHeaders(headers)
  /\ mode \in Single =>
       /\ <<mode, "context">> \in DOMAIN headers /\ headers[<<mode, "context">>] # Corrupt
       /\ LET value == headers[<<mode, "context">>]
          IN /\ out.trace = value.trace
             /\ out.span = IF value.span = Missing THEN 0 ELSE value.span
             /\ out.sampled = (value.sampled # FALSE)
             /\ out.baggage = IF mode = "envoy" THEN value.baggage ELSE BaggageHeaders(headers)

\* Something in the headers of a mode is wrong.
Wrong(headers, mode) ==
  ~Complete(headers, mode) \/ \E h \in DOMAIN headers : h[1] = mode /\ headers[h] = Corrupt

\* What an extractor may answer.
Answer(headers, mode, r) ==
  \/ r.kind = "none" /\ Absent(headers, mode) /\ Blank(headers, r.out)
  \/ r.kind = "error" /\ ~Absent(headers, mode) /\ Wrong(headers, mode)
  \/ r.kind = "context" /\ ~Absent(headers, mode) /\ Denoted(headers, mode, r.out)

LEMMA BaggageShape ==
  ASSUME NEW headers, WellTyped(headers)
  PROVE  /\ BaggageHeaders(headers) \in Baggages
         /\ BaggageHeaders(headers) = IF <<"baggage", BaggageKey>> \in DOMAIN headers
                                      THEN [k \in {BaggageKey} |-> 1] ELSE Empty
<1>1. PICK K : K = {h[2] : h \in {g \in DOMAIN headers : g[1] = "baggage"}}
  OBVIOUS
<1>2. BaggageHeaders(headers) = [k \in K |-> headers[<<"baggage", k>>]]
  BY <1>1 DEF BaggageHeaders
<1>3. \A h \in DOMAIN headers : h[1] = "baggage" => h = <<"baggage", BaggageKey>>
  BY DEF WellTyped, Headers, Multi, Single
<1>4. CASE <<"baggage", BaggageKey>> \in DOMAIN headers
  <2>1. K = {BaggageKey}
    BY <1>1, <1>3, <1>4
  <2>2. headers[<<"baggage", BaggageKey>>] = 1
    BY <1>4 DEF WellTyped, Denotations
  <2>3. BaggageHeaders(headers) = [k \in {BaggageKey} |-> 1]
    BY <1>2, <2>1, <2>2
  <2> QED BY <1>4, <2>3 DEF Baggages
<1>5. CASE <<"baggage", BaggageKey>> \notin DOMAIN headers
  <2>1. K = {}
    BY <1>1, <1>3, <1>5
  <2>2. BaggageHeaders(headers) = Empty
    BY <1>2, <2>1 DEF Empty
  <2> QED BY <1>5, <2>2 DEF Baggages
<1> QED BY <1>4, <1>5

LEMMA MultiAnswer ==
  ASSUME NEW headers, WellTyped(headers), NEW mode \in Multi, NEW out, Blank(headers, out)
  PROVE  Answer(headers, mode, ExtractMultiheader(mode, headers, out))
<1>1. PICK found : found = DOMAIN headers \cap {<<mode, "trace">>, <<mode, "span">>}
  OBVIOUS
<1>2. PICK r : r = ExtractMultiheader(mode, headers, out)
  OBVIOUS
<1>3. <<mode, "context">> \notin DOMAIN headers /\ mode \in {"lightstep", "b3"} /\ mode \notin Single
      /\ mode # "baggage"
  BY DEF WellTyped, Headers, Multi, Single
<1>4. Absent(headers, mode) <=> found = {}
  BY <1>1, <1>3 DEF Absent
<1>5. BaggageHeaders(headers) \in Baggages
  BY BaggageShape
<1>6. out \in SpanContexts /\ out.span = 0 /\ StateFrom(headers, out)
  BY DEF Blank
<1>7. CASE \E h \in found : headers[h] = Corrupt
  <2>1. r.kind = "error"
    BY <1>1, <1>2, <1>7 DEF ExtractMultiheader, Result
  <2>2. Wrong(headers, mode)
    BY <1>1, <1>7 DEF Wrong
  <2> QED BY <1>2, <1>4, <1>7, <2>1, <2>2 DEF Answer
<1>8. CASE found = {}
  <2>1. r = Result("none", [out EXCEPT !.baggage = BaggageHeaders(headers)])
    BY <1>1, <1>2, <1>8 DEF ExtractMultiheader
  <2>2. r.kind = "none" /\ r.out \in SpanContexts /\ r.out.span = 0 /\ r.out.state = out.state
    BY <1>5, <1>6, <2>1 DEF Result, SpanContexts
  <2> QED BY <1>2, <1>4, <1>6, <1>8, <2>2 DEF Answer, Blank, StateFrom
<1>9. CASE found # {} /\ found # {<<mode, "trace">>, <<mode, "span">>} /\ ~\E h \in found : headers[h] = Corrupt
  <2>1. r.kind = "error"
    BY <1>1, <1>2, <1>9 DEF ExtractMultiheader, Result
  <2>2. Wrong(headers, mode)
    BY <1>1, <1>9 DEF Wrong, Complete
  <2> QED BY <1>2, <1>4, <1>9, <2>1, <2>2 DEF Answer
<1>10. CASE found # {} /\ found = {<<mode, "trace">>, <<mode, "span">>} /\ ~\E h \in found : headers[h] = Corrupt
  <2>1. r = Result("context", [out EXCEPT
              !.trace = headers[<<mode, "trace">>],
              !.span = headers[<<mode, "span">>],
              !.sampled = <<mode, "sampled">> \in DOMAIN headers => headers[<<mode, "sampled">>] # FALSE,
              !.baggage = BaggageHeaders(headers)])
    BY <1>1, <1>2, <1>10, Zenon DEF ExtractMultiheader
  <2>2. /\ {<<mode, "trace">>, <<mode, "span">>} \subseteq DOMAIN headers
        /\ headers[<<mode, "trace">>] # Corrupt /\ headers[<<mode, "span">>] # Corrupt
    BY <1>1, <1>10
  <2>3. headers[<<mode, "trace">>] \in Traces /\ headers[<<mode, "span">>] \in Nat
    BY <1>3, <2>2 DEF WellTyped, Denotations
  <2>4. r.kind = "context" /\ r.out \in SpanContexts /\ r.out.state = out.state
    BY <1>5, <1>6, <2>1, <2>3 DEF Result, SpanContexts
  <2>5. /\ r.out.trace = headers[<<mode, "trace">>] /\ r.out.span = headers[<<mode, "span">>]
        /\ r.out.sampled = (<<mode, "sampled">> \in DOMAIN headers => headers[<<mode, "sampled">>] # FALSE)
        /\ r.out.baggage = BaggageHeaders(headers)
    BY <1>6, <2>1 DEF Result, SpanContexts
  <2>6. Denoted(headers, mode, r.out)
    BY <1>3, <1>6, <2>2, <2>4, <2>5 DEF Denoted, StateFrom
  <2> QED BY <1>2, <1>4, <1>10, <2>4, <2>6 DEF Answer
<1> QED BY <1>7, <1>8, <1>9, <1>10

LEMMA EnvoyAnswer ==
  ASSUME NEW headers, WellTyped(headers), NEW out, Blank(headers, out)
  PROVE  Answer(headers, "envoy", ExtractEnvoy(headers, out))
<1>1. PICK h : h = <<"envoy", "context">>
  OBVIOUS
<1>2. PICK r : r = ExtractEnvoy(headers, out)
  OBVIOUS
<1>3. Absent(headers, "envoy") <=> h \notin DOMAIN headers
  BY <1>1 DEF Absent, WellTyped, Headers, Multi, Single
<1>4. out \in SpanContexts /\ out.span = 0 /\ StateFrom(headers, out)
  BY DEF Blank
<1>5. PICK cleared : cleared = [out EXCEPT !.trace.high = 0]
  OBVIOUS
<1>6. cleared \in SpanContexts /\ cleared.span = 0 /\ cleared.state = out.state
  BY <1>4, <1>5 DEF SpanContexts, Traces
<1>7. CASE h \notin DOMAIN headers
  <2>1. r = Result("none", cleared)
    BY <1>1, <1>2, <1>5, <1>7 DEF ExtractEnvoy
  <2>2. r.kind = "none" /\ r.out = cleared
    BY <2>1 DEF Result
  <2> QED BY <1>2, <1>3, <1>4, <1>6, <1>7, <2>2 DEF Answer, Blank, StateFrom
<1>8. CASE h \in DOMAIN headers /\ headers[h] = Corrupt
  <2>1. r = Result("error", cleared)
    BY <1>1, <1>2, <1>5, <1>8 DEF ExtractEnvoy
  <2>2. r.kind = "error"
    BY <2>1 DEF Result
  <2>3. Wrong(headers, "envoy")
    BY <1>1, <1>8 DEF Wrong
  <2> QED BY <1>2, <1>3, <1>8, <2>2, <2>3 DEF Answer
<1>9. CASE h \in DOMAIN headers /\ headers[h] # Corrupt
  <2>1. r = Result("context", ParseBinaryCarrier(headers[h], cleared))
    BY <1>1, <1>2, <1>5, <1>9 DEF ExtractEnvoy
  <2>2. headers[h] \in BinaryCarriers
    BY <1>1, <1>9 DEF WellTyped, Denotations
  <2>3. PICK v \in BinaryCarriers : v = headers[h]
    BY <2>2
  <2>4. r.kind = "context" /\ r.out = [cleared EXCEPT !.trace = v.trace, !.span = v.span,
                                         !.sampled = v.sampled, !.baggage = v.baggage]
    BY <2>1, <2>3 DEF Result, ParseBinaryCarrier
  <2>5. /\ r.out \in SpanContexts /\ r.out.state = out.state /\ r.out.trace = v.trace
        /\ r.out.span = v.span /\ r.out.sampled = v.sampled /\ r.out.baggage = v.baggage
    BY <1>6, <2>4 DEF SpanContexts, BinaryCarriers
  <2>6. v.span # Missing /\ v.sampled \in BOOLEAN
    BY MarksAssumption DEF BinaryCarriers
  <2>7. v.sampled = (v.sampled # FALSE)
    BY <2>6
  <2>8. Denoted(headers, "envoy", r.out)
    BY <1>1, <1>4, <1>9, <2>3, <2>5, <2>6, <2>7 DEF Denoted, StateFrom, Multi, Single
  <2> QED BY <1>2, <1>3, <1>9, <2>4, <2>8 DEF Answer
<1> QED BY <1>7, <1>8, <1>9

LEMMA TraceContextAnswer ==
  ASSUME NEW headers, WellTyped(headers), NEW out, Blank(headers, out)
  PROVE  Answer(headers, "trace_context", ExtractTraceContext(headers, out))
<1>1. PICK h : h = <<"trace_context", "context">>
  OBVIOUS
<1>2. PICK r : r = ExtractTraceContext(headers, out)
  OBVIOUS
<1>3. Absent(headers, "trace_context") <=> h \notin DOMAIN headers
  BY <1>1 DEF Absent, WellTyped, Headers, Multi, Single
<1>4. out \in SpanContexts /\ out.span = 0 /\ StateFrom(headers, out)
  BY DEF Blank
<1>5. PICK collected : collected = [out EXCEPT !.baggage = BaggageHeaders(headers),
        !.state = IF StateHeader \in DOMAIN headers THEN headers[StateHeader] ELSE @]
  OBVIOUS
<1>6. StateHeader \in DOMAIN headers => headers[StateHeader] = <<State>>
  BY DEF WellTyped, Denotations, StateHeader
<1>7. /\ collected \in SpanContexts /\ collected.span = 0 /\ StateFrom(headers, collected)
      /\ collected.baggage = BaggageHeaders(headers)
  <2>1. BaggageHeaders(headers) \in Baggages
    BY BaggageShape
  <2>2. collected.state = IF StateHeader \in DOMAIN headers THEN headers[StateHeader] ELSE out.state
    BY <1>4, <1>5 DEF SpanContexts
  <2> QED BY <1>4, <1>5, <1>6, <2>1, <2>2 DEF SpanContexts, StateFrom
<1>8. CASE h \notin DOMAIN headers
  <2>1. r = Result("none", collected)
    BY <1>1, <1>2, <1>5, <1>8 DEF ExtractTraceContext, StateHeader
  <2>2. r.kind = "none" /\ r.out = collected
    BY <2>1 DEF Result
  <2> QED BY <1>2, <1>3, <1>7, <1>8, <2>2 DEF Answer, Blank
<1>9. CASE h \in DOMAIN headers /\ headers[h] = Corrupt
  <2>1. r = Result("error", collected)
    BY <1>1, <1>2, <1>5, <1>9 DEF ExtractTraceContext, StateHeader
  <2>2. r.kind = "error"
    BY <2>1 DEF Result
  <2>3. Wrong(headers, "trace_context")
    BY <1>1, <1>9 DEF Wrong
  <2> QED BY <1>2, <1>3, <1>9, <2>2, <2>3 DEF Answer
<1>10. CASE h \in DOMAIN headers /\ headers[h] # Corrupt
  <2>1. r = Result("context", ParseTraceContext(headers[h], collected))
    BY <1>1, <1>2, <1>5, <1>10 DEF ExtractTraceContext, StateHeader
  <2>2. headers[h] \in [trace : Traces, span : Nat, sampled : BOOLEAN]
    BY <1>1, <1>10 DEF WellTyped, Denotations
  <2>3. PICK v \in [trace : Traces, span : Nat, sampled : BOOLEAN] : v = headers[h]
    BY <2>2
  <2>4. r.kind = "context" /\ r.out = [collected EXCEPT !.trace = v.trace, !.span = v.span,
                                         !.sampled = v.sampled]
    BY <2>1, <2>3 DEF Result, ParseTraceContext
  <2>5. /\ r.out \in SpanContexts /\ r.out.state = collected.state /\ r.out.trace = v.trace
        /\ r.out.span = v.span /\ r.out.sampled = v.sampled /\ r.out.baggage = collected.baggage
    BY <1>7, <2>4 DEF SpanContexts
  <2>6. v.span # Missing /\ v.sampled \in BOOLEAN
    BY MarksAssumption
  <2>7. v.sampled = (v.sampled # FALSE)
    BY <2>6
  <2>8. StateFrom(headers, r.out)
    BY <1>7, <2>5 DEF StateFrom
  <2>9. Denoted(headers, "trace_context", r.out)
    BY <1>1, <1>7, <1>10, <2>3, <2>5, <2>6, <2>7, <2>8 DEF Denoted, Multi, Single
  <2> QED BY <1>2, <1>3, <1>10, <2>4, <2>9 DEF Answer
<1> QED BY <1>8, <1>9, <1>10

LEMMA CloudTraceAnswer ==
  ASSUME NEW headers, WellTyped(headers), NEW out, Blank(headers, out)
  PROVE  Answer(headers, "cloud_trace", ExtractCloudTrace(headers, out))
<1>1. PICK h : h = <<"cloud_trace", "context">>
  OBVIOUS
<1>2. PICK r : r = ExtractCloudTrace(headers, out)
  OBVIOUS
<1>3. Absent(headers, "cloud_trace") <=> h \notin DOMAIN headers
  BY <1>1 DEF Absent, WellTyped, Headers, Multi, Single
<1>4. out \in SpanContexts /\ out.span = 0 /\ StateFrom(headers, out)
  BY DEF Blank
<1>5. PICK collected : collected = [out EXCEPT !.baggage = BaggageHeaders(headers)]
  OBVIOUS
<1>6. /\ collected \in SpanContexts /\ collected.span = 0 /\ StateFrom(headers, collected)
      /\ collected.baggage = BaggageHeaders(headers)
  BY <1>4, <1>5, BaggageShape DEF SpanContexts, StateFrom
<1>7. CASE h \notin DOMAIN headers
  <2>1. r = Result("none", collected)
    BY <1>1, <1>2, <1>5, <1>7 DEF ExtractCloudTrace
  <2>2. r.kind = "none" /\ r.out = collected
    BY <2>1 DEF Result
  <2> QED BY <1>2, <1>3, <1>6, <1>7, <2>2 DEF Answer, Blank
<1>8. CASE h \in DOMAIN headers /\ headers[h] = Corrupt
  <2>1. r = Result("error", collected)
    BY <1>1, <1>2, <1>5, <1>8 DEF ExtractCloudTrace
  <2>2. r.kind = "error"
    BY <2>1 DEF Result
  <2>3. Wrong(headers, "cloud_trace")
    BY <1>1, <1>8 DEF Wrong
  <2> QED BY <1>2, <1>3, <1>8, <2>2, <2>3 DEF Answer
<1>9. CASE h \in DOMAIN headers /\ headers[h] # Corrupt
  <2>1. r = Result("context", ParseCloudTrace(headers[h], collected))
    BY <1>1, <1>2, <1>5, <1>9 DEF ExtractCloudTrace
  <2>2. headers[h] \in TraceParents
    BY <1>1, <1>9 DEF WellTyped, Denotations
  <2>3. PICK v \in TraceParents : v = headers[h]
    BY <2>2
  <2>4. r.kind = "context" /\ r.out = [collected EXCEPT !.trace = v.trace,
          !.span = IF v.span = Missing THEN @ ELSE v.span, !.sampled = v.sampled # FALSE]
    BY <2>1, <2>3 DEF Result, ParseCloudTrace
  <2>5. /\ r.out \in SpanContexts /\ r.out.state = collected.state /\ r.out.trace = v.trace
        /\ r.out.span = (IF v.span = Missing THEN 0 ELSE v.span)
        /\ r.out.sampled = (v.sampled # FALSE) /\ r.out.baggage = collected.baggage
    BY <1>6, <2>4 DEF SpanContexts, TraceParents
  <2>6. StateFrom(headers, r.out)
    BY <1>6, <2>5 DEF StateFrom
  <2>7. Denoted(headers, "cloud_trace", r.out)
    BY <1>1, <1>6, <1>9, <2>3, <2>5, <2>6 DEF Denoted, Multi, Single
  <2> QED BY <1>2, <1>3, <1>9, <2>4, <2>7 DEF Answer
<1> QED BY <1>7, <1>8, <1>9

LEMMA ExtractAnswer ==
  ASSUME NEW headers, WellTyped(headers), NEW mode \in Modes, NEW out, Blank(headers, out)
  PROVE  Answer(headers, mode, Extract(mode, headers, out))
<1>1. CASE mode \in Multi
  BY <1>1, MultiAnswer DEF Extract, Multi
<1>2. CASE mode = "envoy"
  BY <1>2, EnvoyAnswer DEF Extract
<1>3. CASE mode = "trace_context"
  BY <1>3, TraceContextAnswer DEF Extract
<1>4. CASE mode = "cloud_trace"
  BY <1>4, CloudTraceAnswer DEF Extract
<1> QED BY <1>1, <1>2, <1>3, <1>4 DEF Modes, Single

\* What a service finds: nothing, if all its modes' headers are absent, or what
\* one of its modes says.
LEMMA ServiceAnswer ==
  ASSUME NEW headers, WellTyped(headers), NEW modes \in Seq(Modes),
         NEW r, r = ExtractSpanContext(modes, headers)
  PROVE  \/ r.kind = "none" /\ \A mode \in Extracted(modes) : Absent(headers, mode)
         \/ r.kind # "none" /\ \E mode \in Extracted(modes) : Answer(headers, mode, r)
<1>1. PICK n : n = 2 * Len(modes)
  OBVIOUS
<1>2. n \in Nat /\ Len(modes) \in Nat
  BY <1>1, LenProperties
<1>3. PICK u : u = ExtractPropagators(modes)
  OBVIOUS
<1>4. PICK f : /\ f[0] = Result("none", NoContext)
               /\ \A i \in 1 .. n : f[i] = ExtractNext(u, headers, i, f[i - 1])
               /\ r = f[n]
  BY <1>1, <1>2, <1>3, ExtractLoop
<1>5. /\ DOMAIN u \subseteq 1 .. n /\ \A i \in DOMAIN u : u[i] \in Extracted(modes) /\ u[i] \in Modes
      /\ \A mode \in Extracted(modes) : \E i \in DOMAIN u : u[i] = mode
  BY <1>1, <1>3, Extractors
<1> DEFINE Tried(i) ==
      \/ /\ f[i].kind = "none" /\ Blank(headers, f[i].out)
         /\ \A j \in DOMAIN u : j <= i => Absent(headers, u[j])
      \/ f[i].kind # "none" /\ \E mode \in Extracted(modes) : Answer(headers, mode, f[i])
<1>6. PICK T : T = {i \in Nat : i <= n => Tried(i)}
  OBVIOUS
<1>7. 0 \in T
  <2>1. f[0].kind = "none" /\ f[0].out = NoContext
    BY <1>4 DEF Result
  <2>2. Blank(headers, NoContext)
    BY DEF Blank, NoContext, SpanContexts, StateFrom, Traces, Baggages
  <2>3. \A j \in DOMAIN u : ~(j <= 0)
    BY <1>5
  <2>4. Tried(0)
    BY <2>1, <2>2, <2>3
  <2> QED BY <1>6, <2>4
<1>8. ASSUME NEW i \in Nat, i \in T
      PROVE  i + 1 \in T
  <2>1. SUFFICES ASSUME i + 1 <= n PROVE Tried(i + 1)
    BY <1>6
  <2>2. Tried(i)
    BY <1>2, <1>6, <1>8, <2>1
  <2>3. f[i + 1] = ExtractNext(u, headers, i + 1, f[i])
    <3>1. i + 1 \in 1 .. n /\ (i + 1) - 1 = i
      BY <1>2, <2>1
    <3> QED BY <1>4, <3>1
  <2>4. CASE i + 1 \in DOMAIN u /\ f[i].kind = "none"
    <3>1. PICK out : out = [f[i].out EXCEPT !.baggage = Empty]
      OBVIOUS
    <3>2. f[i + 1] = Extract(u[i + 1], headers, out)
      BY <2>3, <2>4, <3>1 DEF ExtractNext
    <3>3. Blank(headers, out)
      <4>1. Blank(headers, f[i].out)
        BY <2>2, <2>4
      <4>2. out \in SpanContexts /\ out.span = 0 /\ out.state = f[i].out.state
        BY <3>1, <4>1 DEF Blank, SpanContexts, Baggages
      <4> QED BY <4>1, <4>2 DEF Blank, StateFrom
    <3>4. u[i + 1] \in Modes /\ u[i + 1] \in Extracted(modes)
      BY <1>5, <2>4
    <3>5. Answer(headers, u[i + 1], f[i + 1])
      BY <3>2, <3>3, <3>4, ExtractAnswer
    <3>6. CASE f[i + 1].kind = "none"
      <4>1. Absent(headers, u[i + 1]) /\ Blank(headers, f[i + 1].out)
        BY <3>5, <3>6 DEF Answer
      <4>2. \A j \in DOMAIN u : j <= i + 1 => j <= i \/ j = i + 1
        BY <1>2, <1>5
      <4>3. \A j \in DOMAIN u : j <= i => Absent(headers, u[j])
        BY <2>2, <2>4
      <4> QED BY <3>6, <4>1, <4>2, <4>3
    <3>7. CASE f[i + 1].kind # "none"
      BY <3>4, <3>5, <3>7
    <3> QED BY <3>6, <3>7
  <2>5. CASE i + 1 \notin DOMAIN u \/ f[i].kind # "none"
    <3>1. f[i + 1] = f[i]
      BY <2>3, <2>5 DEF ExtractNext
    <3>2. i + 1 \notin DOMAIN u => \A j \in DOMAIN u : j <= i + 1 => j <= i
      BY <1>2, <1>5
    <3> QED BY <2>2, <2>5, <3>1, <3>2
  <2> QED BY <2>4, <2>5
<1>9. n \in T
  BY <1>2, <1>7, <1>8, NatAll
<1>10. Tried(n)
  BY <1>2, <1>6, <1>9
<1>11. \A j \in DOMAIN u : j <= n
  BY <1>2, <1>5
<1> QED BY <1>4, <1>5, <1>10, <1>11

-----------------------------------------------------------------------------
(* Injection.                                                              *)

BaggageHeader == <<"baggage", BaggageKey>>

\* What a propagator sets of the context c, and to which values.
HeadersOf(mode, c) ==
  CASE mode \in Multi -> {<<mode, "trace">>, <<mode, "span">>, <<mode, "sampled">>}
    [] mode = "trace_context" ->
         {<<mode, "context">>} \cup IF c.state = <<>> THEN {} ELSE {StateHeader}
    [] mode \in {"envoy", "cloud_trace"} -> {<<mode, "context">>}
    [] mode = "baggage" -> IF BaggageKey \in DOMAIN c.baggage THEN {BaggageHeader} ELSE {}

Says(h, c) ==
  CASE h[1] = "baggage" -> c.baggage[BaggageKey]
    [] h[1] \in Multi /\ h[2] = "trace" -> TraceIn(h[1], c)
    [] h[1] \in Multi /\ h[2] = "span" -> c.span
    [] h[1] \in Multi /\ h[2] = "sampled" -> c.sampled
    [] h = <<"envoy", "context">> -> BinaryCarrier(c)
    [] h \in {<<"trace_context", "context">>, <<"cloud_trace", "context">>} -> TraceParent(c)
    [] h = StateHeader -> c.state

LEMMA SetFields ==
  ASSUME NEW mode, NEW field, NEW value
  PROVE  /\ Set(mode, field, value).header = <<mode, field>>
         /\ Set(mode, field, value).value = value
BY DEF Set

LEMMA InjectCalls ==
  ASSUME NEW mode \in Modes \cup {"baggage"}, NEW c \in SpanContexts
  PROVE  /\ \A k \in DOMAIN Inject(mode, c) :
              /\ Inject(mode, c)[k].header \in HeadersOf(mode, c)
              /\ Inject(mode, c)[k].value = Says(Inject(mode, c)[k].header, c)
         /\ \A h \in HeadersOf(mode, c) : \E k \in DOMAIN Inject(mode, c) : Inject(mode, c)[k].header = h
<1>1. PICK s : s = Inject(mode, c)
  OBVIOUS
<1>2. CASE mode \in Multi
  <2>1. s = Multiheader(mode, TraceIn(mode, c), c)
    <3>1. CASE mode = "lightstep"
      BY <1>1, <3>1 DEF Inject, TraceIn
    <3>2. CASE mode = "b3"
      BY <1>1, <3>2 DEF Inject, TraceIn
    <3> QED BY <1>2, <3>1, <3>2 DEF Multi
  <2>2. DOMAIN s = 1..3 /\ s[1] = Set(mode, "trace", TraceIn(mode, c)) /\ s[2] = Set(mode, "span", c.span)
        /\ s[3] = Set(mode, "sampled", c.sampled)
    BY <2>1 DEF Multiheader
  <2>3. HeadersOf(mode, c) = {<<mode, "trace">>, <<mode, "span">>, <<mode, "sampled">>}
    BY <1>2 DEF HeadersOf, Multi
  <2>4. mode # "baggage"
    BY <1>2 DEF Multi
  <2>5. /\ Says(<<mode, "trace">>, c) = TraceIn(mode, c) /\ Says(<<mode, "span">>, c) = c.span
        /\ Says(<<mode, "sampled">>, c) = c.sampled
    BY <1>2, <2>4 DEF Says, Multi, StateHeader
  <2>6. \A k \in DOMAIN s : k = 1 \/ k = 2 \/ k = 3
    BY <2>2
  <2>7. 1 \in DOMAIN s /\ 2 \in DOMAIN s /\ 3 \in DOMAIN s
    BY <2>2
  <2>8. /\ s[1].header = <<mode, "trace">> /\ s[1].value = TraceIn(mode, c)
        /\ s[2].header = <<mode, "span">> /\ s[2].value = c.span
        /\ s[3].header = <<mode, "sampled">> /\ s[3].value = c.sampled
    BY <2>2, SetFields
  <2> QED BY <1>1, <2>3, <2>5, <2>6, <2>7, <2>8
<1>3. CASE mode = "envoy"
  <2>1. DOMAIN s = {1} /\ s[1] = Set("envoy", "context", BinaryCarrier(c))
    BY <1>1, <1>3 DEF Inject, InjectEnvoy
  <2>2. HeadersOf(mode, c) = {<<"envoy", "context">>} /\ Says(<<"envoy", "context">>, c) = BinaryCarrier(c)
    BY <1>3 DEF HeadersOf, Says, Multi, StateHeader
  <2>3. s[1].header = <<"envoy", "context">> /\ s[1].value = BinaryCarrier(c)
    BY <2>1, SetFields
  <2> QED BY <1>1, <2>1, <2>2, <2>3
<1>4. CASE mode = "cloud_trace"
  <2>1. DOMAIN s = {1} /\ s[1] = Set("cloud_trace", "context", TraceParent(c))
    BY <1>1, <1>4 DEF Inject, InjectCloudTrace
  <2>2. HeadersOf(mode, c) = {<<"cloud_trace", "context">>} /\ Says(<<"cloud_trace", "context">>, c) = TraceParent(c)
    BY <1>4 DEF HeadersOf, Says, Multi, StateHeader
  <2>3. s[1].header = <<"cloud_trace", "context">> /\ s[1].value = TraceParent(c)
    BY <2>1, SetFields
  <2> QED BY <1>1, <2>1, <2>2, <2>3
<1>5. CASE mode = "trace_context"
  <2>1. Says(<<"trace_context", "context">>, c) = TraceParent(c) /\ Says(StateHeader, c) = c.state
    BY DEF Says, Multi, StateHeader
  <2>2. CASE c.state = <<>>
    <3>1. DOMAIN s = {1} /\ s[1] = Set("trace_context", "context", TraceParent(c))
      BY <1>1, <1>5, <2>2 DEF Inject, InjectTraceContext
    <3>2. HeadersOf(mode, c) = {<<"trace_context", "context">>}
      BY <1>5, <2>2 DEF HeadersOf, Multi
    <3>3. s[1].header = <<"trace_context", "context">> /\ s[1].value = TraceParent(c)
      BY <3>1, SetFields
    <3> QED BY <1>1, <2>1, <3>1, <3>2, <3>3
  <2>3. CASE c.state # <<>>
    <3>1. DOMAIN s = {1, 2} /\ s[1] = Set("trace_context", "context", TraceParent(c))
          /\ s[2] = Set("trace_context", "state", c.state)
      BY <1>1, <1>5, <2>3 DEF Inject, InjectTraceContext
    <3>2. HeadersOf(mode, c) = {<<"trace_context", "context">>, StateHeader}
      BY <1>5, <2>3 DEF HeadersOf, Multi
    <3>3. /\ s[1].header = <<"trace_context", "context">> /\ s[1].value = TraceParent(c)
          /\ s[2].header = StateHeader /\ s[2].value = c.state
      BY <3>1, SetFields DEF StateHeader
    <3> QED BY <1>1, <2>1, <3>1, <3>2, <3>3
  <2> QED BY <2>2, <2>3
<1>6. CASE mode = "baggage"
  <2>1. Says(BaggageHeader, c) = c.baggage[BaggageKey]
    BY DEF Says, BaggageHeader, Multi, StateHeader
  <2>2. CASE BaggageKey \in DOMAIN c.baggage
    <3>1. DOMAIN s = {1} /\ s[1] = Set("baggage", BaggageKey, c.baggage[BaggageKey])
      BY <1>1, <1>6, <2>2 DEF Inject, InjectBaggage
    <3>2. HeadersOf(mode, c) = {BaggageHeader}
      BY <1>6, <2>2 DEF HeadersOf, Multi
    <3>3. s[1].header = BaggageHeader /\ s[1].value = c.baggage[BaggageKey]
      BY <3>1, SetFields DEF BaggageHeader
    <3> QED BY <1>1, <2>1, <3>1, <3>2, <3>3
  <2>3. CASE BaggageKey \notin DOMAIN c.baggage
    <3>1. DOMAIN s = {}
      BY <1>1, <1>6, <2>3 DEF Inject, InjectBaggage
    <3>2. HeadersOf(mode, c) = {}
      BY <1>6, <2>3 DEF HeadersOf, Multi
    <3> QED BY <1>1, <3>1, <3>2
  <2> QED BY <2>2, <2>3
<1> QED BY <1>2, <1>3, <1>4, <1>5, <1>6 DEF Modes, Single

LEMMA CallsShape ==
  ASSUME NEW modes \in Seq(Modes), NEW c \in SpanContexts, NEW calls, calls = InjectSpanContext(modes, c)
  PROVE  /\ \A call \in calls :
              /\ \E mode \in Injected(modes) : call.set.header \in HeadersOf(mode, c)
              /\ call.set.value = Says(call.set.header, c)
         /\ \A mode \in Injected(modes) : \A h \in HeadersOf(mode, c) :
              \E call \in calls : call.set.header = h
         /\ Injected(modes) \subseteq Modes \cup {"baggage"}
<1>1. PICK u : u = InjectPropagators(modes)
  OBVIOUS
<1>2. calls = UNION {{[place |-> <<i, k>>, set |-> Inject(u[i], c)[k]] :
                        k \in DOMAIN Inject(u[i], c)} : i \in DOMAIN u}
  BY <1>1 DEF InjectSpanContext
<1>3. /\ \A i \in DOMAIN u : u[i] \in Injected(modes)
      /\ \A mode \in Injected(modes) : \E i \in DOMAIN u : u[i] = mode
  BY <1>1, Injectors
<1>4. Injected(modes) \subseteq Modes \cup {"baggage"}
  <2>1. \A i \in DOMAIN modes : modes[i] \in Modes
    BY LenProperties, ElementOfSeq
  <2> QED BY <2>1 DEF Injected, ToSet
<1>5. ASSUME NEW call \in calls
      PROVE  /\ \E mode \in Injected(modes) : call.set.header \in HeadersOf(mode, c)
             /\ call.set.value = Says(call.set.header, c)
  <2>1. PICK i \in DOMAIN u : \E k \in DOMAIN Inject(u[i], c) :
          call.set = Inject(u[i], c)[k]
    BY <1>2
  <2>2. PICK k \in DOMAIN Inject(u[i], c) : call.set = Inject(u[i], c)[k]
    BY <2>1
  <2>3. u[i] \in Injected(modes) /\ u[i] \in Modes \cup {"baggage"}
    BY <1>3, <1>4
  <2>4. Inject(u[i], c)[k].header \in HeadersOf(u[i], c)
        /\ Inject(u[i], c)[k].value = Says(Inject(u[i], c)[k].header, c)
    BY <2>3, InjectCalls
  <2> QED BY <2>2, <2>3, <2>4
<1>6. ASSUME NEW mode \in Injected(modes), NEW h \in HeadersOf(mode, c)
      PROVE  \E call \in calls : call.set.header = h
  <2>1. PICK i \in DOMAIN u : u[i] = mode
    BY <1>3
  <2>2. PICK k \in DOMAIN Inject(u[i], c) : Inject(u[i], c)[k].header = h
    BY <1>4, <2>1, InjectCalls
  <2>3. PICK call : call = [place |-> <<i, k>>, set |-> Inject(u[i], c)[k]]
    OBVIOUS
  <2>4. call \in calls /\ call.set.header = h
    BY <1>2, <2>2, <2>3
  <2> QED BY <2>4
<1> QED BY <1>4, <1>5, <1>6

\* The headers that these calls set.
SetBy(made) == {call.set.header : call \in made}

\* W is what the headers are once some of the calls that inject c were made.
Wrote(W, headers, made, modes, c) ==
  /\ DOMAIN W = DOMAIN headers \cup SetBy(made)
  /\ \A h \in SetBy(made) :
       W[h] = Says(h, c) /\ \E mode \in Injected(modes) : h \in HeadersOf(mode, c)
  /\ \A h \in DOMAIN headers : h \notin SetBy(made) => W[h] = headers[h]
  /\ made = InjectSpanContext(modes, c) =>
       \A mode \in Injected(modes) : HeadersOf(mode, c) \subseteq SetBy(made)

LEMMA WrittenShape ==
  ASSUME NEW modes \in Seq(Modes), NEW c \in SpanContexts,
         NEW made, made \subseteq InjectSpanContext(modes, c), NEW headers
  PROVE  Wrote(Written(headers, made), headers, made, modes, c)
<1> DEFINE W == Written(headers, made)
<1> DEFINE calls == InjectSpanContext(modes, c)
<1>0. calls = InjectSpanContext(modes, c)
  OBVIOUS
<1> HIDE DEF calls
<1>1. \A call \in made :
        /\ \E mode \in Injected(modes) : call.set.header \in HeadersOf(mode, c)
        /\ call.set.value = Says(call.set.header, c)
  BY <1>0, CallsShape
<1>2. W = [h \in DOMAIN headers \cup SetBy(made) |->
             IF \E call \in made : call.set.header = h
             THEN (CHOOSE call \in made : call.set.header = h).set.value ELSE headers[h]]
  BY DEF Written, SetBy
<1> HIDE DEF W
<1>3. DOMAIN W = DOMAIN headers \cup SetBy(made)
  BY <1>2
<1>4. ASSUME NEW h \in SetBy(made)
      PROVE  W[h] = Says(h, c) /\ \E mode \in Injected(modes) : h \in HeadersOf(mode, c)
  <2>1. \E call \in made : call.set.header = h
    BY DEF SetBy
  <2>2. PICK call : call = CHOOSE x \in made : x.set.header = h
    OBVIOUS
  <2>3. call \in made /\ call.set.header = h
    BY <2>1, <2>2
  <2>4. W[h] = call.set.value
    BY <1>2, <2>1, <2>2
  <2> QED BY <1>1, <2>3, <2>4
<1>5. \A h \in DOMAIN headers : h \notin SetBy(made) => W[h] = headers[h]
  BY <1>2 DEF SetBy
<1>6. ASSUME made = calls, NEW mode \in Injected(modes), NEW h \in HeadersOf(mode, c)
      PROVE  h \in SetBy(made)
  BY <1>0, <1>6, CallsShape DEF SetBy
<1>7. Wrote(W, headers, made, modes, c)
  BY <1>0, <1>3, <1>4, <1>5, <1>6 DEF Wrote
<1> QED BY <1>7 DEF W

LEMMA SaysTyped ==
  ASSUME NEW modes \in Seq(Modes), NEW mode \in Injected(modes), NEW c \in SpanContexts,
         NEW h \in HeadersOf(mode, c)
  PROVE  /\ h \in Headers /\ h[1] \in {mode, "trace_context"} /\ (h # StateHeader => h[1] = mode)
         /\ (h = StateHeader => mode = "trace_context")
         /\ Says(h, c) \in Denotations(h) /\ Says(h, c) # Corrupt
<1>1. mode \in Modes \cup {"baggage"}
  BY CallsShape
<1>2. /\ c.trace \in Traces /\ c.span \in Nat /\ c.sampled \in BOOLEAN /\ c.baggage \in Baggages
      /\ c.state \in {<<>>, <<State>>}
  BY DEF SpanContexts
<1>3. Low(c.trace) \in Traces
  BY <1>2 DEF Low, Traces
<1>4. CASE mode \in Multi
  <2>1. h \in {<<mode, "trace">>, <<mode, "span">>, <<mode, "sampled">>} /\ mode \in {"lightstep", "b3"}
    BY <1>4 DEF HeadersOf, Multi
  <2>2. CASE h = <<mode, "trace">>
    <3>1. Says(h, c) = TraceIn(mode, c) /\ TraceIn(mode, c) \in Traces
      BY <1>2, <1>3, <1>4, <2>2 DEF Says, TraceIn, Multi, StateHeader
    <3>2. Denotations(h) = Traces \cup {Corrupt}
      BY <2>1, <2>2 DEF Denotations
    <3> QED BY <1>4, <2>2, <3>1, <3>2, MarksAssumption DEF Headers, StateHeader
  <2>3. CASE h = <<mode, "span">>
    <3>1. Says(h, c) = c.span
      BY <1>4, <2>3 DEF Says, Multi, StateHeader
    <3>2. Denotations(h) = Nat \cup {Corrupt}
      BY <2>1, <2>3 DEF Denotations
    <3> QED BY <1>2, <1>4, <2>3, <3>1, <3>2, MarksAssumption DEF Headers, StateHeader
  <2>4. CASE h = <<mode, "sampled">>
    <3>1. Says(h, c) = c.sampled
      BY <1>4, <2>4 DEF Says, Multi, StateHeader
    <3>2. Denotations(h) = BOOLEAN \cup {Corrupt}
      BY <2>1, <2>4 DEF Denotations
    <3> QED BY <1>2, <1>4, <2>4, <3>1, <3>2, MarksAssumption DEF Headers, StateHeader
  <2> QED BY <2>1, <2>2, <2>3, <2>4
<1>5. CASE h = <<"envoy", "context">>
  <2>1. mode = "envoy"
    BY <1>1, <1>5 DEF HeadersOf, Modes, Multi, Single, StateHeader, BaggageHeader
  <2>2. Says(h, c) = BinaryCarrier(c) /\ BinaryCarrier(c) \in BinaryCarriers
    BY <1>2, <1>3, <1>5 DEF Says, Multi, StateHeader, BinaryCarrier, BinaryCarriers
  <2>3. Denotations(h) = BinaryCarriers \cup {Corrupt}
    BY <1>5 DEF Denotations
  <2> QED BY <1>5, <2>1, <2>2, <2>3, MarksAssumption DEF Headers, Single, StateHeader
<1>6. CASE h = <<"trace_context", "context">>
  <2>1. mode = "trace_context"
    BY <1>1, <1>6 DEF HeadersOf, Modes, Multi, Single, StateHeader, BaggageHeader
  <2>2. Says(h, c) = TraceParent(c) /\ TraceParent(c) \in [trace : Traces, span : Nat, sampled : BOOLEAN]
        /\ TraceParent(c) \in TraceParents
    BY <1>2, <1>6 DEF Says, Multi, StateHeader, TraceParent, TraceParents
  <2>3. Denotations(h) = [trace : Traces, span : Nat, sampled : BOOLEAN] \cup {Corrupt}
    BY <1>6 DEF Denotations
  <2> QED BY <1>6, <2>1, <2>2, <2>3, MarksAssumption DEF Headers, Single, StateHeader
<1>7. CASE h = <<"cloud_trace", "context">>
  <2>1. mode = "cloud_trace"
    BY <1>1, <1>7 DEF HeadersOf, Modes, Multi, Single, StateHeader, BaggageHeader
  <2>2. Says(h, c) = TraceParent(c) /\ TraceParent(c) \in TraceParents
    BY <1>2, <1>7 DEF Says, Multi, StateHeader, TraceParent, TraceParents
  <2>3. Denotations(h) = TraceParents \cup {Corrupt}
    BY <1>7 DEF Denotations
  <2> QED BY <1>7, <2>1, <2>2, <2>3, MarksAssumption DEF Headers, Single, StateHeader
<1>8. CASE mode = "trace_context" /\ h = StateHeader
  <2>1. c.state = <<State>>
    BY <1>2, <1>8 DEF HeadersOf, Multi, StateHeader
  <2>2. Says(h, c) = c.state
    BY <1>8 DEF Says, Multi, StateHeader
  <2>3. Denotations(h) = {<<State>>}
    BY <1>8 DEF Denotations, StateHeader
  <2> QED BY <1>8, <2>1, <2>2, <2>3, MarksAssumption DEF Headers, StateHeader
<1>9. CASE mode = "baggage"
  <2>1. h = BaggageHeader /\ BaggageKey \in DOMAIN c.baggage
    BY <1>9 DEF HeadersOf, Multi
  <2>2. c.baggage[BaggageKey] = 1
    BY <1>2, <2>1 DEF Baggages, Empty
  <2>3. Says(h, c) = 1
    BY <2>1, <2>2 DEF Says, BaggageHeader, Multi, StateHeader
  <2>4. Denotations(h) = {1}
    BY <2>1 DEF Denotations, BaggageHeader
  <2> QED BY <1>9, <2>1, <2>3, <2>4, MarksAssumption DEF Headers, BaggageHeader, StateHeader
<1> QED BY <1>1, <1>4, <1>5, <1>6, <1>7, <1>8, <1>9 DEF HeadersOf, Modes, Multi, Single

LEMMA WrittenTyped ==
  ASSUME NEW modes \in Seq(Modes), NEW c \in SpanContexts, NEW headers, WellTyped(headers),
         NEW made, NEW W, Wrote(W, headers, made, modes, c)
  PROVE  WellTyped(W)
<1>3. /\ DOMAIN W = DOMAIN headers \cup SetBy(made)
      /\ \A h \in SetBy(made) :
           W[h] = Says(h, c) /\ \E mode \in Injected(modes) : h \in HeadersOf(mode, c)
      /\ \A h \in DOMAIN headers : h \notin SetBy(made) => W[h] = headers[h]
  BY DEF Wrote
<1>4. \A h \in SetBy(made) : h \in Headers /\ W[h] \in Denotations(h)
  BY <1>3, SaysTyped
<1>5. DOMAIN headers \subseteq Headers /\ \A h \in DOMAIN headers : headers[h] \in Denotations(h)
  BY DEF WellTyped
<1>6. DOMAIN W \subseteq Headers /\ \A h \in DOMAIN W : W[h] \in Denotations(h)
  BY <1>3, <1>4, <1>5
<1> QED BY <1>6 DEF WellTyped

LEMMA EmptyTyped == WellTyped(Empty) /\ DOMAIN Empty = {}
BY DEF WellTyped, Empty

-----------------------------------------------------------------------------
(* What the headers of a mode tell.                                        *)

Parts == {"trace", "span", "sampled", "context"}

\* Headers that are kept, or garbled, tell what they told.
LEMMA TellsKept ==
  ASSUME NEW headers, NEW mode, NEW c, Tells(headers, mode, c), NEW W,
         \A part \in Parts : <<mode, part>> \in DOMAIN W =>
           /\ <<mode, part>> \in DOMAIN headers
           /\ W[<<mode, part>>] \in {headers[<<mode, part>>], Corrupt}
  PROVE  Tells(W, mode, c)
<1>1. <<mode, "trace">> \in DOMAIN W => W[<<mode, "trace">>] \in {TraceIn(mode, c), Corrupt}
  BY DEF Tells, Parts
<1>2. <<mode, "span">> \in DOMAIN W => W[<<mode, "span">>] \in {c.span, Corrupt}
  BY DEF Tells, Parts
<1>3. <<mode, "sampled">> \in DOMAIN W => W[<<mode, "sampled">>] \in {c.sampled, Corrupt}
  BY DEF Tells, Parts
<1>4. <<mode, "context">> \in DOMAIN W /\ W[<<mode, "context">>] # Corrupt =>
        /\ <<mode, "context">> \in DOMAIN headers /\ W[<<mode, "context">>] = headers[<<mode, "context">>]
  BY DEF Parts
<1> QED BY <1>1, <1>2, <1>3, <1>4 DEF Tells

\* Headers that were injected tell of the context that was.
LEMMA TellsSaid ==
  ASSUME NEW mode \in Modes, NEW c \in SpanContexts, NEW W, WellTyped(W),
         \A part \in Parts : <<mode, part>> \in DOMAIN W => W[<<mode, part>>] = Says(<<mode, part>>, c)
  PROVE  Tells(W, mode, c)
<1>1. CASE mode \in Multi
  <2>1. <<mode, "context">> \notin DOMAIN W /\ mode # "baggage"
    BY <1>1 DEF WellTyped, Headers, Multi, Single
  <2>2. /\ Says(<<mode, "trace">>, c) = TraceIn(mode, c) /\ Says(<<mode, "span">>, c) = c.span
        /\ Says(<<mode, "sampled">>, c) = c.sampled
    BY <1>1, <2>1 DEF Says, Multi, StateHeader
  <2> QED BY <2>1, <2>2 DEF Tells, Parts
<1>2. CASE mode \in Single
  <2>1. <<mode, "trace">> \notin DOMAIN W /\ <<mode, "span">> \notin DOMAIN W /\ <<mode, "sampled">> \notin DOMAIN W
    BY <1>2 DEF WellTyped, Headers, Multi, Single
  <2>2. PICK v : v = Says(<<mode, "context">>, c)
    OBVIOUS
  <2>3. v.trace = TraceIn(mode, c) /\ v.span = c.span /\ v.sampled = c.sampled
    <3>1. CASE mode = "envoy"
      <4>1. v = BinaryCarrier(c)
        BY <2>2, <3>1 DEF Says, Multi, StateHeader
      <4> QED BY <3>1, <4>1 DEF BinaryCarrier, TraceIn
    <3>2. CASE mode \in {"trace_context", "cloud_trace"}
      <4>1. v = TraceParent(c)
        BY <2>2, <3>2 DEF Says, Multi, StateHeader
      <4> QED BY <3>2, <4>1 DEF TraceParent, TraceIn
    <3> QED BY <1>2, <3>1, <3>2 DEF Single
  <2>4. <<mode, "context">> \in DOMAIN W => W[<<mode, "context">>] = v
    BY <2>2 DEF Parts
  <2> QED BY <2>1, <2>3, <2>4 DEF Tells
<1> QED BY <1>1, <1>2 DEF Modes

\* A mode's own headers are set only by that mode's propagator.
LEMMA OwnParts ==
  ASSUME NEW modes \in Seq(Modes), NEW c \in SpanContexts, NEW headers, NEW made,
         NEW W, Wrote(W, headers, made, modes, c),
         NEW mode \in Modes, NEW part \in Parts, <<mode, part>> \in SetBy(made)
  PROVE  mode \in ToSet(modes) /\ W[<<mode, part>>] = Says(<<mode, part>>, c)
<1>1. PICK h : h = <<mode, part>>
  OBVIOUS
<1>2. PICK other \in Injected(modes) : h \in HeadersOf(other, c)
  BY <1>1 DEF Wrote
<1>3. h # StateHeader
  BY <1>1 DEF StateHeader, Parts
<1>4. h[1] = other
  BY <1>2, <1>3, SaysTyped
<1>5. mode = other /\ mode # "baggage"
  BY <1>1, <1>4 DEF Modes, Multi, Single
<1>6. W[h] = Says(h, c)
  BY <1>1 DEF Wrote
<1> QED BY <1>1, <1>2, <1>5, <1>6 DEF Injected

\* An injection that is not cut short sets them all.
LEMMA AllParts ==
  ASSUME NEW modes \in Seq(Modes), NEW c \in SpanContexts, NEW headers,
         NEW W, Wrote(W, headers, InjectSpanContext(modes, c), modes, c), WellTyped(W),
         NEW mode \in ToSet(modes)
  PROVE  /\ mode \in Modes /\ Complete(W, mode)
         /\ HeadersOf(mode, c) \subseteq SetBy(InjectSpanContext(modes, c))
         /\ \A part \in Parts : <<mode, part>> \in DOMAIN W =>
              <<mode, part>> \in SetBy(InjectSpanContext(modes, c))
<1>1. mode \in Modes
  <2>1. \A i \in DOMAIN modes : modes[i] \in Modes
    BY LenProperties, ElementOfSeq
  <2> QED BY <2>1 DEF ToSet
<1>2. mode \in Injected(modes)
  BY DEF Injected
<1>3. HeadersOf(mode, c) \subseteq SetBy(InjectSpanContext(modes, c))
  BY <1>2 DEF Wrote
<1>4. HeadersOf(mode, c) \subseteq DOMAIN W
  BY <1>3 DEF Wrote
<1>5. CASE mode \in Multi
  <2>1. HeadersOf(mode, c) = {<<mode, "trace">>, <<mode, "span">>, <<mode, "sampled">>}
    BY <1>5 DEF HeadersOf, Multi
  <2>2. <<mode, "context">> \notin DOMAIN W
    BY <1>5 DEF WellTyped, Headers, Multi, Single
  <2>3. Complete(W, mode)
    BY <1>4, <1>5, <2>1 DEF Complete
  <2> QED BY <1>1, <1>3, <2>1, <2>2, <2>3 DEF Parts
<1>6. CASE mode \in Single
  <2>1. mode \notin Multi
    BY <1>6 DEF Multi, Single
  <2>2. <<mode, "context">> \in HeadersOf(mode, c)
    <3>1. CASE mode = "trace_context"
      BY <2>1, <3>1 DEF HeadersOf
    <3>2. CASE mode \in {"envoy", "cloud_trace"}
      BY <2>1, <3>2 DEF HeadersOf
    <3> QED BY <1>6, <3>1, <3>2 DEF Single
  <2>3. /\ <<mode, "trace">> \notin DOMAIN W /\ <<mode, "span">> \notin DOMAIN W
        /\ <<mode, "sampled">> \notin DOMAIN W
    BY <1>6 DEF WellTyped, Headers, Multi, Single
  <2>4. Complete(W, mode)
    BY <1>4, <2>1, <2>2 DEF Complete
  <2> QED BY <1>1, <1>3, <2>2, <2>3, <2>4 DEF Parts
<1> QED BY <1>1, <1>5, <1>6 DEF Modes

\* What each mode's headers tell after an injection: of the new context, or of
\* the one they told of before.
LEMMA TellsWritten ==
  ASSUME NEW modes \in Seq(Modes), NEW c \in SpanContexts, NEW headers,
         NEW made, NEW W, Wrote(W, headers, made, modes, c), WellTyped(W),
         NEW mode \in Modes, headers = Empty \/ made = InjectSpanContext(modes, c)
  PROVE  \/ Tells(W, mode, c)
         \/ \A old : Tells(headers, mode, old) => Tells(W, mode, old)
<1>1. CASE \A part \in Parts : <<mode, part>> \in DOMAIN W => <<mode, part>> \in SetBy(made)
  <2>1. \A part \in Parts : <<mode, part>> \in DOMAIN W => W[<<mode, part>>] = Says(<<mode, part>>, c)
    BY <1>1, OwnParts
  <2> QED BY <2>1, TellsSaid
<1>2. CASE mode \notin ToSet(modes)
  <2>1. \A part \in Parts : <<mode, part>> \in DOMAIN W =>
          /\ <<mode, part>> \in DOMAIN headers /\ W[<<mode, part>>] = headers[<<mode, part>>]
    <3>1. \A part \in Parts : <<mode, part>> \notin SetBy(made)
      BY <1>2, OwnParts
    <3> QED BY <3>1 DEF Wrote
  <2> QED BY <2>1, TellsKept
<1>3. CASE headers = Empty
  <2>1. DOMAIN W = SetBy(made)
    BY <1>3, EmptyTyped DEF Wrote
  <2> QED BY <1>1, <2>1
<1>4. CASE made = InjectSpanContext(modes, c) /\ mode \in ToSet(modes)
  <2>1. \A part \in Parts : <<mode, part>> \in DOMAIN W => <<mode, part>> \in SetBy(made)
    BY <1>4, AllParts
  <2> QED BY <1>1, <2>1
<1> QED BY <1>2, <1>3, <1>4

\* Nothing is corrupt, and each mode's headers are there or not.
Whole(headers) ==
  /\ \A h \in DOMAIN headers : headers[h] # Corrupt
  /\ \A mode \in Modes : Complete(headers, mode) \/ Absent(headers, mode)

LEMMA WholeWritten ==
  ASSUME NEW modes \in Seq(Modes), NEW c \in SpanContexts, NEW headers, Whole(headers),
         NEW W, Wrote(W, headers, InjectSpanContext(modes, c), modes, c), WellTyped(W)
  PROVE  Whole(W) /\ \A mode \in ToSet(modes) : Complete(W, mode)
<1>1. PICK made : made = InjectSpanContext(modes, c)
  OBVIOUS
<1>2. \A mode \in ToSet(modes) : Complete(W, mode)
  BY AllParts
<1>3. \A h \in DOMAIN W : W[h] # Corrupt
  <2>1. \A h \in SetBy(made) : W[h] = Says(h, c) /\ Says(h, c) # Corrupt
    BY <1>1, SaysTyped DEF Wrote
  <2>2. \A h \in DOMAIN W : h \in SetBy(made) \/ (h \in DOMAIN headers /\ W[h] = headers[h])
    BY <1>1 DEF Wrote
  <2> QED BY <2>1, <2>2 DEF Whole
<1>4. ASSUME NEW mode \in Modes, mode \notin ToSet(modes)
      PROVE  Complete(W, mode) \/ Absent(W, mode)
  <2>1. \A part \in Parts : <<mode, part>> \notin SetBy(made)
    BY <1>1, <1>4, OwnParts
  <2>2. \A part \in Parts : <<mode, part>> \in DOMAIN W <=> <<mode, part>> \in DOMAIN headers
    BY <1>1, <2>1 DEF Wrote
  <2>3. CASE Complete(headers, mode)
    BY <2>2, <2>3 DEF Complete, Parts
  <2>4. CASE Absent(headers, mode)
    BY <2>2, <2>4 DEF Absent, Parts
  <2> QED BY <2>3, <2>4 DEF Whole
<1> QED BY <1>2, <1>3, <1>4 DEF Whole

LEMMA EmptyWhole == Whole(Empty)
BY EmptyTyped DEF Whole, Absent

-----------------------------------------------------------------------------
(* What a service hears.                                                   *)

LEMMA TraceInLow ==
  ASSUME NEW mode, NEW c \in SpanContexts
  PROVE  /\ TraceIn(mode, c) \in {c.trace, Low(c.trace)}
         /\ Low(TraceIn(mode, c)) = Low(c.trace)
         /\ mode \notin {"lightstep", "envoy"} => TraceIn(mode, c) = c.trace
<1>1. c.trace \in Traces
  BY DEF SpanContexts
<1>2. Low(Low(c.trace)) = Low(c.trace)
  BY <1>1 DEF Low, Traces
<1> QED BY <1>2 DEF TraceIn

\* A context that the headers of a mode denote is the one they tell of.
LEMMA Heard ==
  ASSUME NEW headers, NEW mode \in Modes, NEW c \in SpanContexts, Tells(headers, mode, c),
         NEW out, Denoted(headers, mode, out)
  PROVE  /\ out.trace = TraceIn(mode, c)
         /\ out.span \in {c.span, 0}
         /\ c.sampled => out.sampled
         /\ Whole(headers) => out.sampled = c.sampled
<1>1. c.sampled \in BOOLEAN /\ out.sampled \in BOOLEAN
  BY DEF SpanContexts, Denoted
<1>2. Corrupt # FALSE /\ Missing # FALSE /\ Missing # TRUE
  BY MarksAssumption
<1>3. CASE mode \in Multi
  <2>1. /\ headers[<<mode, "trace">>] = TraceIn(mode, c) /\ headers[<<mode, "span">>] = c.span
        /\ out.trace = headers[<<mode, "trace">>] /\ out.span = headers[<<mode, "span">>]
    BY <1>3 DEF Denoted, Tells
  <2>2. PICK s : s = headers[<<mode, "sampled">>]
    OBVIOUS
  <2>3. out.sampled <=> (<<mode, "sampled">> \in DOMAIN headers => s # FALSE)
    BY <1>3, <2>2 DEF Denoted
  <2>4. <<mode, "sampled">> \in DOMAIN headers => s = c.sampled \/ s = Corrupt
    BY <2>2 DEF Tells
  <2>5. Whole(headers) => <<mode, "sampled">> \in DOMAIN headers /\ s # Corrupt
    <3>1. ~Absent(headers, mode)
      BY <1>3 DEF Denoted, Absent
    <3> QED BY <1>3, <2>2, <3>1 DEF Whole, Complete
  <2> QED BY <1>1, <1>2, <2>1, <2>3, <2>4, <2>5
<1>4. CASE mode \in Single
  <2>1. PICK value : value = headers[<<mode, "context">>]
    OBVIOUS
  <2>2. /\ value.trace = TraceIn(mode, c) /\ value.span \in {c.span, Missing}
        /\ value.sampled = c.sampled \/ (value.sampled = Missing /\ c.sampled)
    BY <1>4, <2>1 DEF Denoted, Tells
  <2>3. /\ out.trace = value.trace /\ out.span = IF value.span = Missing THEN 0 ELSE value.span
        /\ out.sampled <=> value.sampled # FALSE
    BY <1>4, <2>1 DEF Denoted
  <2> QED BY <1>1, <1>2, <2>2, <2>3
<1> QED BY <1>3, <1>4 DEF Modes

LEMMA ModesOf ==
  ASSUME NEW modes \in ModeLists
  PROVE  modes \in Seq(Modes)
BY ModesAssumption

LEMMA ChildTyped ==
  ASSUME sent \in Seq(SpanContexts), WellTyped(carrier), NEW modes \in Seq(Modes),
         NEW r, r = ExtractSpanContext(modes, carrier)
  PROVE  /\ Child(r) \in SpanContexts
         /\ r.kind = "context" => Child(r).trace = r.out.trace /\ Child(r).sampled = r.out.sampled
<1>1. PICK hop : hop = Len(sent) + 1
  OBVIOUS
<1>2. hop \in Nat
  BY <1>1, LenProperties
<1>3. CASE r.kind = "context"
  <2>1. PICK mode \in Extracted(modes) : Answer(carrier, mode, r)
    BY <1>3, ServiceAnswer
  <2>2. r.out \in SpanContexts
    BY <1>3, <2>1 DEF Answer, Denoted
  <2>3. Child(r) = [r.out EXCEPT !.span = hop]
    BY <1>1, <1>3 DEF Child
  <2>4. Child(r) \in SpanContexts /\ Child(r).trace = r.out.trace /\ Child(r).sampled = r.out.sampled
    BY <1>2, <2>2, <2>3 DEF SpanContexts
  <2> QED BY <2>4
<1>4. CASE r.kind # "context"
  <2>1. Child(r) = [NoContext EXCEPT !.trace.low = hop, !.span = hop, !.sampled = TRUE]
    BY <1>1, <1>4 DEF Child
  <2>2. NoContext \in SpanContexts /\ NoContext.trace \in Traces
    BY DEF NoContext, SpanContexts, Traces, Baggages
  <2>3. [NoContext.trace EXCEPT !.low = hop] \in Traces
    BY <1>2, <2>2 DEF Traces
  <2>4. Child(r) \in SpanContexts
    BY <1>2, <2>1, <2>2, <2>3 DEF SpanContexts
  <2> QED BY <1>4, <2>4
<1> QED BY <1>3, <1>4

-----------------------------------------------------------------------------
(* The invariant.                                                          *)

LEMMA Lasts ==
  ASSUME NEW S, NEW s \in Seq(S), NEW x \in S
  PROVE  /\ Append(s, x) \in Seq(S) /\ Len(Append(s, x)) = Len(s) + 1 /\ Len(s) \in Nat
         /\ DOMAIN Append(s, x) = 1 .. Len(s) + 1 /\ DOMAIN s = 1 .. Len(s)
         /\ Last(Append(s, x)) = x /\ Append(s, x)[Len(s) + 1] = x
         /\ \A i \in DOMAIN s : Append(s, x)[i] = s[i] /\ i \in DOMAIN Append(s, x)
<1>1. Len(s) \in Nat /\ DOMAIN s = 1 .. Len(s)
  BY LenProperties
<1>2. /\ Append(s, x) \in Seq(S) /\ Len(Append(s, x)) = Len(s) + 1 /\ Append(s, x)[Len(s) + 1] = x
      /\ \A i \in 1 .. Len(s) : Append(s, x)[i] = s[i]
  BY AppendProperties
<1>3. Last(Append(s, x)) = x
  BY <1>2 DEF Last
<1>4. DOMAIN Append(s, x) = 1 .. Len(s) + 1
  BY <1>2, LenProperties
<1> QED BY <1>1, <1>2, <1>3, <1>4

\* The last service and the last span are in the history.
LEMMA LastIn ==
  ASSUME NEW S, NEW s \in Seq(S), Len(s) > 0
  PROVE  Len(s) \in DOMAIN s /\ Last(s) = s[Len(s)] /\ Last(s) \in S /\ 1 \in DOMAIN s
<1>1. Len(s) \in Nat /\ DOMAIN s = 1 .. Len(s)
  BY LenProperties
<1>2. Len(s) \in DOMAIN s /\ 1 \in DOMAIN s
  BY <1>1
<1>3. s[Len(s)] \in S
  BY <1>1, <1>2, ElementOfSeq
<1> QED BY <1>2, <1>3 DEF Last

\* With nothing corrupt a service finds a context if the headers of one of its
\* modes are there.
LEMMA Finds ==
  ASSUME NEW headers, WellTyped(headers), Whole(headers), NEW modes \in Seq(Modes),
         NEW own \in Extracted(modes), Complete(headers, own),
         NEW r, r = ExtractSpanContext(modes, headers)
  PROVE  /\ r.kind = "context"
         /\ \E mode \in Extracted(modes) : /\ mode \in Modes /\ ~Absent(headers, mode)
                                           /\ Denoted(headers, mode, r.out)
<1>1. own \in Modes
  BY Extractors
<1>2. ~Absent(headers, own)
  BY <1>1 DEF Complete, Absent, Modes
<1>3. PICK mode \in Extracted(modes) : Answer(headers, mode, r) /\ r.kind # "none"
  BY <1>2, ServiceAnswer
<1>4. mode \in Modes
  BY <1>3, Extractors
<1>5. ~Absent(headers, mode) /\ (r.kind = "error" => Wrong(headers, mode))
  BY <1>3 DEF Answer
<1>6. ~Wrong(headers, mode)
  BY <1>4, <1>5 DEF Wrong, Whole
<1>7. r.kind = "context" /\ Denoted(headers, mode, r.out)
  BY <1>3, <1>5, <1>6 DEF Answer
<1> QED BY <1>4, <1>5, <1>7

\* A service and its receiver understand each other if one of the modes that the
\* receiver extracts is the sender's.
LEMMA InCommon ==
  ASSUME NEW sender, NEW receiver
  PROVE  Common(sender, receiver) <=> ToSet(sender) \cap Extracted(receiver) # {}
BY DEF Common, Extracted

\* A service that understands the one before it joins its trace.
LEMMA Joined ==
  ASSUME PropagationInv, faults = 0, NEW modes \in ModeLists, Common(Last(lists), modes),
         NEW r, r = ExtractSpanContext(modes, carrier)
  PROVE  /\ r.kind = "context"
         /\ \E mode \in Extracted(modes) : \E i \in DOMAIN sent :
              /\ r.out.trace = TraceIn(mode, sent[i])
              /\ r.out.sampled = sent[i].sampled
<1>1. /\ WellTyped(carrier) /\ sent \in Seq(SpanContexts) /\ lists \in Seq(ModeLists)
      /\ Whole(carrier) /\ ~mixed
      /\ \A mode \in ToSet(Last(lists)) : Complete(carrier, mode)
  BY DEF PropagationInv, PropagationTypes, Undamaged, Whole
<1>2. modes \in Seq(Modes)
  BY ModesOf
<1>3. PICK own \in Extracted(modes) : Complete(carrier, own)
  BY <1>1, InCommon
<1>4. /\ r.kind = "context"
      /\ \E mode \in Extracted(modes) : /\ mode \in Modes /\ ~Absent(carrier, mode)
                                        /\ Denoted(carrier, mode, r.out)
  BY <1>1, <1>2, <1>3, Finds
<1>5. PICK mode \in Extracted(modes) : mode \in Modes /\ Denoted(carrier, mode, r.out)
  BY <1>4
<1>6. PICK i \in DOMAIN sent : Tells(carrier, mode, sent[i])
  BY <1>1, <1>5 DEF PropagationInv, Sources
<1>7. sent[i] \in SpanContexts
  BY <1>1, LenProperties, ElementOfSeq
<1>8. r.out.trace = TraceIn(mode, sent[i]) /\ r.out.sampled = sent[i].sampled
  BY <1>1, <1>5, <1>6, <1>7, Heard
<1> QED BY <1>4, <1>5, <1>8

\* What a service does to the request on its way.
Served(modes, forward, c, calls, made, headers) ==
  /\ c = Child(ExtractSpanContext(modes, carrier)) /\ c \in SpanContexts
  /\ calls = InjectSpanContext(modes, c) /\ made \subseteq calls
  /\ headers = (IF forward THEN carrier ELSE Empty) /\ WellTyped(headers)
  /\ carrier' = Written(headers, made) /\ Wrote(carrier', headers, made, modes, c)
  /\ faults' = (IF made # calls THEN faults + 1 ELSE faults)
  /\ fresh' = (~forward /\ made = calls)
  /\ mixed' = (mixed \/ (forward /\ made # calls))
  /\ sent' = Append(sent, c) /\ lists' = Append(lists, modes)

LEMMA ServeServed ==
  ASSUME PropagationInv, NEW modes \in ModeLists, NEW forward \in BOOLEAN, Serve(modes, forward)
  PROVE  \E c, calls, made, headers : Served(modes, forward, c, calls, made, headers)
<1>1. PICK c : c = Child(ExtractSpanContext(modes, carrier))
  OBVIOUS
<1>2. PICK calls : calls = InjectSpanContext(modes, c)
  OBVIOUS
<1>3. PICK headers : headers = IF forward THEN carrier ELSE Empty
  OBVIOUS
<1>4. PICK made \in {calls} \cup {Until(calls, stop) : stop \in calls} :
        /\ carrier' = Written(headers, made)
        /\ faults' = (IF made # calls THEN faults + 1 ELSE faults)
        /\ fresh' = (~forward /\ ~(made # calls))
        /\ mixed' = (mixed \/ (forward /\ made # calls))
  BY <1>1, <1>2, <1>3 DEF Serve
<1>5. sent' = Append(sent, c) /\ lists' = Append(lists, modes)
  BY <1>1 DEF Serve
<1>6. made \subseteq calls
  BY DEF Until
<1>7. modes \in Seq(Modes)
  BY ModesOf
<1>8. WellTyped(carrier) /\ sent \in Seq(SpanContexts)
  BY DEF PropagationInv, PropagationTypes
<1>9. c \in SpanContexts
  BY <1>1, <1>7, <1>8, ChildTyped
<1>10. WellTyped(headers)
  BY <1>3, <1>8, EmptyTyped
<1>11. made \subseteq InjectSpanContext(modes, c)
  BY <1>2, <1>6
<1>12. Wrote(Written(headers, made), headers, made, modes, c)
  BY <1>7, <1>9, <1>11, WrittenShape
<1>13. Wrote(carrier', headers, made, modes, c)
  BY <1>4, <1>12
<1>14. Served(modes, forward, c, calls, made, headers)
  BY <1>1, <1>2, <1>3, <1>4, <1>5, <1>6, <1>9, <1>10, <1>13 DEF Served
<1> QED BY <1>14

LEMMA ServeKeeps ==
  ASSUME PropagationInv, NEW modes \in ModeLists, NEW forward \in BOOLEAN,
         NEW c, NEW calls, NEW made, NEW headers, Served(modes, forward, c, calls, made, headers)
  PROVE  PropagationInv'
<1>1. /\ c = Child(ExtractSpanContext(modes, carrier)) /\ c \in SpanContexts
      /\ calls = InjectSpanContext(modes, c) /\ made \subseteq calls
      /\ headers = (IF forward THEN carrier ELSE Empty) /\ WellTyped(headers)
      /\ carrier' = Written(headers, made) /\ Wrote(carrier', headers, made, modes, c)
      /\ faults' = (IF made # calls THEN faults + 1 ELSE faults)
      /\ fresh' = (~forward /\ made = calls)
      /\ mixed' = (mixed \/ (forward /\ made # calls))
      /\ sent' = Append(sent, c) /\ lists' = Append(lists, modes)
  BY DEF Served
<1>2. /\ WellTyped(carrier) /\ sent \in Seq(SpanContexts) /\ lists \in Seq(ModeLists)
      /\ Len(sent) = Len(lists) /\ Len(sent) > 0
      /\ faults \in Nat /\ fresh \in BOOLEAN /\ mixed \in BOOLEAN
  BY DEF PropagationInv, PropagationTypes
<1>3. modes \in Seq(Modes)
  BY ModesOf
<1>4. /\ sent' \in Seq(SpanContexts) /\ Len(sent') = Len(sent) + 1 /\ Len(sent) \in Nat
      /\ DOMAIN sent' = 1 .. Len(sent) + 1 /\ DOMAIN sent = 1 .. Len(sent)
      /\ Last(sent') = c /\ sent'[Len(sent) + 1] = c
      /\ \A i \in DOMAIN sent : sent'[i] = sent[i] /\ i \in DOMAIN sent'
  <2>1. sent \in Seq(SpanContexts) /\ c \in SpanContexts
    BY <1>1, <1>2
  <2>2. sent' = Append(sent, c)
    BY <1>1
  <2>3. /\ Append(sent, c) \in Seq(SpanContexts) /\ Len(Append(sent, c)) = Len(sent) + 1 /\ Len(sent) \in Nat
        /\ DOMAIN Append(sent, c) = 1 .. Len(sent) + 1 /\ DOMAIN sent = 1 .. Len(sent)
        /\ Last(Append(sent, c)) = c /\ Append(sent, c)[Len(sent) + 1] = c
        /\ \A i \in DOMAIN sent : Append(sent, c)[i] = sent[i] /\ i \in DOMAIN Append(sent, c)
    BY <2>1, Lasts
  <2> QED BY <2>2, <2>3
<1>5. /\ lists' \in Seq(ModeLists) /\ Len(lists') = Len(lists) + 1 /\ Len(lists) \in Nat
      /\ DOMAIN lists' = 1 .. Len(lists) + 1 /\ DOMAIN lists = 1 .. Len(lists)
      /\ Last(lists') = modes /\ lists'[Len(lists) + 1] = modes
      /\ \A i \in DOMAIN lists : lists'[i] = lists[i] /\ i \in DOMAIN lists'
  <2>1. lists \in Seq(ModeLists) /\ modes \in ModeLists
    BY <1>1, <1>2
  <2>2. lists' = Append(lists, modes)
    BY <1>1
  <2>3. /\ Append(lists, modes) \in Seq(ModeLists) /\ Len(Append(lists, modes)) = Len(lists) + 1 /\ Len(lists) \in Nat
        /\ DOMAIN Append(lists, modes) = 1 .. Len(lists) + 1 /\ DOMAIN lists = 1 .. Len(lists)
        /\ Last(Append(lists, modes)) = modes /\ Append(lists, modes)[Len(lists) + 1] = modes
        /\ \A i \in DOMAIN lists : Append(lists, modes)[i] = lists[i] /\ i \in DOMAIN Append(lists, modes)
    BY <2>1, Lasts
  <2> QED BY <2>2, <2>3
<1>6. WellTyped(carrier')
  BY <1>1, <1>3, WrittenTyped
<1>7. PropagationTypes'
  <2>1. faults' \in Nat
    BY <1>1, <1>2
  <2>2. fresh' \in BOOLEAN /\ mixed' \in BOOLEAN
    BY <1>1
  <2>3. Len(sent') = Len(lists') /\ Len(sent') > 0
    BY <1>2, <1>4, <1>5
  <2>4. WellTyped(carrier)'
    BY <1>6 DEF WellTyped, Denotations
  <2> QED BY <1>4, <1>5, <2>1, <2>2, <2>3, <2>4 DEF PropagationTypes
<1>8. Sources'
  <2>1. SUFFICES ASSUME ~mixed', NEW mode \in Modes
                 PROVE  \E i \in DOMAIN sent' : Tells(carrier', mode, sent'[i])
    BY DEF Sources, Tells, TraceIn, Low
  <2>2. ~mixed /\ (~forward \/ made = calls)
    BY <1>1, <2>1
  <2>3. headers = Empty \/ made = InjectSpanContext(modes, c)
    BY <1>1, <2>2
  <2>4. \/ Tells(carrier', mode, c)
        \/ \A old : Tells(headers, mode, old) => Tells(carrier', mode, old)
    BY <1>1, <1>3, <1>6, <2>3, TellsWritten
  <2>5. CASE Tells(carrier', mode, c)
    <3>1. Len(sent) + 1 \in DOMAIN sent'
      BY <1>4
    <3> QED BY <1>4, <2>5, <3>1
  <2>6. CASE \A old : Tells(headers, mode, old) => Tells(carrier', mode, old)
    <3>1. PICK i \in DOMAIN sent : Tells(carrier, mode, sent[i])
      BY <2>2 DEF PropagationInv, Sources
    <3>2. Tells(headers, mode, sent[i])
      <4>1. CASE forward
        BY <1>1, <3>1, <4>1
      <4>2. CASE ~forward
        <5>1. DOMAIN headers = {}
          BY <1>1, <4>2, EmptyTyped
        <5> QED BY <5>1 DEF Tells
      <4> QED BY <4>1, <4>2
    <3>3. Tells(carrier', mode, sent'[i])
      BY <1>4, <2>6, <3>2
    <3> QED BY <1>4, <3>3
  <2> QED BY <2>4, <2>5, <2>6
<1>9. Undamaged'
  <2>1. SUFFICES ASSUME faults' = 0
                 PROVE  /\ ~mixed'
                        /\ Whole(carrier') /\ \A mode \in ToSet(modes) : Complete(carrier', mode)
    BY <1>5 DEF Undamaged, Whole, Complete, Absent
  <2>2. faults = 0 /\ made = calls
    BY <1>1, <1>2, <2>1
  <2>3. ~mixed /\ Whole(carrier)
    BY <2>2 DEF PropagationInv, Undamaged, Whole
  <2>4. Whole(headers)
    BY <1>1, <2>3, EmptyWhole
  <2>5. Wrote(carrier', headers, InjectSpanContext(modes, c), modes, c)
    BY <1>1, <2>2
  <2>6. Whole(carrier') /\ \A mode \in ToSet(modes) : Complete(carrier', mode)
    BY <1>1, <1>3, <1>6, <2>4, <2>5, WholeWritten
  <2> QED BY <1>1, <2>2, <2>3, <2>6
<1>10. Fresh'
  <2>1. SUFFICES ASSUME fresh' PROVE carrier' = Written(Empty, InjectSpanContext(modes, c))
    BY <1>4, <1>5 DEF Fresh
  <2>2. ~forward /\ made = calls
    BY <1>1, <2>1
  <2> QED BY <1>1, <2>2
<1>11. OneTrace'
  <2>1. SUFFICES ASSUME faults' = 0, \A i \in 2 .. Len(lists') : Common(lists'[i - 1], lists'[i]),
                        NEW k \in DOMAIN sent'
                 PROVE  /\ Low(sent'[k].trace) = Low(sent'[1].trace)
                        /\ sent'[k].sampled = sent'[1].sampled
                        /\ (\A i \in DOMAIN lists' : ToSet(lists'[i]) \cap {"lightstep", "envoy"} = {})
                             => sent'[k].trace = sent'[1].trace
    BY DEF OneTrace, Low, Common
  <2>2. faults = 0
    BY <1>1, <1>2, <2>1
  <2>3. 1 \in DOMAIN sent /\ sent'[1] = sent[1]
    BY <1>2, <1>4
  <2>4. \A i \in 2 .. Len(lists) : Common(lists[i - 1], lists[i])
    <3>1. \A i \in 2 .. Len(lists) :
            i \in 2 .. Len(lists') /\ i - 1 \in DOMAIN lists /\ i \in DOMAIN lists
      BY <1>5
    <3> QED BY <1>5, <2>1, <3>1
  <2>5. DEFINE wide == \A i \in DOMAIN lists : ToSet(lists[i]) \cap {"lightstep", "envoy"} = {}
  <2>6. \A i \in DOMAIN sent :
          /\ Low(sent[i].trace) = Low(sent[1].trace) /\ sent[i].sampled = sent[1].sampled
          /\ wide => sent[i].trace = sent[1].trace
    BY <2>2, <2>4 DEF PropagationInv, OneTrace
  <2>7. (\A i \in DOMAIN lists' : ToSet(lists'[i]) \cap {"lightstep", "envoy"} = {})
          => wide /\ ToSet(modes) \cap {"lightstep", "envoy"} = {}
    <3>1. Len(lists) + 1 \in DOMAIN lists'
      BY <1>5
    <3> QED BY <1>5, <3>1
  <2> HIDE DEF wide
  <2>8. CASE k \in DOMAIN sent
    BY <1>4, <2>3, <2>6, <2>7, <2>8
  <2>9. CASE k = Len(sent) + 1
    <3>1. Common(Last(lists), modes)
      <4>1. Len(lists) + 1 \in 2 .. Len(lists') /\ (Len(lists) + 1) - 1 = Len(lists)
            /\ Len(lists) \in DOMAIN lists
        BY <1>2, <1>5
      <4>2. Common(lists'[Len(lists)], lists'[Len(lists) + 1])
        BY <2>1, <4>1
      <4> QED BY <1>5, <4>1, <4>2 DEF Last
    <3>2. PICK r : r = ExtractSpanContext(modes, carrier)
      OBVIOUS
    <3>3. /\ r.kind = "context"
          /\ \E mode \in Extracted(modes) : \E i \in DOMAIN sent :
               r.out.trace = TraceIn(mode, sent[i]) /\ r.out.sampled = sent[i].sampled
      BY <2>2, <3>1, <3>2, Joined
    <3>4. PICK mode \in Extracted(modes) : \E i \in DOMAIN sent :
               r.out.trace = TraceIn(mode, sent[i]) /\ r.out.sampled = sent[i].sampled
      BY <3>3
    <3>5. PICK i \in DOMAIN sent :
               r.out.trace = TraceIn(mode, sent[i]) /\ r.out.sampled = sent[i].sampled
      BY <3>4
    <3>6. c.trace = TraceIn(mode, sent[i]) /\ c.sampled = sent[i].sampled
      BY <1>1, <1>2, <1>3, <3>2, <3>3, <3>5, ChildTyped
    <3>7. sent[i] \in SpanContexts
      BY <1>2, <1>4, ElementOfSeq
    <3>8. /\ Low(c.trace) = Low(sent[i].trace)
          /\ mode \notin {"lightstep", "envoy"} => c.trace = sent[i].trace
      BY <3>6, <3>7, TraceInLow
    <3>9. ToSet(modes) \cap {"lightstep", "envoy"} = {} => mode \notin {"lightstep", "envoy"}
      BY <3>4 DEF Extracted
    <3>10. sent'[k] = c
      BY <1>4, <2>9
    <3> QED BY <2>3, <2>6, <2>7, <3>6, <3>8, <3>9, <3>10
  <2>10. k \in DOMAIN sent \/ k = Len(sent) + 1
    BY <1>4
  <2> QED BY <2>8, <2>9, <2>10
<1> QED BY <1>7, <1>8, <1>9, <1>10, <1>11 DEF PropagationInv

\* Losing or garbling a header.
LEMMA DamageKeeps ==
  ASSUME PropagationInv, NEW h \in Headers, Lose(h) \/ Garble(h)
  PROVE  PropagationInv'
<1>1. PICK W : W = carrier'
  OBVIOUS
<1>2. /\ faults' = faults + 1 /\ fresh' = FALSE /\ sent' = sent /\ lists' = lists /\ mixed' = mixed
      /\ h \in DOMAIN carrier
      /\ \/ W = [g \in DOMAIN carrier \ {h} |-> carrier[g]]
         \/ h[1] # "baggage" /\ h[2] # "state" /\ W = [carrier EXCEPT ![h] = Corrupt]
  BY <1>1 DEF Lose, Garble, Damage
<1>3. PropagationTypes
  BY DEF PropagationInv
<1>4. /\ DOMAIN W \subseteq DOMAIN carrier
      /\ \A g \in DOMAIN W : W[g] = carrier[g] \/ (g = h /\ g[1] # "baggage" /\ g[2] # "state" /\ W[g] = Corrupt)
  BY <1>2
<1>5. \A g \in Headers : g[1] # "baggage" /\ g[2] # "state" => Corrupt \in Denotations(g)
  <2>1. SUFFICES ASSUME NEW g \in Headers, g[1] # "baggage", g[2] # "state"
                 PROVE  Corrupt \in Denotations(g)
    OBVIOUS
  <2>2. CASE g[2] = "trace"
    BY <2>1, <2>2 DEF Denotations
  <2>3. CASE g[2] = "span"
    BY <2>1, <2>3 DEF Denotations
  <2>4. CASE g[2] = "sampled"
    BY <2>1, <2>4 DEF Denotations
  <2>5. CASE g = <<"envoy", "context">>
    BY <2>5 DEF Denotations
  <2>6. CASE g = <<"trace_context", "context">>
    BY <2>6 DEF Denotations
  <2>7. CASE g = <<"cloud_trace", "context">>
    BY <2>7 DEF Denotations
  <2> QED BY <2>1, <2>2, <2>3, <2>4, <2>5, <2>6, <2>7 DEF Headers, Multi, Single
<1>6. WellTyped(W)
  BY <1>3, <1>4, <1>5 DEF PropagationTypes, WellTyped
<1>7. PropagationTypes'
  <2>1. WellTyped(carrier)'
    BY <1>1, <1>6 DEF WellTyped, Denotations
  <2>2. faults' \in Nat
    BY <1>2, <1>3 DEF PropagationTypes
  <2> QED BY <1>2, <1>3, <2>1, <2>2 DEF PropagationTypes
<1>8. Sources'
  <2>1. SUFFICES ASSUME ~mixed, NEW mode \in Modes
                 PROVE  \E i \in DOMAIN sent : Tells(W, mode, sent[i])
    BY <1>1, <1>2 DEF Sources, Tells, TraceIn, Low
  <2>2. PICK i \in DOMAIN sent : Tells(carrier, mode, sent[i])
    BY <2>1 DEF PropagationInv, Sources
  <2>3. Tells(W, mode, sent[i])
    BY <1>4, <2>2, TellsKept
  <2> QED BY <2>3
<1>9. faults' # 0 /\ ~fresh'
  BY <1>2, <1>3 DEF PropagationTypes
<1>10. Undamaged' /\ Fresh' /\ OneTrace'
  BY <1>9 DEF Undamaged, Fresh, OneTrace
<1> QED BY <1>7, <1>8, <1>10 DEF PropagationInv

\* What is in a new request.
LEMMA NewRequest ==
  ASSUME NEW modes \in Seq(Modes), NEW c \in SpanContexts,
         NEW W, W = Written(Empty, InjectSpanContext(modes, c))
  PROVE  /\ Wrote(W, Empty, InjectSpanContext(modes, c), modes, c)
         /\ DOMAIN W = SetBy(InjectSpanContext(modes, c))
         /\ \A h \in DOMAIN W : W[h] = Says(h, c)
         /\ WellTyped(W) /\ Whole(W)
         /\ \A mode \in ToSet(modes) : Complete(W, mode)
         /\ \A mode \in Modes : Tells(W, mode, c)
         /\ \A mode \in Modes : mode \notin ToSet(modes) => Absent(W, mode)
<1>1. PICK made : made = InjectSpanContext(modes, c)
  OBVIOUS
<1>2. Wrote(Written(Empty, made), Empty, made, modes, c)
  BY <1>1, WrittenShape
<1>3. Wrote(W, Empty, made, modes, c)
  BY <1>1, <1>2
<1>4. DOMAIN W = SetBy(made) /\ \A h \in DOMAIN W : W[h] = Says(h, c)
  BY <1>3, EmptyTyped DEF Wrote
<1>5. WellTyped(Empty) /\ Whole(Empty)
  BY EmptyTyped, EmptyWhole
<1>6. WellTyped(W)
  BY <1>3, <1>5, WrittenTyped
<1>7. Whole(W) /\ \A mode \in ToSet(modes) : Complete(W, mode)
  BY <1>1, <1>3, <1>5, <1>6, WholeWritten
<1>8. \A mode \in Modes : Tells(W, mode, c)
  BY <1>4, <1>6, TellsSaid
<1>9. ASSUME NEW mode \in Modes, mode \notin ToSet(modes)
      PROVE  Absent(W, mode)
  <2>1. \A part \in Parts : <<mode, part>> \notin SetBy(made)
    BY <1>3, <1>9, OwnParts
  <2> QED BY <1>4, <2>1 DEF Absent, Parts
<1> QED BY <1>1, <1>3, <1>4, <1>6, <1>7, <1>8, <1>9

\* The short forms of the cloud trace header leave out, but change nothing.
LEMMA FormsOf ==
  ASSUME NEW c \in SpanContexts, NEW W, NEW h, h = <<"cloud_trace", "context">>,
         h \in DOMAIN W => W[h] = TraceParent(c), NEW X \in Forms(W)
  PROVE  /\ DOMAIN X = DOMAIN W
         /\ \A g \in DOMAIN X :
              \/ X[g] = W[g]
              \/ /\ g = h /\ c.sampled /\ X[g] \in TraceParents
                 /\ X[g].trace = c.trace /\ X[g].span \in {c.span, Missing} /\ X[g].sampled = Missing
<1>1. CASE X = W
  BY <1>1
<1>2. CASE X # W
  <2>1. /\ h \in DOMAIN W /\ W[h].sampled
        /\ \/ X = [W EXCEPT ![h].sampled = Missing]
           \/ X = [W EXCEPT ![h].sampled = Missing, ![h].span = Missing]
    BY <1>2 DEF Forms
  <2>2. PICK v : v = W[h]
    OBVIOUS
  <2>3. v = [trace |-> c.trace, span |-> c.span, sampled |-> c.sampled] /\ c.sampled
    BY <2>1, <2>2 DEF TraceParent
  <2>4. DOMAIN X = DOMAIN W /\ \A g \in DOMAIN X : g # h => X[g] = W[g]
    BY <2>1
  <2>5. \/ X[h] = [v EXCEPT !.sampled = Missing]
        \/ X[h] = [v EXCEPT !.sampled = Missing, !.span = Missing]
    BY <2>1, <2>2
  <2>6. /\ X[h].trace = c.trace /\ X[h].span \in {c.span, Missing} /\ X[h].sampled = Missing
        /\ X[h] \in TraceParents
    BY <2>3, <2>5 DEF SpanContexts, TraceParents
  <2> QED BY <2>3, <2>4, <2>6
<1> QED BY <1>1, <1>2

LEMMA RequestInit ==
  ASSUME PropagationInit
  PROVE  PropagationInv
<1>1. PICK modes \in ModeLists, c \in Foreign :
        /\ carrier \in Forms(Written(Empty, InjectSpanContext(modes, c)))
        /\ sent = <<c>> /\ lists = <<modes>> /\ faults = 0 /\ mixed = FALSE
        /\ fresh = (carrier = Written(Empty, InjectSpanContext(modes, c)))
  BY DEF PropagationInit
<1>2. c \in SpanContexts
  BY DEF Foreign, SpanContexts, Traces
<1>3. modes \in Seq(Modes)
  BY ModesOf
<1>4. PICK W : W = Written(Empty, InjectSpanContext(modes, c))
  OBVIOUS
<1>5. /\ \A h \in DOMAIN W : W[h] = Says(h, c)
      /\ WellTyped(W) /\ Whole(W)
      /\ \A mode \in ToSet(modes) : Complete(W, mode)
      /\ \A mode \in Modes : Tells(W, mode, c)
  BY <1>2, <1>3, <1>4, NewRequest
<1>6. PICK h : h = <<"cloud_trace", "context">>
  OBVIOUS
<1>7. h \in DOMAIN W => W[h] = TraceParent(c)
  BY <1>5, <1>6 DEF Says, Multi, StateHeader
<1>8. /\ DOMAIN carrier = DOMAIN W
      /\ \A g \in DOMAIN carrier :
           \/ carrier[g] = W[g]
           \/ /\ g = h /\ c.sampled /\ carrier[g] \in TraceParents
              /\ carrier[g].trace = c.trace /\ carrier[g].span \in {c.span, Missing}
              /\ carrier[g].sampled = Missing
  BY <1>1, <1>2, <1>4, <1>6, <1>7, FormsOf
<1>9. Denotations(h) = TraceParents \cup {Corrupt}
  BY <1>6 DEF Denotations
<1>10. WellTyped(carrier)
  BY <1>5, <1>8, <1>9 DEF WellTyped
<1>11. /\ sent \in Seq(SpanContexts) /\ lists \in Seq(ModeLists)
       /\ Len(sent) = 1 /\ Len(lists) = 1 /\ DOMAIN sent = {1} /\ DOMAIN lists = {1}
       /\ sent[1] = c /\ lists[1] = modes
  BY <1>1, <1>2
<1>12. Last(sent) = c /\ Last(lists) = modes
  BY <1>11 DEF Last
<1>13. PropagationTypes
  <2>1. fresh \in BOOLEAN
    BY <1>1
  <2>2. faults \in Nat /\ mixed \in BOOLEAN
    BY <1>1
  <2>3. Len(sent) = Len(lists) /\ Len(sent) > 0
    BY <1>11
  <2> QED BY <1>10, <1>11, <2>1, <2>2, <2>3 DEF PropagationTypes
<1>14. \A mode \in Modes : Tells(carrier, mode, c)
  <2>1. SUFFICES ASSUME NEW mode \in Modes PROVE Tells(carrier, mode, c)
    OBVIOUS
  <2>2. Tells(W, mode, c)
    BY <1>5
  <2>3. \A g \in DOMAIN carrier : g # h => carrier[g] = W[g]
    BY <1>8
  <2>4. CASE mode # "cloud_trace"
    <3>1. \A part \in Parts : <<mode, part>> \in DOMAIN carrier => carrier[<<mode, part>>] = W[<<mode, part>>]
      BY <1>6, <2>3, <2>4
    <3> QED BY <1>8, <2>2, <3>1, TellsKept
  <2>5. CASE mode = "cloud_trace"
    <3>1. /\ <<mode, "trace">> \notin DOMAIN carrier /\ <<mode, "span">> \notin DOMAIN carrier
          /\ <<mode, "sampled">> \notin DOMAIN carrier
      BY <1>10, <2>5 DEF WellTyped, Headers, Multi, Single
    <3>2. PICK v : v = carrier[h]
      OBVIOUS
    <3>3. TraceIn(mode, c) = c.trace
      BY <2>5 DEF TraceIn
    <3>4. h \in DOMAIN carrier =>
            \/ v = TraceParent(c)
            \/ /\ c.sampled /\ v.trace = c.trace /\ v.span \in {c.span, Missing} /\ v.sampled = Missing
      BY <1>7, <1>8, <3>2
    <3>5. TraceParent(c).trace = c.trace /\ TraceParent(c).span = c.span /\ TraceParent(c).sampled = c.sampled
      BY DEF TraceParent
    <3>6. h \in DOMAIN carrier =>
            /\ v.trace = TraceIn(mode, c) /\ v.span \in {c.span, Missing}
            /\ v.sampled = c.sampled \/ (v.sampled = Missing /\ c.sampled)
      BY <3>3, <3>4, <3>5
    <3> QED BY <1>6, <2>5, <3>1, <3>2, <3>6 DEF Tells
  <2> QED BY <2>4, <2>5
<1>15. Sources
  BY <1>11, <1>14 DEF Sources
<1>16. Undamaged
  <2>1. \A g \in DOMAIN carrier : carrier[g] # Corrupt
    BY <1>5, <1>8, MarksAssumption DEF Whole
  <2>2. \A mode \in Modes : Complete(carrier, mode) \/ Absent(carrier, mode)
    BY <1>5, <1>8 DEF Whole, Complete, Absent
  <2>3. \A mode \in ToSet(modes) : Complete(carrier, mode)
    BY <1>5, <1>8 DEF Complete
  <2> QED BY <1>1, <1>12, <2>1, <2>2, <2>3 DEF Undamaged
<1>17. Fresh
  BY <1>1, <1>12 DEF Fresh
<1>18. OneTrace
  BY <1>11 DEF OneTrace
<1> QED BY <1>13, <1>15, <1>16, <1>17, <1>18 DEF PropagationInv

-----------------------------------------------------------------------------
(* The theorems.                                                           *)

\* Each step of a request keeps the invariant: what the headers denote is of the
\* right kind, what they say of a mode comes from one span, and as long as nothing
\* goes wrong no mode's headers are there in part (propagation.cpp).
THEOREM PropagationHolds == PropagationSpec => []PropagationInv
<1>1. PropagationInit => PropagationInv
  BY RequestInit
<1>2. PropagationInv /\ [PropagationNext]_propagationVars => PropagationInv'
  <2>1. SUFFICES ASSUME PropagationInv, [PropagationNext]_propagationVars
                 PROVE  PropagationInv'
    OBVIOUS
  <2>2. ASSUME NEW modes \in ModeLists, NEW forward \in BOOLEAN, Serve(modes, forward)
        PROVE  PropagationInv'
    <3>1. PICK c, calls, made, headers : Served(modes, forward, c, calls, made, headers)
      BY <2>1, <2>2, ServeServed
    <3> QED BY <2>1, <3>1, ServeKeeps
  <2>3. ASSUME NEW h \in Headers, Lose(h) \/ Garble(h)
        PROVE  PropagationInv'
    BY <2>1, <2>3, DamageKeeps
  <2>4. CASE UNCHANGED propagationVars
    <3>1. /\ carrier' = carrier /\ sent' = sent /\ lists' = lists
          /\ faults' = faults /\ fresh' = fresh /\ mixed' = mixed
      BY <2>4 DEF propagationVars
    <3>2. WellTyped(carrier)'
      BY <2>1, <3>1 DEF PropagationInv, PropagationTypes, WellTyped, Denotations
    <3>3. PropagationTypes'
      BY <2>1, <3>1, <3>2 DEF PropagationInv, PropagationTypes
    <3>4. Sources'
      BY <2>1, <3>1 DEF PropagationInv, Sources, Tells, TraceIn, Low
    <3>5. Undamaged'
      BY <2>1, <3>1 DEF PropagationInv, Undamaged, Complete, Absent
    <3>6. Fresh'
      BY <2>1, <3>1 DEF PropagationInv, Fresh
    <3>7. OneTrace'
      BY <2>1, <3>1 DEF PropagationInv, OneTrace, Common, Low
    <3> QED BY <3>3, <3>4, <3>5, <3>6, <3>7 DEF PropagationInv
  <2>5. CASE PropagationNext
    BY <2>2, <2>3, <2>5 DEF PropagationNext
  <2> QED BY <2>1, <2>4, <2>5
<1> QED BY <1>1, <1>2, PTL DEF PropagationSpec

\* However far the request has come, whatever got lost or garbled on the way and
\* whatever is left over from earlier services: the ids that a service extracts
\* are those of one span, and a sampled span is not found unsampled, unless an
\* injection was cut short over older headers (propagation.cpp:19).
THEOREM ExtractedFromOneSpan == PropagationSpec => []FromOneSpan
<1>1. PropagationInv => FromOneSpan
  <2>1. SUFFICES ASSUME PropagationInv, ~mixed, NEW modes \in ModeLists,
                        NEW r, r = ExtractSpanContext(modes, carrier), r.kind = "context"
                 PROVE  \E i \in DOMAIN sent :
                          /\ r.out.trace \in {sent[i].trace, Low(sent[i].trace)}
                          /\ r.out.span \in {sent[i].span, NoContext.span}
                          /\ sent[i].sampled => r.out.sampled
    BY DEF FromOneSpan
  <2>2. WellTyped(carrier) /\ sent \in Seq(SpanContexts)
    BY <2>1 DEF PropagationInv, PropagationTypes
  <2>3. modes \in Seq(Modes)
    BY ModesOf
  <2>4. PICK mode \in Extracted(modes) : Answer(carrier, mode, r)
    BY <2>1, <2>2, <2>3, ServiceAnswer
  <2>5. mode \in Modes
    BY <2>3, <2>4, Extractors
  <2>6. Denoted(carrier, mode, r.out)
    BY <2>1, <2>4 DEF Answer
  <2>7. PICK i \in DOMAIN sent : Tells(carrier, mode, sent[i])
    BY <2>1, <2>5 DEF PropagationInv, Sources
  <2>8. sent[i] \in SpanContexts
    BY <2>2, LenProperties, ElementOfSeq
  <2>9. /\ r.out.trace = TraceIn(mode, sent[i]) /\ r.out.span \in {sent[i].span, 0}
        /\ sent[i].sampled => r.out.sampled
    BY <2>5, <2>6, <2>7, <2>8, Heard
  <2>10. TraceIn(mode, sent[i]) \in {sent[i].trace, Low(sent[i].trace)}
    BY <2>8, TraceInLow
  <2>11. NoContext.span = 0
    BY DEF NoContext
  <2> QED BY <2>9, <2>10, <2>11
<1> QED BY <1>1, PropagationHolds, PTL

\* Services that each understand the one before them make one trace with one
\* sampling decision, as long as nothing is damaged, and past services that only
\* forward the headers too (propagation.cpp:19, span.cpp).
THEOREM TraceStaysOne == PropagationSpec => []OneTrace
<1>1. PropagationInv => OneTrace
  BY DEF PropagationInv
<1> QED BY <1>1, PropagationHolds, PTL

\* Extraction undoes injection for every pair of configurations, of whatever
\* length and in whatever order: a service finds a context exactly if it has a
\* mode in common with the sender, and then the sender's (propagation.cpp:44).
THEOREM ExtractionUndoesInjection == PropagationSpec => []ExtractUndoesInject
<1>1. PropagationInv => ExtractUndoesInject
  <2>1. SUFFICES ASSUME PropagationInv, fresh, NEW modes \in ModeLists,
                        NEW r, r = ExtractSpanContext(modes, carrier),
                        NEW c, c = Last(sent), NEW sender, sender = Last(lists)
                 PROVE  /\ r.kind = IF Common(sender, modes) THEN "context" ELSE "none"
                        /\ r.kind = "context" =>
                             /\ r.out.trace \in {c.trace, Low(c.trace)} /\ r.out.span = c.span
                             /\ r.out.sampled = c.sampled /\ r.out.baggage = c.baggage
                             /\ r.out.state \in {<<>>, c.state}
    BY DEF ExtractUndoesInject
  <2>2. /\ sent \in Seq(SpanContexts) /\ lists \in Seq(ModeLists) /\ Len(sent) > 0 /\ Len(lists) > 0
    BY <2>1 DEF PropagationInv, PropagationTypes
  <2>3. c \in SpanContexts /\ sender \in ModeLists
    BY <2>1, <2>2, LastIn
  <2>4. modes \in Seq(Modes) /\ sender \in Seq(Modes)
    BY <2>3, ModesOf
  <2>5. PICK made : made = InjectSpanContext(sender, c)
    OBVIOUS
  <2>6. carrier = Written(Empty, InjectSpanContext(sender, c))
    BY <2>1 DEF PropagationInv, Fresh
  <2>7. /\ Wrote(carrier, Empty, made, sender, c)
        /\ DOMAIN carrier = SetBy(made)
        /\ \A h \in DOMAIN carrier : carrier[h] = Says(h, c)
        /\ WellTyped(carrier) /\ Whole(carrier)
        /\ \A mode \in ToSet(sender) : Complete(carrier, mode)
        /\ \A mode \in Modes : Tells(carrier, mode, c)
        /\ \A mode \in Modes : mode \notin ToSet(sender) => Absent(carrier, mode)
    BY <2>3, <2>4, <2>5, <2>6, NewRequest
  <2>8. CASE ~Common(sender, modes)
    <3>1. ASSUME NEW mode \in Extracted(modes)
          PROVE  Absent(carrier, mode)
      <4>1. mode \in Modes
        BY <2>4, <3>1, Extractors
      <4>2. mode \notin ToSet(sender)
        BY <2>8, <3>1, InCommon
      <4> QED BY <2>7, <4>1, <4>2
    <3>2. r.kind # "none" => \E mode \in Extracted(modes) : Answer(carrier, mode, r)
      BY <2>1, <2>4, <2>7, ServiceAnswer
    <3>3. r.kind = "none"
      BY <3>1, <3>2 DEF Answer
    <3> QED BY <2>8, <3>3
  <2>9. CASE Common(sender, modes)
    <3>1. PICK own \in Extracted(modes) : Complete(carrier, own)
      BY <2>7, <2>9, InCommon
    <3>2. /\ r.kind = "context"
          /\ \E mode \in Extracted(modes) : /\ mode \in Modes /\ ~Absent(carrier, mode)
                                            /\ Denoted(carrier, mode, r.out)
      BY <2>1, <2>4, <2>7, <3>1, Finds
    <3>3. PICK mode \in Extracted(modes) : /\ mode \in Modes /\ ~Absent(carrier, mode)
                                           /\ Denoted(carrier, mode, r.out)
      BY <3>2
    <3>4. mode \in ToSet(sender)
      BY <2>7, <3>3
    <3>5. r.out.trace \in {c.trace, Low(c.trace)} /\ r.out.sampled = c.sampled
      <4>1. Tells(carrier, mode, c)
        BY <2>7, <3>3
      <4>2. r.out.trace = TraceIn(mode, c) /\ r.out.sampled = c.sampled
        BY <2>3, <2>7, <3>3, <4>1, Heard
      <4> QED BY <2>3, <4>2, TraceInLow
    <3>6. r.out.span = c.span
      <4>1. CASE mode \in Multi
        <5>1. <<mode, "span">> \in DOMAIN carrier /\ r.out.span = carrier[<<mode, "span">>]
          BY <3>3, <4>1 DEF Denoted
        <5>2. Says(<<mode, "span">>, c) = c.span
          BY <4>1 DEF Says, Multi, StateHeader
        <5> QED BY <2>7, <5>1, <5>2
      <4>2. CASE mode \in Single
        <5>1. PICK value : value = carrier[<<mode, "context">>]
          OBVIOUS
        <5>2. <<mode, "context">> \in DOMAIN carrier
              /\ r.out.span = IF value.span = Missing THEN 0 ELSE value.span
          BY <3>3, <4>2, <5>1 DEF Denoted
        <5>3. Says(<<mode, "context">>, c).span = c.span
          BY <4>2 DEF Says, Multi, Single, StateHeader, BinaryCarrier, TraceParent
        <5>4. c.span \in Nat
          BY <2>3 DEF SpanContexts
        <5> QED BY <2>7, <5>1, <5>2, <5>3, <5>4, MarksAssumption
      <4> QED BY <3>3, <4>1, <4>2 DEF Modes
    <3>7. r.out.baggage = c.baggage
      <4>1. CASE mode = "envoy"
        <5>1. /\ <<mode, "context">> \in DOMAIN carrier
              /\ r.out.baggage = carrier[<<mode, "context">>].baggage
          BY <3>3, <4>1 DEF Denoted, Single
        <5>2. Says(<<mode, "context">>, c).baggage = c.baggage
          BY <4>1 DEF Says, Multi, StateHeader, BinaryCarrier
        <5> QED BY <2>7, <5>1, <5>2
      <4>2. CASE mode # "envoy"
        <5>1. r.out.baggage = BaggageHeaders(carrier)
          BY <3>3, <4>2 DEF Denoted, Modes
        <5>2. "baggage" \in Injected(sender)
          <6>1. sender # <<"envoy">>
            BY <3>4, <4>2 DEF ToSet
          <6> QED BY <6>1 DEF Injected
        <5>3. BaggageHeader \in DOMAIN carrier <=> BaggageKey \in DOMAIN c.baggage
          <6>1. HeadersOf("baggage", c) \subseteq SetBy(made)
            BY <2>5, <2>7, <5>2 DEF Wrote
          <6>2. HeadersOf("baggage", c) = IF BaggageKey \in DOMAIN c.baggage THEN {BaggageHeader} ELSE {}
            BY DEF HeadersOf, Multi
          <6>3. ASSUME BaggageHeader \in SetBy(made)
                PROVE  BaggageHeader \in HeadersOf("baggage", c)
            <7>1. PICK other \in Injected(sender) : BaggageHeader \in HeadersOf(other, c)
              BY <2>7, <6>3 DEF Wrote
            <7>2. BaggageHeader # StateHeader /\ BaggageHeader[1] = "baggage"
              BY DEF BaggageHeader, StateHeader
            <7>3. other = "baggage"
              BY <2>3, <2>4, <7>1, <7>2, SaysTyped
            <7> QED BY <7>1, <7>3
          <6> QED BY <2>7, <6>1, <6>2, <6>3
        <5>4. BaggageHeaders(carrier) = IF BaggageHeader \in DOMAIN carrier
                                        THEN [k \in {BaggageKey} |-> 1] ELSE Empty
          BY <2>7, BaggageShape DEF BaggageHeader
        <5>5. c.baggage = IF BaggageKey \in DOMAIN c.baggage THEN [k \in {BaggageKey} |-> 1] ELSE Empty
          BY <2>3 DEF SpanContexts, Baggages, Empty
        <5> QED BY <5>1, <5>3, <5>4, <5>5
      <4> QED BY <4>1, <4>2
    <3>8. r.out.state \in {<<>>, c.state}
      <4>1. Says(StateHeader, c) = c.state
        BY DEF Says, Multi, StateHeader
      <4> QED BY <2>7, <3>3, <4>1 DEF Denoted, StateFrom
    <3> QED BY <2>9, <3>2, <3>5, <3>6, <3>7, <3>8
  <2> QED BY <2>8, <2>9
<1> QED BY <1>1, PropagationHolds, PTL
=============================================================================
