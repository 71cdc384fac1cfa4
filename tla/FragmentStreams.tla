--------------------------- MODULE FragmentStreams ---------------------------
(***************************************************************************)
(* The bytes below ConnectionStreams: how a span is framed and stored in   *)
(* the blocks of a ChainedStream, how streams are chained, and how a write *)
(* that stopped anywhere moves them on (src/src/common: chained_stream,    *)
(* composable_fragment_input_stream, fragment_array_input_stream,          *)
(* fragment_input_stream and the two framings).  A request of a header and *)
(* some spans is written in as many writes as the socket makes of it, each *)
(* of any number of bytes.                                                 *)
(*                                                                         *)
(* A byte is known by its place: stream, segment, block and offset.  A     *)
(* fragment is what is left of a block.                                    *)
(***************************************************************************)
EXTENDS Naturals, Sequences, FiniteSets

CONSTANTS BlockSize,   \* ChainedStream::BlockSize
          ChunkHeader, \* ChunkedHttpMaxHeaderSize
          HeaderSizes, \* the fragments of the request's header: host and metrics
          VarintSize,  \* how many bytes protobuf encodes a length in
          MaxBody,     \* the longest span, and the longest length encoded
          MaxSpans     \* bound: the spans of a request

ASSUME SizesAssumption ==
  /\ BlockSize \in Nat /\ ChunkHeader \in Nat /\ MaxBody \in Nat /\ MaxSpans \in Nat
  /\ HeaderSizes \in Seq(Nat \ {0}) /\ HeaderSizes # <<>>

\* A greater length takes no fewer bytes.
ASSUME VarintAssumption ==
  \A n \in 0 .. MaxBody : /\ VarintSize[n] \in Nat \ {0}
                          /\ \A m \in 0 .. n : VarintSize[m] <= VarintSize[n]

\* A span of StreamRecorder is a chunk of its own with header and footer; one of
\* ManualRecorder is a field of the report only.
ChunkFraming == [header |-> ChunkHeader, footer |-> 2]
ReportFraming == [header |-> 0, footer |-> 0]

\* The size of the key of a span's field.
Key == 1

ReportRequestSpansMaxHeaderSize == Key + VarintSize[MaxBody]
Reserved(framing) == ReportRequestSpansMaxHeaderSize + framing.header

\* ReserveHeaderSpace asserts that a block can hold the headers.
ASSUME BlockAssumption == Reserved(ChunkFraming) <= BlockSize

VARIABLES
  streams,   \* what is handed to Write: each stream a list of segments
  contents,  \* history: the bytes of the request, each with its number
  announced, \* history: how many that is by the sizes in its headers
  written    \* history: how many have been written so far

fragmentVars == <<streams, contents, announced, written>>

\* The running totals of a list of numbers.
Sums(s) == LET sum[i \in 0 .. Len(s)] == IF i = 0 THEN 0 ELSE sum[i - 1] + s[i] IN sum
Sum(s) == Sums(s)[Len(s)]

-----------------------------------------------------------------------------
(* ChainedStream: the blocks' sizes, num_bytes_written_, fragment_index_   *)
(* and fragment_position_.  A FragmentArrayInputStream has the same fields *)
(* and does the same with them.                                            *)

NewStream == [sizes |-> <<0>>, written |-> 0, index |-> 0, position |-> 0]

\* ChainedStream::Next: the rest of the current block, or a new block.
NextBlock(s) ==
  LET n == Len(s.sizes)
  IN IF s.sizes[n] < BlockSize
     THEN [s EXCEPT !.sizes[n] = BlockSize, !.written = @ + BlockSize - s.sizes[n]]
     ELSE [s EXCEPT !.sizes = Append(@, BlockSize), !.written = @ + BlockSize]

BackUp(s, count) ==
  [s EXCEPT !.sizes[Len(s.sizes)] = @ - count, !.written = @ - count]

\* The stream after up to n + 1 calls of Next.
Asked(s, n) == LET asked[k \in 0 .. n + 1] == IF k = 0 THEN s ELSE NextBlock(asked[k - 1]) IN asked

\* A CodedOutputStream that writes n bytes and is trimmed: it asks until it has
\* room for them, and gives back the rest.  It may ask for a block before it has
\* a byte to put there, and then give all of it back.
Output(s, n, eager) ==
  LET room(k) == Asked(s, n)[k].written - s.written
      enough == {k \in 1 .. n + 1 : room(k) > n \/ (room(k) = n /\ ~eager)}
      first == CHOOSE k \in enough : \A j \in enough : k <= j
  IN BackUp(Asked(s, n)[first], room(first) - n)

Array(sizes) == [NewStream EXCEPT !.sizes = sizes, !.written = Sum(sizes)]

\* Mutant: the fragments written already are counted too.
SegmentNumFragmentsOfAll(s) == IF s.written = 0 THEN 0 ELSE Len(s.sizes)

SegmentNumFragments(s) == IF s.written = 0 THEN 0 ELSE Len(s.sizes) - s.index

\* The first block from the position on, the others whole.
SegmentFragments(s) ==
  [i \in 1 .. Len(s.sizes) - s.index |->
     LET skipped == IF i = 1 THEN s.position ELSE 0
     IN [block |-> s.index + i, skipped |-> skipped, size |-> s.sizes[s.index + i] - skipped]]

SegmentClear(s) == [sizes |-> <<>>, written |-> 0, index |-> 0, position |-> 0]

\* Mutant: the position within a fragment starts from zero every time.
SegmentSeekAbsolute(s, fragment, position) ==
  [s EXCEPT !.index = @ + fragment, !.position = position]

\* Within the current fragment the position is relative to the last one.
SegmentSeek(s, fragment, position) ==
  [s EXCEPT !.index = @ + fragment,
            !.position = IF fragment = 0 THEN @ + position ELSE position]

-----------------------------------------------------------------------------
(* A span on its way to the recorder.                                      *)

\* The size the chunk's header announces.
ChunkSize(body) == Key + VarintSize[body] + body

\* Span, ReserveHeaderSpace and RecordSpan: the headers' space, the body and the
\* footer are written; the headers, written at the end of their space, leave a
\* part of it unused, which is skipped.
Span(framing, body, eager) ==
  LET reserved == BackUp(NextBlock(NewStream), BlockSize - Reserved(framing))
      closed == Output(reserved, body + framing.footer, eager)
  IN SegmentSeek(closed, 0, Reserved(framing) - (Key + VarintSize[body]) - framing.header)

-----------------------------------------------------------------------------
(* ComposableFragmentInputStream: streams in a list.  next and last map    *)
(* streams to streams, 0 standing for a nullptr.                           *)

\* The streams that Append comes by, from the front: as long as a stream has a
\* successor it goes on to the one that was its last.
Passed(list, front) ==
  LET at[k \in 0 .. Len(list.next)] ==
        IF k = 0 THEN front
        ELSE IF list.next[at[k - 1]] = 0 THEN at[k - 1] ELSE list.last[at[k - 1]]
  IN at

\* The last_ of each of them moves on, and the one without successor gets one.
AppendTo(list, front, s) ==
  LET at == Passed(list, front)
  IN [next |-> [list.next EXCEPT ![at[Len(list.next)]] = s],
      last |-> [f \in DOMAIN list.last |->
                  IF \E k \in DOMAIN at : at[k] = f THEN s ELSE list.last[f]]]

\* The list after each Append.
Appended(n) ==
  LET none == [s \in 1 .. n |-> 0]
      list[k \in 0 .. n - 1] == IF k = 0 THEN [next |-> none, last |-> none]
                                ELSE AppendTo(list[k - 1], 1, k + 1)
  IN list

\* The streams one comes by along next_.
Along(list) ==
  LET at[k \in 0 .. Len(list.next)] ==
        IF k = 0 THEN 1 ELSE IF at[k - 1] = 0 THEN 0 ELSE list.next[at[k - 1]]
  IN at

\* The segments in the order of the list that Append makes of them.
Chain(segments) ==
  LET n == Len(segments)
      at == Along(Appended(n)[n - 1])
  IN [k \in {j \in 1 .. n : at[j - 1] # 0} |-> segments[at[k - 1]]]

FragmentsBefore(chain) == Sums([i \in DOMAIN chain |-> SegmentNumFragments(chain[i])])
NumFragments(chain) == FragmentsBefore(chain)[Len(chain)]

\* Segments before the one that holds the fragment are cleared.
Seek(chain, fragment, position) ==
  LET before == FragmentsBefore(chain)
  IN [i \in DOMAIN chain |->
        IF fragment < before[i - 1] THEN chain[i]
        ELSE IF fragment >= before[i] THEN SegmentClear(chain[i])
        ELSE SegmentSeek(chain[i], fragment - before[i - 1], position)]

-----------------------------------------------------------------------------
(* ForEachFragment visits the fragments of one segment after the other:    *)
(* so many of them, and so many bytes, up to each.                         *)

Visited(chain) == Sums([i \in DOMAIN chain |-> Len(SegmentFragments(chain[i]))])

SegmentBytes(s) == Sums([k \in DOMAIN SegmentFragments(s) |-> SegmentFragments(s)[k].size])
SegmentSize(s) == SegmentBytes(s)[Len(SegmentFragments(s))]

ChainBytes(chain) == Sums([i \in DOMAIN chain |-> SegmentSize(chain[i])])
ChainSize(chain) == ChainBytes(chain)[Len(chain)]

Bytes(list) == Sums([i \in DOMAIN list |-> ChainSize(list[i])])

\* The bytes themselves, each with its number.
SegmentContents(s) ==
  LET fragments == SegmentFragments(s)
      bytes == SegmentBytes(s)
      places(f) == {<<f.block, f.skipped + b>> : b \in 1 .. f.size}
  IN [x \in UNION {places(fragments[k]) : k \in DOMAIN fragments} |->
        bytes[x[1] - s.index - 1] + x[2] - fragments[x[1] - s.index].skipped]

\* The contents of parts that are visited one after the other.
Joined(parts, bytes) ==
  [x \in UNION {{<<i, y>> : y \in DOMAIN parts[i]} : i \in DOMAIN parts} |->
     bytes[x[1] - 1] + parts[x[1]][x[2]]]

ChainContents(chain) == Joined([i \in DOMAIN chain |-> SegmentContents(chain[i])], ChainBytes(chain))
Contents(list) == Joined([i \in DOMAIN list |-> ChainContents(list[i])], Bytes(list))

-----------------------------------------------------------------------------
(* Consume: n bytes of a list of streams have been written.                *)

\* The fragments that n bytes do not hold all of, and those that follow.
Short(chain, n) ==
  LET bytes == ChainBytes(chain)
  IN {x \in UNION {{<<i, k>> : k \in DOMAIN SegmentFragments(chain[i])} : i \in DOMAIN chain} :
        n < bytes[x[1] - 1] + SegmentBytes(chain[x[1]])[x[2]]}

\* Fragments are counted as long as n holds all of their bytes.
ConsumeChain(chain, n) ==
  LET short == Short(chain, n)
      first == CHOOSE x \in short : \A y \in short : x[1] < y[1] \/ (x[1] = y[1] /\ x[2] <= y[2])
      fragment == Visited(chain)[first[1] - 1] + first[2] - 1
      position == n - (ChainBytes(chain)[first[1] - 1] + SegmentBytes(chain[first[1]])[first[2] - 1])
  IN IF short = {} THEN [i \in DOMAIN chain |-> SegmentClear(chain[i])]
     ELSE Seek(chain, fragment, position)

\* A stream that is not used up is the last one that Consume looks at.
Consume(list, n) ==
  LET bytes == Bytes(list)
  IN [i \in DOMAIN list |->
        IF bytes[i - 1] > n THEN list[i] ELSE ConsumeChain(list[i], n - bytes[i - 1])]

-----------------------------------------------------------------------------
\* StreamRecorder writes the spans one behind the other, ManualRecorder's report
\* is a chain of them.
FragmentsInit ==
  \E n \in 1 .. MaxSpans : \E bodies \in [1 .. n -> 1 .. MaxBody],
                              framing \in {ChunkFraming, ReportFraming}, eager \in BOOLEAN :
    LET spans == [i \in 1 .. n |-> Span(framing, bodies[i], eager)]
    IN /\ streams = << <<Array(HeaderSizes)>> >> \o
            (IF framing = ChunkFraming THEN [i \in 1 .. n |-> <<spans[i]>>]
                                       ELSE << Chain(spans) >>)
       /\ contents = Contents(streams)
       /\ announced = Sum(HeaderSizes) +
            Sum([i \in 1 .. n |-> framing.header + ChunkSize(bodies[i]) + framing.footer])
       /\ written = 0

\* Write stops after n bytes.  Streams without fragments are not written.
Write(n) ==
  /\ \E i \in DOMAIN streams : NumFragments(streams[i]) > 0
  /\ streams' = Consume(streams, n)
  /\ written' = written + n
  /\ UNCHANGED <<contents, announced>>

\* It writes no more than there is.
FragmentsNext == \E n \in 0 .. Bytes(streams)[Len(streams)] : Write(n)

FragmentsSpec == FragmentsInit /\ [][FragmentsNext]_fragmentVars

-----------------------------------------------------------------------------
(* Properties                                                              *)

\* The bytes after the first n, numbered from one again.
After(n, bytes) == [x \in {y \in DOMAIN bytes : bytes[y] > n} |-> bytes[x] - n]

(***************************************************************************)
(* However often a write stops, and wherever, what is left is what was not *)
(* written, byte for byte and in order; and a request has as many bytes as *)
(* the sizes in its chunks' headers say, none of the space reserved for    *)
(* the headers among them.                                                 *)
(***************************************************************************)
UnwrittenIsLeft ==
  /\ Cardinality(DOMAIN contents) = announced
  /\ {contents[x] : x \in DOMAIN contents} = 1 .. announced
  /\ Contents(streams) = After(written, contents)

(***************************************************************************)
(* num_fragments, by which Write sizes its array and Seek finds its        *)
(* segment, is the number of fragments ForEachFragment visits, and 0 once  *)
(* no byte is left: a completed stream is not written again                *)
(* (ConnectionStream::completed).  Positions stay inside their blocks, as  *)
(* SegmentSeek asserts.                                                    *)
(***************************************************************************)
FragmentsCounted ==
  \A i \in DOMAIN streams :
    LET chain == streams[i]
    IN /\ NumFragments(chain) = Visited(chain)[Len(chain)]
       /\ ChainSize(chain) = 0 => NumFragments(chain) = 0
       /\ \A j \in DOMAIN chain :
            chain[j].written > 0 => /\ chain[j].index < Len(chain[j].sizes)
                                    /\ chain[j].position <= chain[j].sizes[chain[j].index + 1]
=============================================================================
