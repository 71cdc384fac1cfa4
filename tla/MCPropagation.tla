---------------------------- MODULE MCPropagation ----------------------------
EXTENDS Propagation

\* Every mode alone, and lists whose order, repetition or fallback matters.
Lists == {<<mode>> : mode \in {"lightstep", "b3", "envoy", "trace_context", "cloud_trace"}}
           \cup {<<"envoy", "envoy">>, <<"envoy", "b3">>,
                 <<"trace_context", "b3", "trace_context">>}
=============================================================================
