-------------------------- MODULE MCFragmentStreams --------------------------
EXTENDS FragmentStreams

\* With varints of base two short spans have headers of several sizes.
RECURSIVE Digits(_)
Digits(n) == IF n < 2 THEN 1 ELSE 1 + Digits(n \div 2)
Digit == [n \in 0 .. MaxBody |-> Digits(n)]

\* The host's header and the metrics.
HostAndMetrics == <<1, 2>>
=============================================================================
