-------------------------- MODULE MCEndpointManager --------------------------
(* EndpointManager for TLC.                                                *)
EXTENDS EndpointManager

MCAddresses == {"x", "y"}

MCAnswers == {<< >>, <<"x">>, <<"x", "y">>}

\* The counters have two bits, so that they wrap soon, and out of step with
\* three endpoints.
MCWrap == 4

At(n, p) == [name |-> n, port |-> p]

\* One host; two, in either order; a name twice, which in the code may be
\* written in two ways.
MCEndpointLists ==
  {<<At(1, 80)>>, <<At(2, 80), At(1, 81)>>, <<At(1, 80), At(2, 81), At(1, 82)>>,
   <<At(2, 80), At(2, 81), At(1, 82)>>}
=============================================================================
