--------------------------- MODULE EndpointManager ---------------------------
(***************************************************************************)
(* recorder/stream_recorder/satellite_endpoint_manager.cpp over            *)
(* satellite_dns_resolution_manager.cpp: every host is resolved for both   *)
(* address families, again and again, and connections are handed the       *)
(* addresses round robin, from the first one on.                           *)
(*                                                                         *)
(* All of it runs on the event loop.  A resolver may answer before Resolve *)
(* returns (no_dns_resolver.cpp always does), so the first address can     *)
(* come, and the connections be started, in the middle of Start's loop.    *)
(* A name is the rank StrCaseCmp gives it: equal names have one rank.      *)
(***************************************************************************)
EXTENDS Naturals, Sequences, FiniteSets

CONSTANTS
  EndpointLists,  \* the satellite_endpoints an application may configure
  Addresses,
  Answers,        \* the address lists a resolver may answer with, << >> if it fails
  Connections,    \* how many connections the streamer has
  Wrap            \* 2^32: endpoint_index_ and address_index are uint32_t

ASSUME AnswersAssumption == Answers \subseteq Seq(Addresses) /\ << >> \in Answers
ASSUME NumbersAssumption == Connections \in Nat \ {0} /\ Wrap \in Nat \ {0}
ASSUME EndpointsAssumption ==
  \A list \in EndpointLists : /\ list \in Seq([name : Nat, port : Nat])
                              /\ Len(list) \in 1..Wrap

VARIABLES
  endpoints,      \* satellite_endpoints
  started,        \* how many managers Start's loop has started
  pending,        \* pending[m]: lookups not answered, and timers armed
  addresses,      \* addresses[m]: ip_addresses_ of manager m
  numReady,       \* num_resolutions_ready_
  readyCalls,     \* history: how often on_ready_callback_ was called
  owed,           \* connections that callback has yet to start
  endpointIndex,  \* endpoint_index_
  addressIndex,   \* addressIndex[h]: address_index of host h
  last            \* history: the endpoint of the last answer, 0 before the first

readyVars == <<addresses, numReady, readyCalls, owed>>
indexVars == <<endpointIndex, addressIndex, last>>
vars == <<endpoints, started, pending, readyVars, indexVars>>

-----------------------------------------------------------------------------
(* Mutants: likely mistakes in the definitions below.                      *)

\* The sum is as wide as the counter.
LastIndexNarrow == (endpointIndex + Len(endpoints)) % Wrap

\* An empty answer is taken for a failure that somebody else retries.
ScheduleIfAny(p, answer) == IF answer = << >> THEN p ELSE [p EXCEPT !.timers = @ + 1]

\* The index is counted once per request, not once per endpoint looked at.
NextIndexByOne(skipped) == (endpointIndex + 1) % Wrap

-----------------------------------------------------------------------------
(* SeparateEndpoints: the hosts are the distinct names, sorted, and an     *)
(* endpoint's host is the first that is not less than its name.            *)

Names == {endpoints[i].name : i \in DOMAIN endpoints}
Hosts == 1..Cardinality(Names)
HostOf(e) == Cardinality({n \in Names : n < e.name}) + 1
NameOf(h) == CHOOSE n \in Names : Cardinality({p \in Names : p < n}) = h - 1

Families == {"ipv4", "ipv6"}
Managers == Hosts \X Families

\* The manager that the i-th round of Start's loop starts, from 0.
ManagerAt(i) == <<(i \div 2) + 1, IF i % 2 = 0 THEN "ipv4" ELSE "ipv6">>

\* The round that starts m.
Position(m) == 2 * (m[1] - 1) + (IF m[2] = "ipv4" THEN 0 ELSE 1)

AllStarted == started = 2 * Cardinality(Names)

\* The event loop is in no callback.
Idle == AllStarted /\ owed = 0

Init ==
  /\ endpoints \in EndpointLists
  /\ started = 0
  /\ pending = [m \in Managers |-> [answers |-> 0, timers |-> 0]]
  /\ addresses = [m \in Managers |-> << >>]
  /\ numReady = 0 /\ readyCalls = 0 /\ owed = 0
  /\ endpointIndex = 0
  /\ addressIndex = [h \in Hosts |-> 0]
  /\ last = 0

-----------------------------------------------------------------------------
(* SatelliteDnsResolutionManager                                           *)

\* ScheduleRefresh after an answer, OnFailure's retry without one.
Schedule(p, answer) == [p EXCEPT !.timers = @ + 1]

\* Mutant of the next definition: the connections wait for all managers.
AnsweredWhenAll(m, p, answer) ==
  LET first == answer # << >> /\ addresses[m] = << >>
      ready == first /\ numReady + 1 = Cardinality(Managers)
  IN  /\ pending' = [pending EXCEPT ![m] = Schedule(p, answer)]
      /\ addresses' = IF answer = << >> THEN addresses
                      ELSE [addresses EXCEPT ![m] = answer]
      /\ numReady' = IF first THEN numReady + 1 ELSE numReady
      /\ readyCalls' = IF ready THEN readyCalls + 1 ELSE readyCalls
      /\ owed' = IF ready THEN Connections ELSE owed

(***************************************************************************)
(* OnDnsResolution, with p the other work pending for m.  An answer        *)
(* without addresses leaves those of the last one.  The first addresses    *)
(* call OnResolutionReady, and the first of those calls starts the         *)
(* connections.                                                            *)
(***************************************************************************)
Answered(m, p, answer) ==
  LET first == answer # << >> /\ addresses[m] = << >>
      ready == first /\ numReady = 0
  IN  /\ pending' = [pending EXCEPT ![m] = Schedule(p, answer)]
      /\ addresses' = IF answer = << >> THEN addresses
                      ELSE [addresses EXCEPT ![m] = answer]
      /\ numReady' = IF first THEN numReady + 1 ELSE numReady
      /\ readyCalls' = IF ready THEN readyCalls + 1 ELSE readyCalls
      /\ owed' = IF ready THEN Connections ELSE owed

\* Resolve, whose answer comes later or before it returns.
Resolve(m, p) ==
  \/ /\ pending' = [pending EXCEPT ![m] = [p EXCEPT !.answers = @ + 1]]
     /\ UNCHANGED readyVars
  \/ \E answer \in Answers : Answered(m, p, answer)

\* One round of the loop of SatelliteEndpointManager::Start.
Start ==
  /\ ~AllStarted /\ owed = 0
  /\ started' = started + 1
  /\ LET m == ManagerAt(started) IN Resolve(m, pending[m])
  /\ UNCHANGED <<endpoints, indexVars>>

\* The resolver answers a lookup.
OnDnsResolution(m) ==
  /\ Idle
  /\ pending[m].answers > 0
  /\ \E answer \in Answers :
       Answered(m, [pending[m] EXCEPT !.answers = @ - 1], answer)
  /\ UNCHANGED <<endpoints, started, indexVars>>

\* A timer, of either kind, fires.
OnRefresh(m) ==
  /\ Idle
  /\ pending[m].timers > 0
  /\ Resolve(m, [pending[m] EXCEPT !.timers = @ - 1])
  /\ UNCHANGED <<endpoints, started, indexVars>>

-----------------------------------------------------------------------------
(* RequestEndpoint                                                         *)

EndpointAt(index) == (index % Len(endpoints)) + 1
Endpoint(index) == endpoints[EndpointAt(index)]

\* The addresses of a host: ipv4 if there are any.
AddressesOf(h) ==
  IF addresses[<<h, "ipv4">>] # << >> THEN addresses[<<h, "ipv4">>]
                                       ELSE addresses[<<h, "ipv6">>]

\* The index in round k of the loop, and whether the round ends it.
IndexAt(k) == (endpointIndex + k) % Wrap
HasAddress(k) == AddressesOf(HostOf(Endpoint(IndexAt(k)))) # << >>

\* What the assertion compares the index with: a size_t, which does not wrap.
LastIndex == endpointIndex + Len(endpoints)

\* The endpoints the loop passes over.  It visits all indexes, if it must.
Skipped == CHOOSE k \in 0..Wrap-1 : HasAddress(k) /\ \A j \in 0..k-1 : ~HasAddress(j)

NextIndex(skipped) == (endpointIndex + skipped + 1) % Wrap

\* The address, the port and the name for the Host header.
Answer ==
  LET e == Endpoint(IndexAt(Skipped))
      h == HostOf(e)
      list == AddressesOf(h)
  IN  [address |-> list[(addressIndex[h] % Len(list)) + 1],
       port |-> e.port,
       name |-> NameOf(h)]

(***************************************************************************)
(* A connection asks for an endpoint: each one while the ready callback    *)
(* starts it, and later whenever it connects again.                        *)
(***************************************************************************)
RequestEndpoint ==
  /\ readyCalls > 0 /\ (owed > 0 \/ Idle)
  /\ endpointIndex' = NextIndex(Skipped)
  /\ LET h == HostOf(Endpoint(IndexAt(Skipped)))
     IN  addressIndex' = [addressIndex EXCEPT ![h] = (@ + 1) % Wrap]
  /\ last' = EndpointAt(IndexAt(Skipped))
  /\ owed' = IF owed > 0 THEN owed - 1 ELSE 0
  /\ UNCHANGED <<endpoints, started, pending, addresses, numReady, readyCalls>>

Next ==
  \/ Start
  \/ \E m \in Managers : OnDnsResolution(m) \/ OnRefresh(m)
  \/ RequestEndpoint

\* A lookup that brings addresses.
Found(m) ==
  /\ OnDnsResolution(m) \/ OnRefresh(m)
  /\ addresses'[m] # << >>

(***************************************************************************)
(* The event loop finishes its callbacks, and of a host that can be        *)
(* resolved not every lookup fails: if there are lookups again and again,  *)
(* one brings addresses.                                                   *)
(***************************************************************************)
Fairness ==
  /\ WF_vars(Start)
  /\ WF_vars(owed > 0 /\ RequestEndpoint)
  /\ SF_vars(Found(<<1, "ipv4">>))

Spec == Init /\ [][Next]_vars

FairSpec == Spec /\ Fairness

-----------------------------------------------------------------------------
(* Properties                                                              *)

TypeOK ==
  /\ endpoints \in EndpointLists
  /\ started \in 0..2 * Cardinality(Names)
  /\ pending \in [Managers -> [answers : Nat, timers : Nat]]
  /\ addresses \in [Managers -> Answers]
  /\ numReady \in Nat /\ readyCalls \in Nat /\ owed \in 0..Connections
  /\ endpointIndex \in 0..Wrap-1
  /\ addressIndex \in [Hosts -> 0..Wrap-1]
  /\ last \in 0..Len(endpoints)

(***************************************************************************)
(* A manager that was started has one thing to come, a lookup's answer or  *)
(* a timer: with none its addresses would stay stale for good, with two    *)
(* the lookups would multiply.                                             *)
(***************************************************************************)
OneLookup ==
  \A m \in Managers :
    pending[m].answers + pending[m].timers = IF Position(m) < started THEN 1 ELSE 0

(***************************************************************************)
(* The connections are started once, when the first manager has addresses, *)
(* and no manager loses all its addresses again.                           *)
(***************************************************************************)
ReadyOnce ==
  /\ numReady = Cardinality({m \in Managers : addresses[m] # << >>})
  /\ readyCalls = IF numReady > 0 THEN 1 ELSE 0
  /\ owed > 0 => readyCalls = 1

\* The counter stands behind the endpoint answered last, unless it has wrapped.
LastCounted == endpointIndex > 0 => last = EndpointAt(endpointIndex - 1)

\* The inductive invariant.
IndInv == TypeOK /\ OneLookup /\ ReadyOnce /\ LastCounted

(***************************************************************************)
(* A comment of RequestEndpoint: it "shouldn't be called until at least    *)
(* one host name is resolved".  Called then it ends, its assertion that it *)
(* has not gone round all endpoints holds, also while the counter wraps,   *)
(* and what it answers belongs together: a configured port and name with   *)
(* an address of that name.                                                *)
(***************************************************************************)
RequestsAreAnswered ==
  readyCalls > 0 =>
    /\ \E k \in 0..Wrap-1 : HasAddress(k)
    /\ \A k \in 0..Skipped : IndexAt(k) # LastIndex
    /\ \E i \in DOMAIN endpoints, f \in Families :
         /\ endpoints[i].name = Answer.name /\ endpoints[i].port = Answer.port
         /\ \E j \in DOMAIN addresses[<<HostOf(endpoints[i]), f>>] :
              addresses[<<HostOf(endpoints[i]), f>>][j] = Answer.address

\* The endpoints passed over on the way round from one to the next.
Between(from, to) ==
  LET n == Len(endpoints)
      At(j) == ((from + j - 1) % n) + 1
      d == CHOOSE k \in 1..n : At(k) = to
  IN  {At(j) : j \in 1..d-1}

(***************************************************************************)
(* "Assigns satellite endpoints using round robin": on the way from one    *)
(* answer to the next only endpoints without addresses are passed over,    *)
(* however the addresses changed in between, but where the counter wraps.  *)
(***************************************************************************)
RoundRobin ==
  [][endpointIndex' > endpointIndex /\ endpointIndex > 0 =>
       \A i \in Between(last, last') : AddressesOf(HostOf(endpoints[i])) = << >>]_vars

(***************************************************************************)
(* If a host can be resolved the connections are all started in the end,   *)
(* however many lookups fail before.                                       *)
(***************************************************************************)
ConnectionsStart == <>(readyCalls = 1 /\ owed = 0)
=============================================================================
