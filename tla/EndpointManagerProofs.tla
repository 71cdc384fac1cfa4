------------------------ MODULE EndpointManagerProofs ------------------------
(***************************************************************************)
(* Proofs about EndpointManager, for any endpoints, addresses and answers, *)
(* any number of connections and any width of the counters.                *)
(***************************************************************************)
EXTENDS EndpointManager, FunctionTheorems, FiniteSetTheorems,
        SequenceTheorems, TLAPS

-----------------------------------------------------------------------------
(* Arithmetic.                                                             *)

LEMMA ModRange ==
  ASSUME NEW n \in Nat \ {0}, NEW a \in Nat
  PROVE  /\ a % n \in 0..n-1 /\ a \div n \in Nat
         /\ a = n * (a \div n) + (a % n)
OBVIOUS

LEMMA ModUnique ==
  ASSUME NEW n \in Nat \ {0}, NEW q \in Nat, NEW r \in 0..n-1
  PROVE  (n * q + r) % n = r
OBVIOUS

\* Within n steps every remainder comes, and only once.
LEMMA ModHits ==
  ASSUME NEW n \in Nat \ {0}, NEW a \in Nat, NEW r \in 0..n-1
  PROVE  \E k \in 0..n-1 : (a + k) % n = r
<1> DEFINE q == a \div n
           s == a % n
<1>1. s \in 0..n-1 /\ q \in Nat /\ a = n * q + s
  BY ModRange
<1> HIDE DEF q, s
<1>2. CASE s <= r
  <2>1. r - s \in 0..n-1 /\ a + (r - s) = n * q + r
    BY <1>1, <1>2
  <2> QED BY <1>1, <2>1, ModUnique
<1>3. CASE r < s
  <2>1. n - s + r \in 0..n-1 /\ q + 1 \in Nat
    BY <1>1, <1>3
  <2>2. a + (n - s + r) = n * (q + 1) + r
    BY <1>1
  <2> QED BY <2>1, <2>2, ModUnique
<1> QED BY <1>1, <1>2, <1>3

LEMMA ModOnce ==
  ASSUME NEW n \in Nat \ {0}, NEW a \in Nat, NEW j \in 0..n-1, NEW k \in 0..n-1,
         (a + j) % n = (a + k) % n
  PROVE  j = k
<1> DEFINE p == (a + j) \div n
           q == (a + k) \div n
           r == (a + j) % n
<1>1. p \in Nat /\ q \in Nat /\ r \in Nat /\ a + j = n * p + r /\ a + k = n * q + r
  <2>1. a + j \in Nat /\ a + k \in Nat
    OBVIOUS
  <2>2. r \in 0..n-1 /\ p \in Nat /\ a + j = n * p + r
    BY <2>1, ModRange
  <2>3. q \in Nat /\ a + k = n * q + r
    BY <2>1, ModRange
  <2> HIDE DEF p, q, r
  <2> QED BY <2>2, <2>3
<1> HIDE DEF p, q, r
<1>2. j - k = n * (p - q)
  BY <1>1
<1>3. p - q < 1 /\ p - q > -1
  <2>1. p - q >= 1 => n * (p - q) >= n
    BY <1>1
  <2>2. p - q <= -1 => n * (p - q) <= -n
    BY <1>1
  <2> QED BY <1>1, <1>2, <2>1, <2>2
<1>4. p = q
  BY <1>1, <1>3
<1> QED BY <1>1, <1>4

\* Counting may start from a remainder.
LEMMA ModShift ==
  ASSUME NEW n \in Nat \ {0}, NEW a \in Nat, NEW j \in Nat
  PROVE  ((a % n) + j) % n = (a + j) % n
<1> DEFINE q == a \div n
           s == a % n
           p == (s + j) \div n
           r == (s + j) % n
<1>1. s \in 0..n-1 /\ q \in Nat /\ a = n * q + s
  BY ModRange
<1>2. r \in 0..n-1 /\ p \in Nat /\ s + j = n * p + r
  <2>1. s + j \in Nat
    BY <1>1
  <2> QED BY <2>1, ModRange
<1> HIDE DEF q, p, s, r
<1>3. a + j = n * (q + p) + r /\ q + p \in Nat
  BY <1>1, <1>2
<1>4. (a + j) % n = r
  BY <1>2, <1>3, ModUnique
<1> QED BY <1>4 DEF s, r

\* A counter that is not past its width, and one that has wrapped once.
LEMMA ModSmall ==
  ASSUME NEW n \in Nat \ {0}, NEW a \in 0..2*n-1
  PROVE  /\ a < n => a % n = a
         /\ a >= n => a % n = a - n
<1>1. ASSUME a < n
      PROVE  a % n = a
  <2>1. a = n * 0 + a /\ a \in 0..n-1
    BY <1>1
  <2> QED BY <2>1, ModUnique
<1>2. ASSUME a >= n
      PROVE  a % n = a - n
  <2>1. a = n * 1 + (a - n) /\ a - n \in 0..n-1
    BY <1>2
  <2> QED BY <2>1, ModUnique
<1> QED BY <1>1, <1>2

-----------------------------------------------------------------------------
(* Ranks.  The rank of an element counts the smaller ones.                 *)

Below(S, n) == {p \in S : p < n}

\* The ranks of a finite set of numbers are the numbers below its size, each
\* the rank of one element.
LEMMA Ranks ==
  ASSUME NEW S \in SUBSET Nat, IsFiniteSet(S)
  PROVE  /\ Cardinality(S) \in Nat
         /\ \A n \in S : Cardinality(Below(S, n)) + 1 \in 1..Cardinality(S)
         /\ \A m, n \in S : Cardinality(Below(S, m)) = Cardinality(Below(S, n)) => m = n
         /\ \A r \in 1..Cardinality(S) : \E n \in S : Cardinality(Below(S, n)) + 1 = r
<1>1. Cardinality(S) \in Nat
  BY FS_CardinalityType
<1>2. ASSUME NEW n \in S
      PROVE  /\ IsFiniteSet(Below(S, n)) /\ Cardinality(Below(S, n)) \in Nat
             /\ Cardinality(Below(S, n)) < Cardinality(S)
  <2>1. Below(S, n) \in SUBSET S /\ n \notin Below(S, n)
    BY DEF Below
  <2>2. /\ IsFiniteSet(Below(S, n)) /\ Cardinality(Below(S, n)) <= Cardinality(S)
        /\ Cardinality(S) = Cardinality(Below(S, n)) => S = Below(S, n)
    BY <2>1, FS_Subset
  <2>3. Cardinality(Below(S, n)) \in Nat
    BY <2>2, FS_CardinalityType
  <2> QED BY <1>1, <2>1, <2>2, <2>3
<1>3. ASSUME NEW m \in S, NEW n \in S, m < n
      PROVE  Cardinality(Below(S, m)) < Cardinality(Below(S, n))
  <2>1. Below(S, m) \in SUBSET Below(S, n) /\ m \in Below(S, n) /\ m \notin Below(S, m)
    <3>1. ASSUME NEW p \in S, p < m
          PROVE  p < n
      <4>1. p \in Nat /\ m \in Nat /\ n \in Nat
        OBVIOUS
      <4> QED BY <1>3, <3>1, <4>1
    <3>2. ~(m < m)
      OBVIOUS
    <3> QED BY <1>3, <3>1, <3>2 DEF Below
  <2>2. /\ Cardinality(Below(S, m)) <= Cardinality(Below(S, n))
        /\ Cardinality(Below(S, n)) = Cardinality(Below(S, m)) => Below(S, n) = Below(S, m)
    BY <1>2, <2>1, FS_Subset
  <2> QED BY <1>2, <2>1, <2>2
<1>4. \A m, n \in S : Cardinality(Below(S, m)) = Cardinality(Below(S, n)) => m = n
  <2> SUFFICES ASSUME NEW m \in S, NEW n \in S, m # n
               PROVE  Cardinality(Below(S, m)) # Cardinality(Below(S, n))
    OBVIOUS
  <2>1. CASE m < n
    BY <1>2, <1>3, <2>1
  <2>2. CASE n < m
    BY <1>2, <1>3, <2>2
  <2> QED BY <2>1, <2>2
<1> DEFINE f == [n \in S |-> Cardinality(Below(S, n)) + 1]
           T == 1..Cardinality(S)
<1>5. f \in [S -> T]
  BY <1>1, <1>2
<1>6. f \in Injection(S, T)
  <2>1. \A m, n \in S : f[m] = f[n] => m = n
    BY <1>2, <1>4
  <2> HIDE DEF f, T
  <2> QED BY <1>5, <2>1, Fun_IsInj
<1>7. IsFiniteSet(T) /\ Cardinality(T) = Cardinality(S)
  BY <1>1, FS_Interval
<1>8. f \in Surjection(S, T)
  BY <1>6, <1>7, FS_Injection
<1>9. \A r \in T : \E n \in S : f[n] = r
  BY <1>8 DEF Surjection
<1> QED BY <1>1, <1>2, <1>4, <1>9

\* So a set of numbers has a smallest one.
LEMMA Smallest ==
  ASSUME NEW S \in SUBSET Nat, IsFiniteSet(S), S # {}
  PROVE  \E k \in S : \A j \in S : ~(j < k)
<1>1. Cardinality(S) \in Nat /\ Cardinality(S) # 0
  BY FS_CardinalityType, FS_EmptySet
<1>2. PICK k \in S : Cardinality(Below(S, k)) + 1 = 1
  BY <1>1, Ranks
<1>3. Below(S, k) \in SUBSET S
  BY DEF Below
<1>4. IsFiniteSet(Below(S, k)) /\ Cardinality(Below(S, k)) \in Nat
  BY <1>3, FS_Subset, FS_CardinalityType
<1>5. Below(S, k) = {}
  BY <1>2, <1>4, FS_EmptySet
<1> QED BY <1>5 DEF Below

-----------------------------------------------------------------------------
(* Endpoints, hosts and managers.                                          *)

LEMMA EndpointTypes ==
  ASSUME endpoints \in EndpointLists
  PROVE  /\ Len(endpoints) \in 1..Wrap /\ Wrap \in Nat \ {0}
         /\ Len(endpoints) \in Nat \ {0}
         /\ DOMAIN endpoints = 1..Len(endpoints)
         /\ \A i \in DOMAIN endpoints : /\ endpoints[i].name \in Names
                                        /\ endpoints[i].name \in Nat
<1>1. endpoints \in Seq([name : Nat, port : Nat]) /\ Len(endpoints) \in 1..Wrap
  BY EndpointsAssumption
<1>2. DOMAIN endpoints = 1..Len(endpoints)
  BY <1>1
<1>3. \A i \in DOMAIN endpoints : endpoints[i] \in [name : Nat, port : Nat]
  BY <1>1, <1>2, ElementOfSeq
<1> QED BY <1>1, <1>2, <1>3, NumbersAssumption DEF Names

LEMMA NamesFinite ==
  ASSUME endpoints \in EndpointLists
  PROVE  Names \in SUBSET Nat /\ IsFiniteSet(Names) /\ Cardinality(Names) \in Nat
<1> DEFINE D == 1..Len(endpoints)
           f == [i \in D |-> endpoints[i].name]
<1>1. DOMAIN endpoints = D /\ Len(endpoints) \in Nat
  BY EndpointTypes
<1>2. f \in [D -> Names] /\ \A n \in Names : \E i \in D : f[i] = n
  BY <1>1 DEF Names
<1>3. IsFiniteSet(D)
  BY <1>1, FS_Interval
<1> HIDE DEF f, D
<1>4. f \in Surjection(D, Names)
  BY <1>2, Fun_IsSurj
<1>5. IsFiniteSet(Names)
  BY <1>3, <1>4, FS_Surjection
<1> QED BY <1>5, EndpointTypes, FS_CardinalityType DEF Names

\* Every endpoint has its host, and every host an endpoint.
LEMMA Hosting ==
  ASSUME endpoints \in EndpointLists
  PROVE  /\ \A i \in DOMAIN endpoints :
              /\ HostOf(endpoints[i]) \in Hosts
              /\ NameOf(HostOf(endpoints[i])) = endpoints[i].name
         /\ \A h \in Hosts : \E i \in DOMAIN endpoints : HostOf(endpoints[i]) = h
<1>1. /\ Names \in SUBSET Nat /\ IsFiniteSet(Names) /\ Cardinality(Names) \in Nat
      /\ \A n \in Names : Cardinality(Below(Names, n)) + 1 \in Hosts
      /\ \A m, n \in Names :
           Cardinality(Below(Names, m)) = Cardinality(Below(Names, n)) => m = n
      /\ \A r \in Hosts : \E n \in Names : Cardinality(Below(Names, n)) + 1 = r
  BY NamesFinite, Ranks DEF Hosts
<1>2. \A e : HostOf(e) = Cardinality(Below(Names, e.name)) + 1
  BY DEF HostOf, Below
<1>3. \A i \in DOMAIN endpoints : endpoints[i].name \in Names
  BY EndpointTypes
<1>4. ASSUME NEW i \in DOMAIN endpoints
      PROVE  NameOf(HostOf(endpoints[i])) = endpoints[i].name
  <2> DEFINE n == endpoints[i].name
             h == HostOf(endpoints[i])
  <2>1. n \in Names /\ h = Cardinality(Below(Names, n)) + 1 /\ h \in Hosts
    BY <1>1, <1>2, <1>3
  <2> HIDE DEF n, h
  <2>2. Cardinality(Below(Names, n)) = h - 1
    <3>1. IsFiniteSet(Below(Names, n))
      <4>1. Below(Names, n) \in SUBSET Names
        BY DEF Below
      <4> QED BY <1>1, <4>1, FS_Subset
    <3>2. Cardinality(Below(Names, n)) \in Nat
      BY <3>1, FS_CardinalityType
    <3> QED BY <2>1, <3>2
  <2>3. \A x \in Names : Cardinality(Below(Names, x)) = h - 1 => x = n
    BY <1>1, <2>1, <2>2
  <2>4. NameOf(h) = CHOOSE x \in Names : Cardinality(Below(Names, x)) = h - 1
    BY DEF NameOf, Below
  <2>5. NameOf(h) = n
    BY <2>1, <2>2, <2>3, <2>4
  <2> QED BY <2>5 DEF n, h
<1>5. ASSUME NEW h \in Hosts
      PROVE  \E i \in DOMAIN endpoints : HostOf(endpoints[i]) = h
  <2>1. PICK n \in Names : Cardinality(Below(Names, n)) + 1 = h
    BY <1>1
  <2>2. PICK i \in DOMAIN endpoints : endpoints[i].name = n
    BY DEF Names
  <2> QED BY <1>2, <2>1, <2>2
<1> QED BY <1>1, <1>2, <1>3, <1>4, <1>5

\* Start's loop starts every manager once.
LEMMA Managing ==
  ASSUME endpoints \in EndpointLists
  PROVE  /\ IsFiniteSet(Managers)
         /\ \A i \in 0..2 * Cardinality(Names) - 1 :
              ManagerAt(i) \in Managers /\ Position(ManagerAt(i)) = i
         /\ \A m, k \in Managers : Position(m) = Position(k) => m = k
         /\ \A m \in Managers : Position(m) \in Nat
<1> DEFINE N == Cardinality(Names)
<1>1. N \in Nat /\ Hosts = 1..N
  BY NamesFinite DEF Hosts
<1> HIDE DEF N
<1>2. IsFiniteSet(Managers)
  <2>1. IsFiniteSet(Hosts) /\ IsFiniteSet(Families)
    <3>1. IsFiniteSet({"ipv4"})
      BY FS_Singleton
    <3>2. IsFiniteSet({"ipv4"} \cup {"ipv6"})
      BY <3>1, FS_AddElement
    <3>3. Families = {"ipv4"} \cup {"ipv6"}
      BY DEF Families
    <3> QED BY <1>1, <3>2, <3>3, FS_Interval
  <2> QED BY <2>1, FS_Product DEF Managers
<1>3. ASSUME NEW i \in 0..2 * N - 1
      PROVE  ManagerAt(i) \in Managers /\ Position(ManagerAt(i)) = i
  <2> DEFINE q == i \div 2
             r == i % 2
  <2>1. r \in 0..1 /\ q \in Nat /\ i = 2 * q + r
    BY <1>1, ModRange
  <2>2. ManagerAt(i) = <<q + 1, IF r = 0 THEN "ipv4" ELSE "ipv6">>
    BY DEF ManagerAt
  <2> HIDE DEF q, r
  <2>3. q + 1 \in Hosts
    BY <1>1, <2>1
  <2> QED BY <2>1, <2>2, <2>3 DEF Managers, Families, Position
<1>4. ASSUME NEW m \in Managers, NEW k \in Managers, Position(m) = Position(k)
      PROVE  m = k
  <2>1. /\ m = <<m[1], m[2]>> /\ k = <<k[1], k[2]>>
        /\ m[1] \in Nat /\ k[1] \in Nat /\ m[2] \in Families /\ k[2] \in Families
    BY <1>1 DEF Managers
  <2>2. m[1] = k[1] /\ (m[2] = "ipv4" <=> k[2] = "ipv4")
    BY <1>4, <2>1 DEF Position
  <2> QED BY <2>1, <2>2 DEF Families
<1>5. ASSUME NEW m \in Managers
      PROVE  Position(m) \in Nat
  BY <1>1 DEF Managers, Position
<1> QED BY <1>2, <1>3, <1>4, <1>5 DEF N

-----------------------------------------------------------------------------
(* The steps of the managers.                                              *)

Work == [answers : Nat, timers : Nat]

\* Whatever the resolver answers, m goes on with one timer more.
LEMMA AnsweredKeeps ==
  ASSUME TypeOK, ReadyOnce, NEW m \in Managers, NEW p \in Work, NEW answer \in Answers,
         Answered(m, p, answer), endpoints' = endpoints
  PROVE  /\ \E q \in Work : /\ q.answers + q.timers = p.answers + p.timers + 1
                            /\ pending' = [pending EXCEPT ![m] = q]
         /\ addresses' \in [Managers -> Answers]
         /\ numReady' \in Nat /\ readyCalls' \in Nat /\ owed' \in 0..Connections
         /\ ReadyOnce'
<1> DEFINE first == answer # << >> /\ addresses[m] = << >>
           ready == first /\ numReady = 0
           q == [p EXCEPT !.timers = @ + 1]
           R == {k \in Managers : addresses[k] # << >>}
<1>1. /\ pending' = [pending EXCEPT ![m] = q]
      /\ addresses' = IF answer = << >> THEN addresses
                      ELSE [addresses EXCEPT ![m] = answer]
      /\ numReady' = IF first THEN numReady + 1 ELSE numReady
      /\ readyCalls' = IF ready THEN readyCalls + 1 ELSE readyCalls
      /\ owed' = IF ready THEN Connections ELSE owed
  BY DEF Answered, Schedule
<1>2. q \in Work /\ q.answers + q.timers = p.answers + p.timers + 1
  BY DEF Work
<1>3. /\ addresses \in [Managers -> Answers] /\ numReady \in Nat /\ readyCalls \in Nat
      /\ owed \in 0..Connections /\ Connections \in Nat
  BY NumbersAssumption DEF TypeOK
<1>4. addresses' \in [Managers -> Answers]
  BY <1>1, <1>3
<1>5. Managers' = Managers
  BY DEF Managers, Hosts, Names
<1>6. numReady = Cardinality(R) /\ readyCalls = (IF numReady > 0 THEN 1 ELSE 0)
      /\ (owed > 0 => readyCalls = 1)
  BY DEF ReadyOnce
<1>7. IsFiniteSet(R)
  <2>1. R \in SUBSET Managers
    OBVIOUS
  <2> QED BY <2>1, Managing, FS_Subset DEF TypeOK
<1>8. numReady' = Cardinality({k \in Managers : addresses'[k] # << >>})
  <2>1. CASE first
    <3>1. {k \in Managers : addresses'[k] # << >>} = R \cup {m} /\ m \notin R
      BY <1>1, <1>3, <2>1
    <3>2. Cardinality(R \cup {m}) = Cardinality(R) + 1
      BY <1>7, <3>1, FS_AddElement
    <3> QED BY <1>1, <1>6, <2>1, <3>1, <3>2
  <2>2. CASE ~first
    <3>1. {k \in Managers : addresses'[k] # << >>} = R
      BY <1>1, <1>3, <2>2
    <3> QED BY <1>1, <1>6, <2>2, <3>1
  <2> QED BY <2>1, <2>2
<1> HIDE DEF R, q
<1>9. ReadyOnce'
  <2>1. /\ readyCalls' = (IF numReady' > 0 THEN 1 ELSE 0)
        /\ owed' > 0 => readyCalls' = 1
    BY <1>1, <1>3, <1>6
  <2> QED BY <1>5, <1>8, <2>1 DEF ReadyOnce
<1>10. /\ numReady' \in Nat /\ readyCalls' \in Nat /\ owed' \in 0..Connections
  BY <1>1, <1>3
<1> QED BY <1>1, <1>2, <1>4, <1>9, <1>10

LEMMA ResolveKeeps ==
  ASSUME TypeOK, ReadyOnce, NEW m \in Managers, NEW p \in Work,
         Resolve(m, p), endpoints' = endpoints
  PROVE  /\ \E q \in Work : /\ q.answers + q.timers = p.answers + p.timers + 1
                            /\ pending' = [pending EXCEPT ![m] = q]
         /\ addresses' \in [Managers -> Answers]
         /\ numReady' \in Nat /\ readyCalls' \in Nat /\ owed' \in 0..Connections
         /\ ReadyOnce'
<1>1. CASE /\ pending' = [pending EXCEPT ![m] = [p EXCEPT !.answers = @ + 1]]
           /\ UNCHANGED readyVars
  <2> DEFINE q == [p EXCEPT !.answers = @ + 1]
  <2>1. q \in Work /\ q.answers + q.timers = p.answers + p.timers + 1
    BY DEF Work
  <2>2. pending' = [pending EXCEPT ![m] = q]
    BY <1>1
  <2>3. Managers' = Managers
    BY DEF Managers, Hosts, Names
  <2> HIDE DEF q
  <2> QED BY <1>1, <2>1, <2>2, <2>3 DEF readyVars, ReadyOnce, TypeOK
<1>2. CASE \E answer \in Answers : Answered(m, p, answer)
  BY <1>2, AnsweredKeeps
<1> QED BY <1>1, <1>2 DEF Resolve

\* What a step of the manager m makes of the invariant.
LEMMA ManagerStepKeeps ==
  ASSUME TypeOK, OneLookup, LastCounted, NEW m \in Managers, NEW q \in Work,
         pending' = [pending EXCEPT ![m] = q],
         UNCHANGED <<endpoints, indexVars>>, started' \in 0..2 * Cardinality(Names),
         \A k \in Managers : k # m => (Position(k) < started' <=> Position(k) < started),
         q.answers + q.timers = IF Position(m) < started' THEN 1 ELSE 0,
         addresses' \in [Managers -> Answers],
         numReady' \in Nat, readyCalls' \in Nat, owed' \in 0..Connections
  PROVE  TypeOK' /\ OneLookup' /\ LastCounted'
<1>1. /\ Names' = Names /\ Hosts' = Hosts /\ Managers' = Managers
      /\ UNCHANGED <<endpoints, endpointIndex, addressIndex, last>>
  BY DEF Managers, Hosts, Names, indexVars
<1>2. pending' \in [Managers -> Work]
  BY DEF TypeOK, Work
<1>3. TypeOK'
  BY <1>1, <1>2 DEF TypeOK, Work
<1>4. OneLookup'
  <2> SUFFICES ASSUME NEW k \in Managers
               PROVE  pending'[k].answers + pending'[k].timers =
                        IF Position(k) < started' THEN 1 ELSE 0
    BY <1>1 DEF OneLookup
  <2>1. CASE k = m
    BY <2>1 DEF TypeOK
  <2>2. CASE k # m
    BY <2>2 DEF TypeOK, OneLookup
  <2> QED BY <2>1, <2>2
<1>5. LastCounted'
  BY <1>1 DEF LastCounted, EndpointAt
<1> QED BY <1>3, <1>4, <1>5

LEMMA StartKeeps ==
  ASSUME IndInv, Start
  PROVE  IndInv'
<1> DEFINE N == Cardinality(Names)
           m == ManagerAt(started)
<1>1. TypeOK /\ OneLookup /\ ReadyOnce /\ LastCounted
  BY DEF IndInv
<1>2. /\ N \in Nat /\ started \in 0..2 * N - 1 /\ started' = started + 1
      /\ Resolve(m, pending[m]) /\ UNCHANGED <<endpoints, indexVars>>
  <2>1. N \in Nat /\ started \in 0..2 * N
    BY <1>1, NamesFinite DEF TypeOK
  <2>2. /\ started # 2 * N /\ started' = started + 1
        /\ Resolve(m, pending[m]) /\ UNCHANGED <<endpoints, indexVars>>
    BY DEF Start, AllStarted
  <2> HIDE DEF N, m
  <2> QED BY <2>1, <2>2
<1>3. m \in Managers /\ Position(m) = started
      /\ \A k \in Managers : k # m => Position(k) # started /\ Position(k) \in Nat
  BY <1>1, <1>2, Managing DEF TypeOK
<1> HIDE DEF N, m
<1>4. pending[m] \in Work /\ pending[m].answers + pending[m].timers = 0
  BY <1>1, <1>2, <1>3 DEF TypeOK, OneLookup, Work
<1>5. PICK q \in Work : /\ q.answers + q.timers = pending[m].answers + pending[m].timers + 1
                        /\ pending' = [pending EXCEPT ![m] = q]
  BY <1>1, <1>2, <1>3, <1>4, ResolveKeeps
<1>6. /\ addresses' \in [Managers -> Answers]
      /\ numReady' \in Nat /\ readyCalls' \in Nat /\ owed' \in 0..Connections
      /\ ReadyOnce'
  BY <1>1, <1>2, <1>3, <1>4, ResolveKeeps
<1>7. started' \in 0..2 * Cardinality(Names)
  BY <1>2 DEF N
<1>8. \A k \in Managers : k # m => (Position(k) < started' <=> Position(k) < started)
  BY <1>2, <1>3
<1>9. q.answers + q.timers = IF Position(m) < started' THEN 1 ELSE 0
  BY <1>2, <1>3, <1>4, <1>5
<1>10. TypeOK' /\ OneLookup' /\ LastCounted'
  BY <1>1, <1>2, <1>3, <1>5, <1>6, <1>7, <1>8, <1>9, ManagerStepKeeps
<1> QED BY <1>6, <1>10 DEF IndInv

LEMMA OnDnsResolutionKeeps ==
  ASSUME IndInv, NEW m \in Managers, OnDnsResolution(m)
  PROVE  IndInv'
<1> DEFINE p == [pending[m] EXCEPT !.answers = @ - 1]
<1>1. TypeOK /\ OneLookup /\ ReadyOnce /\ LastCounted
  BY DEF IndInv
<1>2. PICK answer \in Answers :
        /\ Answered(m, p, answer)
        /\ pending[m].answers > 0 /\ UNCHANGED <<endpoints, started, indexVars>>
  BY DEF OnDnsResolution
<1>3. pending[m] \in Work
      /\ pending[m].answers + pending[m].timers = IF Position(m) < started THEN 1 ELSE 0
  BY <1>1 DEF TypeOK, OneLookup, Work
<1>4. p \in Work /\ p.answers + p.timers + 1 = pending[m].answers + pending[m].timers
  <2>1. /\ pending[m].answers \in Nat /\ pending[m].timers \in Nat
        /\ pending[m].answers - 1 \in Nat
    BY <1>2, <1>3 DEF Work
  <2>2. p.answers = pending[m].answers - 1 /\ p.timers = pending[m].timers /\ p \in Work
    BY <1>3, <2>1 DEF Work
  <2> HIDE DEF p
  <2> QED BY <2>1, <2>2
<1> HIDE DEF p
<1>5. PICK q \in Work : /\ q.answers + q.timers = p.answers + p.timers + 1
                        /\ pending' = [pending EXCEPT ![m] = q]
  BY <1>1, <1>2, <1>4, AnsweredKeeps
<1>6. /\ addresses' \in [Managers -> Answers]
      /\ numReady' \in Nat /\ readyCalls' \in Nat /\ owed' \in 0..Connections
      /\ ReadyOnce'
  BY <1>1, <1>2, <1>4, AnsweredKeeps
<1>7. started' \in 0..2 * Cardinality(Names)
  BY <1>1, <1>2 DEF TypeOK
<1>8. q.answers + q.timers = IF Position(m) < started' THEN 1 ELSE 0
  BY <1>2, <1>3, <1>4, <1>5
<1>9. TypeOK' /\ OneLookup' /\ LastCounted'
  BY <1>1, <1>2, <1>5, <1>6, <1>7, <1>8, ManagerStepKeeps
<1> QED BY <1>6, <1>9 DEF IndInv

LEMMA OnRefreshKeeps ==
  ASSUME IndInv, NEW m \in Managers, OnRefresh(m)
  PROVE  IndInv'
<1> DEFINE p == [pending[m] EXCEPT !.timers = @ - 1]
<1>1. TypeOK /\ OneLookup /\ ReadyOnce /\ LastCounted
  BY DEF IndInv
<1>2. /\ Resolve(m, p)
      /\ pending[m].timers > 0 /\ UNCHANGED <<endpoints, started, indexVars>>
  BY DEF OnRefresh
<1>3. pending[m] \in Work
      /\ pending[m].answers + pending[m].timers = IF Position(m) < started THEN 1 ELSE 0
  BY <1>1 DEF TypeOK, OneLookup, Work
<1>4. p \in Work /\ p.answers + p.timers + 1 = pending[m].answers + pending[m].timers
  <2>1. /\ pending[m].answers \in Nat /\ pending[m].timers \in Nat
        /\ pending[m].timers - 1 \in Nat
    BY <1>2, <1>3 DEF Work
  <2>2. p.timers = pending[m].timers - 1 /\ p.answers = pending[m].answers /\ p \in Work
    BY <1>3, <2>1 DEF Work
  <2> HIDE DEF p
  <2> QED BY <2>1, <2>2
<1> HIDE DEF p
<1>5. PICK q \in Work : /\ q.answers + q.timers = p.answers + p.timers + 1
                        /\ pending' = [pending EXCEPT ![m] = q]
  BY <1>1, <1>2, <1>4, ResolveKeeps
<1>6. /\ addresses' \in [Managers -> Answers]
      /\ numReady' \in Nat /\ readyCalls' \in Nat /\ owed' \in 0..Connections
      /\ ReadyOnce'
  BY <1>1, <1>2, <1>4, ResolveKeeps
<1>7. started' \in 0..2 * Cardinality(Names)
  BY <1>1, <1>2 DEF TypeOK
<1>8. q.answers + q.timers = IF Position(m) < started' THEN 1 ELSE 0
  BY <1>2, <1>3, <1>4, <1>5
<1>9. TypeOK' /\ OneLookup' /\ LastCounted'
  BY <1>1, <1>2, <1>5, <1>6, <1>7, <1>8, ManagerStepKeeps
<1> QED BY <1>6, <1>9 DEF IndInv

-----------------------------------------------------------------------------
(* Requests.                                                               *)

LEMMA Indexes ==
  ASSUME TypeOK, NEW k \in Nat
  PROVE  /\ endpointIndex \in 0..Wrap-1
         /\ IndexAt(k) \in 0..Wrap-1
         /\ EndpointAt(IndexAt(k)) \in DOMAIN endpoints
         /\ Endpoint(IndexAt(k)) = endpoints[EndpointAt(IndexAt(k))]
         /\ k < Wrap => IndexAt(k) = IF endpointIndex + k < Wrap THEN endpointIndex + k
                                     ELSE endpointIndex + k - Wrap
<1>1. /\ endpointIndex \in 0..Wrap-1 /\ Wrap \in Nat \ {0}
      /\ Len(endpoints) \in Nat \ {0} /\ DOMAIN endpoints = 1..Len(endpoints)
  BY EndpointTypes DEF TypeOK
<1>2. endpointIndex + k \in Nat /\ IndexAt(k) = (endpointIndex + k) % Wrap
  BY <1>1 DEF IndexAt
<1>3. IndexAt(k) \in 0..Wrap-1
  BY <1>1, <1>2, ModRange
<1>4. IndexAt(k) % Len(endpoints) \in 0..Len(endpoints)-1
  <2>1. IndexAt(k) \in Nat
    BY <1>1, <1>3
  <2> QED BY <1>1, <2>1, ModRange
<1>5. EndpointAt(IndexAt(k)) \in DOMAIN endpoints
  BY <1>1, <1>4 DEF EndpointAt
<1>6. ASSUME k < Wrap
      PROVE  IndexAt(k) = IF endpointIndex + k < Wrap THEN endpointIndex + k
                          ELSE endpointIndex + k - Wrap
  <2>1. endpointIndex + k \in 0..2*Wrap-1
    BY <1>1, <1>6
  <2>2. /\ endpointIndex + k < Wrap => (endpointIndex + k) % Wrap = endpointIndex + k
        /\ endpointIndex + k >= Wrap => (endpointIndex + k) % Wrap = endpointIndex + k - Wrap
    <3>1. PICK a : a = endpointIndex + k
      OBVIOUS
    <3>2. a \in 0..2*Wrap-1
      BY <2>1, <3>1
    <3>3. (a < Wrap => a % Wrap = a) /\ (a >= Wrap => a % Wrap = a - Wrap)
      BY <1>1, <3>2, ModSmall
    <3> QED BY <1>1, <3>1, <3>3
  <2> QED BY <1>1, <1>2, <2>2
<1> QED BY <1>1, <1>3, <1>5, <1>6 DEF Endpoint

\* Once the connections were started there is an endpoint with addresses.
LEMMA SomeAddress ==
  ASSUME TypeOK, ReadyOnce, readyCalls > 0
  PROVE  \E i \in DOMAIN endpoints : AddressesOf(HostOf(endpoints[i])) # << >>
<1> DEFINE R == {m \in Managers : addresses[m] # << >>}
<1>1. numReady = Cardinality(R) /\ numReady > 0
  BY DEF ReadyOnce, TypeOK
<1>2. R # {}
  BY <1>1, FS_EmptySet
<1>3. PICK m \in Managers : addresses[m] # << >>
  BY <1>2
<1>4. m[1] \in Hosts /\ (m = <<m[1], "ipv4">> \/ m = <<m[1], "ipv6">>)
  BY DEF Managers, Families
<1>5. AddressesOf(m[1]) # << >>
  BY <1>3, <1>4 DEF AddressesOf
<1>6. PICK i \in DOMAIN endpoints : HostOf(endpoints[i]) = m[1]
  BY <1>4, Hosting DEF TypeOK
<1> QED BY <1>5, <1>6

\* The loop ends, at the first index whose endpoint has addresses, and unless
\* the counter wraps it has not gone round all endpoints.
LEMMA SkippedProperties ==
  ASSUME TypeOK, ReadyOnce, readyCalls > 0
  PROVE  /\ Skipped \in 0..Wrap-1 /\ HasAddress(Skipped)
         /\ \A j \in 0..Skipped-1 : ~HasAddress(j)
         /\ endpointIndex + Len(endpoints) <= Wrap => Skipped < Len(endpoints)
<1> DEFINE n == Len(endpoints)
           K == {k \in 0..Wrap-1 : HasAddress(k)}
<1>1. /\ endpointIndex \in 0..Wrap-1 /\ Wrap \in Nat \ {0} /\ n \in 1..Wrap
      /\ DOMAIN endpoints = 1..n
  BY EndpointTypes DEF TypeOK
<1>2. PICK i \in DOMAIN endpoints : AddressesOf(HostOf(endpoints[i])) # << >>
  BY SomeAddress
<1>3. ASSUME NEW k \in 0..Wrap-1, IndexAt(k) % n = i - 1
      PROVE  k \in K
  <2>1. EndpointAt(IndexAt(k)) = i
    BY <1>1, <1>3 DEF EndpointAt
  <2> QED BY <1>2, <2>1 DEF HasAddress, Endpoint
<1>4. \E k \in 0..Wrap-1 : k \in K
  <2>1. PICK k \in 0..Wrap-1 : (endpointIndex + k) % Wrap = i - 1
    <3>1. i - 1 \in 0..Wrap-1 /\ endpointIndex \in Nat
      BY <1>1
    <3> QED BY <1>1, <3>1, ModHits
  <2>2. (i - 1) % n = i - 1
    <3>1. i - 1 \in 0..2*n-1 /\ i - 1 < n /\ n \in Nat \ {0}
      BY <1>1
    <3> QED BY <3>1, ModSmall
  <2>3. IndexAt(k) % n = i - 1
    BY <2>1, <2>2 DEF IndexAt
  <2> QED BY <1>3, <2>3
<1>5. PICK k \in K : \A j \in K : ~(j < k)
  <2>1. K \in SUBSET Nat /\ K # {} /\ K \in SUBSET (0..Wrap-1)
    BY <1>1, <1>4
  <2>2. IsFiniteSet(K)
    <3>1. 0 \in Int /\ Wrap - 1 \in Int
      BY <1>1
    <3>2. IsFiniteSet(0..Wrap-1)
      BY <3>1, FS_Interval
    <3> QED BY <2>1, <3>2, FS_Subset
  <2> QED BY <2>1, <2>2, Smallest
<1>6. k \in 0..Wrap-1 /\ HasAddress(k) /\ \A j \in 0..k-1 : ~HasAddress(j)
  BY <1>1, <1>5
<1>7. /\ Skipped \in 0..Wrap-1 /\ HasAddress(Skipped)
      /\ \A j \in 0..Skipped-1 : ~HasAddress(j)
  BY <1>6 DEF Skipped
<1>8. ASSUME endpointIndex + n <= Wrap
      PROVE  Skipped < n
  <2>1. PICK j \in 0..n-1 : (endpointIndex + j) % n = i - 1
    <3>1. i - 1 \in 0..n-1 /\ endpointIndex \in Nat /\ n \in Nat \ {0}
      BY <1>1
    <3> QED BY <3>1, ModHits
  <2>2. IndexAt(j) = endpointIndex + j /\ j \in 0..Wrap-1
    <3>1. j \in Nat /\ j < Wrap /\ endpointIndex + j < Wrap
      BY <1>1, <1>8
    <3>2. IndexAt(j) = IF endpointIndex + j < Wrap THEN endpointIndex + j
                       ELSE endpointIndex + j - Wrap
      BY <3>1, Indexes
    <3> QED BY <1>1, <3>1, <3>2
  <2>3. HasAddress(j)
    BY <1>3, <2>1, <2>2
  <2>4. ~(j \in 0..Skipped-1)
    BY <1>7, <2>3
  <2> QED BY <1>1, <1>7, <2>4
<1> QED BY <1>7, <1>8

LEMMA RequestEndpointKeeps ==
  ASSUME IndInv, RequestEndpoint
  PROVE  IndInv'
<1> DEFINE s == Skipped
           h == HostOf(Endpoint(IndexAt(s)))
<1>1. TypeOK /\ OneLookup /\ ReadyOnce /\ LastCounted
  BY DEF IndInv
<1>2. /\ endpointIndex' = (endpointIndex + s + 1) % Wrap
      /\ addressIndex' = [addressIndex EXCEPT ![h] = (@ + 1) % Wrap]
      /\ last' = EndpointAt(IndexAt(s)) /\ owed' = IF owed > 0 THEN owed - 1 ELSE 0
      /\ UNCHANGED <<endpoints, started, pending, addresses, numReady, readyCalls>>
      /\ readyCalls > 0
  BY DEF RequestEndpoint, NextIndex
<1>3. /\ s \in 0..Wrap-1 /\ endpointIndex \in 0..Wrap-1 /\ Wrap \in Nat \ {0}
      /\ IndexAt(s) \in 0..Wrap-1 /\ IndexAt(s) = (endpointIndex + s) % Wrap
      /\ EndpointAt(IndexAt(s)) \in DOMAIN endpoints
      /\ DOMAIN endpoints = 1..Len(endpoints) /\ Len(endpoints) \in Nat
  <2>1. s \in 0..Wrap-1 /\ IndexAt(s) = (endpointIndex + s) % Wrap
    BY <1>1, <1>2, SkippedProperties DEF IndexAt
  <2>2. /\ Wrap \in Nat \ {0} /\ DOMAIN endpoints = 1..Len(endpoints)
        /\ Len(endpoints) \in Nat
    BY <1>1, EndpointTypes DEF TypeOK
  <2> HIDE DEF s
  <2>3. s \in Nat
    BY <2>1, <2>2
  <2> QED BY <1>1, <2>1, <2>2, <2>3, Indexes
<1> HIDE DEF s, h
<1>4. endpointIndex' \in 0..Wrap-1
  <2>1. endpointIndex + s + 1 \in Nat
    BY <1>3
  <2> QED BY <1>2, <1>3, <2>1, ModRange
<1>5. addressIndex' \in [Hosts -> 0..Wrap-1]
  <2>1. addressIndex \in [Hosts -> 0..Wrap-1]
    BY <1>1 DEF TypeOK
  <2>2. ASSUME NEW x \in 0..Wrap-1
        PROVE  (x + 1) % Wrap \in 0..Wrap-1
    <3>1. x + 1 \in Nat
      BY <1>3
    <3> QED BY <1>3, <3>1, ModRange
  <2>3. h \in Hosts => (addressIndex[h] + 1) % Wrap \in 0..Wrap-1
    BY <2>1, <2>2
  <2> QED BY <1>2, <2>1, <2>3
<1>6. Names' = Names /\ Hosts' = Hosts /\ Managers' = Managers
  BY <1>2 DEF Managers, Hosts, Names
<1>7. owed' \in 0..Connections
  <2>1. owed \in 0..Connections /\ Connections \in Nat
    BY <1>1, NumbersAssumption DEF TypeOK
  <2> QED BY <1>2, <2>1
<1>8. last' \in 0..Len(endpoints)
  BY <1>2, <1>3
<1>9. TypeOK'
  BY <1>1, <1>2, <1>4, <1>5, <1>6, <1>7, <1>8 DEF TypeOK
<1>10. OneLookup'
  BY <1>1, <1>2, <1>6 DEF OneLookup
<1>11. ReadyOnce'
  <2>1. owed' > 0 => owed > 0
    BY <1>1, <1>2, NumbersAssumption DEF TypeOK
  <2> QED BY <1>1, <1>2, <1>6, <2>1 DEF ReadyOnce
<1>12. LastCounted'
  <2>1. endpointIndex' = IF IndexAt(s) + 1 < Wrap THEN IndexAt(s) + 1 ELSE 0
    <3>1. IndexAt(s) + 1 \in 0..2*Wrap-1
      BY <1>3
    <3>2. endpointIndex' = (IndexAt(s) + 1) % Wrap
      <4>1. endpointIndex + s \in Nat /\ 1 \in Nat
        BY <1>3
      <4> QED BY <1>2, <1>3, <4>1, ModShift
    <3>3. /\ IndexAt(s) + 1 < Wrap => (IndexAt(s) + 1) % Wrap = IndexAt(s) + 1
          /\ IndexAt(s) + 1 >= Wrap => (IndexAt(s) + 1) % Wrap = IndexAt(s) + 1 - Wrap
      <4>1. PICK a : a = IndexAt(s) + 1
        OBVIOUS
      <4>2. a \in 0..2*Wrap-1
        BY <3>1, <4>1
      <4>3. (a < Wrap => a % Wrap = a) /\ (a >= Wrap => a % Wrap = a - Wrap)
        BY <1>3, <4>2, ModSmall
      <4> QED BY <1>3, <4>1, <4>3
    <3> QED BY <1>3, <3>1, <3>2, <3>3
  <2>2. endpointIndex' > 0 => endpointIndex' - 1 = IndexAt(s)
    BY <1>3, <2>1
  <2> QED BY <1>2, <2>2 DEF LastCounted, EndpointAt
<1> QED BY <1>9, <1>10, <1>11, <1>12 DEF IndInv

\* On the way from one answer to the next only endpoints without addresses are
\* passed over.
LEMMA BetweenAnswers ==
  ASSUME IndInv, RequestEndpoint, endpointIndex' > endpointIndex, endpointIndex > 0,
         NEW i \in Between(last, last')
  PROVE  AddressesOf(HostOf(endpoints[i])) = << >>
<1>n. PICK e, s, n : e = endpointIndex /\ s = Skipped /\ n = Len(endpoints)
  OBVIOUS
<1>1. /\ e \in 1..Wrap-1 /\ s \in 0..Wrap-1 /\ n \in Nat \ {0} /\ Wrap \in Nat \ {0}
      /\ \A j \in 0..s-1 : ~HasAddress(j)
      /\ e + n <= Wrap => s < n
  <2>1. readyCalls > 0 /\ TypeOK /\ ReadyOnce
    BY DEF IndInv, RequestEndpoint
  <2>2. /\ s \in 0..Wrap-1 /\ \A j \in 0..s-1 : ~HasAddress(j)
        /\ e + n <= Wrap => s < n
    BY <1>n, <2>1, SkippedProperties
  <2>3. Wrap \in Nat \ {0} /\ n \in Nat \ {0} /\ e \in 0..Wrap-1
    BY <1>n, <2>1, EndpointTypes DEF TypeOK
  <2> QED BY <1>n, <2>2, <2>3
<1>2. endpointIndex' = (e + s + 1) % Wrap /\ last' = EndpointAt(IndexAt(s))
  BY <1>n DEF RequestEndpoint, NextIndex
<1>3. e + s + 1 < Wrap
  <2>1. PICK a : a = e + s + 1
    OBVIOUS
  <2>2. a \in 0..2*Wrap-1 /\ a \in Int
    BY <1>1, <2>1
  <2>3. a >= Wrap => a % Wrap = a - Wrap
    BY <1>1, <2>2, ModSmall
  <2>4. a % Wrap > e
    BY <1>n, <1>2, <2>1
  <2> QED BY <1>1, <2>1, <2>2, <2>3, <2>4
<1>4. s < n
  BY <1>1, <1>3
<1>5. \A j \in 0..s : IndexAt(j) = e + j /\ EndpointAt(IndexAt(j)) = ((e + j) % n) + 1
  <2> SUFFICES ASSUME NEW j \in 0..s
               PROVE  IndexAt(j) = e + j
    BY <1>n DEF EndpointAt
  <2>1. j \in Nat /\ e + j \in 0..Wrap-1
    BY <1>1, <1>3
  <2>2. PICK a : a = e + j
    OBVIOUS
  <2>3. a \in 0..2*Wrap-1 /\ a < Wrap
    BY <1>1, <2>1, <2>2
  <2>4. a % Wrap = a
    BY <1>1, <2>3, ModSmall
  <2> QED BY <1>n, <2>2, <2>4 DEF IndexAt
<1>6. last' = ((e + s) % n) + 1 /\ last = ((e - 1) % n) + 1
  BY <1>n, <1>1, <1>2, <1>5 DEF IndInv, LastCounted, EndpointAt
<1>7. \A j \in 1..n : ((last + j - 1) % n) + 1 = ((e + (j - 1)) % n) + 1
  <2> SUFFICES ASSUME NEW j \in 1..n
               PROVE  (last + j - 1) % n = (e + (j - 1)) % n
    OBVIOUS
  <2>1. e - 1 \in Nat /\ j \in Nat
    BY <1>1
  <2>2. (((e - 1) % n) + j) % n = ((e - 1) + j) % n
    BY <1>1, <2>1, ModShift
  <2>3. (e - 1) % n \in Nat
    BY <1>1, <2>1, ModRange
  <2>4. last + j - 1 = ((e - 1) % n) + j /\ e + (j - 1) = (e - 1) + j
    BY <1>1, <1>6, <2>1, <2>3
  <2> QED BY <2>2, <2>4
<1>8. PICK d : d = CHOOSE k \in 1..n : ((last + k - 1) % n) + 1 = last'
  OBVIOUS
<1>9. d = s + 1
  <2>1. s + 1 \in 1..n /\ ((last + (s + 1) - 1) % n) + 1 = last'
    <3>1. s + 1 \in 1..n /\ (s + 1) - 1 = s
      BY <1>1, <1>4
    <3> QED BY <1>6, <1>7, <3>1
  <2>2. d \in 1..n /\ ((last + d - 1) % n) + 1 = last'
    BY <1>8, <2>1
  <2>3. d - 1 \in 0..n-1 /\ s \in 0..n-1 /\ e \in Nat
    BY <1>1, <1>4, <2>2
  <2>4. (e + (d - 1)) % n = (e + s) % n
    <3>1. ((e + (d - 1)) % n) + 1 = ((e + s) % n) + 1
      BY <1>6, <1>7, <2>2
    <3>2. e + (d - 1) \in Nat /\ e + s \in Nat
      BY <1>1, <2>3
    <3>3. (e + (d - 1)) % n \in Nat /\ (e + s) % n \in Nat
      BY <1>1, <3>2, ModRange
    <3> QED BY <3>1, <3>3
  <2>5. d - 1 = s
    BY <1>1, <2>3, <2>4, ModOnce
  <2> QED BY <1>1, <2>2, <2>5
<1>10. PICK j \in 1..s : i = ((last + j - 1) % n) + 1
  <2>1. \E j \in 1..d-1 : i = ((last + j - 1) % n) + 1
    BY <1>n, <1>8 DEF Between
  <2> QED BY <1>1, <1>9, <2>1
<1>11. j - 1 \in 0..s-1 /\ j \in 1..n
  BY <1>1, <1>4
<1>12. i = EndpointAt(IndexAt(j - 1))
  BY <1>1, <1>5, <1>7, <1>10, <1>11
<1>13. ~HasAddress(j - 1)
  BY <1>1, <1>11
<1> QED BY <1>12, <1>13 DEF HasAddress, Endpoint

-----------------------------------------------------------------------------
(* The initial states and the steps.                                       *)

LEMMA InitInv == Init => IndInv
<1> SUFFICES ASSUME Init
             PROVE  IndInv
  OBVIOUS
<1>1. /\ Wrap \in Nat \ {0} /\ Connections \in Nat /\ Cardinality(Names) \in Nat
      /\ Len(endpoints) \in Nat
  BY NumbersAssumption, NamesFinite, EndpointTypes DEF Init
<1>2. TypeOK
  BY <1>1, AnswersAssumption DEF Init, TypeOK
<1>3. OneLookup
  <2>1. \A m \in Managers : ~(Position(m) < 0)
    BY Managing DEF Init
  <2> QED BY <2>1 DEF Init, OneLookup
<1>4. ReadyOnce
  <2>1. {m \in Managers : addresses[m] # << >>} = {}
    BY DEF Init
  <2>2. Cardinality({m \in Managers : addresses[m] # << >>}) = 0
    BY <2>1, FS_EmptySet
  <2>3. numReady = 0 /\ readyCalls = 0 /\ owed = 0
    BY DEF Init
  <2> QED BY <2>2, <2>3 DEF ReadyOnce
<1>5. LastCounted
  BY DEF Init, LastCounted
<1> QED BY <1>2, <1>3, <1>4, <1>5 DEF IndInv

LEMMA InvStep == IndInv /\ [Next]_vars => IndInv'
<1> SUFFICES ASSUME IndInv, [Next]_vars
             PROVE  IndInv'
  OBVIOUS
<1>1. CASE UNCHANGED vars
  BY <1>1
     DEF vars, readyVars, indexVars, IndInv, TypeOK, OneLookup, ReadyOnce, LastCounted,
         EndpointAt, Managers, Hosts, Names
<1> QED BY <1>1, StartKeeps, OnDnsResolutionKeeps, OnRefreshKeeps, RequestEndpointKeeps
        DEF Next

-----------------------------------------------------------------------------
(* Theorems                                                                *)

\* The inductive invariant: types, one lookup or timer per manager, one ready
\* callback, and where the counter stands.
THEOREM EndpointsInvariant == Spec => []IndInv
BY InitInv, InvStep, PTL DEF Spec

\* RequestsAreAnswered: whenever a connection may ask for an endpoint the loop
\* of RequestEndpoint ends, its assertion holds, and the port, the name and the
\* address it returns belong together.
THEOREM RequestsAnswered == Spec => []RequestsAreAnswered
<1>1. IndInv => RequestsAreAnswered
  <2> SUFFICES ASSUME IndInv, readyCalls > 0
               PROVE  RequestsAreAnswered
    BY DEF RequestsAreAnswered
  <2> DEFINE s == Skipped
             i == EndpointAt(IndexAt(s))
             h == HostOf(endpoints[i])
  <2>1. TypeOK /\ ReadyOnce
    BY DEF IndInv
  <2>2. /\ s \in 0..Wrap-1 /\ HasAddress(s) /\ Wrap \in Nat \ {0}
        /\ Len(endpoints) \in Nat \ {0}
        /\ endpointIndex + Len(endpoints) <= Wrap => s < Len(endpoints)
    BY <2>1, SkippedProperties, EndpointTypes DEF TypeOK
  <2>3. ASSUME NEW k \in 0..s
        PROVE  IndexAt(k) # LastIndex
    <3>1. k \in Nat /\ k < Wrap
      BY <2>2
    <3>2. /\ endpointIndex \in 0..Wrap-1 /\ IndexAt(k) \in 0..Wrap-1
          /\ IndexAt(k) = IF endpointIndex + k < Wrap THEN endpointIndex + k
                          ELSE endpointIndex + k - Wrap
      BY <2>1, <3>1, Indexes
    <3> QED BY <2>2, <3>1, <3>2 DEF LastIndex
  <2>4. i \in DOMAIN endpoints /\ Endpoint(IndexAt(s)) = endpoints[i]
    BY <2>1, <2>2, Indexes
  <2>5. h \in Hosts /\ NameOf(h) = endpoints[i].name
    BY <2>1, <2>4, Hosting DEF TypeOK
  <2>6. \E f \in Families : \E j \in DOMAIN addresses[<<h, f>>] :
          addresses[<<h, f>>][j] = Answer.address
    <3> DEFINE l == AddressesOf(h)
    <3>1. PICK f \in Families : l = addresses[<<h, f>>]
      BY DEF AddressesOf, Families
    <3>2. l \in Seq(Addresses) /\ l # << >>
      <4>1. <<h, f>> \in Managers
        BY <2>5 DEF Managers
      <4> QED BY <2>1, <2>2, <2>4, <3>1, <4>1, AnswersAssumption DEF TypeOK, HasAddress
    <3>3. Len(l) \in Nat \ {0} /\ DOMAIN l = 1..Len(l)
      BY <3>2, LenProperties, EmptySeq
    <3>4. addressIndex[h] \in Nat
      BY <2>1, <2>2, <2>5 DEF TypeOK
    <3>5. Answer.address = l[(addressIndex[h] % Len(l)) + 1]
      BY <2>4 DEF Answer
    <3> HIDE DEF l, h
    <3>6. (addressIndex[h] % Len(l)) + 1 \in DOMAIN l
      <4>1. addressIndex[h] % Len(l) \in 0..Len(l)-1
        BY <3>3, <3>4, ModRange
      <4> QED BY <3>3, <4>1
    <3> QED BY <3>1, <3>5, <3>6
  <2>7. Answer.name = endpoints[i].name /\ Answer.port = endpoints[i].port
    BY <2>4, <2>5 DEF Answer
  <2> HIDE DEF s, i
  <2> QED BY <2>2, <2>3, <2>4, <2>6, <2>7 DEF RequestsAreAnswered, s
<1> QED BY <1>1, EndpointsInvariant, PTL

\* RoundRobin: unless the counter wraps in between, every endpoint between two
\* that were answered one after the other has no addresses at that time.
THEOREM EndpointsRoundRobin == Spec => RoundRobin
<1> DEFINE A == endpointIndex' > endpointIndex /\ endpointIndex > 0 =>
                  \A i \in Between(last, last') : AddressesOf(HostOf(endpoints[i])) = << >>
<1>1. IndInv /\ [Next]_vars => [A]_vars
  <2> SUFFICES ASSUME IndInv, Next
               PROVE  A
    OBVIOUS
  <2>1. CASE RequestEndpoint
    BY <2>1, BetweenAnswers
  <2>2. CASE endpointIndex' = endpointIndex
    BY <2>2 DEF IndInv, TypeOK
  <2> QED BY <2>1, <2>2 DEF Next, Start, OnDnsResolution, OnRefresh, indexVars
<1>2. []IndInv /\ [][Next]_vars => [][A]_vars
  BY <1>1, PTL
<1> QED BY <1>2, EndpointsInvariant, PTL DEF Spec, RoundRobin
=============================================================================
