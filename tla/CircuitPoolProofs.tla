--------------------------- MODULE CircuitPoolProofs ---------------------------
(***************************************************************************)
(* Theorems about CircuitPool for any number of clients, ports, relays and *)
(* streams and any values of the options.                                  *)
(***************************************************************************)
EXTENDS CircuitPool, FiniteSetTheorems, WellFoundedInduction, TLAPS

-----------------------------------------------------------------------------
(* Deques.                                                                 *)

\* A finite non-empty set of positions has a leftmost one. (The set of the
\* positions left of it is minimal among such sets.)
LEMMA LeftmostIsGreatest ==
  ASSUME NEW S \in SUBSET Nat, IsFiniteSet(S), S # {}
  PROVE  Leftmost(S) \in S /\ \A j \in S : j <= Leftmost(S)
<1> DEFINE LeftOf(i) == {j \in S : j > i}
           Sides == {LeftOf(i) : i \in S}
<1>1. Sides \subseteq FiniteSubsetsOf(S) /\ Sides # {}
  <2>1. FiniteSubsetsOf(S) = SUBSET S
    BY FS_FiniteSubsetsOfFinite
  <2>2. \A i : LeftOf(i) \in SUBSET S
    OBVIOUS
  <2>3. Sides \subseteq SUBSET S /\ Sides # {}
    BY <2>2
  <2> QED BY <2>1, <2>3
<1>2. PICK T \in Sides : \A U \in Sides : <<U, T>> \notin StrictSubsetOrdering(S)
  BY <1>1, FS_StrictSubsetOrderingWellFounded, WFMin
<1>3. PICK i \in S : T = LeftOf(i)
  OBVIOUS
<1>4. ASSUME NEW j \in S, j > i
      PROVE  FALSE
  <2>1. LeftOf(j) \subseteq LeftOf(i) /\ j \in LeftOf(i) /\ j \notin LeftOf(j)
    <3>1. i \in Nat /\ j \in Nat /\ j > i
      BY <1>4
    <3>2. \A k \in S : k \in Nat /\ (k > j => k > i)
      BY <3>1
    <3>3. LeftOf(j) \subseteq LeftOf(i)
      BY <3>2
    <3>4. j \in LeftOf(i)
      BY <3>1
    <3>5. j \notin LeftOf(j)
      BY <3>1
    <3> QED BY <3>3, <3>4, <3>5
  <2>2. <<LeftOf(j), LeftOf(i)>> \in StrictSubsetOrdering(S)
    BY <2>1 DEF StrictSubsetOrdering
  <2> QED BY <2>2, <1>2, <1>3
<1>5. \A j \in S : j <= i
  BY <1>4
<1> QED BY <1>5 DEF Leftmost

\* A new leftmost position is to the left of all others.
LEMMA NextLeftIsFree ==
  ASSUME NEW d, IsDeque(d)
  PROVE  /\ NextLeft(d) \in Nat /\ NextLeft(d) \notin DOMAIN d
         /\ \A j \in DOMAIN d : j < NextLeft(d)
<1>1. CASE DOMAIN d = {}
  BY <1>1 DEF NextLeft
<1>2. CASE DOMAIN d # {}
  <2>1. /\ Leftmost(DOMAIN d) \in DOMAIN d
        /\ \A j \in DOMAIN d : j <= Leftmost(DOMAIN d)
    BY <1>2, LeftmostIsGreatest DEF IsDeque
  <2> QED BY <1>2, <2>1 DEF NextLeft, IsDeque
<1> QED BY <1>1, <1>2

\* Removing circuits leaves the others where they are.
LEMMA WithoutIsDeque ==
  ASSUME NEW d, NEW gone, IsDeque(d)
  PROVE  /\ IsDeque(Without(d, gone))
         /\ DOMAIN Without(d, gone) = DOMAIN d \ gone
         /\ \A i \in DOMAIN d \ gone : Without(d, gone)[i] = d[i]
<1>1. IsFiniteSet(DOMAIN d \ gone)
  BY FS_Subset DEF IsDeque
<1> QED BY <1>1 DEF Without, IsDeque

\* Appending a circuit leaves the others where they are, to its right.
LEMMA AppendIsDeque ==
  ASSUME NEW d, NEW circuit \in Circuit, IsDeque(d)
  PROVE  /\ IsDeque(appendleft(d, circuit))
         /\ DOMAIN appendleft(d, circuit) = DOMAIN d \cup {NextLeft(d)}
         /\ \A i \in DOMAIN d : appendleft(d, circuit)[i] = d[i]
         /\ appendleft(d, circuit)[NextLeft(d)] = circuit
<1>1. IsFiniteSet(DOMAIN d \cup {NextLeft(d)})
  BY FS_AddElement DEF IsDeque
<1>2. NextLeft(d) \in Nat /\ NextLeft(d) \notin DOMAIN d
  BY NextLeftIsFree
<1> QED BY <1>1, <1>2 DEF appendleft, IsDeque
-----------------------------------------------------------------------------
(* Cover counts.                                                           *)

\* Counts over a deque are natural numbers.
LEMMA CoverCountType ==
  ASSUME NEW d, IsDeque(d), NEW S \in SUBSET DOMAIN d, NEW p
  PROVE  CoverCount(d, S, p) \in Nat
<1>1. IsFiniteSet({i \in S : p \in d[i].covering})
  BY FS_Subset DEF IsDeque
<1> QED BY <1>1, FS_CardinalityType DEF CoverCount

\* The count after a removal is the count before, less the removed circuits'.
LEMMA CountWithout ==
  ASSUME NEW d, IsDeque(d), NEW gone \in SUBSET DOMAIN d, NEW p
  PROVE  LET e == Without(d, gone) IN
         CoverCount(e, DOMAIN e, p)
           = CoverCount(d, DOMAIN d, p) - CoverCount(d, gone, p)
<1> DEFINE e == Without(d, gone)
           In(S) == {i \in S : p \in d[i].covering}
<1>1. IsFiniteSet(In(DOMAIN d))
  BY FS_Subset DEF IsDeque
<1>2. DOMAIN e = DOMAIN d \ gone /\ \A i \in DOMAIN e : e[i] = d[i]
  <2>1. DOMAIN e = DOMAIN d \ gone
    BY WithoutIsDeque
  <2>2. \A i \in DOMAIN d \ gone : e[i] = d[i]
    BY WithoutIsDeque
  <2> QED BY <2>1, <2>2
<1>3. {i \in DOMAIN e : p \in e[i].covering} = In(DOMAIN d) \ In(gone)
  BY <1>2
<1>4. In(DOMAIN d) \cap In(gone) = In(gone)
  OBVIOUS
<1>5. Cardinality(In(DOMAIN d) \ In(gone))
        = Cardinality(In(DOMAIN d)) - Cardinality(In(gone))
  BY <1>1, <1>4, FS_Difference
<1> QED BY <1>3, <1>5 DEF CoverCount

\* The count after an appendleft is one more for the ports the circuit covers.
LEMMA CountAppend ==
  ASSUME NEW d, IsDeque(d), NEW circuit \in Circuit, NEW p
  PROVE  LET e == appendleft(d, circuit) IN
         CoverCount(e, DOMAIN e, p)
           = IF p \in circuit.covering THEN CoverCount(d, DOMAIN d, p) + 1
                                       ELSE CoverCount(d, DOMAIN d, p)
<1> DEFINE e == appendleft(d, circuit)
           n == NextLeft(d)
           In == {i \in DOMAIN d : p \in d[i].covering}
           After == {i \in DOMAIN e : p \in e[i].covering}
<1>1. /\ DOMAIN e = DOMAIN d \cup {n}
      /\ \A i \in DOMAIN d : e[i] = d[i]
      /\ e[n] = circuit
  BY AppendIsDeque
<1>2. n \notin DOMAIN d
  BY NextLeftIsFree
<1>3. IsFiniteSet(In)
  BY FS_Subset DEF IsDeque
<1>4. CASE p \in circuit.covering
  <2>1. After = In \cup {n} /\ n \notin In
    BY <1>1, <1>2, <1>4
  <2>2. Cardinality(After) = Cardinality(In) + 1
    BY <2>1, <1>3, FS_AddElement
  <2> QED BY <2>2, <1>4 DEF CoverCount
<1>5. CASE p \notin circuit.covering
  <2>1. After = In
    BY <1>1, <1>2, <1>5
  <2> QED BY <2>1, <1>5 DEF CoverCount
<1> QED BY <1>4, <1>5
-----------------------------------------------------------------------------
(* A client's books: the counts k for its clean circuits d, with needs n.  *)

Counts == [Port -> Nat \cup {None}]

Books(n, k, d) ==
  \A p \in Port :
    IF n[p] = None
    THEN k[p] = None /\ \A i \in DOMAIN d : p \notin d[i].covering
    ELSE k[p] = CoverCount(d, DOMAIN d, p)

\* The counts once the circuits at positions gone are uncovered.
Less(k, d, gone) ==
  [p \in Port |-> IF k[p] = None THEN None ELSE k[p] - CoverCount(d, gone, p)]

\* In exact books a count is absent just where the need is.
LEMMA BooksCountNeeds ==
  ASSUME NEW n, NEW k, NEW d, IsDeque(d), Books(n, k, d), NEW p \in Port
  PROVE  (k[p] = None <=> n[p] = None) /\ k[p] \in Nat \cup {None}
<1>1. CoverCount(d, DOMAIN d, p) \in Nat
  BY CoverCountType
<1> QED BY <1>1, SetAssumption DEF Books

\* Taking circuits out of the deque and off the books keeps the books exact.
LEMMA BooksWithout ==
  ASSUME NEW n, NEW k \in Counts, NEW d, IsDeque(d), Books(n, k, d),
         NEW gone \in SUBSET DOMAIN d
  PROVE  /\ Less(k, d, gone) \in Counts
         /\ Books(n, Less(k, d, gone), Without(d, gone))
<1> DEFINE e == Without(d, gone)
           l == Less(k, d, gone)
<1>1. ASSUME NEW p \in Port
      PROVE  /\ l[p] \in Nat \cup {None}
             /\ IF n[p] = None
                THEN l[p] = None /\ \A i \in DOMAIN e : p \notin e[i].covering
                ELSE l[p] = CoverCount(e, DOMAIN e, p)
  <2>1. l[p] = IF k[p] = None THEN None ELSE k[p] - CoverCount(d, gone, p)
    BY DEF Less
  <2>2. k[p] = None <=> n[p] = None
    BY BooksCountNeeds
  <2>3. CASE n[p] = None
    <3>1. \A i \in DOMAIN d : p \notin d[i].covering
      BY <2>3 DEF Books
    <3>2. DOMAIN e = DOMAIN d \ gone /\ \A i \in DOMAIN e : e[i] = d[i]
      <4>1. DOMAIN e = DOMAIN d \ gone
        BY WithoutIsDeque
      <4>2. \A i \in DOMAIN d \ gone : e[i] = d[i]
        BY WithoutIsDeque
      <4> QED BY <4>1, <4>2
    <3>3. \A i \in DOMAIN e : p \notin e[i].covering
      BY <3>1, <3>2
    <3> QED BY <2>1, <2>2, <2>3, <3>3
  <2>4. CASE n[p] # None
    <3>1. CoverCount(e, DOMAIN e, p)
            = CoverCount(d, DOMAIN d, p) - CoverCount(d, gone, p)
      BY CountWithout
    <3>2. k[p] = CoverCount(d, DOMAIN d, p)
      BY <2>4 DEF Books
    <3>3. IsDeque(e)
      BY WithoutIsDeque
    <3>4. CoverCount(e, DOMAIN e, p) \in Nat
      BY <3>3, CoverCountType
    <3> QED BY <2>1, <2>2, <2>4, <3>1, <3>2, <3>4
  <2> QED BY <2>3, <2>4
<1>2. l \in Counts
  BY <1>1 DEF Less, Counts
<1> HIDE DEF e, l
<1> QED BY <1>1, <1>2 DEF Books, e, l

\* A circuit that covers only needed ports may be appended, counted up.
LEMMA BooksAppend ==
  ASSUME NEW n, NEW k \in Counts, NEW d, IsDeque(d), Books(n, k, d),
         NEW circuit \in Circuit, \A p \in circuit.covering : n[p] # None,
         NEW l, l = [p \in Port |-> IF p \in circuit.covering THEN k[p] + 1
                                    ELSE k[p]]
  PROVE  l \in Counts /\ Books(n, l, appendleft(d, circuit))
<1> DEFINE e == appendleft(d, circuit)
<1>0. DOMAIN e = DOMAIN d \cup {NextLeft(d)}
      /\ (\A i \in DOMAIN d : e[i] = d[i]) /\ e[NextLeft(d)] = circuit
  BY AppendIsDeque
<1>1. ASSUME NEW p \in Port
      PROVE  /\ l[p] \in Nat \cup {None}
             /\ IF n[p] = None
                THEN l[p] = None /\ \A i \in DOMAIN e : p \notin e[i].covering
                ELSE l[p] = CoverCount(e, DOMAIN e, p)
  <2>1. l[p] = IF p \in circuit.covering THEN k[p] + 1 ELSE k[p]
    OBVIOUS
  <2>2. CASE n[p] = None
    <3>1. p \notin circuit.covering
      BY <2>2
    <3>2. \A i \in DOMAIN e : p \notin e[i].covering
      BY <1>0, <2>2, <3>1 DEF Books
    <3> QED BY <2>1, <2>2, <3>1, <3>2 DEF Books
  <2>3. CASE n[p] # None
    <3>1. CoverCount(e, DOMAIN e, p)
            = IF p \in circuit.covering THEN CoverCount(d, DOMAIN d, p) + 1
                                        ELSE CoverCount(d, DOMAIN d, p)
      BY CountAppend
    <3>2. k[p] = CoverCount(d, DOMAIN d, p) /\ k[p] \in Nat
      BY <2>3, CoverCountType DEF Books
    <3> QED BY <2>1, <2>3, <3>1, <3>2
  <2> QED BY <2>2, <2>3
<1>2. l \in Counts
  BY <1>1 DEF Counts
<1> HIDE DEF e
<1> QED BY <1>1, <1>2 DEF Books, e

\* A circuit that leaves exact books covers only ports that have a count.
LEMMA BooksNeverRaise ==
  ASSUME NEW n, NEW k, NEW d, IsDeque(d), Books(n, k, d),
         NEW gone \in SUBSET DOMAIN d
  PROVE  ~ \E i \in gone : \E p \in d[i].covering : k[p] = None
<1> SUFFICES ASSUME NEW i \in gone, NEW p \in d[i].covering, k[p] = None
             PROVE  FALSE
  OBVIOUS
<1>1. p \in Port
  BY DEF IsDeque, Circuit
<1>2. n[p] = None
  BY <1>1, BooksCountNeeds
<1> QED BY <1>1, <1>2 DEF Books
-----------------------------------------------------------------------------
(* The inductive invariant: the types of the frame, and the books.         *)

\* While a client is updated its loop looks at needs that exist; while streams
\* are assigned there is one.
HandlerReady ==
  /\ pc = "cover" => /\ \A p \in todo : needs[p] # None
                     /\ port # None => needs[port] # None
  /\ pc = "assign" => stream # None

FrameOK ==
  /\ cur_time \in Nat /\ valid_after \in Nat /\ gap \in BOOLEAN
  /\ up \in SUBSET Relay /\ stable \in SUBSET Relay
  /\ policy \in [Relay -> Policy]
  /\ hibernating \in SUBSET Relay
  /\ needs \in [Port -> Need \cup {None}]
  /\ pc \in Phase \ {"error"}
  /\ client \in Client
  /\ todo \in SUBSET Port /\ port \in Port \cup {None}
  /\ stream \in Stream \cup {None}
  /\ served \in [Client -> Nat \cup {None}]
  /\ streams \in Nat
  /\ HandlerReady

PoolOK ==
  /\ DOMAIN clean = Client /\ DOMAIN dirty = Client
  /\ covered \in [Client -> Counts]
  /\ \A c \in Client : /\ IsDeque(clean[c]) /\ IsDeque(dirty[c])
                       /\ Books(needs, covered[c], clean[c])

PoolInv == FrameOK /\ PoolOK

\* The inductive invariant gives both properties.
LEMMA PoolInvSuffices == PoolInv => TypeOK /\ CoverCountsExact
BY DEF PoolInv, FrameOK, PoolOK, TypeOK, CoverCountsExact, Books, Counts

\* The initial deques are empty, so every count is zero.
LEMMA PoolInit == Init => PoolInv
<1> SUFFICES ASSUME Init PROVE PoolInv
  OBVIOUS
<1>1. FrameOK
  <2>1. up \in SUBSET Relay /\ stable \in SUBSET Relay /\ policy \in [Relay -> Policy]
        /\ hibernating \in SUBSET Relay
    BY SetAssumption DEF Init
  <2>2. needs \in [Port -> Need \cup {None}]
    <3>1. [expires |-> 0 + NeedLifetime, stable |-> FALSE] \in Need
      BY OptionAssumption DEF Need
    <3> QED BY <3>1 DEF Init, SeedNeeds
  <2>3. client \in Client
    BY OptionAssumption DEF Init, Client
  <2> QED BY <2>1, <2>2, <2>3 DEF Init, FrameOK, Phase, HandlerReady
<1>2. IsDeque(EmptyDeque) /\ DOMAIN EmptyDeque = {}
  BY FS_EmptySet DEF IsDeque, EmptyDeque
<1>3. ASSUME NEW p
      PROVE  CoverCount(EmptyDeque, DOMAIN EmptyDeque, p) = 0
  <2>1. {i \in DOMAIN EmptyDeque : p \in EmptyDeque[i].covering} = {}
    BY <1>2
  <2> QED BY <2>1, FS_EmptySet DEF CoverCount
<1>4. \A c \in Client : covered[c] \in Counts /\ Books(needs, covered[c], EmptyDeque)
  <2> SUFFICES ASSUME NEW c \in Client
               PROVE  covered[c] \in Counts /\ Books(needs, covered[c], EmptyDeque)
    OBVIOUS
  <2>1. covered[c] = [p \in Port |-> IF p = SeedPort THEN 0 ELSE None]
    BY DEF Init
  <2>2. ASSUME NEW p \in Port
        PROVE  needs[p] = None <=> p # SeedPort
    <3>1. [expires |-> 0 + NeedLifetime, stable |-> FALSE] \in Need
      BY OptionAssumption DEF Need
    <3> QED BY <3>1, SetAssumption DEF Init, SeedNeeds
  <2> QED BY <1>2, <1>3, <2>1, <2>2 DEF Counts, Books
<1>5. PoolOK
  BY <1>2, <1>4 DEF Init, PoolOK, Counts
<1> QED BY <1>1, <1>5 DEF PoolInv

\* What the removals of client c's clean circuits at positions gone do.
LEMMA ClientWithout ==
  ASSUME PoolInv, NEW c \in Client, NEW gone \in SUBSET DOMAIN clean[c]
  PROVE  /\ ~UncoverFails(c, gone)
         /\ IsDeque(Without(clean[c], gone))
         /\ Uncovered(c, gone) \in Counts
         /\ Books(needs, Uncovered(c, gone), Without(clean[c], gone))
<1>1. /\ IsDeque(clean[c]) /\ covered[c] \in Counts
      /\ Books(needs, covered[c], clean[c])
  BY DEF PoolInv, PoolOK
<1>2. Uncovered(c, gone) = Less(covered[c], clean[c], gone)
  BY DEF Uncovered, Less
<1>3. ~UncoverFails(c, gone)
  BY <1>1, BooksNeverRaise DEF UncoverFails
<1>4. /\ Less(covered[c], clean[c], gone) \in Counts
      /\ Books(needs, Less(covered[c], clean[c], gone), Without(clean[c], gone))
  BY <1>1, BooksWithout
<1> QED BY <1>1, <1>2, <1>3, <1>4, WithoutIsDeque

\* A new consensus, or a gap, kills circuits of every client.
LEMMA PeriodKeepsPool ==
  ASSUME PoolInv, NEW good, period_client_update(good), needs' = needs
  PROVE  PoolOK' /\ pc' = "minute"
<1>1. \A c \in Client : Broken(clean[c], good) \in SUBSET DOMAIN clean[c]
  BY DEF Broken
<1>2. \A c \in Client : IsDeque(Without(dirty[c], Broken(dirty[c], good)))
  BY WithoutIsDeque DEF PoolInv, PoolOK
<1>3. pc' = "minute"
  BY <1>1, ClientWithout DEF period_client_update
<1>4. /\ DOMAIN clean' = Client /\ DOMAIN dirty' = Client
      /\ covered' \in [Client -> Counts]
  BY <1>1, ClientWithout DEF period_client_update
<1>5. ASSUME NEW c \in Client
      PROVE  /\ IsDeque(clean'[c]) /\ IsDeque(dirty'[c])
             /\ Books(needs', covered'[c], clean'[c])
  BY <1>1, <1>2, ClientWithout DEF period_client_update
<1> QED BY <1>3, <1>4, <1>5 DEF PoolOK

\* The same for the steps that begin a period.
LEMMA PeriodStep ==
  ASSUME PoolInv, NextConsensus \/ GapInConsensuses
  PROVE  PoolInv'
<1>1. PoolOK' /\ pc' = "minute"
  BY PeriodKeepsPool DEF NextConsensus, GapInConsensuses
<1>2. CASE NextConsensus
  <2>1. PICK ns \in NetworkState :
          /\ up' = ns.up /\ stable' = ns.stable
          /\ policy' = [r \in Relay |-> IF r \in ns.up THEN ns.policy[r]
                                        ELSE policy[r]]
    BY <1>2 DEF NextConsensus
  <2>2. ns \in [up : SUBSET Relay, stable : SUBSET Relay,
                policy : [Relay -> Policy]]
    BY SetAssumption
  <2>3. policy' \in [Relay -> Policy]
    BY <2>1, <2>2 DEF PoolInv, FrameOK
  <2>4. hibernating' \in SUBSET Relay
    BY <1>2, SetAssumption DEF NextConsensus
  <2>5. FrameOK'
    BY <1>1, <1>2, <2>1, <2>2, <2>3, <2>4
       DEF PoolInv, FrameOK, NextConsensus, loop, trace, HandlerReady, Phase
  <2> QED BY <1>1, <2>5 DEF PoolInv
<1>3. CASE GapInConsensuses
  <2>1. FrameOK'
    BY <1>1, <1>3
       DEF PoolInv, FrameOK, GapInConsensuses, loop, trace, HandlerReady, Phase
  <2> QED BY <1>1, <2>1 DEF PoolInv
<1> QED BY <1>2, <1>3

\* Expired needs leave every client's books together with their coverage.
LEMMA TimedStep ==
  ASSUME PoolInv, timed_updates
  PROVE  PoolInv'
<1>1. hibernating' \in SUBSET Relay
  BY SetAssumption DEF timed_updates, PoolInv, FrameOK
<1>2. needs' \in [Port -> Need \cup {None}]
  BY DEF timed_updates, PoolInv, FrameOK
<1>3. FrameOK'
  BY <1>1, <1>2
     DEF timed_updates, PoolInv, FrameOK, loop, trace, HandlerReady, Phase
<1>4. DOMAIN clean' = Client /\ DOMAIN dirty' = Client
      /\ covered' \in [Client -> Counts]
  BY DEF timed_updates, PoolInv, PoolOK, Counts
<1>5. ASSUME NEW c \in Client
      PROVE  /\ IsDeque(clean'[c]) /\ IsDeque(dirty'[c])
             /\ Books(needs', covered'[c], clean'[c])
  <2> DEFINE d == clean[c]
             e == Discard(c, Expired)
  <2>1. clean'[c] = e /\ dirty'[c] = dirty[c]
    BY DEF timed_updates
  <2>2. IsDeque(d) /\ IsDeque(dirty[c]) /\ Books(needs, covered[c], d)
    BY DEF PoolInv, PoolOK
  <2>3. DOMAIN e = DOMAIN d
        /\ \A i \in DOMAIN d : e[i] = [d[i] EXCEPT !.covering = @ \ Expired]
    BY DEF Discard
  <2>4. \A i \in DOMAIN d : /\ e[i] \in Circuit
                            /\ e[i].covering = d[i].covering \ Expired
    <3> SUFFICES ASSUME NEW i \in DOMAIN d
                 PROVE  e[i] \in Circuit /\ e[i].covering = d[i].covering \ Expired
      OBVIOUS
    <3>1. d[i] \in Circuit /\ e[i] = [d[i] EXCEPT !.covering = @ \ Expired]
      BY <2>2, <2>3 DEF IsDeque
    <3> QED BY <3>1 DEF Circuit
  <2>5. IsDeque(e)
    BY <2>2, <2>3, <2>4 DEF IsDeque, Discard
  <2>6. ASSUME NEW p \in Port
        PROVE  IF needs'[p] = None
               THEN covered'[c][p] = None /\ \A i \in DOMAIN e : p \notin e[i].covering
               ELSE covered'[c][p] = CoverCount(e, DOMAIN e, p)
    <3>1. /\ needs'[p] = IF p \in Expired THEN None ELSE needs[p]
          /\ covered'[c][p] = IF p \in Expired THEN None ELSE covered[c][p]
      BY DEF timed_updates
    <3>2. CASE p \in Expired
      BY <3>1, <3>2, <2>3, <2>4
    <3>3. CASE p \notin Expired
      <4>1. {i \in DOMAIN e : p \in e[i].covering}
              = {i \in DOMAIN d : p \in d[i].covering}
        BY <3>3, <2>3, <2>4
      <4>2. CoverCount(e, DOMAIN e, p) = CoverCount(d, DOMAIN d, p)
        BY <4>1 DEF CoverCount
      <4> QED BY <3>1, <3>3, <4>2, <2>2, <2>3, <2>4 DEF Books
    <3> QED BY <3>2, <3>3
  <2>7. Books(needs', covered'[c], e)
    BY <2>6 DEF Books
  <2> QED BY <2>1, <2>2, <2>5, <2>7
<1>6. PoolOK'
  BY <1>4, <1>5 DEF PoolOK
<1> QED BY <1>3, <1>6 DEF PoolInv

\* The circuits a client loses for age or hibernation leave its books.
LEMMA KillStep ==
  ASSUME PoolInv, KillCircuits
  PROVE  PoolInv'
<1>1. client \in Client /\ GoneClean(client) \in SUBSET DOMAIN clean[client]
  BY DEF PoolInv, FrameOK, GoneClean, OldClean, Broken
<1>2. pc' = "cover"
  BY <1>1, ClientWithout DEF KillCircuits
<1>3. FrameOK'
  BY <1>2, SetAssumption
     DEF KillCircuits, PoolInv, FrameOK, network, trace, HandlerReady, Phase
<1>4. \A c \in Client : IsDeque(Without(dirty[c], GoneDirty(c)))
  BY WithoutIsDeque DEF PoolInv, PoolOK
<1>5. PoolOK'
  BY <1>1, <1>4, ClientWithout DEF KillCircuits, PoolInv, PoolOK
<1> QED BY <1>3, <1>5 DEF PoolInv

\* The steps that leave the pool alone.
LEMMA QuietStep ==
  ASSUME PoolInv,
         \/ \E p \in Port : LookAtNeed(p)
         \/ ClientUpdated \/ AssignToDirty \/ EndOfMinute \/ UNCHANGED vars
  PROVE  PoolInv'
<1>1. UNCHANGED <<pool, needs>>
  BY DEF LookAtNeed, ClientUpdated, AssignToDirty, EndOfMinute, vars
<1>2. PoolOK'
  BY <1>1 DEF PoolInv, PoolOK, pool
<1>3. ASSUME NEW p \in Port, LookAtNeed(p)
      PROVE  FrameOK'
  BY <1>3 DEF LookAtNeed, PoolInv, FrameOK, network, pool, trace, HandlerReady
<1>4. CASE ClientUpdated
  BY <1>4, <1>2, OptionAssumption
     DEF ClientUpdated, NextClient, PoolInv, FrameOK, network, pool, trace,
         HandlerReady, Phase, Client
<1>5. CASE AssignToDirty
  <2>1. client \in Client /\ IsDeque(dirty[client])
    BY DEF PoolInv, FrameOK, PoolOK
  <2>2. Leftmost(UsableDirty) \in Nat
    <3>1. UsableDirty \subseteq DOMAIN dirty[client]
      BY DEF UsableDirty
    <3>2. IsFiniteSet(UsableDirty) /\ UsableDirty \in SUBSET Nat
      BY <2>1, <3>1, FS_Subset DEF IsDeque
    <3> QED BY <1>5, <3>2, LeftmostIsGreatest DEF AssignToDirty
  <2>3. served' \in [Client -> Nat \cup {None}]
    BY <1>5, <2>2 DEF AssignToDirty, PoolInv, FrameOK
  <2>4. client' \in Client /\ pc' \in {"assign", "stream"}
    BY <1>5, <2>1, OptionAssumption DEF AssignToDirty, NextClient, Client
  <2>5. FrameOK'
    BY <1>5, <2>3, <2>4
       DEF AssignToDirty, PoolInv, FrameOK, network, pool, HandlerReady, Phase
  <2> QED BY <1>2, <2>5 DEF PoolInv
<1>6. CASE EndOfMinute
  BY <1>6, <1>2, OptionAssumption
     DEF EndOfMinute, PoolInv, FrameOK, network, pool, loop, trace, HandlerReady,
         Phase
<1>7. CASE UNCHANGED vars
  BY <1>7, <1>2 DEF vars, network, pool, loop, trace, PoolInv, FrameOK, HandlerReady
<1> QED BY <1>2, <1>3, <1>4, <1>5, <1>6, <1>7 DEF PoolInv

\* What create_circuit() returns is a clean circuit that covers nothing yet.
LEMMA NewCircuitType ==
  ASSUME NEW t \in Nat, NEW wants \in BOOLEAN, NEW exits,
         NEW circuit \in NewCircuits(t, wants, exits)
  PROVE  /\ circuit \in Circuit
         /\ circuit.time = t /\ circuit.dirty_time = None
         /\ circuit.covering = {}
         /\ circuit.stable = wants
         /\ RelaysOf(circuit) \subseteq up \ hibernating
         /\ ExitOf(circuit) \in exits
<1>1. PICK pa \in Path :
        /\ pa[3] \in exits
        /\ {pa[1], pa[2], pa[3]} \subseteq up \ hibernating
        /\ circuit = [time |-> t, stable |-> wants, dirty_time |-> None,
                      path |-> pa, covering |-> {}]
  BY DEF NewCircuits, LivePath
<1>2. RelaysOf(circuit) = {pa[1], pa[2], pa[3]}
  BY <1>1 DEF RelaysOf
<1> QED BY <1>1, <1>2 DEF Circuit, ExitOf

\* A circuit made for a need is counted for every port it covers.
LEMMA CoverStep ==
  ASSUME PoolInv, CoverNeed
  PROVE  PoolInv'
<1>0. client \in Client /\ port \in Port /\ needs[port] # None
  BY DEF PoolInv, FrameOK, HandlerReady, CoverNeed, NeedsCircuit
<1>1. needs[port].stable \in BOOLEAN /\ cur_time \in Nat
  BY <1>0 DEF PoolInv, FrameOK, Need
<1>2. PICK circuit \in NewCircuits(cur_time, needs[port].stable,
                                   {r \in Relay : port \in policy[r].ports}) :
        LET ports == CoveredBy(circuit) IN
        /\ clean' = [clean EXCEPT ![client] =
                       appendleft(@, [circuit EXCEPT !.covering = ports])]
        /\ covered' = [covered EXCEPT ![client] =
                         [p \in Port |-> IF p \in ports THEN @[p] + 1 ELSE @[p]]]
  BY DEF CoverNeed
<1> DEFINE ports == CoveredBy(circuit)
           new == [circuit EXCEPT !.covering = ports]
           l == [p \in Port |-> IF p \in ports THEN covered[client][p] + 1
                                ELSE covered[client][p]]
<1>3. ports \in SUBSET Port /\ \A p \in ports : needs[p] # None
  BY <1>0 DEF CoveredBy
<1>4. new \in Circuit /\ new.covering = ports
  BY <1>1, <1>3, NewCircuitType DEF Circuit
<1>5. /\ IsDeque(clean[client]) /\ covered[client] \in Counts
      /\ Books(needs, covered[client], clean[client])
  BY <1>0 DEF PoolInv, PoolOK
<1>6. l \in Counts /\ Books(needs, l, appendleft(clean[client], new))
      /\ IsDeque(appendleft(clean[client], new))
  <2>1. l = [p \in Port |-> IF p \in new.covering THEN covered[client][p] + 1
                            ELSE covered[client][p]]
    BY <1>4
  <2>2. \A p \in new.covering : needs[p] # None
    BY <1>3, <1>4
  <2> HIDE DEF new, l
  <2>3. l \in Counts /\ Books(needs, l, appendleft(clean[client], new))
    BY <2>1, <2>2, <1>4, <1>5, BooksAppend
  <2> QED BY <2>3, <1>4, <1>5, AppendIsDeque
<1>7. clean' = [clean EXCEPT ![client] = appendleft(clean[client], new)]
      /\ covered' = [covered EXCEPT ![client] = l]
  BY <1>2
<1>8. FrameOK'
  BY DEF CoverNeed, PoolInv, FrameOK, network, loop, trace, HandlerReady
<1>9. PoolOK'
  <2> HIDE DEF new, l
  <2> QED BY <1>0, <1>6, <1>7 DEF CoverNeed, PoolInv, PoolOK
<1> QED BY <1>8, <1>9 DEF PoolInv

\* A dirty deque takes one more circuit.
LEMMA MakeDirtyStep ==
  ASSUME PoolInv, pc = "assign", NEW circuit \in Circuit,
         MakeDirty(circuit)
  PROVE  /\ DOMAIN dirty' = Client /\ \A c \in Client : IsDeque(dirty'[c])
         /\ served' \in [Client -> Nat \cup {None}]
<1>1. client \in Client /\ stream.time \in Nat
  BY DEF PoolInv, FrameOK, HandlerReady, Stream
<1>2. [circuit EXCEPT !.dirty_time = stream.time] \in Circuit
  BY <1>1 DEF Circuit
<1>3. IsDeque(dirty[client])
  BY <1>1 DEF PoolInv, PoolOK
<1>4. IsDeque(appendleft(dirty[client], [circuit EXCEPT !.dirty_time = stream.time]))
      /\ NextLeft(dirty[client]) \in Nat
  BY <1>2, <1>3, AppendIsDeque, NextLeftIsFree
<1> QED BY <1>1, <1>4 DEF MakeDirty, PoolInv, PoolOK, FrameOK

\* A clean circuit given to a stream leaves the books, a new one never enters.
LEMMA AssignStep ==
  ASSUME PoolInv, AssignToClean \/ AssignToNew
  PROVE  PoolInv'
<1>1. client \in Client /\ stream # None
      /\ stream \in [dest : Destination, time : Nat]
  BY DEF PoolInv, FrameOK, HandlerReady, AssignToClean, AssignToNew, Stream
<1>2. CASE AssignToClean
  <2> DEFINE i == Leftmost(UsableClean)
  <2>1. i \in DOMAIN clean[client]
    <3>1. UsableClean \subseteq DOMAIN clean[client] /\ IsDeque(clean[client])
      BY <1>1 DEF UsableClean, PoolInv, PoolOK
    <3>2. IsFiniteSet(UsableClean) /\ UsableClean \in SUBSET Nat
      BY <3>1, FS_Subset DEF IsDeque
    <3> QED BY <1>2, <3>1, <3>2, LeftmostIsGreatest DEF AssignToClean
  <2>2. clean[client][i] \in Circuit
    BY <1>1, <2>1 DEF PoolInv, PoolOK, IsDeque
  <2>3. /\ MakeDirty(clean[client][i])
        /\ clean' = [clean EXCEPT ![client] = Without(@, {i})]
        /\ covered' = [covered EXCEPT ![client] = Uncovered(client, {i})]
        /\ IF UncoverFails(client, {i})
           THEN pc' = "error" /\ UNCHANGED client
           ELSE NextClient("assign", "stream")
    BY <1>2 DEF AssignToClean
  <2> HIDE DEF i
  <2>4. /\ ~UncoverFails(client, {i})
        /\ IsDeque(Without(clean[client], {i}))
        /\ Uncovered(client, {i}) \in Counts
        /\ Books(needs, Uncovered(client, {i}), Without(clean[client], {i}))
    BY <1>1, <2>1, ClientWithout
  <2>5. /\ DOMAIN dirty' = Client /\ \A c \in Client : IsDeque(dirty'[c])
        /\ served' \in [Client -> Nat \cup {None}]
    BY <1>2, <2>2, <2>3, MakeDirtyStep DEF AssignToClean
  <2>6. client' \in Client /\ pc' \in {"assign", "stream"}
    BY <1>1, <2>3, <2>4, OptionAssumption DEF NextClient, Client
  <2>7. FrameOK'
    BY <1>1, <1>2, <2>5, <2>6
       DEF AssignToClean, PoolInv, FrameOK, network, HandlerReady, Phase
  <2>8. PoolOK'
    <3>1. DOMAIN clean' = Client /\ covered' \in [Client -> Counts]
          /\ needs' = needs
      BY <1>2, <2>3, <2>4 DEF AssignToClean, PoolInv, PoolOK
    <3>2. ASSUME NEW c \in Client
          PROVE  IsDeque(clean'[c]) /\ Books(needs, covered'[c], clean'[c])
      <4>1. CASE c = client
        BY <4>1, <1>1, <2>3, <2>4 DEF PoolInv, PoolOK
      <4>2. CASE c # client
        BY <4>2, <2>3 DEF PoolInv, PoolOK
      <4> QED BY <4>1, <4>2
    <3> QED BY <3>1, <3>2, <2>5 DEF PoolOK
  <2> QED BY <2>7, <2>8 DEF PoolInv
<1>3. CASE AssignToNew
  <2>1. PICK circuit \in NewCircuits(stream.time, PortOf[stream.dest] \in LongLived,
                           {r \in Relay : stream.dest \in policy[r].accepts}) :
          MakeDirty(circuit)
    BY <1>3 DEF AssignToNew
  <2>2. circuit \in Circuit
    <3> DEFINE wants == PortOf[stream.dest] \in LongLived
    <3>1. wants \in BOOLEAN /\ stream.time \in Nat
      BY <1>1
    <3> HIDE DEF wants
    <3>2. circuit \in NewCircuits(stream.time, wants,
                         {r \in Relay : stream.dest \in policy[r].accepts})
      BY <2>1 DEF wants
    <3> QED BY <3>1, <3>2, NewCircuitType
  <2>3. /\ DOMAIN dirty' = Client /\ \A c \in Client : IsDeque(dirty'[c])
        /\ served' \in [Client -> Nat \cup {None}]
    BY <1>3, <2>1, <2>2, MakeDirtyStep DEF AssignToNew
  <2>4. client' \in Client /\ pc' \in {"assign", "stream"}
    BY <1>1, <1>3, OptionAssumption DEF AssignToNew, NextClient, Client
  <2>5. FrameOK'
    BY <1>1, <1>3, <2>3, <2>4
       DEF AssignToNew, PoolInv, FrameOK, network, HandlerReady, Phase
  <2>6. PoolOK'
    BY <1>3, <2>3 DEF AssignToNew, PoolInv, PoolOK
  <2> QED BY <2>5, <2>6 DEF PoolInv
<1> QED BY <1>2, <1>3

\* A new need starts with the number of clean circuits found to cover it.
LEMMA StreamStep ==
  ASSUME PoolInv, TakeStream
  PROVE  PoolInv'
<1>1. PICK dest \in Destination, t \in cur_time..(cur_time + TimeStep - 1) :
        /\ stream' = [dest |-> dest, time |-> t]
        /\ stream_update_port_needs(PortOf[dest], t)
  BY DEF TakeStream
<1> DEFINE p == PortOf[dest]
           need == [expires |-> t + NeedLifetime, stable |-> p \in LongLived]
<1>2. p \in Port /\ t \in Nat /\ need \in Need
  BY SetAssumption, OptionAssumption DEF PoolInv, FrameOK, Need
<1>3. needs' \in [Port -> Need \cup {None}]
  <2>1. CASE needs[p] # None
    <3>1. needs[p] \in Need
      BY <2>1, <1>2 DEF PoolInv, FrameOK
    <3>2. [needs[p] EXCEPT !.expires = t + NeedLifetime] \in Need
      BY <3>1, <1>2 DEF Need
    <3>3. \/ needs' = needs
          \/ needs' = [needs EXCEPT ![p] = [needs[p] EXCEPT !.expires = t + NeedLifetime]]
      BY <1>1, <2>1 DEF stream_update_port_needs
    <3> QED BY <3>2, <3>3, <1>2 DEF PoolInv, FrameOK
  <2>2. CASE needs[p] = None
    <3>1. needs' = [needs EXCEPT ![p] = need]
      BY <1>1, <2>2 DEF stream_update_port_needs
    <3> QED BY <3>1, <1>2 DEF PoolInv, FrameOK
  <2> QED BY <2>1, <2>2
<1>4. FrameOK'
  <2>1. stream' \in Stream
    BY <1>1, <1>2 DEF Stream
  <2>2. stream' # None
    BY <1>1, <2>1, SetAssumption DEF TakeStream
  <2> QED BY <1>3, <2>1, <2>2
     DEF TakeStream, PoolInv, FrameOK, network, loop, HandlerReady, Phase
<1>5. CASE needs[p] # None
  <2>1. UNCHANGED <<covered, clean, dirty>>
    BY <1>1, <1>5 DEF stream_update_port_needs, TakeStream
  <2>2. \A q \in Port : needs'[q] = None <=> needs[q] = None
    <3>1. \/ needs' = needs
          \/ needs' = [needs EXCEPT ![p] = [needs[p] EXCEPT !.expires = t + NeedLifetime]]
      BY <1>1, <1>5 DEF stream_update_port_needs
    <3>2. needs[p] \in Need
      BY <1>2, <1>5 DEF PoolInv, FrameOK
    <3>3. [needs[p] EXCEPT !.expires = t + NeedLifetime] \in Need
      BY <3>2, <1>2 DEF Need
    <3> QED BY <3>1, <3>3, <1>2, <1>5, SetAssumption DEF PoolInv, FrameOK
  <2>3. PoolOK'
    BY <2>1, <2>2 DEF PoolInv, PoolOK, Books
  <2> QED BY <1>4, <2>3 DEF PoolInv
<1>6. CASE needs[p] = None
  <2>1. /\ needs' = [needs EXCEPT ![p] = need]
        /\ covered' = [c \in Client |->
             [covered[c] EXCEPT ![p] = Cardinality(Found(c, p, need))]]
        /\ clean' = [c \in Client |-> [i \in DOMAIN clean[c] |->
             IF i \in Found(c, p, need)
             THEN [clean[c][i] EXCEPT !.covering = @ \cup {p}]
             ELSE clean[c][i]]]
        /\ dirty' = dirty
    BY <1>1, <1>6 DEF stream_update_port_needs, TakeStream
  <2>2. need # None /\ \A q \in Port : needs'[q] = IF q = p THEN need ELSE needs[q]
    BY <1>2, <2>1, SetAssumption DEF PoolInv, FrameOK
  <2> HIDE DEF need, p
  <2>3. ASSUME NEW c \in Client
        PROVE  /\ covered'[c] \in Counts
               /\ IsDeque(clean'[c]) /\ IsDeque(dirty'[c])
               /\ Books(needs', covered'[c], clean'[c])
    <3> DEFINE d == clean[c]
               e == clean'[c]
               found == Found(c, p, need)
    <3>1. IsDeque(d) /\ IsDeque(dirty[c]) /\ Books(needs, covered[c], d)
          /\ covered[c] \in Counts
      BY DEF PoolInv, PoolOK
    <3>2. found \in SUBSET DOMAIN d /\ IsFiniteSet(found)
      BY <3>1, FS_Subset DEF Found, IsDeque
    <3>3. Cardinality(found) \in Nat
      BY <3>2, FS_CardinalityType
    <3>4. \A q \in Port : covered'[c][q] = IF q = p THEN Cardinality(found)
                                           ELSE covered[c][q]
      BY <2>1, <3>1, <1>2 DEF Counts
    <3>5. covered'[c] \in Counts
      BY <2>1, <3>1, <3>3, <1>2 DEF Counts
    <3>6. e = [i \in DOMAIN d |-> IF i \in found
                 THEN [d[i] EXCEPT !.covering = @ \cup {p}] ELSE d[i]]
      BY <2>1
    <3>7. \A i \in DOMAIN d :
            /\ e[i] \in Circuit
            /\ e[i].covering = IF i \in found THEN d[i].covering \cup {p}
                               ELSE d[i].covering
      BY <3>1, <3>6, <1>2 DEF IsDeque, Circuit
    <3>8. IsDeque(e)
      BY <3>1, <3>6, <3>7 DEF IsDeque
    <3>9. ASSUME NEW q \in Port
          PROVE  IF needs'[q] = None
                 THEN covered'[c][q] = None
                      /\ \A i \in DOMAIN e : q \notin e[i].covering
                 ELSE covered'[c][q] = CoverCount(e, DOMAIN e, q)
      <4>0. DOMAIN e = DOMAIN d
        BY <3>6
      <4> HIDE DEF found, d, e
      <4>1. CASE q = p
        <5>1. \A i \in DOMAIN d : p \notin d[i].covering
          BY <3>1, <1>2, <1>6 DEF Books
        <5>2. {i \in DOMAIN e : q \in e[i].covering} = found
          BY <5>1, <4>0, <4>1, <3>2, <3>7
        <5>3. covered'[c][q] = CoverCount(e, DOMAIN e, q)
          BY <5>2, <4>1, <3>4 DEF CoverCount
        <5>4. needs'[q] # None
          BY <2>2, <4>1
        <5> QED BY <5>3, <5>4
      <4>2. CASE q # p
        <5>1. \A i \in DOMAIN d : q \in e[i].covering <=> q \in d[i].covering
          BY <4>2, <3>7
        <5>2. {i \in DOMAIN e : q \in e[i].covering}
                = {i \in DOMAIN d : q \in d[i].covering}
          BY <5>1, <4>0
        <5>3. CoverCount(e, DOMAIN e, q) = CoverCount(d, DOMAIN d, q)
          BY <5>2 DEF CoverCount
        <5> QED BY <5>1, <5>3, <4>0, <4>2, <3>1, <3>4, <2>2 DEF Books
      <4> QED BY <4>1, <4>2
    <3>10. Books(needs', covered'[c], e)
      BY <3>9 DEF Books
    <3> QED BY <3>1, <3>5, <3>8, <3>10, <2>1
  <2>4. PoolOK'
    <3>1. DOMAIN clean' = Client /\ DOMAIN covered' = Client /\ DOMAIN dirty' = Client
      BY <2>1 DEF PoolInv, PoolOK
    <3>2. covered' = [c \in Client |-> covered'[c]]
      BY <2>1
    <3>3. covered' \in [Client -> Counts]
      BY <2>3, <3>2
    <3> QED BY <2>3, <3>1, <3>3 DEF PoolOK
  <2> QED BY <1>4, <2>4 DEF PoolInv
<1> QED BY <1>5, <1>6

\* The invariant is inductive.
LEMMA PoolInductive == Spec => []PoolInv
<1>1. PoolInv /\ [Next]_vars => PoolInv'
  BY PeriodStep, TimedStep, KillStep, QuietStep, CoverStep, StreamStep,
     AssignStep DEF Next, Stopped
<1> QED BY <1>1, PoolInit, PTL DEF Spec

\* Type correctness of the circuit pool, through all kills, covers and streams.
THEOREM PoolTypeCorrect == Spec => []TypeOK
BY PoolInductive, PoolInvSuffices, PTL

\* The books of every client stay exact, so uncover_circuit_ports() never
\* raises and no cover count falls below zero: for any number of clients and
\* ports, and any sequence of consensuses, expiries and streams.
THEOREM CountsAlwaysExact == Spec => []CoverCountsExact
BY PoolInductive, PoolInvSuffices, PTL
-----------------------------------------------------------------------------
(* Order and age.                                                          *)

OrderedClean(d) ==
  \A i \in DOMAIN d :
    /\ d[i].dirty_time = None
    /\ \A j \in DOMAIN d : j < i => d[j].time <= d[i].time

OrderedDirty(d) ==
  \A i \in DOMAIN d :
    /\ d[i].dirty_time # None
    /\ d[i].time <= d[i].dirty_time
    /\ \A j \in DOMAIN d : j < i => d[j].dirty_time <= d[i].dirty_time

\* In order, and no circuit later than t.
TidyClean(d, t) == OrderedClean(d) /\ \A i \in DOMAIN d : d[i].time <= t
TidyDirty(d, t) == OrderedDirty(d) /\ \A i \in DOMAIN d : d[i].dirty_time <= t

\* Clean circuits are no younger than the minute, dirty ones got dirty no later
\* than the last stream; and a stream at hand is of this minute.
OrderInv ==
  /\ \A c \in Client : /\ TidyClean(clean[c], cur_time)
                       /\ TidyDirty(dirty[c], LastStreamTime)
  /\ LastStreamTime < cur_time + TimeStep
  /\ pc = "assign" => stream.time >= cur_time

\* Removing circuits keeps a deque in order.
LEMMA WithoutIsOrdered ==
  ASSUME NEW d, NEW gone, IsDeque(d)
  PROVE  /\ OrderedClean(d) => OrderedClean(Without(d, gone))
         /\ OrderedDirty(d) => OrderedDirty(Without(d, gone))
<1> DEFINE e == Without(d, gone)
<1>1. DOMAIN e = DOMAIN d \ gone /\ \A i \in DOMAIN e : e[i] = d[i]
  <2>1. DOMAIN e = DOMAIN d \ gone
    BY WithoutIsDeque
  <2>2. \A i \in DOMAIN d \ gone : e[i] = d[i]
    BY WithoutIsDeque
  <2> QED BY <2>1, <2>2
<1> HIDE DEF e
<1>2. OrderedClean(d) => OrderedClean(e)
  BY <1>1 DEF OrderedClean
<1>3. OrderedDirty(d) => OrderedDirty(e)
  BY <1>1 DEF OrderedDirty
<1> QED BY <1>2, <1>3 DEF e

\* Appending a clean circuit no older than the others keeps the order.
LEMMA AppendIsOrderedClean ==
  ASSUME NEW d, IsDeque(d), OrderedClean(d), NEW circuit \in Circuit,
         circuit.dirty_time = None,
         \A i \in DOMAIN d : d[i].time <= circuit.time
  PROVE  OrderedClean(appendleft(d, circuit))
<1> DEFINE n == NextLeft(d)
           e == appendleft(d, circuit)
<1>1. /\ DOMAIN e = DOMAIN d \cup {n}
      /\ \A i \in DOMAIN d : e[i] = d[i]
      /\ e[n] = circuit
  BY AppendIsDeque
<1>2. n \in Nat /\ n \notin DOMAIN d /\ \A j \in DOMAIN d : j < n
  BY NextLeftIsFree
<1>3. DOMAIN d \subseteq Nat /\ circuit.time \in Nat
  BY DEF IsDeque, Circuit
<1> HIDE DEF n, e
<1>4. OrderedClean(e)
  BY <1>1, <1>2, <1>3 DEF OrderedClean
<1> QED BY <1>4 DEF e

\* Likewise for a circuit that just got dirty.
LEMMA AppendIsOrderedDirty ==
  ASSUME NEW d, IsDeque(d), OrderedDirty(d), NEW circuit \in Circuit,
         circuit.dirty_time # None, circuit.time <= circuit.dirty_time,
         \A i \in DOMAIN d : d[i].dirty_time <= circuit.dirty_time
  PROVE  OrderedDirty(appendleft(d, circuit))
<1> DEFINE n == NextLeft(d)
           e == appendleft(d, circuit)
<1>1. /\ DOMAIN e = DOMAIN d \cup {n}
      /\ \A i \in DOMAIN d : e[i] = d[i]
      /\ e[n] = circuit
  BY AppendIsDeque
<1>2. n \in Nat /\ n \notin DOMAIN d /\ \A j \in DOMAIN d : j < n
  BY NextLeftIsFree
<1>3. DOMAIN d \subseteq Nat
  BY DEF IsDeque
<1> HIDE DEF n, e
<1>4. OrderedDirty(e)
  BY <1>1, <1>2, <1>3 DEF OrderedDirty
<1> QED BY <1>4 DEF e

\* In an ordered deque the loop that pops from the right removes every old one.
LEMMA OldOnesGo ==
  ASSUME NEW d, IsDeque(d), NEW limit \in Int
  PROVE  /\ OrderedClean(d) =>
              \A i \in DOMAIN d \ OldClean(d, limit) : d[i].time > limit
         /\ OrderedDirty(d) =>
              \A i \in DOMAIN d \ OldDirty(d, limit) : d[i].dirty_time > limit
<1>1. DOMAIN d \subseteq Nat /\ \A i \in DOMAIN d : d[i] \in Circuit
  BY DEF IsDeque
<1>2. ASSUME OrderedClean(d), NEW i \in DOMAIN d \ OldClean(d, limit)
      PROVE  d[i].time > limit
  <2>1. \A j \in DOMAIN d : d[j].time \in Nat /\ (j <= i => d[j].time <= d[i].time)
    BY <1>1, <1>2 DEF OrderedClean, Circuit
  <2>2. PICK j \in DOMAIN d : j <= i /\ ~(d[j].time <= limit)
    BY <1>2 DEF OldClean
  <2> QED BY <2>1, <2>2
<1>3. ASSUME OrderedDirty(d), NEW i \in DOMAIN d \ OldDirty(d, limit)
      PROVE  d[i].dirty_time > limit
  <2>1. \A j \in DOMAIN d : d[j].dirty_time \in Nat
                            /\ (j <= i => d[j].dirty_time <= d[i].dirty_time)
    BY <1>1, <1>3 DEF OrderedDirty, Circuit
  <2>2. PICK j \in DOMAIN d : j <= i /\ ~(d[j].dirty_time <= limit)
    BY <1>3 DEF OldDirty
  <2> QED BY <2>1, <2>2
<1> QED BY <1>2, <1>3

\* Removing circuits, or letting time pass, keeps a deque tidy.
LEMMA TidyWithout ==
  ASSUME NEW d, NEW gone, IsDeque(d), NEW t \in Nat, NEW u \in Nat, t <= u
  PROVE  /\ TidyClean(d, t) => TidyClean(Without(d, gone), u)
         /\ TidyDirty(d, t) => TidyDirty(Without(d, gone), u)
         /\ TidyClean(d, t) => TidyClean(d, u)
         /\ TidyDirty(d, t) => TidyDirty(d, u)
<1>1. \A i \in DOMAIN d : d[i].time \in Nat
                          /\ (d[i].dirty_time # None => d[i].dirty_time \in Nat)
  BY DEF IsDeque, Circuit
<1>2. TidyDirty(d, t) => \A i \in DOMAIN d : d[i].dirty_time <= u
  BY <1>1 DEF TidyDirty, OrderedDirty
<1>3. TidyClean(d, t) => \A i \in DOMAIN d : d[i].time <= u
  BY <1>1 DEF TidyClean
<1> DEFINE e == Without(d, gone)
<1>4. DOMAIN e = DOMAIN d \ gone /\ \A i \in DOMAIN e : e[i] = d[i]
  <2>1. DOMAIN e = DOMAIN d \ gone
    BY WithoutIsDeque
  <2>2. \A i \in DOMAIN d \ gone : e[i] = d[i]
    BY WithoutIsDeque
  <2> QED BY <2>1, <2>2
<1>5. (OrderedClean(d) => OrderedClean(e)) /\ (OrderedDirty(d) => OrderedDirty(e))
  BY WithoutIsOrdered
<1> HIDE DEF e
<1>6. (TidyClean(d, t) => TidyClean(e, u)) /\ (TidyDirty(d, t) => TidyDirty(e, u))
  BY <1>2, <1>3, <1>4, <1>5 DEF TidyClean, TidyDirty
<1> QED BY <1>2, <1>3, <1>6 DEF TidyClean, TidyDirty, e

\* Another covering does not disturb a clean deque.
LEMMA TidyRelabelled ==
  ASSUME NEW d, NEW e, DOMAIN e = DOMAIN d, NEW t, TidyClean(d, t),
         \A i \in DOMAIN d : e[i].time = d[i].time /\ e[i].dirty_time = d[i].dirty_time
  PROVE  TidyClean(e, t)
BY DEF TidyClean, OrderedClean

\* The last stream's time is a natural number.
LEMMA LastStreamTimeType == ASSUME PoolInv PROVE LastStreamTime \in Nat
BY DEF PoolInv, FrameOK, LastStreamTime, Stream

\* Initially there are no circuits.
LEMMA OrderInit == ASSUME Init PROVE OrderInv
<1>1. DOMAIN EmptyDeque = {}
  BY DEF EmptyDeque
<1> QED BY <1>1, OptionAssumption
     DEF Init, OrderInv, TidyClean, TidyDirty, OrderedClean, OrderedDirty,
         LastStreamTime

\* The steps that only remove circuits or change what they cover.
LEMMA OrderKept ==
  ASSUME PoolInv, OrderInv,
         \/ NextConsensus \/ GapInConsensuses \/ timed_updates \/ KillCircuits
         \/ (\E p \in Port : LookAtNeed(p)) \/ ClientUpdated
         \/ AssignToDirty \/ EndOfMinute \/ UNCHANGED vars
  PROVE  OrderInv'
<1>1. cur_time \in Nat /\ LastStreamTime \in Nat
      /\ \A c \in Client : IsDeque(clean[c]) /\ IsDeque(dirty[c])
  BY LastStreamTimeType DEF PoolInv, PoolOK, FrameOK
<1>2. UNCHANGED stream /\ LastStreamTime' = LastStreamTime
  BY DEF NextConsensus, GapInConsensuses, timed_updates, KillCircuits, LookAtNeed,
         ClientUpdated, AssignToDirty, EndOfMinute, vars, trace, LastStreamTime
<1>3. CASE NextConsensus \/ GapInConsensuses
  <2>1. PICK good : period_client_update(good)
    BY <1>3 DEF NextConsensus, GapInConsensuses
  <2>2. \A c \in Client : /\ TidyClean(clean'[c], cur_time)
                          /\ TidyDirty(dirty'[c], LastStreamTime)
    BY <2>1, <1>1, TidyWithout DEF period_client_update, OrderInv
  <2>3. UNCHANGED cur_time /\ pc' # "assign"
    BY <1>3, <2>1 DEF NextConsensus, GapInConsensuses, period_client_update
  <2> QED BY <2>2, <2>3, <1>2 DEF OrderInv
<1>4. CASE timed_updates
  <2>1. UNCHANGED <<cur_time, dirty>> /\ pc' = "client"
    BY <1>4 DEF timed_updates
  <2>2. ASSUME NEW c \in Client
        PROVE  TidyClean(clean'[c], cur_time)
    <3>1. /\ DOMAIN clean'[c] = DOMAIN clean[c]
          /\ \A i \in DOMAIN clean[c] :
               clean'[c][i] = [clean[c][i] EXCEPT !.covering = @ \ Expired]
      BY <1>4 DEF timed_updates, Discard
    <3>2. \A i \in DOMAIN clean[c] : clean[c][i] \in Circuit
      BY <1>1 DEF IsDeque
    <3>3. \A i \in DOMAIN clean[c] : /\ clean'[c][i].time = clean[c][i].time
                                     /\ clean'[c][i].dirty_time = clean[c][i].dirty_time
      BY <3>1, <3>2 DEF Circuit
    <3> QED BY <3>1, <3>3, TidyRelabelled DEF OrderInv
  <2> QED BY <2>1, <2>2, <1>2 DEF OrderInv
<1>5. CASE KillCircuits
  <2>1. UNCHANGED cur_time /\ pc' # "assign"
    BY <1>5 DEF KillCircuits
  <2>2. \A c \in Client : /\ TidyClean(clean'[c], cur_time)
                          /\ TidyDirty(dirty'[c], LastStreamTime)
    BY <1>1, <1>5, TidyWithout DEF KillCircuits, OrderInv, PoolInv, PoolOK
  <2> QED BY <2>1, <2>2, <1>2 DEF OrderInv
<1>6. CASE (\E p \in Port : LookAtNeed(p)) \/ ClientUpdated \/ AssignToDirty
           \/ UNCHANGED vars
  <2>1. UNCHANGED <<cur_time, clean, dirty>> /\ (pc' = "assign" => pc = "assign")
    BY <1>6 DEF LookAtNeed, ClientUpdated, AssignToDirty, NextClient, vars, pool
  <2> QED BY <2>1, <1>2 DEF OrderInv
<1>7. CASE EndOfMinute
  <2>1. cur_time' = cur_time + TimeStep /\ UNCHANGED <<clean, dirty>> /\ pc' # "assign"
    BY <1>7 DEF EndOfMinute, pool
  <2>2. \A c \in Client : TidyClean(clean[c], cur_time + TimeStep)
    BY <1>1, TidyWithout, OptionAssumption DEF OrderInv
  <2> QED BY <1>1, <2>1, <2>2, <1>2, OptionAssumption DEF OrderInv
<1> QED BY <1>3, <1>4, <1>5, <1>6, <1>7

\* A circuit made for a need is as young as the minute.
LEMMA OrderCover ==
  ASSUME PoolInv, OrderInv, CoverNeed
  PROVE  OrderInv'
<1>1. client \in Client /\ port \in Port /\ needs[port] # None /\ cur_time \in Nat
  BY DEF PoolInv, FrameOK, HandlerReady, CoverNeed, NeedsCircuit
<1>2. needs[port].stable \in BOOLEAN
  BY <1>1 DEF PoolInv, FrameOK, Need
<1>3. PICK circuit \in NewCircuits(cur_time, needs[port].stable,
                                   {r \in Relay : port \in policy[r].ports}) :
        clean' = [clean EXCEPT ![client] =
                    appendleft(@, [circuit EXCEPT !.covering = CoveredBy(circuit)])]
  BY DEF CoverNeed
<1> DEFINE new == [circuit EXCEPT !.covering = CoveredBy(circuit)]
<1>4. CoveredBy(circuit) \in SUBSET Port
  BY <1>1 DEF CoveredBy
<1>5. new \in Circuit /\ new.time = cur_time /\ new.dirty_time = None
  BY <1>1, <1>2, <1>4, NewCircuitType DEF Circuit
<1>6. IsDeque(clean[client]) /\ TidyClean(clean[client], cur_time)
  BY <1>1 DEF PoolInv, PoolOK, OrderInv
<1> HIDE DEF new
<1>7. TidyClean(appendleft(clean[client], new), cur_time)
  <2> DEFINE d == clean[client]
             e == appendleft(d, new)
  <2>1. /\ DOMAIN e = DOMAIN d \cup {NextLeft(d)}
        /\ \A i \in DOMAIN d : e[i] = d[i]
        /\ e[NextLeft(d)] = new
    BY <1>5, <1>6, AppendIsDeque
  <2>2. OrderedClean(e)
    BY <1>5, <1>6, AppendIsOrderedClean DEF TidyClean
  <2> HIDE DEF e
  <2>3. \A i \in DOMAIN e : e[i].time <= cur_time
    BY <2>1, <1>1, <1>5, <1>6 DEF TidyClean
  <2> QED BY <2>2, <2>3 DEF TidyClean, e
<1>8. clean' = [clean EXCEPT ![client] = appendleft(clean[client], new)]
  BY <1>3 DEF new
<1>9. UNCHANGED <<cur_time, dirty, stream>> /\ pc' # "assign"
  BY DEF CoverNeed, trace
<1> QED BY <1>1, <1>7, <1>8, <1>9 DEF OrderInv, PoolInv, PoolOK, LastStreamTime

\* A stream is no earlier than the last one.
LEMMA OrderStream ==
  ASSUME PoolInv, OrderInv, TakeStream
  PROVE  OrderInv'
<1>1. PICK dest \in Destination, t \in cur_time..(cur_time + TimeStep - 1) :
        /\ t >= LastStreamTime
        /\ stream' = [dest |-> dest, time |-> t]
        /\ stream_update_port_needs(PortOf[dest], t)
  BY DEF TakeStream
<1>2. cur_time \in Nat /\ LastStreamTime \in Nat /\ t \in Nat
      /\ \A c \in Client : IsDeque(clean[c]) /\ IsDeque(dirty[c])
  BY <1>1, LastStreamTimeType, OptionAssumption DEF PoolInv, PoolOK, FrameOK
<1>3. stream' # None
  BY <1>1, <1>2, SetAssumption DEF Stream
<1>4. LastStreamTime' = t /\ stream'.time = t
  BY <1>1, <1>3 DEF LastStreamTime
<1>5. UNCHANGED <<cur_time, dirty>>
  BY DEF TakeStream
<1>6. ASSUME NEW c \in Client
      PROVE  TidyClean(clean'[c], cur_time)
  <2>1. /\ DOMAIN clean'[c] = DOMAIN clean[c]
        /\ \A i \in DOMAIN clean[c] :
             \/ clean'[c][i] = clean[c][i]
             \/ clean'[c][i] = [clean[c][i] EXCEPT !.covering = @ \cup {PortOf[dest]}]
    <3>1. CASE needs[PortOf[dest]] # None
      BY <3>1, <1>1 DEF stream_update_port_needs
    <3>2. CASE needs[PortOf[dest]] = None
      <4> DEFINE p == PortOf[dest]
                 found == Found(c, p, [expires |-> t + NeedLifetime,
                                       stable |-> p \in LongLived])
      <4>1. clean'[c] = [i \in DOMAIN clean[c] |->
              IF i \in found THEN [clean[c][i] EXCEPT !.covering = @ \cup {p}]
              ELSE clean[c][i]]
        BY <3>2, <1>1 DEF stream_update_port_needs
      <4> HIDE DEF found
      <4> QED BY <4>1
    <3> QED BY <3>1, <3>2
  <2>2. \A i \in DOMAIN clean[c] : clean[c][i] \in Circuit
    BY <1>2 DEF IsDeque
  <2>3. \A i \in DOMAIN clean[c] : /\ clean'[c][i].time = clean[c][i].time
                                   /\ clean'[c][i].dirty_time = clean[c][i].dirty_time
    BY <2>1, <2>2 DEF Circuit
  <2> QED BY <2>1, <2>3, TidyRelabelled DEF OrderInv
<1>7. \A c \in Client : TidyDirty(dirty[c], t)
  BY <1>1, <1>2, TidyWithout DEF OrderInv
<1> QED BY <1>1, <1>2, <1>4, <1>5, <1>6, <1>7, OptionAssumption DEF OrderInv

\* A circuit that gets dirty at a stream's time is the last to have done so.
LEMMA OrderMakeDirty ==
  ASSUME PoolInv, OrderInv, pc = "assign", NEW circuit \in Circuit,
         circuit.time <= stream.time, MakeDirty(circuit)
  PROVE  \A c \in Client : TidyDirty(dirty'[c], LastStreamTime)
<1> DEFINE new == [circuit EXCEPT !.dirty_time = stream.time]
           d == dirty[client]
           e == appendleft(d, new)
<1>1. /\ client \in Client /\ stream # None /\ stream.time \in Nat
      /\ LastStreamTime = stream.time
      /\ IsDeque(d) /\ TidyDirty(d, stream.time)
  BY DEF PoolInv, FrameOK, PoolOK, HandlerReady, Stream, OrderInv, LastStreamTime
<1>2. new \in Circuit /\ new.dirty_time = stream.time /\ new.time = circuit.time
      /\ stream.time # None
  BY <1>1, SetAssumption DEF Circuit
<1>3. dirty' = [dirty EXCEPT ![client] = e]
  BY DEF MakeDirty
<1> HIDE DEF new
<1>4. /\ DOMAIN e = DOMAIN d \cup {NextLeft(d)}
      /\ \A i \in DOMAIN d : e[i] = d[i]
      /\ e[NextLeft(d)] = new
  BY <1>1, <1>2, AppendIsDeque
<1>5. OrderedDirty(e)
  BY <1>1, <1>2, AppendIsOrderedDirty DEF TidyDirty
<1> HIDE DEF e
<1>6. \A i \in DOMAIN e : e[i].dirty_time <= stream.time
  BY <1>1, <1>2, <1>4 DEF TidyDirty
<1>7. TidyDirty(e, LastStreamTime)
  BY <1>1, <1>5, <1>6 DEF TidyDirty
<1> QED BY <1>1, <1>3, <1>7 DEF OrderInv, PoolInv, PoolOK

\* So a stream served by a clean or a new circuit keeps the order.
LEMMA OrderAssign ==
  ASSUME PoolInv, OrderInv, AssignToClean \/ AssignToNew
  PROVE  OrderInv'
<1>1. /\ client \in Client /\ stream # None /\ stream.time \in Nat
      /\ cur_time \in Nat /\ cur_time <= stream.time
      /\ IsDeque(clean[client]) /\ TidyClean(clean[client], cur_time)
      /\ pc = "assign"
  BY DEF PoolInv, FrameOK, PoolOK, HandlerReady, Stream, OrderInv, AssignToClean,
         AssignToNew
<1>2. UNCHANGED <<cur_time, stream>> /\ LastStreamTime' = LastStreamTime
  BY DEF AssignToClean, AssignToNew, LastStreamTime
<1>3. CASE AssignToClean
  <2> DEFINE i == Leftmost(UsableClean)
  <2>1. /\ MakeDirty(clean[client][i])
        /\ clean' = [clean EXCEPT ![client] = Without(@, {i})]
    BY <1>3 DEF AssignToClean
  <2>2. i \in DOMAIN clean[client]
    <3>1. UsableClean \subseteq DOMAIN clean[client]
      BY DEF UsableClean
    <3>2. IsFiniteSet(UsableClean) /\ UsableClean \in SUBSET Nat
      BY <1>1, <3>1, FS_Subset DEF IsDeque
    <3> QED BY <1>3, <3>1, <3>2, LeftmostIsGreatest DEF AssignToClean
  <2> HIDE DEF i
  <2>3. clean[client][i] \in Circuit /\ clean[client][i].time <= stream.time
    <3>1. clean[client][i] \in Circuit /\ clean[client][i].time <= cur_time
      BY <1>1, <2>2 DEF IsDeque, TidyClean
    <3>2. clean[client][i].time \in Nat
      BY <3>1 DEF Circuit
    <3> QED BY <3>1, <3>2, <1>1
  <2>4. \A c \in Client : TidyDirty(dirty'[c], LastStreamTime)
    BY <1>1, <2>1, <2>3, OrderMakeDirty
  <2>5. TidyClean(Without(clean[client], {i}), cur_time)
    BY <1>1, TidyWithout
  <2>6. \A c \in Client : TidyClean(clean'[c], cur_time)
    BY <2>1, <2>5, <1>1 DEF OrderInv, PoolInv, PoolOK
  <2> QED BY <1>2, <2>4, <2>6, <1>1 DEF OrderInv
<1>4. CASE AssignToNew
  <2> DEFINE wants == PortOf[stream.dest] \in LongLived
  <2>1. PICK circuit \in NewCircuits(stream.time, wants,
                           {r \in Relay : stream.dest \in policy[r].accepts}) :
          MakeDirty(circuit)
    BY <1>4 DEF AssignToNew
  <2>2. wants \in BOOLEAN
    OBVIOUS
  <2> HIDE DEF wants
  <2>3. circuit \in Circuit /\ circuit.time = stream.time
    BY <1>1, <2>1, <2>2, NewCircuitType
  <2>4. \A c \in Client : TidyDirty(dirty'[c], LastStreamTime)
    BY <1>1, <2>1, <2>3, OrderMakeDirty
  <2>5. UNCHANGED clean
    BY <1>4 DEF AssignToNew
  <2> QED BY <1>1, <1>2, <2>4, <2>5 DEF OrderInv
<1> QED BY <1>3, <1>4

\* The order is inductive, given the types.
LEMMA OrderInductive == Spec => [](PoolInv /\ OrderInv)
<1>1. PoolInv /\ OrderInv /\ [Next]_vars => OrderInv'
  BY OrderKept, OrderCover, OrderStream, OrderAssign DEF Next, Stopped
<1>2. Init => OrderInv
  BY OrderInit
<1> QED BY <1>1, <1>2, PoolInductive, PTL DEF Spec

\* Both deques of every client stay in order, as the comment on them says: what
\* the loops that drop old circuits from the right end need.
THEOREM DequesAlwaysOrdered == Spec => []DequesOrdered
<1>1. OrderInv => DequesOrdered
  BY DEF OrderInv, TidyClean, TidyDirty, OrderedClean, OrderedDirty, DequesOrdered
<1> QED BY <1>1, OrderInductive, PTL
-----------------------------------------------------------------------------
(* Life.                                                                   *)

\* All circuits of the deque run through relays of the set good.
Through(d, good) == \A i \in DOMAIN d : RelaysOf(d[i]) \subseteq good

YoungClean(d) == \A i \in DOMAIN d : d[i].time > cur_time - IdleTimeout
YoungDirty(d) == \A i \in DOMAIN d : d[i].dirty_time > cur_time - MaxDirtiness

\* Client c has been through timed_client_updates() in this minute.
Updated(c) ==
  /\ YoungClean(clean[c]) /\ Through(clean[c], Relay \ hibernating)
  /\ YoungDirty(dirty[c]) /\ Through(dirty[c], Relay \ hibernating)

\* No circuit ever runs through a relay that is down; and the clients updated
\* so far in this minute have no circuit that is old or sleeps.
LiveInv ==
  /\ \A c \in Client : Through(clean[c], up) /\ Through(dirty[c], up)
  /\ pc \in {"period", "minute", "stream", "done"} => client = 1
  /\ pc = "client" => \A c \in Client : c < client => Updated(c)
  /\ pc = "cover" => \A c \in Client : c <= client => Updated(c)
  /\ pc \in {"stream", "assign"} => \A c \in Client : Updated(c)

\* With it all circuits are live when streams are assigned.
LEMMA LiveSuffices ==
  ASSUME PoolInv, LiveInv
  PROVE  OnlyLiveCircuits
<1> SUFFICES ASSUME pc \in {"stream", "assign"}, NEW c \in Client
             PROVE  /\ \A i \in DOMAIN clean[c] :
                         /\ clean[c][i].time > cur_time - IdleTimeout
                         /\ RelaysOf(clean[c][i]) \subseteq up \ hibernating
                    /\ \A i \in DOMAIN dirty[c] :
                         /\ dirty[c][i].dirty_time > cur_time - MaxDirtiness
                         /\ RelaysOf(dirty[c][i]) \subseteq up \ hibernating
  BY DEF OnlyLiveCircuits
<1>1. Updated(c) /\ Through(clean[c], up) /\ Through(dirty[c], up)
  BY DEF LiveInv
<1> QED BY <1>1 DEF Updated, YoungClean, YoungDirty, Through

\* Removing circuits keeps the rest young and on the same relays.
LEMMA WithoutIsLive ==
  ASSUME NEW d, NEW gone, IsDeque(d), NEW good
  PROVE  /\ Through(d, good) => Through(Without(d, gone), good)
         /\ YoungClean(d) => YoungClean(Without(d, gone))
         /\ YoungDirty(d) => YoungDirty(Without(d, gone))
<1> DEFINE e == Without(d, gone)
<1>1. DOMAIN e = DOMAIN d \ gone
  BY WithoutIsDeque
<1>2. \A i \in DOMAIN d \ gone : e[i] = d[i]
  BY WithoutIsDeque
<1> HIDE DEF e
<1>3. /\ Through(d, good) => Through(e, good)
      /\ YoungClean(d) => YoungClean(e)
      /\ YoungDirty(d) => YoungDirty(e)
  BY <1>1, <1>2 DEF Through, YoungClean, YoungDirty
<1> QED BY <1>3 DEF e

\* kill_circuits_by_relay() leaves only circuits through good relays.
LEMMA KilledIsThrough ==
  ASSUME NEW d, IsDeque(d), NEW good, NEW gone, Broken(d, good) \subseteq gone
  PROVE  Through(Without(d, gone), good)
<1> DEFINE e == Without(d, gone)
<1>1. DOMAIN e = DOMAIN d \ gone
  BY WithoutIsDeque
<1>2. \A i \in DOMAIN d \ gone : e[i] = d[i]
  BY WithoutIsDeque
<1> HIDE DEF e
<1>3. Through(e, good)
  BY <1>1, <1>2 DEF Through, Broken
<1> QED BY <1>3 DEF e

\* An appended circuit brings its own relays and age.
LEMMA AppendIsLive ==
  ASSUME NEW d, IsDeque(d), NEW circuit \in Circuit, NEW good
  PROVE  LET e == appendleft(d, circuit) IN
         /\ Through(d, good) /\ RelaysOf(circuit) \subseteq good => Through(e, good)
         /\ YoungClean(d) /\ circuit.time > cur_time - IdleTimeout => YoungClean(e)
         /\ YoungDirty(d) /\ circuit.dirty_time > cur_time - MaxDirtiness
              => YoungDirty(e)
<1> DEFINE e == appendleft(d, circuit)
<1>1. DOMAIN e = DOMAIN d \cup {NextLeft(d)}
  BY AppendIsDeque
<1>2. (\A i \in DOMAIN d : e[i] = d[i]) /\ e[NextLeft(d)] = circuit
  BY AppendIsDeque
<1> HIDE DEF e
<1>3. Through(d, good) /\ RelaysOf(circuit) \subseteq good => Through(e, good)
  BY <1>1, <1>2 DEF Through
<1>4. YoungClean(d) /\ circuit.time > cur_time - IdleTimeout => YoungClean(e)
  BY <1>1, <1>2 DEF YoungClean
<1>5. YoungDirty(d) /\ circuit.dirty_time > cur_time - MaxDirtiness
        => YoungDirty(e)
  BY <1>1, <1>2 DEF YoungDirty
<1> QED BY <1>3, <1>4, <1>5 DEF e

\* Another covering changes neither path nor age.
LEMMA RelabelledIsLive ==
  ASSUME NEW d, NEW e, IsDeque(d), NEW good, DOMAIN e = DOMAIN d,
         \A i \in DOMAIN d : e[i].path = d[i].path /\ e[i].time = d[i].time
  PROVE  /\ Through(d, good) => Through(e, good)
         /\ YoungClean(d) => YoungClean(e)
BY DEF Through, YoungClean, RelaysOf

\* Initially there are no circuits.
LEMMA LiveInit == ASSUME Init PROVE LiveInv
<1>1. DOMAIN EmptyDeque = {}
  BY DEF EmptyDeque
<1> QED BY <1>1 DEF Init, LiveInv, Through

\* A period leaves only circuits through relays that are up.
LEMMA LivePeriod ==
  ASSUME PoolInv, LiveInv, NextConsensus \/ GapInConsensuses
  PROVE  LiveInv'
<1>1. PICK good : period_client_update(good) /\ up' = good
  BY DEF NextConsensus, GapInConsensuses
<1>2. pc' = "minute" /\ client' = 1
  <2>1. pc = "period" /\ client' = client
    BY DEF NextConsensus, GapInConsensuses, loop
  <2> QED BY <2>1, <1>1, PeriodKeepsPool DEF LiveInv, NextConsensus, GapInConsensuses
<1>3. \A c \in Client : IsDeque(clean[c]) /\ IsDeque(dirty[c])
  BY DEF PoolInv, PoolOK
<1>4. \A c \in Client : Through(clean'[c], good) /\ Through(dirty'[c], good)
  BY <1>1, <1>3, KilledIsThrough DEF period_client_update
<1> QED BY <1>1, <1>2, <1>4 DEF LiveInv

\* A minute begins with no client updated.
LEMMA LiveTimed ==
  ASSUME PoolInv, LiveInv, timed_updates
  PROVE  LiveInv'
<1>1. UNCHANGED <<up, dirty, client>> /\ pc' = "client" /\ client = 1
  BY DEF timed_updates, loop, LiveInv
<1>2. ASSUME NEW c \in Client
      PROVE  Through(clean'[c], up)
  <2>1. /\ DOMAIN clean'[c] = DOMAIN clean[c]
        /\ \A i \in DOMAIN clean[c] :
             clean'[c][i] = [clean[c][i] EXCEPT !.covering = @ \ Expired]
    BY DEF timed_updates, Discard
  <2>2. IsDeque(clean[c]) /\ \A i \in DOMAIN clean[c] : clean[c][i] \in Circuit
    BY DEF PoolInv, PoolOK, IsDeque
  <2>3. \A i \in DOMAIN clean[c] : /\ clean'[c][i].path = clean[c][i].path
                                   /\ clean'[c][i].time = clean[c][i].time
    BY <2>1, <2>2 DEF Circuit
  <2> QED BY <2>1, <2>2, <2>3, RelabelledIsLive DEF LiveInv
<1>3. \A c \in Client : ~(c < 1)
  BY DEF Client
<1> QED BY <1>1, <1>2, <1>3 DEF LiveInv

\* The client at hand loses what is old or asleep, and is updated.
LEMMA LiveKill ==
  ASSUME PoolInv, OrderInv, LiveInv, KillCircuits
  PROVE  LiveInv'
<1>1. /\ client \in Client /\ cur_time \in Nat
      /\ \A c \in Client : IsDeque(clean[c]) /\ IsDeque(dirty[c])
      /\ DOMAIN clean = Client /\ DOMAIN dirty = Client
  BY DEF PoolInv, FrameOK, PoolOK
<1> DEFINE d == clean[client]
           u == dirty[client]
           d2 == Without(d, GoneClean(client))
           u2 == Without(u, GoneDirty(client))
<1>2. /\ clean' = [clean EXCEPT ![client] = d2]
      /\ dirty' = [dirty EXCEPT ![client] = u2]
      /\ UNCHANGED <<cur_time, up, hibernating, client>>
  BY DEF KillCircuits, network
<1>3. pc = "client" /\ pc' = "cover"
  <2>1. GoneClean(client) \in SUBSET DOMAIN clean[client]
    BY DEF GoneClean, OldClean, Broken
  <2> QED BY <1>1, <2>1, ClientWithout DEF KillCircuits
<1>4. Through(d2, up) /\ Through(u2, up)
  BY <1>1, WithoutIsLive DEF LiveInv
<1>5. Through(d2, Relay \ hibernating) /\ Through(u2, Relay \ hibernating)
  BY <1>1, KilledIsThrough DEF GoneClean, GoneDirty
<1>6. YoungClean(d2)
  <2>1. cur_time - IdleTimeout \in Int /\ OrderedClean(d) /\ IsDeque(d)
    BY <1>1, OptionAssumption DEF OrderInv, TidyClean
  <2>2. \A i \in DOMAIN d \ OldClean(d, cur_time - IdleTimeout) :
          d[i].time > cur_time - IdleTimeout
    BY <2>1, OldOnesGo
  <2>3. DOMAIN d2 = DOMAIN d \ GoneClean(client)
    BY <2>1, WithoutIsDeque
  <2>4. \A i \in DOMAIN d \ GoneClean(client) : d2[i] = d[i]
    BY <2>1, WithoutIsDeque
  <2> HIDE DEF d2
  <2> QED BY <2>2, <2>3, <2>4 DEF YoungClean, GoneClean
<1>7. YoungDirty(u2)
  <2>1. cur_time - MaxDirtiness \in Int /\ OrderedDirty(u) /\ IsDeque(u)
    BY <1>1, OptionAssumption DEF OrderInv, TidyDirty
  <2>2. \A i \in DOMAIN u \ OldDirty(u, cur_time - MaxDirtiness) :
          u[i].dirty_time > cur_time - MaxDirtiness
    BY <2>1, OldOnesGo
  <2>3. DOMAIN u2 = DOMAIN u \ GoneDirty(client)
    BY <2>1, WithoutIsDeque
  <2>4. \A i \in DOMAIN u \ GoneDirty(client) : u2[i] = u[i]
    BY <2>1, WithoutIsDeque
  <2> HIDE DEF u2
  <2> QED BY <2>2, <2>3, <2>4 DEF YoungDirty, GoneDirty
<1> HIDE DEF d2, u2
<1>8. ASSUME NEW c \in Client, c # client
      PROVE  /\ clean'[c] = clean[c] /\ dirty'[c] = dirty[c]
             /\ c < client => Updated(c)'
  BY <1>1, <1>2, <1>3, <1>8 DEF LiveInv, Updated, YoungClean, YoungDirty, Through
<1>9. \A c \in Client : Through(clean'[c], up) /\ Through(dirty'[c], up)
  BY <1>1, <1>2, <1>4, <1>8 DEF LiveInv
<1>10. ASSUME NEW c \in Client, c <= client
       PROVE  Updated(c)'
  <2>1. CASE c = client
    BY <2>1, <1>1, <1>2, <1>5, <1>6, <1>7
       DEF Updated, YoungClean, YoungDirty, Through
  <2>2. CASE c # client
    <3>1. c < client
      BY <1>1, <1>10, <2>2 DEF Client
    <3> QED BY <3>1, <2>2, <1>8
  <2> QED BY <2>1, <2>2
<1> QED BY <1>2, <1>3, <1>9, <1>10 DEF LiveInv

\* The steps that leave the circuits alone, or only what they cover.
LEMMA LiveQuiet ==
  ASSUME PoolInv, LiveInv,
         \/ \E p \in Port : LookAtNeed(p)
         \/ ClientUpdated \/ AssignToDirty \/ EndOfMinute \/ UNCHANGED vars
  PROVE  LiveInv'
<1>1. /\ client \in Client /\ NumClients \in Nat
      /\ \A c \in Client : c \in Nat /\ c <= NumClients
  BY OptionAssumption DEF PoolInv, FrameOK, Client
<1>2. UNCHANGED <<clean, dirty, up>>
  BY DEF LookAtNeed, ClientUpdated, AssignToDirty, EndOfMinute, vars, pool, network
<1>3. \A c \in Client : (Through(clean[c], up) /\ Through(dirty[c], up))'
  BY <1>2 DEF LiveInv
<1>4. CASE EndOfMinute
  <2>1. client' = 1 /\ pc' \in {"minute", "period", "done"}
    BY <1>4 DEF EndOfMinute, loop, LiveInv
  <2> QED BY <1>3, <2>1 DEF LiveInv
<1>5. CASE ~EndOfMinute
  <2>1. UNCHANGED <<cur_time, hibernating>>
    BY <1>5 DEF LookAtNeed, ClientUpdated, AssignToDirty, vars, network
  <2>2. \A c \in Client : Updated(c)' <=> Updated(c)
    BY <1>2, <2>1 DEF Updated, YoungClean, YoungDirty, Through
  <2>3. CASE ClientUpdated
    <3>1. pc = "cover" /\ NextClient("client", "stream")
      BY <2>3 DEF ClientUpdated
    <3>2. CASE client < NumClients
      <4>1. client' = client + 1 /\ pc' = "client"
        BY <3>1, <3>2 DEF NextClient
      <4>2. \A c \in Client : c < client + 1 => c <= client
        BY <1>1
      <4>3. \A c \in Client : c < client' => Updated(c)'
        BY <4>1, <4>2, <2>2, <3>1 DEF LiveInv
      <4> QED BY <1>3, <4>1, <4>3 DEF LiveInv
    <3>3. CASE ~(client < NumClients)
      <4>1. client' = 1 /\ pc' = "stream"
        BY <3>1, <3>3 DEF NextClient
      <4>2. \A c \in Client : c <= client
        BY <1>1, <3>3
      <4>3. \A c \in Client : Updated(c)'
        BY <4>2, <2>2, <3>1 DEF LiveInv
      <4> QED BY <1>3, <4>1, <4>3 DEF LiveInv
    <3> QED BY <3>2, <3>3
  <2>4. CASE AssignToDirty
    <3>1. pc = "assign" /\ pc' \in {"assign", "stream"}
          /\ (pc' = "stream" => client' = 1)
      BY <2>4 DEF AssignToDirty, NextClient
    <3> QED BY <3>1, <1>3, <2>2 DEF LiveInv
  <2>5. CASE (\E p \in Port : LookAtNeed(p)) \/ UNCHANGED vars
    <3>1. UNCHANGED <<pc, client>>
      BY <2>5 DEF LookAtNeed, vars, loop
    <3> QED BY <3>1, <1>3, <2>2 DEF LiveInv
  <2> QED BY <1>5, <2>3, <2>4, <2>5
<1> QED BY <1>4, <1>5

\* The clean deque of every client keeps its circuits when a stream is taken.
LEMMA StreamRelabels ==
  ASSUME PoolInv, TakeStream, NEW c \in Client
  PROVE  /\ DOMAIN clean'[c] = DOMAIN clean[c]
         /\ \A i \in DOMAIN clean[c] : /\ clean'[c][i].path = clean[c][i].path
                                       /\ clean'[c][i].time = clean[c][i].time
                                       /\ clean'[c][i].stable = clean[c][i].stable
<1>1. PICK dest \in Destination, t \in cur_time..(cur_time + TimeStep - 1) :
        stream_update_port_needs(PortOf[dest], t)
  BY DEF TakeStream
<1>2. /\ DOMAIN clean'[c] = DOMAIN clean[c]
      /\ \A i \in DOMAIN clean[c] :
           \/ clean'[c][i] = clean[c][i]
           \/ clean'[c][i] = [clean[c][i] EXCEPT !.covering = @ \cup {PortOf[dest]}]
  <2>1. CASE needs[PortOf[dest]] # None
    BY <2>1, <1>1 DEF stream_update_port_needs
  <2>2. CASE needs[PortOf[dest]] = None
    <3> DEFINE p == PortOf[dest]
               found == Found(c, p, [expires |-> t + NeedLifetime,
                                     stable |-> p \in LongLived])
    <3>1. clean'[c] = [i \in DOMAIN clean[c] |->
            IF i \in found THEN [clean[c][i] EXCEPT !.covering = @ \cup {p}]
            ELSE clean[c][i]]
      BY <2>2, <1>1 DEF stream_update_port_needs
    <3> HIDE DEF found
    <3> QED BY <3>1
  <2> QED BY <2>1, <2>2
<1>3. \A i \in DOMAIN clean[c] : clean[c][i] \in Circuit
  BY DEF PoolInv, PoolOK, IsDeque
<1> QED BY <1>2, <1>3 DEF Circuit

\* Taking a stream changes the life of no circuit.
LEMMA LiveStream ==
  ASSUME PoolInv, LiveInv, TakeStream
  PROVE  LiveInv'
<1>1. UNCHANGED <<cur_time, up, hibernating, dirty, client>>
      /\ pc = "stream" /\ pc' = "assign"
  BY DEF TakeStream, network, loop
<1>2. ASSUME NEW c \in Client
      PROVE  /\ Through(clean'[c], up) /\ Through(dirty'[c], up)
             /\ Updated(c)'
  <2>1. /\ Through(clean[c], up) /\ Through(dirty[c], up) /\ Updated(c)
        /\ IsDeque(clean[c])
    BY <1>1 DEF LiveInv, PoolInv, PoolOK
  <2>2. \A good : Through(clean[c], good) => Through(clean'[c], good)
    BY <2>1, StreamRelabels, RelabelledIsLive
  <2>3. YoungClean(clean'[c])
    BY <2>1, StreamRelabels, RelabelledIsLive DEF Updated
  <2> QED BY <1>1, <2>1, <2>2, <2>3 DEF Updated, YoungClean, YoungDirty, Through
<1> QED BY <1>1, <1>2 DEF LiveInv

\* A circuit made for a need is young and runs through live relays.
LEMMA LiveCover ==
  ASSUME PoolInv, LiveInv, CoverNeed
  PROVE  LiveInv'
<1>1. /\ client \in Client /\ port \in Port /\ needs[port] # None /\ cur_time \in Nat
      /\ pc = "cover"
  BY DEF PoolInv, FrameOK, HandlerReady, CoverNeed, NeedsCircuit
<1>2. needs[port].stable \in BOOLEAN
  BY <1>1 DEF PoolInv, FrameOK, Need
<1>3. PICK circuit \in NewCircuits(cur_time, needs[port].stable,
                                   {r \in Relay : port \in policy[r].ports}) :
        clean' = [clean EXCEPT ![client] =
                    appendleft(@, [circuit EXCEPT !.covering = CoveredBy(circuit)])]
  BY DEF CoverNeed
<1> DEFINE new == [circuit EXCEPT !.covering = CoveredBy(circuit)]
           e == appendleft(clean[client], new)
<1>4. /\ circuit \in Circuit /\ circuit.time = cur_time
      /\ RelaysOf(circuit) \subseteq up \ hibernating
  BY <1>1, <1>2, NewCircuitType
<1>5. CoveredBy(circuit) \in SUBSET Port
  BY <1>1 DEF CoveredBy
<1>6. /\ new \in Circuit /\ new.time = cur_time /\ new.path = circuit.path
  BY <1>4, <1>5 DEF Circuit
<1>7. RelaysOf(new) \subseteq up /\ RelaysOf(new) \subseteq Relay \ hibernating
  BY <1>4, <1>6 DEF RelaysOf, PoolInv, FrameOK
<1>8. IsDeque(clean[client]) /\ Through(clean[client], up) /\ Updated(client)
  BY <1>1 DEF PoolInv, PoolOK, LiveInv, Client
<1>9. clean' = [clean EXCEPT ![client] = e]
  BY <1>3
<1>10. new.time > cur_time - IdleTimeout
  BY <1>1, <1>6, OptionAssumption
<1> HIDE DEF new
<1>11. Through(e, up) /\ Through(e, Relay \ hibernating) /\ YoungClean(e)
  BY <1>6, <1>7, <1>8, <1>10, AppendIsLive DEF Updated
<1> HIDE DEF e
<1>12. UNCHANGED <<cur_time, up, hibernating, dirty, client, pc>>
  BY DEF CoverNeed, network, loop
<1>13. DOMAIN clean = Client
  BY DEF PoolInv, PoolOK
<1>14. ASSUME NEW c \in Client
       PROVE  /\ Through(clean'[c], up) /\ Through(dirty'[c], up)
              /\ c <= client => Updated(c)'
  <2>1. CASE c = client
    BY <2>1, <1>1, <1>8, <1>9, <1>11, <1>12, <1>13
       DEF Updated, YoungClean, YoungDirty, Through, LiveInv
  <2>2. CASE c # client
    BY <2>2, <1>1, <1>9, <1>12, <1>13
       DEF Updated, YoungClean, YoungDirty, Through, LiveInv
  <2> QED BY <2>1, <2>2
<1> QED BY <1>1, <1>12, <1>14 DEF LiveInv

\* What a stream makes dirty was clean and live, or is made of live relays.
LEMMA LiveMakeDirty ==
  ASSUME PoolInv, OrderInv, LiveInv, pc = "assign", NEW circuit \in Circuit,
         MakeDirty(circuit),
         RelaysOf(circuit) \subseteq up, RelaysOf(circuit) \subseteq Relay \ hibernating
  PROVE  \A c \in Client : /\ Through(dirty'[c], up)
                           /\ Through(dirty'[c], Relay \ hibernating)
                           /\ YoungDirty(dirty'[c])
<1> DEFINE new == [circuit EXCEPT !.dirty_time = stream.time]
           e == appendleft(dirty[client], new)
<1>1. /\ client \in Client /\ stream.time \in Nat /\ cur_time \in Nat
      /\ stream.time >= cur_time
      /\ IsDeque(dirty[client]) /\ DOMAIN dirty = Client
  BY DEF PoolInv, FrameOK, PoolOK, HandlerReady, Stream, OrderInv
<1>2. new \in Circuit /\ new.dirty_time = stream.time /\ new.path = circuit.path
  BY <1>1 DEF Circuit
<1>3. RelaysOf(new) = RelaysOf(circuit)
  BY <1>2 DEF RelaysOf
<1>4. new.dirty_time > cur_time - MaxDirtiness
  BY <1>1, <1>2, OptionAssumption
<1>5. dirty' = [dirty EXCEPT ![client] = e]
  BY DEF MakeDirty
<1>6. \A c \in Client : /\ Through(dirty[c], up)
                        /\ Through(dirty[c], Relay \ hibernating)
                        /\ YoungDirty(dirty[c])
  BY DEF LiveInv, Updated
<1> HIDE DEF new
<1>7. Through(e, up) /\ Through(e, Relay \ hibernating) /\ YoungDirty(e)
  BY <1>1, <1>2, <1>3, <1>4, <1>6, AppendIsLive
<1> HIDE DEF e
<1> QED BY <1>1, <1>5, <1>6, <1>7

\* Streams leave only live circuits behind.
LEMMA LiveAssign ==
  ASSUME PoolInv, OrderInv, LiveInv, AssignToClean \/ AssignToNew
  PROVE  LiveInv'
<1>1. /\ client \in Client /\ stream # None /\ stream.time \in Nat
      /\ IsDeque(clean[client]) /\ Updated(client) /\ Through(clean[client], up)
      /\ pc = "assign" /\ DOMAIN clean = Client
  BY DEF PoolInv, FrameOK, PoolOK, HandlerReady, Stream, LiveInv, AssignToClean,
         AssignToNew
<1>2. UNCHANGED <<cur_time, up, hibernating>>
  BY DEF AssignToClean, AssignToNew, network
<1>3. PICK circuit \in Circuit :
        /\ MakeDirty(circuit)
        /\ RelaysOf(circuit) \subseteq up
        /\ RelaysOf(circuit) \subseteq Relay \ hibernating
  <2>1. CASE AssignToClean
    <3> DEFINE i == Leftmost(UsableClean)
    <3>1. MakeDirty(clean[client][i])
      BY <2>1 DEF AssignToClean
    <3>2. i \in DOMAIN clean[client]
      <4>1. UsableClean \subseteq DOMAIN clean[client]
        BY DEF UsableClean
      <4>2. IsFiniteSet(UsableClean) /\ UsableClean \in SUBSET Nat
        BY <1>1, <4>1, FS_Subset DEF IsDeque
      <4> QED BY <2>1, <4>1, <4>2, LeftmostIsGreatest DEF AssignToClean
    <3> HIDE DEF i
    <3>3. clean[client][i] \in Circuit
      BY <1>1, <3>2 DEF IsDeque
    <3> QED BY <1>1, <3>1, <3>2, <3>3 DEF Updated, Through
  <2>2. CASE AssignToNew
    <3> DEFINE wants == PortOf[stream.dest] \in LongLived
    <3>1. PICK circuit \in NewCircuits(stream.time, wants,
                             {r \in Relay : stream.dest \in policy[r].accepts}) :
            MakeDirty(circuit)
      BY <2>2 DEF AssignToNew
    <3>2. wants \in BOOLEAN
      OBVIOUS
    <3> HIDE DEF wants
    <3>3. circuit \in Circuit /\ RelaysOf(circuit) \subseteq up \ hibernating
      BY <1>1, <3>1, <3>2, NewCircuitType
    <3>4. up \subseteq Relay
      BY DEF PoolInv, FrameOK
    <3> QED BY <3>1, <3>3, <3>4
  <2> QED BY <2>1, <2>2
<1>4. \A c \in Client : /\ Through(dirty'[c], up)
                        /\ Through(dirty'[c], Relay \ hibernating)
                        /\ YoungDirty(dirty'[c])
  BY <1>1, <1>3, LiveMakeDirty
<1>5. \E gone : \A c \in Client :
        clean'[c] = IF c = client THEN Without(clean[c], gone) ELSE clean[c]
  <2>1. CASE AssignToClean
    <3>1. clean' = [clean EXCEPT ![client] =
                      Without(clean[client], {Leftmost(UsableClean)})]
      BY <2>1 DEF AssignToClean
    <3>2. \A c \in Client : clean'[c] =
            IF c = client THEN Without(clean[c], {Leftmost(UsableClean)}) ELSE clean[c]
      BY <3>1, <1>1
    <3> QED BY <3>2
  <2>2. CASE AssignToNew
    <3>1. clean' = clean
      BY <2>2 DEF AssignToNew
    <3>2. Without(clean[client], {}) = clean[client]
      BY <1>1 DEF Without, IsDeque
    <3> QED BY <3>1, <3>2
  <2> QED BY <2>1, <2>2
<1>6. \A c \in Client : /\ Through(clean'[c], up)
                        /\ Through(clean'[c], Relay \ hibernating)
                        /\ YoungClean(clean'[c])
  <2>1. \A c \in Client : /\ Through(clean[c], up)
                          /\ Through(clean[c], Relay \ hibernating)
                          /\ YoungClean(clean[c])
    BY <1>1 DEF LiveInv, Updated
  <2>2. PICK gone : \A c \in Client :
          clean'[c] = IF c = client THEN Without(clean[c], gone) ELSE clean[c]
    BY <1>5
  <2>3. /\ Through(Without(clean[client], gone), up)
        /\ Through(Without(clean[client], gone), Relay \ hibernating)
        /\ YoungClean(Without(clean[client], gone))
    BY <1>1, <2>1, WithoutIsLive
  <2> QED BY <1>1, <2>1, <2>2, <2>3
<1>7. pc' \in {"assign", "stream", "error"} /\ (pc' = "stream" => client' = 1)
  BY DEF AssignToClean, AssignToNew, NextClient
<1>8. \A c \in Client : Updated(c)'
  BY <1>2, <1>4, <1>6 DEF Updated, YoungClean, YoungDirty, Through
<1> QED BY <1>2, <1>4, <1>6, <1>7, <1>8 DEF LiveInv

\* Life is inductive, given types and order.
LEMMA LiveInductive == Spec => [](PoolInv /\ OrderInv /\ LiveInv)
<1>1. PoolInv /\ OrderInv /\ LiveInv /\ [Next]_vars => LiveInv'
  BY LivePeriod, LiveTimed, LiveKill, LiveQuiet, LiveCover, LiveStream,
     LiveAssign DEF Next, Stopped
<1> QED BY <1>1, LiveInit, OrderInductive, PTL DEF Spec

\* When streams are assigned no client holds a circuit that is too old or runs
\* through a relay that is down or hibernating, whatever consensuses, gaps and
\* statuses came before.
THEOREM OnlyLiveCircuitsAtStreams == Spec => []OnlyLiveCircuits
BY LiveInductive, LiveSuffices, PTL
-----------------------------------------------------------------------------
(* Service.                                                                *)

\* The circuit client c was given can carry the stream at hand.
WellServed(c) ==
  /\ served[c] \in DOMAIN dirty[c]
  /\ LET circuit == dirty[c][served[c]] IN
       /\ circuit.dirty_time > stream.time - MaxDirtiness
       /\ circuit.dirty_time <= stream.time
       /\ circuit_supports_stream(circuit, stream.dest)
       /\ RelaysOf(circuit) \subseteq up \ hibernating

\* Until a minute's streams are taken the last stream is an old one.
StreamIsOld ==
  pc \in {"period", "minute", "client", "cover"} =>
    stream = None \/ stream.time < cur_time

\* The clients before the one at hand have been served.
ServedInv ==
  /\ StreamIsOld
  /\ stream = None => \A c \in Client : served[c] = None
  /\ pc = "assign" => \A c \in Client : c < client => served[c] # None
  /\ (pc = "stream" /\ stream # None /\ stream.time >= cur_time) =>
       \A c \in Client : served[c] # None
  /\ pc \in {"stream", "assign"} =>
       \A c \in Client : served[c] # None /\ stream.time >= cur_time => WellServed(c)

\* Initially there is no stream.
LEMMA ServedInit == ASSUME Init PROVE ServedInv
BY DEF Init, ServedInv, StreamIsOld

\* The steps between the streams of one minute and the next.
LEMMA ServedQuiet ==
  ASSUME PoolInv, OrderInv, ServedInv,
         \/ NextConsensus \/ GapInConsensuses \/ timed_updates \/ KillCircuits
         \/ (\E p \in Port : LookAtNeed(p)) \/ CoverNeed \/ ClientUpdated
         \/ EndOfMinute
  PROVE  ServedInv'
<1>1. UNCHANGED <<stream, served>>
  BY DEF NextConsensus, GapInConsensuses, timed_updates, KillCircuits, LookAtNeed,
         CoverNeed, ClientUpdated, EndOfMinute, trace
<1>2. CASE EndOfMinute
  <2>1. pc' \in {"minute", "period", "done"} /\ cur_time' = cur_time + TimeStep
    BY <1>2 DEF EndOfMinute
  <2>2. stream # None => stream.time < cur_time + TimeStep
    BY DEF OrderInv, LastStreamTime
  <2> QED BY <1>1, <2>1, <2>2 DEF ServedInv, StreamIsOld
<1>3. CASE ~EndOfMinute
  <2>1. cur_time' = cur_time
    BY <1>3 DEF NextConsensus, GapInConsensuses, timed_updates, KillCircuits,
                LookAtNeed, CoverNeed, ClientUpdated
  <2>2. pc \in {"period", "minute", "client", "cover"} /\ pc' # "assign"
    BY <1>3 DEF NextConsensus, GapInConsensuses, period_client_update,
                timed_updates, KillCircuits, LookAtNeed, CoverNeed, ClientUpdated,
                NextClient
  <2>3. (stream = None \/ stream.time < cur_time)
        /\ (stream # None => stream.time \in Nat) /\ cur_time \in Nat
    BY <2>2 DEF ServedInv, StreamIsOld, PoolInv, FrameOK, Stream
  <2>4. ~(stream # None /\ stream.time >= cur_time)
    BY <2>3
  <2>5. \A c \in Client : ~(served[c] # None /\ stream.time >= cur_time)
    BY <2>4 DEF ServedInv
  <2> QED BY <1>1, <2>1, <2>2, <2>3, <2>4, <2>5 DEF ServedInv, StreamIsOld
<1> QED BY <1>2, <1>3

\* Taking a stream, nobody is served yet; stuttering, everybody stays so.
LEMMA ServedStream ==
  ASSUME PoolInv, LiveInv, ServedInv, TakeStream \/ UNCHANGED vars
  PROVE  ServedInv'
<1>1. CASE TakeStream
  <2>1. /\ served' = [c \in Client |-> None] /\ pc' = "assign" /\ client' = 1
        /\ stream' # None
    <3>1. PICK dest \in Destination, t \in cur_time..(cur_time + TimeStep - 1) :
            stream' = [dest |-> dest, time |-> t]
      BY <1>1 DEF TakeStream
    <3>2. t \in Nat
      BY OptionAssumption DEF PoolInv, FrameOK
    <3> QED BY <1>1, <3>1, <3>2, SetAssumption
         DEF TakeStream, loop, LiveInv, Stream
  <2>2. \A c \in Client : ~(c < 1)
    BY DEF Client
  <2> QED BY <2>1, <2>2 DEF ServedInv, StreamIsOld
<1>2. CASE UNCHANGED vars
  BY <1>2 DEF vars, network, pool, loop, trace, ServedInv, StreamIsOld, WellServed,
              circuit_supports_stream
<1> QED BY <1>1, <1>2

\* The deque of the client at hand gets its new leftmost circuit.
LEMMA DirtiedServes ==
  ASSUME PoolInv, OrderInv, pc = "assign", NEW cl \in Client, cl = client,
         NEW circuit \in Circuit,
         MakeDirty(circuit), circuit_supports_stream(circuit, stream.dest),
         RelaysOf(circuit) \subseteq up, RelaysOf(circuit) \subseteq Relay \ hibernating,
         UNCHANGED <<network, stream>>
  PROVE  /\ served'[cl] # None /\ WellServed(cl)'
         /\ \A c \in Client : c # cl =>
              served'[c] = served[c] /\ dirty'[c] = dirty[c]
<1>1. /\ client \in Client /\ stream.time \in Nat /\ IsDeque(dirty[client])
      /\ DOMAIN dirty = Client /\ DOMAIN served = Client
  BY DEF PoolInv, FrameOK, PoolOK, HandlerReady, Stream
<1>2. PICK new \in Circuit :
        /\ new = [circuit EXCEPT !.dirty_time = stream.time]
        /\ new.dirty_time = stream.time /\ new.path = circuit.path
        /\ new.stable = circuit.stable
  <2>1. [circuit EXCEPT !.dirty_time = stream.time] \in Circuit
    BY <1>1 DEF Circuit
  <2> QED BY <2>1 DEF Circuit
<1> DEFINE d == dirty[client]
           e == appendleft(d, new)
           n == NextLeft(d)
<1>3. dirty' = [dirty EXCEPT ![client] = e] /\ served' = [served EXCEPT ![client] = n]
  BY <1>2 DEF MakeDirty
<1>4. n \in Nat /\ n \in DOMAIN e /\ e[n] = new
  <2>1. n \in Nat
    BY <1>1, NextLeftIsFree
  <2>2. DOMAIN e = DOMAIN d \cup {n}
    BY <1>1, <1>2, AppendIsDeque
  <2>3. e[n] = new
    BY <1>1, <1>2, AppendIsDeque
  <2> HIDE DEF e, n
  <2> QED BY <2>1, <2>2, <2>3
<1> HIDE DEF e, n
<1>5. served'[cl] = n /\ dirty'[cl] = e /\ n # None
  BY <1>1, <1>3, <1>4, SetAssumption
<1>6. new.dirty_time > stream.time - MaxDirtiness /\ new.dirty_time <= stream.time
  BY <1>1, <1>2, OptionAssumption
<1>7. UNCHANGED <<policy, up, hibernating, stream>>
  BY DEF network
<1>8. circuit_supports_stream(new, stream.dest)'
  BY <1>2, <1>7 DEF circuit_supports_stream, ExitOf
<1>9. RelaysOf(new) \subseteq up \ hibernating
  BY <1>2 DEF RelaysOf
<1>10. WellServed(cl)'
  <2>1. dirty'[cl][served'[cl]] = new
    BY <1>4, <1>5
  <2> QED BY <2>1, <1>4, <1>5, <1>6, <1>7, <1>8, <1>9
       DEF WellServed, circuit_supports_stream
<1>11. \A c \in Client : c # cl =>
         served'[c] = served[c] /\ dirty'[c] = dirty[c]
  BY <1>1, <1>3
<1> QED BY <1>5, <1>10, <1>11

\* Each case of client_assign_stream() serves the client at hand and no other.
LEMMA ServedAssign ==
  ASSUME PoolInv, OrderInv, LiveInv, ServedInv,
         AssignToDirty \/ AssignToClean \/ AssignToNew
  PROVE  ServedInv'
<1>1. /\ client \in Client /\ stream # None /\ stream.time \in Nat
      /\ stream.time >= cur_time /\ cur_time \in Nat
      /\ IsDeque(clean[client]) /\ IsDeque(dirty[client]) /\ Updated(client)
      /\ Through(clean[client], up) /\ Through(dirty[client], up)
      /\ TidyDirty(dirty[client], stream.time)
      /\ pc = "assign" /\ DOMAIN served = Client
      /\ NumClients \in Nat /\ up \subseteq Relay
  BY OptionAssumption
     DEF PoolInv, FrameOK, PoolOK, HandlerReady, Stream, LiveInv, OrderInv,
         LastStreamTime, AssignToDirty, AssignToClean, AssignToNew
<1>2. UNCHANGED <<cur_time, network, stream>>
  BY DEF AssignToDirty, AssignToClean, AssignToNew
<1>3. UNCHANGED <<policy, up, hibernating>>
  BY <1>2 DEF network
<1>4. PICK cl \in Client : cl = client
  BY <1>1
<1>5. /\ served'[cl] # None /\ WellServed(cl)'
      /\ \A c \in Client : c # cl => served'[c] = served[c] /\ dirty'[c] = dirty[c]
  <2>1. CASE AssignToDirty
    <3>1. PICK i : i = Leftmost(UsableDirty)
      OBVIOUS
    <3>2. i \in UsableDirty
      <4>1. UsableDirty \subseteq DOMAIN dirty[client]
        BY DEF UsableDirty
      <4>2. IsFiniteSet(UsableDirty) /\ UsableDirty \in SUBSET Nat
        BY <1>1, <4>1, FS_Subset DEF IsDeque
      <4> QED BY <2>1, <3>1, <4>2, LeftmostIsGreatest DEF AssignToDirty
    <3>3. /\ i \in DOMAIN dirty[cl] /\ i \in Nat
          /\ dirty[cl][i].dirty_time > stream.time - MaxDirtiness
          /\ dirty[cl][i].dirty_time <= stream.time
          /\ circuit_supports_stream(dirty[cl][i], stream.dest)
          /\ RelaysOf(dirty[cl][i]) \subseteq up \ hibernating
      BY <1>1, <1>4, <3>2 DEF UsableDirty, TidyDirty, Updated, Through, IsDeque
    <3>4. served' = [served EXCEPT ![client] = i] /\ UNCHANGED dirty
      BY <2>1, <3>1 DEF AssignToDirty, pool
    <3>5. served'[cl] = i /\ i # None
      BY <1>1, <1>4, <3>3, <3>4, SetAssumption
    <3>6. WellServed(cl)'
      BY <1>2, <1>3, <3>3, <3>4, <3>5 DEF WellServed, circuit_supports_stream
    <3> QED BY <1>1, <1>4, <3>4, <3>5, <3>6
  <2>2. CASE AssignToClean
    <3>1. PICK i : i = Leftmost(UsableClean)
      OBVIOUS
    <3>2. i \in UsableClean
      <4>1. UsableClean \subseteq DOMAIN clean[client]
        BY DEF UsableClean
      <4>2. IsFiniteSet(UsableClean) /\ UsableClean \in SUBSET Nat
        BY <1>1, <4>1, FS_Subset DEF IsDeque
      <4> QED BY <2>2, <3>1, <4>2, LeftmostIsGreatest DEF AssignToClean
    <3>3. MakeDirty(clean[client][i])
      BY <2>2, <3>1 DEF AssignToClean
    <3>4. /\ clean[client][i] \in Circuit
          /\ circuit_supports_stream(clean[client][i], stream.dest)
          /\ RelaysOf(clean[client][i]) \subseteq up
          /\ RelaysOf(clean[client][i]) \subseteq Relay \ hibernating
      BY <1>1, <3>2 DEF UsableClean, Updated, Through, IsDeque
    <3> QED BY <1>1, <1>2, <1>4, <3>3, <3>4, DirtiedServes
  <2>3. CASE AssignToNew
    <3> DEFINE wants == PortOf[stream.dest] \in LongLived
               exits == {r \in Relay : stream.dest \in policy[r].accepts}
    <3>1. PICK circuit \in NewCircuits(stream.time, wants, exits) :
            MakeDirty(circuit)
      BY <2>3 DEF AssignToNew
    <3>2. wants \in BOOLEAN
      OBVIOUS
    <3> HIDE DEF wants, exits
    <3>3. /\ circuit \in Circuit /\ RelaysOf(circuit) \subseteq up \ hibernating
          /\ ExitOf(circuit) \in exits /\ circuit.stable = wants
      BY <1>1, <3>1, <3>2, NewCircuitType
    <3>4. circuit_supports_stream(circuit, stream.dest)
      BY <3>3 DEF circuit_supports_stream, exits, wants
    <3> QED BY <1>1, <1>2, <1>4, <3>1, <3>3, <3>4, DirtiedServes
  <2> QED BY <2>1, <2>2, <2>3
<1>6. \A c \in Client : served'[c] # None => WellServed(c)'
  <2> SUFFICES ASSUME NEW c \in Client, c # cl, served'[c] # None
               PROVE  WellServed(c)'
    BY <1>5
  <2>1. served[c] # None /\ WellServed(c)
    BY <1>1, <1>5 DEF ServedInv
  <2> QED BY <1>2, <1>3, <1>5, <2>1 DEF WellServed, circuit_supports_stream
<1>7. NextClient("assign", "stream")
  <2>1. CASE AssignToClean
    <3>1. {Leftmost(UsableClean)} \in SUBSET DOMAIN clean[client]
      <4>1. UsableClean \subseteq DOMAIN clean[client]
        BY DEF UsableClean
      <4>2. IsFiniteSet(UsableClean) /\ UsableClean \in SUBSET Nat
        BY <1>1, <4>1, FS_Subset DEF IsDeque
      <4>3. Leftmost(UsableClean) \in UsableClean
        BY <2>1, <4>2, LeftmostIsGreatest DEF AssignToClean
      <4> QED BY <4>1, <4>3
    <3>2. ~UncoverFails(client, {Leftmost(UsableClean)})
      BY <1>1, <3>1, ClientWithout
    <3> QED BY <2>1, <3>2 DEF AssignToClean
  <2> QED BY <2>1 DEF AssignToDirty, AssignToNew
<1>8. \A c \in Client : c < cl => served'[c] # None
  BY <1>1, <1>4, <1>5 DEF ServedInv, Client
<1>9. CASE client < NumClients
  <2>1. client' = client + 1 /\ pc' = "assign"
    BY <1>7, <1>9 DEF NextClient
  <2>2. \A c \in Client : c < client + 1 => c < cl \/ c = cl
    BY <1>1, <1>4 DEF Client
  <2> QED BY <1>1, <1>2, <1>5, <1>6, <1>8, <2>1, <2>2 DEF ServedInv, StreamIsOld
<1>10. CASE ~(client < NumClients)
  <2>1. pc' = "stream"
    BY <1>7, <1>10 DEF NextClient
  <2>2. \A c \in Client : c < cl \/ c = cl
    BY <1>1, <1>4, <1>10 DEF Client
  <2> QED BY <1>1, <1>2, <1>5, <1>6, <1>8, <2>1, <2>2 DEF ServedInv, StreamIsOld
<1> QED BY <1>9, <1>10

\* Every stream is served by a circuit able to carry it, for every client, before
\* the next stream is looked at.
THEOREM StreamsAlwaysServed == Spec => []StreamServed
<1>1. PoolInv /\ OrderInv /\ LiveInv /\ ServedInv /\ [Next]_vars => ServedInv'
  BY ServedQuiet, ServedStream, ServedAssign DEF Next, Stopped
<1>2. ServedInv => StreamServed
  BY DEF ServedInv, StreamServed, WellServed
<1> QED BY <1>1, <1>2, ServedInit, LiveInductive, PTL DEF Spec
-----------------------------------------------------------------------------
(* Cover.                                                                  *)

Full(c) == Cardinality(DOMAIN clean[c]) = MaxUnused

Enough(c, p) == covered[c][p] >= CoverNum \/ Full(c)

AllEnough(c) == \A p \in Port : needs[p] # None => Enough(c, p)

\* The pool keeps its bound; the clients updated so far, and for the client at
\* hand the needs it has finished with, have what they need.
CoverInv ==
  /\ \A c \in Client : Cardinality(DOMAIN clean[c]) <= MaxUnused
  /\ pc \in {"client", "cover"} => \A c \in Client : c < client => AllEnough(c)
  /\ pc = "cover" =>
       \A p \in Port \ (todo \cup {port}) : needs[p] # None => Enough(client, p)
  /\ (pc = "stream" /\ (stream = None \/ stream.time < cur_time)) =>
       \A c \in Client : AllEnough(c)

\* Initially the deques are empty.
LEMMA CoverInit == ASSUME Init PROVE CoverInv
<1>1. DOMAIN EmptyDeque = {}
  BY DEF EmptyDeque
<1> QED BY <1>1, FS_EmptySet, OptionAssumption DEF Init, CoverInv

\* A deque without some of its circuits is no longer than before.
LEMMA WithoutIsShorter ==
  ASSUME NEW d, NEW gone, IsDeque(d), NEW n \in Nat, Cardinality(DOMAIN d) <= n
  PROVE  Cardinality(DOMAIN Without(d, gone)) <= n
<1>1. DOMAIN Without(d, gone) = DOMAIN d \ gone
  BY WithoutIsDeque
<1>2. IsFiniteSet(DOMAIN d) /\ DOMAIN d \ gone \in SUBSET DOMAIN d
  BY DEF IsDeque
<1>3. /\ Cardinality(DOMAIN d \ gone) <= Cardinality(DOMAIN d)
      /\ IsFiniteSet(DOMAIN d \ gone)
  BY <1>2, FS_Subset
<1>4. Cardinality(DOMAIN d \ gone) \in Nat /\ Cardinality(DOMAIN d) \in Nat
  BY <1>2, <1>3, FS_CardinalityType
<1> QED BY <1>1, <1>3, <1>4

\* The steps that remove circuits, or begin a minute or a stream: no client
\* has been updated since.
LEMMA CoverReset ==
  ASSUME PoolInv, OrderInv, LiveInv, CoverInv,
         \/ NextConsensus \/ GapInConsensuses \/ timed_updates
         \/ TakeStream \/ AssignToClean \/ AssignToNew \/ EndOfMinute
  PROVE  CoverInv'
<1>1. MaxUnused \in Nat /\ \A c \in Client : IsDeque(clean[c])
  BY OptionAssumption DEF PoolInv, PoolOK
<1>2. \A c \in Client : Cardinality(DOMAIN clean'[c]) <= MaxUnused
  <2>1. CASE NextConsensus \/ GapInConsensuses
    <3>1. PICK good : \A c \in Client :
            clean'[c] = Without(clean[c], Broken(clean[c], good))
      BY <2>1 DEF NextConsensus, GapInConsensuses, period_client_update
    <3> QED BY <3>1, <1>1, WithoutIsShorter DEF CoverInv
  <2>2. CASE timed_updates
    <3>1. \A c \in Client : DOMAIN clean'[c] = DOMAIN clean[c]
      BY <2>2 DEF timed_updates, Discard
    <3> QED BY <3>1 DEF CoverInv
  <2>3. CASE TakeStream
    BY <2>3, StreamRelabels DEF CoverInv
  <2>4. CASE AssignToClean
    <3>1. PICK gone : clean' = [clean EXCEPT ![client] = Without(clean[client], gone)]
      BY <2>4 DEF AssignToClean
    <3>2. \A c \in Client : clean'[c] = IF c = client THEN Without(clean[c], gone)
                                        ELSE clean[c]
      BY <3>1 DEF PoolInv, PoolOK
    <3> QED BY <3>2, <1>1, WithoutIsShorter DEF CoverInv
  <2>5. CASE AssignToNew \/ EndOfMinute
    BY <2>5 DEF AssignToNew, EndOfMinute, pool, CoverInv
  <2> QED BY <2>1, <2>2, <2>3, <2>4, <2>5
<1>3. CASE NextConsensus \/ GapInConsensuses \/ EndOfMinute \/ TakeStream
  <2>1. pc' \notin {"client", "cover", "stream"}
    BY <1>3 DEF NextConsensus, GapInConsensuses, period_client_update, EndOfMinute,
                TakeStream
  <2> QED BY <1>2, <2>1 DEF CoverInv
<1>4. CASE timed_updates
  <2>1. pc' = "client" /\ client' = 1
    BY <1>4 DEF timed_updates, loop, LiveInv
  <2>2. \A c \in Client : ~(c < 1)
    BY DEF Client
  <2> QED BY <1>2, <2>1, <2>2 DEF CoverInv
<1>5. CASE AssignToClean \/ AssignToNew
  <2>1. pc' \notin {"client", "cover"} /\ UNCHANGED <<stream, cur_time>>
    BY <1>5 DEF AssignToClean, AssignToNew, NextClient
  <2>2. stream # None /\ ~(stream.time < cur_time)
    BY <1>5 DEF AssignToClean, AssignToNew, OrderInv, PoolInv, FrameOK,
                HandlerReady, Stream
  <2> QED BY <1>2, <2>1, <2>2 DEF CoverInv
<1> QED BY <1>3, <1>4, <1>5

\* A client begins its update with all needs to look at.
LEMMA CoverKill ==
  ASSUME PoolInv, CoverInv, KillCircuits
  PROVE  CoverInv'
<1>1. MaxUnused \in Nat /\ client \in Client /\ \A c \in Client : IsDeque(clean[c])
      /\ DOMAIN clean = Client /\ covered \in [Client -> Counts]
  BY OptionAssumption DEF PoolInv, FrameOK, PoolOK
<1>2. /\ clean' = [clean EXCEPT ![client] = Without(clean[client], GoneClean(client))]
      /\ covered' = [covered EXCEPT ![client] = Uncovered(client, GoneClean(client))]
      /\ todo' = {p \in Port : needs[p] # None}
      /\ UNCHANGED <<client, needs, stream, cur_time>> /\ pc = "client"
      /\ pc' \in {"cover", "error"}
  BY DEF KillCircuits, trace
<1>3. \A c \in Client : Cardinality(DOMAIN clean'[c]) <= MaxUnused
  BY <1>1, <1>2, WithoutIsShorter DEF CoverInv
<1>4. ASSUME NEW c \in Client, c < client
      PROVE  AllEnough(c)'
  <2>1. c # client /\ AllEnough(c)
    BY <1>1, <1>2, <1>4 DEF CoverInv, Client
  <2>2. clean'[c] = clean[c] /\ covered'[c] = covered[c]
    BY <1>1, <1>2, <2>1
  <2> QED BY <1>2, <2>1, <2>2 DEF AllEnough, Enough, Full
<1> QED BY <1>2, <1>3, <1>4 DEF CoverInv

\* Looking at the next need: the loop on the one before ended with enough.
LEMMA LoopEndsWithEnough ==
  ASSUME PoolInv, CoverInv, pc = "cover", ~NeedsCircuit,
         NEW p \in Port \ todo, needs[p] # None
  PROVE  Enough(client, p)
<1>1. /\ client \in Client /\ MaxUnused \in Nat /\ CoverNum \in Nat
      /\ IsDeque(clean[client]) /\ Books(needs, covered[client], clean[client])
  BY OptionAssumption DEF PoolInv, FrameOK, PoolOK
<1>2. Cardinality(DOMAIN clean[client]) \in Nat
      /\ Cardinality(DOMAIN clean[client]) <= MaxUnused
  BY <1>1, FS_CardinalityType DEF IsDeque, CoverInv
<1>3. covered[client][p] \in Nat
  BY <1>1, CoverCountType DEF Books
<1>4. p # None
  BY SetAssumption
<1>5. CASE p = port
  BY <1>1, <1>2, <1>3, <1>4, <1>5 DEF NeedsCircuit, Enough, Full
<1>6. CASE p # port
  BY <1>6 DEF CoverInv
<1> QED BY <1>5, <1>6

\* The steps that leave circuits, needs and books alone.
LEMMA CoverQuiet ==
  ASSUME PoolInv, OrderInv, LiveInv, CoverInv,
         \/ \E p \in Port : LookAtNeed(p)
         \/ ClientUpdated \/ AssignToDirty \/ UNCHANGED vars
  PROVE  CoverInv'
<1>1. UNCHANGED <<clean, covered, needs, cur_time, stream>>
  BY DEF LookAtNeed, ClientUpdated, AssignToDirty, vars, pool, trace
<1>2. \A c \in Client : Cardinality(DOMAIN clean'[c]) <= MaxUnused
  BY <1>1 DEF CoverInv
<1>3. \A c \in Client : AllEnough(c)' <=> AllEnough(c)
  BY <1>1 DEF AllEnough, Enough, Full
<1>4. CASE \E p \in Port : LookAtNeed(p)
  <2>1. PICK q \in Port : LookAtNeed(q)
    BY <1>4
  <2>2. /\ pc = "cover" /\ pc' = "cover" /\ client' = client /\ ~NeedsCircuit
        /\ port' = q /\ todo' = todo \ {q}
    BY <2>1 DEF LookAtNeed
  <2>3. \A p \in Port \ (todo' \cup {port'}) : needs[p] # None => Enough(client, p)
    BY <2>2, LoopEndsWithEnough
  <2>4. \A p \in Port : Enough(client, p)' <=> Enough(client, p)
    BY <1>1, <2>2 DEF Enough, Full
  <2> QED BY <1>1, <1>2, <1>3, <2>2, <2>3, <2>4 DEF CoverInv
<1>5. CASE ClientUpdated
  <2>1. /\ pc = "cover" /\ ~NeedsCircuit /\ todo = {}
        /\ NextClient("client", "stream")
    BY <1>5 DEF ClientUpdated
  <2>2. AllEnough(client)
    BY <2>1, LoopEndsWithEnough DEF AllEnough
  <2>3. /\ client \in Client /\ NumClients \in Nat
        /\ \A c \in Client : c \in Nat /\ c <= NumClients
    BY OptionAssumption DEF PoolInv, FrameOK, Client
  <2>4. \A c \in Client : c <= client => AllEnough(c)
    <3>1. \A c \in Client : c <= client => c = client \/ c < client
      BY <2>3
    <3> QED BY <3>1, <2>1, <2>2 DEF CoverInv
  <2>5. CASE client < NumClients
    <3>1. client' = client + 1 /\ pc' = "client"
      BY <2>1, <2>5 DEF NextClient
    <3>2. \A c \in Client : c < client + 1 => c <= client
      BY <2>3
    <3>3. \A c \in Client : c < client' => AllEnough(c)'
      BY <3>1, <3>2, <2>4, <1>3
    <3> QED BY <1>2, <3>1, <3>3 DEF CoverInv
  <2>6. CASE ~(client < NumClients)
    <3>1. pc' = "stream"
      BY <2>1, <2>6 DEF NextClient
    <3>2. \A c \in Client : c <= client
      BY <2>3, <2>6
    <3>3. \A c \in Client : AllEnough(c)'
      BY <3>2, <2>4, <1>3
    <3> QED BY <1>2, <3>1, <3>3 DEF CoverInv
  <2> QED BY <2>5, <2>6
<1>6. CASE AssignToDirty
  <2>1. pc' \notin {"client", "cover"}
    BY <1>6 DEF AssignToDirty, NextClient
  <2>2. stream # None /\ ~(stream.time < cur_time)
    BY <1>6 DEF AssignToDirty, OrderInv, PoolInv, FrameOK, HandlerReady, Stream
  <2> QED BY <1>1, <1>2, <2>1, <2>2 DEF CoverInv
<1>7. CASE UNCHANGED vars
  <2>1. UNCHANGED <<pc, client, todo, port>>
    BY <1>7 DEF vars, loop
  <2>2. \A p \in Port : Enough(client, p)' <=> Enough(client, p)
    BY <1>1, <2>1 DEF Enough, Full
  <2> QED BY <1>1, <1>2, <1>3, <2>1, <2>2 DEF CoverInv
<1> QED BY <1>4, <1>5, <1>6, <1>7

\* A circuit made for a need takes one of the free places. Before it the places
\* were not full, so the needs finished with were covered; counts only grow.
LEMMA CoverGrows ==
  ASSUME PoolInv, CoverInv, CoverNeed
  PROVE  CoverInv'
<1>1. /\ client \in Client /\ port \in Port /\ needs[port] # None
      /\ cur_time \in Nat /\ pc = "cover" /\ MaxUnused \in Nat /\ CoverNum \in Nat
      /\ IsDeque(clean[client]) /\ Books(needs, covered[client], clean[client])
      /\ covered[client] \in Counts
      /\ Cardinality(DOMAIN clean[client]) < MaxUnused
  BY OptionAssumption DEF PoolInv, FrameOK, PoolOK, HandlerReady, CoverNeed,
     NeedsCircuit
<1>2. needs[port].stable \in BOOLEAN
  BY <1>1 DEF PoolInv, FrameOK, Need
<1>3. PICK circuit \in NewCircuits(cur_time, needs[port].stable,
                                   {r \in Relay : port \in policy[r].ports}) :
        LET ports == CoveredBy(circuit) IN
        /\ clean' = [clean EXCEPT ![client] =
                       appendleft(@, [circuit EXCEPT !.covering = ports])]
        /\ covered' = [covered EXCEPT ![client] =
                         [p \in Port |-> IF p \in ports THEN @[p] + 1 ELSE @[p]]]
  BY DEF CoverNeed
<1> DEFINE new == [circuit EXCEPT !.covering = CoveredBy(circuit)]
           e == appendleft(clean[client], new)
           l == [p \in Port |-> IF p \in CoveredBy(circuit)
                                THEN covered[client][p] + 1
                                ELSE covered[client][p]]
<1>4. clean' = [clean EXCEPT ![client] = e]
      /\ covered' = [covered EXCEPT ![client] = l]
  BY <1>3
<1>5. new \in Circuit
  <2>1. CoveredBy(circuit) \in SUBSET Port
    BY <1>1 DEF CoveredBy
  <2> QED BY <1>1, <1>2, <2>1, NewCircuitType DEF Circuit
<1> HIDE DEF new
<1>6. Cardinality(DOMAIN e) <= MaxUnused
  <2>1. DOMAIN e = DOMAIN clean[client] \cup {NextLeft(clean[client])}
    BY <1>1, <1>5, AppendIsDeque
  <2>2. NextLeft(clean[client]) \notin DOMAIN clean[client]
    BY <1>1, NextLeftIsFree
  <2>3. IsFiniteSet(DOMAIN clean[client])
    BY <1>1 DEF IsDeque
  <2>4. Cardinality(DOMAIN e) = Cardinality(DOMAIN clean[client]) + 1
    BY <2>1, <2>2, <2>3, FS_AddElement
  <2>5. Cardinality(DOMAIN clean[client]) \in Nat
    BY <2>3, FS_CardinalityType
  <2> QED BY <1>1, <2>4, <2>5
<1>7. \A p \in Port : needs[p] # None /\ covered[client][p] >= CoverNum
                        => l[p] >= CoverNum
  <2>1. \A p \in Port : needs[p] # None => covered[client][p] \in Nat
    BY <1>1, CoverCountType DEF Books
  <2> QED BY <1>1, <2>1
<1>8. \A p \in Port \ (todo \cup {port}) :
        needs[p] # None => covered[client][p] >= CoverNum
  <2>1. ~Full(client)
    <3>1. Cardinality(DOMAIN clean[client]) \in Nat
      BY <1>1, FS_CardinalityType DEF IsDeque
    <3> QED BY <1>1, <3>1 DEF Full
  <2> QED BY <1>1, <2>1 DEF CoverInv, Enough
<1> HIDE DEF e, l
<1>9. UNCHANGED <<pc, client, todo, port, needs, stream, cur_time>>
  BY DEF CoverNeed, loop, trace
<1>10. DOMAIN clean = Client /\ covered \in [Client -> Counts]
  BY DEF PoolInv, PoolOK
<1>11. clean'[client] = e /\ covered'[client] = l
  BY <1>1, <1>4, <1>10
<1>12. \A c \in Client : Cardinality(DOMAIN clean'[c]) <= MaxUnused
  BY <1>4, <1>6, <1>10 DEF CoverInv
<1>13. ASSUME NEW c \in Client, c < client
       PROVE  AllEnough(c)'
  <2>1. c # client /\ AllEnough(c)
    BY <1>1, <1>13 DEF CoverInv, Client
  <2>2. clean'[c] = clean[c] /\ covered'[c] = covered[c]
    BY <1>4, <1>10, <2>1
  <2> QED BY <1>9, <2>1, <2>2 DEF AllEnough, Enough, Full
<1>14. \A p \in Port \ (todo \cup {port}) :
         needs[p] # None => covered'[client'][p] >= CoverNum
  BY <1>7, <1>8, <1>9, <1>11
<1>15. pc' = "cover"
  BY <1>1, <1>9
<1> QED BY <1>9, <1>12, <1>13, <1>14, <1>15 DEF CoverInv, Enough

\* Once all clients are updated, every need has its circuits or the client holds
\* as many clean circuits as it may, for any number of needs and clients.
THEOREM NeedsAlwaysCovered == Spec => []NeedsCovered
<1>1. PoolInv /\ OrderInv /\ LiveInv /\ CoverInv /\ [Next]_vars => CoverInv'
  BY CoverReset, CoverKill, CoverQuiet, CoverGrows DEF Next, Stopped
<1>2. CoverInv => NeedsCovered
  BY DEF CoverInv, NeedsCovered, AllEnough, Enough, Full
<1> QED BY <1>1, <1>2, CoverInit, LiveInductive, PTL DEF Spec
=============================================================================
