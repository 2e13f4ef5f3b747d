------------------------ MODULE CoordinateNetworkProofs ------------------------
(***************************************************************************)
(* The invariants of CoordinateNetwork, for any number of nodes and pings, *)
(* any maps of latencies and any sizes of the windows.                     *)
(***************************************************************************)
EXTENDS CoordinateNetwork, SequenceTheorems, TLAPS
-----------------------------------------------------------------------------
(* What an insertion does to the lists of a node and to the counts of its  *)
(* samples.                                                                *)

\* The counts are exact, but for a sample x that no list may hold yet.
CountedBut(s, x) ==
  \A a \in Address :
    /\ a \in s.allocated <=> (a = x \/ \E name \in List : Holds(s.list[name], a))
    /\ a \in s.allocated =>
         s.refct[a] = One(Holds(s.list["memory"], a))
                    + One(Holds(s.list["error"], a))
                    + One(Holds(s.list["centroid"], a))

\* Each element of a list stands in one place.
Distinct(l) == \A i, j \in 1..Len(l) : l[i] = l[j] => i = j

\* A list after an element was put in front.
LEMMA FrontList ==
  ASSUME NEW S, NEW l \in Seq(S), NEW x \in S
  PROVE  /\ <<x>> \o l \in Seq(S)
         /\ Len(<<x>> \o l) = Len(l) + 1
         /\ (<<x>> \o l)[1] = x
         /\ \A a : Holds(<<x>> \o l, a) <=> a = x \/ Holds(l, a)
         /\ Distinct(l) /\ ~Holds(l, x) => Distinct(<<x>> \o l)
<1> DEFINE m == <<x>> \o l
<1>1. m \in Seq(S) /\ Len(m) = Len(l) + 1 /\ m[1] = x
  OBVIOUS
<1>2. \A i \in 1..Len(l) : m[i + 1] = l[i]
  OBVIOUS
<1>3. \A i \in 1..Len(m) : i # 1 => i - 1 \in 1..Len(l) /\ m[i] = l[i - 1]
  BY <1>1
<1>4. \A a : Holds(m, a) <=> a = x \/ Holds(l, a)
  <2> HIDE DEF m
  <2> TAKE a
  <2>1. Holds(m, a) => a = x \/ Holds(l, a)
    BY <1>1, <1>3 DEF Holds
  <2>2. a = x => Holds(m, a)
    BY <1>1 DEF Holds
  <2>3. Holds(l, a) => Holds(m, a)
    <3> SUFFICES ASSUME NEW i \in 1..Len(l), l[i] = a PROVE Holds(m, a)
      BY DEF Holds
    <3>1. i + 1 \in 1..Len(m) /\ m[i + 1] = a
      BY <1>1, <1>2
    <3> QED BY <3>1 DEF Holds
  <2> QED BY <2>1, <2>2, <2>3
<1>5. Distinct(l) /\ ~Holds(l, x) => Distinct(m)
  <2> HIDE DEF m
  <2> SUFFICES ASSUME Distinct(l), ~Holds(l, x),
                      NEW i \in 1..Len(m), NEW j \in 1..Len(m), m[i] = m[j]
               PROVE  i = j
    BY DEF Distinct
  <2>1. CASE i = 1 /\ j # 1
    BY <2>1, <1>1, <1>3 DEF Holds
  <2>2. CASE i # 1 /\ j = 1
    BY <2>2, <1>1, <1>3 DEF Holds
  <2>3. CASE i # 1 /\ j # 1
    <3>1. i - 1 = j - 1
      BY <2>3, <1>3 DEF Distinct
    <3> QED BY <3>1, <1>1
  <2> QED BY <2>1, <2>2, <2>3
<1> QED BY <1>1, <1>4, <1>5

\* A list after its last element was dropped.
LEMMA ShorterList ==
  ASSUME NEW S, NEW l \in Seq(S), Len(l) > 1, Distinct(l)
  PROVE  /\ SubSeq(l, 1, Len(l) - 1) \in Seq(S)
         /\ Len(SubSeq(l, 1, Len(l) - 1)) = Len(l) - 1
         /\ SubSeq(l, 1, Len(l) - 1)[1] = l[1]
         /\ \A a : Holds(SubSeq(l, 1, Len(l) - 1), a) <=> Holds(l, a) /\ a # l[Len(l)]
         /\ Distinct(SubSeq(l, 1, Len(l) - 1))
<1> DEFINE m == SubSeq(l, 1, Len(l) - 1)
<1>1. m \in Seq(S) /\ Len(m) = Len(l) - 1 /\ \A i \in 1..Len(m) : m[i] = l[i]
  OBVIOUS
<1>2. Len(l) \in Nat
  OBVIOUS
<1> HIDE DEF m
<1>3. m[1] = l[1]
  BY <1>1, <1>2
<1>4. \A a : Holds(m, a) <=> Holds(l, a) /\ a # l[Len(l)]
  <2> TAKE a
  <2>1. Holds(m, a) => Holds(l, a) /\ a # l[Len(l)]
    <3> SUFFICES ASSUME NEW i \in 1..Len(m), m[i] = a
                 PROVE  Holds(l, a) /\ a # l[Len(l)]
      BY DEF Holds
    <3>1. i \in 1..Len(l) /\ l[i] = a /\ i # Len(l) /\ Len(l) \in 1..Len(l)
      BY <1>1, <1>2
    <3> QED BY <3>1 DEF Holds, Distinct
  <2>2. Holds(l, a) /\ a # l[Len(l)] => Holds(m, a)
    <3> SUFFICES ASSUME NEW i \in 1..Len(l), l[i] = a, i # Len(l) PROVE Holds(m, a)
      BY DEF Holds
    <3>1. i \in 1..Len(m) /\ m[i] = a
      BY <1>1, <1>2
    <3> QED BY <3>1 DEF Holds
  <2> QED BY <2>1, <2>2
<1>5. Distinct(m)
  BY <1>1, <1>2 DEF Distinct
<1> QED BY <1>1, <1>3, <1>4, <1>5 DEF m
-----------------------------------------------------------------------------
LEMMA Lists == "memory" \in List /\ "error" \in List /\ "centroid" \in List
               /\ \A name \in List : name \in {"memory", "error", "centroid"}
BY DEF List

LEMMA LimitType == Limit \in [List -> Nat \ {0}] /\ Limit["memory"] > 1
                   /\ Limit["error"] <= Limit["memory"]
BY WindowAssumption DEF Limit, List

\* A list takes a sample that is allocated and that it does not hold.
LEMMA PushLemma ==
  ASSUME NEW s \in Store, NEW name \in List, NEW x \in Address,
         \A n \in List : Distinct(s.list[n]),
         CountedBut(s, x), ~Holds(s.list[name], x)
  PROVE  /\ Push(s, name, x) \in Store
         /\ Push(s, name, x).list = [s.list EXCEPT ![name] = <<x>> \o @]
         /\ \A n \in List : Distinct(Push(s, name, x).list[n])
         /\ Counted(Push(s, name, x))
<1> DEFINE t == Push(s, name, x)
<1> DEFINE l == <<x>> \o s.list[name]
<1>0. s.list \in [List -> Seq(Address)] /\ s.list[name] \in Seq(Address)
      /\ s.refct \in [Address -> Int] /\ s.allocated \in SUBSET Address
  BY DEF Store
<1>1. l \in Seq(Address) /\ Distinct(l) /\ \A a : Holds(l, a) <=> a = x \/ Holds(s.list[name], a)
  BY <1>0, FrontList
<1> HIDE DEF l
<1>2. /\ t.list = [s.list EXCEPT ![name] = l]
      /\ t.allocated = s.allocated
      /\ t.refct = [s.refct EXCEPT ![x] = @ + 1]
  <2>1. s = [list |-> s.list, allocated |-> s.allocated, refct |-> s.refct]
    BY DEF Store
  <2>2. t.list = [s.list EXCEPT ![name] = l]
    BY <2>1 DEF Push, l
  <2>3. t.allocated = s.allocated
    BY <2>1 DEF Push
  <2>4. t.refct = [s.refct EXCEPT ![x] = @ + 1]
    BY <2>1 DEF Push
  <2> QED BY <2>2, <2>3, <2>4
<1>3. t \in Store
  <2> DEFINE L == [s.list EXCEPT ![name] = l]
  <2> DEFINE R == [s.refct EXCEPT ![x] = @ + 1]
  <2>1. L \in [List -> Seq(Address)] /\ R \in [Address -> Int]
    BY <1>0, <1>1
  <2>2. t = [s EXCEPT !.list = L, !.refct = R]
    BY DEF Push, l
  <2> HIDE DEF t, L, R
  <2> QED BY <2>1, <2>2 DEF Store
<1>4. \A n \in List : Distinct(t.list[n])
  BY <1>0, <1>1, <1>2
<1>5. Counted(t)
  <2> HIDE DEF t
  <2> SUFFICES ASSUME NEW a \in Address
               PROVE  /\ a \in t.allocated <=> \E n \in List : Holds(t.list[n], a)
                      /\ a \in t.allocated =>
                           t.refct[a] = One(Holds(t.list["memory"], a))
                                      + One(Holds(t.list["error"], a))
                                      + One(Holds(t.list["centroid"], a))
    BY DEF Counted
  <2>1. \A n \in List : Holds(t.list[n], a) <=>
                          Holds(s.list[n], a) \/ (n = name /\ a = x)
    BY <1>0, <1>1, <1>2
  <2>2. a \in t.allocated <=> \E n \in List : Holds(t.list[n], a)
    BY <2>1, <1>2 DEF CountedBut
  <2>3. t.refct[a] = IF a = x THEN s.refct[a] + 1 ELSE s.refct[a]
    BY <1>0, <1>2
  <2>4. a \in t.allocated =>
          s.refct[a] = One(Holds(s.list["memory"], a))
                     + One(Holds(s.list["error"], a))
                     + One(Holds(s.list["centroid"], a))
    BY <1>2 DEF CountedBut
  <2>5. a # x => \A n \in List : Holds(t.list[n], a) <=> Holds(s.list[n], a)
    BY <2>1
  <2>6. ASSUME a = x, NEW n \in List
        PROVE  One(Holds(t.list[n], a)) =
                 IF n = name THEN 1 ELSE One(Holds(s.list[n], a))
    BY <2>1, <2>6 DEF One
  <2>7. CASE a # x
    BY <2>2, <2>3, <2>4, <2>5, <2>7, Lists DEF One
  <2>8. CASE a = x
    <3>1. One(Holds(s.list[name], a)) = 0 /\ s.refct[a] \in Int
          /\ \A n \in List : One(Holds(s.list[n], a)) \in Int
      BY <2>8, <1>0 DEF One
    <3>2. CASE name = "memory"
      BY <2>2, <2>3, <2>4, <2>6, <2>8, <3>1, <3>2, Lists
    <3>3. CASE name = "error"
      BY <2>2, <2>3, <2>4, <2>6, <2>8, <3>1, <3>3, Lists
    <3>4. CASE name = "centroid"
      BY <2>2, <2>3, <2>4, <2>6, <2>8, <3>1, <3>4, Lists
    <3> QED BY <3>2, <3>3, <3>4, Lists
  <2> QED BY <2>7, <2>8
<1> QED BY <1>2, <1>3, <1>4, <1>5 DEF l

\* A list drops its last sample, which goes with the last list that held it.
LEMMA PopLemma ==
  ASSUME NEW s \in Store, NEW name \in List,
         \A n \in List : Distinct(s.list[n]),
         Counted(s), Len(s.list[name]) > 1
  PROVE  /\ PopLast(s, name) \in Store
         /\ PopLast(s, name).list =
              [s.list EXCEPT ![name] = SubSeq(@, 1, Len(@) - 1)]
         /\ \A n \in List : Distinct(PopLast(s, name).list[n])
         /\ Counted(PopLast(s, name))
<1> DEFINE t == PopLast(s, name)
<1> DEFINE l == SubSeq(s.list[name], 1, Len(s.list[name]) - 1)
<1> DEFINE old == s.list[name][Len(s.list[name])]
<1>0. s.list \in [List -> Seq(Address)] /\ s.list[name] \in Seq(Address)
      /\ s.refct \in [Address -> Int] /\ s.allocated \in SUBSET Address
  BY DEF Store
<1>1. old \in Address /\ Holds(s.list[name], old)
  <2>1. Len(s.list[name]) \in 1..Len(s.list[name])
    BY <1>0
  <2> QED BY <1>0, <2>1 DEF Holds
<1>2. l \in Seq(Address) /\ Distinct(l)
      /\ \A a : Holds(l, a) <=> Holds(s.list[name], a) /\ a # old
  BY <1>0, ShorterList
<1> HIDE DEF l, old
<1> DEFINE L == [s.list EXCEPT ![name] = l]
<1> DEFINE R == [s.refct EXCEPT ![old] = @ - 1]
<1> DEFINE popped == [s EXCEPT !.list = L, !.refct = R]
<1>3. L \in [List -> Seq(Address)] /\ R \in [Address -> Int]
  BY <1>0, <1>1, <1>2
<1>4. popped \in Store /\ popped.list = L /\ popped.refct = R
      /\ popped.allocated = s.allocated
  <2> HIDE DEF L, R
  <2>1. s = [list |-> s.list, allocated |-> s.allocated, refct |-> s.refct]
    BY DEF Store
  <2> QED BY <1>3, <2>1 DEF Store
<1>5. popped.refct[old] = s.refct[old] - 1
  BY <1>4, <1>0, <1>1
<1>6. t = IF popped.refct[old] <= 0 THEN viv_sample_free(popped, old) ELSE popped
  BY DEF PopLast, l, old
<1> HIDE DEF L, R, popped, t
<1>7. t \in Store /\ t.list = L
      /\ t.allocated = (IF s.refct[old] - 1 <= 0 THEN s.allocated \ {old} ELSE s.allocated)
      /\ \A a \in Address : a \in t.allocated => t.refct[a] = R[a]
  <2>1. CASE s.refct[old] - 1 <= 0
    <3> DEFINE A == popped.allocated \ {old}
    <3> DEFINE Z == [popped.refct EXCEPT ![old] = 0]
    <3>1. t = [popped EXCEPT !.allocated = A, !.refct = Z]
      BY <2>1, <1>0, <1>1, <1>5, <1>6 DEF viv_sample_free
    <3>2. A \in SUBSET Address /\ Z \in [Address -> Int]
          /\ \A a \in Address : a # old => Z[a] = R[a]
      BY <1>0, <1>1, <1>3, <1>4
    <3>3. popped = [list |-> popped.list, allocated |-> popped.allocated,
                    refct |-> popped.refct]
      BY <1>4 DEF Store
    <3> HIDE DEF A, Z
    <3>4. t \in Store
      BY <3>1, <3>2, <1>4 DEF Store
    <3>5. t.list = L /\ t.allocated = A /\ t.refct = Z
      BY <3>1, <3>3, <1>4
    <3> QED BY <2>1, <3>2, <3>4, <3>5, <1>4 DEF A
  <2>2. CASE ~(s.refct[old] - 1 <= 0)
    BY <2>2, <1>4, <1>5, <1>6
  <2> QED BY <2>1, <2>2
<1>8. \A n \in List : Distinct(t.list[n])
  BY <1>0, <1>2, <1>7 DEF L
<1>9. Counted(t)
  <2> SUFFICES ASSUME NEW a \in Address
               PROVE  /\ a \in t.allocated <=> \E n \in List : Holds(t.list[n], a)
                      /\ a \in t.allocated =>
                           t.refct[a] = One(Holds(t.list["memory"], a))
                                      + One(Holds(t.list["error"], a))
                                      + One(Holds(t.list["centroid"], a))
    BY DEF Counted
  <2>1. \A n \in List : Holds(t.list[n], a) <=>
                          Holds(s.list[n], a) /\ ~(n = name /\ a = old)
    BY <1>0, <1>2, <1>7 DEF L
  <2>2. /\ a \in s.allocated <=> \E n \in List : Holds(s.list[n], a)
        /\ a \in s.allocated =>
             s.refct[a] = One(Holds(s.list["memory"], a))
                        + One(Holds(s.list["error"], a))
                        + One(Holds(s.list["centroid"], a))
    BY DEF Counted
  <2>3. CASE a # old
    <3>1. \A n \in List : Holds(t.list[n], a) <=> Holds(s.list[n], a)
      BY <2>1, <2>3
    <3>2. a \in t.allocated <=> a \in s.allocated
      BY <2>3, <1>7
    <3>3. a \in t.allocated => t.refct[a] = s.refct[a]
      BY <2>3, <1>7, <1>0 DEF R
    <3> QED BY <2>2, <3>1, <3>2, <3>3, Lists DEF One
  <2>4. CASE a = old
    <3>1. a \in s.allocated
      BY <2>2, <2>4, <1>1
    <3>2. ASSUME NEW n \in List
          PROVE  /\ One(Holds(s.list[n], a)) =
                      IF n = name THEN 1 ELSE One(Holds(t.list[n], a))
                 /\ One(Holds(t.list[n], a)) \in {0, 1}
                 /\ One(Holds(t.list[n], a)) = 1 <=> Holds(t.list[n], a)
                 /\ n = name => One(Holds(t.list[n], a)) = 0
      BY <2>1, <2>4, <1>1 DEF One
    <3>3. s.refct[a] - 1 = One(Holds(t.list["memory"], a))
                         + One(Holds(t.list["error"], a))
                         + One(Holds(t.list["centroid"], a))
      <4>1. s.refct[a] = One(Holds(s.list["memory"], a))
                       + One(Holds(s.list["error"], a))
                       + One(Holds(s.list["centroid"], a))
        BY <2>2, <3>1
      <4>2. CASE name = "memory"
        BY <3>2, <4>1, <4>2, Lists
      <4>3. CASE name = "error"
        BY <3>2, <4>1, <4>3, Lists
      <4>4. CASE name = "centroid"
        BY <3>2, <4>1, <4>4, Lists
      <4> QED BY <4>2, <4>3, <4>4, Lists
    <3>4. s.refct[a] - 1 <= 0 <=> ~ \E n \in List : Holds(t.list[n], a)
      BY <3>2, <3>3, Lists
    <3>5. a \in t.allocated <=> ~(s.refct[a] - 1 <= 0)
      BY <2>4, <3>1, <1>7
    <3>6. a \in t.allocated => t.refct[a] = s.refct[a] - 1
      BY <2>4, <1>7, <1>0, <1>1 DEF R
    <3> QED BY <3>3, <3>4, <3>5, <3>6
  <2> QED BY <2>3, <2>4
<1> QED BY <1>7, <1>8, <1>9 DEF t, L, l

\* An insertion keeps the limits and the counts; the sample stands in front.
LEMMA InsertLemma ==
  ASSUME NEW s \in Store, NEW name \in List, NEW x \in Address,
         Bounded(s), CountedBut(s, x), ~Holds(s.list[name], x)
  PROVE  /\ Insert(s, name, x) \in Store
         /\ Bounded(Insert(s, name, x)) /\ Counted(Insert(s, name, x))
         /\ \A n \in List : n # name => Insert(s, name, x).list[n] = s.list[n]
         /\ Insert(s, name, x).list[name][1] = x
         /\ Len(Insert(s, name, x).list[name]) =
              IF Len(s.list[name]) < Limit[name] THEN Len(s.list[name]) + 1
              ELSE Limit[name]
         /\ \A a : Holds(Insert(s, name, x).list[name], a) =>
              a = x \/ Holds(s.list[name], a)
<1> DEFINE p == Push(s, name, x)
<1> DEFINE t == Insert(s, name, x)
<1>0. s.list \in [List -> Seq(Address)] /\ s.list[name] \in Seq(Address)
      /\ Limit[name] \in Nat \ {0} /\ Len(s.list[name]) <= Limit[name]
      /\ \A n \in List : Distinct(s.list[n]) /\ Len(s.list[n]) <= Limit[n]
  BY LimitType DEF Store, Bounded, Distinct
<1>1. /\ p \in Store /\ p.list = [s.list EXCEPT ![name] = <<x>> \o @]
      /\ \A n \in List : Distinct(p.list[n])
      /\ Counted(p)
  BY <1>0, PushLemma
<1> HIDE DEF p
<1>2. /\ p.list[name] \in Seq(Address) /\ p.list[name][1] = x
      /\ Len(p.list[name]) = Len(s.list[name]) + 1
      /\ \A a : Holds(p.list[name], a) <=> a = x \/ Holds(s.list[name], a)
      /\ \A n \in List : n # name => p.list[n] = s.list[n]
  BY <1>0, <1>1, FrontList
<1>3. t = IF Len(p.list[name]) > Limit[name] THEN PopLast(p, name) ELSE p
  BY DEF Insert, p
<1> HIDE DEF t
<1>4. CASE Len(p.list[name]) > Limit[name]
  <2> DEFINE l == SubSeq(p.list[name], 1, Len(p.list[name]) - 1)
  <2>1. Len(p.list[name]) > 1
    BY <1>4, <1>0, <1>2
  <2>2. /\ t \in Store /\ t.list = [p.list EXCEPT ![name] = l]
        /\ \A n \in List : Distinct(t.list[n])
        /\ Counted(t)
    <3>1. t = PopLast(p, name)
      BY <1>3, <1>4
    <3> QED BY <3>1, <1>1, <2>1, PopLemma
  <2>3. /\ Len(l) = Len(p.list[name]) - 1 /\ l[1] = x
        /\ \A a : Holds(l, a) => Holds(p.list[name], a)
    BY <1>1, <1>2, <2>1, ShorterList
  <2> HIDE DEF l
  <2>4. t.list[name] = l /\ \A n \in List : n # name => t.list[n] = s.list[n]
    BY <2>2, <1>1, <1>2 DEF Store
  <2>5. Len(l) = Limit[name] /\ Len(s.list[name]) = Limit[name]
    BY <1>4, <1>0, <1>2, <2>3
  <2>6. Bounded(t)
    <3>1. \A n \in List : Len(t.list[n]) <= Limit[n]
      BY <2>4, <2>5, <1>0
    <3> QED BY <2>2, <3>1 DEF Bounded, Distinct
  <2>7. /\ t.list[name][1] = x
        /\ Len(t.list[name]) =
              IF Len(s.list[name]) < Limit[name] THEN Len(s.list[name]) + 1
              ELSE Limit[name]
        /\ \A a : Holds(t.list[name], a) => a = x \/ Holds(s.list[name], a)
    BY <2>3, <2>4, <2>5, <1>0, <1>2
  <2> QED BY <2>2, <2>4, <2>6, <2>7 DEF t
<1>5. CASE ~(Len(p.list[name]) > Limit[name])
  <2>1. t = p
    BY <1>3, <1>5
  <2>2. Len(s.list[name]) < Limit[name]
    BY <1>5, <1>2, <1>0
  <2>3. Bounded(t)
    <3>1. \A n \in List : Len(t.list[n]) <= Limit[n]
      BY <2>1, <1>2, <1>5, <1>0
    <3> QED BY <2>1, <3>1, <1>1 DEF Bounded, Distinct
  <2> QED BY <2>1, <2>2, <2>3, <1>1, <1>2 DEF t
<1> QED BY <1>4, <1>5
-----------------------------------------------------------------------------
NodeOK(s) == s \in Store /\ Bounded(s) /\ Counted(s)

\* A node between two pings: once it remembers a sample it has both windows, and the
\* memory is not shorter than the window of errors.
Settled(s) ==
  /\ s.list["memory"] # <<>> => s.list["error"] # <<>> /\ s.list["centroid"] # <<>>
  /\ Len(s.list["error"]) <= Len(s.list["memory"])

\* A node that has recorded sample x and not yet considered it.
Recorded(s, x) ==
  /\ x \in Address /\ s.list["memory"] # <<>> /\ s.list["memory"][1] = x
  /\ ~Holds(s.list["error"], x) /\ ~Holds(s.list["centroid"], x)
  /\ Len(s.list["memory"]) > 1 => s.list["error"] # <<>> /\ s.list["centroid"] # <<>>
  /\ Len(s.list["error"]) <= Len(s.list["memory"])
  /\ \/ Len(s.list["error"]) < Len(s.list["memory"])
     \/ Len(s.list["memory"]) = Limit["memory"]

LEMMA StoreLists ==
  ASSUME NEW s \in Store
  PROVE  /\ s.list["memory"] \in Seq(Address) /\ Len(s.list["memory"]) \in Nat
         /\ s.list["error"] \in Seq(Address) /\ Len(s.list["error"]) \in Nat
         /\ s.list["centroid"] \in Seq(Address) /\ Len(s.list["centroid"]) \in Nat
BY Lists DEF Store

LEMMA EmptyStoreOK == NodeOK(EmptyStore) /\ Settled(EmptyStore)
<1>1. EmptyStore \in Store
  BY DEF EmptyStore, Store
<1>2. \A name \in List : EmptyStore.list[name] = <<>>
  BY DEF EmptyStore
<1>3. Bounded(EmptyStore)
  BY <1>2, LimitType DEF Bounded
<1>4. \A name \in List, a \in Address : ~Holds(EmptyStore.list[name], a)
  BY <1>2 DEF Holds
<1>5. Counted(EmptyStore)
  BY <1>4 DEF Counted, EmptyStore
<1> QED BY <1>1, <1>2, <1>3, <1>5, Lists DEF NodeOK, Settled

LEMMA RecordLemma ==
  ASSUME NEW s, NodeOK(s), Settled(s), NEW x \in Address \ s.allocated
  PROVE  /\ NodeOK(viv_record_ping_sample(s, x))
         /\ Recorded(viv_record_ping_sample(s, x), x)
<1> DEFINE i == viv_sample_init(s, x)
<1> DEFINE t == viv_record_ping_sample(s, x)
<1>0. s.list \in [List -> Seq(Address)] /\ s.refct \in [Address -> Int]
      /\ s.allocated \in SUBSET Address /\ s \in Store
  BY DEF Store, NodeOK
<1>1. /\ i.list = s.list /\ i.allocated = s.allocated \cup {x}
      /\ i.refct = [s.refct EXCEPT ![x] = 0]
  <2>1. s = [list |-> s.list, allocated |-> s.allocated, refct |-> s.refct]
    BY <1>0 DEF Store
  <2> QED BY <2>1 DEF viv_sample_init
<1>2. i \in Store
  <2> DEFINE A == s.allocated \cup {x}
  <2> DEFINE R == [s.refct EXCEPT ![x] = 0]
  <2>1. A \in SUBSET Address /\ R \in [Address -> Int]
    BY <1>0
  <2>2. i = [s EXCEPT !.allocated = A, !.refct = R]
    BY DEF viv_sample_init
  <2> HIDE DEF i, A, R
  <2> QED BY <2>1, <2>2, <1>0 DEF Store
<1> HIDE DEF i
<1>3. \A name \in List : ~Holds(s.list[name], x)
  BY DEF NodeOK, Counted
<1>4. CountedBut(i, x)
  <2> SUFFICES ASSUME NEW a \in Address
               PROVE  /\ a \in i.allocated <=>
                           (a = x \/ \E name \in List : Holds(i.list[name], a))
                      /\ a \in i.allocated =>
                           i.refct[a] = One(Holds(i.list["memory"], a))
                                      + One(Holds(i.list["error"], a))
                                      + One(Holds(i.list["centroid"], a))
    BY DEF CountedBut
  <2>1. CASE a = x
    BY <2>1, <1>0, <1>1, <1>3, Lists DEF One
  <2>2. CASE a # x
    <3>1. i.refct[a] = s.refct[a] /\ (a \in i.allocated <=> a \in s.allocated)
      BY <2>2, <1>0, <1>1
    <3> QED BY <3>1, <2>2, <1>1 DEF NodeOK, Counted
  <2> QED BY <2>1, <2>2
<1>5. Bounded(i)
  BY <1>1 DEF NodeOK, Bounded
<1>6. t = Insert(i, "memory", x)
  BY DEF viv_record_ping_sample, i
<1> HIDE DEF t
<1>7. /\ t \in Store /\ Bounded(t) /\ Counted(t)
      /\ t.list["error"] = s.list["error"] /\ t.list["centroid"] = s.list["centroid"]
      /\ t.list["memory"][1] = x
      /\ Len(t.list["memory"]) =
           IF Len(s.list["memory"]) < Limit["memory"] THEN Len(s.list["memory"]) + 1
           ELSE Limit["memory"]
  BY <1>1, <1>2, <1>3, <1>4, <1>5, <1>6, InsertLemma, Lists
<1>8. Len(s.list["memory"]) <= Limit["memory"]
  BY Lists DEF NodeOK, Bounded
<1>9. Recorded(t, x)
  <2>1. t.list["memory"] # <<>>
    BY <1>7, <1>0, StoreLists, LimitType
  <2>2. Len(t.list["memory"]) > 1 => s.list["memory"] # <<>>
    <3>1. s.list["memory"] = <<>> => Len(s.list["memory"]) = 0
      OBVIOUS
    <3> QED BY <3>1, <1>7, LimitType
  <2>3. Len(s.list["error"]) <= Len(s.list["memory"])
    BY DEF Settled
  <2>4. /\ Len(t.list["error"]) <= Len(t.list["memory"])
        /\ \/ Len(t.list["error"]) < Len(t.list["memory"])
           \/ Len(t.list["memory"]) = Limit["memory"]
    BY <2>3, <1>7, <1>8, <1>0, StoreLists, LimitType
  <2> QED BY <2>1, <2>2, <2>4, <1>3, <1>7, Lists DEF Recorded, Settled
<1> QED BY <1>7, <1>9 DEF t, NodeOK

LEMMA UpdateLemma ==
  ASSUME NEW s, NEW x, NodeOK(s), Recorded(s, x), NEW t \in viv_update(s, x)
  PROVE  NodeOK(t) /\ Settled(t)
<1>0. s \in Store /\ x \in Address /\ Holds(s.list["memory"], x)
  <2>1. s \in Store /\ x \in Address
    BY DEF NodeOK, Recorded
  <2>2. 1 \in 1..Len(s.list["memory"])
    BY <2>1, StoreLists DEF Recorded
  <2> QED BY <2>1, <2>2 DEF Recorded, Holds
<1>1. CASE t = s /\ FALSE \in Verdicts(s)
  <2>1. Len(s.list["memory"]) > 1
    <3>1. ~Bootstrapping(s)
      BY <1>1, Zenon DEF Verdicts
    <3> QED BY <3>1, <1>0, StoreLists, WindowAssumption DEF Bootstrapping
  <2> QED BY <1>1, <2>1 DEF Recorded, Settled
<1>2. CASE t = viv_prot_update_buffers(s, x)
  <2> DEFINE e == Insert(s, "error", x)
  <2>1. CountedBut(s, x)
    BY <1>0, Lists DEF NodeOK, Counted, CountedBut
  <2>2. /\ e \in Store /\ Bounded(e) /\ Counted(e)
        /\ e.list["memory"] = s.list["memory"]
        /\ e.list["centroid"] = s.list["centroid"]
        /\ Len(e.list["error"]) =
             IF Len(s.list["error"]) < Limit["error"] THEN Len(s.list["error"]) + 1
             ELSE Limit["error"]
    BY <2>1, <1>0, InsertLemma, Lists DEF NodeOK, Recorded
  <2> HIDE DEF e
  <2>3. CountedBut(e, x)
    BY <2>2, <1>0, Lists DEF Counted, CountedBut
  <2>4. t = Insert(e, "centroid", x)
    BY <1>2 DEF viv_prot_update_buffers, e
  <2>5. /\ t \in Store /\ Bounded(t) /\ Counted(t)
        /\ t.list["memory"] = s.list["memory"]
        /\ t.list["error"] = e.list["error"]
        /\ Len(t.list["centroid"]) =
             IF Len(s.list["centroid"]) < Limit["centroid"]
             THEN Len(s.list["centroid"]) + 1 ELSE Limit["centroid"]
    <3>1. ~Holds(e.list["centroid"], x)
      BY <2>2 DEF Recorded
    <3>2. "memory" \in List /\ "error" \in List /\ "memory" # "centroid"
          /\ "error" # "centroid"
      BY Lists
    <3>3. \A y \in Store :
            Bounded(y) /\ CountedBut(y, x) /\ ~Holds(y.list["centroid"], x) =>
              LET z == Insert(y, "centroid", x) IN
              /\ z \in Store /\ Bounded(z) /\ Counted(z)
              /\ z.list["memory"] = y.list["memory"]
              /\ z.list["error"] = y.list["error"]
              /\ Len(z.list["centroid"]) =
                   IF Len(y.list["centroid"]) < Limit["centroid"]
                   THEN Len(y.list["centroid"]) + 1 ELSE Limit["centroid"]
      BY <3>2, <1>0, InsertLemma, Lists
    <3> HIDE DEF e
    <3> QED BY <2>2, <2>3, <2>4, <3>1, <3>3
  <2>6. Len(t.list["centroid"]) > 0 /\ Len(t.list["error"]) > 0
    BY <2>2, <2>5, <1>0, StoreLists, LimitType, Lists
  <2>7. Len(t.list["error"]) <= Len(t.list["memory"])
    <3>1. \/ Len(s.list["error"]) < Len(s.list["memory"])
          \/ Len(s.list["memory"]) = Limit["memory"]
      BY DEF Recorded
    <3>2. Len(s.list["error"]) \in Nat /\ Len(s.list["memory"]) \in Nat
          /\ Limit["error"] \in Nat /\ Limit["memory"] \in Nat
          /\ Limit["error"] <= Limit["memory"]
      BY <1>0, StoreLists, LimitType, Lists
    <3> QED BY <2>2, <2>5, <3>1, <3>2
  <2>8. t.list["error"] # <<>> /\ t.list["centroid"] # <<>>
    BY <2>6
  <2> QED BY <2>5, <2>7, <2>8 DEF NodeOK, Settled
<1>3. \/ t = s /\ FALSE \in Verdicts(s)
      \/ t = viv_prot_update_buffers(s, x)
  <2>1. PICK c \in Verdicts(s), o \in Verdicts(s) :
          t = IF c /\ o THEN viv_prot_update_buffers(s, x) ELSE s
    BY DEF viv_update
  <2>2. c \in BOOLEAN /\ o \in BOOLEAN
    BY DEF Verdicts
  <2>3. CASE c = TRUE /\ o = TRUE
    BY <2>1, <2>3
  <2>4. CASE c = FALSE
    BY <2>1, <2>4
  <2>5. CASE o = FALSE
    BY <2>1, <2>5
  <2> QED BY <2>2, <2>3, <2>4, <2>5
<1> QED BY <1>1, <1>2, <1>3
-----------------------------------------------------------------------------
(* The network.                                                            *)

Names(entry) == {entry[1][1], entry[1][2]}

\* An entry of the message names two different nodes and has their latency.
EntryOK(entry, latency_of, nodes) ==
  /\ entry[1] \in DOMAIN latency_of /\ entry[2] = latency_of[entry[1]]
  /\ entry[1][1] \in nodes /\ entry[1][2] \in nodes /\ entry[1][1] # entry[1][2]

InMessage(a, b) == \E k \in 1..Len(latency_map) : Names(latency_map[k]) = {a, b}

\* The client's part: each pair of nodes is wanted, in the message or inserted.
Collected ==
  /\ profiles \in Profiles /\ map \in LatencyMap /\ links \subseteq DOMAIN map
  /\ instance_count \in 0..MaxInstances /\ (pc # "away" => instance_count > 0)
  /\ required \subseteq SUBSET Node
  /\ \A pair \in required : \E a, b \in Node : a # b /\ pair = {a, b}
  /\ latency_map \in Seq((Index \X Index) \X Int)
  /\ pc \in {"collect", "insert"} =>
       \A k \in 1..Len(latency_map) : EntryOK(latency_map[k], map, Node)
  /\ pc = "collect" =>
       \A a, b \in Node : a # b => {a, b} \in required \/ InMessage(a, b)
  /\ pc = "insert" =>
       \A a, b \in Node : a # b => LH_OK(latencies, a, b) \/ InMessage(a, b)

\* The latency of a and b is the same both ways and from the map.
Agree(a, b) ==
  /\ LH_OK(latencies, b, a)
  /\ latency_hash_get(latencies, a, b) = latency_hash_get(latencies, b, a)
  /\ \E link \in {<<a, b>>, <<b, a>>} \cap DOMAIN map :
       latency_hash_get(latencies, a, b) = map[link]

\* The engine's part: what is inserted agrees, and in a round all of it is.
Inserted ==
  /\ pc = "insert" \/ InRound =>
       \A a, b \in Node : a # b /\ LH_OK(latencies, a, b) => Agree(a, b)
  /\ InRound => \A a, b \in Node : a # b => LH_OK(latencies, a, b)

\* Every target is another node, and when the pings begin there are enough.
Aimed ==
  /\ ping_targets \in [Index -> Seq(Index)]
  /\ target_idx \in 1..Pings + 1 /\ pinging_node \in Index
  /\ InRound =>
       \A n \in Node : \A k \in 1..Len(ping_targets[n]) :
         ping_targets[n][k] \in Node \ {n}
  /\ pc = "pick" => \A n \in Node : Len(ping_targets[n]) <= Pings
  /\ pc \in {"ping", "update"} =>
       /\ target_idx \in 1..Pings /\ pinging_node \in Node
       /\ \A n \in Node : Len(ping_targets[n]) = Pings

\* The ping under way, or the one that ended the engine.
Measured ==
  /\ latency \in Int
  /\ pc = "update" =>
       LET target == ping_targets[pinging_node][target_idx]
       IN  \E link \in {<<pinging_node, target>>, <<target, pinging_node>>}
                         \cap DOMAIN map :
             Grain * map[link] <= latency
  /\ AbortsHaveCause

\* The samples of every node.
Stored ==
  /\ store \in [Index -> Store]
  /\ \A n \in Index : NodeOK(store[n])
  /\ \A n \in Index : Settled(store[n]) \/ (pc \in {"update", "dead"} /\ n = pinging_node)
  /\ pc = "update" => Recorded(store[pinging_node], last)

PcOK == pc \in {"away", "collect", "insert", "pick", "ping", "update", "idle", "dead"}

IInv ==
  PcOK /\ Collected /\ Inserted /\ Aimed /\ Measured /\ Stored
-----------------------------------------------------------------------------
\* An insertion adds a latency where there is none and changes no other.
LEMMA HashInsert ==
  ASSUME NEW hash, NEW k1, NEW k2, NEW value, NEW a, NEW b
  PROVE  LET grown == latency_hash_insert(hash, k1, k2, value)
         IN  /\ LH_OK(grown, a, b) <=> LH_OK(hash, a, b) \/ (a = k1 /\ b = k2)
             /\ LH_OK(hash, a, b) =>
                  latency_hash_get(grown, a, b) = latency_hash_get(hash, a, b)
             /\ ~LH_OK(hash, a, b) /\ a = k1 /\ b = k2 =>
                  latency_hash_get(grown, a, b) = value
<1> DEFINE inner == IF k1 \in DOMAIN hash THEN hash[k1] ELSE EmptyHash
<1> DEFINE more == IF k2 \in DOMAIN inner THEN inner
                   ELSE [k \in DOMAIN inner \cup {k2} |->
                           IF k = k2 THEN value ELSE inner[k]]
<1> DEFINE grown == latency_hash_insert(hash, k1, k2, value)
<1>1. grown = [k \in DOMAIN hash \cup {k1} |-> IF k = k1 THEN more ELSE hash[k]]
  BY DEF latency_hash_insert
<1>2. /\ DOMAIN more = DOMAIN inner \cup {k2}
      /\ \A k \in DOMAIN inner : more[k] = inner[k]
      /\ (k2 \notin DOMAIN inner => more[k2] = value)
  <2> HIDE DEF inner
  <2> QED OBVIOUS
<1>3. LH_OK(hash, k1, b) <=> b \in DOMAIN inner
  BY DEF LH_OK, EmptyHash
<1>4. LH_OK(hash, k1, b) => inner[b] = hash[k1][b]
  BY DEF LH_OK
<1> HIDE DEF inner, more, grown
<1>5. CASE a = k1
  <2>1. LH_OK(grown, a, b) <=> b \in DOMAIN more
    BY <1>1, <1>5 DEF LH_OK
  <2>2. latency_hash_get(grown, a, b) = more[b]
    BY <1>1, <1>5 DEF latency_hash_get
  <2>3. LH_OK(hash, a, b) <=> b \in DOMAIN inner
    BY <1>3, <1>5
  <2>4. LH_OK(hash, a, b) => latency_hash_get(hash, a, b) = inner[b]
    BY <1>4, <1>5 DEF latency_hash_get
  <2>5. LH_OK(grown, a, b) <=> LH_OK(hash, a, b) \/ b = k2
    BY <2>1, <2>3, <1>2
  <2>6. LH_OK(hash, a, b) =>
          latency_hash_get(grown, a, b) = latency_hash_get(hash, a, b)
    BY <2>2, <2>3, <2>4, <1>2
  <2>7. ~LH_OK(hash, a, b) /\ b = k2 => latency_hash_get(grown, a, b) = value
    <3> SUFFICES ASSUME ~LH_OK(hash, a, b), b = k2 PROVE latency_hash_get(grown, a, b) = value
      OBVIOUS
    <3>1. k2 \notin DOMAIN inner
      BY <2>3
    <3>2. more[k2] = value
      BY <3>1, <1>2
    <3>3. latency_hash_get(grown, a, b) = more[k2]
      BY <2>2
    <3> QED BY <3>2, <3>3
  <2> QED BY <2>5, <2>6, <2>7, <1>5 DEF grown
<1>6. CASE a # k1
  BY <1>1, <1>6 DEF LH_OK, latency_hash_get, grown
<1> QED BY <1>5, <1>6

LEMMA NodeSubset ==
  ASSUME instance_count \in 0..MaxInstances
  PROVE  Node \subseteq Index /\ Node \subseteq Int
BY NetworkAssumption DEF Node, Index

\* Congestion never lowers a latency.
LEMMA CongestionIsNat ==
  ASSUME profiles \in Profiles, Node \subseteq Index, NEW n \in Node
  PROVE  Congestion(n) \subseteq Nat
<1>1. ASSUME NEW m \in Index PROVE sample(profiles[m]) \subseteq Nat
  <2>1. IsProfile(profiles[m])
    BY <1>1, NetworkAssumption
  <2>2. Grain * profiles[m].binsize \in Nat
    BY <2>1, GrainAssumption DEF IsProfile
  <2>3. Drawn(profiles[m]) \subseteq Nat
    <3>1. \A b : bucket_selector(profiles[m], b) \subseteq Bin(profiles[m])
      BY DEF bucket_selector
    <3>2. Len(profiles[m].bins) \in Nat
      BY <2>1 DEF IsProfile
    <3> QED BY <3>1, <3>2 DEF Drawn, Bin
  <2> QED BY <2>2, <2>3 DEF sample
<1>2. Sent \subseteq Index
  BY DEF Sent
<1> QED BY <1>1, <1>2 DEF Congestion

LEMMA Scaled ==
  ASSUME NEW x \in Int, NEW y \in Int, Grain * x <= y, y <= 0 PROVE x <= 0
<1>1. ASSUME x >= 1 PROVE Grain * x >= 1
  BY <1>1, GrainAssumption
<1> QED BY <1>1, GrainAssumption

LEMMA InitIInv == Init => IInv
<1> SUFFICES ASSUME Init PROVE IInv
  OBVIOUS
<1> USE DEF Init
<1>1. PcOK /\ Inserted
  BY DEF PcOK, Inserted, InRound
<1>2. Collected
  BY NetworkAssumption DEF Collected
<1>3. Aimed
  BY NetworkAssumption DEF Aimed, InRound, NoTargets, Index
<1>4. Measured
  BY DEF Measured, AbortsHaveCause
<1>5. Stored
  BY EmptyStoreOK DEF Stored, NodeOK
<1> QED BY <1>1, <1>2, <1>3, <1>4, <1>5 DEF IInv

\* The client collects, sends, and the engine inserts.
LEMMA CollectedStep == IInv /\ [Next]_vars => Collected' /\ Inserted'
<1> SUFFICES ASSUME IInv, [Next]_vars PROVE Collected' /\ Inserted'
  OBVIOUS
<1>0. Collected /\ Inserted /\ PcOK
  BY DEF IInv
<1> USE DEF client, round
<1>1. ASSUME NEW n \in 1..MaxInstances, SetUp(n) PROVE Collected' /\ Inserted'
  <2>0. /\ pc' = "collect" /\ instance_count' = n /\ map' \in LatencyMap
        /\ links' = DOMAIN map' /\ latency_map' = <<>>
        /\ required' = {{i, j} : i, j \in 0..n - 1} \ {{i} : i \in 0..n - 1}
    BY <1>1 DEF SetUp
  <2>1. Node' = 0..n - 1
    BY <2>0 DEF Node
  <2>2. ASSUME NEW pair \in required'
        PROVE  /\ \E a, b \in 0..n - 1 : a # b /\ pair = {a, b}
               /\ pair \subseteq 0..n - 1
    <3>1. PICK a \in 0..n - 1, b \in 0..n - 1 : pair = {a, b}
      BY <2>0, <2>2
    <3>2. a = b => pair \in {{i} : i \in 0..n - 1}
      BY <3>1
    <3>3. a # b
      BY <2>0, <2>2, <3>2
    <3> QED BY <3>1, <3>3
  <2>3. ASSUME NEW a \in 0..n - 1, NEW b \in 0..n - 1, a # b PROVE {a, b} \in required'
    <3>1. {a, b} \in {{i, j} : i, j \in 0..n - 1}
      OBVIOUS
    <3>2. ASSUME NEW i \in 0..n - 1, {a, b} = {i} PROVE FALSE
      <4>1. a \in {i} /\ b \in {i}
        BY <3>2
      <4> QED BY <4>1, <2>3
    <3> QED BY <2>0, <3>1, <3>2
  <2>4. required' \subseteq SUBSET (0..n - 1)
    BY <2>2
  <2>5. n \in 0..MaxInstances /\ n > 0
    BY NetworkAssumption
  <2>6. Collected'
    <3>1. latency_map' \in Seq((Index \X Index) \X Int) /\ Len(latency_map') = 0
      BY <2>0
    <3>2. \A pair \in required' : \E a, b \in Node' : a # b /\ pair = {a, b}
      BY <2>1, <2>2
    <3>3. \A a, b \in Node' : a # b => {a, b} \in required'
      BY <2>1, <2>3
    <3>4. /\ map' \in LatencyMap /\ links' \subseteq DOMAIN map'
          /\ instance_count' \in 0..MaxInstances /\ instance_count' > 0
          /\ required' \subseteq SUBSET Node' /\ pc' = "collect"
      BY <2>0, <2>1, <2>4, <2>5
    <3>5. profiles' \in Profiles
      BY <1>1 DEF SetUp
    <3> QED BY <3>1, <3>2, <3>3, <3>4, <3>5 DEF Collected
  <2>7. Inserted'
    BY <2>0 DEF Inserted, InRound
  <2> QED BY <2>6, <2>7
<1>2. ASSUME NEW link \in Index \X Index, CollectLink(link) PROVE Collected' /\ Inserted'
  <2> DEFINE new == <<link, map[link]>>
  <2>0. /\ pc = "collect" /\ pc' = "collect" /\ link \in links
        /\ links' = links \ {link} /\ required' = required \ {{link[1], link[2]}}
        /\ latency_map' = IF {link[1], link[2]} \in required
                          THEN Append(latency_map, new) ELSE latency_map
        /\ UNCHANGED <<map, instance_count, latencies>>
    BY <1>2 DEF CollectLink
  <2>1. Node' = Node /\ link \in DOMAIN map /\ map \in LatencyMap /\ map' = map
    BY <2>0, <1>0 DEF Node, Collected
  <2>2. new \in (Index \X Index) \X Int
    BY <2>1, NetworkAssumption
  <2>3. latency_map \in Seq((Index \X Index) \X Int)
    BY <1>0 DEF Collected
  <2>4. {link[1], link[2]} \in required => EntryOK(new, map, Node)
    <3> SUFFICES ASSUME {link[1], link[2]} \in required PROVE EntryOK(new, map, Node)
      OBVIOUS
    <3>1. PICK a \in Node, b \in Node : a # b /\ {link[1], link[2]} = {a, b}
      BY <1>0 DEF Collected
    <3>2. link[1] \in Node /\ link[2] \in Node /\ link[1] # link[2]
      BY <3>1
    <3>3. new[1] = link /\ new[2] = map[link]
      OBVIOUS
    <3> QED BY <3>2, <3>3, <2>1 DEF EntryOK
  <2>6. CASE {link[1], link[2]} \in required
    <3>1. latency_map' = Append(latency_map, new)
      BY <2>0, <2>6
    <3> HIDE DEF new
    <3>2. /\ latency_map' \in Seq((Index \X Index) \X Int)
          /\ Len(latency_map') = Len(latency_map) + 1
          /\ latency_map'[Len(latency_map) + 1] = new
          /\ \A k \in 1..Len(latency_map) : latency_map'[k] = latency_map[k]
      BY <3>1, <2>2, <2>3
    <3>3. \A k \in 1..Len(latency_map') : EntryOK(latency_map'[k], map, Node)
      <4> SUFFICES ASSUME NEW k \in 1..Len(latency_map')
                   PROVE  EntryOK(latency_map'[k], map, Node)
        OBVIOUS
      <4>1. CASE k \in 1..Len(latency_map)
        BY <4>1, <3>2, <2>0, <1>0 DEF Collected
      <4>2. CASE k = Len(latency_map) + 1
        BY <4>2, <3>2, <2>4, <2>6 DEF new
      <4> QED BY <4>1, <4>2, <3>2, <2>3
    <3>4. Names(new) = {link[1], link[2]}
      BY DEF Names, new
    <3>5. ASSUME NEW a \in Node, NEW b \in Node, a # b
          PROVE  {a, b} \in required' \/ InMessage(a, b)'
      <4>1. CASE {a, b} = {link[1], link[2]}
        <5>1. Len(latency_map) + 1 \in 1..Len(latency_map')
          BY <3>2, <2>3
        <5>2. Names(latency_map'[Len(latency_map) + 1]) = {a, b}
          BY <3>2, <3>4, <4>1
        <5> QED BY <5>1, <5>2 DEF InMessage
      <4>2. CASE {a, b} # {link[1], link[2]}
        <5>1. {a, b} \in required \/ InMessage(a, b)
          BY <3>5, <2>0, <1>0 DEF Collected
        <5>2. ASSUME NEW k \in 1..Len(latency_map), Names(latency_map[k]) = {a, b}
              PROVE  InMessage(a, b)'
          <6>1. k \in 1..Len(latency_map')
            BY <3>2, <2>3
          <6> QED BY <6>1, <5>2, <3>2 DEF InMessage
        <5>3. {a, b} \in required => {a, b} \in required'
          BY <2>0, <4>2
        <5> QED BY <5>1, <5>2, <5>3 DEF InMessage
      <4> QED BY <4>1, <4>2
    <3>6. /\ links' \subseteq DOMAIN map' /\ instance_count' \in 0..MaxInstances
          /\ instance_count' > 0 /\ required' \subseteq required
          /\ pc' = "collect" /\ profiles' \in Profiles
      BY <2>0, <2>1, <1>0, <1>2 DEF Collected, CollectLink
    <3>7. \A pair \in required' : \E a, b \in Node : a # b /\ pair = {a, b}
      BY <3>6, <1>0 DEF Collected
    <3>8. required' \subseteq SUBSET Node
      BY <3>6, <1>0 DEF Collected
    <3>9. Collected'
      BY <3>2, <3>3, <3>5, <3>6, <3>7, <3>8, <2>0, <2>1 DEF Collected
    <3>10. Inserted'
      BY <3>6 DEF Inserted, InRound
    <3> QED BY <3>9, <3>10
  <2>7. CASE {link[1], link[2]} \notin required
    <3>1. latency_map' = latency_map
      BY <2>0, <2>7
    <3>2. \A a, b : InMessage(a, b)' <=> InMessage(a, b)
      BY <3>1 DEF InMessage
    <3>3. required' = required
      BY <2>0, <2>7
    <3>4. links' \subseteq DOMAIN map'
      BY <2>0, <2>1, <1>0 DEF Collected
    <3>5. Collected'
      <4>1. \A k \in 1..Len(latency_map) : EntryOK(latency_map[k], map, Node)
        BY <2>0, <1>0 DEF Collected
      <4>2. \A a, b \in Node : a # b => {a, b} \in required \/ InMessage(a, b)'
        BY <3>2, <2>0, <1>0 DEF Collected
      <4>3. /\ required \subseteq SUBSET Node
            /\ \A pair \in required : \E a, b \in Node : a # b /\ pair = {a, b}
            /\ latency_map \in Seq((Index \X Index) \X Int)
            /\ instance_count \in 0..MaxInstances /\ instance_count > 0
        BY <2>0, <1>0 DEF Collected
      <4>4. \A k \in 1..Len(latency_map') : EntryOK(latency_map'[k], map', Node')
        BY <3>1, <4>1, <2>1
      <4>5. \A a, b \in Node' : a # b => {a, b} \in required' \/ InMessage(a, b)'
        BY <3>3, <4>2, <2>1
      <4>6. /\ required' \subseteq SUBSET Node'
            /\ \A pair \in required' : \E a, b \in Node' : a # b /\ pair = {a, b}
            /\ latency_map' \in Seq((Index \X Index) \X Int)
            /\ instance_count' \in 0..MaxInstances /\ instance_count' > 0
            /\ pc' = "collect" /\ map' \in LatencyMap /\ profiles' \in Profiles
        BY <1>0, <1>2, <3>1, <3>3, <4>3, <2>0, <2>1 DEF CollectLink, Collected
      <4> QED BY <3>4, <4>4, <4>5, <4>6 DEF Collected
    <3>6. Inserted'
      BY <2>0 DEF Inserted, InRound
    <3> QED BY <3>5, <3>6
  <2> QED BY <2>6, <2>7
<1>3. CASE Send
  <2> USE <1>3 DEF Send, Renewed
  <2>1. Node' = Node /\ map' = map
    BY DEF Node
  <2>2. \A a, b : InMessage(a, b)' <=> InMessage(a, b)
    BY DEF InMessage
  <2>3. Collected'
    BY <2>1, <2>2, <1>0 DEF Collected
  <2>4. pc' = "insert" => \A a, b : ~LH_OK(latencies', a, b)
    BY DEF LH_OK, EmptyHash
  <2>5. Inserted'
    BY <2>1, <2>4 DEF Inserted, InRound
  <2> QED BY <2>3, <2>5
<1>4. CASE InsertLatency
  <2> USE <1>4 DEF InsertLatency
  <2> DEFINE entry == Head(latency_map)
  <2> DEFINE i == entry[1][1]
  <2> DEFINE j == entry[1][2]
  <2> DEFINE value == entry[2]
  <2>1. /\ latency_map \in Seq((Index \X Index) \X Int) /\ Len(latency_map) > 0
        /\ latency_map[1] = entry
    BY <1>0 DEF Collected
  <2>2. EntryOK(entry, map, Node)
    <3>1. 1 \in 1..Len(latency_map)
      BY <2>1
    <3> QED BY <3>1, <2>1, <1>0 DEF Collected
  <2>3. Node' = Node /\ map' = map
    BY DEF Node
  <2>4. /\ Len(latency_map') = Len(latency_map) - 1
        /\ latency_map' \in Seq((Index \X Index) \X Int)
        /\ \A k \in 1..Len(latency_map') : latency_map'[k] = latency_map[k + 1]
    BY <2>1
  <2>5. \A k \in 1..Len(latency_map') : EntryOK(latency_map'[k], map, Node)
    <3>1. \A k \in 1..Len(latency_map') : k + 1 \in 1..Len(latency_map)
      BY <2>1, <2>4
    <3> QED BY <3>1, <2>3, <2>4, <1>0 DEF Collected
  <2>6. latencies' = BothWays(latencies, i, j, value)
    OBVIOUS
  <2> HIDE DEF entry, i, j, value
  <2> DEFINE half == latency_hash_insert(latencies, i, j, value)
  <2>7. latencies' = latency_hash_insert(half, j, i, value)
    BY <2>6 DEF BothWays
  <2>8. i # j /\ i \in Node /\ j \in Node /\ <<i, j>> \in DOMAIN map /\ value = map[<<i, j>>]
    <3>1. entry \in (Index \X Index) \X Int
      BY <2>1 DEF entry
    <3>2. entry[1] = <<i, j>>
      BY <3>1 DEF i, j
    <3> QED BY <3>2, <2>2 DEF EntryOK, i, j, value
  <2>9. ASSUME NEW a \in Node, NEW b \in Node, a # b
        PROVE  /\ LH_OK(latencies', a, b) <=>
                    \/ LH_OK(latencies, a, b)
                    \/ a = i /\ b = j
                    \/ a = j /\ b = i
               /\ LH_OK(latencies, a, b) =>
                    latency_hash_get(latencies', a, b) = latency_hash_get(latencies, a, b)
               /\ ~LH_OK(latencies, a, b) /\ LH_OK(latencies', a, b) =>
                    latency_hash_get(latencies', a, b) = value
    <3>1. /\ LH_OK(half, a, b) <=> LH_OK(latencies, a, b) \/ (a = i /\ b = j)
          /\ LH_OK(latencies, a, b) =>
               latency_hash_get(half, a, b) = latency_hash_get(latencies, a, b)
          /\ ~LH_OK(latencies, a, b) /\ a = i /\ b = j =>
               latency_hash_get(half, a, b) = value
      BY HashInsert
    <3> HIDE DEF half
    <3>2. /\ LH_OK(latencies', a, b) <=> LH_OK(half, a, b) \/ (a = j /\ b = i)
          /\ LH_OK(half, a, b) =>
               latency_hash_get(latencies', a, b) = latency_hash_get(half, a, b)
          /\ ~LH_OK(half, a, b) /\ a = j /\ b = i =>
               latency_hash_get(latencies', a, b) = value
      BY HashInsert, <2>7
    <3> QED BY <3>1, <3>2
  <2>10. ASSUME NEW a \in Node, NEW b \in Node, a # b, LH_OK(latencies', a, b)
         PROVE  Agree(a, b)'
    <3>1. LH_OK(latencies, a, b) <=> LH_OK(latencies, b, a)
      BY <2>10, <1>0 DEF Inserted, Agree
    <3>2. CASE LH_OK(latencies, a, b)
      <4>1. Agree(a, b)
        BY <3>2, <2>10, <1>0 DEF Inserted
      <4> QED BY <4>1, <3>1, <3>2, <2>3, <2>9, <2>10 DEF Agree
    <3>3. CASE ~LH_OK(latencies, a, b)
      <4>1. (a = i /\ b = j) \/ (a = j /\ b = i)
        BY <3>3, <2>9, <2>10
      <4>2. <<i, j>> \in {<<a, b>>, <<b, a>>}
        BY <4>1
      <4>3. LH_OK(latencies', b, a) /\ latency_hash_get(latencies', a, b) = value
            /\ latency_hash_get(latencies', b, a) = value
        BY <4>1, <3>1, <3>3, <2>9, <2>10
      <4> QED BY <4>2, <4>3, <2>3, <2>8 DEF Agree
    <3> QED BY <3>2, <3>3
  <2>11. ASSUME NEW a \in Node, NEW b \in Node, a # b
         PROVE  LH_OK(latencies', a, b) \/ InMessage(a, b)'
    <3>1. LH_OK(latencies, a, b) \/ InMessage(a, b)
      BY <2>11, <1>0 DEF Collected
    <3>2. CASE LH_OK(latencies, a, b)
      BY <3>2, <2>9, <2>11
    <3>3. ASSUME NEW k \in 1..Len(latency_map), Names(latency_map[k]) = {a, b}
          PROVE  LH_OK(latencies', a, b) \/ InMessage(a, b)'
      <4>1. CASE k = 1
        <5>1. {i, j} = {a, b}
          BY <3>3, <4>1, <2>1 DEF Names, i, j
        <5> QED BY <5>1, <2>8, <2>9, <2>11
      <4>2. CASE k # 1
        <5>1. k - 1 \in 1..Len(latency_map') /\ latency_map'[k - 1] = latency_map[k]
          BY <4>2, <2>1, <2>4
        <5> QED BY <5>1, <3>3 DEF InMessage
      <4> QED BY <4>1, <4>2
    <3> QED BY <3>1, <3>2, <3>3 DEF InMessage
  <2>12. Collected'
    BY <2>3, <2>4, <2>5, <2>11, <1>0 DEF Collected
  <2>13. Inserted'
    BY <2>3, <2>10 DEF Inserted, InRound
  <2> QED BY <2>12, <2>13
<1>5. CASE FirstRound
  <2> USE <1>5 DEF FirstRound
  <2>1. Node' = Node /\ \A a, b : Agree(a, b)' <=> Agree(a, b)
    BY DEF Node, Agree
  <2>2. \A a, b : ~InMessage(a, b)
    BY DEF InMessage
  <2>3. Collected'
    BY <2>1, <1>0 DEF Collected
  <2>4. Inserted'
    BY <2>1, <2>2, <1>0 DEF Inserted, InRound, Collected
  <2> QED BY <2>3, <2>4
<1>6. ASSUME UNCHANGED <<profiles, map, links, required, latency_map, instance_count, latencies>>,
             pc' = pc \/ (InRound /\ pc' \in {"pick", "ping", "update", "idle", "dead"})
      PROVE  Collected' /\ Inserted'
  <2>1. /\ Node' = Node /\ \A a, b : Agree(a, b)' <=> Agree(a, b)
        /\ \A a, b : InMessage(a, b)' <=> InMessage(a, b)
    BY <1>6 DEF Node, Agree, InMessage
  <2>2. Collected'
    BY <2>1, <1>0, <1>6 DEF Collected, InRound
  <2>3. Inserted'
    BY <2>1, <1>0, <1>6 DEF Inserted, InRound
  <2> QED BY <2>2, <2>3
<1>7. CASE NextRound
  BY <1>6, <1>7 DEF NextRound, InRound
<1>8. ASSUME NEW n \in Index, DrawTarget(n) PROVE Collected' /\ Inserted'
  BY <1>6, <1>8 DEF DrawTarget
<1>9. CASE BeginSteps
  BY <1>6, <1>9 DEF BeginSteps, InRound
<1>10. CASE Ping
  <2>1. pc' \in {"update", "dead"}
    BY <1>10 DEF Ping
  <2> QED BY <2>1, <1>6, <1>10 DEF Ping, InRound
<1>11. CASE Update
  <2>1. pc' \in {"ping", "idle", "dead"}
    BY <1>11 DEF Update
  <2> QED BY <2>1, <1>6, <1>11 DEF Update, InRound
<1>12. CASE Stopped \/ UNCHANGED vars
  BY <1>6, <1>12 DEF Stopped, vars
<1> QED BY <1>1, <1>2, <1>3, <1>4, <1>5, <1>7, <1>8, <1>9, <1>10, <1>11, <1>12
        DEF Next, EngineStep

\* Steps of the client and of initialize(): no round is on and no store is in use.
LEMMA SendFacts ==
  ASSUME Send
  PROVE  /\ pc = "collect" /\ UNCHANGED <<ping_targets, round>>
         /\ pc' \in {"away", "insert"} \/ (pc' = "dead" /\ ProfileUnfit')
<1>1. ProfileUnfit' <=> \E n \in Sent : FullEarly(profiles[n])
  BY DEF Send, client, ProfileUnfit, Sent, Node
<1> QED BY <1>1 DEF Send, Renewed

LEMMA QuietStep ==
  ASSUME IInv, pc \notin {"update", "dead"},
         pc' \in {"away", "collect", "insert"} \/ (pc' = "dead" /\ ProfileUnfit'),
         UNCHANGED <<ping_targets, round>>
  PROVE  Aimed' /\ Measured'
<1>1. Aimed /\ Measured
  BY DEF IInv
<1>2. Aimed'
  BY <1>1 DEF Aimed, InRound, round
<1>3. Measured'
  BY <1>1 DEF Measured, AbortsHaveCause, round
<1> QED BY <1>2, <1>3

\* The targets stay others, and enough for the pings.
LEMMA AimedStep == IInv /\ [Next]_vars => Aimed'
<1> SUFFICES ASSUME IInv, [Next]_vars PROVE Aimed'
  OBVIOUS
<1>0. /\ Aimed /\ Collected /\ PcOK /\ Node \subseteq Index /\ Node \subseteq Int
      /\ Pings \in Nat \ {0}
  BY NodeSubset, NetworkAssumption DEF IInv, Collected
<1>1. ASSUME NEW n \in 1..MaxInstances, SetUp(n) PROVE Aimed'
  BY <1>1, QuietStep DEF SetUp
<1>2. ASSUME NEW link \in Index \X Index, CollectLink(link) PROVE Aimed'
  BY <1>2, QuietStep DEF CollectLink
<1>3. CASE Send
  BY <1>3, SendFacts, QuietStep
<1>4. CASE InsertLatency
  BY <1>4, QuietStep DEF InsertLatency
<1>5. CASE FirstRound \/ NextRound
  <2>1. /\ pc' = "pick" /\ ping_targets' = NoTargets /\ Node' = Node
        /\ UNCHANGED <<target_idx, pinging_node>>
    BY <1>5 DEF FirstRound, NextRound, round, Node
  <2>2. \A n \in Index : NoTargets[n] = <<>> /\ Len(NoTargets[n]) = 0
    BY DEF NoTargets
  <2>3. NoTargets \in [Index -> Seq(Index)]
    BY DEF NoTargets
  <2>4. \A n \in Node : \A k \in 1..Len(NoTargets[n]) : NoTargets[n][k] \in Node \ {n}
    <3> SUFFICES ASSUME NEW n \in Node, NEW k \in 1..Len(NoTargets[n]) PROVE FALSE
      OBVIOUS
    <3>1. n \in Index
      BY <1>0
    <3>2. Len(NoTargets[n]) = 0
      BY <3>1, <2>2
    <3>3. k \in 1..0
      BY <3>2, Zenon
    <3> QED BY <3>3, SMT
  <2> QED BY <2>1, <2>2, <2>3, <2>4, <1>0 DEF Aimed
<1>6. ASSUME NEW n \in Index, DrawTarget(n) PROVE Aimed'
  <2>1. /\ pc = "pick" /\ pc' = "pick" /\ Node' = Node /\ n \in Short
        /\ UNCHANGED <<target_idx, pinging_node>>
    BY <1>6 DEF DrawTarget, round, Node
  <2>2. n \in Node /\ Len(ping_targets[n]) < Pings
    BY <2>1 DEF Short
  <2>3. PICK choice \in Node :
          ping_targets' = IF choice = n THEN ping_targets
                          ELSE [ping_targets EXCEPT ![n] = Append(@, choice)]
    BY <1>6 DEF DrawTarget
  <2>4. CASE choice = n
    <3>1. ping_targets' = ping_targets
      BY <2>3, <2>4
    <3> QED BY <3>1, <2>1, <1>0 DEF Aimed, InRound
  <2>5. CASE choice # n
    <3> DEFINE l == Append(ping_targets[n], choice)
    <3>1. ping_targets' = [ping_targets EXCEPT ![n] = l]
      BY <2>3, <2>5
    <3>2. ping_targets \in [Index -> Seq(Index)] /\ ping_targets[n] \in Seq(Index)
      BY <1>0 DEF Aimed
    <3>3. l \in Seq(Index) /\ Len(l) = Len(ping_targets[n]) + 1 /\ Len(l) <= Pings
      BY <3>2, <2>2, <1>0
    <3>4. ASSUME NEW k \in 1..Len(l) PROVE l[k] \in Node \ {n}
      <4>1. \A j \in 1..Len(ping_targets[n]) : ping_targets[n][j] \in Node \ {n}
        BY <2>1, <2>2, <1>0 DEF Aimed, InRound
      <4>2. CASE k \in 1..Len(ping_targets[n])
        BY <4>1, <4>2, <3>2
      <4>3. CASE k = Len(ping_targets[n]) + 1
        BY <4>3, <3>2, <2>5
      <4> QED BY <4>2, <4>3, <3>2, <3>3
    <3> HIDE DEF l
    <3>5. ping_targets' \in [Index -> Seq(Index)]
      BY <3>1, <3>2, <3>3
    <3>6. \A m \in Node : ping_targets'[m] = IF m = n THEN l ELSE ping_targets[m]
      BY <3>1, <3>2, <1>0
    <3>7. \A m \in Node : Len(ping_targets'[m]) <= Pings
      BY <3>3, <3>6, <2>1, <1>0 DEF Aimed
    <3>8. \A m \in Node : \A k \in 1..Len(ping_targets'[m]) :
            ping_targets'[m][k] \in Node \ {m}
      BY <3>4, <3>6, <2>1, <1>0 DEF Aimed, InRound
    <3> QED BY <3>5, <3>7, <3>8, <2>1, <1>0 DEF Aimed
  <2> QED BY <2>4, <2>5
<1>7. CASE BeginSteps
  <2>1. /\ pc = "pick" /\ pc' = "ping" /\ Node' = Node /\ Short = {}
        /\ target_idx' = 1 /\ pinging_node' = 0 /\ ping_targets' = ping_targets
    BY <1>7 DEF BeginSteps, Node
  <2>2. 0 \in Node
    BY <2>1, <1>0 DEF Collected, Node
  <2>3. ASSUME NEW n \in Node PROVE Len(ping_targets[n]) = Pings
    <3>1. ~(Len(ping_targets[n]) < Pings) /\ Len(ping_targets[n]) <= Pings
      BY <2>1, <1>0 DEF Short, Aimed
    <3>2. ping_targets[n] \in Seq(Index)
      BY <1>0 DEF Aimed
    <3> QED BY <3>1, <3>2, <1>0
  <2>4. 1 \in 1..Pings /\ 1 \in 1..Pings + 1
    BY <1>0
  <2> QED BY <2>1, <2>2, <2>3, <2>4, <1>0 DEF Aimed, InRound
<1>8. CASE Ping
  <2>1. /\ pc = "ping" /\ pc' \in {"update", "dead"} /\ Node' = Node
        /\ UNCHANGED <<ping_targets, target_idx, pinging_node>>
    BY <1>8 DEF Ping, Node
  <2> QED BY <2>1, <1>0 DEF Aimed, InRound
<1>9. CASE Update
  <2>1. pc = "update" /\ Node' = Node /\ ping_targets' = ping_targets
    BY <1>9 DEF Update, Node
  <2>2. /\ target_idx \in 1..Pings /\ pinging_node \in Node
        /\ \A n \in Node : Len(ping_targets[n]) = Pings
        /\ ping_targets \in [Index -> Seq(Index)]
        /\ \A n \in Node : \A k \in 1..Len(ping_targets[n]) :
             ping_targets[n][k] \in Node \ {n}
    BY <2>1, <1>0 DEF Aimed, InRound
  <2>3. CASE latency <= 0
    <3>1. pc' = "dead" /\ UNCHANGED <<target_idx, pinging_node>>
      BY <1>9, <2>3 DEF Update, round
    <3> QED BY <3>1, <2>1, <1>0 DEF Aimed, InRound
  <2>4. CASE ~(latency <= 0)
    <3>1. /\ pinging_node' = IF pinging_node + 1 \in Node THEN pinging_node + 1 ELSE 0
          /\ target_idx' = IF pinging_node + 1 \in Node THEN target_idx ELSE target_idx + 1
          /\ pc' = IF target_idx' <= Pings THEN "ping" ELSE "idle"
      BY <1>9, <2>4 DEF Update
    <3>2. 0 \in Node
      BY <2>1, <1>0 DEF Collected, Node
    <3>3. pinging_node' \in Node
      BY <3>1, <3>2
    <3>4. target_idx' \in 1..Pings + 1 /\ (pc' = "ping" => target_idx' \in 1..Pings)
          /\ pc' \in {"ping", "idle"}
      BY <3>1, <2>2, <1>0
    <3> QED BY <3>3, <3>4, <2>1, <2>2, <1>0 DEF Aimed, InRound
  <2> QED BY <2>3, <2>4
<1>10. CASE Stopped \/ UNCHANGED vars
  BY <1>10, <1>0 DEF Stopped, vars, round, Aimed, InRound, Node
<1> QED BY <1>1, <1>2, <1>3, <1>4, <1>5, <1>6, <1>7, <1>8, <1>9, <1>10
        DEF Next, EngineStep

\* A latency that is measured is at least the one of the map.
LEMMA MeasuredStep == IInv /\ [Next]_vars => Measured'
<1> SUFFICES ASSUME IInv, [Next]_vars PROVE Measured'
  OBVIOUS
<1>0. /\ Aimed /\ Collected /\ PcOK /\ Measured /\ Inserted
      /\ Node \subseteq Index /\ Node \subseteq Int
  BY NodeSubset, NetworkAssumption DEF IInv, Collected
<1>1. ASSUME NEW n \in 1..MaxInstances, SetUp(n) PROVE Measured'
  BY <1>1, QuietStep DEF SetUp
<1>2. ASSUME NEW link \in Index \X Index, CollectLink(link) PROVE Measured'
  BY <1>2, QuietStep DEF CollectLink
<1>3. CASE Send
  BY <1>3, SendFacts, QuietStep
<1>4. CASE InsertLatency
  BY <1>4, QuietStep DEF InsertLatency
<1>5. CASE FirstRound \/ NextRound
  <2>1. pc' = "pick" /\ latency' = latency
    BY <1>5 DEF FirstRound, NextRound, round
  <2> QED BY <2>1, <1>0 DEF Measured, AbortsHaveCause
<1>6. ASSUME NEW n \in Index, DrawTarget(n) PROVE Measured'
  <2>1. pc' = "pick" /\ latency' = latency
    BY <1>6 DEF DrawTarget, round
  <2> QED BY <2>1, <1>0 DEF Measured, AbortsHaveCause
<1>7. CASE BeginSteps
  <2>1. pc' = "ping" /\ latency' = 0
    BY <1>7 DEF BeginSteps
  <2> QED BY <2>1 DEF Measured, AbortsHaveCause
<1>8. CASE Ping
  <2> DEFINE target == ping_targets[pinging_node][target_idx]
  <2> DEFINE links_of == {<<pinging_node, target>>, <<target, pinging_node>>}
  <2>1. pc = "ping" /\ UNCHANGED <<map, ping_targets, target_idx, pinging_node>>
    BY <1>8 DEF Ping, client
  <2>2. pinging_node \in Node /\ target \in Node \ {pinging_node}
    BY <2>1, <1>0 DEF Aimed, InRound
  <2> HIDE DEF target
  <2>3. LH_OK(latencies, pinging_node, target)
    BY <2>1, <2>2, <1>0 DEF Inserted, InRound
  <2>4. Agree(pinging_node, target)
    BY <2>1, <2>2, <2>3, <1>0 DEF Inserted, InRound
  <2>5. PICK link \in links_of \cap DOMAIN map :
          latency_hash_get(latencies, pinging_node, target) = map[link]
    BY <2>4 DEF Agree
  <2>6. map[link] \in Int
    BY <2>5, <1>0, NetworkAssumption DEF Collected
  <2>7. PICK here \in Congestion(pinging_node), there \in Congestion(target) :
          latency' = Grain * map[link] + here + there
    BY <1>8, <2>3, <2>5 DEF Ping, target
  <2>10. here \in Nat /\ there \in Nat
    <3>1. profiles \in Profiles
      BY <1>0 DEF Collected
    <3>2. Congestion(pinging_node) \subseteq Nat /\ Congestion(target) \subseteq Nat
      BY <2>2, <3>1, <1>0, CongestionIsNat
    <3> QED BY <2>7, <3>2
  <2>8. pc' = "update"
    BY <1>8, <2>3 DEF Ping, target
  <2>9. latency' \in Int /\ Grain * map[link] <= latency'
    <3>1. Grain * map[link] \in Int
      BY <2>6, GrainAssumption
    <3> HIDE DEF links_of
    <3> QED BY <2>7, <2>10, <3>1
  <2> QED BY <2>1, <2>5, <2>8, <2>9 DEF Measured, AbortsHaveCause, target
<1>9. CASE Update
  <2>1. pc = "update"
    BY <1>9 DEF Update
  <2>2. CASE latency <= 0
    <3>1. pc' = "dead" /\ UNCHANGED <<map, ping_targets, target_idx, pinging_node, latency>>
      BY <1>9, <2>2 DEF Update, client, round
    <3> DEFINE target == ping_targets[pinging_node][target_idx]
    <3>2. PICK link \in {<<pinging_node, target>>, <<target, pinging_node>>} \cap DOMAIN map :
            Grain * map[link] <= latency
      BY <2>1, <1>0 DEF Measured
    <3>3. map[link] \in Int /\ latency \in Int
      BY <3>2, <1>0, NetworkAssumption DEF Collected, Measured
    <3>4. map[link] <= 0
      BY <3>2, <3>3, <2>2, Scaled
    <3> QED BY <3>1, <3>2, <3>3, <3>4, <2>2 DEF Measured, AbortsHaveCause
  <2>3. CASE ~(latency <= 0)
    <3>1. pc' \in {"ping", "idle"} /\ latency' = 0
      BY <1>9, <2>3 DEF Update
    <3> QED BY <3>1 DEF Measured, AbortsHaveCause
  <2> QED BY <2>2, <2>3
<1>10. CASE Stopped \/ UNCHANGED vars
  BY <1>10, <1>0 DEF Stopped, vars, client, round, Measured, AbortsHaveCause, ProfileUnfit, Sent, Node
<1> QED BY <1>1, <1>2, <1>3, <1>4, <1>5, <1>6, <1>7, <1>8, <1>9, <1>10
        DEF Next, EngineStep

\* The samples of the nodes.
LEMMA StoredStep == IInv /\ [Next]_vars => Stored'
<1> SUFFICES ASSUME IInv, [Next]_vars PROVE Stored'
  OBVIOUS
<1>0. /\ Stored /\ Aimed /\ Collected /\ Node \subseteq Index
  BY NodeSubset DEF IInv, Collected
<1>1. ASSUME pc \notin {"update", "dead"}, pc' # "update", store' = store
      PROVE  Stored'
  BY <1>1, <1>0 DEF Stored
<1>2. ASSUME NEW n \in 1..MaxInstances, SetUp(n) PROVE Stored'
  BY <1>1, <1>2 DEF SetUp
<1>3. ASSUME NEW link \in Index \X Index, CollectLink(link) PROVE Stored'
  BY <1>1, <1>3 DEF CollectLink
<1>4. CASE Send
  <2>1. CASE store' = store
    <3>1. pc = "collect" /\ pc' # "update"
      BY <1>4, SendFacts
    <3> QED BY <1>1, <2>1, <3>1
  <2>2. CASE store' = [n \in Index |-> EmptyStore] /\ pc' # "update"
    BY <2>2, EmptyStoreOK DEF Stored, NodeOK
  <2> QED BY <1>4, <2>1, <2>2, SendFacts DEF Send, Renewed
<1>5. CASE InsertLatency
  BY <1>1, <1>5 DEF InsertLatency
<1>6. CASE FirstRound \/ NextRound
  BY <1>1, <1>6 DEF FirstRound, NextRound
<1>7. ASSUME NEW n \in Index, DrawTarget(n) PROVE Stored'
  BY <1>1, <1>7 DEF DrawTarget
<1>8. CASE BeginSteps
  BY <1>1, <1>8 DEF BeginSteps
<1>9. CASE Ping
  <2>1. pc = "ping" /\ pinging_node \in Index /\ pinging_node' = pinging_node
    BY <1>9, <1>0 DEF Ping, Aimed
  <2>2. CASE pc' = "dead" /\ store' = store
    BY <1>1, <2>1, <2>2
  <2>3. CASE /\ pc' = "update"
             /\ \E a \in Malloc(Address \ store[pinging_node].allocated) :
                  /\ last' = a
                  /\ store' = [store EXCEPT ![pinging_node] = viv_record_ping_sample(@, a)]
    <3>1. PICK a \in Malloc(Address \ store[pinging_node].allocated) :
            /\ last' = a
            /\ store' = [store EXCEPT ![pinging_node] = viv_record_ping_sample(@, a)]
      BY <2>3
    <3>2. a \in Address \ store[pinging_node].allocated
      <4>1. Address \ store[pinging_node].allocated \in SUBSET Address
        OBVIOUS
      <4> QED BY <4>1, <3>1, MallocAssumption
    <3> DEFINE t == viv_record_ping_sample(store[pinging_node], a)
    <3>3. NodeOK(store[pinging_node]) /\ Settled(store[pinging_node])
      BY <2>1, <1>0 DEF Stored
    <3>4. NodeOK(t) /\ Recorded(t, a)
      BY <3>2, <3>3, RecordLemma
    <3> HIDE DEF t
    <3>5. store' = [store EXCEPT ![pinging_node] = t]
      BY <3>1 DEF t
    <3> QED BY <3>1, <3>4, <3>5, <2>1, <2>3, <1>0 DEF Stored, NodeOK
  <2> QED BY <1>9, <2>2, <2>3 DEF Ping
<1>10. CASE Update
  <2>1. /\ pc = "update" /\ pinging_node \in Index
        /\ NodeOK(store[pinging_node]) /\ Recorded(store[pinging_node], last)
    BY <1>10, <1>0 DEF Update, Aimed, Stored
  <2>2. CASE latency <= 0
    <3>1. pc' = "dead" /\ UNCHANGED <<store, pinging_node>>
      BY <1>10, <2>2 DEF Update, round
    <3> QED BY <3>1, <2>1, <1>0 DEF Stored
  <2>3. CASE ~(latency <= 0)
    <3>1. PICK t \in viv_update(store[pinging_node], last) :
            store' = [store EXCEPT ![pinging_node] = t]
      BY <1>10, <2>3 DEF Update
    <3>2. NodeOK(t) /\ Settled(t)
      BY <2>1, UpdateLemma
    <3>3. pc' \in {"ping", "idle"}
      BY <1>10, <2>3 DEF Update
    <3> QED BY <3>1, <3>2, <3>3, <2>1, <1>0 DEF Stored, NodeOK
  <2> QED BY <2>2, <2>3
<1>11. CASE Stopped \/ UNCHANGED vars
  BY <1>11, <1>0 DEF Stopped, vars, round, Stored
<1> QED BY <1>2, <1>3, <1>4, <1>5, <1>6, <1>7, <1>8, <1>9, <1>10, <1>11
        DEF Next, EngineStep

LEMMA PcStep == IInv /\ [Next]_vars => PcOK'
<1> SUFFICES ASSUME IInv, [Next]_vars PROVE PcOK'
  OBVIOUS
<1>1. CASE \/ (\E n \in 1..MaxInstances : SetUp(n))
           \/ (\E link \in Index \X Index : CollectLink(link)) \/ Send
  <2>1. ASSUME NEW n \in 1..MaxInstances, SetUp(n) PROVE PcOK'
    BY <2>1 DEF SetUp, PcOK
  <2>2. ASSUME NEW link \in Index \X Index, CollectLink(link) PROVE PcOK'
    BY <2>2 DEF CollectLink, IInv, PcOK
  <2>3. CASE Send
    <3>1. pc' \in {"away", "insert", "dead"}
      BY <2>3, SendFacts
    <3> QED BY <3>1 DEF PcOK
  <2> QED BY <1>1, <2>1, <2>2, <2>3
<1>2. CASE \/ InsertLatency \/ FirstRound \/ NextRound
           \/ (\E n \in Index : DrawTarget(n)) \/ BeginSteps
  BY <1>2 DEF InsertLatency, FirstRound, NextRound, DrawTarget, BeginSteps, IInv, PcOK
<1>3. CASE Ping
  BY <1>3 DEF Ping, PcOK
<1>4. CASE Update
  <2>1. CASE latency <= 0
    BY <1>4, <2>1 DEF Update, PcOK
  <2>2. CASE ~(latency <= 0)
    BY <1>4, <2>2 DEF Update, PcOK
  <2> QED BY <2>1, <2>2
<1>5. CASE Stopped \/ UNCHANGED vars
  BY <1>5 DEF Stopped, vars, IInv, PcOK
<1> QED BY <1>1, <1>2, <1>3, <1>4, <1>5 DEF Next, EngineStep
-----------------------------------------------------------------------------
\* The invariant is one: every step of the client and of the engine keeps it.
THEOREM Inductive == Spec => []IInv
<1>1. IInv /\ [Next]_vars => IInv'
  BY CollectedStep, AimedStep, MeasuredStep, StoredStep, PcStep DEF IInv
<1> QED BY InitIInv, <1>1, PTL DEF Spec

\* The variables have their types and the lists keep their limits, as
\* viv_record_ping_sample() and viv_prot_update_buffers() drop what exceeds them.
THEOREM NetworkTypeOK == Spec => []TypeOK
<1>1. IInv => TypeOK
  <2> SUFFICES ASSUME IInv PROVE TypeOK
    OBVIOUS
  <2>1. \A n \in Index : store[n] \in Store /\ Bounded(store[n])
    BY DEF IInv, Stored, NodeOK
  <2>2. pc = "update" => last \in Address
    BY DEF IInv, Stored, Recorded
  <2> QED BY <2>1, <2>2 DEF IInv, PcOK, Collected, Aimed, Measured, TypeOK
<1> QED BY Inductive, <1>1, PTL

\* The counts of the samples are exact in every node: viv_sample_free() runs for a
\* sample exactly when the last list drops it.
THEOREM SamplesStayCounted == Spec => []SamplesCounted
<1>1. IInv => SamplesCounted
  BY DEF IInv, Stored, NodeOK, SamplesCounted
<1> QED BY Inductive, <1>1, PTL

\* Whenever viv_prot_centroid_check() and viv_prot_error_check() can reject, their
\* windows are not empty and the errors fit in the array.
THEOREM ProtectionIsReady == Spec => []ProtectionReady
<1>1. IInv => ProtectionReady
  <2> SUFFICES ASSUME IInv, pc = "update", FALSE \in Verdicts(store[pinging_node])
               PROVE  /\ store[pinging_node].list["centroid"] # <<>>
                      /\ Len(store[pinging_node].list["error"]) \in
                           1..Len(store[pinging_node].list["memory"])
    BY DEF ProtectionReady
  <2> DEFINE s == store[pinging_node]
  <2>1. s \in Store /\ Recorded(s, last)
    BY DEF IInv, Stored, Aimed
  <2> HIDE DEF s
  <2>2. ~Bootstrapping(s)
    BY Zenon DEF Verdicts, s
  <2>3. Len(s.list["memory"]) > 1
    BY <2>1, <2>2, StoreLists, WindowAssumption DEF Bootstrapping
  <2>4. s.list["error"] # <<>> /\ s.list["centroid"] # <<>>
        /\ Len(s.list["error"]) <= Len(s.list["memory"])
    BY <2>1, <2>3 DEF Recorded
  <2>5. Len(s.list["error"]) \in 1..Len(s.list["memory"])
    BY <2>1, <2>4, StoreLists
  <2> QED BY <2>4, <2>5 DEF s
<1> QED BY Inductive, <1>1, PTL

\* In every round the engine has the latency of each pair of nodes, the same both
\* ways, from the client's map: what create_setup_message() sends is enough for
\* step_coordinates().
THEOREM LatenciesStayAgreed == Spec => []LatenciesAgree
<1>1. IInv => LatenciesAgree
  BY DEF IInv, Inserted, Agree, LatenciesAgree
<1> QED BY Inductive, <1>1, PTL

\* The engine only aborts for a profile that fills its buckets before its last bin or on
\* a latency of the map that is not positive, whatever the profiles and the draws.
THEOREM AbortsAlwaysHaveCause == Spec => []AbortsHaveCause
<1>1. IInv => AbortsHaveCause
  BY DEF IInv, Measured
<1> QED BY Inductive, <1>1, PTL
=============================================================================
