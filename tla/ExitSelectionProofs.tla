-------------------------- MODULE ExitSelectionProofs --------------------------
(***************************************************************************)
(* The exits drawn, for any relays and policies, any consensuses and       *)
(* weights and any ports.                                                  *)
(***************************************************************************)
EXTENDS ExitSelection, TLAPS
-----------------------------------------------------------------------------
(* Policies.                                                               *)

\* Where some address is known to be let through, the port may be: an exit is never
\* missing from a list because the address was not known when it was made.
LEMMA LooseAdmits ==
  ASSUME NEW policy, IsPolicy(policy), NEW ip \in Address, NEW port,
         can_exit_to(policy, ip, port)
  PROVE  might_exit_to_port(policy, port)
<1> DEFINE exact == {i \in DOMAIN policy : OnPort(policy[i], port)
                                              /\ ip \in policy[i].addresses}
           some  == {i \in DOMAIN policy : OnPort(policy[i], port)
                       /\ (policy[i].is_accept \/ AnyAddress(policy[i]))}
<1>1. FirstAccepts(policy, exact)
  BY DEF can_exit_to
<1>2. FirstAccepts(policy, some)
  <2> SUFFICES ASSUME NEW i \in some, ~policy[i].is_accept
               PROVE  \E j \in some : j < i /\ policy[j].is_accept
    BY DEF FirstAccepts
  <2>1. AnyAddress(policy[i]) /\ i \in DOMAIN policy /\ OnPort(policy[i], port)
    OBVIOUS
  <2>2. policy[i].addresses = Address
    BY <2>1 DEF IsPolicy, AnyAddress
  <2>3. PICK j \in exact : j < i /\ policy[j].is_accept
    BY <1>1, <2>1, <2>2 DEF FirstAccepts
  <2> QED BY <2>3
<1> QED BY <1>2 DEF might_exit_to_port

\* So it is with the filter: who takes the stream is on the list for its port.
LEMMA LooseFilterAdmits ==
  ASSUME NEW c \in Consensus, NEW e \in Relay, NEW q \in Streams, q.port # None,
         exit_filter(e, c, q, FALSE)
  PROVE  q.port \in Port /\ exit_filter(e, c, AnyPort(q.port), TRUE)
<1>1. PICK a \in Address, p \in Port :
        q = [ip |-> a, port |-> p, stable |-> p \in LongLived]
  BY DEF Streams, Resolve
<1>2. q.ip = a /\ q.port = p /\ q.stable = (p \in LongLived) /\ a # None /\ p # None
  BY <1>1, ConsensusAssumption
<1>3. can_exit_to(c.policy[e], a, p)
  BY <1>2 DEF exit_filter, Lets
<1>4. might_exit_to_port(c.policy[e], p)
  BY <1>3, LooseAdmits, ConsensusAssumption
<1>5. AnyPort(p).ip = None /\ AnyPort(p).port = p /\ AnyPort(p).stable = (p \in LongLived)
  BY DEF AnyPort
<1> QED BY <1>2, <1>4, <1>5 DEF exit_filter, Lets
-----------------------------------------------------------------------------
(* Lists with cumulated weights.                                           *)

Rising(list) ==
  \A i, j \in DOMAIN list : i <= j => list[i].cum <= list[j].cum

\* Each entry's interval is as long as its weight.
Spaced(list, c) ==
  \A i \in DOMAIN list :
    list[i].cum = weight(list[i].node, c) + IF i = 1 THEN 0 ELSE list[i - 1].cum

\* What a list is when the first n relays have been looked at.
SoFar(list, c, q, loose, n) ==
  /\ list \in Seq(Entry) /\ Rising(list) /\ Spaced(list, c)
  /\ \A i \in DOMAIN list :
       \E k \in 1..n : list[i].node = c.relays[k] /\ exit_filter(c.relays[k], c, q, loose)
  /\ \A k \in 1..n : exit_filter(c.relays[k], c, q, loose) =>
       \E i \in DOMAIN list : list[i].node = c.relays[k]
  /\ \A i, j \in DOMAIN list : list[i].node = list[j].node => i = j

\* What is drawn from.
Drawable(list, c, q, loose) ==
  list \in Seq(Entry) /\ list # <<>> /\ Rising(list) /\ ListFor(list, c, q, loose)

LEMMA WeightType ==
  ASSUME NEW c \in Consensus, NEW e \in Relay PROVE weight(e, c) \in Nat
<1>1. c.bandwidth[e] \in Nat
  BY ConsensusAssumption
<1>2. get_bw_weight(c.flags[e]) \in Nat
  BY ConsensusAssumption DEF get_bw_weight
<1>3. \A x, y \in Nat : x * y \in Nat
  OBVIOUS
<1> QED BY <1>1, <1>2, <1>3 DEF weight

LEMMA NothingListed ==
  ASSUME NEW c \in Consensus, NEW q, NEW loose PROVE SoFar(<<>>, c, q, loose, 0)
BY DEF SoFar, Rising, Spaced

\* A relay that does not pass changes nothing, one that does is appended.
LEMMA PassedOver ==
  ASSUME NEW c \in Consensus, NEW q, NEW loose, NEW list, NEW n \in Nat,
         SoFar(list, c, q, loose, n), ~exit_filter(c.relays[n + 1], c, q, loose)
  PROVE  SoFar(list, c, q, loose, n + 1)
<1>1. \A k : k \in 1..n + 1 <=> k \in 1..n \/ k = n + 1
  OBVIOUS
<1> QED BY <1>1 DEF SoFar

LEMMA Listed ==
  ASSUME NEW c \in Consensus, NEW q, NEW loose, NEW list, NEW n \in Nat,
         n < Len(c.relays), SoFar(list, c, q, loose, n),
         exit_filter(c.relays[n + 1], c, q, loose)
  PROVE  SoFar(Append(list, [node |-> c.relays[n + 1],
                             cum |-> Cumulated(list) + weight(c.relays[n + 1], c)]),
               c, q, loose, n + 1)
<1> DEFINE e == c.relays[n + 1]
           x == [node |-> e, cum |-> Cumulated(list) + weight(e, c)]
           m == Append(list, x)
<1>1. /\ c.relays \in Seq(Relay)
      /\ \A i, j \in DOMAIN c.relays : c.relays[i] = c.relays[j] => i = j
  BY ConsensusAssumption
<1>2. list \in Seq(Entry) /\ e \in Relay /\ weight(e, c) \in Nat
  BY <1>1, WeightType DEF SoFar
<1>3. Cumulated(list) \in Nat /\ \A i \in DOMAIN list : list[i].cum <= Cumulated(list)
  <2>1. CASE list = <<>>
    BY <2>1 DEF Cumulated
  <2>2. CASE list # <<>>
    <3>1. DOMAIN list = 1..Len(list) /\ Len(list) \in Nat \ {0} /\ Len(list) \in DOMAIN list
      BY <1>2, <2>2
    <3>2. list[Len(list)] \in Entry
      BY <1>2, <3>1
    <3>3. list[Len(list)].cum \in Nat
      BY <3>2 DEF Entry
    <3>4. ASSUME NEW i \in DOMAIN list PROVE list[i].cum <= list[Len(list)].cum
      <4>1. i <= Len(list)
        BY <3>1
      <4>2. Rising(list)
        BY DEF SoFar
      <4> QED BY <3>1, <4>1, <4>2 DEF Rising
    <3> QED BY <2>2, <3>3, <3>4 DEF Cumulated
  <2> QED BY <2>1, <2>2
<1>4. x \in Entry /\ x.node = e /\ x.cum = Cumulated(list) + weight(e, c)
  BY <1>2, <1>3 DEF Entry
<1> HIDE DEF x, e
<1>5. /\ m \in Seq(Entry) /\ DOMAIN m = 1..Len(list) + 1
      /\ DOMAIN list = 1..Len(list) /\ Len(list) \in Nat
      /\ m[Len(list) + 1] = x
      /\ \A i \in DOMAIN list : m[i] = list[i]
  BY <1>2, <1>4
<1> HIDE DEF m
<1>6. Rising(m)
  <2> SUFFICES ASSUME NEW i \in DOMAIN m, NEW j \in DOMAIN m, i <= j
               PROVE  m[i].cum <= m[j].cum
    BY DEF Rising
  <2>1. CASE j \in DOMAIN list
    <3>1. i \in DOMAIN list
      BY <1>5, <2>1
    <3>2. list[i].cum <= list[j].cum
      BY <2>1, <3>1 DEF SoFar, Rising
    <3>3. m[i] = list[i] /\ m[j] = list[j]
      BY <1>5, <2>1, <3>1
    <3> QED BY <3>2, <3>3
  <2>2. CASE j = Len(list) + 1 /\ i \in DOMAIN list
    <3>1. m[i] = list[i] /\ m[j] = x /\ list[i] \in Entry
      BY <1>2, <1>5, <2>2
    <3>2. list[i].cum \in Nat
      BY <3>1 DEF Entry
    <3>3. list[i].cum <= Cumulated(list)
      BY <1>3, <2>2
    <3> QED BY <1>2, <1>3, <1>4, <3>1, <3>2, <3>3
  <2>3. CASE j = Len(list) + 1 /\ i = Len(list) + 1
    <3>1. m[i].cum = m[j].cum /\ m[i].cum \in Nat
      BY <1>2, <1>3, <1>4, <1>5, <2>3
    <3> QED BY <3>1
  <2> QED BY <1>5, <2>1, <2>2, <2>3
<1>7. Spaced(m, c)
  <2> SUFFICES ASSUME NEW i \in DOMAIN m
               PROVE  m[i].cum = weight(m[i].node, c) + IF i = 1 THEN 0 ELSE m[i - 1].cum
    BY DEF Spaced
  <2>1. CASE i \in DOMAIN list
    <3>1. i # 1 => i - 1 \in DOMAIN list
      BY <1>5, <2>1
    <3> QED BY <1>5, <2>1, <3>1 DEF SoFar, Spaced
  <2>2. CASE i = Len(list) + 1 /\ i # 1
    <3>1. Cumulated(list) = m[i - 1].cum
      BY <1>2, <1>5, <2>2 DEF Cumulated
    <3> QED BY <1>2, <1>3, <1>4, <1>5, <2>2, <3>1
  <2>3. CASE i = Len(list) + 1 /\ i = 1
    <3>1. Cumulated(list) = 0
      BY <1>2, <1>5, <2>3 DEF Cumulated
    <3> QED BY <1>2, <1>4, <1>5, <2>3, <3>1
  <2> QED BY <1>5, <2>1, <2>2, <2>3
<1>8. \A i \in DOMAIN m :
        \E k \in 1..n + 1 : m[i].node = c.relays[k] /\ exit_filter(c.relays[k], c, q, loose)
  <2> SUFFICES ASSUME NEW i \in DOMAIN m
               PROVE  \E k \in 1..n + 1 : /\ m[i].node = c.relays[k]
                                          /\ exit_filter(c.relays[k], c, q, loose)
    OBVIOUS
  <2>1. CASE i \in DOMAIN list
    <3>1. PICK k \in 1..n : /\ list[i].node = c.relays[k]
                            /\ exit_filter(c.relays[k], c, q, loose)
      BY <2>1 DEF SoFar
    <3>2. k \in 1..n + 1
      OBVIOUS
    <3> QED BY <1>5, <2>1, <3>1, <3>2
  <2>2. CASE i = Len(list) + 1
    BY <1>4, <1>5, <2>2 DEF e
  <2> QED BY <1>5, <2>1, <2>2
<1>9. \A k \in 1..n + 1 : exit_filter(c.relays[k], c, q, loose) =>
        \E i \in DOMAIN m : m[i].node = c.relays[k]
  <2> SUFFICES ASSUME NEW k \in 1..n + 1, exit_filter(c.relays[k], c, q, loose)
               PROVE  \E i \in DOMAIN m : m[i].node = c.relays[k]
    OBVIOUS
  <2>1. CASE k \in 1..n
    <3>1. PICK i \in DOMAIN list : list[i].node = c.relays[k]
      BY <2>1 DEF SoFar
    <3>2. i \in DOMAIN m
      BY <1>5
    <3> QED BY <1>5, <3>1, <3>2
  <2>2. CASE k = n + 1
    <3>1. Len(list) + 1 \in DOMAIN m
      BY <1>5
    <3> QED BY <1>4, <1>5, <2>2, <3>1 DEF e
  <2> QED BY <2>1, <2>2
<1>10. \A i \in DOMAIN list : list[i].node # e
  <2> SUFFICES ASSUME NEW i \in DOMAIN list, list[i].node = e PROVE FALSE
    OBVIOUS
  <2>1. PICK k \in 1..n : list[i].node = c.relays[k]
    BY DEF SoFar
  <2>2. k \in DOMAIN c.relays /\ n + 1 \in DOMAIN c.relays /\ k # n + 1
    BY <1>1
  <2> QED BY <1>1, <2>1, <2>2 DEF e
<1>11. \A i, j \in DOMAIN m : m[i].node = m[j].node => i = j
  <2> SUFFICES ASSUME NEW i \in DOMAIN m, NEW j \in DOMAIN m, m[i].node = m[j].node
               PROVE  i = j
    OBVIOUS
  <2>1. CASE i \in DOMAIN list /\ j \in DOMAIN list
    BY <1>5, <2>1 DEF SoFar
  <2>2. CASE i \notin DOMAIN list \/ j \notin DOMAIN list
    BY <1>4, <1>5, <1>10, <2>2
  <2> QED BY <2>1, <2>2
<1> QED BY <1>5, <1>6, <1>7, <1>8, <1>9, <1>11 DEF SoFar, m, x, e

\* With all relays looked at and some weight, the list can be drawn from.
LEMMA WholeList ==
  ASSUME NEW c \in Consensus, NEW q, NEW loose, NEW list,
         SoFar(list, c, q, loose, Len(c.relays)), Cumulated(list) # 0
  PROVE  Drawable(list, c, q, loose)
<1>1. DOMAIN c.relays = 1..Len(c.relays)
  BY ConsensusAssumption
<1>2. list # <<>>
  BY DEF Cumulated
<1>3. {list[i].node : i \in DOMAIN list} =
        {e \in {c.relays[k] : k \in DOMAIN c.relays} : exit_filter(e, c, q, loose)}
  BY <1>1 DEF SoFar
<1> QED BY <1>2, <1>3 DEF SoFar, Drawable, ListFor, Spaced
-----------------------------------------------------------------------------
(* The inductive invariant.                                                *)

\* Lists are stored complete, and are those of the consensus of now.
StoredInv ==
  /\ \A p \in Port : port_need_weighted_exits[p] # None =>
       Drawable(port_need_weighted_exits[p], consensus, AnyPort(p), FALSE)
  /\ \A p \in Port : stream_port_weighted_exits[p] # None =>
       Drawable(stream_port_weighted_exits[p], consensus, AnyPort(p), TRUE)
  /\ stream_port_weighted_exits[None] # None =>
       Drawable(stream_port_weighted_exits[None], consensus, Resolve, FALSE)

IsNeedList(l)    == \E p \in needs : l = [kind |-> "need", of |-> AnyPort(p), loose |-> FALSE]
IsStreamList(l)  == \E p \in Port : l = [kind |-> "stream", of |-> AnyPort(p), loose |-> TRUE]
IsResolveList(l) == l = [kind |-> "stream", of |-> Resolve, loose |-> FALSE]

BeingListed(p) ==
  p \in todo \/ (pc = "list" /\ listing.kind = "need" /\ listing.of.port = p)

\* The list being made, and the needs still without one.
MakingInv ==
  /\ pc = "list" =>
       /\ SoFar(weighted_exits, consensus, listing.of, listing.loose, relays)
       /\ IsNeedList(listing) \/ IsStreamList(listing) \/ IsResolveList(listing)
  /\ pc # "raised" =>
       \A p \in needs : port_need_weighted_exits[p] # None \/ BeingListed(p)
  /\ pc \notin {"lists", "list", "raised"} => todo = {} /\ StreamListed

\* The list drawn from is that of the request, or one for its port.
DrawInv ==
  /\ pc \in {"draw", "search", "found", "chosen"} =>
       \/ exits_exact /\ Drawable(weighted_exits, consensus, request, FALSE)
       \/ /\ ~exits_exact /\ request \in Streams /\ request.port # None
          /\ Drawable(weighted_exits, consensus, AnyPort(request.port), TRUE)
  /\ pc = "chosen" =>
       mid \in DOMAIN weighted_exits /\ exit_filter(exit_node, consensus, request, FALSE)

\* The entry looked for lies in the range.
SearchInv ==
  /\ pc # "lost"
  /\ pc \in {"search", "found"} =>
       /\ begin \in DOMAIN weighted_exits /\ end \in DOMAIN weighted_exits
       /\ begin <= mid /\ mid <= end
       /\ \A i \in DOMAIN weighted_exits : i < begin => weighted_exits[i].cum < r
       /\ r <= weighted_exits[end].cum
  /\ pc = "search" => mid = (begin + end) \div 2
  /\ pc = "found" => mid = begin /\ r <= weighted_exits[mid].cum

IInv == TypeOK /\ StoredInv /\ MakingInv /\ DrawInv /\ SearchInv

\* The actions of a search leave everything else alone.
Searching == SearchLeft \/ SearchRight \/ Found \/ DrawAgain \/ ReturnExit

LEMMA InitIInv == Init => IInv
<1> SUFFICES ASSUME Init PROVE IInv
  OBVIOUS
<1>1. SeedPort \in Port /\ <<>> \in Seq(Entry) /\ AnyPort(SeedPort) \in Request
  BY ConsensusAssumption DEF AnyPort, Request
<1>2. Resolve \in Streams /\ Resolve \in Request
  BY DEF Resolve, Streams, Request
<1>3. NoList \in [kind : {"need", "stream"}, of : Request, loose : BOOLEAN]
  BY <1>2 DEF NoList
<1>4. TypeOK
  BY <1>1, <1>2, <1>3 DEF Init, TypeOK
<1>5. StoredInv
  BY ConsensusAssumption DEF Init, StoredInv
<1>6. MakingInv
  BY DEF Init, MakingInv, BeingListed
<1> QED BY <1>4, <1>5, <1>6 DEF Init, IInv, DrawInv, SearchInv
-----------------------------------------------------------------------------
(* The types.                                                              *)

LEMMA CumulatedType ==
  ASSUME NEW list \in Seq(Entry) PROVE Cumulated(list) \in Nat
<1>1. CASE list = <<>>
  BY <1>1 DEF Cumulated
<1>2. CASE list # <<>>
  <2>1. list[Len(list)] \in Entry
    BY <1>2
  <2> QED BY <1>2, <2>1 DEF Cumulated, Entry
<1> QED BY <1>1, <1>2

LEMMA TypeStep ==
  ASSUME IInv, [Next]_vars PROVE TypeOK'
<1>0. TypeOK /\ MakingInv
  BY DEF IInv
<1>1. Resolve \in Streams /\ Resolve \in Request
  BY DEF Resolve, Streams, Request
<1>2. \A p \in Port : AnyPort(p) \in Request
  BY DEF AnyPort, Request
<1>3. NoList \in [kind : {"need", "stream"}, of : Request, loose : BOOLEAN]
  BY <1>1 DEF NoList
<1>4. CASE BeginPeriod
  BY <1>0, <1>4 DEF BeginPeriod, TypeOK, lists, making, search
<1>5. CASE NextMinute
  <2>1. todo = {}
    BY <1>0, <1>5 DEF NextMinute, MakingInv
  <2> QED BY <1>0, <1>5, <2>1 DEF NextMinute, TypeOK, lists, making, search
<1>6. ASSUME NEW q \in Streams, TakeStream(q) PROVE TypeOK'
  <2>1. PortOf(q) \in Port
    BY ConsensusAssumption DEF PortOf, Streams, Resolve
  <2> QED BY <1>0, <1>6, <2>1 DEF TakeStream, TypeOK, lists, making, search
<1>7. ASSUME NEW p \in Port, ListForNeed(p) PROVE TypeOK'
  <2>1. [kind |-> "need", of |-> AnyPort(p), loose |-> FALSE]
          \in [kind : {"need", "stream"}, of : Request, loose : BOOLEAN]
    BY <1>2
  <2>2. consensus.relays \in Seq(Relay)
    BY <1>0, ConsensusAssumption DEF TypeOK
  <2> QED BY <1>0, <1>7, <2>1, <2>2 DEF ListForNeed, TypeOK, lists, search
<1>8. CASE ListForStream
  <2>1. stream \in Streams
    BY <1>0, <1>8 DEF ListForStream, TypeOK, StreamListed
  <2>2. stream.port = None \/ stream.port \in Port
    BY <2>1 DEF Streams, Resolve
  <2>3. /\ [kind |-> "stream", of |-> Resolve, loose |-> FALSE]
             \in [kind : {"need", "stream"}, of : Request, loose : BOOLEAN]
        /\ \A p \in Port : [kind |-> "stream", of |-> AnyPort(p), loose |-> TRUE]
             \in [kind : {"need", "stream"}, of : Request, loose : BOOLEAN]
    BY <1>1, <1>2
  <2>4. listing' \in [kind : {"need", "stream"}, of : Request, loose : BOOLEAN]
    BY <1>8, <2>2, <2>3 DEF ListForStream
  <2>5. consensus.relays \in Seq(Relay)
    BY <1>0, ConsensusAssumption DEF TypeOK
  <2> QED BY <1>0, <1>8, <2>4, <2>5 DEF ListForStream, TypeOK, lists, search
<1>9. CASE LookAtRelay
  <2>1. consensus \in Consensus /\ relays + 1 \in DOMAIN consensus.relays
    BY <1>0, <1>9, ConsensusAssumption DEF LookAtRelay, TypeOK
  <2>2. consensus.relays[relays + 1] \in Relay
    BY <2>1, ConsensusAssumption
  <2>3. Cumulated(weighted_exits) + weight(consensus.relays[relays + 1], consensus) \in Nat
    BY <1>0, <2>1, <2>2, CumulatedType, WeightType DEF TypeOK
  <2>4. [node |-> consensus.relays[relays + 1],
         cum |-> Cumulated(weighted_exits)
                   + weight(consensus.relays[relays + 1], consensus)] \in Entry
    BY <2>2, <2>3 DEF Entry
  <2>5. weighted_exits' \in Seq(Entry)
    BY <1>0, <1>9, <2>4 DEF LookAtRelay, TypeOK
  <2>6. relays' \in Nat /\ relays' <= Len(consensus'.relays)
    BY <1>0, <1>9, <2>1, ConsensusAssumption DEF LookAtRelay, TypeOK
  <2> QED BY <1>0, <1>9, <2>5, <2>6 DEF LookAtRelay, TypeOK, lists, search
<1>10. CASE StoreList
  <2>1. <<>> \in Seq(Entry)
    OBVIOUS
  <2> QED BY <1>0, <1>3, <1>10, <2>1 DEF StoreList, TypeOK, lists, search
<1>11. CASE ListsMade
  BY <1>0, <1>11 DEF ListsMade, TypeOK, lists, making, search
<1>12. ASSUME NEW p \in Port, RequestForNeed(p) PROVE TypeOK'
  <2>1. port_need_weighted_exits[p] \in Seq(Entry)
    BY <1>0, <1>12 DEF RequestForNeed, TypeOK, MakingInv, BeingListed
  <2> QED BY <1>0, <1>12, <2>1 DEF RequestForNeed, TypeOK, lists, making, search
<1>13. CASE RequestForStream
  <2>1. stream \in Streams /\ stream_port_weighted_exits[stream.port] # None
    BY <1>0, <1>13 DEF RequestForStream, TypeOK, MakingInv, StreamListed
  <2>2. stream.port \in Port \cup {None}
    BY <2>1 DEF Streams, Resolve
  <2>3. stream_port_weighted_exits[stream.port] \in Seq(Entry)
    BY <1>0, <2>1, <2>2 DEF TypeOK
  <2> QED BY <1>0, <1>13, <2>1, <2>3 DEF RequestForStream, TypeOK, lists, making, search
<1>14. ASSUME NEW x \in 0..Cumulated(weighted_exits), Draw(x) PROVE TypeOK'
  <2>1. x \in Nat
    BY <1>0, CumulatedType DEF TypeOK
  <2>2. Len(weighted_exits) \in Nat /\ (1 + Len(weighted_exits)) \div 2 \in Nat
    BY <1>0 DEF TypeOK
  <2> QED BY <1>0, <1>14, <2>1, <2>2 DEF Draw, TypeOK, lists, making, search
<1>15. CASE Searching
  <2>1. (mid + begin) \div 2 \in Nat /\ (end + mid + 1) \div 2 \in Nat /\ mid + 1 \in Nat
    BY <1>0 DEF TypeOK
  <2>2. CASE SearchLeft
    BY <1>0, <2>1, <2>2 DEF SearchLeft, TypeOK, lists, making
  <2>3. CASE SearchRight
    BY <1>0, <2>1, <2>3 DEF SearchRight, TypeOK, lists, making
  <2>4. CASE Found
    BY <1>0, <2>4 DEF Found, TypeOK, lists, making, search
  <2>5. CASE DrawAgain
    BY <1>0, <2>5 DEF DrawAgain, TypeOK, lists, making, search
  <2>6. CASE ReturnExit
    BY <1>0, <2>6 DEF ReturnExit, TypeOK, lists, making, search
  <2> QED BY <1>15, <2>2, <2>3, <2>4, <2>5, <2>6 DEF Searching
<1>16. CASE GoOn
  <2>1. <<>> \in Seq(Entry)
    OBVIOUS
  <2>2. request' \in Streams /\ exits_exact' \in BOOLEAN /\ weighted_exits' \in Seq(Entry)
    BY <1>1, <1>16, <2>1 DEF GoOn
  <2> QED BY <1>0, <1>16, <2>2 DEF GoOn, TypeOK, lists, making
<1>17. CASE UNCHANGED vars
  BY <1>0, <1>17 DEF TypeOK, vars, lists, making, search
<1> QED
  BY <1>4, <1>5, <1>6, <1>7, <1>8, <1>9, <1>10, <1>11, <1>12, <1>13, <1>14, <1>15,
     <1>16, <1>17
  DEF Next, SearchStep, Searching, Stopped
-----------------------------------------------------------------------------
(* The lists.                                                              *)

\* What a list being made becomes when it is stored.
LEMMA ReadyToStore ==
  ASSUME IInv, StoreList, Cumulated(weighted_exits) # 0
  PROVE  /\ weighted_exits # None
         /\ Drawable(weighted_exits, consensus, listing.of, listing.loose)
<1>1. /\ weighted_exits \in Seq(Entry) /\ consensus \in Consensus
      /\ SoFar(weighted_exits, consensus, listing.of, listing.loose, Len(consensus.relays))
  BY DEF IInv, TypeOK, MakingInv, StoreList
<1> QED BY <1>1, WholeList, ConsensusAssumption

LEMMA StoredStep ==
  ASSUME IInv, [Next]_vars PROVE StoredInv'
<1>0. TypeOK /\ StoredInv /\ MakingInv
  BY DEF IInv
<1>1. CASE UNCHANGED <<consensus, lists>>
  BY <1>0, <1>1 DEF StoredInv, lists
<1>2. CASE BeginPeriod
  BY <1>0, <1>2, ConsensusAssumption DEF BeginPeriod, StoredInv
<1>3. CASE StoreList /\ ~(UNCHANGED <<consensus, lists>>)
  <2>1. Cumulated(weighted_exits) # 0 /\ consensus' = consensus
    BY <1>3 DEF StoreList
  <2>2. Drawable(weighted_exits, consensus, listing.of, listing.loose)
    BY <1>3, <2>1, ReadyToStore
  <2>3. ASSUME NEW p \in Port,
               listing = [kind |-> "need", of |-> AnyPort(p), loose |-> FALSE]
        PROVE  StoredInv'
    <3>1. /\ port_need_weighted_exits' =
                [port_need_weighted_exits EXCEPT ![p] = weighted_exits]
          /\ stream_port_weighted_exits' = stream_port_weighted_exits
      BY <1>3, <2>1, <2>3 DEF StoreList, AnyPort
    <3>2. Drawable(weighted_exits, consensus, AnyPort(p), FALSE)
      BY <2>2, <2>3
    <3> QED BY <1>0, <2>1, <3>1, <3>2 DEF StoredInv, TypeOK
  <2>4. ASSUME NEW p \in Port,
               listing = [kind |-> "stream", of |-> AnyPort(p), loose |-> TRUE]
        PROVE  StoredInv'
    <3>1. /\ stream_port_weighted_exits' =
                [stream_port_weighted_exits EXCEPT ![p] = weighted_exits]
          /\ port_need_weighted_exits' = port_need_weighted_exits
      BY <1>3, <2>1, <2>4 DEF StoreList, AnyPort
    <3>2. Drawable(weighted_exits, consensus, AnyPort(p), TRUE)
      BY <2>2, <2>4
    <3>3. p # None
      BY ConsensusAssumption
    <3> QED BY <1>0, <2>1, <3>1, <3>2, <3>3 DEF StoredInv, TypeOK
  <2>5. CASE listing = [kind |-> "stream", of |-> Resolve, loose |-> FALSE]
    <3>1. /\ stream_port_weighted_exits' =
                [stream_port_weighted_exits EXCEPT ![None] = weighted_exits]
          /\ port_need_weighted_exits' = port_need_weighted_exits
      BY <1>3, <2>1, <2>5 DEF StoreList, Resolve
    <3>2. Drawable(weighted_exits, consensus, Resolve, FALSE)
      BY <2>2, <2>5
    <3>3. \A p \in Port : p # None
      BY ConsensusAssumption
    <3> QED BY <1>0, <2>1, <3>1, <3>2, <3>3 DEF StoredInv, TypeOK
  <2>6. IsNeedList(listing) \/ IsStreamList(listing) \/ IsResolveList(listing)
    BY <1>0, <1>3 DEF StoreList, MakingInv
  <2>7. needs \subseteq Port
    BY <1>0 DEF TypeOK
  <2> QED BY <2>3, <2>4, <2>5, <2>6, <2>7 DEF IsNeedList, IsStreamList, IsResolveList
<1>4. ASSUME ~(UNCHANGED <<consensus, lists>>) PROVE BeginPeriod \/ StoreList
  BY <1>4 DEF Next, vars, NextMinute, TakeStream, ListForNeed, ListForStream, LookAtRelay,
     ListsMade, RequestForNeed, RequestForStream, Draw, SearchStep, SearchLeft,
     SearchRight, Found, DrawAgain, ReturnExit, GoOn, Stopped
<1> QED BY <1>1, <1>2, <1>3, <1>4

LEMMA MakingStep ==
  ASSUME IInv, [Next]_vars PROVE MakingInv'
<1>0. TypeOK /\ MakingInv
  BY DEF IInv
<1>1. CASE BeginPeriod
  BY <1>0, <1>1 DEF BeginPeriod, MakingInv, BeingListed
<1>2. CASE NextMinute
  BY <1>0, <1>2 DEF NextMinute, MakingInv, BeingListed, StreamListed, lists, making
<1>3. ASSUME NEW q \in Streams, TakeStream(q) PROVE MakingInv'
  BY <1>0, <1>3 DEF TakeStream, MakingInv, BeingListed, lists
<1>4. ASSUME NEW p \in Port, ListForNeed(p) PROVE MakingInv'
  <2>1. SoFar(<<>>, consensus, AnyPort(p), FALSE, 0)
    BY <1>0, NothingListed DEF TypeOK
  <2>2. /\ listing' = [kind |-> "need", of |-> AnyPort(p), loose |-> FALSE]
        /\ pc' = "list" /\ consensus' = consensus /\ weighted_exits' = <<>> /\ relays' = 0
        /\ pc = "lists" /\ p \in todo /\ todo' = todo \ {p} /\ needs' = needs
        /\ port_need_weighted_exits' = port_need_weighted_exits
    BY <1>4 DEF ListForNeed, lists
  <2>3. listing'.of = AnyPort(p) /\ listing'.loose = FALSE /\ listing'.kind = "need"
    BY <2>2
  <2>4. IsNeedList(listing)'
    BY <1>0, <2>2 DEF IsNeedList, TypeOK
  <2>5. \A m \in needs' : port_need_weighted_exits'[m] # None \/ BeingListed(m)'
    BY <1>0, <2>2, <2>3 DEF MakingInv, BeingListed, AnyPort
  <2> QED BY <2>1, <2>2, <2>3, <2>4, <2>5 DEF MakingInv
<1>5. CASE ListForStream
  <2>1. /\ pc' = "list" /\ consensus' = consensus /\ weighted_exits' = <<>> /\ relays' = 0
        /\ pc = "lists" /\ todo' = todo /\ needs' = needs
        /\ port_need_weighted_exits' = port_need_weighted_exits
    BY <1>5 DEF ListForStream, lists
  <2>2. stream \in Streams
    BY <1>0, <1>5 DEF ListForStream, TypeOK, StreamListed
  <2>3. stream.port = None \/ stream.port \in Port
    BY <2>2 DEF Streams, Resolve
  <2>4. IsStreamList(listing)' \/ IsResolveList(listing)'
    BY <1>5, <2>3 DEF ListForStream, IsStreamList, IsResolveList
  <2>5. SoFar(<<>>, consensus, listing'.of, listing'.loose, 0)
    BY <1>0, NothingListed DEF TypeOK
  <2>6. \A m \in needs' : port_need_weighted_exits'[m] # None \/ BeingListed(m)'
    BY <1>0, <2>1 DEF MakingInv, BeingListed
  <2> QED BY <2>1, <2>4, <2>5, <2>6 DEF MakingInv
<1>6. CASE LookAtRelay
  <2>1. /\ pc = "list" /\ UNCHANGED <<pc, consensus, listing, needs, todo>>
        /\ port_need_weighted_exits' = port_need_weighted_exits
        /\ relays' = relays + 1
    BY <1>6 DEF LookAtRelay, lists
  <2>2. consensus \in Consensus /\ relays \in Nat /\ relays < Len(consensus.relays)
    BY <1>0, <1>6 DEF LookAtRelay, TypeOK
  <2>3. SoFar(weighted_exits, consensus, listing.of, listing.loose, relays)
    BY <1>0, <2>1 DEF MakingInv
  <2>4. SoFar(weighted_exits', consensus, listing.of, listing.loose, relays + 1)
    <3>1. CASE exit_filter(consensus.relays[relays + 1], consensus, listing.of,
                           listing.loose)
      <4>1. weighted_exits' =
              Append(weighted_exits,
                     [node |-> consensus.relays[relays + 1],
                      cum  |-> Cumulated(weighted_exits)
                                 + weight(consensus.relays[relays + 1], consensus)])
        BY <1>6, <3>1 DEF LookAtRelay
      <4> QED BY <2>2, <2>3, <3>1, <4>1, Listed
    <3>2. CASE ~exit_filter(consensus.relays[relays + 1], consensus, listing.of,
                            listing.loose)
      <4>1. weighted_exits' = weighted_exits
        BY <1>6, <3>2 DEF LookAtRelay
      <4> QED BY <2>2, <2>3, <3>2, <4>1, PassedOver
    <3> QED BY <3>1, <3>2
  <2>5. (IsNeedList(listing) \/ IsStreamList(listing) \/ IsResolveList(listing))'
    BY <1>0, <2>1 DEF MakingInv, IsNeedList, IsStreamList, IsResolveList
  <2>6. \A m \in needs' : port_need_weighted_exits'[m] # None \/ BeingListed(m)'
    BY <1>0, <2>1 DEF MakingInv, BeingListed
  <2> QED BY <2>1, <2>4, <2>5, <2>6 DEF MakingInv
<1>7. CASE StoreList
  <2>1. pc = "list" /\ needs' = needs /\ todo' = todo /\ pc' \in {"lists", "raised"}
    BY <1>7 DEF StoreList
  <2>2. ASSUME pc' = "lists", NEW m \in needs
        PROVE  port_need_weighted_exits'[m] # None \/ BeingListed(m)'
    <3>1. Cumulated(weighted_exits) # 0
      BY <1>7, <2>2 DEF StoreList
    <3>2. weighted_exits # None
      BY <1>7, <3>1, ReadyToStore
    <3>3. m \in Port
      BY <1>0 DEF TypeOK
    <3>4. CASE listing.kind = "need" /\ listing.of.port = m
      <4>1. port_need_weighted_exits' =
              [port_need_weighted_exits EXCEPT ![m] = weighted_exits]
        BY <1>7, <3>1, <3>4 DEF StoreList
      <4> QED BY <1>0, <3>2, <3>3, <4>1 DEF TypeOK
    <3>5. CASE ~(listing.kind = "need" /\ listing.of.port = m)
      <4>1. port_need_weighted_exits[m] # None \/ m \in todo
        BY <1>0, <2>1, <3>5 DEF MakingInv, BeingListed
      <4>2. port_need_weighted_exits'[m] = port_need_weighted_exits[m]
        BY <1>0, <1>7, <3>1, <3>3, <3>5 DEF StoreList, TypeOK
      <4> QED BY <2>1, <4>1, <4>2 DEF BeingListed
    <3> QED BY <3>4, <3>5
  <2> QED BY <2>1, <2>2 DEF MakingInv
<1>8. CASE ListsMade
  BY <1>0, <1>8 DEF ListsMade, MakingInv, BeingListed, StreamListed, lists, making
<1>9. CASE /\ UNCHANGED <<needs, todo, stream, lists>>
           /\ pc \notin {"lists", "list", "raised"}
           /\ pc' \notin {"lists", "list", "raised"}
  BY <1>0, <1>9 DEF MakingInv, BeingListed, StreamListed, lists
<1>10. CASE UNCHANGED vars
  BY <1>0, <1>10 DEF MakingInv, BeingListed, StreamListed, IsNeedList, IsStreamList,
     IsResolveList, vars, lists, making
<1>11. ASSUME (\E p \in Port : RequestForNeed(p)) \/ RequestForStream
                \/ (\E x \in 0..Cumulated(weighted_exits) : Draw(x)) \/ SearchStep \/ GoOn
       PROVE  MakingInv'
  BY <1>9, <1>11 DEF RequestForNeed, RequestForStream, Draw, SearchStep, SearchLeft,
     SearchRight, Found, DrawAgain, ReturnExit, GoOn, making
<1> QED
  BY <1>1, <1>2, <1>3, <1>4, <1>5, <1>6, <1>7, <1>8, <1>10, <1>11 DEF Next, Stopped
-----------------------------------------------------------------------------
(* The draw.                                                               *)

\* Facts on what is drawn from.
LEMMA DrawnFrom ==
  ASSUME IInv, pc \in {"draw", "search", "found", "chosen"}
  PROVE  /\ weighted_exits \in Seq(Entry) /\ Rising(weighted_exits)
         /\ DOMAIN weighted_exits = 1..Len(weighted_exits)
         /\ Len(weighted_exits) \in Nat \ {0}
         /\ \A i \in DOMAIN weighted_exits : weighted_exits[i].cum \in Nat
         /\ Cumulated(weighted_exits) = weighted_exits[Len(weighted_exits)].cum
<1>1. weighted_exits \in Seq(Entry) /\ weighted_exits # <<>> /\ Rising(weighted_exits)
  BY DEF IInv, DrawInv, Drawable
<1>2. \A i \in DOMAIN weighted_exits : weighted_exits[i] \in Entry
  BY <1>1
<1>3. \A i \in DOMAIN weighted_exits : weighted_exits[i].cum \in Nat
  BY <1>2 DEF Entry
<1> QED BY <1>1, <1>3 DEF Cumulated

\* Who passes the filter of a list is on it, and conversely.
LEMMA OnTheList ==
  ASSUME NEW c, NEW q, NEW loose, NEW list, Drawable(list, c, q, loose)
  PROVE  /\ \A i \in DOMAIN list : /\ list[i].node \in {c.relays[k] : k \in DOMAIN c.relays}
                                   /\ exit_filter(list[i].node, c, q, loose)
         /\ \A e \in {c.relays[k] : k \in DOMAIN c.relays} : exit_filter(e, c, q, loose) =>
              e \in {list[i].node : i \in DOMAIN list}
BY DEF Drawable, ListFor

LEMMA DrawStep ==
  ASSUME IInv, [Next]_vars PROVE DrawInv'
<1>0. TypeOK /\ StoredInv /\ MakingInv /\ DrawInv /\ SearchInv
  BY DEF IInv
<1>1. CASE pc' \notin {"draw", "search", "found", "chosen"}
  BY <1>1 DEF DrawInv
<1>2. ASSUME NEW p \in Port, RequestForNeed(p) PROVE DrawInv'
  <2>1. port_need_weighted_exits[p] # None
    BY <1>0, <1>2 DEF RequestForNeed, MakingInv, BeingListed
  <2>2. Drawable(port_need_weighted_exits[p], consensus, AnyPort(p), FALSE)
    BY <1>0, <2>1 DEF StoredInv
  <2> QED BY <1>2, <2>2 DEF RequestForNeed, DrawInv
<1>3. CASE RequestForStream
  <2>1. stream \in Streams /\ stream_port_weighted_exits[stream.port] # None
    BY <1>0, <1>3 DEF RequestForStream, TypeOK, MakingInv, StreamListed
  <2>2. /\ request' = stream /\ exits_exact' = (stream.port = None) /\ pc' = "draw"
        /\ weighted_exits' = stream_port_weighted_exits[stream.port]
        /\ consensus' = consensus
    BY <1>3 DEF RequestForStream
  <2>3. CASE stream.port = None
    <3>1. stream = Resolve
      BY <2>1, <2>3, ConsensusAssumption DEF Streams
    <3>2. Drawable(stream_port_weighted_exits[None], consensus, Resolve, FALSE)
      BY <1>0, <2>1, <2>3 DEF StoredInv
    <3>3. exits_exact' /\ Drawable(weighted_exits', consensus', request', FALSE)
      BY <2>2, <2>3, <3>1, <3>2
    <3> QED BY <2>2, <3>3 DEF DrawInv
  <2>4. CASE stream.port # None
    <3>1. stream.port \in Port
      BY <2>1, <2>4 DEF Streams, Resolve
    <3>2. Drawable(stream_port_weighted_exits[stream.port], consensus,
                   AnyPort(stream.port), TRUE)
      BY <1>0, <2>1, <3>1 DEF StoredInv
    <3>3. /\ ~exits_exact' /\ request' \in Streams /\ request'.port # None
          /\ Drawable(weighted_exits', consensus', AnyPort(request'.port), TRUE)
      BY <2>1, <2>2, <2>4, <3>2
    <3> QED BY <2>2, <3>3 DEF DrawInv
  <2> QED BY <2>3, <2>4
<1>4. CASE /\ UNCHANGED <<consensus, request, exits_exact, weighted_exits>>
           /\ pc \in {"draw", "search", "found", "chosen"}
           /\ pc' \in {"draw", "search", "found"}
  BY <1>0, <1>4 DEF DrawInv
<1>5. CASE ReturnExit
  <2>1. mid \in DOMAIN weighted_exits
    BY <1>0, <1>5 DEF ReturnExit, SearchInv
  <2>2. exit_filter(exit_node, consensus, request, FALSE)
    <3>1. CASE exits_exact
      BY <1>0, <1>5, <2>1, <3>1, OnTheList DEF ReturnExit, DrawInv, exit_node
    <3>2. CASE ~exits_exact
      BY <1>5, <3>2 DEF ReturnExit, Accepted
    <3> QED BY <3>1, <3>2
  <2>3. /\ UNCHANGED <<consensus, request, exits_exact, weighted_exits, mid>>
        /\ pc = "found" /\ pc' = "chosen"
    BY <1>5 DEF ReturnExit, search
  <2>4. exit_filter(exit_node, consensus, request, FALSE)'
    BY <2>2, <2>3 DEF exit_node
  <2> QED BY <1>0, <2>1, <2>3, <2>4 DEF DrawInv
<1>6. CASE UNCHANGED vars
  <2>1. UNCHANGED <<consensus, request, exits_exact, weighted_exits, mid, pc>>
    BY <1>6 DEF vars, search
  <2> QED BY <1>0, <2>1 DEF DrawInv, exit_node
<1>7. ASSUME (\E x \in 0..Cumulated(weighted_exits) : Draw(x))
                \/ SearchLeft \/ SearchRight \/ Found \/ DrawAgain
       PROVE  DrawInv'
  BY <1>1, <1>4, <1>7 DEF Draw, SearchLeft, SearchRight, Found, DrawAgain
<1>8. ASSUME BeginPeriod \/ NextMinute \/ (\E q \in Streams : TakeStream(q))
               \/ (\E p \in Port : ListForNeed(p)) \/ ListForStream \/ LookAtRelay
               \/ StoreList \/ ListsMade \/ GoOn
      PROVE  DrawInv'
  BY <1>1, <1>8 DEF BeginPeriod, NextMinute, TakeStream, ListForNeed, ListForStream,
     LookAtRelay, StoreList, ListsMade, GoOn
<1> QED BY <1>2, <1>3, <1>5, <1>6, <1>7, <1>8 DEF Next, SearchStep, Stopped

LEMMA SearchInvStep ==
  ASSUME IInv, [Next]_vars PROVE SearchInv'
<1>0. TypeOK /\ DrawInv /\ SearchInv
  BY DEF IInv
<1>1. ASSUME NEW x \in 0..Cumulated(weighted_exits), Draw(x) PROVE SearchInv'
  <2> DEFINE n == Len(weighted_exits)
  <2>1. pc = "draw"
    BY <1>1 DEF Draw
  <2>2. /\ DOMAIN weighted_exits = 1..n /\ n \in Nat \ {0}
        /\ Cumulated(weighted_exits) = weighted_exits[n].cum
        /\ weighted_exits[n].cum \in Nat
    BY <2>1, DrawnFrom
  <2>3. /\ pc' = "search" /\ weighted_exits' = weighted_exits
        /\ r' = x /\ begin' = 1 /\ end' = n /\ mid' = (1 + n) \div 2
    BY <1>1 DEF Draw
  <2> HIDE DEF n
  <2>4. 1 <= (1 + n) \div 2 /\ (1 + n) \div 2 <= n
    BY <2>2
  <2>5. 1 \in 1..n /\ n \in 1..n /\ x <= weighted_exits[n].cum
    BY <2>2
  <2>6. \A i \in 1..n : ~(i < 1)
    BY <2>2
  <2> QED BY <2>2, <2>3, <2>4, <2>5, <2>6 DEF SearchInv
<1>2. ASSUME pc = "search"
      PROVE  /\ begin \in Nat \ {0} /\ end \in Nat /\ mid \in Nat
             /\ mid \in DOMAIN weighted_exits
             /\ begin <= mid /\ mid <= end /\ r \in Nat
             /\ weighted_exits[mid].cum \in Nat
  BY <1>0, <1>2, DrawnFrom DEF SearchInv, TypeOK
<1>3. CASE SearchLeft
  <2>1. /\ pc = "search" /\ pc' = "search" /\ UNCHANGED <<weighted_exits, r, begin>>
        /\ r <= weighted_exits[mid].cum /\ mid # begin
        /\ end' = mid /\ mid' = (mid + begin) \div 2
    BY <1>3 DEF SearchLeft
  <2>2. begin <= (mid + begin) \div 2 /\ (mid + begin) \div 2 <= mid
    BY <1>2, <2>1
  <2>3. mid + begin = begin + mid
    BY <1>2, <2>1
  <2> QED BY <1>0, <1>2, <2>1, <2>2, <2>3 DEF SearchInv
<1>4. CASE SearchRight
  <2>1. pc = "search" /\ r > weighted_exits[mid].cum
    BY <1>4 DEF SearchRight
  <2>2. mid # end
    BY <1>0, <1>2, <2>1 DEF SearchInv
  <2>3. /\ pc' = "search" /\ UNCHANGED <<weighted_exits, r, end>>
        /\ begin' = mid + 1 /\ mid' = (end + mid + 1) \div 2
    BY <1>4, <2>1, <2>2 DEF SearchRight
  <2>4. /\ mid + 1 <= (end + mid + 1) \div 2 /\ (end + mid + 1) \div 2 <= end
        /\ end + mid + 1 = (mid + 1) + end
    BY <1>2, <2>1, <2>2
  <2>5. mid + 1 \in DOMAIN weighted_exits
    <3>1. end \in DOMAIN weighted_exits
      BY <1>0, <2>1 DEF SearchInv
    <3> QED BY <1>2, <2>1, <2>2, <3>1, DrawnFrom
  <2>6. ASSUME NEW i \in DOMAIN weighted_exits, i < mid + 1
        PROVE  weighted_exits[i].cum < r
    <3>1. i <= mid /\ Rising(weighted_exits) /\ weighted_exits[i].cum \in Nat
      BY <1>2, <2>1, <2>6, DrawnFrom
    <3>2. weighted_exits[i].cum <= weighted_exits[mid].cum
      BY <1>2, <2>1, <3>1 DEF Rising
    <3> QED BY <1>2, <2>1, <3>1, <3>2
  <2> QED BY <1>0, <2>1, <2>3, <2>4, <2>5, <2>6 DEF SearchInv
<1>5. CASE Found
  BY <1>0, <1>5 DEF Found, SearchInv, search
<1>6. CASE UNCHANGED vars
  BY <1>0, <1>6 DEF SearchInv, vars, search
<1>7. CASE pc' \notin {"search", "found", "lost"}
  BY <1>7 DEF SearchInv
<1>8. CASE LookAtRelay
  BY <1>7, <1>8 DEF LookAtRelay
<1>9. ASSUME BeginPeriod \/ NextMinute \/ (\E q \in Streams : TakeStream(q))
               \/ (\E p \in Port : ListForNeed(p)) \/ ListForStream
               \/ StoreList \/ ListsMade \/ GoOn \/ DrawAgain \/ ReturnExit
               \/ (\E p \in Port : RequestForNeed(p)) \/ RequestForStream
      PROVE  SearchInv'
  BY <1>7, <1>9 DEF BeginPeriod, NextMinute, TakeStream, ListForNeed, ListForStream,
     StoreList, ListsMade, GoOn, DrawAgain, ReturnExit, RequestForNeed, RequestForStream
<1> QED BY <1>1, <1>3, <1>4, <1>5, <1>6, <1>8, <1>9 DEF Next, SearchStep, Stopped
-----------------------------------------------------------------------------
(* The theorems.                                                           *)

\* The inductive invariant holds throughout.
THEOREM Inductive == Spec => []IInv
<1>1. IInv /\ [Next]_vars => IInv'
  BY TypeStep, StoredStep, MakingStep, DrawStep, SearchInvStep DEF IInv
<1> QED BY InitIInv, <1>1, PTL DEF Spec

\* Lists, requests and indices keep their types, for every consensus.
THEOREM SelectionTypeOK == Spec => []TypeOK
<1>1. IInv => TypeOK
  BY DEF IInv
<1> QED BY Inductive, <1>1, PTL

\* Lists kept per port are always what the filter gives for the consensus of now.
THEOREM ListsAlwaysCurrent == Spec => []ListsCurrent
<1>1. IInv => ListsCurrent
  <2> SUFFICES ASSUME IInv, pc = "ready" PROVE ListsCurrent
    BY DEF ListsCurrent
  <2>1. \A p \in needs : port_need_weighted_exits[p] # None /\ p \in Port
    BY DEF IInv, TypeOK, MakingInv, BeingListed
  <2> QED BY <2>1 DEF IInv, StoredInv, Drawable, ListsCurrent
<1> QED BY Inductive, <1>1, PTL

\* select_weighted_node() returns the entry whose interval holds the draw and never
\* raises, for any number of entries and any weights, zeros included.
THEOREM SearchAlwaysFinds == Spec => []SearchFinds
<1>1. IInv => SearchFinds
  <2> SUFFICES ASSUME IInv, pc = "found"
               PROVE  /\ r <= weighted_exits[mid].cum
                      /\ \A i \in 1..mid - 1 : weighted_exits[i].cum < r
    BY DEF SearchFinds, IInv, SearchInv
  <2>1. /\ mid = begin /\ begin \in DOMAIN weighted_exits /\ r <= weighted_exits[mid].cum
        /\ \A i \in DOMAIN weighted_exits : i < begin => weighted_exits[i].cum < r
    BY DEF IInv, SearchInv
  <2>2. \A i \in 1..mid - 1 : i \in DOMAIN weighted_exits /\ i < begin
    BY <2>1, DrawnFrom
  <2> QED BY <2>1, <2>2
<1> QED BY Inductive, <1>1, PTL

\* select_exit_node() returns an exit that takes what it was asked for, and draws from
\* a list that misses none of those.
THEOREM ExitsAlwaysFit == Spec => []ExitsFit
<1>1. IInv => ExitsFit
  <2> SUFFICES ASSUME IInv, pc \in {"draw", "search", "found", "chosen"} PROVE ExitsFit
    BY DEF ExitsFit
  <2> DEFINE known == {consensus.relays[i] : i \in DOMAIN consensus.relays}
             listed == {weighted_exits[i].node : i \in DOMAIN weighted_exits}
  <2>1. consensus \in Consensus /\ known \subseteq Relay
    BY ConsensusAssumption DEF IInv, TypeOK
  <2>2. ASSUME NEW e \in known, exit_filter(e, consensus, request, FALSE)
        PROVE  e \in listed
    <3>1. CASE exits_exact
      <4>1. Drawable(weighted_exits, consensus, request, FALSE)
        BY <3>1 DEF IInv, DrawInv
      <4>2. \A x \in known : exit_filter(x, consensus, request, FALSE) => x \in listed
        BY <4>1 DEF Drawable, ListFor
      <4> QED BY <2>2, <4>2
    <3>2. CASE ~exits_exact
      <4>1. /\ request \in Streams /\ request.port # None
            /\ Drawable(weighted_exits, consensus, AnyPort(request.port), TRUE)
        BY <3>2 DEF IInv, DrawInv
      <4>2. exit_filter(e, consensus, AnyPort(request.port), TRUE)
        <5>1. e \in Relay /\ consensus \in Consensus
          BY <2>1, <2>2
        <5>2. request \in Streams /\ request.port # None
          BY <4>1
        <5>3. exit_filter(e, consensus, request, FALSE)
          BY <2>2
        <5> QED BY ONLY <5>1, <5>2, <5>3, LooseFilterAdmits
      <4>3. \A x \in known :
              exit_filter(x, consensus, AnyPort(request.port), TRUE) => x \in listed
        BY <4>1 DEF Drawable, ListFor
      <4> QED BY <2>2, <4>2, <4>3
    <3> QED BY <3>1, <3>2
  <2>3. ASSUME pc = "chosen"
        PROVE  exit_node \in known /\ exit_filter(exit_node, consensus, request, FALSE)
    <3>1. /\ mid \in DOMAIN weighted_exits
          /\ exit_filter(exit_node, consensus, request, FALSE)
      BY <2>3 DEF IInv, DrawInv
    <3>2. exit_node \in known
      BY <3>1, OnTheList DEF IInv, DrawInv, exit_node
    <3> QED BY <3>1, <3>2
  <2> QED BY <2>2, <2>3 DEF ExitsFit
<1> QED BY Inductive, <1>1, PTL
=============================================================================
