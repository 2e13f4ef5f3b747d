------------------------------ MODULE ExitSelection ------------------------------
(***************************************************************************)
(* How an exit is drawn (pathsim.py): the lists of exits with cumulated    *)
(* weights that create_circuits() keeps per port, select_exit_node() and   *)
(* the binary search of select_weighted_node().                            *)
(*                                                                         *)
(* Weights are integers here and a list ends with their sum.  The draw r   *)
(* in [0, 1) is taken times that sum and rounded up: it is compared with   *)
(* integers only.                                                          *)
(***************************************************************************)
EXTENDS ExitPolicy, FiniteSets

CONSTANTS
  Relay,
  Consensus,     \* the consensuses there may be, with the relays' policies
  Weight,        \* "Wed", "Weg", "Wee", "Wem" -> bandwidth weight
  Port,          \* the ports streams ask for
  LongLived,     \* TorOptions.long_lived_ports
  SeedPort,      \* 80
  MaxTotal,      \* no list weighs more
  None

VARIABLES
  consensus,                   \* cons_rel_stats and descriptors
  needs,                       \* the ports of port_needs_global
  port_need_weighted_exits,    \* port -> list of exits, None when absent
  stream_port_weighted_exits,  \* port, None for a RESOLVE -> list, None when absent
  stream,                      \* the stream circuits may be asked for, or None
  pc,
  todo,                        \* the needs whose lists are still to be made
  listing, relays,             \* the list being made, and the relays looked at
  request, exits_exact,        \* what select_exit_node() was asked for
  weighted_exits,              \* its list, or the list being made
  r, begin, end, mid           \* of select_weighted_node()

lists  == <<port_need_weighted_exits, stream_port_weighted_exits>>
making == <<todo, listing, relays>>
search == <<r, begin, end, mid>>
vars   == <<consensus, needs, lists, stream, pc, making, request, exits_exact,
            weighted_exits, search>>

\* Of a list: a relay and the weight of it and those before it.
Entry == [node : Relay, cum : Nat]

\* Addresses and ports of streams; None and None for a RESOLVE.
Request ==
  [ip : Address \cup {None}, port : Port \cup {None}, stable : BOOLEAN]

\* relays: cons_rel_stats, in the order of that dictionary.
ASSUME ConsensusAssumption ==
  /\ Port \subseteq Ports /\ LongLived \subseteq Port
  /\ SeedPort \in Port \ LongLived
  /\ None \notin Address /\ None \notin Port /\ None \notin Seq(Entry)
  /\ Weight \in [{"Wed", "Weg", "Wee", "Wem"} -> Nat]
  /\ \A c \in Consensus :
       /\ c.relays \in Seq(Relay)
       /\ \A i, j \in DOMAIN c.relays : c.relays[i] = c.relays[j] => i = j
       /\ c.bandwidth \in [Relay -> Nat] /\ DOMAIN c.flags = Relay
       /\ DOMAIN c.policy = Relay /\ \A e \in Relay : IsPolicy(c.policy[e])
-----------------------------------------------------------------------------
(* Which relays may be exits, and their weights.                           *)

AnyPort(p) == [ip |-> None, port |-> p, stable |-> p \in LongLived]
Resolve    == [ip |-> None, port |-> None, stable |-> FALSE]

\* Of exit_filter(), what is asked of the exit policy.
Lets(policy, q, loose) ==
  \/ q.ip # None /\ can_exit_to(policy, q.ip, q.port)
  \/ q.ip = None /\ q.port # None /\ loose /\ might_exit_to_port(policy, q.port)
  \/ q.ip = None /\ q.port # None /\ ~loose /\ can_exit_to_port(policy, q.port)
  \/ q.ip = None /\ q.port = None /\ ~policy_is_reject_star(policy)

exit_filter(e, c, q, loose) ==
  /\ {"Running", "Valid", "Fast"} \subseteq c.flags[e]
  /\ "BadExit" \notin c.flags[e]
  /\ q.stable => "Stable" \in c.flags[e]
  /\ Lets(c.policy[e], q, loose)

get_bw_weight(flags) ==
  Weight[CASE "Guard" \in flags /\ "Exit" \in flags     -> "Wed"
           [] "Guard" \in flags /\ "Exit" \notin flags  -> "Weg"
           [] "Guard" \notin flags /\ "Exit" \in flags  -> "Wee"
           [] OTHER                                     -> "Wem"]

weight(e, c) == c.bandwidth[e] * get_bw_weight(c.flags[e])

Cumulated(list) == IF list = <<>> THEN 0 ELSE list[Len(list)].cum
-----------------------------------------------------------------------------
(* The lists.                                                              *)

NoList == [kind |-> "need", of |-> Resolve, loose |-> FALSE]

Init ==
  /\ consensus \in Consensus
  /\ needs = {SeedPort} /\ todo = {SeedPort}
  /\ port_need_weighted_exits = [p \in Port |-> None]
  /\ stream_port_weighted_exits = [p \in Port \cup {None} |-> None]
  /\ stream = None /\ pc = "lists"
  /\ listing = NoList /\ relays = 0 /\ weighted_exits = <<>>
  /\ request = Resolve /\ exits_exact = FALSE
  /\ r = 0 /\ begin = 1 /\ end = 1 /\ mid = 1

\* Mutant of BeginPeriod: the lists made for streams are kept.
BeginPeriodKeeping ==
  /\ pc = "ready"
  /\ consensus' \in Consensus
  /\ port_need_weighted_exits' = [p \in Port |-> None]
  /\ stream' = None /\ todo' = needs /\ pc' = "lists"
  /\ UNCHANGED <<needs, stream_port_weighted_exits, listing, relays, request,
                 exits_exact, weighted_exits, search>>

\* Both kinds of lists are made anew: for needs at once, for streams when asked for.
BeginPeriod ==
  /\ pc = "ready"
  /\ consensus' \in Consensus
  /\ port_need_weighted_exits' = [p \in Port |-> None]
  /\ stream_port_weighted_exits' = [p \in Port \cup {None} |-> None]
  /\ stream' = None /\ todo' = needs /\ pc' = "lists"
  /\ UNCHANGED <<needs, listing, relays, request, exits_exact, weighted_exits,
                 search>>

\* A minute begins; an expired need leaves its list behind.
NextMinute ==
  /\ pc = "ready"
  /\ stream' = None
  /\ needs' \in SUBSET needs
  /\ UNCHANGED <<consensus, lists, pc, making, request, exits_exact,
                 weighted_exits, search>>

PortOf(q) == IF q.port = None THEN SeedPort ELSE q.port

\* stream_update_port_needs(), for a connection or a RESOLVE.
TakeStream(q) ==
  /\ pc = "ready"
  /\ stream' = q
  /\ needs' = needs \cup {PortOf(q)}
  /\ todo' = {PortOf(q)} \ needs
  /\ pc' = "lists"
  /\ UNCHANGED <<consensus, lists, listing, relays, request, exits_exact,
                 weighted_exits, search>>

StreamListed ==
  stream # None => stream_port_weighted_exits[stream.port] # None

\* The list for a need, for its port ...
ListForNeed(p) ==
  /\ pc = "lists" /\ p \in todo
  /\ todo' = todo \ {p}
  /\ listing' = [kind |-> "need", of |-> AnyPort(p), loose |-> FALSE]
  /\ relays' = 0 /\ weighted_exits' = <<>> /\ pc' = "list"
  /\ UNCHANGED <<consensus, needs, lists, stream, request, exits_exact, search>>

\* ... and for streams: loose, for the port only, unless for a RESOLVE.
ListForStream ==
  /\ pc = "lists" /\ todo = {} /\ ~StreamListed
  /\ listing' = IF stream.port = None
                THEN [kind |-> "stream", of |-> Resolve, loose |-> FALSE]
                ELSE [kind |-> "stream", of |-> AnyPort(stream.port), loose |-> TRUE]
  /\ relays' = 0 /\ weighted_exits' = <<>> /\ pc' = "list"
  /\ UNCHANGED <<consensus, needs, lists, stream, todo, request, exits_exact,
                 search>>

\* filter_exits() and get_weighted_nodes(), one relay after another.
LookAtRelay ==
  /\ pc = "list" /\ relays < Len(consensus.relays)
  /\ relays' = relays + 1
  /\ LET e == consensus.relays[relays + 1] IN
       weighted_exits' =
         IF exit_filter(e, consensus, listing.of, listing.loose)
         THEN Append(weighted_exits,
                     [node |-> e,
                      cum  |-> Cumulated(weighted_exits) + weight(e, consensus)])
         ELSE weighted_exits
  /\ UNCHANGED <<consensus, needs, lists, stream, pc, todo, listing, request,
                 exits_exact, search>>

\* A list of total weight zero raises.
StoreList ==
  /\ pc = "list" /\ relays = Len(consensus.relays)
  /\ IF Cumulated(weighted_exits) = 0
     THEN pc' = "raised" /\ UNCHANGED lists
     ELSE /\ pc' = "lists"
          /\ \/ /\ listing.kind = "need"
                /\ port_need_weighted_exits' =
                     [port_need_weighted_exits EXCEPT ![listing.of.port] = weighted_exits]
                /\ UNCHANGED stream_port_weighted_exits
             \/ /\ listing.kind = "stream"
                /\ stream_port_weighted_exits' =
                     [stream_port_weighted_exits EXCEPT ![listing.of.port] = weighted_exits]
                /\ UNCHANGED port_need_weighted_exits
  /\ listing' = NoList /\ relays' = 0 /\ weighted_exits' = <<>>
  /\ UNCHANGED <<consensus, needs, stream, todo, request, exits_exact, search>>

ListsMade ==
  /\ pc = "lists" /\ todo = {} /\ StreamListed
  /\ pc' = "ready"
  /\ UNCHANGED <<consensus, needs, lists, stream, making, request, exits_exact,
                 weighted_exits, search>>
-----------------------------------------------------------------------------
(* select_exit_node() and select_weighted_node().                          *)

\* create_circuit() for a need, from a list that is exact, ...
RequestForNeed(p) ==
  /\ pc = "ready" /\ stream = None /\ p \in needs
  /\ request' = AnyPort(p) /\ exits_exact' = TRUE
  /\ weighted_exits' = port_need_weighted_exits[p]
  /\ pc' = "draw"
  /\ UNCHANGED <<consensus, needs, lists, stream, making, search>>

\* ... or for the stream, from one that is exact for a RESOLVE only.
RequestForStream ==
  /\ pc = "ready" /\ stream # None
  /\ request' = stream /\ exits_exact' = (stream.port = None)
  /\ weighted_exits' = stream_port_weighted_exits[stream.port]
  /\ pc' = "draw"
  /\ UNCHANGED <<consensus, needs, lists, stream, making, search>>

Draw(x) ==
  /\ pc = "draw"
  /\ x \in 0..Cumulated(weighted_exits)
  /\ r' = x /\ begin' = 1 /\ end' = Len(weighted_exits)
  /\ mid' = (1 + Len(weighted_exits)) \div 2
  /\ pc' = "search"
  /\ UNCHANGED <<consensus, needs, lists, stream, making, request, exits_exact,
                 weighted_exits>>

\* Mutant of SearchLeft: the middle leaves the range.
SearchLeftOfMid ==
  /\ pc = "search" /\ r <= weighted_exits[mid].cum /\ mid # begin
  /\ end' = mid - 1 /\ mid' = (mid - 1 + begin) \div 2
  /\ UNCHANGED <<consensus, needs, lists, stream, pc, making, request,
                 exits_exact, weighted_exits, r, begin>>

SearchLeft ==
  /\ pc = "search" /\ r <= weighted_exits[mid].cum /\ mid # begin
  /\ end' = mid /\ mid' = (mid + begin) \div 2
  /\ UNCHANGED <<consensus, needs, lists, stream, pc, making, request,
                 exits_exact, weighted_exits, r, begin>>

\* Mutant of SearchRight: the middle stays in the range.
SearchRightFromMid ==
  /\ pc = "search" /\ r > weighted_exits[mid].cum
  /\ IF mid = end THEN pc' = "lost" /\ UNCHANGED <<begin, mid>>
                  ELSE begin' = mid /\ mid' = (end + mid) \div 2 /\ UNCHANGED pc
  /\ UNCHANGED <<consensus, needs, lists, stream, making, request, exits_exact,
                 weighted_exits, r, end>>

\* At the end of the range it raises, "Weights must sum to 1."
SearchRight ==
  /\ pc = "search" /\ r > weighted_exits[mid].cum
  /\ IF mid = end
     THEN pc' = "lost" /\ UNCHANGED <<begin, mid>>
     ELSE begin' = mid + 1 /\ mid' = (end + mid + 1) \div 2 /\ UNCHANGED pc
  /\ UNCHANGED <<consensus, needs, lists, stream, making, request, exits_exact,
                 weighted_exits, r, end>>

Found ==
  /\ pc = "search" /\ r <= weighted_exits[mid].cum /\ mid = begin
  /\ pc' = "found"
  /\ UNCHANGED <<consensus, needs, lists, stream, making, request, exits_exact,
                 weighted_exits, search>>

exit_node == weighted_exits[mid].node

\* Mutant of Accepted: an exit of a loose list is not tested again.
AcceptedUntested == TRUE

Accepted == exits_exact \/ exit_filter(exit_node, consensus, request, FALSE)

DrawAgain ==
  /\ pc = "found" /\ ~Accepted
  /\ pc' = "draw"
  /\ UNCHANGED <<consensus, needs, lists, stream, making, request, exits_exact,
                 weighted_exits, search>>

ReturnExit ==
  /\ pc = "found" /\ Accepted
  /\ pc' = "chosen"
  /\ UNCHANGED <<consensus, needs, lists, stream, making, request, exits_exact,
                 weighted_exits, search>>

\* On with the needs or the stream, for this client or the next; the locals are gone.
GoOn ==
  /\ pc = "chosen"
  /\ pc' = "ready"
  /\ request' = Resolve /\ exits_exact' = FALSE /\ weighted_exits' = <<>>
  /\ r' = 0 /\ begin' = 1 /\ end' = 1 /\ mid' = 1
  /\ UNCHANGED <<consensus, needs, lists, stream, making>>

Stopped == pc \in {"raised", "lost"} /\ UNCHANGED vars
-----------------------------------------------------------------------------
Streams ==
  {Resolve} \cup {[ip |-> a, port |-> p, stable |-> p \in LongLived] :
                    a \in Address, p \in Port}

SearchStep == SearchLeft \/ SearchRight \/ Found \/ DrawAgain \/ ReturnExit

Next ==
  \/ BeginPeriod \/ NextMinute \/ (\E q \in Streams : TakeStream(q))
  \/ (\E p \in Port : ListForNeed(p)) \/ ListForStream \/ LookAtRelay \/ StoreList
  \/ ListsMade
  \/ (\E p \in Port : RequestForNeed(p)) \/ RequestForStream
  \/ (\E x \in 0..Cumulated(weighted_exits) : Draw(x)) \/ SearchStep \/ GoOn
  \/ Stopped

Spec == Init /\ [][Next]_vars

\* The program runs on, and random() may return anything: each interval of the unit
\* interval is drawn at last if draws go on.
FairSpec ==
  Spec /\ WF_vars(SearchStep) /\ \A x \in 0..MaxTotal : SF_vars(Draw(x))
-----------------------------------------------------------------------------
(* Properties.                                                             *)

TypeOK ==
  /\ consensus \in Consensus /\ needs \subseteq Port /\ todo \subseteq needs
  /\ port_need_weighted_exits \in [Port -> Seq(Entry) \cup {None}]
  /\ stream_port_weighted_exits \in [Port \cup {None} -> Seq(Entry) \cup {None}]
  /\ stream \in Streams \cup {None} /\ request \in Streams \cup {AnyPort(p) : p \in Port}
  /\ pc \in {"lists", "list", "ready", "draw", "search", "found", "chosen", "raised",
             "lost"}
  /\ listing \in [kind : {"need", "stream"}, of : Request, loose : BOOLEAN]
  /\ relays \in Nat /\ (pc = "list" => relays <= Len(consensus.relays))
  /\ exits_exact \in BOOLEAN /\ weighted_exits \in Seq(Entry)
  /\ r \in Nat /\ begin \in Nat /\ end \in Nat /\ mid \in Nat

\* The list holds the relays the filter admits, once each, and each has an interval as
\* long as its weight.
ListFor(list, c, q, loose) ==
  /\ {list[i].node : i \in DOMAIN list} =
       {e \in {c.relays[i] : i \in DOMAIN c.relays} : exit_filter(e, c, q, loose)}
  /\ \A i, j \in DOMAIN list : list[i].node = list[j].node => i = j
  /\ \A i \in DOMAIN list :
       list[i].cum = weight(list[i].node, c) + IF i = 1 THEN 0 ELSE list[i - 1].cum

\* Whenever an exit may be asked for, the list kept for each need and each port of a
\* stream is what the filter gives now: none is left from an earlier consensus or from a
\* need that had expired.
ListsCurrent ==
  pc = "ready" =>
    /\ \A p \in needs : /\ port_need_weighted_exits[p] # None
                        /\ ListFor(port_need_weighted_exits[p], consensus,
                                   AnyPort(p), FALSE)
    /\ \A p \in Port : stream_port_weighted_exits[p] # None =>
         ListFor(stream_port_weighted_exits[p], consensus, AnyPort(p), TRUE)
    /\ stream_port_weighted_exits[None] # None =>
         ListFor(stream_port_weighted_exits[None], consensus, Resolve, FALSE)

\* The binary search finds the entry whose interval holds the draw, the first one that
\* is not below it, and never runs out of entries.
SearchFinds ==
  /\ pc # "lost"
  /\ pc = "found" => /\ r <= weighted_exits[mid].cum
                     /\ \A i \in 1..mid - 1 : weighted_exits[i].cum < r

\* An exit is in the consensus and takes what it was chosen for, though lists are made
\* for ports only; and no exit that takes it is missing from the list drawn from.
ExitsFit ==
  LET known == {consensus.relays[i] : i \in DOMAIN consensus.relays} IN
  /\ pc \in {"draw", "search", "found", "chosen"} =>
       {e \in known : exit_filter(e, consensus, request, FALSE)}
         \subseteq {weighted_exits[i].node : i \in DOMAIN weighted_exits}
  /\ pc = "chosen" => /\ exit_node \in known
                      /\ exit_filter(exit_node, consensus, request, FALSE)

\* Draws end when an exit of some weight takes the stream.
SomeExitFits ==
  \E i \in DOMAIN weighted_exits :
    /\ weighted_exits[i].cum > IF i = 1 THEN 0 ELSE weighted_exits[i - 1].cum
    /\ exit_filter(weighted_exits[i].node, consensus, request, FALSE)

DrawsEnd == pc = "draw" /\ SomeExitFits ~> pc = "chosen"
=============================================================================
