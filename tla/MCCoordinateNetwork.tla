-------------------------- MODULE MCCoordinateNetwork --------------------------
(***************************************************************************)
(* Two nodes, and maps of every kind: both directions, which differ, a     *)
(* link of a node to itself, a latency of zero and a pair left out.        *)
(* Two profiles, the second unfit: with a name of its own, and with the    *)
(* name of the first, so that it is not sent.                              *)
(***************************************************************************)
EXTENDS CoordinateNetwork

\* malloc() returns the lowest free place.
MCMalloc(free) == {a \in free : \A b \in free : a <= b}

MCLatencyMap ==
  {[link \in {<<0, 1>>, <<1, 0>>, <<1, 1>>} |-> 2 * link[1] + link[2]],
   [link \in {<<1, 0>>} |-> 0],
   [link \in {<<1, 1>>} |-> 5]}

Slow == [name |-> "slow", binsize |-> 1, bins |-> <<1, 1>>]
Unfit(name) == [name |-> name, binsize |-> 1, bins |-> <<1, 1, 0>>]

MCProfiles ==
  {[n \in Index |-> IF n = 0 THEN Slow ELSE second] :
     second \in {Unfit("slow"), Unfit("unfit")}}
=============================================================================
