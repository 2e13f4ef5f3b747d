---------------------------- MODULE CoordinateNetwork ----------------------------
(***************************************************************************)
(* A coordinate network (safest_ext.cc): its set-up from the latencies a   *)
(* client collects (ce_client.py) and the rounds in which its nodes ping   *)
(* each other.  The networks of an engine share the latencies and nothing  *)
(* else, so this is one of them; CoordinateEngine.tla has the requests     *)
(* that drive them.                                                        *)
(***************************************************************************)
EXTENDS VivaldiNode, LatencyHash, CongestionDistribution

CONSTANTS
  MaxInstances,   \* the most nodes a network has
  LatencyMap,     \* the latency maps given to setup(): link -> milliseconds
  Profiles,       \* the congestion profiles given to it: node -> profile, with a name
  Pings           \* node_pings_per_interval

Index == 0..MaxInstances - 1

ASSUME NetworkAssumption ==
  /\ MaxInstances \in Nat \ {0} /\ Pings \in Nat \ {0}
  /\ \A given \in Profiles : \A n \in Index : IsProfile(given[n])
  /\ \A map \in LatencyMap :
       /\ DOMAIN map \subseteq Index \X Index
       /\ \A link \in DOMAIN map : map[link] \in Int

VARIABLES
  pc,              \* the operation to run next
  profiles,        \* the client: the congestion profiles of its instances
  map,             \* the client: the latency map
  links,           \* the client: the links of it not looked at yet
  required,        \* the client: the pairs without a latency yet
  latency_map,     \* the latencies of the message, in order
  instance_count,
  latencies,       \* the engine's hash map
  store,           \* node -> its samples
  ping_targets,    \* node -> the nodes it pings this round
  target_idx,      \* the loops of step_coordinates(): the ping ...
  pinging_node,    \* ... and the node
  last,            \* the sample just recorded
  latency          \* and its latency

client == <<profiles, map, links, required, latency_map>>
round  == <<target_idx, pinging_node, last, latency>>
vars   == <<pc, client, instance_count, latencies, store, ping_targets, round>>

Node == 0..instance_count - 1

NoTargets == [n \in Index |-> <<>>]

Init ==
  /\ pc = "away"
  /\ profiles \in Profiles /\ map \in LatencyMap /\ links = {} /\ required = {} /\ latency_map = <<>>
  /\ instance_count = 0
  /\ latencies = EmptyHash
  /\ store = [n \in Index |-> EmptyStore]
  /\ ping_targets = NoTargets
  /\ target_idx = 1 /\ pinging_node = 0 /\ last = 0 /\ latency = 0
-----------------------------------------------------------------------------
(* create_setup_message().                                                 *)

\* setup() of n instances; all pairs of them need a latency.
SetUp(n) ==
  /\ pc \in {"away", "idle"}
  /\ pc' = "collect"
  /\ instance_count' = n
  /\ profiles' \in Profiles /\ map' \in LatencyMap
  /\ links' = DOMAIN map'
  /\ required' = {{i, j} : i, j \in 0..n - 1} \ {{i} : i \in 0..n - 1}
  /\ latency_map' = <<>>
  /\ UNCHANGED <<latencies, store, ping_targets, round>>

\* The links of the dictionary in any order: one of a pair is sent, not both.
CollectLink(link) ==
  /\ pc = "collect" /\ link \in links
  /\ links' = links \ {link}
  /\ latency_map' = IF {link[1], link[2]} \in required
                    THEN Append(latency_map, <<link, map[link]>>) ELSE latency_map
  /\ required' = required \ {{link[1], link[2]}}
  /\ UNCHANGED <<pc, profiles, map, instance_count, latencies, store, ping_targets, round>>

\* One profile is sent for each name, that of the first instance with the name.
Sent == {n \in Node : \A m \in 0..n - 1 : profiles[m].name # profiles[n].name}

\* cleanup() and initialize_network(): the engine forgets what it had and makes new
\* nodes.  The samples of the old ones are never freed and never referred to again.
\* In between the distributions are built of the profiles: at one that fills its buckets
\* too early the engine aborts.
Renewed ==
  /\ latencies' = EmptyHash
  /\ store' = [n \in Index |-> EmptyStore]
  /\ pc' = IF \E n \in Sent : FullEarly(profiles[n]) THEN "dead" ELSE "insert"

\* Mutant of Send: nobody looks whether all pairs have one.
SendAnyway ==
  /\ pc = "collect" /\ links = {}
  /\ Renewed
  /\ UNCHANGED <<client, instance_count, ping_targets, round>>

\* The message is sent and initialize() begins, or the call raises when a pair has no
\* latency.
Send ==
  /\ pc = "collect" /\ links = {}
  /\ IF required # {}
     THEN pc' = "away" /\ UNCHANGED <<latencies, store>>
     ELSE Renewed
  /\ UNCHANGED <<client, instance_count, ping_targets, round>>
-----------------------------------------------------------------------------
(* initialize().                                                           *)

\* Mutant of BothWays: one direction only.
OneWay(hash, i, j, value) == latency_hash_insert(hash, i, j, value)

BothWays(hash, i, j, value) ==
  latency_hash_insert(latency_hash_insert(hash, i, j, value), j, i, value)

\* The loop on latency_map.
InsertLatency ==
  /\ pc = "insert" /\ latency_map # <<>>
  /\ LET link == Head(latency_map)[1]
     IN  latencies' = BothWays(latencies, link[1], link[2], Head(latency_map)[2])
  /\ latency_map' = Tail(latency_map)
  /\ UNCHANGED <<pc, profiles, map, links, required, instance_count, store, ping_targets,
                 round>>

\* A round begins: with the last latency, ...
FirstRound ==
  /\ pc = "insert" /\ latency_map = <<>>
  /\ pc' = "pick"
  /\ ping_targets' = NoTargets
  /\ UNCHANGED <<client, instance_count, latencies, store, round>>

\* ... and after each GET.
NextRound ==
  /\ pc = "idle"
  /\ pc' = "pick"
  /\ ping_targets' = NoTargets
  /\ UNCHANGED <<client, instance_count, latencies, store, round>>
-----------------------------------------------------------------------------
(* pick_ping_targets() and step_coordinates().                             *)

Short == {n \in Node : Len(ping_targets[n]) < Pings}

\* Mutant of DrawTarget: the list is cleared for each ping.
DrawTargetClearing(n) ==
  /\ pc = "pick" /\ n \in Short /\ \A m \in Short : n <= m
  /\ \E choice \in Node :
       ping_targets' = IF choice = n THEN ping_targets
                       ELSE [ping_targets EXCEPT ![n] = <<choice>>]
  /\ UNCHANGED <<pc, client, instance_count, latencies, store, round>>

\* A draw of another node; a draw of the node itself is repeated.
DrawTarget(n) ==
  /\ pc = "pick" /\ n \in Short /\ \A m \in Short : n <= m
  /\ \E choice \in Node :
       ping_targets' = IF choice = n THEN ping_targets
                       ELSE [ping_targets EXCEPT ![n] = Append(@, choice)]
  /\ UNCHANGED <<pc, client, instance_count, latencies, store, round>>

BeginSteps ==
  /\ pc = "pick" /\ Short = {}
  /\ pc' = "ping"
  /\ target_idx' = 1 /\ pinging_node' = 0 /\ last' = 0 /\ latency' = 0
  /\ UNCHANGED <<client, instance_count, latencies, store, ping_targets>>

\* The congestion at a node: its profile is found by its name.
Congestion(n) ==
  UNION {sample(profiles[m]) : m \in {k \in Sent : profiles[k].name = profiles[n].name}}

\* The pinging node measures its latency to the target, congestion at both ends
\* included, and records it.  Without a latency an assertion fails.
Ping ==
  /\ pc = "ping"
  /\ LET target == ping_targets[pinging_node][target_idx] IN
     IF ~LH_OK(latencies, pinging_node, target)
     THEN pc' = "dead" /\ UNCHANGED <<store, last, latency>>
     ELSE /\ pc' = "update"
          /\ \E here \in Congestion(pinging_node), there \in Congestion(target) :
               latency' = Grain * latency_hash_get(latencies, pinging_node, target)
                            + here + there
          /\ \E a \in Malloc(Address \ store[pinging_node].allocated) :
               /\ last' = a
               /\ store' = [store EXCEPT ![pinging_node] = viv_record_ping_sample(@, a)]
  /\ UNCHANGED <<client, instance_count, latencies, ping_targets, target_idx,
                 pinging_node>>

\* The node's coordinate is updated or not.  For a latency that is not positive there
\* is no new coordinate, which viv_prot_error_check() asserts there is.
Update ==
  /\ pc = "update"
  /\ IF latency <= 0
     THEN pc' = "dead" /\ UNCHANGED <<store, round>>
     ELSE /\ \E s \in viv_update(store[pinging_node], last) :
               store' = [store EXCEPT ![pinging_node] = s]
          /\ pinging_node' = IF pinging_node + 1 \in Node THEN pinging_node + 1 ELSE 0
          /\ target_idx' = IF pinging_node + 1 \in Node THEN target_idx
                           ELSE target_idx + 1
          /\ pc' = IF target_idx' <= Pings THEN "ping" ELSE "idle"
          /\ last' = 0 /\ latency' = 0
  /\ UNCHANGED <<client, instance_count, latencies, ping_targets>>

Stopped == pc = "dead" /\ UNCHANGED vars
-----------------------------------------------------------------------------
EngineStep ==
  \/ InsertLatency \/ FirstRound
  \/ (\E n \in Index : DrawTarget(n)) \/ BeginSteps \/ Ping \/ Update

Next ==
  \/ (\E n \in 1..MaxInstances : SetUp(n))
  \/ (\E link \in Index \X Index : CollectLink(link)) \/ Send
  \/ NextRound \/ EngineStep \/ Stopped

Spec == Init /\ [][Next]_vars

\* The engine runs on, and its draws do not hit the same node for ever.
FairSpec == Spec /\ WF_vars(EngineStep)
-----------------------------------------------------------------------------
(* Properties.                                                             *)

InRound == pc \in {"pick", "ping", "update", "idle"}

\* The variables have their types and every list of samples stays within its limit,
\* without a sample twice (viv_record_ping_sample() and viv_prot_update_buffers()
\* drop one for one).
TypeOK ==
  /\ pc \in {"away", "collect", "insert", "pick", "ping", "update", "idle", "dead"}
  /\ profiles \in Profiles /\ map \in LatencyMap /\ links \subseteq DOMAIN map
  /\ required \subseteq SUBSET Node
  /\ instance_count \in 0..MaxInstances
  /\ \A n \in Index : store[n] \in Store /\ Bounded(store[n])
  /\ ping_targets \in [Index -> Seq(Index)]
  /\ target_idx \in 1..Pings + 1 /\ pinging_node \in Index
  /\ latency \in Int /\ (pc = "update" => last \in Address)

\* The counts of the samples (__refct) are exact in every node: a sample that left
\* the memory stays while a window still refers to it and is freed by the last list
\* that drops it, although both smartlist_pop_last_sample() and viv_sample_free()
\* decrement.
SamplesCounted == \A n \in Index : Counted(store[n])

\* When the checks of viv_update() can reject, the windows have samples to divide by and
\* to take a median of, and the errors of the window fit in the array of
\* viv_prot_error_check(), which has the size of the memory.
ProtectionReady ==
  LET s == store[pinging_node]
  IN  pc = "update" /\ FALSE \in Verdicts(s) =>
        /\ s.list["centroid"] # <<>>
        /\ Len(s.list["error"]) \in 1..Len(s.list["memory"])

\* However the client orders a map that names pairs once or in both directions, the
\* engine has for two different nodes the same latency both ways, and it is one that
\* the map gives for the two: no lookup of step_coordinates() misses.
LatenciesAgree ==
  InRound =>
    \A a, b \in Node : a # b =>
      /\ LH_OK(latencies, a, b) /\ LH_OK(latencies, b, a)
      /\ latency_hash_get(latencies, a, b) = latency_hash_get(latencies, b, a)
      /\ \E link \in {<<a, b>>, <<b, a>>} \cap DOMAIN map :
           latency_hash_get(latencies, a, b) = map[link]

\* A profile that the client sent fills its buckets before its last bin.
ProfileUnfit == \E n \in Sent : FullEarly(profiles[n])

\* Of the assertions on the way of a setup() and its rounds two can fail, and each for
\* one reason: the constructor's for a profile whose last bins are empty, before any
\* round, and the one of viv_prot_error_check() for a latency of the client's map between
\* the pinging node and its target that is not positive ("reject timeouts and self
\* pings", viv_algorithm()).  No lookup misses, and no node pings itself.
AbortsHaveCause ==
  pc = "dead" /\ ~ProfileUnfit =>
    LET target == ping_targets[pinging_node][target_idx]
    IN  \E link \in {<<pinging_node, target>>, <<target, pinging_node>>} \cap DOMAIN map :
          map[link] <= 0 /\ latency <= 0

\* A round of two nodes or more ends, although pick_ping_targets() draws until it hits
\* another node.
RoundEnds == pc = "pick" /\ instance_count > 1 ~> pc \in {"idle", "dead"}
=============================================================================
