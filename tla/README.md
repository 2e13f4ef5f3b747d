# A TLA+ model of TorPS

TorPS simulates how Tor clients choose paths: it reads consensuses and relay
descriptors hour by hour, keeps one entry-guard list and one pool of circuits per
simulated client, and assigns the streams of a trace to circuits. This directory
models the parts of it that decide *which* relays and circuits are used, checks
them with TLC on small networks, and proves the main results with TLAPS for every
network, option value and length of simulation. Three parts beside the simulator itself are
modelled too: the preprocessing that writes its input, the model of users that makes its
streams, and the coordinate engine, a separate server with its Vivaldi nodes.

All line numbers below are those of `src/pathsim.py` unless another file is named.

## 1. The system

### 1.1 Components

**Path selection and the guard list** (`create_circuit()` 1206-1362,
`get_guards_for_circ()` 584-650, `get_new_guard()` 544-582, the filters 296-525,
`period_client_update()` 813-873).
State: per client a dictionary of guards, each with `expires`, `bad_since`,
`unreachable_since`, `last_attempted`, `made_contact`; the current consensus
(flags), the accumulated descriptors, the hibernation statuses.
Operations: begin a period (mark, unmark and remove guards), fill the list up to
`num_guards`, add guards for one circuit, try a guard and forget, mark or confirm it,
draw exit and middle, start over without an ntor relay.
Hard: guards are marked in one place and used in another, against data that
consensuses, gaps and hibernation change in between; a retry schedule on two clocks;
a quota that counts listed guards in the test and live ones in the loop; nested
rejection loops with no counter.
Correct when: the filter never meets an unmarked guard that left; guards live exactly as
long as allowed; a guard that answered is never lost to hibernation; every path is
made of live, suitable, unrelated relays; the loops end.

**The circuit pool** (`create_circuits()` 1364-1586, `timed_updates()` 876-905,
`timed_client_updates()` 908-975, `stream_update_port_needs()` 978-1025,
`client_assign_stream()` 1059-1156, `kill_circuits_by_relay()` 703-739,
`uncover_circuit_ports()` 690-700).
State: port needs shared by all clients; per client a deque of clean and one of dirty
circuits and a count of covering circuits per port; on each circuit the ports it covers.
Operations: per period kill circuits through relays that are down; per minute expire
needs, apply hibernation, kill old and sleeping circuits, make circuits for uncovered
needs; per stream extend or create a need, then assign the stream for each client.
Hard: one fact held twice (`covering` and `port_needs_covered`) and changed in seven
places; a loop that pops from one end of a deque and relies on an order kept by
others; one limit shared by all needs; liveness of circuits checked only at two kinds of
instants; what a circuit covers decided once.
Correct when: books exact, deques ordered, streams served by live circuits,
needs covered up to the limit.

**Consensus periods** (`pad_network_state_files()` 164-188, `get_network_states()` 742-793,
`set_initial_hibernating_status()` 796-810, the period test 1446-1455, the status list
892-905). State: the current period, the list of status changes to come, the status of
each relay, all descriptors so far.
Operations: pad the file list, read a network state, fill a gap, pop a minute's changes.
Hard: gaps and overlaps; a list that is popped from one end, sorted by one program and
extended by another; statuses emptied by each consensus and needed for every relay.
Correct when: time never jumps; every relay has a descriptor and a status when asked for;
the status is what the relay's latest descriptor says.

**Exit policies and exit selection** (253-379, 427-450, 1028-1056, 1159-1194,
`select_weighted_node()` 231-250, the lists kept by `create_circuits()` 1477-1495, 1557-1567).
State: for each needed port and for each port of a stream a list of exits with cumulated
weights. Operations: begin a period and make the lists anew, make a list when a port
first appears, draw from one by binary search, draw again when the exit refuses the address.
Hard: three readings of one exit policy, of which the loose one makes lists and the exact ones
judge; lists cached under the port while consensuses, needs and minutes come and go; a search
over sums some of which are equal; a draw that nothing counts.
Correct when: a list is never older than its consensus and misses no exit that could
serve; the search returns the interval that contains the draw; the exit returned takes the stream.

**Congestion-aware variant** (`congestion_aware_pathsim.py`): its own `create_circuit()`
and `client_assign_stream()`; a circuit's measured ping time decides. Correct when: the
pool's invariants survive the other assignment rule.

**Consensus preprocessing** (`process_consensuses.py`): picks a descriptor for each relay of a
consensus, its initial hibernation status and the changes in the fresh period. Hard: one
pass in dictionary order, whose tests depend on what was met before. Correct when: the
outcome does not depend on that order.

**Network modifiers** (`network_modifiers.py`): insertion of relays, recomputation of
bandwidth weights in integers, a threshold on the Guard flag.

**User and congestion models** (`models.py`, `trace_creator.py`): weekly schedules
expanded into streams; congestion and delay sampling.
State: the schedule of a key, the week and entry, the streams so far.
Hard: two clocks, that of the week and that of the simulation, compared in one guard; a
`continue`, a `break` and the loop's own end, each with another effect on the clock.
Correct when: the streams are exactly those of the schedule that fall in the simulated
time, in order, and the loop ends.

**Event callbacks and log analysis** (`event_callbacks.py`, `pathsim_analysis.py`,
`count_relay_selections.py`): log lines per circuit and stream; first-compromise times.

**Coordinate engine** (`ext/cpp/safest_ext.cc`, client `ext/torps/ext/safest/ce_client.py`):
a server that steps virtual networks and answers coordinate requests over TCP.
State: the connection it serves, the virtual networks, a response prepared for each and the congestion
distributions; in the client the call it is in.
Hard: one loop polls the listening socket and the connected one and dispatches twice per
event, taking the two results to mean different things; reads run past the end of a
message; either side may end at any point.
Correct when: answers match requests, coordinates come in sequence, calls return, lost
clients are forgotten.

**Vivaldi coordinates** (`ext/cpp/vivaldinode.c`, `tor_stubs.c`) and **hash maps**
(`latency_hash.c`, `generic_hash.c`). State: for each node a memory of samples and two windows
that share them, a reference count on each; the latencies between all pairs.
Operations: collect and send the latencies, insert them both ways, draw ping targets,
record a sample, update the coordinate or reject.
Hard: counts changed by two macros and a function; windows filled only by accepted samples
and read when the memory is full; a map a client may give in either direction, both, or neither.
Correct when: a sample lives exactly while a list holds it; the checks never divide by an empty
window; every lookup of a latency succeeds; a round ends.

**Vivaldi path simulator** (`vcs_pathsim.py`): an unfinished fork that calls names it does
not define. **Plotting, scripts, utilities**: I/O. **Vendored**: containers, uthash,
gengetopt output, protobuf.

### 1.2 How they interact

    process_consensuses --files--> get_network_states --modify--> network_modifiers
                                         |
    models / trace --streams-->   create_circuits   --events--> event_callbacks --> analysis
                                   |           |
                 period_client_update     timed_client_updates, client_assign_stream
                                   |           |
                              guard list <-- create_circuit --> circuit pool

Everything in this picture is one thread. There is no concurrency in the simulator: what
makes it hard is the order in which periods, minutes, streams and clients come, and state
that one handler leaves for another. The coordinate engine and its clients are processes
of their own, and meet only in messages.

## 2. The modules

| module | models | role |
|---|---|---|
| `PathSelection` | guard list and `create_circuit()` of one client | specification and properties |
| `LivePaths` | what a caller may count on in a path | shared by contract and pool |
| `CircuitContract` | what `create_circuit()` promises | abstract specification |
| `PathSelectionContract` | | refinement mapping |
| `PathSelectionProofs` | | nine theorems and the refinement |
| `CircuitPool` | needs, circuits and streams of all clients | specification and properties |
| `CircuitPoolProofs` | | six theorems |
| `ConsensusProcessing` | `process_consensuses()` on one consensus after another | specification and properties |
| `ConsensusPeriods` | the periods of a simulation over the files it wrote | composes it with reading, gaps, insertion and the clock |
| `ConsensusProcessingProofs`, `ConsensusPeriodsProofs` | | three theorems; the composition and five more |
| `ExitPolicy` | exit policies and their readings | operators |
| `ExitSelection` | the lists of exits and the draw from them | specification and properties |
| `ExitSelectionProofs` | | five theorems |
| `UserModel`, `UserModelProofs` | the streams of a user | specification and properties; four theorems |
| `CoordinateEngine` | the engine, its clients and their connections | specification and properties |
| `CoordinateEngineProofs` | | four theorems |
| `VivaldiNode` | the samples of a node | operators on a store of samples |
| `LatencyHash` | the map of latencies | operators |
| `CongestionDistribution` | the buckets of a congestion profile and the draw from them | operators |
| `CoordinateNetwork` | one network of the engine: set-up and rounds | composes the three; specification and properties |
| `CoordinateNetworkProofs` | | six theorems |
| `MCPathSelection`, `MCCircuitPool`, `MCConsensusPeriods`, `MCExitSelection`, `MCUserModel`, `MCCoordinateEngine`, `MCCoordinateNetwork` | small networks, archives, policies, traces and setups | instances for TLC |

### 2.1 PathSelection

`guards` is the client's dictionary (None for an absent key), `cons_rel_stats` and
`descriptors` the dictionaries of those names, `hibernating` the relays whose status is
True. `pc`, `request`, `attempts`, `exit`, `to_add`, `usable`, `entry` and `middle` are
the locals of `create_circuit()` and `get_guards_for_circ()`.

- `NextConsensus`, `GapInConsensuses`: one turn of the loop at 1414, up to
  `period_client_update()`; with a consensus the descriptors are merged and the statuses
  replaced, in a gap both stay and no status changes follow.
- `Tick`: time passes within a period, relays fall asleep or wake (892-905).
- `RequestCircuit`, `SelectExit`, `CountGuards`, `AddQuotaGuard`, `FilterGuards`,
  `AddCircuitGuard`, then one of `DropNewGuard`, `GuardUnreachable`, `GuardAnswers`, then
  `FinishCircuit` or `DiscardPath`, and `ReturnCircuit`: `create_circuit()` in steps as
  long as one draw, so that the list between two draws is a state.

Abstractions. Selection by bandwidth weight is a choice among all candidates, so what
is shown holds for any weights. A rejection loop is the choice of a relay that passes;
the exit policy, which only narrows the choice of exits, is left to `CircuitPool`.
A relay without a consensus entry has no flags: the code treats both alike. The guards
chosen from are `guards_for_circ[0:num_guards]` of a list in dictionary order: any usable
guard may be among them, and the model lets any be chosen.

An address is its characters up to the second dot. `in_same_16_subnet` compares those of the first
address, without its dots, with the characters at the same places in the second, as 408-424 do. The
test is not symmetric, so each filter gives it its two relays in the order of the code. `Related` is what
it is for, the same family or the same two bytes; the properties about paths and lists speak of `Related`, and hold
because the test is true of all related relays, in either order, and of some others.

### 2.2 CircuitPool

`needs` is `port_needs_global`, `covered[c]`, `clean[c]` and `dirty[c]` are the state of
client `c`. A deque is a function on positions; appending left takes a new largest
position, removing leaves the other positions alone, so that a step which removes circuits
from the middle is as simple as in the code.

- `NextConsensus`, `GapInConsensuses`: a period begins, circuits through relays that are
  down are killed for every client.
- `timed_updates`: needs expire everywhere, statuses change; `KillCircuits`, `LookAtNeed`,
  `CoverNeed`, `ClientUpdated`: `timed_client_updates()` for one client after another, one
  circuit at a time, the needs in any order (dictionary order in the code).
- `TakeStream`: `stream_update_port_needs()` on the next stream of the ordered trace;
  `AssignToDirty`, `AssignToClean`, `AssignToNew`: the three cases of
  `client_assign_stream()`; `EndOfMinute`.
- `pc = "error"`: `uncover_circuit_ports()` raised.

Abstractions. `create_circuit()` is its contract, `NewCircuits`: any path for which
`LivePath` holds and whose exit passes the filter. An exit policy is the
ports `can_exit_to_port()` guesses and the destinations the policy really takes: the two
may disagree, as they do in the code. `fast` is left out: every need and every stream
circuit asks for it. Two clients are interchangeable, so the loop over clients is in order.

### 2.3 CircuitContract

What a client sees of `create_circuit()`: a request; guards that answer and are trusted from
then on; a path that begins at a trusted guard and of which `LivePath` holds, or none. Trust
is lost only when a period begins. `PathSelectionContract` maps the state of `PathSelection`:
`trusted` is the listed guards with `made_contact`, the phases of `create_circuit()` are
"making", except that "built" is "made" and the error is "failed", and `path` is the relays
chosen while a circuit is built. `KeepsContract` says that each step of `PathSelection` is then a
step of the contract or a stutter. `CircuitPool` relies on the same operator, `LivePath`, so the
pool's assumption and the contract's promise are one definition.

### 2.4 ConsensusProcessing and ConsensusPeriods

`ConsensusProcessing`: `archive` is the dictionary of dictionaries of descriptors, of which only
the publication time and the hibernating flag matter. `NextRouter`, `LookAt` and then
`NoDescriptor` or `FoundDescriptor`, `NoteChange`, `RouterDone` are the turn of one relay;
`LookAt` is one turn of the inner loop (146-169) and takes any descriptor not yet met, the order
of a dictionary being nobody's choice. `desc_time`, `desc_time_fresh` and `descs_while_fresh` are
the locals of those names. The archive is fixed: that the code reads one more directory
of descriptors before each directory of consensuses is left out.

`ConsensusPeriods` extends it and reads each consensus's output into a period. `PadFiles` checks
the distances between files; `ReadNetworkState` is a turn of the loop at 1414 with a network
state, up to `set_initial_hibernating_status()`, and includes `modify_network_state()` of
`AdversaryInsertion`; `FillGap` is a turn with None; `timed_updates` and `EndOfMinute` the
minutes. A file is processed here when its turn comes, and not before the simulation: neither
program reads what the other does meanwhile, so nobody can tell. `phase = "error"` is one of
the two ValueErrors, a distance that is not whole hours or periods that do not meet.

### 2.5 CoordinateEngine

`pc` and `turn` are where the engine is in its loop: `Accept` (66-90), `Readable` (92-103),
then twice `Receive` or `ReceiveNothing` and the answer, one action per message sent; `Return`
is what becomes of the result of each dispatch. `conn` is `poller[1]`. A client is `Connect`,
`SetUp`, `GetNextCoordinates` and `SetUp` again any number of times, and the reads of `wait_response()`.
The first setup of a connection comes by the first of the two dispatches, which takes its zero for nothing; a
later one may come by the second, which takes it for a lost client. `renewed` remembers which clients
called `setup()` again; no action depends on it. A setup with a profile that is not `fit` aborts the engine.
Either side may end at any moment (`Killed`, `Leave`); a message that the engine was killed in
the middle of is `Cut`.

The sockets are not in `src/`. They are modelled as far as the two programs can tell: a
connection is open, closed by its client ("fin"), reset because it ended with data unread or
was written to after its end ("rst"), or taken by an `accept()` that then failed ("dropped").
`accept()` is given an uninitialised length: `AddressLen` has both outcomes, a usable length and one
that is negative as an int. Clients take turns, as the scripts run them. With `Patient` a client
connects only when the engine again polls for a new one.

Coordinates are a step count: what they show is which step of which network they were taken at.

### 2.6 ExitPolicy and ExitSelection

A policy is a sequence of rules, and each of the four readings looks for the first rule that
decides: one and the same operator, `FirstAccepts`, over the rules that count for that
reading. `can_exit_to()` and the rules themselves belong to the library stem, which is not part of
the repository; they are modelled from how the filters use them.

`ExitSelection` keeps `port_need_weighted_exits` and `stream_port_weighted_exits` as the code
does: both are emptied when a period begins (`BeginPeriod`), the first is filled again at once for all
needs, the second when a stream asks. `TakeStream` is what `stream_update_port_needs()` does to the
ports that are needed; `NextMinute` lets needs expire, and their lists stay behind. `ListForNeed`,
`ListForStream`, `LookAtRelay` (one turn of `filter_exits()` and `get_weighted_nodes()`) and
`StoreList` make a list. `RequestForNeed` and `RequestForStream` are the calls of
`create_circuit()`, with `exits_exact` as the callers set it; `Draw`, `SearchLeft`, `SearchRight`, `Found`
are `select_weighted_node()`, and `DrawAgain` and `ReturnExit` the loop around it.

Abstractions. A list's weights are integers and end with their sum, where the code divides by it: the
draw is taken times that sum and rounded up, and a draw of zero, which picks a first entry even if that weighs
nothing, is kept. What rounding does to a sum of floating-point numbers is left out. Which needs expire
is any subset: `CircuitPool` has the times. A guard's weights and those of middles are drawn from in
the same way and not repeated. Statuses of hibernation come after the exit is drawn, in `PathSelection`.

Two facts that no run states, for want of a line of the repository that says otherwise.
`policy_is_reject_star()` compares the method `get_masked_bits` with 0 and does not call it (291), so a
rule with a mask of no bits is not taken for a wildcard there, unlike in the other two readings; and an
empty policy, which accepts everything in those, counts as rejecting. `RejectsAll` and
`policy_is_reject_star` have both. A list whose exits weigh nothing together raises (368-369).

### 2.7 UserModel

`ScheduleOf` builds the week of each kind of session from its traces. `BeginWeek` to `EndWeek` are
the loops that unroll it for one key; the keys do not share anything but the schedule of "typical".
`InOrder` is the `sort()` of that schedule, by the place each entry takes.
`SkipEntry`, `TakeEntry` and `PassEnd` are the three ways through the inner loop. Destinations, ports
and the two kinds of streams are left out; "best" and "worst" have the times of "typical" and are not
repeated. Traces are not empty: an empty one never lets the loop end. The local time zone is UTC.

A custom key is scheduled every hour; when
its trace is longer than an hour the sessions overlap and the streams are not in order; the code does not see to it.
`Fits` says of a key that its sessions do not overlap: for custom keys that a trace is not longer than an hour, for
facebook and its like than three, for irc that 27 sessions take no more than a day and for bittorrent 18. The
traces of the runs satisfy it (`MCTraceAssumption`), as those of about 20 minutes do of which the docstring speaks.

### 2.8 VivaldiNode, LatencyHash and CoordinateNetwork

`VivaldiNode` has the heap of one node: `list` the memory and the two windows, `refct` the counts, `allocated`
what was not freed; freeing makes an address available to `malloc()`. A
double that only decides whether a sample is accepted is a nondeterministic verdict; when the verdict can only be yes
(`Bootstrapping`) is kept.

`CoordinateNetwork` follows one network from a client's `setup()`: `CollectLink` is a turn of
the loop over `__yield_latency_info()`, in any order, a dictionary's being nobody's choice; `Send`
raises when a pair has no latency; `InsertLatency` a turn of the loop at 332 of `safest_ext.cc`;
`DrawTarget` one draw of `pick_ping_targets()`; `Ping` and `Update` a turn of
`step_coordinates()`. The networks of an engine share their latencies and nothing else, so one
is enough. Who asks for rounds, and when, is `CoordinateEngine`: here a round may come
at any time, and so may a new setup. `pc = "dead"` is an assertion that failed. The model has three: of
`CongestionDistribution`'s constructor, for a profile that fills its buckets before its last bin (528-529);
for a pair without a latency (430); and of `viv_prot_error_check()` for a latency that is not positive
(`viv_algorithm()` returns no coordinate). The first and the last can fail, and `AbortsHaveCause` says when.

`CongestionDistribution` shares 1000 buckets out among the bins of a profile, in proportion to their counts and
rounded down, in order, and stops when the buckets are full. `sample()` draws one of as many buckets as
there are bins. A client sends one profile for each `name`, that of the first instance with it (`Sent`): in
`example.py` all names are None, so that only the first profile is sent. The last bin of a profile
of `models.py` is not empty, as it counts the largest value; those of `example.py` are random and may be.
Shares are divided exactly where the code multiplies floating-point numbers, and a profile is one
for which sample() draws only buckets that were filled (`IsProfile`): all of 500 bins or fewer are.

Left out: the number of samples counted in `_nsamples`, the stability, `latency_hash_remove()`,
which nothing calls. `cleanup()` forgets nodes and samples without freeing them; it concerns memory only.

## 3. What TLC checks

| run | instance | shows |
|---|---|---|
| `paths` | three guards, one wanted, four periods; one guard is up, not running or gone, hibernates or not; another changes network, family and flags; ntor lost | marks follow the consensus; lifetimes; contacted guards stay; retries are spaced; every path is sound; an added guard is unrelated to the others; the contract is kept |
| `paths_end` | three guards, two wanted, two periods of fair draws; one goes down and comes back, one or two fall asleep | every circuit begun is built or given up; the list is filled up to `num_guards` while guards on it are bad or unreachable |
| `pool` | two clients that share two needs, two circuits each at most, two periods, two streams, an exit down or half open | exact books, ordered deques, live circuits, needs covered, streams served, all loops end |
| `covering_stale` | a change of exit policy | a violation, see below |
| `periods` | two relays, 486 archives of their descriptors around two consensuses: next hour, gap, overlap, half an hour, long period; an inserted relay | outcome independent of the pass's order; time contiguous; descriptors known; statuses known and current |
| `periods_gap` | the same | a violation, see below |
| `engine_patient` | two clients in turn, two networks, setups that work, fail and abort, once or again, ends at any point | answers paired, coordinates in sequence, only clients that set up again taken for lost, all other waits end, clients that left forgotten |
| `engine_hasty` | the same, clients that do not wait for the engine | a violation, see below |
| `engine_setup_again` | clients that wait for it and call `setup()` again | a violation, see below |
| `exit_selection` | five relays, three consensuses, six policies, two ports and two addresses, weights with a zero | lists current; the search finds what was drawn; exits fit; drawing ends |
| `user_model` | nine keys, fourteen starting times, an hour to eight days | streams complete and in order; the loop ends |
| `vivaldi` | two nodes, five samples of room, maps with a pair once, twice, at zero or missing, profiles with and without an empty last bin, setups repeated | counts exact; windows ready; latencies agree; two causes to abort; rounds end |

**Bounds.** `Horizon` bounds time, `MaxStreams` the trace, and the small sets of networks
and of hibernation states the inputs; no other bound is added. Times are scaled so that
every threshold is crossed inside the horizon: with periods of 2 units a guard expires
after 4 or 5 and may be down for 5, so that guards expire, are removed for being down, come
back just in time, and go through all four bands of the retry schedule (`MCRetryAge`,
`MCRetryWait`). In `paths_end` two guards are wanted of three, so that a list below the
quota need not be empty: it is met with a bad guard on it, and with one that is unreachable and not due. In the pool a minute is 2 units: circuits age both between minutes and
within one (`MaxDirtiness` is odd), needs expire at a minute with circuits still covering
them, and `MaxUnused` is below what all needs together ask for, so that the limit is hit.
Three guards are the fewest with which one can be asleep, one related to the exit, and one
usable; two exits the fewest with which one can be refused.
For the periods an hour is 4 units and a minute 2. The first relay's descriptors are published
before the period, at its start, within it, in its last minute and at its end, in every
combination and with every status; the second's make it hibernate for a while, or consist of
one old descriptor. For the engine three setups do for all: one works, one fails, one aborts. `MaxSteps` bounds how often a client asks for a network's
coordinates, three being one more than is needed to tell a step repeated from a step skipped;
two networks tell answers for one from answers for another.
In `exit_selection` the policies are such that each pair of readings disagrees on one of them, and five
relays make the search go both ways more than once. In `user_model` there are traces shorter and longer than the 20
minutes a session takes at least, and simulated time begins on each weekday, at midnight and
within a session; eight days pass two borders of weeks. In `vivaldi` memory and windows are as small as their
order allows (two samples, one and one), two pings a round: a sample outlives its place in the
memory, and is pushed out of it by one that is rejected. Two nodes suffice since what a node keeps
depends on no other; the room for five samples is more than its lists can hold. `Grain` is two: half milliseconds, where
the code has thousandths, are enough to tell a congestion from none.

**Fairness.** The safety runs assume none. `paths_end` uses `PathSelection!FairSpec`: weak
fairness of the build (the program does not stop in `create_circuit()`), and for each relay
strong fairness of being drawn as a new guard and of being chosen when it is awake. Each
candidate of a random draw has a positive probability in the code, so a draw that is
possible infinitely often happens with probability one; strong fairness states just that.
The instance always has an awake guard unrelated to the others: without one the code does
loop for ever (hazard at 1281). `pool` uses weak fairness of `Next` only: a sequential
program goes on. The runs of the engine use weak fairness of `EngineStep`, since the engine
runs on while it can, and for each client of `WakeUp`, since a `recv()` that has something to
return does so. Nothing is assumed of when clients connect, ask, or leave, nor that anything
is killed. `user_model` uses weak fairness of `Step`, the one thread. `exit_selection` uses weak fairness of
`SearchStep` and for each value of the draw strong fairness of drawing it: each has an interval of positive length. When
no exit of the list takes the address the loop at 1187 has no end: `DrawsEnd` has the premise that
some exit with a weight does. `vivaldi` uses weak fairness of `EngineStep`: the engine runs on, and as a draw of
the node itself changes nothing, drawing at last hits another node. `RoundEnds` is for two
nodes or more, since a single one draws itself for ever.

**Types.** `TypeOK` of `CoordinateEngine` and `CoordinateNetwork` and `PeriodsTypeOK` are
checked by runs and proved. Those of the other modules are only proved, and no run repeats them.

**Four disagreements** between the code and what it says of itself.

`covering_stale` checks what 1247 says of a circuit's `covering` set,
"ports with needs covered by circuit", with "covers" as 653-658 defines it. TLC finds a
circuit made for a need whose exit then publishes a policy that no longer takes the port.
The code tests covering when a circuit is made (967-975) or a need appears (1005-1011), and
a new consensus kills only circuits through relays that are down (870-873). The circuit goes on
counting, and no circuit is made that could serve the port.

`periods_gap` checks the comment at 1434, "set empty statuses, even though previous should have
been emptied". Preprocessing keeps changes up to and including `fresh_until`, and the last update
of a period is for a minute before it. A change after the start of that minute is still on the list when
a gap begins. It is thrown away, and the relay keeps its old status through the hours filled
in. `StatusesCurrent` states what does hold: in a gap relays have the status of the last minute
before it.

`engine_hasty` checks `ce_client.py` 113-115, that `wait_response()` waits for a response that tells
whether the command was successful, against clients that connect while the engine still
holds the connection of one that has left. While a connection waits to be accepted and one is
held, lines 71-75 of `safest_ext.cc` `continue` without looking at the held one. Its end is never
read, the new client is never accepted, and its `setup()` never returns; the engine spins.
`engine_patient` shows that clients which wait for the engine, and set up once, are served.

`engine_setup_again` checks the same lines against a client that waits for the engine and calls `setup()` a
second time, which the class allows (43-72). The engine answers the first INIT and blocks in its second
`dispatch()` (108); the second INIT is read there and answered OK, and the 0 it returns is taken for a lost client
(109-111). The connection is open and no longer looked at, and the client's next call never returns. That
this is the only way to it, is `LiveClientsHeld`; that all other waits end, `WaitsEndWhileHeld`.

Three more were met that no run states, as they are seen without taking a step:

- `in_same_16_subnet()` "checks if the first two bytes are equal" (409-410), and compares as many characters
  as the first address has before its dots, without looking for a dot in the second: 10.1 is found to be in one
  network with 10.10, and 10.10 not with 10.1. The model has this test. Nothing related gets through, so no path is
  unsound for it; some guards are refused that would do.
- The docstring of `UserModel` (`models.py` 49, 52) has interactive and irc sessions "M-F". The schedule
  counts from Sunday's midnight ("sunmorn = 0", 88) and line 126 takes the place of the start in the week from
  `weekday()`, which is 0 on Mondays. Every session comes a day late, Monday's on Tuesday and Friday's on Saturday;
  that the streams are otherwise complete and in order is `user_model`.
- By the comment at `safest_ext.cc` 508-513 each of 1000 buckets "represents what bin you should be in if you draw a
  random number from [0,1000]". `sample()` draws modulo `bucket_count` (536), and that is the number of bins (504). Of
  a profile of two bins with half of the samples each only the first two buckets are drawn, and both are the first bin's;
  of the 100 bins of a profile of `models.py` only those that share the first 100 buckets ever are. `Drawn` has it so.

Every property has a mutant in `PROJECT.json`: a changed definition, such as one of the plausible
slips in the code it models, under which the run finds the property violated. They are the
definitions marked "Mutant of" in the modules; no specification uses them.

## 4. What is proved

The proofs are for specifications without fairness, and for all constants that satisfy
the assumptions of the module. These say: the options have the types and signs the code
gives them (`OptionAssumption`); a consensus lists only relays that come with a descriptor,
as `get_network_state()` ensures (`NetworkAssumption`); None is not a value (`NoneAssumption`);
in `PathSelection` a period is shorter than a guard's least lifetime and the time it may be down
(an hour against 60 and 30 days, `PeriodAssumption`); in `CircuitPool` periods are whole
minutes and port 80 is not long-lived (`SetAssumption`); in `ConsensusProcessing` archives and consensuses
have their form and consensuses end after they begin (`ArchiveAssumption`, `ConsensusAssumption`); in
`ConsensusPeriods` files are sorted and the inserted relays are finitely many and not in any consensus, which the code
checks and raises (`FilesAssumption`, `AdversaryAssumption`); in `CoordinateEngine` None is neither a client nor a
number (`NameAssumption`). In `ExitSelection` the relays of a consensus are
listed once, weights and bandwidths are naturals and policies have their form (`ConsensusAssumption`); in
`UserModel` traces are in order and not empty (`TraceAssumption`) and time begins a week or more after the
epoch (`TimeAssumption`); in `VivaldiNode` `malloc()` returns only what is free (`MallocAssumption`), at least two samples
are taken before the checks begin, and the errors' window is not longer than the memory
(`WindowAssumption`; the values at `safest_ext.cc` 551-557 satisfy it); in `CoordinateNetwork` latencies are integers and profiles
have their form (`NetworkAssumption`), and a millisecond has at least one grain (`GrainAssumption`). That addresses are
sequences of characters is `AddressAssumption` of `PathSelection`.

### 4.1 PathSelection

The inductive invariant is `ListInv /\ PathInv`.

- `ListInv`: types, `GuardsTrackConsensus`, `GuardLifetimes`, `RetryRecord`, and two facts
  they need: a relay with flags has a descriptor, and requests lie within the period. All but the
  first speak of one guard record at a time. `ListStep` therefore rests on lemmas on one
  record: what a period's update does to it (`PeriodUpdateOfGuard`), that a new record is good
  (`NewGuardOK`), what an attempt does to it (`ChosenGuardKeepsList`).
- `PathInv`: the verdicts of the filters still stand when they are used. `usable` is computed
  at one point and chosen from at another, and after a guard is dropped it is computed anew;
  exit and guard are tested before the middle is drawn. The invariant says that each test, if
  repeated now, would succeed. `PathSound` is then a matter of definitions and of `RelatedConflict`: the tests
  refuse two related relays whichever is given first, though the subnet test is not symmetric.

`QuotaFilled` needs an invariant of its own, `QuotaCounted`: the guards listed and those still to
add make `num_guards`. It holds because the code subtracts the *live* guards from the number
wanted: the listed ones are at least as many.

The action properties follow by one step per action from the same invariant.
`RetriesAreSpaced` needs `RetryRecord`: the mark is never later than the last attempt, so the first
test of `guard_is_time_to_retry()` never lets a retry through.

### 4.2 CircuitPool

Four invariants, each on top of the ones before.

1. `PoolInv`: types and exact books. `Books(n, k, d)` says that count `k` describes deque `d`
   under needs `n`; `BooksWithout` and `BooksAppend` are the two ways a deque changes, on
   cardinalities of finite sets. The invariant must state for `uncover_circuit_ports()` that circuits
   cover only ports that are needed: that is why it never raises.
2. `OrderInv`: both deques ordered, and the head not later than the next circuit to be added: circuits
   for needs are made at the minute's time and circuits for streams at the stream's.
3. `LiveInv`: which relays the circuits of each client run through, at each stage of the minute. After
   a period starts the circuits run through relays that are up; clients already updated in this minute
   also have no old circuit and no sleeping relay. Order is what makes popping from the right remove
   *all* old circuits (`OldOnesGo`).
4. `ServedInv`: clients before the current one have their stream on a usable dirty circuit.
   `CoverInv`: clients before the current one have their needs covered or are at the limit, and within a
   client the same for needs already looked at. That a later circuit for another need takes the last
   place is allowed; that it takes a place and uncovers a port is not, and does not happen
   (`CoverGrows`).

### 4.3 The contract

`PathSelectionKeepsContract`: the initial states map to initial states, and under `ListInv /\ PathInv`
each action of `PathSelection` maps to one of `CircuitContract` or to a stutter. Most actions stutter;
`GuardAnswers` is `Trust`, `FinishCircuit` is `Make`, `DiscardPath` is `GiveUp` or a stutter, and the beginning of a period is
`BeginPeriod`. Dropping a guard leaves `trusted` alone because only guards that never answered are
dropped, which is `ContactedGuardsKept` once more and from the same lemmas.

### 4.4 ConsensusProcessing and ConsensusPeriods

The inductive invariant says, of the pass so far, what each local is in terms of the *set* of
descriptors met, whatever their order.

- `PassInv`: `desc_time` is the latest fit one (`BestSoFar`), `descs_while_fresh` those of the fresh period
  (`FreshSoFar`). `InitialSoFar` is the interesting part: `desc_time_fresh` is the latest before
  `valid_after`, or the oldest when none is, *except* when a descriptor was published exactly at
  `valid_after`. Then it may be that one or an earlier one, depending on the order of the pass.
- `ChangesInv` (`ToldSoFar`): the statuses noted so far give the history up to the last change noted. The
  exception above does no harm: a descriptor at `valid_after` also counts as one of the fresh period,
  so that if the initial status differs from it a change is noted at that very instant.
- `DoneInv`: for the relays looked up, the two properties themselves.

`PeriodsProcess` shows that the composed specification implements `SpecProcessing`, so these results hold of the
statuses a simulation reads; `DescriptorsAlwaysKnown` adds that every relay that can be chosen has a
descriptor, inserted ones included: it needs that their descriptors came with the first network state
that was modified and that the caller keeps them.

The invariant of the composition has three more parts.

- `ReadingInv` and `PeriodInv` say where in the files the simulation is: a period is that of its file moved by the hours
  filled in, and a minute is a whole number of minutes after its start. With regular files the hours missing
  are whole, so the last one filled in ends where the next file begins. `RegularFilesAlwaysPass` is this and
  that two multiples of an hour are the same or an hour apart (`MultiplesApart`).
- `StatusInv` says what the statuses and the list still to be popped tell *together*: if the list were popped up to
  any time from now to the end of the consensus, each relay would have the status it has then (`Replays`). It
  is preserved since popping twice is popping once up to the later time (`PoppedTwice`), and holds
  when a file is read since the statuses noted tell the history (`StatusesTellHistory`), sorting keeps them all
  and puts later ones first (`SortedFacts`), and of a relay's changes the one popped last is its
  latest (`PoppedIsNoted`). Relays inserted behind the sorted list are older than any change and do not keep others from being
  popped (`InsertedIsPopped`). In a gap the list is empty and statuses stay those of the last minute (`Stays`).

That a change is last among those up to some time, that places in a sorted list are all taken, and the like, is induction in
other words: a set of numbers has a least element (`Least`), which the library's theorem on well-founded relations
gives without an operator as parameter.

### 4.5 ExitSelection

`IInv` says of a list being made that it is the list for the relays looked at so far, and of a list
stored that it is the one for the present consensus or absent. `LooseAdmits` is the lemma
that makes lists safe: whatever policy and port, an exit that the exact reading admits for an address, or the guess
for any, the loose one admits; `LooseFilterAdmits` carries it to `exit_filter()`. `ExitsAlwaysFit` then
follows for both kinds of lists. `SearchAlwaysFinds` keeps that the entries before `begin` are below the draw and
the one at `end` is not; the middle is never outside of the range, and weights never fall
from one entry to the next.

### 4.6 UserModel

The theorems on streams are for schedules in order that reach over at most a week (`Unrollable`), and
`SchedulesUnrollable` shows that all schedules the constructor makes of fitting sessions (`Fits`) are such.
`FittingStreams` puts the two together.

- `UserStreamsInOrder` and `UserTypeOK`: the invariant says where the clock is in relation to the next entry (`Ahead`): once
  a stream was taken, nothing that is still due lies before it, so that the test of the clock in the guard
  of `continue` no longer matters.
- `UserStreamsComplete`: the streams so far are the occurrences (entry, week) that the loops went through and that lie
  in the simulated time (`Taken`), one stream for each. An entry skipped lies before the start; when `break` leaves the
  others of its week, they and all of later weeks lie behind the end, as the schedule is in order and no longer than a
  week. At the end every occurrence not gone through is too late.
- `SchedulesUnrollable`: a schedule is a sequence of rows of one length, and a quotient and a rest tell the row and the
  place in it (`Position`, `Placed`). Rows in order that do not overlap make a sequence in order (`RunsRepeated`), first for the
  sessions of a day and then for the days of a week. The schedule of "typical", the only one sorted, turns out to be in
  order already (`TypicalRun`), and `InOrder` leaves it alone (`InOrderAlready`).

### 4.7 CoordinateNetwork

Four parts. `Counted` is the heart: an insertion followed by dropping the last one keeps counts
exact whichever list it is and whether or not the sample dropped is in the others; it rests on `Bounded`, that no
list holds a sample twice, which holds because a new sample lies where none is allocated. The windows
are ready since before the checks begin every sample enters both of them, and no later step makes
one shorter: with a memory of two at least, the first update always fills both. For latencies the invariant follows
the links not yet looked at, the pairs still required, the message and the map: a
pair is in exactly one of required, message or map, and both directions are inserted in
one step with the same value. `AbortsHaveCause` follows, as no lookup misses and the profiles stay those of the
setup until the engine is dead.

### 4.8 CoordinateEngine

The invariant follows a request through its stages: sent, received, then for a setup answered, for coordinates
announced and written, or broken off when the engine dies. For each stage it says all that is on the way in either
direction; whether a client has read the announcement is the one thing that can differ. A client between two calls has
nothing on the way at all (`Quiet`), which is what makes a leftover answer impossible. Three facts keep this
together:

- Of all clients at most one is in a call or between two, and whoever holds the connection while it is, is that client
  (`Connected`); the others have not begun, wait to be accepted, or are gone.
- Once a client's setup was answered, nobody else is served until it is gone (`IsSetUp`, `ServedAlone`), so that
  nobody else's setup replaces its networks.
- What the engine has prepared for a network is the step after the last one this client saw, plus one for coordinates on the
  way, minus one while the engine has sent them and not yet stepped (`InStep`).

`EngineTypeOK` includes that the engine never writes a response that was not prepared. `CoordinatesAlwaysInSequence` follows, since
coordinates are returned only in stage "written", where they are those of the next step (`SequenceStep`).

For `LiveClientsStayHeld` the invariant says by which dispatch requests come: a client that has not set up again
and whose INIT is under way is read by the first one, since the engine went back to polling before it accepted
the connection (`ReadByFirst`), and only a client that was set up is
marked (`RenewedLater`). After that dispatch the zero of a GET's second one cannot come, GET returning one, so
only an INIT after the first, or the end of the client, makes the engine forget it.

### 4.9 Left to TLC

`BuildEnds`, `Finishes`, `WaitsEndWhileHeld`, `LostClientsForgotten`, `DrawsEnd`, `ModelBuilt` and `RoundEnds` are
liveness under fairness and out of the prover's reach. `CoveringIsServable`,
`PreviousEmptied` and, for hasty clients and for second setups, `WaitsEnd` are violated. Every other property the runs check is a theorem. Nothing is assumed without proof.

## 5. What is not modelled

Most of the lines of the repository are not its own: the protobuf distribution with its tests, Tor's containers, uthash and
the output of gengetopt make up nearly all of it. Of the project's own programs:

- The congestion-aware variant (`congestion_aware_pathsim.py`). It copies `create_circuit()` and `client_assign_stream()`;
  which circuit a stream takes, and whether one is dropped, depends on sampled ping times. Its books are those of
  `CircuitPool`, whose invariants do not depend on the choice among usable circuits; the one rule it lacks, the age
  of a dirty circuit, is hazard 230. One fact found while reading: at 1823-1831 of `pathsim.py` the script substitutes
  functions of another module, which reads options from its own import of `pathsim`, while
  options from the command line are set in `__main__`.
- Of the network modifiers the bandwidth weights, one straight computation on large integers, and the guard
  threshold; of preprocessing the parsing, the second output format and the growing archive; of the engine
  the requests its client class never sends, a ping interval of zero, which ends it by a division (`safest_ext.cc` 329), and setups of no
  networks: one that is read by the second dispatch is survived, and since `is_initialized()` is then false the next
  one keeps its latencies (308).
- The numeric part of Vivaldi, how `models.py` makes congestion profiles, the delay models: floating point. Log analysis and
  `count_relay_selections.py` add up finished logs; plotting, scripts and file formats are I/O;
  `vcs_pathsim.py` cannot run; vendored code is somebody else's.
- Within the modelled parts: log output, and the callbacks, which do not feed back.

## 6. Plan

Done: the guard list and path selection, the circuit pool, the contract between them, consensus processing and
periods, exit policies and exit selection, the user model, the coordinate engine, its networks and nodes; and the proofs
of their safety.
Left, in this order:

1. The choice of an exit in `CircuitPool` and `PathSelection` as a promise of `ExitSelection`, as `LivePath` is one of
   `CircuitContract`.
2. `CoordinateEngine` and `CoordinateNetwork` joined where a request steps a network.
3. `CongestionPool`: the assignment rule of `congestion_aware_pathsim.py` as a variant of `CircuitPool`.
