------------------------------ MODULE CircuitPool ------------------------------
(***************************************************************************)
(* The circuits of the simulated clients: the main loop of                 *)
(* create_circuits() in pathsim.py and the handlers it calls for each      *)
(* consensus period, each minute and each stream.  The port needs are      *)
(* shared by all clients; each client keeps its clean and dirty circuits   *)
(* and counts, per needed port, the clean circuits that cover it.          *)
(*                                                                         *)
(* create_circuit() is its contract here: any live path, as LivePaths.tla  *)
(* defines it, with a suitable exit; PathSelection.tla hands out no other. *)
(* A collections.deque is a function on a finite set of positions; the     *)
(* left end is the largest position.                                       *)
(***************************************************************************)
EXTENDS Integers, FiniteSets, LivePaths

CONSTANTS
  Relay,             \* fingerprints of the relays
  Path,              \* the paths <<guard, middle, exit>> there may be
  Port,              \* the ports streams ask for
  LongLived,         \* TorOptions.long_lived_ports
  SeedPort,          \* port 80: the need every simulation starts with
  Destination,       \* what streams ask for: an address and port, or a RESOLVE
  PortOf,            \* destination -> its port, SeedPort for a RESOLVE
  NetworkState,      \* the consensus periods that may be read from files
  HibernationState,  \* the sets of relays that may hibernate together
  None,              \* Python's None, and "absent" for a dictionary key
  NumClients,        \* num_samples
  CoverNum,          \* TorOptions.port_need_cover_num
  MaxUnused,         \* TorOptions.max_unused_open_circuits
  MaxDirtiness,      \* TorOptions.max_circuit_dirtiness
  IdleTimeout,       \* TorOptions.circuit_idle_timeout
  NeedLifetime,      \* TorOptions.port_need_lifetime
  TimeStep,          \* time_step of create_circuits()
  PeriodLength,      \* fresh_until - valid_after of every consensus
  Horizon,           \* the length of the simulation
  MaxStreams         \* the number of streams in the trace

VARIABLES
  cur_time,     \* cur_time
  valid_after,  \* cur_period_start
  gap,          \* whether the period repeats an old consensus
  up,           \* the relays in the consensus with the Running flag
  stable,       \* those of them with the Stable flag
  policy,       \* relay -> the exit policy of its last descriptor
  hibernating,  \* the relays whose hibernating_status is True
  needs,        \* port_needs_global: port -> its need, None when absent
  covered,      \* client -> port_needs_covered, None for an absent port
  clean,        \* client -> clean_exit_circuits
  dirty,        \* client -> dirty_exit_circuits
  pc,           \* the handler to run next
  client,       \* the client it runs for
  todo,         \* the needs not yet looked at in this minute's update
  port,         \* the need looked at
  stream,       \* the stream being assigned, or assigned last
  served,       \* client -> position in dirty of the circuit it was assigned
  streams       \* how many streams have been taken from the trace

network == <<gap, up, stable, policy, hibernating>>
pool    == <<covered, clean, dirty>>
loop    == <<client, todo, port>>
trace   == <<stream, served, streams>>
vars    == <<cur_time, valid_after, network, needs, pool, pc, loop, trace>>

Client == 1..NumClients

Need == [expires : Nat, stable : BOOLEAN]

Stream == [dest : Destination, time : Nat]

\* ports: what can_exit_to_port() guesses; accepts: what the policy really takes.
Policy == [ports : SUBSET Port, accepts : SUBSET Destination]

Circuit ==
  [time       : Nat,
   stable     : BOOLEAN,
   dirty_time : Nat \cup {None},
   path       : Path,
   covering   : SUBSET Port]

IsDeque(d) ==
  /\ IsFiniteSet(DOMAIN d) /\ DOMAIN d \subseteq Nat
  /\ d = [i \in DOMAIN d |-> d[i]]
  /\ \A i \in DOMAIN d : d[i] \in Circuit

ASSUME SetAssumption ==
  /\ Path \subseteq Relay \X Relay \X Relay
  /\ LongLived \subseteq Port /\ SeedPort \in Port \ LongLived
  /\ PortOf \in [Destination -> Port]
  /\ NetworkState \subseteq [up : SUBSET Relay, stable : SUBSET Relay,
                             policy : [Relay -> Policy]]
  /\ HibernationState \subseteq SUBSET Relay
  /\ None \notin Nat /\ None \notin Need /\ None \notin Port
  /\ None \notin Stream

ASSUME OptionAssumption ==
  /\ NumClients \in Nat \ {0} /\ CoverNum \in Nat /\ MaxUnused \in Nat
  /\ MaxDirtiness \in Nat \ {0} /\ IdleTimeout \in Nat \ {0}
  /\ NeedLifetime \in Nat /\ TimeStep \in Nat \ {0}
  /\ PeriodLength \in Nat \ {0} /\ Horizon \in Nat /\ MaxStreams \in Nat
  /\ PeriodLength % TimeStep = 0

Phase == {"period", "minute", "client", "cover", "stream", "assign", "done",
          "error"}
-----------------------------------------------------------------------------
(* Deques.                                                                 *)

EmptyDeque == [i \in {} |-> 0]

Leftmost(S) == CHOOSE i \in S : \A j \in S : j <= i

NextLeft(d) == IF DOMAIN d = {} THEN 1 ELSE Leftmost(DOMAIN d) + 1

\* Mutant of appendleft: the new circuit goes to the right end.
appendright(d, circuit) ==
  [i \in {1} \cup {j + 1 : j \in DOMAIN d} |->
     IF i = 1 THEN circuit ELSE d[i - 1]]

appendleft(d, circuit) ==
  [i \in DOMAIN d \cup {NextLeft(d)} |->
     IF i = NextLeft(d) THEN circuit ELSE d[i]]

Without(d, gone) == [i \in DOMAIN d \ gone |-> d[i]]

\* Mutant of OldDirty: a circuit exactly as old as the limit stays.
OlderDirty(d, limit) ==
  {i \in DOMAIN d : \A j \in DOMAIN d : j <= i => d[j].dirty_time < limit}

\* What "while the rightmost is old: pop()" removes.
OldDirty(d, limit) ==
  {i \in DOMAIN d : \A j \in DOMAIN d : j <= i => d[j].dirty_time <= limit}

OldClean(d, limit) ==
  {i \in DOMAIN d : \A j \in DOMAIN d : j <= i => d[j].time <= limit}
-----------------------------------------------------------------------------
(* Circuits, needs and streams.                                            *)

ExitOf(circuit) == circuit.path[3]
RelaysOf(circuit) == {circuit.path[k] : k \in 1..3}

\* kill_circuits_by_relay(): the circuits with a relay outside good.
Broken(d, good) == {i \in DOMAIN d : ~(RelaysOf(d[i]) \subseteq good)}

\* The needs are all fast, and so are all circuits made for them or a stream.
circuit_covers_port_need(circuit, p, need) ==
  /\ need.stable => circuit.stable
  /\ p \in policy[ExitOf(circuit)].ports

circuit_supports_stream(circuit, dest) ==
  /\ dest \in policy[ExitOf(circuit)].accepts
  /\ circuit.stable \/ PortOf[dest] \notin LongLived

\* What create_circuit() returns at time t, for an exit that passes its filter.
NewCircuits(t, wants_stable, exits) ==
  {[time |-> t, stable |-> wants_stable, dirty_time |-> None, path |-> pa,
    covering |-> {}] :
     pa \in {pa \in Path : /\ LivePath(pa, up \ hibernating, stable, wants_stable)
                           /\ pa[3] \in exits}}

\* The number of circuits of the deque d, among positions S, that cover port p.
CoverCount(d, S, p) == Cardinality({i \in S : p \in d[i].covering})

\* uncover_circuit_ports() for the clean circuits of client c at positions gone.
Uncovered(c, gone) ==
  [p \in Port |-> IF covered[c][p] = None THEN None
                  ELSE covered[c][p] - CoverCount(clean[c], gone, p)]

\* It raises for a port it does not find.
UncoverFails(c, gone) ==
  \E i \in gone : \E p \in clean[c][i].covering : covered[c][p] = None

\* The next client of a loop over client_states, or what follows the loop.
NextClient(again, after) ==
  IF client < NumClients
  THEN client' = client + 1 /\ pc' = again
  ELSE client' = 1 /\ pc' = after
-----------------------------------------------------------------------------
(* A consensus period begins.                                              *)

fresh_until == valid_after + PeriodLength

SeedNeeds(t) ==
  [p \in Port |-> IF p = SeedPort
                  THEN [expires |-> t + NeedLifetime, stable |-> FALSE]
                  ELSE None]

Init ==
  /\ cur_time = 0 /\ valid_after = 0 /\ gap = FALSE
  /\ \E ns \in NetworkState :
       up = ns.up /\ stable = ns.stable /\ policy = ns.policy
  /\ hibernating \in HibernationState
  /\ needs = SeedNeeds(0)
  /\ covered = [c \in Client |-> [p \in Port |-> IF p = SeedPort THEN 0 ELSE None]]
  /\ clean = [c \in Client |-> EmptyDeque]
  /\ dirty = [c \in Client |-> EmptyDeque]
  /\ pc = "minute"
  /\ client = 1 /\ todo = {} /\ port = None
  /\ stream = None /\ served = [c \in Client |-> None] /\ streams = 0

\* period_client_update(), the part on circuits: those through a relay that is
\* not in the consensus, or not Running, are killed.
period_client_update(good) ==
  /\ clean' = [c \in Client |-> Without(clean[c], Broken(clean[c], good))]
  /\ dirty' = [c \in Client |-> Without(dirty[c], Broken(dirty[c], good))]
  /\ covered' = [c \in Client |-> Uncovered(c, Broken(clean[c], good))]
  /\ pc' = IF \E c \in Client : UncoverFails(c, Broken(clean[c], good))
           THEN "error" ELSE "minute"

NextConsensus ==
  /\ pc = "period"
  /\ gap' = FALSE
  /\ \E ns \in NetworkState :
       /\ up' = ns.up /\ stable' = ns.stable
       /\ policy' = [r \in Relay |-> IF r \in ns.up THEN ns.policy[r]
                                     ELSE policy[r]]
       /\ period_client_update(ns.up)
  /\ hibernating' \in HibernationState
  /\ valid_after' = cur_time
  /\ UNCHANGED <<cur_time, needs, loop, trace>>

\* No consensus for this hour: the old one goes on, without status changes.
GapInConsensuses ==
  /\ pc = "period"
  /\ gap' = TRUE
  /\ period_client_update(up)
  /\ valid_after' = cur_time
  /\ UNCHANGED <<cur_time, up, stable, policy, hibernating, needs, loop, trace>>
-----------------------------------------------------------------------------
(* A minute begins.                                                        *)

Expired == {p \in Port : needs[p] # None /\ needs[p].expires <= cur_time}

\* Mutant of Discard: the circuits go on covering expired ports.
KeepCovering(c, gone) == clean[c]

\* The clean circuits of client c no longer cover the ports in gone.
Discard(c, gone) ==
  [i \in DOMAIN clean[c] |-> [clean[c][i] EXCEPT !.covering = @ \ gone]]

\* Expired needs go, from every client's books too; relays fall asleep or wake.
timed_updates ==
  /\ pc = "minute"
  /\ needs' = [p \in Port |-> IF p \in Expired THEN None ELSE needs[p]]
  /\ covered' = [c \in Client |->
                   [p \in Port |-> IF p \in Expired THEN None ELSE covered[c][p]]]
  /\ clean' = [c \in Client |-> Discard(c, Expired)]
  /\ hibernating' \in IF gap \/ cur_time = valid_after
                      THEN {hibernating} ELSE HibernationState
  /\ pc' = "client"
  /\ UNCHANGED <<cur_time, valid_after, gap, up, stable, policy, dirty, loop,
                 trace>>

GoneClean(c) ==
  OldClean(clean[c], cur_time - IdleTimeout)
    \cup Broken(clean[c], Relay \ hibernating)

GoneDirty(c) ==
  OldDirty(dirty[c], cur_time - MaxDirtiness)
    \cup Broken(dirty[c], Relay \ hibernating)

\* timed_client_updates(), first half: old circuits and those through a
\* hibernating relay are killed.
KillCircuits ==
  /\ pc = "client"
  /\ dirty' = [dirty EXCEPT ![client] = Without(@, GoneDirty(client))]
  /\ clean' = [clean EXCEPT ![client] = Without(@, GoneClean(client))]
  /\ covered' = [covered EXCEPT ![client] = Uncovered(client, GoneClean(client))]
  /\ pc' = IF UncoverFails(client, GoneClean(client)) THEN "error" ELSE "cover"
  /\ todo' = {p \in Port : needs[p] # None}
  /\ port' = None
  /\ UNCHANGED <<cur_time, valid_after, network, needs, client, trace>>

\* Mutant of NeedsCircuit: the last free place is never used.
NeedsCircuitUnlessAlmostFull ==
  /\ port # None
  /\ covered[client][port] < CoverNum
  /\ Cardinality(DOMAIN clean[client]) < MaxUnused - 1

\* The loop on the port at hand goes on: it needs cover and there is room.
NeedsCircuit ==
  /\ port # None
  /\ covered[client][port] < CoverNum
  /\ Cardinality(DOMAIN clean[client]) < MaxUnused

\* Mutant of LookAtNeed: the need looked at stays to be looked at.
LookAgain(p) ==
  /\ pc = "cover" /\ ~NeedsCircuit
  /\ p \in todo
  /\ port' = p
  /\ UNCHANGED <<cur_time, valid_after, network, needs, pool, todo, pc, client,
                 trace>>

\* Second half: look at the needs in some order ...
LookAtNeed(p) ==
  /\ pc = "cover" /\ ~NeedsCircuit
  /\ p \in todo
  /\ port' = p
  /\ todo' = todo \ {p}
  /\ UNCHANGED <<cur_time, valid_after, network, needs, pool, pc, client, trace>>

CoveredBy(circuit) ==
  {port} \cup {p \in Port : /\ needs[p] # None
                            /\ circuit_covers_port_need(circuit, p, needs[p])}

\* ... and make circuits for the one at hand; they cover what else they can.
CoverNeed ==
  /\ pc = "cover" /\ NeedsCircuit
  /\ \E circuit \in NewCircuits(cur_time, needs[port].stable,
                                {r \in Relay : port \in policy[r].ports}) :
       LET ports == CoveredBy(circuit) IN
       /\ clean' = [clean EXCEPT ![client] =
                      appendleft(@, [circuit EXCEPT !.covering = ports])]
       /\ covered' = [covered EXCEPT ![client] =
                        [p \in Port |-> IF p \in ports THEN @[p] + 1 ELSE @[p]]]
  /\ UNCHANGED <<cur_time, valid_after, network, needs, dirty, pc, loop, trace>>

ClientUpdated ==
  /\ pc = "cover" /\ ~NeedsCircuit
  /\ todo = {}
  /\ NextClient("client", "stream")
  /\ UNCHANGED <<cur_time, valid_after, network, needs, pool, todo, port, trace>>
-----------------------------------------------------------------------------
(* The streams of the minute.                                              *)

LastStreamTime == IF stream = None THEN 0 ELSE stream.time

\* The clean circuits of client c that a new need for port p finds.
Found(c, p, need) ==
  {i \in DOMAIN clean[c] : circuit_covers_port_need(clean[c][i], p, need)}

\* stream_update_port_needs(): a known need lives longer, a new one counts the
\* clean circuits that already cover it.
stream_update_port_needs(p, t) ==
  LET need == [expires |-> t + NeedLifetime, stable |-> p \in LongLived]
  IN  IF needs[p] # None
      THEN /\ needs' = IF needs[p].expires < t + NeedLifetime
                       THEN [needs EXCEPT ![p].expires = t + NeedLifetime]
                       ELSE needs
           /\ UNCHANGED <<covered, clean>>
      ELSE /\ needs' = [needs EXCEPT ![p] = need]
           /\ covered' = [c \in Client |->
                [covered[c] EXCEPT ![p] = Cardinality(Found(c, p, need))]]
           /\ clean' = [c \in Client |-> [i \in DOMAIN clean[c] |->
                IF i \in Found(c, p, need)
                THEN [clean[c][i] EXCEPT !.covering = @ \cup {p}]
                ELSE clean[c][i]]]

\* The trace is ordered by time.
TakeStream ==
  /\ pc = "stream"
  /\ streams < MaxStreams
  /\ streams' = streams + 1
  /\ \E dest \in Destination, t \in cur_time..(cur_time + TimeStep - 1) :
       /\ t >= LastStreamTime
       /\ stream' = [dest |-> dest, time |-> t]
       /\ stream_update_port_needs(PortOf[dest], t)
  /\ served' = [c \in Client |-> None]
  /\ pc' = "assign"
  /\ UNCHANGED <<cur_time, valid_after, network, dirty, loop>>

\* Mutant of UsableDirty: no look at the circuit's age.
SupportingDirty ==
  {i \in DOMAIN dirty[client] :
     circuit_supports_stream(dirty[client][i], stream.dest)}

\* The dirty circuits young enough for the stream, and able to carry it.
UsableDirty ==
  {i \in DOMAIN dirty[client] :
     /\ dirty[client][i].dirty_time > stream.time - MaxDirtiness
     /\ circuit_supports_stream(dirty[client][i], stream.dest)}

UsableClean ==
  {i \in DOMAIN clean[client] :
     circuit_supports_stream(clean[client][i], stream.dest)}

\* client_assign_stream(), in its three cases: the leftmost dirty circuit, ...
AssignToDirty ==
  /\ pc = "assign"
  /\ UsableDirty # {}
  /\ served' = [served EXCEPT ![client] = Leftmost(UsableDirty)]
  /\ NextClient("assign", "stream")
  /\ UNCHANGED <<cur_time, valid_after, network, needs, pool, todo, port, stream,
                 streams>>

MakeDirty(circuit) ==
  /\ dirty' = [dirty EXCEPT ![client] =
                 appendleft(@, [circuit EXCEPT !.dirty_time = stream.time])]
  /\ served' = [served EXCEPT ![client] = NextLeft(dirty[client])]

\* ... else the leftmost clean one, which stops covering its ports, ...
AssignToClean ==
  /\ pc = "assign"
  /\ UsableDirty = {} /\ UsableClean # {}
  /\ LET i == Leftmost(UsableClean) IN
       /\ MakeDirty(clean[client][i])
       /\ clean' = [clean EXCEPT ![client] = Without(@, {i})]
       /\ covered' = [covered EXCEPT ![client] = Uncovered(client, {i})]
       /\ IF UncoverFails(client, {i})
          THEN pc' = "error" /\ UNCHANGED client
          ELSE NextClient("assign", "stream")
  /\ UNCHANGED <<cur_time, valid_after, network, needs, todo, port, stream,
                 streams>>

\* ... else a new circuit made for the stream.
AssignToNew ==
  /\ pc = "assign"
  /\ UsableDirty = {} /\ UsableClean = {}
  /\ \E circuit \in NewCircuits(stream.time, PortOf[stream.dest] \in LongLived,
                        {r \in Relay : stream.dest \in policy[r].accepts}) :
       MakeDirty(circuit)
  /\ NextClient("assign", "stream")
  /\ UNCHANGED <<cur_time, valid_after, network, needs, clean, covered, todo,
                 port, stream, streams>>

EndOfMinute ==
  /\ pc = "stream"
  /\ cur_time' = cur_time + TimeStep
  /\ pc' = IF cur_time + TimeStep < fresh_until THEN "minute"
           ELSE IF cur_time + TimeStep < Horizon THEN "period" ELSE "done"
  /\ UNCHANGED <<valid_after, network, needs, pool, loop, trace>>

Stopped == pc \in {"done", "error"} /\ UNCHANGED vars
-----------------------------------------------------------------------------
Next ==
  \/ NextConsensus \/ GapInConsensuses
  \/ timed_updates \/ KillCircuits
  \/ (\E p \in Port : LookAtNeed(p)) \/ CoverNeed \/ ClientUpdated
  \/ TakeStream \/ AssignToDirty \/ AssignToClean \/ AssignToNew
  \/ EndOfMinute \/ Stopped

Spec == Init /\ [][Next]_vars

\* The program does not stop of itself.
FairSpec == Spec /\ WF_vars(Next)
-----------------------------------------------------------------------------
(* Properties.                                                             *)

\* Every variable keeps its type: both deques hold circuits, and the books of
\* each client are counts or absent.
TypeOK ==
  /\ cur_time \in Nat /\ valid_after \in Nat /\ gap \in BOOLEAN
  /\ up \in SUBSET Relay /\ stable \in SUBSET Relay
  /\ policy \in [Relay -> Policy]
  /\ hibernating \in SUBSET Relay
  /\ needs \in [Port -> Need \cup {None}]
  /\ covered \in [Client -> [Port -> Nat \cup {None}]]
  /\ DOMAIN clean = Client /\ DOMAIN dirty = Client
  /\ \A c \in Client : IsDeque(clean[c]) /\ IsDeque(dirty[c])
  /\ pc \in Phase
  /\ client \in Client
  /\ todo \in SUBSET Port /\ port \in Port \cup {None}
  /\ stream \in Stream \cup {None}
  /\ served \in [Client -> Nat \cup {None}]
  /\ streams \in Nat

\* The books are exact: every client counts exactly the needed ports, and the
\* count for each is the number of its clean circuits that cover the port. So
\* uncover_circuit_ports() never meets an unknown port and no count goes
\* negative, whichever of its callers removes the circuit.
CoverCountsExact ==
  /\ pc # "error"
  /\ \A c \in Client : \A p \in Port :
       IF needs[p] = None
       THEN /\ covered[c][p] = None
            /\ \A i \in DOMAIN clean[c] : p \notin clean[c][i].covering
       ELSE covered[c][p] = CoverCount(clean[c], DOMAIN clean[c], p)

\* "circuit vars are ordered by increasing time since create or dirty": what
\* the loops that pop old circuits from the right rely on. A circuit is dirty
\* exactly when it is among the dirty ones.
DequesOrdered ==
  \A c \in Client :
    /\ \A i \in DOMAIN clean[c] :
         /\ clean[c][i].dirty_time = None
         /\ \A j \in DOMAIN clean[c] : j < i => clean[c][j].time <= clean[c][i].time
    /\ \A i \in DOMAIN dirty[c] :
         /\ dirty[c][i].dirty_time # None
         /\ dirty[c][i].time <= dirty[c][i].dirty_time
         /\ \A j \in DOMAIN dirty[c] :
              j < i => dirty[c][j].dirty_time <= dirty[c][i].dirty_time

\* When streams are assigned no circuit is past its age limit or runs through a
\* relay that is down or asleep, for any client.
OnlyLiveCircuits ==
  pc \in {"stream", "assign"} =>
    \A c \in Client :
      /\ \A i \in DOMAIN clean[c] :
           /\ clean[c][i].time > cur_time - IdleTimeout
           /\ RelaysOf(clean[c][i]) \subseteq up \ hibernating
      /\ \A i \in DOMAIN dirty[c] :
           /\ dirty[c][i].dirty_time > cur_time - MaxDirtiness
           /\ RelaysOf(dirty[c][i]) \subseteq up \ hibernating

\* Once all clients are updated, and before a stream takes circuits away, each
\* need has its port_need_cover_num circuits, or the client holds exactly
\* max_unused_open_circuits clean ones: the limit is neither missed nor passed.
NeedsCovered ==
  (pc = "stream" /\ (stream = None \/ stream.time < cur_time)) =>
    \A c \in Client : \A p \in Port :
      needs[p] # None =>
        \/ covered[c][p] >= CoverNum
        \/ Cardinality(DOMAIN clean[c]) = MaxUnused

\* A stream runs, for each client, on a dirty circuit that can carry it: young
\* enough at the stream's time, stable if the port needs it, its exit willing
\* and its relays alive. Nobody is left out when the next stream is taken.
StreamServed ==
  /\ (pc = "stream" /\ stream # None /\ stream.time >= cur_time) =>
       \A c \in Client : served[c] # None
  /\ pc \in {"stream", "assign"} =>
       \A c \in Client : served[c] # None /\ stream.time >= cur_time =>
         /\ served[c] \in DOMAIN dirty[c]
         /\ LET circuit == dirty[c][served[c]] IN
              /\ circuit.dirty_time > stream.time - MaxDirtiness
              /\ circuit.dirty_time <= stream.time
              /\ circuit_supports_stream(circuit, stream.dest)
              /\ RelaysOf(circuit) \subseteq up \ hibernating

\* A circuit covers the ports "with needs covered by circuit".
CoveringIsServable ==
  \A c \in Client : \A i \in DOMAIN clean[c] :
    \A p \in clean[c][i].covering :
      needs[p] # None => circuit_covers_port_need(clean[c][i], p, needs[p])

\* The simulation ends: no loop on needs, circuits, minutes or periods goes on
\* for ever.
Finishes == <>(pc = "done")
=============================================================================
