----------------------------- MODULE PathSelection -----------------------------
(***************************************************************************)
(* One client's entry-guard list and the construction of one circuit at a  *)
(* time, as pathsim.py does it: period_client_update() revises the list    *)
(* when a consensus arrives, create_circuit() picks an exit, then a guard  *)
(* (get_guards_for_circ(), get_new_guard()), then a middle, and starts     *)
(* over when no relay of the path speaks ntor.                             *)
(*                                                                         *)
(* Random selection by bandwidth weight is nondeterministic choice, and a  *)
(* rejection-sampling loop is the choice of a relay that passes its test.  *)
(* One unit of time is whatever the constants say; all of the code's       *)
(* thresholds are constants.                                               *)
(***************************************************************************)
EXTENDS Integers, FiniteSets, Sequences

CONSTANTS
  Relay,               \* fingerprints of the relays
  Address,             \* the relays' addresses, each a sequence of characters up
                       \* to its second dot: what follows is never looked at
  NetworkState,        \* the consensus periods that may be read from files
  HibernationState,    \* the sets of relays that may hibernate together
  None,                \* Python's None, and "absent" for a dictionary key
  NumGuards,           \* TorOptions.num_guards
  MinNumGuards,        \* TorOptions.min_num_guards
  ExpirationMin,       \* TorOptions.guard_expiration_min
  ExpirationMax,       \* TorOptions.guard_expiration_max
  GuardDownTime,       \* TorOptions.guard_down_time
  RetryAge,            \* the ages at which the retry schedule slows down
  RetryWait,           \* the wait in each of the four bands of the schedule
  MaxPopulateAttempts, \* TorOptions.max_populate_attempts
  PeriodLength,        \* fresh_until - valid_after of every consensus
  StartTime,           \* valid_after of the first consensus
  Horizon              \* fresh_until of the last consensus

VARIABLES
  time,            \* the time of the next circuit request
  valid_after,     \* cons_valid_after of the current period
  gap,             \* whether the period repeats an old consensus
  cons_rel_stats,  \* relay -> its flags, {} when not in the consensus
  descriptors,     \* relay -> the last descriptor seen, None when never seen
  hibernating,     \* the relays whose hibernating_status is True
  guards,          \* relay -> its record in the guard list, None when absent
  pc,              \* the point create_circuit() has reached
  request,         \* circ_fast and circ_stable of the circuit being made
  attempts,        \* num_attempts of create_circuit()
  exit,            \* exit_node of the attempt
  to_add,          \* iterations left in get_guards_for_circ()'s first loop
  usable,          \* guards_for_circ
  entry,           \* guard_node once a guard answered
  middle           \* middle_node of the finished path

network == <<cons_rel_stats, descriptors, hibernating>>
clock   == <<time, valid_after, gap>>
build   == <<request, attempts, exit, to_add, usable, entry, middle>>
vars    == <<network, clock, guards, pc, build>>

Flag == {"Running", "Valid", "Guard", "Fast", "Stable", "BadExit"}

Descriptor == [family : SUBSET Relay, address : Address, ntor : BOOLEAN]

GuardRecord ==
  [expires           : Nat,
   bad_since         : Nat \cup {None},
   unreachable_since : Nat \cup {None},
   last_attempted    : Nat,
   made_contact      : BOOLEAN]

\* A relay without an entry has no flags: every test of the code treats it as
\* it treats an entry that has none.
RelStats    == [Relay -> SUBSET Flag]
Descriptors == [Relay -> Descriptor \cup {None}]

ASSUME AddressAssumption == Address \subseteq Seq(STRING)

ASSUME NoneAssumption ==
  /\ None \notin Nat
  /\ None \notin Descriptor
  /\ None \notin GuardRecord
  /\ None \notin Relay

\* get_network_state() keeps only the relays that come with a descriptor.
ASSUME NetworkAssumption ==
  /\ NetworkState \subseteq [rel_stats : RelStats, descriptors : Descriptors]
  /\ NetworkState # {}
  /\ \A ns \in NetworkState : \A r \in Relay :
       ns.descriptors[r] = None => ns.rel_stats[r] = {}
  /\ HibernationState \subseteq SUBSET Relay
  /\ IsFiniteSet(Relay)

ASSUME OptionAssumption ==
  /\ NumGuards \in Nat \ {0} /\ MinNumGuards \in 1..NumGuards
  /\ ExpirationMin \in Nat /\ ExpirationMax \in Nat
  /\ ExpirationMin <= ExpirationMax
  /\ GuardDownTime \in Nat
  /\ RetryAge \in [1..3 -> Nat] /\ RetryWait \in [1..4 -> Nat]
  /\ MaxPopulateAttempts \in Nat \ {0}
  /\ PeriodLength \in Nat \ {0}
  /\ StartTime \in Nat /\ Horizon \in Nat

\* A period's length is short of the shortest guard lifetime (an hour against
\* sixty days) and of the time a guard may be down (an hour against thirty).
ASSUME PeriodAssumption ==
  /\ PeriodLength < ExpirationMin
  /\ PeriodLength < GuardDownTime

Phase == {"idle", "exit", "guards", "quota", "fill", "middle", "built",
          "done", "error"}
-----------------------------------------------------------------------------
(* Tests on relays and guards.                                             *)

fresh_until == valid_after + PeriodLength

HasFlags(stats, r, flags) == flags \subseteq stats[r]

\* A guard is up when its consensus entry is Running and has the Guard flag.
IsUp(stats, r) == HasFlags(stats, r, {"Running", "Guard"})

in_same_family(r, s) ==
  s \in descriptors[r].family /\ r \in descriptors[s].family

\* Only the characters of r's address are looked at, and not its dots: the test
\* is true of 10.1 and 10.10 in this order, and false in the other.
in_same_16_subnet(r, s) ==
  LET a == descriptors[r].address
      b == descriptors[s].address
  IN  \A i \in 1..Len(a) : a[i] # "." => i <= Len(b) /\ a[i] = b[i]

Conflict(r, s) == r = s \/ in_same_family(r, s) \/ in_same_16_subnet(r, s)

\* What the tests are for: the same relay, family or /16 network.
Related(r, s) ==
  \/ r = s
  \/ in_same_family(r, s)
  \/ descriptors[r].address = descriptors[s].address

\* The flags a relay needs in any position of the requested circuit.
RequestFlags ==
  {"Running"} \cup (IF request.fast THEN {"Fast"} ELSE {})
              \cup (IF request.stable THEN {"Stable"} ELSE {})

Listed == {r \in Relay : guards[r] # None}

RetryInterval(age) ==
  IF age < RetryAge[1] THEN RetryWait[1]
  ELSE IF age < RetryAge[2] THEN RetryWait[2]
  ELSE IF age < RetryAge[3] THEN RetryWait[3]
  ELSE RetryWait[4]

\* Mutant of guard_is_time_to_retry: measured from when the guard was lost.
TimeToRetrySinceLoss(g) ==
  time > g.unreachable_since + RetryInterval(time - g.unreachable_since)

guard_is_time_to_retry(g) ==
  \/ g.last_attempted < g.unreachable_since
  \/ time > g.last_attempted + RetryInterval(time - g.unreachable_since)

Reachable(g) == g.unreachable_since = None \/ guard_is_time_to_retry(g)

LiveGuards ==
  {r \in Listed : /\ guards[r].bad_since = None
                  /\ descriptors[r] # None
                  /\ Reachable(guards[r])}

\* A guard not marked bad must be in the consensus: the code raises otherwise.
guard_filter_for_circ(r, g) ==
  /\ g.bad_since = None
  /\ HasFlags(cons_rel_stats, r, RequestFlags \ {"Running"})
  /\ Reachable(g)
  /\ ~Conflict(exit, r)
-----------------------------------------------------------------------------
(* The guard list across a change of consensus.                            *)

\* Mutants of GuardAfterPeriod: a guard that came back stays marked bad; a guard
\* may live through the start of the period in which it expires.
BadForGood(r, stats, valid) ==
  LET g   == guards[r]
      bad == IF g.bad_since = None /\ ~IsUp(stats, r) THEN valid ELSE g.bad_since
  IN  IF \/ g = None
         \/ bad # None /\ valid + PeriodLength - bad >= GuardDownTime
         \/ g.expires <= valid
      THEN None
      ELSE [g EXCEPT !.bad_since = bad]

ExpiresLate(r, stats, valid) ==
  LET g   == guards[r]
      bad == IF IsUp(stats, r) THEN None
             ELSE IF g.bad_since = None THEN valid ELSE g.bad_since
  IN  IF \/ g = None
         \/ bad # None /\ valid + PeriodLength - bad >= GuardDownTime
         \/ g.expires < valid
      THEN None
      ELSE [g EXCEPT !.bad_since = bad]

\* The record of guard r after period_client_update(), None when removed.
GuardAfterPeriod(r, stats, valid) ==
  LET g   == guards[r]
      bad == IF IsUp(stats, r) THEN None
             ELSE IF g.bad_since = None THEN valid ELSE g.bad_since
  IN  IF \/ g = None
         \/ bad # None /\ valid + PeriodLength - bad >= GuardDownTime
         \/ g.expires <= valid
      THEN None
      ELSE [g EXCEPT !.bad_since = bad]

period_client_update(stats, valid) ==
  guards' = [r \in Relay |-> GuardAfterPeriod(r, stats, valid)]

\* descriptors.update(): the old descriptor stays when the period has none.
UpdatedDescriptors(new) ==
  [r \in Relay |-> IF new[r] = None THEN descriptors[r] ELSE new[r]]

Init ==
  /\ time = StartTime /\ valid_after = StartTime /\ gap = FALSE
  /\ \E ns \in NetworkState : /\ cons_rel_stats = ns.rel_stats
                              /\ descriptors = ns.descriptors
  /\ hibernating \in HibernationState
  /\ guards = [r \in Relay |-> None]
  /\ pc = "idle"
  /\ request = [fast |-> TRUE, stable |-> FALSE]
  /\ attempts = 0 /\ exit = None /\ to_add = 0 /\ usable = {}
  /\ entry = None /\ middle = None

AdvancePeriod ==
  /\ pc = "idle"
  /\ fresh_until < Horizon
  /\ valid_after' = fresh_until
  /\ time' = fresh_until
  /\ UNCHANGED <<pc, build>>

\* The next consensus is read; its statuses replace hibernating_status.
NextConsensus ==
  /\ AdvancePeriod
  /\ gap' = FALSE
  /\ \E ns \in NetworkState :
       /\ cons_rel_stats' = ns.rel_stats
       /\ descriptors' = UpdatedDescriptors(ns.descriptors)
       /\ period_client_update(ns.rel_stats, fresh_until)
  /\ hibernating' \in HibernationState

\* A missing consensus: the old one is used for another period, without any
\* status changes.
GapInConsensuses ==
  /\ AdvancePeriod
  /\ gap' = TRUE
  /\ period_client_update(cons_rel_stats, fresh_until)
  /\ UNCHANGED network

\* Time passes within the period, and relays enter or leave hibernation.
Tick ==
  /\ pc = "idle"
  /\ time + 1 < fresh_until
  /\ time' = time + 1
  /\ hibernating' \in IF gap THEN {hibernating} ELSE HibernationState
  /\ UNCHANGED <<valid_after, gap, cons_rel_stats, descriptors, guards, pc, build>>
-----------------------------------------------------------------------------
(* create_circuit().                                                       *)

RequestCircuit ==
  /\ pc = "idle"
  /\ \E f \in BOOLEAN, s \in BOOLEAN : request' = [fast |-> f, stable |-> s]
  /\ pc' = "exit"
  /\ UNCHANGED <<network, clock, guards, attempts, exit, to_add, usable, entry,
                 middle>>

\* exit_filter(), without the exit policy, which only narrows the choice.
CanBeExit(r) ==
  /\ HasFlags(cons_rel_stats, r, RequestFlags \cup {"Valid"})
  /\ "BadExit" \notin cons_rel_stats[r]
  /\ r \notin hibernating

SelectExit(r) ==
  /\ pc = "exit"
  /\ CanBeExit(r)
  /\ exit' = r
  /\ pc' = "guards"
  /\ UNCHANGED <<network, clock, guards, request, attempts, to_add, usable,
                 entry, middle>>

\* Mutant of Shortfall: one guard too few.
ShortfallLessOne ==
  IF Cardinality(Listed) < NumGuards
  THEN NumGuards - Cardinality(LiveGuards) - 1
  ELSE 0

\* The number of guards get_guards_for_circ() first adds to a short list.
Shortfall ==
  IF Cardinality(Listed) < NumGuards
  THEN NumGuards - Cardinality(LiveGuards)
  ELSE 0

CountGuards ==
  /\ pc = "guards"
  /\ to_add' = Shortfall
  /\ pc' = "quota"
  /\ UNCHANGED <<network, clock, guards, request, attempts, exit, usable,
                 entry, middle>>

\* Mutant of CanBeNewGuard: a new guard only has to be another relay.
CanBeAnyGuard(r) ==
  /\ HasFlags(cons_rel_stats, r, {"Running", "Valid", "Guard"})
  /\ descriptors[r] # None
  /\ r \notin Listed

\* filter_guards(), and get_new_guard()'s test against the present list.
CanBeNewGuard(r) ==
  /\ HasFlags(cons_rel_stats, r, {"Running", "Valid", "Guard"})
  /\ descriptors[r] # None
  /\ \A g \in Listed : ~Conflict(g, r)

NewGuard(lifetime) ==
  [expires           |-> time + lifetime,
   bad_since         |-> None,
   unreachable_since |-> None,
   last_attempted    |-> 0,
   made_contact      |-> FALSE]

AddGuard(r) ==
  /\ CanBeNewGuard(r)
  /\ \E lifetime \in ExpirationMin..ExpirationMax :
       guards' = [guards EXCEPT ![r] = NewGuard(lifetime)]

AddQuotaGuard(r) ==
  /\ pc = "quota"
  /\ to_add > 0
  /\ AddGuard(r)
  /\ to_add' = to_add - 1
  /\ UNCHANGED <<network, clock, pc, request, attempts, exit, usable, entry,
                 middle>>

FilterGuards ==
  /\ pc = "quota"
  /\ to_add = 0
  /\ usable' = {r \in Listed : guard_filter_for_circ(r, guards[r])}
  /\ pc' = "fill"
  /\ UNCHANGED <<network, clock, guards, request, attempts, exit, to_add,
                 entry, middle>>

\* The new guard joins the list even when the circuit cannot use it.
AddCircuitGuard(r) ==
  /\ pc = "fill"
  /\ Cardinality(usable) < MinNumGuards
  /\ AddGuard(r)
  /\ usable' = IF guard_filter_for_circ(r, guards'[r])
               THEN usable \cup {r} ELSE usable
  /\ UNCHANGED <<network, clock, pc, request, attempts, exit, to_add, entry,
                 middle>>

\* choice(circ_guards): the slice [0:num_guards] of a list in dictionary order
\* leaves any usable guard possible.
Choose(r) ==
  /\ pc = "fill"
  /\ Cardinality(usable) >= MinNumGuards
  /\ r \in usable

\* Mutants of DropNewGuard: guards that answered before go too; or none goes.
DropAnyGuard(r) ==
  /\ Choose(r)
  /\ r \in hibernating
  /\ guards' = [guards EXCEPT ![r] = None]
  /\ pc' = "guards"
  /\ UNCHANGED <<network, clock, build>>

KeepNewGuard(r) ==
  /\ Choose(r)
  /\ r \in hibernating
  /\ ~guards[r].made_contact
  /\ pc' = "guards"
  /\ UNCHANGED <<network, clock, guards, build>>

\* A hibernating guard that never answered is forgotten.
DropNewGuard(r) ==
  /\ Choose(r)
  /\ r \in hibernating
  /\ ~guards[r].made_contact
  /\ guards' = [guards EXCEPT ![r] = None]
  /\ pc' = "guards"
  /\ UNCHANGED <<network, clock, build>>

\* A hibernating guard that answered before is kept, marked and timed.
GuardUnreachable(r) ==
  /\ Choose(r)
  /\ r \in hibernating
  /\ guards[r].made_contact
  /\ guards' = [guards EXCEPT
       ![r].unreachable_since = IF @ = None THEN time ELSE @,
       ![r].last_attempted = time]
  /\ pc' = "guards"
  /\ UNCHANGED <<network, clock, build>>

GuardAnswers(r) ==
  /\ Choose(r)
  /\ r \notin hibernating
  /\ guards' = [guards EXCEPT ![r].unreachable_since = None,
                              ![r].made_contact = TRUE]
  /\ entry' = r
  /\ pc' = "middle"
  /\ UNCHANGED <<network, clock, request, attempts, exit, to_add, usable, middle>>

\* Mutant of CanBeMiddle: related to the guard or not.
CanBeMiddleForExit(r) ==
  /\ HasFlags(cons_rel_stats, r, RequestFlags)
  /\ ~Conflict(exit, r)
  /\ r \notin hibernating

\* middle_filter(), and the hibernation test of create_circuit().
CanBeMiddle(r) ==
  /\ HasFlags(cons_rel_stats, r, RequestFlags)
  /\ ~Conflict(exit, r)
  /\ ~Conflict(entry, r)
  /\ r \notin hibernating

circuit_supports_ntor(m) == \E r \in {entry, m, exit} : descriptors[r].ntor

FinishCircuit(m) ==
  /\ pc = "middle"
  /\ CanBeMiddle(m)
  /\ circuit_supports_ntor(m)
  /\ middle' = m
  /\ pc' = "built"
  /\ UNCHANGED <<network, clock, guards, request, attempts, exit, to_add, usable,
                 entry>>

\* The circuit <<entry, middle, exit>> is handed out and the locals are gone.
ReturnCircuit ==
  /\ pc = "built"
  /\ request' = [fast |-> TRUE, stable |-> FALSE]
  /\ attempts' = 0 /\ exit' = None /\ to_add' = 0 /\ usable' = {}
  /\ entry' = None /\ middle' = None
  /\ pc' = "idle"
  /\ UNCHANGED <<network, clock, guards>>

\* Without an ntor relay the path is thrown away, the guard list is not.
DiscardPath(m) ==
  /\ pc = "middle"
  /\ CanBeMiddle(m)
  /\ ~circuit_supports_ntor(m)
  /\ attempts' = attempts + 1
  /\ pc' = IF attempts + 1 < MaxPopulateAttempts THEN "exit" ELSE "error"
  /\ UNCHANGED <<network, clock, guards, request, exit, to_add, usable, entry,
                 middle>>

EndOfSimulation ==
  /\ pc = "idle"
  /\ time + 1 = fresh_until /\ fresh_until >= Horizon
  /\ pc' = "done"
  /\ UNCHANGED <<network, clock, guards, build>>

Stopped == pc \in {"done", "error"} /\ UNCHANGED vars
-----------------------------------------------------------------------------
GuardStep(r) ==
  \/ AddQuotaGuard(r) \/ AddCircuitGuard(r)
  \/ DropNewGuard(r) \/ GuardUnreachable(r) \/ GuardAnswers(r)

RelayStep(r) ==
  SelectExit(r) \/ GuardStep(r) \/ FinishCircuit(r) \/ DiscardPath(r)

Build ==
  CountGuards \/ FilterGuards \/ ReturnCircuit \/ \E r \in Relay : RelayStep(r)

Next ==
  \/ NextConsensus \/ GapInConsensuses \/ Tick
  \/ RequestCircuit \/ Build
  \/ EndOfSimulation \/ Stopped

Spec == Init /\ [][Next]_vars

\* The program does not stop inside create_circuit(), and every random draw has
\* a positive chance for each candidate: a relay that can be drawn as a new guard,
\* or chosen and found awake, again and again, is so at last.
Fairness ==
  /\ WF_vars(Build)
  /\ \A r \in Relay :
       /\ SF_vars(AddQuotaGuard(r) \/ AddCircuitGuard(r))
       /\ SF_vars(GuardAnswers(r))

FairSpec == Spec /\ Fairness
-----------------------------------------------------------------------------
(* Properties.                                                             *)

\* Every variable keeps its type, the guard records included.
TypeOK ==
  /\ time \in Nat /\ valid_after \in Nat /\ gap \in BOOLEAN
  /\ cons_rel_stats \in RelStats
  /\ descriptors \in Descriptors
  /\ hibernating \in SUBSET Relay
  /\ guards \in [Relay -> GuardRecord \cup {None}]
  /\ pc \in Phase
  /\ request \in [fast : BOOLEAN, stable : BOOLEAN]
  /\ attempts \in Nat /\ to_add \in Nat
  /\ usable \in SUBSET Relay
  /\ exit \in Relay \cup {None}
  /\ entry \in Relay \cup {None} /\ middle \in Relay \cup {None}

\* A guard counts as good exactly while the consensus in force lists it as a
\* Running guard, and its descriptor is known even after it left: so
\* guard_filter_for_circ() never raises and no descriptor lookup fails,
\* through any sequence of consensuses, gaps and additions.
GuardsTrackConsensus ==
  \A r \in Listed :
    /\ guards[r].bad_since = None <=> IsUp(cons_rel_stats, r)
    /\ descriptors[r] # None

\* No guard outlives its limits: at any time in a period its expiration lies
\* beyond the period's start, and a bad guard has not been bad for
\* guard_down_time when the period ends.
GuardLifetimes ==
  \A r \in Listed :
    LET g == guards[r] IN
    /\ g.expires > valid_after
    /\ g.expires <= time + ExpirationMax
    /\ g.bad_since # None =>
         /\ g.bad_since <= valid_after
         /\ fresh_until - g.bad_since < GuardDownTime

\* Only a guard that answered once is ever marked unreachable, and the mark is
\* no later than the last attempt, which is not in the future. The first test
\* of guard_is_time_to_retry() is therefore never the one that allows a retry.
RetryRecord ==
  \A r \in Listed :
    LET g == guards[r] IN
    /\ g.last_attempted <= time
    /\ g.unreachable_since # None =>
         /\ g.made_contact
         /\ g.unreachable_since <= g.last_attempted

\* From the moment the guards of a circuit are filtered the list holds at
\* least num_guards guards, whatever was removed before.
QuotaFilled ==
  pc \in {"fill", "middle", "built"} => Cardinality(Listed) >= NumGuards

\* A finished path uses three relays that are running, awake, fast and stable
\* as requested, and pairwise unrelated; one speaks ntor; and its first relay
\* is a listed guard recorded as contacted and reachable.
PathSound ==
  pc = "built" =>
    /\ \A r \in {entry, middle, exit} :
         HasFlags(cons_rel_stats, r, RequestFlags) /\ r \notin hibernating
    /\ ~Related(entry, middle) /\ ~Related(entry, exit)
    /\ ~Related(middle, exit)
    /\ \E r \in {entry, middle, exit} : descriptors[r].ntor
    /\ guards[entry] # None
    /\ guards[entry].made_contact
    /\ guards[entry].unreachable_since = None
    /\ guards[entry].bad_since = None

KeepsContactedGuards ==
  \A r \in Relay :
    (guards[r] # None /\ guards[r].made_contact /\ guards'[r] = None) =>
      /\ valid_after' > valid_after
      /\ guards[r].expires <= valid_after' \/ ~IsUp(cons_rel_stats', r)

\* A guard that answered once leaves the list only when a period begins, because
\* it expired or is no longer up: hibernation never makes a client rotate guards.
ContactedGuardsKept == [][KeepsContactedGuards]_vars

\* An attempt on an unreachable guard sets or clears one of its two times.
SpacesRetries ==
  \A r \in Relay :
    LET g == guards[r]
        h == guards'[r]
    IN  (/\ g # None /\ h # None
         /\ g.unreachable_since # None
         /\ \/ h.unreachable_since # g.unreachable_since
            \/ h.last_attempted # g.last_attempted) =>
          time > g.last_attempted + RetryInterval(time - g.unreachable_since)

\* An unreachable guard is tried again, with success or without, only after the
\* interval the schedule sets for the time it has been unreachable.
RetriesAreSpaced == [][SpacesRetries]_vars

AddsUnrelatedGuards ==
  descriptors' = descriptors =>
    \A r, s \in Listed' :
      (r # s /\ Related(r, s)) => r \in Listed /\ s \in Listed

\* Two listed guards become related (same family, same /16) only because a
\* consensus brought new descriptors, never because one of them was added.
GuardsUnrelatedWhenAdded == [][AddsUnrelatedGuards]_vars

\* Every circuit that is begun gets built, or fails for want of an ntor relay:
\* neither the rejection sampling nor the guard loop goes on for ever.
BuildEnds == pc = "exit" ~> pc \in {"built", "error"}
=============================================================================
