--------------------------- MODULE ConsensusPeriods ---------------------------
(***************************************************************************)
(* The network states a simulation goes through: the files written by      *)
(* ConsensusProcessing are read in order, gaps between them are filled,    *)
(* relays are inserted (network_modifiers.py), and create_circuits() in    *)
(* pathsim.py keeps each relay's hibernation status minute by minute.      *)
(* What clients do with it is left to PathSelection and CircuitPool.       *)
(***************************************************************************)
EXTENDS ConsensusProcessing, FiniteSets, FiniteSetsExt

CONSTANTS
  Hour,       \* 3600
  Minute,     \* time_step
  Files,      \* the consensuses simulations run over, in the order of their names
  Adversary,  \* the relays AdversaryInsertion adds
  adv_time    \* from when on

ASSUME TimeAssumption ==
  Hour \in Time /\ Minute \in Time /\ Hour % Minute = 0 /\ adv_time \in Nat
ASSUME AdversaryAssumption ==
  /\ IsFiniteSet(Adversary) /\ Adversary \cap Relay = {} /\ None \notin Adversary
  /\ None \notin BOOLEAN
ASSUME FilesAssumption ==
  /\ Files \subseteq Seq(Consensus)
  /\ \A f \in Files : \A i, j \in DOMAIN f :
       j <= i => f[j].valid_after <= f[i].valid_after

VARIABLES
  phase,               \* where create_circuits() is
  files,               \* the network state files, sorted by name
  index,               \* the file read last
  filled,              \* hours filled since
  cons_valid_after,    \* of the period
  cons_fresh_until,
  cons_rel_stats,      \* the relays of the consensus in force
  descriptors,         \* the relays whose descriptors are known
  hibernating_list,    \* status changes to come, latest first
  hibernating_status,  \* relay -> whether it hibernates, None for an absent key
  first_modification,  \* no network state was modified yet
  cur_period_end,
  cur_time

period  == <<cons_valid_after, cons_fresh_until, cur_period_end, cur_time>>
state   == <<cons_rel_stats, descriptors, hibernating_list, hibernating_status,
             first_modification>>
reading == <<files, index, filled>>
vars    == <<processing, phase, reading, period, state>>

Fingerprint == Relay \cup Adversary

Init ==
  /\ InitProcessing
  /\ phase = "start"
  /\ files \in Files
  /\ index = 0 /\ filled = 0
  /\ cons_valid_after = 0 /\ cons_fresh_until = 0
  /\ cons_rel_stats = {} /\ descriptors = {}
  /\ hibernating_list = <<>>
  /\ hibernating_status = [r \in Fingerprint |-> None]
  /\ first_modification = TRUE
  /\ cur_period_end = None /\ cur_time = 0
-----------------------------------------------------------------------------
(* pad_network_state_files().                                              *)

\* From the date in a file's name to that in the next one's.
Distance(i) == files[i + 1].valid_after - files[i].valid_after

\* A distance that is not a number of hours stops the program.
PadFiles ==
  /\ phase = "start"
  /\ phase' = IF \A i \in 1..Len(files) - 1 : Distance(i) % Hour = 0
              THEN "between" ELSE "error"
  /\ UNCHANGED <<processing, reading, period, state>>

\* Mutant of MissingHours: an hour too many.
HoursBetween == IF index \in 1..Len(files) - 1 THEN Distance(index) \div Hour ELSE 0

\* The gaps put before the next file.
MissingHours ==
  IF index \in 1..Len(files) - 1 /\ Distance(index) > 0
  THEN Distance(index) \div Hour - 1 ELSE 0
-----------------------------------------------------------------------------
(* Processing.  All files are written before a simulation; here each is    *)
(* written when it is its turn, which nobody can tell.                     *)

Process ==
  /\ phase = "between"
  /\ filled = MissingHours
  /\ \/ index < Len(files) /\ OpenConsensus(files[index + 1])
     \/ ProcessRouter
  /\ UNCHANGED <<phase, reading, period, state>>

\* sort() is stable: entries of one time stay in the order they were noted.
Precedes(i, j) ==
  LET s == hibernating_statuses IN
  s[i].time > s[j].time \/ (s[i].time = s[j].time /\ i < j)

Place(i) == Cardinality({j \in DOMAIN hibernating_statuses : Precedes(j, i)}) + 1

\* The statuses in the file, latest first.
Sorted ==
  [k \in DOMAIN hibernating_statuses |->
     hibernating_statuses[CHOOSE i \in DOMAIN hibernating_statuses : Place(i) = k]]
-----------------------------------------------------------------------------
(* Statuses are popped from the right end up to the first that is later.   *)

\* Mutant of Staying: a change takes effect after its minute.
StayingLonger(list, now) ==
  Max({0} \cup {i \in DOMAIN list : list[i].time >= now})

\* The length of the list after popping up to the time now.
Staying(list, now) ==
  Max({0} \cup {i \in DOMAIN list : list[i].time > now})

\* The statuses after popping: of several of one relay the last popped stands.
AfterPopping(status, list, now) ==
  [r \in Fingerprint |->
     LET popped == {i \in Staying(list, now) + 1..Len(list) : list[i].relay = r} IN
     IF popped = {} THEN status[r] ELSE list[Min(popped)].hibernating]

\* set_initial_hibernating_status() and the end of timed_updates() do the same.
PopStatuses(status, list, now) ==
  /\ hibernating_status' = AfterPopping(status, list, now)
  /\ hibernating_list' = SubSeq(list, 1, Staying(list, now))
-----------------------------------------------------------------------------
(* modify_network_state() of AdversaryInsertion.                           *)

Inserted == IF adv_time <= valid_after_ts THEN Adversary ELSE {}

\* A status of time 0 for each inserted relay, in any order.
InsertedStatuses ==
  {[i \in DOMAIN s |-> Entry(0, s[i], FALSE)] :
     s \in {s \in [1..Cardinality(Inserted) -> Inserted] :
              \A i, j \in DOMAIN s : s[i] = s[j] => i = j}}

\* Mutant of NewDescriptors: those of inserted relays are added only by a
\* modification that inserts them.
DescriptorsOfInserted ==
  {r \in Relay : descriptors_out[r] # None} \cup
  (IF first_modification THEN Inserted ELSE {})

\* Descriptors come with the first modification, long before they are needed.
NewDescriptors ==
  {r \in Relay : descriptors_out[r] # None} \cup
  (IF first_modification THEN Adversary ELSE {})
-----------------------------------------------------------------------------
(* The loop of create_circuits() over network states.                      *)

\* Consensus times must follow on each other.
BeginPeriod(start) ==
  IF cur_period_end \in {None, start}
  THEN /\ phase' = "minute"
       /\ cur_period_end' = cons_fresh_until'
       /\ cur_time' = start
  ELSE phase' = "error" /\ UNCHANGED <<cur_period_end, cur_time>>

\* get_network_state() with the modifier, and the beginning of the period.
ReadNetworkState ==
  /\ phase = "between"
  /\ CloseConsensus
  /\ index' = index + 1 /\ filled' = 0
  /\ cons_valid_after' = valid_after_ts
  /\ cons_fresh_until' = fresh_until_ts
  /\ cons_rel_stats' =
       {r \in DOMAIN consensus.published : descriptors_out[r] # None} \cup Inserted
  /\ descriptors' = descriptors \cup NewDescriptors
  /\ first_modification' = FALSE
  /\ BeginPeriod(valid_after_ts)
  /\ \E inserted \in InsertedStatuses :
       PopStatuses([r \in Fingerprint |-> None], Sorted \o inserted, valid_after_ts)
  /\ UNCHANGED files

\* An hour without a consensus: the network stays, and no status changes follow.
FillGap ==
  /\ phase = "between"
  /\ filled < MissingHours
  /\ filled' = filled + 1
  /\ cons_valid_after' = cons_valid_after + Hour
  /\ cons_fresh_until' = cons_fresh_until + Hour
  /\ hibernating_list' = <<>>
  /\ BeginPeriod(cons_valid_after')
  /\ UNCHANGED <<processing, files, index, cons_rel_stats, descriptors,
                 hibernating_status, first_modification>>

\* The statuses of the minute.
timed_updates ==
  /\ phase = "minute"
  /\ PopStatuses(hibernating_status, hibernating_list, cur_time)
  /\ phase' = "updated"
  /\ UNCHANGED <<processing, reading, period, cons_rel_stats, descriptors,
                 first_modification>>

\* Mutant of EndOfMinute: a minute at the very end.
EndAfterLastMinute ==
  /\ phase = "updated"
  /\ cur_time' = cur_time + Minute
  /\ phase' = IF cur_time' <= cur_period_end THEN "minute" ELSE "between"
  /\ UNCHANGED <<processing, reading, cons_valid_after, cons_fresh_until,
                 cur_period_end, state>>

EndOfMinute ==
  /\ phase = "updated"
  /\ cur_time' = cur_time + Minute
  /\ phase' = IF cur_time' < cur_period_end THEN "minute" ELSE "between"
  /\ UNCHANGED <<processing, reading, cons_valid_after, cons_fresh_until,
                 cur_period_end, state>>

Finished == phase = "between" /\ index = Len(files) /\ pc = "closed"

Stopped == (Finished \/ phase = "error") /\ UNCHANGED vars

Next ==
  \/ PadFiles \/ Process \/ ReadNetworkState \/ FillGap
  \/ timed_updates \/ EndOfMinute \/ Stopped

Spec == Init /\ [][Next]_vars
-----------------------------------------------------------------------------
(* Properties.                                                             *)

\* Types.  In particular every minute simulated lies within its period.
PeriodsTypeOK ==
  /\ phase \in {"start", "between", "minute", "updated", "error"}
  /\ index \in 0..Len(files) /\ filled \in 0..MissingHours
  /\ cons_rel_stats \subseteq Fingerprint /\ descriptors \subseteq Fingerprint
  /\ hibernating_list \in
       Seq([time : Nat, relay : Fingerprint, hibernating : BOOLEAN])
  /\ hibernating_status \in [Fingerprint -> BOOLEAN \cup {None}]
  /\ first_modification \in BOOLEAN
  /\ cur_period_end \in Time \cup {None}
  /\ cons_valid_after <= cons_fresh_until
  /\ phase \in {"minute", "updated"} => cur_time \in cons_valid_after..cons_fresh_until - 1

\* Hours are whole and follow on each other: with such files the simulation never
\* stops on a gap or an overlap, so that padding makes exactly the hours missing.
Regular(f) ==
  /\ \A i \in DOMAIN f : f[i].fresh_until = f[i].valid_after + Hour
  /\ \A i \in 1..Len(f) - 1 :
       LET d == f[i + 1].valid_after - f[i].valid_after IN d > 0 /\ d % Hour = 0

RegularFilesPass == Regular(files) => phase # "error"

\* Every relay that can be chosen has a descriptor: descriptors[...] never fails.
DescriptorsKnown == cons_rel_stats \subseteq descriptors

\* The last minute for which the file that was read gives statuses.
LastMinute ==
  LET f == files[index]
      minutes == {t \in f.valid_after..f.fresh_until - 1 :
                    (t - f.valid_after) % Minute = 0} IN
  Max(minutes)

\* In each minute every relay that can be on a circuit has a status, inserted relays
\* included: hibernating_status[...] never fails.  A relay hibernates exactly when its
\* latest descriptor says so, and while a gap is filled, when it did in the last minute
\* before the gap.  Through every order of the pass, sorting, popping and inserting.
StatusesCurrent ==
  phase = "updated" =>
    /\ \A r \in cons_rel_stats : hibernating_status[r] # None
    /\ \A r \in cons_rel_stats \cap Relay :
         hibernating_status[r] = StatusAt(r, Min({cur_time, LastMinute}))

\* "Set empty statuses, even though previous should have been emptied": when a gap
\* is filled, no status change that was still to come is thrown away.
PreviousEmptied == [][FillGap => hibernating_list = <<>>]_vars
=============================================================================
