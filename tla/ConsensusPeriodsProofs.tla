------------------------ MODULE ConsensusPeriodsProofs ------------------------
(***************************************************************************)
(* The simulation's periods process consensuses as ConsensusProcessing     *)
(* says, so what is proved of that module holds here.  Every relay that    *)
(* can be chosen has a descriptor and, minute by minute, the status its    *)
(* history gives it, and files of whole hours pass without an error.       *)
(***************************************************************************)
EXTENDS ConsensusPeriods, ConsensusProcessingProofs, FiniteSetTheorems, WellFoundedInduction

\* The files do not change, and are read one after the other.
FilesInv == files \in Files /\ index \in Nat

LEMMA FilesInit == Init => FilesInv
  BY DEF Init, FilesInv

LEMMA FilesStep == FilesInv /\ [Next]_vars => FilesInv'
<1> SUFFICES ASSUME FilesInv, [Next]_vars PROVE FilesInv'
  OBVIOUS
<1> QED
  BY DEF FilesInv, Next, vars, reading, period, state, PadFiles, Process,
         ReadNetworkState, FillGap, timed_updates, EndOfMinute, Stopped

\* Each step of the simulation is one of processing, or leaves it alone.
LEMMA StepIsProcessing == FilesInv /\ [Next]_vars => [NextProcessing]_processing
<1> SUFFICES ASSUME FilesInv, [Next]_vars PROVE [NextProcessing]_processing
  OBVIOUS
<1>1. CASE Process
  <2>1. CASE index < Len(files) /\ OpenConsensus(files[index + 1])
    <3>1. files \in Seq(Consensus)
      BY FilesAssumption DEF FilesInv
    <3>2. index + 1 \in 1..Len(files)
      BY <2>1, <3>1 DEF FilesInv
    <3>3. files[index + 1] \in Consensus
      BY <3>1, <3>2
    <3> QED BY <2>1, <3>3 DEF NextProcessing
  <2>2. CASE ProcessRouter
    BY <2>2 DEF NextProcessing
  <2> QED BY <1>1, <2>1, <2>2 DEF Process
<1>2. CASE ReadNetworkState
  BY <1>2 DEF ReadNetworkState, NextProcessing
<1>3. CASE PadFiles \/ FillGap \/ timed_updates \/ EndOfMinute \/ Stopped \/ UNCHANGED vars
  BY <1>3 DEF PadFiles, FillGap, timed_updates, EndOfMinute, Stopped, vars
<1> QED BY <1>1, <1>2, <1>3 DEF Next

\* A simulation processes consensuses: every behaviour of the periods, seen through
\* the variables of processing, is one of ConsensusProcessing.
THEOREM PeriodsProcess == Spec => SpecProcessing
<1>1. Init => InitProcessing
  BY DEF Init
<1> QED
  BY <1>1, FilesInit, FilesStep, StepIsProcessing, PTL DEF Spec, SpecProcessing

\* The statuses read into a period tell the relays' histories.
THEOREM PeriodsTellHistory == Spec => []StatusesTellHistory
  BY PeriodsProcess, StatusesAlwaysTellHistory, PTL
-----------------------------------------------------------------------------
\* Descriptors are kept once read, and those of the relays to be inserted came with
\* the first network state that was modified.
DescriptorsInv ==
  /\ DescriptorsKnown
  /\ descriptors \subseteq Fingerprint
  /\ first_modification \in BOOLEAN
  /\ ~ first_modification => Adversary \subseteq descriptors

LEMMA DescriptorsStep == TypeOK /\ DescriptorsInv /\ [Next]_vars => DescriptorsInv'
<1> SUFFICES ASSUME TypeOK, DescriptorsInv, [Next]_vars PROVE DescriptorsInv'
  OBVIOUS
<1>1. CASE ReadNetworkState
  <2>1. /\ cons_rel_stats' =
             {r \in DOMAIN consensus.published : descriptors_out[r] # None} \cup Inserted
        /\ descriptors' = descriptors \cup NewDescriptors
        /\ first_modification' = FALSE
    BY <1>1 DEF ReadNetworkState
  <2>2. Adversary \subseteq descriptors'
    BY <2>1 DEF NewDescriptors, DescriptorsInv
  <2>3. DOMAIN consensus.published \subseteq Relay
    BY <1>1, ConsensusAssumption
    DEF ReadNetworkState, CloseConsensus, Processed, TypeOK, IsDocument
  <2>4. cons_rel_stats' \subseteq descriptors'
    BY <2>1, <2>2, <2>3 DEF NewDescriptors, Inserted
  <2>5. descriptors' \subseteq Fingerprint
    BY <2>1 DEF NewDescriptors, DescriptorsInv, Fingerprint, Inserted
  <2> QED BY <2>1, <2>2, <2>4, <2>5 DEF DescriptorsInv, DescriptorsKnown
<1>2. CASE ~ ReadNetworkState
  BY <1>2 DEF DescriptorsInv, DescriptorsKnown, Next, vars, state, PadFiles, Process,
              FillGap, timed_updates, EndOfMinute, Stopped
<1> QED BY <1>1, <1>2

LEMMA DescriptorsInvHolds == Spec => []DescriptorsInv
<1>1. Init => DescriptorsInv
  BY DEF Init, DescriptorsInv, DescriptorsKnown
<1>2. Spec => []TypeOK
  BY PeriodsProcess, ProcessingTypeCorrect, PTL
<1> QED BY <1>1, <1>2, DescriptorsStep, PTL DEF Spec

\* No relay can be chosen without a descriptor, inserted relays included.
THEOREM DescriptorsAlwaysKnown == Spec => []DescriptorsKnown
<1>1. DescriptorsInv => DescriptorsKnown
  BY DEF DescriptorsInv
<1> QED BY <1>1, DescriptorsInvHolds, PTL
-----------------------------------------------------------------------------
(* Numbers: least elements and multiples.                                  *)

LEMMA Least ==
  ASSUME NEW T, T \subseteq Nat, T # {}
  PROVE  \E x \in T : \A y \in T : x <= y
<1>1. PICK x \in T : \A y \in T : ~ (<<y, x>> \in OpToRel(<, Nat))
  BY NatLessThanWellFounded, WFMin
<1>2. ASSUME NEW y \in T PROVE x <= y
  <2>1. <<y, x>> \in Nat \X Nat /\ ~ (<<y, x>> \in OpToRel(<, Nat))
    BY <1>1
  <2>2. ~ (y < x)
    BY <2>1 DEF OpToRel
  <2>3. x \in Nat /\ y \in Nat
    OBVIOUS
  <2> QED BY <2>2, <2>3
<1> QED BY <1>2

LEMMA MinFacts ==
  ASSUME NEW S, S \subseteq Nat, S # {}
  PROVE  Min(S) \in S /\ \A x \in S : Min(S) <= x
BY Least DEF Min

LEMMA MaxFacts ==
  ASSUME NEW n \in Nat, NEW S, S \subseteq 0..n, S # {}
  PROVE  Max(S) \in S /\ \A x \in S : x <= Max(S)
<1> DEFINE T == {k \in Nat : n - k \in S}
<1>1. T # {}
  <2>1. PICK x \in S : TRUE
    OBVIOUS
  <2>2. n - x \in Nat /\ n - (n - x) = x
    BY <2>1
  <2> QED BY <2>1, <2>2
<1>2. PICK k \in T : \A j \in T : k <= j
  BY <1>1, Least
<1>3. ASSUME NEW x \in S PROVE n - k >= x
  <2>1. x \in 0..n /\ n - x \in Nat /\ n - (n - x) = x
    OBVIOUS
  <2>2. k <= n - x
    BY <1>2, <2>1
  <2> QED BY <2>1, <2>2
<1>4. n - k \in S /\ \A x \in S : n - k >= x
  BY <1>3
<1>5. Max(S) \in S /\ \A x \in S : Max(S) >= x
  BY <1>4 DEF Max
<1> QED BY <1>5

LEMMA Quotient ==
  ASSUME NEW m \in Nat \ {0}, NEW a \in Nat, a % m = 0
  PROVE  a \div m \in Nat /\ a = m * (a \div m) /\ (a > 0 => a \div m >= 1)
OBVIOUS

LEMMA MultipleOf ==
  ASSUME NEW m \in Nat \ {0}, NEW q \in Nat
  PROVE  (m * q) % m = 0
OBVIOUS

LEMMA NextMultiple ==
  ASSUME NEW m \in Nat \ {0}, NEW a \in Nat, a % m = 0
  PROVE  (a + m) % m = 0
<1> DEFINE q == a \div m
<1>1. q \in Nat /\ a = m * q
  BY Quotient
<1>2. a + m = m * (q + 1)
  BY <1>1
<1>3. (m * (q + 1)) % m = 0
  BY <1>1, MultipleOf
<1> QED BY <1>2, <1>3

LEMMA MultiplesApart ==
  ASSUME NEW m \in Nat \ {0}, NEW a \in Nat, a % m = 0, NEW b \in Nat, b % m = 0, a < b
  PROVE  a + m <= b
<1> DEFINE p == a \div m
           q == b \div m
<1>1. p \in Nat /\ a = m * p /\ q \in Nat /\ b = m * q
  BY Quotient
<1>2. m * p < m * q
  BY <1>1
<1> HIDE DEF p, q
<1>3. p < q
  BY <1>1, <1>2
<1>4. m * (q - p - 1) >= 0
  BY <1>1, <1>3
<1>5. m * p + m <= m * q
  BY <1>1, <1>4
<1> QED BY <1>1, <1>5
-----------------------------------------------------------------------------
(* When the simulation is: in which file, in which period, in which minute. *)

Padded == \A i \in 1..Len(files) - 1 : Distance(i) % Hour = 0

Simulating == phase \in {"minute", "updated"}

ReadingInv ==
  /\ phase \in {"start", "between", "minute", "updated", "error"}
  /\ index \in 0..Len(files)
  /\ index > 0 \/ phase = "between" => Padded
  /\ phase = "start" => index = 0
  /\ Simulating => index > 0
  /\ filled \in 0..MissingHours
  /\ pc = "closed" /\ index > 0 => consensus = files[index]
  /\ pc # "closed" => /\ phase = "between" /\ filled = MissingHours
                      /\ index < Len(files) /\ consensus = files[index + 1]

PeriodInv ==
  /\ cur_period_end \in Time \cup {None}
  /\ index = 0 => cons_valid_after = 0 /\ cons_fresh_until = 0 /\ cur_period_end = None
  /\ index > 0 =>
       /\ cons_valid_after = files[index].valid_after + Hour * filled
       /\ cons_fresh_until = files[index].fresh_until + Hour * filled
       /\ phase # "error" => /\ cur_period_end = cons_fresh_until
                             /\ filled > 0 => cons_valid_after >= files[index].fresh_until
  /\ Simulating => /\ cur_time \in cons_valid_after..cons_fresh_until - 1
                   /\ filled = 0 => (cur_time - cons_valid_after) % Minute = 0

LEMMA FileFacts ==
  ASSUME FilesInv
  PROVE  /\ Len(files) \in Nat /\ DOMAIN files = 1..Len(files)
         /\ \A i \in 1..Len(files) :
              /\ files[i].valid_after \in Nat \ {0} /\ files[i].fresh_until \in Nat \ {0}
              /\ files[i].valid_after < files[i].fresh_until
         /\ \A i \in 1..Len(files) - 1 : Distance(i) \in Nat
<1>1. files \in Seq(Consensus)
      /\ \A i, j \in DOMAIN files : j <= i => files[j].valid_after <= files[i].valid_after
  BY FilesAssumption DEF FilesInv
<1>2. Len(files) \in Nat /\ DOMAIN files = 1..Len(files)
      /\ \A i \in 1..Len(files) : files[i] \in Consensus
  BY <1>1, ElementsOfSeq
<1>3. \A i \in 1..Len(files) : IsDocument(files[i])
  BY <1>2, ConsensusAssumption
<1>4. \A i \in 1..Len(files) :
        /\ files[i].valid_after \in Nat \ {0} /\ files[i].fresh_until \in Nat \ {0}
        /\ files[i].valid_after < files[i].fresh_until
  BY <1>3 DEF IsDocument, Time
<1>5. ASSUME NEW i \in 1..Len(files) - 1 PROVE Distance(i) \in Nat
  <2>1. i \in 1..Len(files) /\ i + 1 \in 1..Len(files) /\ i <= i + 1
    BY <1>2
  <2>2. files[i].valid_after <= files[i + 1].valid_after
    BY <1>1, <1>2, <2>1
  <2>3. files[i].valid_after \in Nat /\ files[i + 1].valid_after \in Nat
    BY <1>4, <2>1
  <2> QED BY <2>2, <2>3 DEF Distance
<1> QED BY <1>2, <1>4, <1>5

LEMMA TimeFacts == Hour \in Nat \ {0} /\ Minute \in Nat \ {0}
BY TimeAssumption DEF Time

LEMMA HoursFacts ==
  ASSUME FilesInv, Padded, NEW i \in 1..Len(files) - 1, Distance(i) > 0
  PROVE  /\ Distance(i) \div Hour - 1 \in Nat
         /\ Hour * ((Distance(i) \div Hour - 1) + 1) = Distance(i)
<1>1. Distance(i) \in Nat /\ Distance(i) % Hour = 0
  BY FileFacts DEF Padded
<1>2. PICK q \in Nat : q = Distance(i) \div Hour
  BY <1>1, TimeFacts, Quotient
<1>3. q >= 1 /\ Distance(i) = Hour * q
  BY <1>1, <1>2, TimeFacts, Quotient
<1>4. q >= 1
  BY <1>3
<1>5. q - 1 \in Nat /\ (q - 1) + 1 = q
  BY <1>4
<1> QED BY <1>2, <1>3, <1>5

LEMMA MissingFacts ==
  ASSUME FilesInv, Padded
  PROVE  /\ MissingHours \in Nat
         /\ MissingHours > 0 => index \in 1..Len(files) - 1
         /\ index \in 1..Len(files) - 1 /\ Distance(index) > 0 =>
              Hour * (MissingHours + 1) = Distance(index)
<1>1. CASE index \in 1..Len(files) - 1 /\ Distance(index) > 0
  <2>1. MissingHours = Distance(index) \div Hour - 1
    BY <1>1 DEF MissingHours
  <2> QED BY <1>1, <2>1, HoursFacts
<1>2. CASE ~ (index \in 1..Len(files) - 1 /\ Distance(index) > 0)
  BY <1>2 DEF MissingHours
<1> QED BY <1>1, <1>2

LEMMA ReadingStep == TypeOK /\ FilesInv /\ ReadingInv /\ [Next]_vars => ReadingInv'
<1> SUFFICES ASSUME TypeOK, FilesInv, ReadingInv, [Next]_vars PROVE ReadingInv'
  OBVIOUS
<1>1. files' = files /\ (Padded' <=> Padded)
  BY DEF Next, vars, reading, period, state, PadFiles, Process, ReadNetworkState, FillGap,
         timed_updates, EndOfMinute, Stopped, Padded, Distance
<1>2. index' = index => MissingHours' = MissingHours
  BY <1>1 DEF MissingHours, Distance
<1>3. Len(files) \in Nat
  BY FileFacts
<1>4. CASE PadFiles
  <2>1. UNCHANGED <<pc, consensus, index, filled>> /\ phase = "start"
        /\ phase' = IF Padded THEN "between" ELSE "error"
    BY <1>4 DEF PadFiles, processing, reading, Padded
  <2> QED BY <1>1, <1>2, <2>1 DEF ReadingInv, Simulating
<1>5. CASE Process
  <2>1. UNCHANGED <<phase, index, filled>> /\ phase = "between" /\ filled = MissingHours
    BY <1>5 DEF Process, reading
  <2>2. CASE index < Len(files) /\ OpenConsensus(files[index + 1])
    BY <1>1, <1>2, <2>1, <2>2 DEF OpenConsensus, ReadingInv, Simulating
  <2>3. CASE ProcessRouter
    <3>1. pc # "closed" /\ pc' # "closed" /\ consensus' = consensus
      BY <2>3 DEF ProcessRouter, NextRouter, LookAt, NoDescriptor, FoundDescriptor,
                  NoteChange, RouterDone
    <3> QED BY <1>1, <1>2, <2>1, <3>1 DEF ReadingInv, Simulating
  <2> QED BY <1>5, <2>2, <2>3 DEF Process
<1>6. CASE ReadNetworkState
  <2>1. /\ phase = "between" /\ index' = index + 1 /\ filled' = 0
        /\ pc = "routers" /\ pc' = "closed" /\ consensus' = consensus
        /\ phase' \in {"minute", "error"}
    BY <1>6 DEF ReadNetworkState, CloseConsensus, Processed, BeginPeriod
  <2>2. index < Len(files) /\ consensus = files[index + 1] /\ Padded
    BY <2>1 DEF ReadingInv
  <2>3. index' \in 1..Len(files) /\ index' > 0
    BY <1>3, <2>1, <2>2 DEF ReadingInv
  <2>4. MissingHours' \in Nat
    <3>1. PICK i : i = index'
      OBVIOUS
    <3>2. MissingHours' = IF i \in 1..Len(files) - 1 /\ Distance(i) > 0
                          THEN Distance(i) \div Hour - 1 ELSE 0
      BY <1>1, <3>1 DEF MissingHours, Distance
    <3> QED BY <2>2, <3>2, HoursFacts
  <2> QED BY <1>1, <2>1, <2>2, <2>3, <2>4 DEF ReadingInv, Simulating
<1>7. CASE FillGap
  <2>1. /\ phase = "between" /\ filled < MissingHours /\ filled' = filled + 1
        /\ UNCHANGED <<pc, consensus, index>> /\ phase' \in {"minute", "error"}
    BY <1>7 DEF FillGap, BeginPeriod, processing
  <2>2. MissingHours \in Nat /\ index > 0 /\ filled' \in 0..MissingHours /\ Padded
    BY <2>1, MissingFacts DEF ReadingInv
  <2> QED BY <1>1, <1>2, <2>1, <2>2 DEF ReadingInv, Simulating
<1>8. CASE timed_updates \/ EndOfMinute
  <2>1. /\ Simulating /\ phase' \in {"minute", "updated", "between"}
        /\ UNCHANGED <<pc, consensus, index, filled>>
    BY <1>8 DEF timed_updates, EndOfMinute, processing, reading, Simulating
  <2> QED BY <1>1, <1>2, <2>1 DEF ReadingInv, Simulating
<1>9. CASE UNCHANGED vars
  BY <1>1, <1>2, <1>9 DEF vars, reading, processing, ReadingInv, Simulating
<1> QED BY <1>4, <1>5, <1>6, <1>7, <1>8, <1>9 DEF Next, Stopped

\* What BeginPeriod does to the phase and the end of the period.
LEMMA BeginFacts ==
  ASSUME NEW start, BeginPeriod(start)
  PROVE  \/ /\ phase' = "minute" /\ cur_period_end \in {None, start}
            /\ cur_period_end' = cons_fresh_until' /\ cur_time' = start
         \/ /\ phase' = "error" /\ cur_period_end \notin {None, start}
            /\ UNCHANGED <<cur_period_end, cur_time>>
BY DEF BeginPeriod

LEMMA PeriodStep ==
  TypeOK /\ FilesInv /\ ReadingInv /\ PeriodInv /\ [Next]_vars => PeriodInv'
<1> SUFFICES ASSUME TypeOK, FilesInv, ReadingInv, PeriodInv, [Next]_vars PROVE PeriodInv'
  OBVIOUS
<1>1. files' = files
  BY DEF Next, vars, reading, period, state, PadFiles, Process, ReadNetworkState, FillGap,
         timed_updates, EndOfMinute, Stopped
<1>2. Hour \in Nat /\ Minute \in Nat \ {0} /\ None \notin Nat
  BY TimeFacts, NoneAssumption
<1>3. CASE PadFiles \/ Process \/ UNCHANGED vars
  <2>1. UNCHANGED <<index, filled, period>> /\ (index > 0 => phase' = phase)
        /\ (Simulating' => Simulating)
    BY <1>3 DEF PadFiles, Process, reading, ReadingInv, vars, Simulating
  <2> QED BY <1>1, <2>1 DEF PeriodInv, period
<1>4. CASE ReadNetworkState
  <2>1. /\ phase = "between" /\ index' = index + 1 /\ filled' = 0 /\ pc # "closed"
        /\ cons_valid_after' = consensus.valid_after
        /\ cons_fresh_until' = consensus.fresh_until
        /\ BeginPeriod(consensus.valid_after)
    BY <1>4 DEF ReadNetworkState, CloseConsensus, Processed, valid_after_ts, fresh_until_ts
  <2>2. index + 1 \in 1..Len(files) /\ consensus = files[index + 1]
    BY <2>1, FileFacts DEF ReadingInv
  <2>3. PICK i \in 1..Len(files) : i = index'
    BY <2>1, <2>2
  <2>4. PICK f, v, u : f = files[i] /\ v = f.valid_after /\ u = f.fresh_until
    OBVIOUS
  <2>5. v \in Nat \ {0} /\ u \in Nat \ {0} /\ v < u
    BY <2>4, FileFacts
  <2>6. cons_valid_after' = v /\ cons_fresh_until' = u /\ i > 0
    BY <2>1, <2>2, <2>3, <2>4
  <2>7. \/ phase' = "minute" /\ cur_period_end' = u /\ cur_time' = v
        \/ phase' = "error" /\ cur_period_end' = cur_period_end
    BY <2>1, <2>2, <2>3, <2>4, <2>6, BeginFacts
  <2>8. (v - v) % Minute = 0 /\ v + Hour * 0 = v /\ u + Hour * 0 = u
    BY <1>2, <2>5
  <2>9. cur_period_end' \in Time \cup {None}
    BY <2>5, <2>7 DEF PeriodInv, Time
  <2> QED BY <1>1, <2>1, <2>3, <2>4, <2>5, <2>6, <2>7, <2>8, <2>9 DEF PeriodInv, Simulating
<1>5. CASE FillGap
  <2>1. /\ phase = "between" /\ filled < MissingHours /\ filled' = filled + 1 /\ index' = index
        /\ cons_valid_after' = cons_valid_after + Hour
        /\ cons_fresh_until' = cons_fresh_until + Hour
        /\ BeginPeriod(cons_valid_after')
    BY <1>5 DEF FillGap
  <2>2. index \in 1..Len(files) /\ index > 0 /\ filled \in Nat
    BY <2>1, MissingFacts, FileFacts DEF ReadingInv
  <2>3. PICK v \in Nat \ {0}, u \in Nat \ {0} :
          v = files[index].valid_after /\ u = files[index].fresh_until /\ v < u
    BY <2>2, FileFacts
  <2>4. /\ cons_valid_after = v + Hour * filled /\ cons_fresh_until = u + Hour * filled
        /\ cur_period_end = cons_fresh_until /\ (filled > 0 => cons_valid_after >= u)
    BY <2>1, <2>2, <2>3 DEF PeriodInv
  <2>5. PICK h \in Nat : h = Hour * filled
    BY <1>2, <2>2
  <2>6. Hour * (filled + 1) = h + Hour
    BY <1>2, <2>2, <2>5
  <2>7. /\ cons_valid_after' = v + Hour * filled' /\ cons_fresh_until' = u + Hour * filled'
        /\ cons_valid_after' = v + h + Hour /\ cons_fresh_until' = u + h + Hour
        /\ cons_fresh_until = u + h
    BY <1>2, <2>1, <2>4, <2>5, <2>6
  <2>8. \/ /\ phase' = "minute" /\ cons_fresh_until = cons_valid_after'
           /\ cur_period_end' = cons_fresh_until' /\ cur_time' = cons_valid_after'
        \/ phase' = "error" /\ cur_period_end' = cur_period_end
    <3>1. cur_period_end # None
      BY <1>2, <2>4, <2>7
    <3> QED BY <2>1, <2>4, <3>1, BeginFacts
  <2>9. phase' # "error" => cons_valid_after' >= u
    BY <1>2, <2>7, <2>8
  <2>10. cur_period_end' \in Time \cup {None}
    BY <1>2, <2>7, <2>8 DEF PeriodInv, Time
  <2>11. phase' = "minute" => cur_time' \in cons_valid_after'..cons_fresh_until' - 1
    BY <1>2, <2>3, <2>7, <2>8
  <2>12. filled' > 0
    BY <2>1, <2>2
  <2>13. phase' \in {"minute", "error"} /\ (phase' # "error" => cur_period_end' = cons_fresh_until')
    BY <2>8
  <2> QED BY <1>1, <2>1, <2>2, <2>3, <2>7, <2>9, <2>10, <2>11, <2>12, <2>13
          DEF PeriodInv, Simulating
<1>6. CASE timed_updates
  BY <1>1, <1>6 DEF timed_updates, reading, period, PeriodInv, Simulating
<1>7. CASE EndOfMinute
  <2>1. /\ phase = "updated" /\ cur_time' = cur_time + Minute
        /\ phase' = IF cur_time' < cur_period_end THEN "minute" ELSE "between"
        /\ UNCHANGED <<index, filled, cons_valid_after, cons_fresh_until, cur_period_end>>
    BY <1>7 DEF EndOfMinute, reading
  <2>2. index \in 1..Len(files) /\ index > 0 /\ filled \in Nat
    BY <2>1, FileFacts, MissingFacts DEF ReadingInv, Simulating
  <2>3. PICK v \in Nat, u \in Nat :
          v = files[index].valid_after /\ u = files[index].fresh_until
    BY <2>2, FileFacts
  <2>4. cons_valid_after \in Nat /\ cons_fresh_until \in Nat /\ cur_period_end = cons_fresh_until
    <3>1. Hour * filled \in Nat
      BY <1>2, <2>2
    <3>2. /\ cons_valid_after = v + Hour * filled /\ cons_fresh_until = u + Hour * filled
          /\ cur_period_end = cons_fresh_until
      BY <2>1, <2>2, <2>3 DEF PeriodInv
    <3> QED BY <3>1, <3>2
  <2>5. cur_time \in cons_valid_after..cons_fresh_until - 1
        /\ (filled = 0 => (cur_time - cons_valid_after) % Minute = 0)
    BY <2>1 DEF PeriodInv, Simulating
  <2>6. ASSUME filled = 0 PROVE (cur_time' - cons_valid_after) % Minute = 0
    <3>1. PICK a \in Nat : a = cur_time - cons_valid_after
      BY <2>4, <2>5
    <3>2. (a + Minute) % Minute = 0
      BY <1>2, <2>5, <2>6, <3>1, NextMultiple
    <3>3. cur_time' - cons_valid_after = a + Minute
      BY <1>2, <2>1, <2>4, <2>5, <3>1
    <3> QED BY <3>2, <3>3
  <2>7. phase' = "minute" => cur_time' \in cons_valid_after..cons_fresh_until - 1
    BY <1>2, <2>1, <2>4, <2>5
  <2>8. phase' \in {"minute", "between"}
    BY <2>1
  <2> QED BY <1>1, <2>1, <2>2, <2>6, <2>7, <2>8 DEF PeriodInv, Simulating
<1> QED BY <1>3, <1>4, <1>5, <1>6, <1>7 DEF Next, Stopped

LEMMA RegularFacts ==
  ASSUME FilesInv, Regular(files)
  PROVE  /\ \A i \in 1..Len(files) : files[i].fresh_until = files[i].valid_after + Hour
         /\ \A i \in 1..Len(files) - 1 : Distance(i) > 0
         /\ Padded
BY FileFacts DEF Regular, Padded, Distance

LEMMA RegularStep ==
  /\ TypeOK /\ FilesInv /\ ReadingInv /\ PeriodInv /\ RegularFilesPass /\ [Next]_vars
  => RegularFilesPass'
<1> SUFFICES ASSUME TypeOK, FilesInv, ReadingInv, PeriodInv, RegularFilesPass, [Next]_vars,
                    Regular(files)'
             PROVE  phase' # "error"
  BY DEF RegularFilesPass
<1>1. Regular(files)
  BY DEF Next, vars, reading, period, state, PadFiles, Process, ReadNetworkState, FillGap,
         timed_updates, EndOfMinute, Stopped, Regular
<1>2. phase # "error" /\ Padded
  BY <1>1, RegularFacts DEF RegularFilesPass
<1>3. Hour \in Nat /\ None \notin Nat
  BY TimeFacts, NoneAssumption
<1>4. CASE ReadNetworkState
  <2>1. phase = "between" /\ pc # "closed" /\ BeginPeriod(consensus.valid_after)
    BY <1>4 DEF ReadNetworkState, CloseConsensus, Processed, valid_after_ts
  <2>2. index + 1 \in 1..Len(files) /\ consensus = files[index + 1] /\ filled = MissingHours
        /\ index \in Nat
    BY <2>1, FileFacts DEF ReadingInv
  <2>3. CASE index = 0
    BY <2>1, <2>3, BeginFacts DEF PeriodInv
  <2>4. CASE index # 0
    <3>1. index \in 1..Len(files) - 1 /\ index \in 1..Len(files) /\ index > 0
      BY <2>2, <2>4, FileFacts
    <3>2. PICK v \in Nat, w \in Nat, d \in Nat, m \in Nat :
            /\ v = files[index].valid_after /\ w = files[index + 1].valid_after
            /\ d = Distance(index) /\ m = MissingHours
      BY <1>2, <2>2, <3>1, FileFacts, MissingFacts
    <3>3. w = v + d
      BY <3>2 DEF Distance
    <3>4. Hour * (m + 1) = d
      BY <1>1, <1>2, <3>1, <3>2, RegularFacts, MissingFacts
    <3>5. cur_period_end = (v + Hour) + Hour * m
      BY <1>1, <1>2, <2>2, <3>1, <3>2, RegularFacts DEF PeriodInv
    <3>6. cur_period_end = w
      BY <1>3, <3>3, <3>4, <3>5
    <3> QED BY <2>1, <2>2, <3>2, <3>6, BeginFacts
  <2> QED BY <2>3, <2>4
<1>5. CASE FillGap
  <2>1. /\ filled < MissingHours /\ cons_valid_after' = cons_valid_after + Hour
        /\ BeginPeriod(cons_valid_after')
    BY <1>5 DEF FillGap
  <2>2. index \in 1..Len(files) /\ index > 0 /\ filled \in Nat
    BY <1>2, <2>1, MissingFacts, FileFacts DEF ReadingInv
  <2>3. PICK v \in Nat : v = files[index].valid_after
    BY <2>2, FileFacts
  <2>4. /\ cons_valid_after = v + Hour * filled
        /\ cur_period_end = (v + Hour) + Hour * filled
    BY <1>1, <1>2, <2>2, <2>3, RegularFacts DEF PeriodInv
  <2>5. Hour * filled \in Nat
    BY <1>3, <2>2
  <2>6. cur_period_end = cons_valid_after'
    BY <1>3, <2>1, <2>4, <2>5
  <2> QED BY <2>1, <2>6, BeginFacts
<1>6. CASE PadFiles
  BY <1>2, <1>6 DEF PadFiles, Padded
<1>7. CASE Process \/ timed_updates \/ EndOfMinute \/ UNCHANGED vars
  BY <1>2, <1>7 DEF Process, timed_updates, EndOfMinute, vars
<1> QED BY <1>4, <1>5, <1>6, <1>7 DEF Next, Stopped
-----------------------------------------------------------------------------
(* Sorting: every entry has a place of its own, and later ones come first. *)

Entries == DOMAIN hibernating_statuses

LEMMA PlaceFacts ==
  ASSUME TypeOK, NEW i \in Entries, NEW j \in Entries
  PROVE  /\ Place(i) \in Entries
         /\ Precedes(i, j) => Place(i) < Place(j)
         /\ i # j => Place(i) # Place(j)
<1> DEFINE s == hibernating_statuses
           n == Len(s)
           Ahead(k) == {e \in Entries : Precedes(e, k)}
<1>1. Entries = 1..n /\ n \in Nat /\ \A k \in Entries : s[k].time \in Nat
  BY StatusTypes DEF Entries
<1>2. IsFiniteSet(Entries) /\ Cardinality(Entries) = n
  <2>1. IsFiniteSet(1..n) /\ Cardinality(1..n) = IF 1 > n THEN 0 ELSE n - 1 + 1
    BY <1>1, FS_Interval
  <2> QED BY <1>1, <2>1
<1>3. ASSUME NEW k \in Entries PROVE Ahead(k) \subseteq Entries \ {k}
  BY <1>1 DEF Precedes
<1>4. ASSUME NEW k \in Entries PROVE Cardinality(Ahead(k)) \in 0..n - 1
  <2>1. IsFiniteSet(Entries \ {k}) /\ Cardinality(Entries \ {k}) = n - 1
    BY <1>2, FS_RemoveElement
  <2>2. IsFiniteSet(Ahead(k)) /\ Cardinality(Ahead(k)) <= n - 1
    BY <1>3, <2>1, FS_Subset
  <2> QED BY <1>1, <2>2, FS_CardinalityType
<1>5. ASSUME NEW k \in Entries
      PROVE  /\ Place(k) = Cardinality(Ahead(k)) + 1
             /\ Place(k) \in 1..n
  <2>1. Place(k) = Cardinality(Ahead(k)) + 1
    BY DEF Place, Entries
  <2>2. PICK c \in 0..n - 1 : c = Cardinality(Ahead(k))
    BY <1>4
  <2> QED BY <1>1, <2>1, <2>2
<1>6. ASSUME NEW k \in Entries, NEW l \in Entries, Precedes(k, l)
      PROVE  Place(k) < Place(l)
  <2>1. \A e \in Entries : Precedes(e, k) => Precedes(e, l)
    BY <1>1, <1>6 DEF Precedes
  <2>2. Ahead(k) \subseteq Ahead(l) /\ k \in Ahead(l) /\ k \notin Ahead(k)
    BY <1>3, <1>6, <2>1
  <2>3. IsFiniteSet(Ahead(l))
    BY <1>2, FS_Subset
  <2>4. Cardinality(Ahead(k)) <= Cardinality(Ahead(l))
        /\ Cardinality(Ahead(k)) # Cardinality(Ahead(l))
    BY <2>2, <2>3, FS_Subset
  <2> QED BY <1>4, <1>5, <2>4
<1>7. i # j => Precedes(i, j) \/ Precedes(j, i)
  BY <1>1 DEF Precedes
<1>8. Place(i) \in Entries /\ Place(j) \in Entries
  BY <1>1, <1>5
<1>9. i # j => Place(i) # Place(j)
  <2>1. Place(i) \in Nat /\ Place(j) \in Nat
    BY <1>1, <1>8
  <2> QED BY <1>6, <1>7, <2>1
<1> QED BY <1>6, <1>8, <1>9

LEMMA PlacesTaken ==
  ASSUME TypeOK, NEW k \in Entries
  PROVE  \E i \in Entries : Place(i) = k
<1> DEFINE f == [i \in Entries |-> Place(i)]
<1>1. f \in [Entries -> Entries]
  BY PlaceFacts
<1>2. \A i, j \in Entries : f[i] = f[j] => i = j
  BY PlaceFacts
<1>3. f \in Injection(Entries, Entries)
  BY <1>1, <1>2 DEF Injection, IsInjective
<1>4. IsFiniteSet(Entries)
  BY StatusTypes, FS_Interval DEF Entries
<1>5. f \in Surjection(Entries, Entries)
  BY <1>3, <1>4, FS_Injection
<1> QED BY <1>5 DEF Surjection

LEMMA SortedFacts ==
  ASSUME TypeOK
  PROVE  /\ Sorted \in Seq([time : Nat, relay : Relay, hibernating : BOOLEAN])
         /\ Len(Sorted) = Len(hibernating_statuses)
         /\ \A i \in Entries : Sorted[Place(i)] = hibernating_statuses[i]
         /\ \A k \in 1..Len(Sorted) : \E i \in Entries : Place(i) = k
         /\ \A k, l \in 1..Len(Sorted) : k <= l => Sorted[l].time <= Sorted[k].time
<1> DEFINE s == hibernating_statuses
<1>1. Entries = 1..Len(s) /\ Len(s) \in Nat
  BY StatusTypes DEF Entries
<1>2. Sorted = [k \in 1..Len(s) |-> s[CHOOSE i \in Entries : Place(i) = k]]
  BY <1>1 DEF Sorted, Entries
<1>3. ASSUME NEW i \in Entries PROVE Sorted[Place(i)] = s[i]
  <2>1. Place(i) \in 1..Len(s)
    BY <1>1, PlaceFacts
  <2>2. \A j \in Entries : Place(j) = Place(i) => j = i
    BY PlaceFacts
  <2>3. (CHOOSE j \in Entries : Place(j) = Place(i)) = i
    BY <2>2
  <2> QED BY <1>2, <2>1, <2>3
<1>4. ASSUME NEW k \in 1..Len(s) PROVE \E i \in Entries : Place(i) = k
  BY <1>1, PlacesTaken
<1>5. \A i \in Entries : s[i] \in [time : Nat, relay : Relay, hibernating : BOOLEAN]
  BY <1>1, ElementsOfSeq DEF TypeOK
<1>6. \A k \in 1..Len(s) : Sorted[k] \in [time : Nat, relay : Relay, hibernating : BOOLEAN]
  BY <1>3, <1>4, <1>5
<1>7. Sorted \in Seq([time : Nat, relay : Relay, hibernating : BOOLEAN])
      /\ Len(Sorted) = Len(s)
  BY <1>1, <1>2, <1>6
<1>8. ASSUME NEW k \in 1..Len(s), NEW l \in 1..Len(s), k <= l
      PROVE  Sorted[l].time <= Sorted[k].time
  <2>1. PICK i \in Entries, j \in Entries : Place(i) = k /\ Place(j) = l
    BY <1>4
  <2>2. s[i].time \in Nat /\ s[j].time \in Nat
    BY <1>5
  <2>3. ~ (s[j].time > s[i].time)
    <3>1. s[j].time > s[i].time => Precedes(j, i)
      BY DEF Precedes
    <3> QED BY <1>1, <1>8, <2>1, <3>1, PlaceFacts
  <2> QED BY <1>3, <2>1, <2>2, <2>3
<1> QED BY <1>3, <1>4, <1>7, <1>8
-----------------------------------------------------------------------------
(* Popping.                                                                *)

Status == [time : Nat, relay : Fingerprint, hibernating : BOOLEAN]

LEMMA StatusFacts ==
  ASSUME NEW list \in Seq(Status)
  PROVE  \A i \in 1..Len(list) : list[i].time \in Nat /\ list[i].relay \in Fingerprint
                               /\ list[i].hibernating \in BOOLEAN
<1>1. \A i \in 1..Len(list) : list[i] \in Status
  BY ElementsOfSeq
<1> QED BY <1>1 DEF Status

LEMMA StayingFacts ==
  ASSUME NEW list \in Seq(Status), NEW now \in Nat
  PROVE  /\ Staying(list, now) \in 0..Len(list) /\ Len(list) \in Nat
         /\ \A i \in 1..Len(list) : list[i].time > now => i <= Staying(list, now)
         /\ Staying(list, now) > 0 => list[Staying(list, now)].time > now
<1> DEFINE S == {0} \cup {i \in DOMAIN list : list[i].time > now}
<1>1. Len(list) \in Nat /\ DOMAIN list = 1..Len(list)
  OBVIOUS
<1>2. S \subseteq 0..Len(list) /\ S # {}
  BY <1>1
<1>3. Max(S) \in S /\ \A x \in S : x <= Max(S)
  BY <1>1, <1>2, MaxFacts
<1>4. Staying(list, now) = Max(S)
  BY DEF Staying
<1>5. \A i \in 1..Len(list) : list[i].time > now => i \in S
  BY <1>1
<1> HIDE DEF S
<1>6. Max(S) \in 0..Len(list)
  BY <1>2, <1>3
<1>7. Max(S) > 0 => list[Max(S)].time > now
  BY <1>3, <1>6 DEF S
<1> QED BY <1>1, <1>3, <1>4, <1>5, <1>6, <1>7

\* The entries of r that are popped.
Popped(list, now, r) == {i \in Staying(list, now) + 1..Len(list) : list[i].relay = r}

LEMMA PoppedFacts ==
  ASSUME NEW list \in Seq(Status), NEW now \in Nat, NEW r
  PROVE  /\ Popped(list, now, r) \subseteq 1..Len(list)
         /\ Popped(list, now, r) # {} =>
              /\ Min(Popped(list, now, r)) \in Popped(list, now, r)
              /\ \A i \in Popped(list, now, r) : Min(Popped(list, now, r)) <= i
<1>1. Staying(list, now) \in 0..Len(list) /\ Len(list) \in Nat
  BY StayingFacts
<1>2. Popped(list, now, r) \subseteq 1..Len(list)
  BY <1>1 DEF Popped
<1>3. Popped(list, now, r) \subseteq Nat
  BY <1>2
<1> QED BY <1>2, <1>3, MinFacts

\* Each relay's status after popping.
LEMMA PopFacts ==
  ASSUME NEW status \in [Fingerprint -> BOOLEAN \cup {None}], NEW list \in Seq(Status),
         NEW now \in Nat, NEW r \in Fingerprint
  PROVE  /\ Popped(list, now, r) = {} => AfterPopping(status, list, now)[r] = status[r]
         /\ Popped(list, now, r) # {} =>
              AfterPopping(status, list, now)[r] =
                list[Min(Popped(list, now, r))].hibernating
BY DEF AfterPopping, Popped

LEMMA PopTypes ==
  ASSUME NEW status \in [Fingerprint -> BOOLEAN \cup {None}], NEW list \in Seq(Status),
         NEW now \in Nat
  PROVE  /\ AfterPopping(status, list, now) \in [Fingerprint -> BOOLEAN \cup {None}]
         /\ \A r \in Fingerprint :
              status[r] # None \/ Popped(list, now, r) # {} =>
                AfterPopping(status, list, now)[r] # None
         /\ SubSeq(list, 1, Staying(list, now)) \in Seq(Status)
<1>1. ASSUME NEW r \in Fingerprint, Popped(list, now, r) # {}
      PROVE  AfterPopping(status, list, now)[r] \in BOOLEAN
  <2>1. Min(Popped(list, now, r)) \in 1..Len(list)
    BY <1>1, PoppedFacts
  <2>2. list[Min(Popped(list, now, r))] \in Status
    BY <2>1, ElementsOfSeq
  <2>3. list[Min(Popped(list, now, r))].hibernating \in BOOLEAN
    BY <2>2 DEF Status
  <2>4. AfterPopping(status, list, now)[r] = list[Min(Popped(list, now, r))].hibernating
    BY <1>1, PopFacts
  <2> QED BY <2>3, <2>4
<1>2. ASSUME NEW r \in Fingerprint, Popped(list, now, r) = {}
      PROVE  AfterPopping(status, list, now)[r] = status[r]
  BY <1>2, PopFacts
<1>3. \A r \in Fingerprint : AfterPopping(status, list, now)[r] \in BOOLEAN \cup {None}
  BY <1>1, <1>2
<1>4. AfterPopping(status, list, now) \in [Fingerprint -> BOOLEAN \cup {None}]
  BY <1>3 DEF AfterPopping
<1>5. ASSUME NEW r \in Fingerprint, status[r] # None \/ Popped(list, now, r) # {}
      PROVE  AfterPopping(status, list, now)[r] # None
  BY <1>1, <1>2, <1>5, AdversaryAssumption
<1>6. SubSeq(list, 1, Staying(list, now)) \in Seq(Status)
  BY StayingFacts
<1> QED BY <1>4, <1>5, <1>6

\* Popping up to one time and then up to a later one is popping up to the later one.
LEMMA PoppedTwice ==
  ASSUME NEW status \in [Fingerprint -> BOOLEAN \cup {None}], NEW list \in Seq(Status),
         NEW t \in Nat, NEW now \in Nat, t <= now,
         NEW r \in Fingerprint
  PROVE  AfterPopping(AfterPopping(status, list, t), SubSeq(list, 1, Staying(list, t)), now)[r]
           = AfterPopping(status, list, now)[r]
<1> DEFINE a == Staying(list, t)
           b == Staying(list, now)
           short == SubSeq(list, 1, a)
           c == Staying(short, now)
           P == Popped(list, now, r)
           P1 == Popped(short, now, r)
           P2 == Popped(list, t, r)
<1>1. /\ a \in 0..Len(list) /\ Len(list) \in Nat
      /\ \A i \in 1..Len(list) : list[i].time > t => i <= a
  BY StayingFacts
<1>2. /\ b \in 0..Len(list)
      /\ \A i \in 1..Len(list) : list[i].time > now => i <= b
      /\ b > 0 => list[b].time > now
  BY StayingFacts
<1>3. short \in Seq(Status) /\ Len(short) = a /\ \A i \in 1..a : short[i] = list[i]
  BY <1>1
<1>4. c \in 0..a /\ (\A i \in 1..a : short[i].time > now => i <= c)
      /\ (c > 0 => short[c].time > now)
  BY <1>3, StayingFacts
<1>5. P1 = {i \in c + 1..a : short[i].relay = r}
  BY <1>3 DEF Popped
<1>6. P2 = {i \in a + 1..Len(list) : list[i].relay = r}
      /\ P = {i \in b + 1..Len(list) : list[i].relay = r}
  BY DEF Popped
<1>7. P1 # {} => Min(P1) \in P1 /\ \A i \in P1 : Min(P1) <= i
  BY <1>3, PoppedFacts
<1>8. P # {} => Min(P) \in P /\ \A i \in P : Min(P) <= i
  BY PoppedFacts
<1> DEFINE before == AfterPopping(status, list, t)
<1>9. /\ P1 = {} => AfterPopping(before, short, now)[r] = before[r]
      /\ P1 # {} => AfterPopping(before, short, now)[r] = short[Min(P1)].hibernating
  <2>1. before \in [Fingerprint -> BOOLEAN \cup {None}]
    BY PopTypes
  <2> QED BY <1>3, <2>1, PopFacts
<1>10. /\ P2 = {} => before[r] = status[r]
       /\ P2 # {} => before[r] = list[Min(P2)].hibernating
  BY PopFacts
<1>11. /\ P = {} => AfterPopping(status, list, now)[r] = status[r]
       /\ P # {} => AfterPopping(status, list, now)[r] = list[Min(P)].hibernating
  BY PopFacts
<1> DEFINE last == AfterPopping(before, short, now)[r]
           once == AfterPopping(status, list, now)[r]
<1> SUFFICES last = once
  OBVIOUS
<1> HIDE DEF a, b, c, short, P, P1, P2, before, last, once
<1>12. b <= a
  <2>1. b > 0 => list[b].time \in Nat
    BY <1>1, <1>2, StatusFacts
  <2> QED BY <1>1, <1>2, <2>1
<1>13. c = b
  <2>1. b > 0 => b <= c
    BY <1>1, <1>2, <1>3, <1>4, <1>12
  <2>2. c > 0 => c <= b
    BY <1>1, <1>2, <1>3, <1>4
  <2> QED BY <1>1, <1>2, <1>4, <2>1, <2>2
<1>14. P1 = {i \in b + 1..a : list[i].relay = r}
  BY <1>1, <1>2, <1>3, <1>5, <1>13
<1>15. P = P1 \cup P2 /\ \A i \in P1, j \in P2 : i < j
  BY <1>1, <1>2, <1>6, <1>12, <1>14
<1>16. CASE P1 # {}
  <2>1. P # {} /\ P \subseteq Nat /\ P1 \subseteq 1..a
    BY <1>1, <1>2, <1>6, <1>14, <1>15, <1>16
  <2>2. Min(P) \in P1
    <3>1. Min(P1) \in P1 /\ Min(P) \in P /\ Min(P) <= Min(P1)
      BY <1>7, <1>8, <1>15, <1>16, <2>1
    <3>2. Min(P) \in P2 => Min(P1) < Min(P)
      BY <1>15, <3>1
    <3>3. Min(P1) \in Nat /\ Min(P) \in Nat
      BY <1>15, <2>1, <3>1
    <3> QED BY <1>15, <3>1, <3>2, <3>3
  <2>3. Min(P1) = Min(P)
    <3>1. Min(P1) <= Min(P) /\ Min(P) <= Min(P1)
      BY <1>7, <1>8, <1>15, <1>16, <2>1, <2>2
    <3>2. Min(P1) \in Nat /\ Min(P) \in Nat
      BY <1>7, <1>15, <1>16, <2>1, <2>2
    <3> QED BY <3>1, <3>2
  <2>4. short[Min(P1)] = list[Min(P)]
    BY <1>3, <2>1, <2>2, <2>3
  <2>5. last = short[Min(P1)].hibernating /\ once = list[Min(P)].hibernating
    BY <1>9, <1>11, <1>16, <2>1 DEF last, once
  <2> QED BY <2>4, <2>5
<1>17. CASE P1 = {}
  <2>1. P = P2
    BY <1>15, <1>17
  <2>2. last = before[r]
    BY <1>9, <1>17 DEF last
  <2>3. P = {} => before[r] = status[r] /\ once = status[r]
    BY <1>10, <1>11, <2>1 DEF once
  <2>4. P # {} => before[r] = list[Min(P)].hibernating /\ once = list[Min(P)].hibernating
    BY <1>10, <1>11, <2>1 DEF once
  <2> QED BY <2>2, <2>3, <2>4
<1> QED BY <1>16, <1>17
-----------------------------------------------------------------------------
(* The statuses of a network state, as the simulation is given them.       *)

LEMMA InsertedFacts ==
  ASSUME NEW inserted \in InsertedStatuses
  PROVE  /\ inserted \in Seq(Status)
         /\ \A i \in 1..Len(inserted) : inserted[i].time = 0 /\ inserted[i].relay \in Inserted
         /\ \A r \in Inserted : \E i \in 1..Len(inserted) : inserted[i].relay = r
<1> DEFINE c == Cardinality(Inserted)
<1>1. IsFiniteSet(Inserted) /\ Inserted \subseteq Adversary
  BY AdversaryAssumption, FS_EmptySet DEF Inserted
<1>2. c \in Nat
  BY <1>1, FS_CardinalityType
<1>3. PICK s \in [1..c -> Inserted] :
        /\ \A i, j \in 1..c : s[i] = s[j] => i = j
        /\ inserted = [i \in 1..c |-> Entry(0, s[i], FALSE)]
  BY DEF InsertedStatuses
<1>4. inserted \in Seq(Status) /\ Len(inserted) = c
  <2>1. \A i \in 1..c : Entry(0, s[i], FALSE) \in Status
    BY <1>1, <1>3 DEF Entry, Status, Fingerprint
  <2> HIDE DEF c
  <2>2. inserted = [i \in 1..c |-> Entry(0, s[i], FALSE)]
    BY <1>3 DEF c
  <2>3. inserted \in [1..c -> Status]
    BY <2>1, <2>2
  <2>4. inserted \in Seq(Status)
    BY <1>2, <2>3
  <2> QED BY <1>2, <2>3, <2>4
<1>5. \A i \in 1..c : inserted[i].time = 0 /\ inserted[i].relay = s[i]
  BY <1>3 DEF Entry
<1>6. s \in Surjection(1..c, Inserted)
  <2>1. s \in Injection(1..c, Inserted)
    BY <1>3 DEF Injection, IsInjective
  <2>2. Cardinality(1..c) = c
    BY <1>2, FS_Interval
  <2> QED BY <1>1, <2>1, <2>2, FS_Injection
<1>7. \A r \in Inserted : \E i \in 1..c : s[i] = r
  BY <1>6 DEF Surjection
<1>8. \A i \in 1..c : s[i] \in Inserted
  BY <1>3
<1> QED BY <1>4, <1>5, <1>7, <1>8

\* All later ones come before all earlier ones, and those inserted come last.
LEMMA ListFacts ==
  ASSUME TypeOK, NEW inserted \in InsertedStatuses
  PROVE  LET list == Sorted \o inserted IN
         /\ list \in Seq(Status)
         /\ \A k, l \in 1..Len(list) : k <= l => list[l].time <= list[k].time
         /\ \A i \in Entries : Place(i) \in 1..Len(list) /\ list[Place(i)] = hibernating_statuses[i]
         /\ \A k \in 1..Len(list) : \/ \E i \in Entries : Place(i) = k
                                    \/ list[k].relay \in Adversary
         /\ \A r \in Inserted : \E k \in 1..Len(list) : list[k].relay = r /\ list[k].time = 0
<1> DEFINE list == Sorted \o inserted
           n == Len(Sorted)
           m == Len(inserted)
<1>1. Sorted \in Seq(Status) /\ inserted \in Seq(Status) /\ n \in Nat /\ m \in Nat
  <2>1. Sorted \in Seq([time : Nat, relay : Relay, hibernating : BOOLEAN])
    BY SortedFacts
  <2>2. \A k \in 1..n : Sorted[k] \in Status
    <3>1. \A k \in 1..n : Sorted[k] \in [time : Nat, relay : Relay, hibernating : BOOLEAN]
      BY <2>1, ElementsOfSeq
    <3> QED BY <3>1 DEF Status, Fingerprint
  <2>3. Sorted \in Seq(Status)
    BY <2>1, <2>2
  <2> QED BY <2>3, InsertedFacts
<1>2. /\ list \in Seq(Status) /\ Len(list) = n + m
      /\ \A k \in 1..n : list[k] = Sorted[k]
      /\ \A k \in n + 1..n + m : list[k] = inserted[k - n]
  BY <1>1
<1>3. \A k \in 1..n : Sorted[k].time \in Nat
  BY <1>1, StatusFacts
<1>4. \A k \in 1..m : inserted[k].time = 0 /\ inserted[k].relay \in Adversary
  BY InsertedFacts DEF Inserted
<1>5. \A k \in n + 1..n + m : list[k].time = 0 /\ list[k].relay \in Adversary
  <2> TAKE k \in n + 1..n + m
  <2>1. k - n \in 1..m
    BY <1>1
  <2> QED BY <1>2, <1>4, <2>1
<1>6. ASSUME NEW k \in 1..n + m, NEW l \in 1..n + m, k <= l
      PROVE  list[l].time <= list[k].time
  <2>1. CASE l \in 1..n
    <3>1. k \in 1..n
      BY <1>1, <1>6, <2>1
    <3> QED BY <1>2, <1>6, <2>1, <3>1, SortedFacts
  <2>2. CASE l \in n + 1..n + m
    <3>1. list[k].time \in Nat
      BY <1>1, <1>2, <1>3, <1>5
    <3> QED BY <1>5, <2>2, <3>1
  <2> QED BY <1>1, <2>1, <2>2
<1>7. ASSUME NEW i \in Entries
      PROVE  Place(i) \in 1..n + m /\ list[Place(i)] = hibernating_statuses[i]
  <2>1. Place(i) \in 1..n /\ Sorted[Place(i)] = hibernating_statuses[i]
    BY PlaceFacts, SortedFacts, StatusTypes DEF Entries
  <2> QED BY <1>1, <1>2, <2>1
<1>8. ASSUME NEW k \in 1..n + m
      PROVE  (\E i \in Entries : Place(i) = k) \/ list[k].relay \in Adversary
  <2>1. CASE k \in 1..n
    BY <2>1, SortedFacts
  <2>2. CASE k \in n + 1..n + m
    BY <1>5, <2>2
  <2> QED BY <1>1, <2>1, <2>2
<1>9. ASSUME NEW r \in Inserted PROVE \E k \in 1..n + m : list[k].relay = r /\ list[k].time = 0
  <2>1. PICK i \in 1..m : inserted[i].relay = r
    BY InsertedFacts
  <2>2. n + i \in n + 1..n + m /\ n + i \in 1..n + m /\ (n + i) - n = i
    BY <1>1
  <2>3. list[n + i] = inserted[i]
    BY <1>2, <2>2
  <2> QED BY <1>4, <2>1, <2>2, <2>3
<1> QED BY <1>2, <1>6, <1>7, <1>8, <1>9

\* Of a sorted list what is popped is exactly what is not later.
LEMMA NotLaterIsPopped ==
  ASSUME NEW list \in Seq(Status), NEW now \in Nat, NEW k \in 1..Len(list),
         \A i, j \in 1..Len(list) : i <= j => list[j].time <= list[i].time
  PROVE  list[k].time <= now <=> k \in Staying(list, now) + 1..Len(list)
<1>1. Staying(list, now) \in 0..Len(list) /\ Len(list) \in Nat
      /\ \A i \in 1..Len(list) : list[i].time > now => i <= Staying(list, now)
  BY StayingFacts
<1>2. Staying(list, now) > 0 => list[Staying(list, now)].time > now
  BY StayingFacts
<1>3. \A i \in 1..Len(list) : list[i].time \in Nat
  BY StatusFacts
<1>4. list[k].time \in Nat
  BY <1>3
<1>5. ASSUME list[k].time <= now, k <= Staying(list, now) PROVE FALSE
  <2>1. Staying(list, now) \in 1..Len(list)
    BY <1>1, <1>5
  <2>2. list[Staying(list, now)].time <= list[k].time
    BY <1>5, <2>1
  <2>3. list[Staying(list, now)].time > now /\ list[Staying(list, now)].time \in Nat
    BY <1>2, <1>3, <2>1
  <2> QED BY <1>4, <1>5, <2>2, <2>3
<1> QED BY <1>1, <1>4, <1>5

\* Popping gives the status noted last.
LEMMA PoppedIsNoted ==
  ASSUME TypeOK, NEW inserted \in InsertedStatuses, NEW now \in Nat, NEW r \in Relay,
         NEW h, Noted(r, now, h), NEW status \in [Fingerprint -> BOOLEAN \cup {None}]
  PROVE  /\ Popped(Sorted \o inserted, now, r) # {}
         /\ AfterPopping(status, Sorted \o inserted, now)[r] = h
<1> DEFINE list == Sorted \o inserted
           s == hibernating_statuses
<1>1. /\ list \in Seq(Status)
      /\ \A k, l \in 1..Len(list) : k <= l => list[l].time <= list[k].time
      /\ \A i \in Entries : Place(i) \in 1..Len(list) /\ list[Place(i)] = s[i]
      /\ \A k \in 1..Len(list) : (\E i \in Entries : Place(i) = k) \/ list[k].relay \in Adversary
  BY ListFacts
<1>2. \A k \in 1..Len(list) : list[k].time <= now <=> k \in Staying(list, now) + 1..Len(list)
  BY <1>1, NotLaterIsPopped
<1> DEFINE P == Popped(list, now, r)
<1>3. P = {k \in Staying(list, now) + 1..Len(list) : list[k].relay = r} /\ P \subseteq 1..Len(list)
  BY <1>1, PoppedFacts DEF Popped
<1>4. P # {} => Min(P) \in P /\ \A k \in P : Min(P) <= k
  BY <1>1, PoppedFacts
<1>5. P # {} => AfterPopping(status, list, now)[r] = list[Min(P)].hibernating
  <2>1. r \in Fingerprint
    BY DEF Fingerprint
  <2> QED BY <1>1, <2>1, PopFacts
<1>6. PICK i \in Entries :
        /\ s[i].relay = r /\ s[i].time <= now /\ s[i].hibernating = h
        /\ \A j \in Entries : s[j].relay = r /\ s[j].time <= now => s[j].time < s[i].time \/ i = j
  BY DEF Noted, Entries
<1>7. \A j \in Entries : s[j].time \in Nat
  BY StatusTypes DEF Entries
<1> DEFINE popped == AfterPopping(status, list, now)[r]
<1> SUFFICES P # {} /\ popped = h
  OBVIOUS
<1> HIDE DEF list, P, popped
<1>8. Place(i) \in P
  BY <1>1, <1>2, <1>3, <1>6
<1>9. PICK m \in P : m = Min(P) /\ m <= Place(i) /\ m \in 1..Len(list)
  BY <1>3, <1>4, <1>8
<1>10. list[m].relay = r /\ list[m].time <= now
  BY <1>2, <1>3, <1>9
<1>11. PICK j \in Entries : Place(j) = m /\ list[m] = s[j]
  <2>1. r \notin Adversary
    BY AdversaryAssumption
  <2> QED BY <1>1, <1>9, <1>10, <2>1
<1>12. s[i].time <= s[j].time
  BY <1>1, <1>9, <1>11
<1>13. i = j
  BY <1>6, <1>7, <1>10, <1>11, <1>12
<1> QED BY <1>5, <1>6, <1>8, <1>9, <1>11, <1>13 DEF popped

LEMMA InsertedIsPopped ==
  ASSUME TypeOK, NEW inserted \in InsertedStatuses, NEW now \in Nat, NEW r \in Inserted
  PROVE  Popped(Sorted \o inserted, now, r) # {}
<1> DEFINE list == Sorted \o inserted
<1>1. /\ list \in Seq(Status)
      /\ \A k, l \in 1..Len(list) : k <= l => list[l].time <= list[k].time
  BY ListFacts
<1>2. PICK k \in 1..Len(list) : list[k].relay = r /\ list[k].time = 0
  BY ListFacts
<1> HIDE DEF list
<1>3. k \in Staying(list, now) + 1..Len(list)
  BY <1>1, <1>2, NotLaterIsPopped
<1> QED BY <1>2, <1>3 DEF Popped, list

LEMMA LastMinuteFacts ==
  ASSUME FilesInv, index \in 1..Len(files),
         NEW v, NEW u, v = files[index].valid_after, u = files[index].fresh_until
  PROVE  /\ LastMinute \in v..u - 1 /\ (LastMinute - v) % Minute = 0
         /\ \A t \in v..u - 1 : (t - v) % Minute = 0 => t <= LastMinute
<1> DEFINE minutes == {t \in v..u - 1 : (t - v) % Minute = 0}
<1>1. v \in Nat /\ u \in Nat /\ v < u
  BY FileFacts
<1>2. v \in minutes
  BY <1>1, TimeFacts
<1>3. u - 1 \in Nat /\ minutes \subseteq 0..u - 1
  BY <1>1
<1>4. Max(minutes) \in minutes /\ \A t \in minutes : t <= Max(minutes)
  BY <1>2, <1>3, MaxFacts
<1>5. LastMinute = Max(minutes)
  BY DEF LastMinute
<1> QED BY <1>4, <1>5

\* The times while a consensus is in force.
LEMMA TimesInForce ==
  ASSUME FilesInv, ReadingInv, PeriodInv, Simulating
  PROVE  /\ index \in 1..Len(files) /\ cur_time \in Nat /\ filled \in Nat
         /\ fresh_until_ts = files[index].fresh_until /\ fresh_until_ts \in Nat
         /\ filled = 0 => /\ cur_time \in files[index].valid_after..fresh_until_ts - 1
                          /\ (cur_time - files[index].valid_after) % Minute = 0
         /\ filled > 0 => cur_time >= fresh_until_ts
         /\ cur_period_end = cons_fresh_until
         /\ filled = 0 => cons_fresh_until = fresh_until_ts
<1>1. index \in 1..Len(files) /\ index > 0 /\ pc = "closed" /\ phase # "error"
      /\ consensus = files[index] /\ filled \in Nat
  BY FileFacts, MissingFacts DEF ReadingInv, Simulating
<1>2. PICK v \in Nat, u \in Nat :
        v = files[index].valid_after /\ u = files[index].fresh_until
  BY <1>1, FileFacts
<1>3. fresh_until_ts = u
  BY <1>1, <1>2 DEF fresh_until_ts
<1>4. PICK h \in Nat : h = Hour * filled
  BY <1>1, TimeFacts
<1>5. filled = 0 => h = 0
  BY <1>4, TimeFacts
<1>6. /\ cons_valid_after = v + h /\ cons_fresh_until = u + h
      /\ cur_period_end = cons_fresh_until
      /\ filled > 0 => cons_valid_after >= u
      /\ cur_time \in cons_valid_after..cons_fresh_until - 1
      /\ filled = 0 => (cur_time - cons_valid_after) % Minute = 0
  BY <1>1, <1>2, <1>4 DEF PeriodInv
<1>7. cur_time \in Nat /\ cur_time >= cons_valid_after
  BY <1>6
<1>8. filled > 0 => cur_time >= u
  BY <1>6, <1>7
<1>9. filled = 0 => cons_valid_after = v /\ cons_fresh_until = u
  BY <1>5, <1>6
<1> QED BY <1>1, <1>2, <1>3, <1>6, <1>7, <1>8, <1>9

LEMMA LastMinuteReached ==
  ASSUME FilesInv, ReadingInv, PeriodInv, Simulating, filled = 0
  PROVE  /\ cur_time <= LastMinute
         /\ ~ (cur_time + Minute < cur_period_end) => cur_time = LastMinute
<1>1. PICK v \in Nat, u \in Nat :
        v = files[index].valid_after /\ u = files[index].fresh_until
  BY TimesInForce, FileFacts
<1>2. /\ cur_time \in v..u - 1 /\ (cur_time - v) % Minute = 0 /\ cur_period_end = u
      /\ index \in 1..Len(files)
  BY <1>1, TimesInForce
<1>3. /\ LastMinute \in v..u - 1 /\ (LastMinute - v) % Minute = 0
      /\ cur_time <= LastMinute
  BY <1>1, <1>2, LastMinuteFacts
<1>4. ASSUME cur_time < LastMinute PROVE cur_time + Minute < u
  <2>1. PICK a \in Nat, b \in Nat, m \in Nat \ {0} :
          a = cur_time - v /\ b = LastMinute - v /\ m = Minute
    BY <1>2, <1>3, TimeFacts
  <2>2. a < b
    BY <1>1, <1>2, <1>3, <1>4, <2>1
  <2>3. a + m <= b
    BY <1>2, <1>3, <2>1, <2>2, MultiplesApart
  <2> QED BY <1>2, <1>3, <2>1, <2>3
<1> QED BY <1>2, <1>3, <1>4
-----------------------------------------------------------------------------
(* The statuses through the minutes of a file and the gap after it.        *)

\* The consensus read last is the one in force.
InForce == Simulating \/ (phase = "between" /\ filled < MissingHours)

\* The list yet to be popped gives the history from now on; when it is thrown away,
\* in a gap, the statuses are those of the last minute before.
Replays(r) ==
  \A now \in cur_time..fresh_until_ts :
    AfterPopping(hibernating_status, hibernating_list, now)[r] = StatusAt(r, now)

Stays(r) == hibernating_status[r] = StatusAt(r, LastMinute)

StatusInv ==
  /\ cons_rel_stats \subseteq Fingerprint
  /\ hibernating_list \in Seq(Status)
  /\ hibernating_status \in [Fingerprint -> BOOLEAN \cup {None}]
  /\ filled > 0 => hibernating_list = <<>>
  /\ InForce => \A r \in cons_rel_stats : hibernating_status[r] # None
  /\ Simulating /\ filled = 0 => \A r \in cons_rel_stats \cap Relay : Replays(r)
  /\ phase = "updated" /\ filled = 0 =>
       \A r \in cons_rel_stats \cap Relay : hibernating_status[r] = StatusAt(r, cur_time)
  /\ InForce /\ (phase = "between" \/ filled > 0) =>
       \A r \in cons_rel_stats \cap Relay : Stays(r)

\* The first pop of a period, from the file just read.
LEMMA ReadStatuses ==
  ASSUME TypeOK, StatusesTellHistory, FilesInv, ReadingInv, PeriodInv, ReadNetworkState
  PROVE  StatusInv'
<1>1. /\ phase = "between" /\ pc = "routers" /\ routers = {} /\ filled' = 0
      /\ cons_rel_stats' =
           {r \in DOMAIN consensus.published : descriptors_out[r] # None} \cup Inserted
      /\ BeginPeriod(valid_after_ts) /\ UNCHANGED <<archive, consensus>>
  BY DEF ReadNetworkState, CloseConsensus, Processed
<1>2. PICK inserted \in InsertedStatuses :
        PopStatuses([r \in Fingerprint |-> None], Sorted \o inserted, valid_after_ts)
  BY DEF ReadNetworkState
<1> DEFINE none == [r \in Fingerprint |-> None]
           list == Sorted \o inserted
<1>3. PICK v \in Nat, u \in Nat : v = valid_after_ts /\ u = fresh_until_ts /\ v < u
  BY <1>1, ConsensusFacts DEF Time
<1>4. /\ none \in [Fingerprint -> BOOLEAN \cup {None}]
      /\ list \in Seq(Status)
      /\ hibernating_status' = AfterPopping(none, list, v)
      /\ hibernating_list' = SubSeq(list, 1, Staying(list, v))
  BY <1>2, <1>3, ListFacts DEF PopStatuses
<1>5. fresh_until_ts' = u /\ \A r, now : StatusAt(r, now)' = StatusAt(r, now)
  BY <1>1, <1>3 DEF fresh_until_ts, StatusAt
<1>6. DOMAIN consensus.published \subseteq Relay /\ Inserted \subseteq Adversary
  BY <1>1, ConsensusFacts DEF Inserted
<1>7. cons_rel_stats' \subseteq Fingerprint
  BY <1>1, <1>6 DEF Fingerprint
<1>8. ASSUME NEW r \in cons_rel_stats' \cap Relay, NEW now \in v..u
      PROVE  /\ Popped(list, now, r) # {}
             /\ AfterPopping(none, list, now)[r] = StatusAt(r, now)
  <2>1. r \notin Inserted /\ r \in LookedUp /\ descriptors_out[r] # None
    BY <1>1, <1>6, AdversaryAssumption DEF LookedUp
  <2>2. Noted(r, now, StatusAt(r, now)) /\ now \in Nat
    BY <1>3, <2>1 DEF StatusesTellHistory, TellsHistory
  <2> QED BY <1>4, <2>2, PoppedIsNoted
<1>9. ASSUME NEW r \in cons_rel_stats' PROVE hibernating_status'[r] # None
  <2>1. Popped(list, v, r) # {}
    <3>1. CASE r \in Relay
      <4>1. v \in v..u
        BY <1>3
      <4> QED BY <1>8, <3>1, <4>1
    <3>2. CASE r \notin Relay
      BY <1>1, <1>6, <3>2, InsertedIsPopped
    <3> QED BY <3>1, <3>2
  <2> HIDE DEF list, none
  <2> QED BY <1>4, <1>7, <2>1, PopTypes
<1>10. ASSUME NEW r \in cons_rel_stats' \cap Relay, phase' = "minute" PROVE Replays(r)'
  <2>1. cur_time' = v
    BY <1>1, <1>3, <1>10, BeginFacts
  <2>2. ASSUME NEW now \in v..u
        PROVE  AfterPopping(hibernating_status', hibernating_list', now)[r] = StatusAt(r, now)
    <3>1. AfterPopping(none, list, now)[r] = StatusAt(r, now)
      BY <1>8, <2>2
    <3>2. now \in Nat /\ v <= now /\ r \in Fingerprint
      BY <1>3, <1>7
    <3> HIDE DEF list, none
    <3> QED BY <1>4, <3>1, <3>2, PoppedTwice
  <2>3. \A now \in cur_time'..fresh_until_ts' :
          AfterPopping(hibernating_status', hibernating_list', now)[r] = StatusAt(r, now)'
    BY <1>5, <2>1, <2>2
  <2> QED BY <2>3 DEF Replays
<1>11. phase' \in {"minute", "error"}
  BY <1>1, BeginFacts
<1>12. /\ hibernating_list' \in Seq(Status)
       /\ hibernating_status' \in [Fingerprint -> BOOLEAN \cup {None}]
  <2> HIDE DEF list, none
  <2> QED BY <1>4, PopTypes
<1> QED BY <1>1, <1>7, <1>9, <1>10, <1>11, <1>12 DEF StatusInv, InForce, Simulating

LEMMA StatusStep ==
  /\ TypeOK /\ StatusesTellHistory /\ FilesInv /\ ReadingInv /\ PeriodInv /\ StatusInv
  /\ [Next]_vars
  => StatusInv'
<1> SUFFICES ASSUME TypeOK, StatusesTellHistory, FilesInv, ReadingInv, PeriodInv, StatusInv,
                    [Next]_vars
             PROVE  StatusInv'
  OBVIOUS
<1>1. CASE ReadNetworkState
  BY <1>1, ReadStatuses
<1>2. CASE PadFiles \/ Process
  <2>1. UNCHANGED <<reading, state>> /\ ~ InForce' /\ ~ Simulating'
    <3>1. CASE PadFiles
      <4>1. MissingHours = 0
        BY <3>1 DEF PadFiles, ReadingInv, MissingHours
      <4>2. MissingHours' = MissingHours
        BY <3>1 DEF PadFiles, reading, MissingHours, Distance
      <4> QED BY <3>1, <4>1, <4>2 DEF PadFiles, reading, InForce, Simulating, ReadingInv
    <3>2. CASE Process
      <4>1. MissingHours' = MissingHours /\ filled = MissingHours /\ filled' = filled
        BY <3>2 DEF Process, reading, MissingHours, Distance
      <4>2. filled \in Nat
        BY <3>2, MissingFacts DEF Process, ReadingInv
      <4> QED BY <3>2, <4>1, <4>2 DEF Process, InForce, Simulating
    <3> QED BY <1>2, <3>1, <3>2
  <2>2. phase' # "updated" /\ filled' = filled
    BY <2>1 DEF Simulating, reading
  <2> QED BY <2>1, <2>2 DEF StatusInv, state
<1>3. CASE FillGap \/ timed_updates \/ EndOfMinute \/ UNCHANGED vars
  <2>1. /\ UNCHANGED <<archive, consensus, files, index, cons_rel_stats>>
        /\ fresh_until_ts' = fresh_until_ts
        /\ \A r, now : StatusAt(r, now)' = StatusAt(r, now)
        /\ LastMinute' = LastMinute /\ MissingHours' = MissingHours
    <3>1. UNCHANGED <<archive, consensus, files, index, cons_rel_stats>>
      BY <1>3 DEF FillGap, timed_updates, EndOfMinute, vars, processing, reading, state
    <3> QED BY <3>1 DEF fresh_until_ts, StatusAt, LastMinute, MissingHours, Distance
  <2>2. CASE FillGap
    <3>1. /\ InForce /\ phase = "between" /\ filled \in Nat /\ filled' = filled + 1
          /\ hibernating_list' = <<>> /\ hibernating_status' = hibernating_status
          /\ phase' \in {"minute", "error"}
      BY <2>2, MissingFacts DEF FillGap, BeginPeriod, InForce, ReadingInv
    <3>2. \A r \in cons_rel_stats \cap Relay : Stays(r)'
      BY <2>1, <3>1 DEF StatusInv, Stays
    <3>3. filled' > 0 /\ filled' # 0
      BY <3>1
    <3> QED BY <2>1, <3>1, <3>2, <3>3 DEF StatusInv
  <2>3. CASE timed_updates
    <3>1. /\ phase = "minute" /\ phase' = "updated" /\ UNCHANGED <<filled, cur_time>>
          /\ hibernating_status' = AfterPopping(hibernating_status, hibernating_list, cur_time)
          /\ hibernating_list' =
               SubSeq(hibernating_list, 1, Staying(hibernating_list, cur_time))
      BY <2>3 DEF timed_updates, PopStatuses, reading, period
    <3>2. /\ hibernating_list \in Seq(Status)
          /\ hibernating_status \in [Fingerprint -> BOOLEAN \cup {None}]
          /\ InForce /\ Simulating
      BY <3>1 DEF StatusInv, InForce, Simulating
    <3>3. cur_time \in Nat /\ (filled = 0 => cur_time <= fresh_until_ts) /\ filled \in Nat
          /\ fresh_until_ts \in Nat
      BY <3>1, <3>2, TimesInForce
    <3>4. /\ hibernating_list' \in Seq(Status)
          /\ hibernating_status' \in [Fingerprint -> BOOLEAN \cup {None}]
          /\ \A r \in cons_rel_stats : hibernating_status'[r] # None
      BY <3>1, <3>2, <3>3, PopTypes DEF StatusInv
    <3>5. ASSUME filled = 0, NEW r \in cons_rel_stats \cap Relay
          PROVE  Replays(r)' /\ hibernating_status'[r] = StatusAt(r, cur_time)
      <4>1. Replays(r) /\ r \in Fingerprint
        BY <3>2, <3>5 DEF StatusInv
      <4>2. ASSUME NEW now \in cur_time..fresh_until_ts
            PROVE  AfterPopping(hibernating_status', hibernating_list', now)[r] = StatusAt(r, now)
        <5>1. now \in Nat /\ cur_time <= now
          BY <3>3
        <5>2. AfterPopping(hibernating_status, hibernating_list, now)[r] = StatusAt(r, now)
          BY <4>1 DEF Replays
        <5> QED BY <3>1, <3>2, <3>3, <4>1, <5>1, <5>2, PoppedTwice
      <4>3. cur_time \in cur_time..fresh_until_ts
        BY <3>3, <3>5
      <4>4. hibernating_status'[r] = StatusAt(r, cur_time)
        BY <3>1, <4>1, <4>3 DEF Replays
      <4>5. \A now \in cur_time'..fresh_until_ts' :
              AfterPopping(hibernating_status', hibernating_list', now)[r] = StatusAt(r, now)'
        BY <2>1, <3>1, <4>2
      <4> QED BY <4>4, <4>5 DEF Replays
    <3>6. ASSUME filled > 0
          PROVE  hibernating_list' = <<>> /\ \A r \in cons_rel_stats \cap Relay : Stays(r)'
      <4>1. hibernating_list = <<>> /\ \A r \in cons_rel_stats \cap Relay : Stays(r) /\ r \in Fingerprint
        BY <3>2, <3>6 DEF StatusInv
      <4>2. Staying(hibernating_list, cur_time) = 0
        <5>1. Staying(hibernating_list, cur_time) \in 0..Len(hibernating_list)
          BY <3>2, <3>3, StayingFacts
        <5> QED BY <4>1, <5>1
      <4>3. hibernating_list' = <<>>
        BY <3>1, <4>1, <4>2
      <4>4. \A r \in Fingerprint : Popped(hibernating_list, cur_time, r) = {}
        BY <4>1, <4>2 DEF Popped
      <4>5. \A r \in Fingerprint : hibernating_status'[r] = hibernating_status[r]
        BY <3>1, <3>2, <3>3, <4>4, PopFacts
      <4> QED BY <2>1, <4>1, <4>3, <4>5 DEF Stays
    <3>7. cons_rel_stats' \subseteq Fingerprint
      BY <2>1 DEF StatusInv
    <3>8. ASSUME filled = 0, NEW r \in cons_rel_stats \cap Relay
          PROVE  hibernating_status'[r] = StatusAt(r, cur_time)'
      <4>1. StatusAt(r, cur_time)' = StatusAt(r, cur_time)
        BY <2>1, <3>1 DEF StatusAt
      <4>2. hibernating_status'[r] = StatusAt(r, cur_time)
        BY <3>5, <3>8
      <4> QED BY <4>1, <4>2
    <3> QED BY <2>1, <3>1, <3>3, <3>4, <3>5, <3>6, <3>7, <3>8 DEF StatusInv
  <2>4. CASE EndOfMinute
    <3>1. /\ phase = "updated" /\ cur_time' = cur_time + Minute
          /\ phase' = IF cur_time' < cur_period_end THEN "minute" ELSE "between"
          /\ UNCHANGED <<filled, hibernating_list, hibernating_status>>
          /\ InForce /\ Simulating
      BY <2>4 DEF EndOfMinute, reading, state, InForce, Simulating
    <3>2. cur_time \in Nat /\ fresh_until_ts \in Nat /\ Minute \in Nat /\ filled \in Nat
      BY <3>1, TimesInForce, TimeFacts
    <3>3. ASSUME filled = 0, NEW r \in cons_rel_stats \cap Relay PROVE Replays(r)'
      <4>1. Replays(r)
        BY <3>1, <3>3 DEF StatusInv
      <4>2. \A now \in cur_time'..fresh_until_ts' :
              AfterPopping(hibernating_status', hibernating_list', now)[r] = StatusAt(r, now)'
        BY <2>1, <3>1, <3>2, <4>1 DEF Replays
      <4> QED BY <4>2 DEF Replays
    <3>4. ASSUME filled = 0, phase' = "between", NEW r \in cons_rel_stats \cap Relay
          PROVE  Stays(r)'
      <4>1. hibernating_status[r] = StatusAt(r, cur_time)
        BY <3>1, <3>4 DEF StatusInv
      <4>2. cur_time = LastMinute
        BY <3>1, <3>4, LastMinuteReached
      <4> QED BY <2>1, <3>1, <4>1, <4>2 DEF Stays
    <3>5. ASSUME filled > 0, NEW r \in cons_rel_stats \cap Relay PROVE Stays(r)'
      BY <2>1, <3>1, <3>5 DEF StatusInv, Stays
    <3>6. phase' \in {"minute", "between"}
      BY <3>1
    <3> QED BY <2>1, <3>1, <3>2, <3>3, <3>4, <3>5, <3>6 DEF StatusInv, Simulating
  <2>5. CASE UNCHANGED vars
    <3>1. /\ UNCHANGED <<phase, filled, cur_time, hibernating_list, hibernating_status>>
          /\ InForce' = InForce /\ Simulating' = Simulating
      BY <2>1, <2>5 DEF vars, reading, period, state, InForce, Simulating
    <3>2. \A r : Replays(r)' = Replays(r) /\ Stays(r)' = Stays(r)
                 /\ StatusAt(r, cur_time)' = StatusAt(r, cur_time)
      BY <2>1, <3>1 DEF Replays, Stays, StatusAt
    <3> QED BY <2>1, <3>1, <3>2 DEF StatusInv
  <2> QED BY <1>3, <2>2, <2>3, <2>4, <2>5
<1> QED BY <1>1, <1>2, <1>3 DEF Next, Stopped

LEMMA ConsensusLasts ==
  ASSUME FilesInv, ReadingInv, PeriodInv, index > 0
  PROVE  cons_valid_after <= cons_fresh_until
<1>1. index \in 1..Len(files)
  BY FileFacts DEF ReadingInv
<1>2. PICK v \in Nat, u \in Nat :
        v = files[index].valid_after /\ u = files[index].fresh_until /\ v < u
  BY <1>1, FileFacts
<1>3. Padded /\ filled \in Nat
  BY MissingFacts DEF ReadingInv
<1>4. PICK h \in Nat : h = Hour * filled
  BY <1>3, TimeFacts
<1>5. cons_valid_after = v + h /\ cons_fresh_until = u + h
  BY <1>2, <1>4 DEF PeriodInv
<1> QED BY <1>2, <1>5

-----------------------------------------------------------------------------
(* The theorems.                                                           *)

IInv == FilesInv /\ ReadingInv /\ PeriodInv /\ StatusInv /\ RegularFilesPass

LEMMA InitIInv == Init => IInv
<1> SUFFICES ASSUME Init PROVE IInv
  OBVIOUS
<1>1. FilesInv
  BY FilesInit
<1>2. Len(files) \in Nat
  BY <1>1, FileFacts
<1>3. MissingHours = 0
  BY DEF Init, MissingHours
<1>4. ReadingInv
  BY <1>2, <1>3 DEF Init, InitProcessing, ReadingInv, Simulating
<1>5. PeriodInv
  BY DEF Init, PeriodInv, Simulating
<1>6. hibernating_list \in Seq(Status)
  BY DEF Init
<1>7. StatusInv
  BY <1>6 DEF Init, StatusInv, InForce, Simulating
<1>8. RegularFilesPass
  BY DEF Init, RegularFilesPass
<1> QED BY <1>1, <1>4, <1>5, <1>7, <1>8 DEF IInv

LEMMA StepIInv ==
  TypeOK /\ StatusesTellHistory /\ IInv /\ [Next]_vars => IInv'
BY FilesStep, ReadingStep, PeriodStep, StatusStep, RegularStep DEF IInv

LEMMA IInvHolds == Spec => []IInv
<1>1. Spec => []TypeOK
  BY PeriodsProcess, ProcessingTypeCorrect, PTL
<1> QED BY <1>1, PeriodsTellHistory, InitIInv, StepIInv, PTL DEF Spec

\* Types, for any files, histories and lengths of hours and minutes; in particular
\* every minute simulated lies within its period.
THEOREM PeriodsTypeCorrect == Spec => []PeriodsTypeOK
<1>1. DescriptorsInv /\ IInv => PeriodsTypeOK
  <2> SUFFICES ASSUME DescriptorsInv, IInv PROVE PeriodsTypeOK
    OBVIOUS
  <2>1. FilesInv /\ ReadingInv /\ PeriodInv /\ StatusInv
    BY DEF IInv
  <2>2. cons_valid_after <= cons_fresh_until
    <3>1. CASE index = 0
      BY <2>1, <3>1 DEF PeriodInv
    <3>2. CASE index > 0
      BY <2>1, <3>2, ConsensusLasts
    <3> QED BY <2>1, <3>1, <3>2, FileFacts DEF ReadingInv
  <2>3. phase \in {"minute", "updated"} =>
          cur_time \in cons_valid_after..cons_fresh_until - 1
    BY <2>1 DEF PeriodInv, Simulating
  <2>4. index \in 0..Len(files) /\ filled \in 0..MissingHours
        /\ phase \in {"start", "between", "minute", "updated", "error"}
        /\ cur_period_end \in Time \cup {None}
    BY <2>1 DEF ReadingInv, PeriodInv
  <2> QED BY <2>1, <2>2, <2>3, <2>4 DEF PeriodsTypeOK, StatusInv, DescriptorsInv, Status
<1> QED BY <1>1, IInvHolds, DescriptorsInvHolds, PTL

\* With regular files the simulation never stops on a gap or an overlap: padding makes
\* exactly the hours that are missing, however many.
THEOREM RegularFilesAlwaysPass == Spec => []RegularFilesPass
<1>1. IInv => RegularFilesPass
  BY DEF IInv
<1> QED BY <1>1, IInvHolds, PTL

\* In every minute every relay that can be chosen has a status, and a relay hibernates
\* exactly when its latest descriptor says so, or said in the last minute before a gap:
\* for any archives, files and relays inserted, through every order of the pass,
\* sorting, popping and inserting.
THEOREM StatusesAlwaysCurrent == Spec => []StatusesCurrent
<1>1. IInv => StatusesCurrent
  <2> SUFFICES ASSUME IInv, phase = "updated"
               PROVE  /\ \A r \in cons_rel_stats : hibernating_status[r] # None
                      /\ \A r \in cons_rel_stats \cap Relay :
                           hibernating_status[r] = StatusAt(r, Min({cur_time, LastMinute}))
    BY DEF StatusesCurrent
  <2>1. FilesInv /\ ReadingInv /\ PeriodInv /\ StatusInv /\ Simulating /\ InForce
    BY DEF IInv, Simulating, InForce
  <2>2. /\ cur_time \in Nat /\ index \in 1..Len(files) /\ filled \in Nat
        /\ filled > 0 => cur_time >= files[index].fresh_until
    BY <2>1, TimesInForce
  <2>3. PICK v \in Nat, u \in Nat :
          v = files[index].valid_after /\ u = files[index].fresh_until
    BY <2>1, <2>2, FileFacts
  <2>4. LastMinute \in v..u - 1
    BY <2>1, <2>2, <2>3, LastMinuteFacts
  <2>5. Min({cur_time, LastMinute}) \in {cur_time, LastMinute}
        /\ Min({cur_time, LastMinute}) <= cur_time /\ Min({cur_time, LastMinute}) <= LastMinute
    <3>1. {cur_time, LastMinute} \subseteq Nat
      BY <2>2, <2>4
    <3> QED BY <3>1, MinFacts
  <2>6. CASE filled = 0
    <3>1. cur_time <= LastMinute
      BY <2>1, <2>6, LastMinuteReached
    <3>2. Min({cur_time, LastMinute}) = cur_time
      BY <2>2, <2>4, <2>5, <3>1
    <3> QED BY <2>1, <2>6, <3>2 DEF StatusInv
  <2>7. CASE filled > 0
    <3>1. Min({cur_time, LastMinute}) = LastMinute
      BY <2>2, <2>3, <2>4, <2>5, <2>7
    <3> QED BY <2>1, <2>7, <3>1 DEF StatusInv, Stays
  <2>8. filled = 0 \/ filled > 0
    BY <2>2
  <2> QED BY <2>6, <2>7, <2>8
<1> QED BY <1>1, IInvHolds, PTL
=============================================================================
