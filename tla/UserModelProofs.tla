---------------------------- MODULE UserModelProofs ----------------------------
(***************************************************************************)
(* The streams of a user come in order and are all there, for every        *)
(* simulated time and every schedule that is itself in order and does not  *)
(* run over the week it began in by more than its own beginning; and the   *)
(* schedules made of sessions that do not overlap are such.                *)
(***************************************************************************)
EXTENDS UserModel, FiniteSetTheorems, WellFoundedInduction, TLAPS

\* A schedule the loops can unroll in order.
Unrollable(times) ==
  /\ times \in Seq(Nat) /\ times # <<>> /\ Ascending(times)
  /\ \A i, j \in 1..Len(times) : times[i] <= times[j] + Week

\* When entry i of a week is due.
Due(i, w) == schedule[i] + w * Week - offset + starttime

Types ==
  /\ Unrollable(schedule)
  /\ starttime \in Nat /\ starttime >= Week /\ endtime \in Nat
  /\ pc \in {"week", "entry", "done"}
  /\ week \in Nat /\ entry \in 1..Len(schedule) + 1
  /\ currenttime \in Nat /\ model \in Seq(Nat)

\* Once there is a stream, the entries to come are not due before the last one.
Ahead ==
  /\ model = <<>> /\ pc = "entry" => currenttime = 0
  /\ model = <<>> => currenttime = 0 \/ currenttime >= endtime
  /\ model # <<>> /\ pc = "entry" =>
       /\ currenttime = model[Len(model)]
       /\ entry <= Len(schedule) => currenttime <= Due(entry, week)
       /\ currenttime <= Due(1, week + 1)
  /\ model # <<>> /\ pc = "week" /\ currenttime < endtime =>
       currenttime = model[Len(model)] /\ currenttime <= Due(1, week)

LastStream ==
  /\ Ascending(model)
  /\ model # <<>> => /\ model[1] >= starttime /\ model[Len(model)] < endtime
                     /\ model[Len(model)] >= starttime

IInv == Types /\ Ahead /\ LastStream
-----------------------------------------------------------------------------
LEMMA Units == Hour = 3600 /\ Day = 86400 /\ Week = 604800
BY DEF Week, Day, Hour

LEMMA OffsetType ==
  ASSUME starttime \in Nat PROVE offset \in Int /\ 0 <= offset /\ offset < Week
<1>1. weekday(starttime) \in Int /\ 0 <= weekday(starttime) /\ weekday(starttime) <= 6
  BY DEF weekday, Day, Hour
<1>2. starttime % Day \in Int /\ 0 <= starttime % Day /\ starttime % Day < 86400
  BY DEF Day, Hour
<1> DEFINE d == weekday(starttime) s == starttime % Day
<1>3. offset = d * 86400 + s
  BY Units DEF offset
<1> HIDE DEF d, s
<1>4. d \in Int /\ 0 <= d /\ d <= 6 /\ s \in Int /\ 0 <= s /\ s < 86400
  BY <1>1, <1>2 DEF d, s
<1> QED BY <1>3, <1>4, Units

LEMMA DueType ==
  ASSUME Types, NEW i \in 1..Len(schedule), NEW w \in Nat
  PROVE  /\ Due(i, w) \in Nat /\ Due(i, w) >= 0 /\ schedule[i] \in Nat
         /\ Due(i, w + 1) = Due(i, w) + Week
<1>1. schedule[i] \in Nat /\ starttime \in Nat /\ starttime >= Week
  BY DEF Types, Unrollable
<1>2. offset \in Int /\ 0 <= offset /\ offset < Week
  BY <1>1, OffsetType
<1> HIDE DEF offset
<1> QED BY <1>1, <1>2, Units DEF Due

\* An element that is not smaller than the last is put behind it.
LEMMA AppendAscending ==
  ASSUME NEW l \in Seq(Nat), NEW t \in Nat, Ascending(l), l # <<>> => l[Len(l)] <= t
  PROVE  /\ Append(l, t) \in Seq(Nat) /\ Append(l, t) # <<>> /\ Ascending(Append(l, t))
         /\ Append(l, t)[Len(Append(l, t))] = t
         /\ Append(l, t)[1] = IF l = <<>> THEN t ELSE l[1]
<1> DEFINE m == Append(l, t)
<1>1. /\ m \in Seq(Nat) /\ Len(m) = Len(l) + 1 /\ m[Len(l) + 1] = t
      /\ \A i \in 1..Len(l) : m[i] = l[i]
      /\ Len(l) \in Nat
  OBVIOUS
<1> HIDE DEF m
<1>2. m # <<>>
  BY <1>1
<1>3. Ascending(m)
  <2> SUFFICES ASSUME NEW i \in 1..Len(l) PROVE m[i] <= m[i + 1]
    BY <1>1 DEF Ascending
  <2>1. CASE i = Len(l)
    <3>1. l # <<>>
      BY <2>1
    <3> QED BY <2>1, <3>1, <1>1
  <2>2. CASE i # Len(l)
    <3>1. i + 1 \in 1..Len(l) /\ i \in 1..Len(l) - 1
      BY <2>2, <1>1
    <3> QED BY <3>1, <1>1 DEF Ascending
  <2> QED BY <2>1, <2>2
<1>4. m[1] = IF l = <<>> THEN t ELSE l[1]
  <2>1. CASE l = <<>>
    BY <2>1, <1>1
  <2>2. CASE l # <<>>
    <3>1. 1 \in 1..Len(l)
      BY <2>2
    <3> QED BY <3>1, <2>2, <1>1
  <2> QED BY <2>1, <2>2
<1> QED BY <1>1, <1>2, <1>3, <1>4 DEF m

LEMMA InitIInv ==
  ASSUME \A k \in Key : Unrollable(ScheduleOf(k)) PROVE Init => IInv
<1> SUFFICES ASSUME Init PROVE IInv
  OBVIOUS
<1>1. Unrollable(schedule) /\ starttime \in Nat /\ starttime >= Week /\ endtime \in Nat
  <2>1. starttime \in StartTimes /\ endtime \in {starttime + d : d \in Durations}
    BY DEF Init
  <2>2. Unrollable(schedule)
    BY DEF Init
  <2>3. starttime \in Nat /\ starttime >= Week
    BY <2>1, TimeAssumption
  <2>4. endtime \in Nat
    BY <2>1, <2>3, TimeAssumption
  <2> QED BY <2>2, <2>3, <2>4
<1>2. Types
  <2>1. 1 \in 1..Len(schedule) + 1
    BY <1>1 DEF Unrollable
  <2> QED BY <1>1, <2>1 DEF Init, Types
<1>3. Ahead
  BY DEF Init, Ahead
<1>4. LastStream
  BY DEF Init, LastStream, Ascending
<1> QED BY <1>2, <1>3, <1>4 DEF IInv

\* An entry that is not skipped is due after the start, and not before the last stream.
LEMMA EntryTaken ==
  ASSUME IInv, pc = "entry", entry <= Len(schedule), ~BeforeStart,
         UNCHANGED <<schedule, starttime, endtime>>
  PROVE  /\ entry \in 1..Len(schedule) /\ Due(entry, week) \in Nat
         /\ seconds - offset + starttime = Due(entry, week)
         /\ Due(entry, week) >= starttime
         /\ model # <<>> => Due(entry, week) >= model[Len(model)]
         /\ \A i, w : Due(i, w)' = Due(i, w)
<1>a. /\ Types /\ Ahead /\ LastStream /\ Len(schedule) \in Nat
      /\ 1 \in 1..Len(schedule) /\ Week \in Nat /\ schedule \in Seq(Nat)
  BY DEF IInv, Types, Unrollable, Week, Day, Hour
<1>1. entry \in 1..Len(schedule) /\ week \in Nat /\ currenttime \in Nat
      /\ starttime \in Nat
  BY <1>a DEF Types
<1>2. schedule[entry] \in Nat /\ Due(entry, week) \in Nat
  BY <1>1, <1>a, DueType
<1>3. offset \in Int /\ 0 <= offset /\ offset < Week
  BY <1>1, OffsetType
<1>4. seconds - offset + starttime = Due(entry, week)
  <2>1. /\ schedule[entry] \in Nat /\ starttime \in Nat /\ week * Week \in Nat
        /\ offset \in Int /\ 0 <= offset /\ offset < Week
    BY <1>1, <1>2, <1>3, Units
  <2> HIDE DEF offset
  <2> QED BY <2>1 DEF seconds, Due
<1>5. \A i, w : Due(i, w)' = Due(i, w)
  BY DEF Due, offset, weekday
<1>6. model # <<>> => Due(entry, week) >= model[Len(model)]
  BY <1>a DEF Ahead
<1>7. Due(entry, week) >= starttime
  <2>1. CASE model = <<>>
    <3>1. currenttime = 0
      BY <2>1, <1>a DEF Ahead
    <3>2. seconds \in Nat
      BY <1>1, <1>2 DEF seconds, Week, Day, Hour
    <3>3. ~(0 < offset /\ seconds < offset)
      BY <3>1 DEF BeforeStart
    <3> HIDE DEF offset, seconds
    <3>4. seconds >= offset
      BY <3>2, <3>3, <1>3, <1>a
    <3> QED BY <3>2, <3>4, <1>1, <1>3, <1>4, <1>a
  <2>2. CASE model # <<>>
    <3>1. model[Len(model)] >= starttime /\ model[Len(model)] = currenttime
      <4>1. model[Len(model)] >= starttime
        BY <2>2, <1>a DEF LastStream
      <4>2. model[Len(model)] = currenttime
        BY <2>2, <1>a DEF Ahead
      <4> QED BY <4>1, <4>2
    <3> QED BY <3>1, <2>2, <1>1, <1>2, <1>6
  <2> QED BY <2>1, <2>2
<1> QED BY <1>1, <1>2, <1>4, <1>5, <1>6, <1>7

LEMMA StepIInv == IInv /\ [Next]_vars => IInv'
<1> SUFFICES ASSUME IInv, [Next]_vars PROVE IInv'
  OBVIOUS
<1>0. /\ Types /\ Ahead /\ LastStream /\ Len(schedule) \in Nat
      /\ 1 \in 1..Len(schedule) /\ Week \in Nat /\ schedule \in Seq(Nat)
  BY DEF IInv, Types, Unrollable, Week, Day, Hour
<1> USE DEF asked
<1>1. CASE BeginWeek
  <2>1. /\ pc = "week" /\ pc' = "entry" /\ entry' = 1 /\ currenttime < endtime
        /\ UNCHANGED <<schedule, starttime, endtime, week, currenttime, model>>
    BY <1>1 DEF BeginWeek
  <2>2. \A i, w : Due(i, w)' = Due(i, w)
    BY <2>1 DEF Due, offset, weekday
  <2>3. Due(1, week + 1) = Due(1, week) + Week /\ Due(1, week) \in Nat
    BY <1>0, DueType DEF Types
  <2>4. Types' /\ LastStream'
    BY <2>1, <1>0 DEF Types, LastStream
  <2>5. currenttime \in Nat /\ endtime \in Nat
    BY <1>0 DEF Types
  <2>6. Ahead'
    BY <2>1, <2>2, <2>3, <2>5, <1>0 DEF Ahead
  <2> QED BY <2>4, <2>6 DEF IInv
<1>2. CASE Finish
  <2>1. /\ pc' = "done"
        /\ UNCHANGED <<schedule, starttime, endtime, week, entry, currenttime, model>>
    BY <1>2 DEF Finish
  <2> QED BY <2>1, <1>0 DEF IInv, Types, Ahead, LastStream
<1>3. CASE SkipEntry
  <2>1. /\ pc = "entry" /\ pc' = "entry" /\ entry' = entry + 1 /\ entry <= Len(schedule)
        /\ UNCHANGED <<schedule, starttime, endtime, week, currenttime, model>>
        /\ currenttime < offset
    BY <1>3 DEF SkipEntry, BeforeStart
  <2>2. model = <<>>
    <3> SUFFICES ASSUME model # <<>> PROVE FALSE
      OBVIOUS
    <3>1. currenttime >= starttime
      BY <2>1, <1>0 DEF Ahead, LastStream
    <3>2. offset \in Int /\ 0 <= offset /\ offset < Week /\ starttime >= Week /\ starttime \in Nat
          /\ currenttime \in Nat
      BY <1>0, OffsetType DEF Types
    <3> HIDE DEF offset
    <3> QED BY <3>1, <3>2, <2>1, <1>0
  <2>3. entry' \in 1..Len(schedule) + 1
    BY <2>1, <1>0 DEF Types
  <2>4. Types' /\ LastStream'
    BY <2>1, <2>3, <1>0 DEF Types, LastStream
  <2>5. Ahead'
    BY <2>1, <2>2, <1>0 DEF Ahead
  <2> QED BY <2>4, <2>5 DEF IInv
<1>5. CASE TakeEntry
  <2>1. /\ pc = "entry" /\ pc' = "entry" /\ entry <= Len(schedule) /\ ~BeforeStart
        /\ currenttime' = seconds - offset + starttime /\ currenttime' < endtime
        /\ model' = Append(model, currenttime') /\ entry' = entry + 1
        /\ UNCHANGED <<schedule, starttime, endtime, week>>
    BY <1>5 DEF TakeEntry
  <2> DEFINE t == Due(entry, week)
  <2>2. /\ entry \in 1..Len(schedule) /\ t \in Nat /\ currenttime' = t
        /\ t >= starttime /\ (model # <<>> => t >= model[Len(model)])
        /\ \A i, w : Due(i, w)' = Due(i, w)
    BY <2>1, EntryTaken
  <2>3. model \in Seq(Nat) /\ Ascending(model) /\ week \in Nat
        /\ (model # <<>> => model[Len(model)] \in Nat)
    <3>1. model \in Seq(Nat) /\ Ascending(model) /\ week \in Nat
      BY <1>0 DEF Types, LastStream
    <3> QED BY <3>1
  <2>4. /\ model' \in Seq(Nat) /\ model' # <<>> /\ Ascending(model')
        /\ model'[Len(model')] = t
        /\ model'[1] = IF model = <<>> THEN t ELSE model[1]
    <3> HIDE DEF t
    <3>1. model # <<>> => model[Len(model)] <= t
      BY <2>2, <2>3
    <3> QED BY <3>1, <2>1, <2>2, <2>3, AppendAscending
  <2>5. LastStream'
    BY <2>1, <2>2, <2>4, <1>0 DEF LastStream
  <2>6. Types'
    BY <2>1, <2>2, <2>4, <1>0 DEF Types
  <2>7. entry' <= Len(schedule) => t <= Due(entry + 1, week)
    <3> SUFFICES ASSUME entry + 1 <= Len(schedule) PROVE t <= Due(entry + 1, week)
      BY <2>1
    <3>1. schedule[entry] <= schedule[entry + 1]
      BY <2>2, <1>0 DEF Types, Unrollable, Ascending
    <3>2. entry + 1 \in 1..Len(schedule)
      BY <2>2
    <3>3. /\ schedule[entry] \in Nat /\ schedule[entry + 1] \in Nat
          /\ Due(entry + 1, week) \in Nat /\ starttime \in Nat /\ offset \in Int /\ 0 <= offset /\ offset < Week
      BY <2>2, <2>3, <3>2, <1>0, DueType, OffsetType DEF Types
    <3> HIDE DEF offset
    <3> QED BY <3>1, <3>3, <2>3, Units DEF Due
  <2>8. t <= Due(1, week + 1)
    <3>1. schedule[entry] <= schedule[1] + Week
      BY <2>2, <1>0 DEF Types, Unrollable
    <3>2. /\ schedule[entry] \in Nat /\ schedule[1] \in Nat
          /\ starttime \in Nat /\ offset \in Int /\ 0 <= offset /\ offset < Week
      BY <2>2, <2>3, <1>0, DueType, OffsetType DEF Types
    <3> HIDE DEF offset
    <3> QED BY <3>1, <3>2, <2>3, Units DEF Due
  <2>9. Ahead'
    BY <2>1, <2>2, <2>4, <2>7, <2>8 DEF Ahead
  <2> QED BY <2>5, <2>6, <2>9 DEF IInv
<1>6. CASE PassEnd
  <2>1. /\ pc = "entry" /\ pc' = "week" /\ entry <= Len(schedule) /\ ~BeforeStart
        /\ currenttime' = seconds - offset + starttime /\ currenttime' >= endtime
        /\ week' = week + 1 /\ UNCHANGED <<schedule, starttime, endtime, entry, model>>
    BY <1>6 DEF PassEnd
  <2>2. currenttime' \in Nat
    BY <2>1, EntryTaken
  <2>3. Types' /\ LastStream'
    BY <2>1, <2>2, <1>0 DEF Types, LastStream
  <2>4. ~(currenttime' < endtime')
    BY <2>1, <2>2, <1>0 DEF Types
  <2>5. Ahead'
    BY <2>1, <2>4 DEF Ahead
  <2> QED BY <2>3, <2>5 DEF IInv
<1>7. CASE EndWeek
  <2>1. /\ pc = "entry" /\ pc' = "week" /\ week' = week + 1
        /\ UNCHANGED <<schedule, starttime, endtime, entry, currenttime, model>>
    BY <1>7 DEF EndWeek
  <2>2. \A i, w : Due(i, w)' = Due(i, w)
    BY <2>1 DEF Due, offset, weekday
  <2>3. Types' /\ LastStream'
    BY <2>1, <1>0 DEF Types, LastStream
  <2>4. Ahead'
    BY <2>1, <2>2, <1>0 DEF Ahead
  <2> QED BY <2>3, <2>4 DEF IInv
<1>8. CASE Done \/ UNCHANGED vars
  <2>1. UNCHANGED <<schedule, starttime, endtime, pc, week, entry, currenttime, model>>
    BY <1>8 DEF Done, vars
  <2>2. \A i, w : Due(i, w)' = Due(i, w)
    BY <2>1 DEF Due, offset, weekday
  <2> QED BY <2>1, <2>2, <1>0 DEF IInv, Types, Ahead, LastStream
<1> QED BY <1>1, <1>2, <1>3, <1>5, <1>6, <1>7, <1>8 DEF Next, Step
-----------------------------------------------------------------------------
(* No stream is lost or repeated.                                          *)

Occurrence == Nat \X (1..Len(schedule))

DueAt(o) == Due(o[2], o[1])

InTime(o) == starttime <= DueAt(o) /\ DueAt(o) < endtime

\* What the loops have gone through.
Passed(o) == o[1] < week \/ (pc = "entry" /\ o[1] = week /\ o[2] < entry)

Taken == {o \in Occurrence : Passed(o) /\ InTime(o)}

Complete ==
  /\ starttime <= endtime
  /\ IsFiniteSet(Taken) /\ Cardinality(Taken) = Len(model)
  /\ {model[k] : k \in 1..Len(model)} = {DueAt(o) : o \in Taken}
  /\ pc = "entry" => currenttime < endtime
  /\ pc = "done" => currenttime >= endtime
  /\ pc # "entry" /\ currenttime >= endtime =>
       \A i \in 1..Len(schedule) : Due(i, week) >= endtime

LEMMA Least ==
  ASSUME NEW T, T \subseteq Nat, T # {}
  PROVE  \E x \in T : \A y \in T : x <= y
<1>1. PICK x \in T : \A y \in T : ~ (<<y, x>> \in OpToRel(<, Nat))
  BY NatLessThanWellFounded, WFMin
<1>2. ASSUME NEW y \in T PROVE x <= y
  <2>1. <<y, x>> \in Nat \X Nat /\ ~ (<<y, x>> \in OpToRel(<, Nat))
    BY <1>1
  <2>2. ~ (y < x)
    BY <2>1 DEF OpToRel
  <2>3. x \in Nat /\ y \in Nat
    OBVIOUS
  <2> QED BY <2>2, <2>3
<1> QED BY <1>2

\* In an ascending sequence every later element is at least as large.
LEMMA AscendingPairs ==
  ASSUME NEW l \in Seq(Nat), Ascending(l), NEW i \in 1..Len(l), NEW j \in 1..Len(l), i <= j
  PROVE  l[i] <= l[j]
<1> DEFINE T == {d \in Nat : i + d <= Len(l) /\ l[i + d] < l[i]}
<1>1. SUFFICES T = {}
  <2>1. j - i \in Nat /\ i + (j - i) = j /\ j <= Len(l) /\ l[i] \in Nat /\ l[j] \in Nat
    OBVIOUS
  <2>2. j - i \notin T
    BY <1>1
  <2> QED BY <2>1, <2>2
<1>2. SUFFICES ASSUME T # {} PROVE FALSE
  OBVIOUS
<1>3. PICK d \in T : \A e \in T : d <= e
  BY <1>2, Least
<1>4. d \in Nat /\ i + d <= Len(l) /\ l[i + d] < l[i] /\ i \in Nat /\ i >= 1
  BY <1>3
<1>5. d # 0
  <2>1. l[i] \in Nat
    OBVIOUS
  <2> QED BY <1>4, <2>1
<1>6. d - 1 \in Nat /\ i + (d - 1) \in 1..Len(l) - 1 /\ i + (d - 1) + 1 = i + d
  BY <1>4, <1>5
<1>7. l[i + (d - 1)] <= l[i + d]
  BY <1>6 DEF Ascending
<1>8. l[i + (d - 1)] \in Nat /\ l[i + d] \in Nat /\ l[i] \in Nat
  BY <1>4, <1>6
<1>9. d - 1 \in T
  BY <1>4, <1>6, <1>7, <1>8
<1>10. d <= d - 1
  BY <1>3, <1>9
<1> QED BY <1>4, <1>10

\* Weeks follow each other.
LEMMA LaterWeeks ==
  ASSUME Types, NEW i \in 1..Len(schedule), NEW v \in Nat, NEW w \in Nat, v <= w
  PROVE  Due(i, v) <= Due(i, w) /\ (v < w => Due(i, v) + Week <= Due(i, w))
<1>1. schedule[i] \in Nat /\ starttime \in Nat
  BY DEF Types, Unrollable
<1>2. offset \in Int
  BY <1>1, OffsetType
<1> HIDE DEF offset
<1> QED BY <1>1, <1>2, Units DEF Due

LEMMA DueAtFacts ==
  ASSUME UNCHANGED <<schedule, starttime, endtime>>
  PROVE  /\ Occurrence' = Occurrence
         /\ \A o : DueAt(o)' = DueAt(o) /\ InTime(o)' = InTime(o)
         /\ \A i, w : Due(i, w)' = Due(i, w)
BY DEF Occurrence, DueAt, InTime, Due, offset, weekday

\* Nothing is taken while what is passed is before the start or after the end.
LEMMA TakenStays ==
  ASSUME Complete, UNCHANGED <<schedule, starttime, endtime, model>>,
         \A o \in Occurrence : InTime(o) => (Passed(o)' <=> Passed(o))
  PROVE  /\ starttime' <= endtime'
         /\ IsFiniteSet(Taken') /\ Cardinality(Taken') = Len(model')
         /\ {model'[k] : k \in 1..Len(model')} = {DueAt(o)' : o \in Taken'}
<1>1. Taken' = Taken
  BY DueAtFacts DEF Taken
<1>2. {DueAt(o)' : o \in Taken'} = {DueAt(o) : o \in Taken}
  BY <1>1, DueAtFacts
<1> QED BY <1>1, <1>2 DEF Complete

LEMMA DueGrows ==
  ASSUME Types, NEW i \in 1..Len(schedule), NEW j \in 1..Len(schedule), NEW w \in Nat
  PROVE  /\ schedule[i] <= schedule[j] => Due(i, w) <= Due(j, w)
         /\ schedule[i] <= schedule[j] + Week => Due(i, w) <= Due(j, w + 1)
<1>1. schedule[i] \in Nat /\ schedule[j] \in Nat /\ starttime \in Nat
  BY DEF Types, Unrollable
<1>2. offset \in Int
  BY <1>1, OffsetType
<1> HIDE DEF offset
<1> QED BY <1>1, <1>2, Units DEF Due

LEMMA AppendedElements ==
  ASSUME NEW l \in Seq(Nat), NEW t \in Nat
  PROVE  /\ Len(Append(l, t)) = Len(l) + 1
         /\ {Append(l, t)[k] : k \in 1..Len(Append(l, t))} = {l[k] : k \in 1..Len(l)} \cup {t}
<1> DEFINE m == Append(l, t)
<1>1. /\ Len(m) = Len(l) + 1 /\ m[Len(l) + 1] = t /\ Len(l) \in Nat
      /\ \A k \in 1..Len(l) : m[k] = l[k]
  OBVIOUS
<1> HIDE DEF m
<1>2. \A k \in 1..Len(m) : k \in 1..Len(l) \/ k = Len(l) + 1
  BY <1>1
<1>3. {m[k] : k \in 1..Len(m)} \subseteq {l[k] : k \in 1..Len(l)} \cup {t}
  BY <1>1, <1>2
<1>4. 1..Len(l) \subseteq 1..Len(m) /\ Len(l) + 1 \in 1..Len(m)
  BY <1>1
<1>5. {l[k] : k \in 1..Len(l)} \cup {t} \subseteq {m[k] : k \in 1..Len(m)}
  BY <1>1, <1>4
<1> QED BY <1>1, <1>3, <1>5 DEF m

LEMMA CompleteStep == IInv /\ Complete /\ [Next]_vars => Complete'
<1> SUFFICES ASSUME IInv, Complete, [Next]_vars PROVE Complete'
  OBVIOUS
<1>0. /\ Types /\ Ahead /\ LastStream /\ schedule \in Seq(Nat) /\ Len(schedule) \in Nat
      /\ week \in Nat /\ entry \in Nat /\ currenttime \in Nat /\ endtime \in Nat
      /\ starttime \in Nat
  BY DEF IInv, Types, Unrollable
<1>1. UNCHANGED <<schedule, starttime, endtime>>
  BY DEF Next, Step, BeginWeek, Finish, SkipEntry, TakeEntry, PassEnd, EndWeek, Done, vars, asked
<1>2. \A o \in Occurrence : o[1] \in Nat /\ o[2] \in 1..Len(schedule) /\ DueAt(o) = Due(o[2], o[1])
  BY DEF Occurrence, DueAt
<1>3. CASE BeginWeek
  <2>1. /\ pc = "week" /\ pc' = "entry" /\ entry' = 1 /\ currenttime < endtime
        /\ UNCHANGED <<week, currenttime, model>>
    BY <1>3 DEF BeginWeek
  <2>2. \A o \in Occurrence : Passed(o)' <=> Passed(o)
    BY <1>0, <1>2, <2>1 DEF Passed
  <2> QED BY <1>1, <2>1, <2>2, TakenStays DEF Complete
<1>4. CASE Finish
  <2>1. /\ pc = "week" /\ pc' = "done" /\ currenttime >= endtime
        /\ UNCHANGED <<week, currenttime, model>>
    BY <1>4 DEF Finish
  <2>2. \A o \in Occurrence : Passed(o)' <=> Passed(o)
    BY <2>1 DEF Passed
  <2> QED BY <1>1, <2>1, <2>2, TakenStays, DueAtFacts DEF Complete
<1>5. CASE SkipEntry
  <2>1. /\ pc = "entry" /\ pc' = "entry" /\ entry' = entry + 1 /\ entry \in 1..Len(schedule)
        /\ UNCHANGED <<week, currenttime, model>> /\ seconds < offset
    BY <1>0, <1>5 DEF SkipEntry, BeforeStart, Types
  <2>2. Due(entry, week) < starttime
    <3>1. schedule[entry] \in Nat /\ week * Week \in Nat /\ offset \in Int
      BY <1>0, <2>1, OffsetType, Units
    <3> HIDE DEF offset
    <3> QED BY <1>0, <2>1, <3>1 DEF seconds, Due
  <2>3. Due(entry, week) \in Nat
    BY <1>0, <2>1, DueType
  <2>4. ASSUME NEW o \in Occurrence, InTime(o) PROVE Passed(o)' <=> Passed(o)
    <3>1. ~ (o[1] = week /\ o[2] = entry)
      BY <1>0, <2>2, <2>3, <2>4 DEF InTime, DueAt
    <3> QED BY <1>0, <1>2, <2>1, <3>1 DEF Passed
  <2> QED BY <1>1, <2>1, <2>4, TakenStays DEF Complete
<1>6. CASE TakeEntry
  <2>1. /\ pc = "entry" /\ pc' = "entry" /\ entry' = entry + 1 /\ entry \in 1..Len(schedule)
        /\ UNCHANGED week /\ ~BeforeStart
        /\ currenttime' = seconds - offset + starttime /\ currenttime' < endtime
        /\ model' = Append(model, currenttime') /\ model \in Seq(Nat)
    BY <1>0, <1>6 DEF TakeEntry, Types
  <2>2. /\ Due(entry, week) = currenttime' /\ currenttime' >= starttime /\ currenttime' \in Nat
    BY <1>0, <1>1, <2>1, EntryTaken DEF IInv
  <2> DEFINE now == <<week, entry>>
             t == currenttime'
  <2>3. now \in Occurrence /\ DueAt(now) = t /\ InTime(now) /\ ~Passed(now) /\ now \notin Taken
    BY <1>0, <2>1, <2>2 DEF Occurrence, DueAt, InTime, Passed, Taken
  <2>4. ASSUME NEW o \in Occurrence PROVE Passed(o)' <=> Passed(o) \/ o = now
    <3>1. o = <<o[1], o[2]>>
      BY DEF Occurrence
    <3>2. o = now <=> o[1] = week /\ o[2] = entry
      BY <3>1
    <3> HIDE DEF now
    <3>3. o[1] \in Nat /\ o[2] \in Nat
      BY <1>0, <1>2
    <3>4. Passed(o)' <=> o[1] < week \/ (o[1] = week /\ o[2] < entry + 1)
      BY <2>1 DEF Passed
    <3>5. o[2] < entry + 1 <=> o[2] < entry \/ o[2] = entry
      BY <1>0, <3>3
    <3> QED BY <2>1, <3>2, <3>4, <3>5 DEF Passed
  <2>5. Taken' = Taken \cup {now}
    <3>1. \A o \in Occurrence : InTime(o)' = InTime(o) /\ Occurrence' = Occurrence
      BY <1>1, DueAtFacts
    <3> HIDE DEF now
    <3> QED BY <1>1, <2>3, <2>4, <3>1, DueAtFacts DEF Taken
  <2> HIDE DEF now
  <2>6. IsFiniteSet(Taken') /\ Cardinality(Taken') = Len(model) + 1
    BY <2>3, <2>5, FS_AddElement DEF Complete
  <2>7. {DueAt(o)' : o \in Taken'} = {DueAt(o) : o \in Taken} \cup {t}
    BY <1>1, <2>3, <2>5, DueAtFacts
  <2> HIDE DEF t
  <2>8. /\ Len(model') = Len(model) + 1
        /\ {model'[k] : k \in 1..Len(model')} = {model[k] : k \in 1..Len(model)} \cup {t}
    <3>1. model' = Append(model, t) /\ t \in Nat
      BY <2>1, <2>2 DEF t
    <3>2. model \in Seq(Nat)
      BY <2>1
    <3>3. /\ Len(Append(model, t)) = Len(model) + 1
          /\ {Append(model, t)[k] : k \in 1..Len(Append(model, t))}
               = {model[k] : k \in 1..Len(model)} \cup {t}
      BY <3>1, <3>2, AppendedElements
    <3> QED BY <3>1, <3>3
  <2> QED BY <1>1, <2>1, <2>6, <2>7, <2>8 DEF Complete
<1>7. CASE PassEnd
  <2>1. /\ pc = "entry" /\ pc' = "week" /\ entry \in 1..Len(schedule) /\ week' = week + 1
        /\ UNCHANGED model /\ ~BeforeStart
        /\ currenttime' = seconds - offset + starttime /\ currenttime' >= endtime
    BY <1>0, <1>7 DEF PassEnd, Types
  <2>2. Due(entry, week) = currenttime' /\ currenttime' \in Nat
    BY <1>0, <1>1, <2>1, EntryTaken DEF IInv
  <2>3. ASSUME NEW i \in 1..Len(schedule), entry <= i PROVE Due(i, week) >= endtime
    <3>1. schedule[entry] <= schedule[i]
      BY <1>0, <2>1, <2>3, AscendingPairs DEF Types, Unrollable
    <3>2. Due(entry, week) <= Due(i, week)
      BY <1>0, <2>1, <3>1, DueGrows
    <3>3. Due(i, week) \in Nat
      BY <1>0, DueType
    <3> QED BY <1>0, <2>1, <2>2, <3>2, <3>3
  <2>4. ASSUME NEW i \in 1..Len(schedule) PROVE Due(i, week + 1) >= endtime
    <3>1. schedule[entry] <= schedule[i] + Week
      BY <1>0, <2>1 DEF Types, Unrollable
    <3>2. Due(entry, week) <= Due(i, week + 1)
      BY <1>0, <2>1, <3>1, DueGrows
    <3>3. week + 1 \in Nat
      BY <1>0
    <3>4. Due(i, week + 1) \in Nat
      BY <1>0, <3>3, DueType
    <3> QED BY <1>0, <2>1, <2>2, <3>2, <3>4
  <2>5. ASSUME NEW o \in Occurrence, InTime(o) PROVE Passed(o)' <=> Passed(o)
    <3>1. ~ (o[1] = week /\ entry <= o[2])
      <4>1. SUFFICES ASSUME o[1] = week, entry <= o[2] PROVE FALSE
        OBVIOUS
      <4>2. Due(o[2], week) >= endtime /\ Due(o[2], week) \in Nat
        BY <1>0, <1>2, <2>3, <4>1, DueType
      <4> QED BY <1>0, <1>2, <2>5, <4>1, <4>2 DEF InTime
    <3>2. o[1] \in Nat /\ o[2] \in Nat
      BY <1>0, <1>2
    <3>3. Passed(o)' <=> o[1] < week + 1
      BY <2>1 DEF Passed
    <3>4. o[1] < week + 1 <=> o[1] < week \/ o[1] = week
      BY <1>0, <3>2
    <3>5. o[1] = week => o[2] < entry
      BY <1>0, <3>1, <3>2
    <3> QED BY <2>1, <3>3, <3>4, <3>5 DEF Passed
  <2>6. \A i \in 1..Len(schedule') : Due(i, week)' >= endtime'
    <3>1. \A i : Due(i, week)' = Due(i, week + 1)
      BY <1>1, <2>1 DEF Due, offset, weekday
    <3> QED BY <1>1, <2>4, <3>1
  <2> QED BY <1>1, <2>1, <2>5, <2>6, TakenStays DEF Complete
<1>8. CASE EndWeek
  <2>1. /\ pc = "entry" /\ pc' = "week" /\ entry > Len(schedule) /\ week' = week + 1
        /\ UNCHANGED <<currenttime, model>>
    BY <1>8 DEF EndWeek
  <2>2. \A o \in Occurrence : Passed(o)' <=> Passed(o)
    BY <1>0, <1>2, <2>1 DEF Passed
  <2>3. ~ (currenttime' >= endtime')
    BY <1>0, <1>1, <2>1 DEF Complete
  <2> QED BY <1>1, <2>1, <2>2, <2>3, TakenStays DEF Complete
<1>9. CASE Done \/ UNCHANGED vars
  <2>1. UNCHANGED <<pc, week, entry, currenttime, model>>
    BY <1>9 DEF Done, vars
  <2>2. \A o \in Occurrence : Passed(o)' <=> Passed(o)
    BY <2>1 DEF Passed
  <2> QED BY <1>1, <2>1, <2>2, TakenStays, DueAtFacts DEF Complete
<1> QED BY <1>3, <1>4, <1>5, <1>6, <1>7, <1>8, <1>9 DEF Next, Step
LEMMA InitComplete == IInv /\ Init => Complete
<1> SUFFICES ASSUME IInv, Init PROVE Complete
  OBVIOUS
<1>1. starttime <= endtime /\ starttime \in Nat /\ endtime \in Nat /\ starttime >= Week
  <2>1. PICK d \in Durations : endtime = starttime + d
    BY DEF Init
  <2>2. d \in Nat
    BY <2>1, TimeAssumption
  <2> QED BY <2>1, <2>2 DEF IInv, Types
<1>2. Taken = {}
  BY DEF Init, Taken, Passed, Occurrence
<1>3. IsFiniteSet({}) /\ Cardinality({}) = 0
  BY FS_EmptySet
<1>4. model = <<>> /\ Len(model) = 0 /\ pc = "week" /\ ~ (currenttime >= endtime)
  BY <1>1, Units DEF Init
<1> QED BY <1>1, <1>2, <1>3, <1>4 DEF Complete

\* When the loops have ended, what they took is all there is in the simulated time.
LEMMA DoneComplete == IInv /\ Complete => StreamsComplete
<1> SUFFICES ASSUME IInv, Complete, pc = "done" PROVE StreamsComplete
  BY DEF StreamsComplete
<1> DEFINE since(o) == schedule[o[2]] + o[1] * Week - offset
           occurrences == {o \in Weeks \X (1..Len(schedule)) :
                             0 <= since(o) /\ since(o) < endtime - starttime}
           d == endtime - starttime
<1>1. /\ Types /\ week \in Nat /\ endtime \in Nat /\ starttime \in Nat /\ d \in Nat
      /\ \A i \in 1..Len(schedule) : Due(i, week) >= endtime
  BY DEF IInv, Types, Complete
<1>2. d \div Week \in Nat /\ d < (d \div Week + 1) * Week
  <2> HIDE DEF d
  <2> QED BY <1>1, Units
<1>3. offset \in Int /\ 0 <= offset /\ offset < Week
  BY <1>1, OffsetType
<1>4. Weeks \subseteq Nat
  BY <1>2 DEF Weeks
<1>5. ASSUME NEW o \in Occurrence
      PROVE  /\ o[1] \in Nat /\ o[2] \in 1..Len(schedule) /\ o[1] * Week \in Nat
             /\ schedule[o[2]] \in Nat /\ since(o) \in Int
             /\ DueAt(o) = since(o) + starttime /\ DueAt(o) \in Nat
             /\ DueAt(o) = Due(o[2], o[1])
             /\ InTime(o) <=> 0 <= since(o) /\ since(o) < d
  <2>1. /\ o[1] \in Nat /\ o[2] \in 1..Len(schedule) /\ DueAt(o) = Due(o[2], o[1])
        /\ o[1] * Week \in Nat
    BY Units DEF Occurrence, DueAt
  <2>2. schedule[o[2]] \in Nat /\ DueAt(o) \in Nat
    BY <1>1, <2>1, DueType
  <2> HIDE DEF offset
  <2>3. since(o) \in Int /\ DueAt(o) = since(o) + starttime
    BY <1>1, <1>3, <2>1, <2>2 DEF Due
  <2> HIDE DEF since
  <2>4. InTime(o) <=> 0 <= since(o) /\ since(o) < d
    BY <1>1, <2>3 DEF InTime
  <2> QED BY <2>1, <2>2, <2>3, <2>4
<1>6. ASSUME NEW o \in occurrences PROVE o \in Taken
  <2>1. o \in Occurrence /\ InTime(o)
    BY <1>4, <1>5 DEF Occurrence
  <2>2. o[1] < week
    <3>1. SUFFICES ASSUME week <= o[1] PROVE FALSE
      BY <1>1, <1>5, <2>1
    <3>2. Due(o[2], week) <= Due(o[2], o[1]) /\ Due(o[2], week) \in Nat
      BY <1>1, <1>5, <2>1, <3>1, LaterWeeks, DueType
    <3>3. Due(o[2], week) >= endtime /\ DueAt(o) < endtime
      BY <1>1, <1>5, <2>1 DEF InTime
    <3> QED BY <1>1, <1>5, <2>1, <3>2, <3>3
  <2> QED BY <2>1, <2>2 DEF Taken, Passed
<1>7. ASSUME NEW o \in Taken PROVE o \in occurrences
  <2>1. o \in Occurrence /\ InTime(o)
    BY DEF Taken
  <2>2. 0 <= since(o) /\ since(o) < d
    BY <1>5, <2>1
  <2>3. o[1] * Week < d + Week
    <3> DEFINE e == schedule[o[2]] p == o[1] * Week
    <3>1. e + p - offset < d
      BY <2>2
    <3>2. e \in Nat /\ p \in Nat
      BY <1>5, <2>1
    <3> HIDE DEF offset, d, e, p
    <3>3. p < d + Week
      BY <1>1, <1>3, <3>1, <3>2, Units
    <3> QED BY <3>3 DEF p
  <2>4. o[1] <= d \div Week + 1
    <3> DEFINE q == d \div Week
    <3>1. q \in Nat /\ d < (q + 1) * Week
      BY <1>2
    <3> HIDE DEF q, d
    <3>2. o[1] \in Nat
      BY <1>5, <2>1
    <3>3. o[1] <= q + 1
      BY <1>1, <2>3, <3>1, <3>2, Units
    <3> QED BY <3>3 DEF q
  <2>5. o \in Weeks \X (1..Len(schedule))
    BY <1>2, <1>5, <2>1, <2>4 DEF Weeks, Occurrence
  <2> QED BY <2>2, <2>5
<1>8. occurrences = Taken
  BY <1>6, <1>7
<1>9. {since(o) + starttime : o \in occurrences} = {DueAt(o) : o \in Taken}
  <2>1. \A o \in Taken : DueAt(o) = since(o) + starttime
    BY <1>5 DEF Taken
  <2> HIDE DEF since, occurrences
  <2> QED BY <1>8, <2>1
<1>10. /\ Len(model) = Cardinality(occurrences)
       /\ {model[k] : k \in 1..Len(model)} = {since(o) + starttime : o \in occurrences}
  <2> HIDE DEF since, occurrences
  <2> QED BY <1>8, <1>9 DEF Complete
<1> QED BY <1>10 DEF StreamsComplete
-----------------------------------------------------------------------------
(* The schedules of a week can be unrolled: sessions are laid in rows, and *)
(* a division tells the row from the place in it.                          *)

LEMMA Division ==
  ASSUME NEW m \in Nat \ {0}, NEW a \in Nat
  PROVE  a \div m \in Nat /\ a % m \in 0..m - 1 /\ a = m * (a \div m) + (a % m)
OBVIOUS

LEMMA DivisionUnique ==
  ASSUME NEW m \in Nat \ {0}, NEW q \in Nat, NEW r \in 0..m - 1
  PROVE  (m * q + r) \div m = q /\ (m * q + r) % m = r
<1> DEFINE a == m * q + r
           q1 == a \div m
           r1 == a % m
<1>1. a \in Nat /\ q1 \in Nat /\ r1 \in 0..m - 1 /\ a = m * q1 + r1
  <2>1. m * q \in Nat
    OBVIOUS
  <2> QED BY <2>1, Division
<1>2. a = m * q + r
  OBVIOUS
<1> HIDE DEF a, q1, r1
<1>3. m * (q - q1) = r1 - r
  BY <1>1, <1>2
<1>4. q - q1 < 1
  <2>1. SUFFICES ASSUME q - q1 >= 1 PROVE FALSE
    BY <1>1
  <2>2. m * (q - q1 - 1) >= 0
    BY <1>1, <2>1
  <2> QED BY <1>1, <1>3, <2>2
<1>5. q1 - q < 1
  <2>1. SUFFICES ASSUME q1 - q >= 1 PROVE FALSE
    BY <1>1
  <2>2. m * (q1 - q - 1) >= 0
    BY <1>1, <2>1
  <2> QED BY <1>1, <1>3, <2>2
<1>6. q1 = q
  BY <1>1, <1>4, <1>5
<1> QED BY <1>1, <1>2, <1>6 DEF a, q1, r1

LEMMA Multiples ==
  ASSUME NEW p \in Nat, NEW a \in Nat, NEW b \in Nat
  PROVE  /\ a * p \in Nat /\ (a + 1) * p = a * p + p
         /\ a <= b => a * p <= b * p
<1>1. a * p \in Nat /\ (a + 1) * p = a * p + p /\ b * p \in Nat
  OBVIOUS
<1>2. ASSUME a <= b PROVE a * p <= b * p
  <2>1. (b - a) * p >= 0
    BY <1>2
  <2>2. b * p = a * p + (b - a) * p
    OBVIOUS
  <2> QED BY <1>1, <2>1, <2>2
<1> QED BY <1>1, <1>2

\* Streams in order, from lo to hi.
Run(times, lo, hi) ==
  /\ times \in Seq(Nat) /\ times # <<>> /\ Ascending(times)
  /\ \A i \in 1..Len(times) : lo <= times[i] /\ times[i] <= hi

LEMMA RunUnrollable ==
  ASSUME NEW times, NEW lo \in Nat, NEW hi \in Nat, Run(times, lo, hi), hi <= lo + Week
  PROVE  Unrollable(times)
<1>1. ASSUME NEW i \in 1..Len(times), NEW j \in 1..Len(times)
      PROVE  times[i] <= times[j] + Week
  <2>1. times[i] \in Nat /\ times[j] \in Nat /\ lo <= times[j] /\ times[i] <= hi
    BY DEF Run
  <2> QED BY <2>1, Units
<1> QED BY <1>1 DEF Run, Unrollable

LEMMA RunWider ==
  ASSUME NEW times, NEW lo \in Nat, NEW hi \in Nat, Run(times, lo, hi),
         NEW l \in Nat, NEW h \in Nat, l <= lo, hi <= h
  PROVE  Run(times, l, h)
<1>1. ASSUME NEW i \in 1..Len(times) PROVE l <= times[i] /\ times[i] <= h
  <2>1. times[i] \in Nat /\ lo <= times[i] /\ times[i] <= hi
    BY DEF Run
  <2> QED BY <2>1
<1> QED BY <1>1 DEF Run

LEMMA RunsJoined ==
  ASSUME NEW a, NEW b, NEW lo \in Nat, NEW m \in Nat, NEW n \in Nat, NEW hi \in Nat,
         Run(a, lo, m), Run(b, n, hi), m <= n
  PROVE  Run(a \o b, lo, hi) /\ Len(a \o b) = Len(a) + Len(b)
<1> DEFINE c == a \o b
<1>1. a \in Seq(Nat) /\ b \in Seq(Nat) /\ a # <<>> /\ b # <<>> /\ Len(a) \in Nat /\ Len(b) \in Nat
      /\ Len(a) >= 1 /\ Len(b) >= 1
  BY DEF Run
<1>2. /\ c \in Seq(Nat) /\ Len(c) = Len(a) + Len(b)
      /\ \A i \in 1..Len(a) : c[i] = a[i]
      /\ \A i \in 1..Len(b) : c[Len(a) + i] = b[i]
  BY <1>1
<1> HIDE DEF c
<1>3. c # <<>>
  BY <1>1, <1>2
<1>4. ASSUME NEW i \in 1..Len(a) PROVE c[i] \in Nat /\ lo <= c[i] /\ c[i] <= m
  <2>1. a[i] \in Nat /\ lo <= a[i] /\ a[i] <= m
    BY <1>1 DEF Run
  <2> QED BY <1>2, <2>1
<1>5. \A i \in 1..Len(b) : b[i] \in Nat /\ n <= b[i] /\ b[i] <= hi
  BY <1>1 DEF Run
<1>6. lo <= m /\ n <= hi
  <2>1. 1 \in 1..Len(a) /\ 1 \in 1..Len(b)
    BY <1>1
  <2>2. c[1] \in Nat /\ lo <= c[1] /\ c[1] <= m
    BY <1>4, <2>1
  <2>3. b[1] \in Nat /\ n <= b[1] /\ b[1] <= hi
    BY <1>5, <2>1
  <2> QED BY <2>2, <2>3
<1>7. ASSUME NEW i \in 1..Len(c)
      PROVE  i \in 1..Len(a) \/ (i - Len(a) \in 1..Len(b) /\ c[i] = b[i - Len(a)])
  <2>1. CASE i <= Len(a)
    BY <1>1, <2>1
  <2>2. CASE i > Len(a)
    <3>1. i - Len(a) \in 1..Len(b) /\ Len(a) + (i - Len(a)) = i
      BY <1>1, <1>2, <2>2
    <3> QED BY <1>2, <3>1
  <2> QED BY <1>1, <2>1, <2>2
<1>8. ASSUME NEW i \in 1..Len(c) PROVE lo <= c[i] /\ c[i] <= hi
  <2>1. CASE i \in 1..Len(a)
    <3>1. c[i] \in Nat /\ lo <= c[i] /\ c[i] <= m
      BY <1>4, <2>1
    <3> QED BY <1>6, <3>1
  <2>2. CASE i - Len(a) \in 1..Len(b) /\ c[i] = b[i - Len(a)]
    <3>1. c[i] \in Nat /\ n <= c[i] /\ c[i] <= hi
      BY <1>5, <2>2
    <3> QED BY <1>6, <3>1
  <2> QED BY <1>7, <2>1, <2>2
<1>9. ASSUME NEW i \in 1..Len(c) - 1 PROVE c[i] <= c[i + 1]
  <2>1. i \in Nat /\ i >= 1 /\ i + 1 <= Len(c)
    BY <1>1, <1>2
  <2>2. CASE i + 1 <= Len(a)
    <3>1. i \in 1..Len(a) - 1 /\ i \in 1..Len(a) /\ i + 1 \in 1..Len(a)
      BY <1>1, <2>1, <2>2
    <3>2. a[i] <= a[i + 1]
      BY <3>1 DEF Run, Ascending
    <3> QED BY <1>2, <3>1, <3>2
  <2>3. CASE i = Len(a)
    <3>1. i \in 1..Len(a) /\ 1 \in 1..Len(b) /\ i + 1 = Len(a) + 1
      BY <1>1, <2>3
    <3>2. c[i] \in Nat /\ c[i] <= m /\ c[i + 1] \in Nat /\ n <= c[i + 1]
      BY <1>2, <1>4, <1>5, <3>1
    <3> QED BY <3>2
  <2>4. CASE i > Len(a)
    <3> DEFINE k == i - Len(a)
    <3>1. k \in 1..Len(b) - 1 /\ k \in 1..Len(b) /\ k + 1 \in 1..Len(b)
          /\ Len(a) + k = i /\ Len(a) + (k + 1) = i + 1
      <4>1. i + 1 <= Len(a) + Len(b)
        BY <1>2, <2>1
      <4> QED BY <1>1, <2>1, <2>4, <4>1
    <3> HIDE DEF k
    <3>2. b[k] <= b[k + 1]
      BY <3>1 DEF Run, Ascending
    <3>3. c[i] = b[k] /\ c[i + 1] = b[k + 1]
      BY <1>2, <3>1
    <3> QED BY <3>2, <3>3
  <2>5. i + 1 <= Len(a) \/ i = Len(a) \/ i > Len(a)
    BY <1>1, <2>1
  <2> QED BY <2>2, <2>3, <2>4, <2>5
<1> QED BY <1>2, <1>3, <1>8, <1>9 DEF c, Run, Ascending

\* Places in n rows of one length.
LEMMA Position ==
  ASSUME NEW n \in Nat \ {0}, NEW len \in Nat \ {0}, NEW i \in 1..n * len
  PROVE  \E q \in 0..n - 1, k \in 1..len : i = len * q + k
<1> DEFINE q == (i - 1) \div len
           k == (i - 1) % len
<1>1. n * len \in Nat /\ i - 1 \in Nat /\ i - 1 < n * len
  <2>1. n * len \in Nat
    OBVIOUS
  <2> QED BY <2>1
<1>2. q \in Nat /\ k \in 0..len - 1 /\ i - 1 = len * q + k
  BY <1>1, Division
<1> HIDE DEF q, k
<1>3. len * q \in Nat /\ q * len = len * q
  BY <1>2
<1>4. q < n
  <2>1. SUFFICES ASSUME n <= q PROVE FALSE
    BY <1>2
  <2>2. n * len <= q * len
    BY <1>2, <2>1, Multiples
  <2> QED BY <1>1, <1>2, <1>3, <2>2
<1>5. q \in 0..n - 1 /\ k + 1 \in 1..len /\ i = len * q + (k + 1)
  BY <1>2, <1>3, <1>4
<1> QED BY <1>5

LEMMA Placed ==
  ASSUME NEW n \in Nat \ {0}, NEW len \in Nat \ {0}, NEW q \in 0..n - 1, NEW k \in 1..len
  PROVE  /\ len * q + k \in 1..n * len
         /\ (len * q + k - 1) \div len = q /\ 1 + ((len * q + k - 1) % len) = k
<1>1. k - 1 \in 0..len - 1 /\ q \in Nat /\ len * q \in Nat /\ n * len \in Nat
  OBVIOUS
<1>2. len * q + k - 1 = len * q + (k - 1)
  BY <1>1
<1>3. (len * q + (k - 1)) \div len = q /\ (len * q + (k - 1)) % len = k - 1
  BY <1>1, DivisionUnique
<1>4. len * q + len <= n * len
  <2>1. (q + 1) * len <= n * len /\ (q + 1) * len = q * len + len /\ q * len = len * q
    BY <1>1, Multiples
  <2> QED BY <2>1
<1>5. len * q + k \in 1..n * len
  BY <1>1, <1>4
<1>6. 1 + (k - 1) = k
  OBVIOUS
<1> QED BY <1>2, <1>3, <1>5, <1>6

\* Rows of one length, one behind the other.
Rows(n, len, row) == [i \in 1..n * len |-> row[(i - 1) \div len][1 + ((i - 1) % len)]]

\* Runs of one length, one every p seconds from lo on, and where the last one ends.
RunsEvery(row, n, len, lo, p, w) ==
  \A d \in 0..n - 1 : Run(row[d], lo + d * p, lo + d * p + w) /\ Len(row[d]) = len

RunsEnd(n, lo, p, w) == lo + (n - 1) * p + w

LEMMA RunsRepeated ==
  ASSUME NEW n \in Nat \ {0}, NEW len \in Nat \ {0}, NEW row,
         NEW lo \in Nat, NEW p \in Nat, NEW w \in Nat, w <= p, RunsEvery(row, n, len, lo, p, w)
  PROVE  Run(Rows(n, len, row), lo, RunsEnd(n, lo, p, w)) /\ Len(Rows(n, len, row)) = n * len
<1> DEFINE times == Rows(n, len, row)
<1>a. \A d \in 0..n - 1 : Run(row[d], lo + d * p, lo + d * p + w) /\ Len(row[d]) = len
  BY DEF RunsEvery
<1>b. times = Rows(n, len, row)
  OBVIOUS
<1> HIDE DEF times
<1>0. \A q \in 0..n - 1, k \in 1..len :
        /\ len * q + k \in 1..n * len
        /\ (len * q + k - 1) \div len = q /\ 1 + ((len * q + k - 1) % len) = k
  BY Placed
<1>1. n * len \in Nat /\ n * len >= 1 /\ (n - 1) * p \in Nat
  <2>1. n * len \in Nat /\ (n - 1) * p \in Nat /\ (n - 1) * len \in Nat
    OBVIOUS
  <2>2. n * len = (n - 1) * len + len
    OBVIOUS
  <2> QED BY <2>1, <2>2
<1>2. ASSUME NEW q \in 0..n - 1, NEW k \in 1..len
      PROVE  /\ times[len * q + k] = row[q][k] /\ row[q][k] \in Nat
             /\ lo + q * p <= row[q][k] /\ row[q][k] <= lo + q * p + w
             /\ k < len => row[q][k] <= row[q][k + 1]
             /\ q * p \in Nat /\ q * p <= (n - 1) * p
  <2>1. times[len * q + k] = row[q][k]
    <3>1. /\ len * q + k \in 1..n * len
          /\ (len * q + k - 1) \div len = q /\ 1 + ((len * q + k - 1) % len) = k
      BY <1>0
    <3>2. times[len * q + k] = row[(len * q + k - 1) \div len][1 + ((len * q + k - 1) % len)]
      BY <1>b, <3>1 DEF Rows
    <3> QED BY <3>1, <3>2
  <2>2. Run(row[q], lo + q * p, lo + q * p + w) /\ Len(row[q]) = len
    BY <1>a
  <2>3. row[q][k] \in Nat /\ lo + q * p <= row[q][k] /\ row[q][k] <= lo + q * p + w
    <3>1. k \in 1..Len(row[q]) /\ row[q] \in Seq(Nat)
      BY <2>2 DEF Run
    <3>2. row[q][k] \in Nat
      BY <3>1
    <3> QED BY <2>2, <3>1, <3>2 DEF Run
  <2>4. q * p \in Nat /\ q * p <= (n - 1) * p
    <3>1. q \in Nat /\ n - 1 \in Nat /\ q <= n - 1
      OBVIOUS
    <3> QED BY <3>1, Multiples
  <2>5. ASSUME k < len PROVE row[q][k] <= row[q][k + 1]
    <3>1. k \in 1..Len(row[q]) - 1
      BY <2>2, <2>5
    <3> QED BY <2>2, <3>1 DEF Run, Ascending
  <2> QED BY <2>1, <2>3, <2>4, <2>5
<1>3. ASSUME NEW i \in 1..n * len
      PROVE  times[i] \in Nat /\ lo <= times[i] /\ times[i] <= lo + (n - 1) * p + w
  <2>1. PICK q \in 0..n - 1, k \in 1..len : i = len * q + k
    BY Position
  <2>2. /\ times[i] = row[q][k] /\ row[q][k] \in Nat
        /\ lo + q * p <= row[q][k] /\ row[q][k] <= lo + q * p + w
        /\ q * p \in Nat /\ q * p <= (n - 1) * p
    BY <1>2, <2>1
  <2> DEFINE x == q * p
             y == (n - 1) * p
  <2>3. /\ times[i] \in Nat /\ lo + x <= times[i] /\ times[i] <= lo + x + w
        /\ x \in Nat /\ x <= y /\ y \in Nat
    BY <1>1, <2>2
  <2> HIDE DEF x, y
  <2>4. times[i] \in Nat /\ lo <= times[i] /\ times[i] <= lo + y + w
    BY <2>3
  <2> QED BY <2>4 DEF y
<1>4. times \in Seq(Nat) /\ Len(times) = n * len /\ times # <<>>
  <2>1. times \in [1..n * len -> Nat]
    BY <1>3, <1>b DEF Rows
  <2>2. times \in Seq(Nat) /\ Len(times) = n * len
    <3> DEFINE x == n * len
    <3>1. times \in [1..x -> Nat] /\ x \in Nat
      BY <1>1, <2>1
    <3> HIDE DEF x
    <3>2. times \in Seq(Nat) /\ Len(times) = x
      BY <3>1
    <3> QED BY <3>2 DEF x
  <2>3. Len(times) # 0
    BY <1>1, <2>2
  <2> QED BY <2>2, <2>3
<1>5. ASSUME NEW i \in 1..n * len - 1 PROVE times[i] <= times[i + 1]
  <2>1. i \in 1..n * len /\ i + 1 \in Nat /\ i + 1 <= n * len
    BY <1>1
  <2>2. PICK q \in 0..n - 1, k \in 1..len : i = len * q + k
    BY <2>1, Position
  <2>3. q \in Nat /\ k \in Nat /\ len * q \in Nat
    OBVIOUS
  <2>4. CASE k < len
    <3>1. k + 1 \in 1..len /\ i + 1 = len * q + (k + 1)
      BY <2>2, <2>3, <2>4
    <3>2. times[i + 1] = row[q][k + 1] /\ times[i] = row[q][k] /\ row[q][k] <= row[q][k + 1]
      BY <1>2, <2>2, <2>4, <3>1
    <3> QED BY <3>2
  <2>5. CASE k = len
    <3>1. i = (q + 1) * len /\ (q + 1) * len = len * (q + 1)
      BY <2>2, <2>3, <2>5
    <3>2. q + 1 \in 0..n - 1
      <4>1. SUFFICES ASSUME n <= q + 1 PROVE FALSE
        BY <2>3
      <4>2. n * len <= (q + 1) * len
        BY <2>3, <4>1, Multiples
      <4> DEFINE x == n * len
      <4>3. x \in Nat /\ i + 1 <= x /\ x <= i /\ i \in Nat
        BY <1>1, <2>1, <3>1, <4>2
      <4> HIDE DEF x
      <4> QED BY <4>3
    <3>3. i + 1 = len * (q + 1) + 1 /\ 1 \in 1..len
      BY <3>1
    <3>4. times[i + 1] = row[q + 1][1] /\ row[q + 1][1] \in Nat /\ lo + (q + 1) * p <= row[q + 1][1]
      BY <1>2, <3>2, <3>3
    <3>5. times[i] = row[q][k] /\ row[q][k] \in Nat /\ row[q][k] <= lo + q * p + w /\ q * p \in Nat
      BY <1>2, <2>2
    <3>6. (q + 1) * p = q * p + p
      BY <2>3, Multiples
    <3> DEFINE x == q * p
    <3>7. /\ times[i + 1] \in Nat /\ lo + (x + p) <= times[i + 1]
          /\ times[i] \in Nat /\ times[i] <= lo + x + w /\ x \in Nat
      BY <3>4, <3>5, <3>6
    <3> HIDE DEF x
    <3> QED BY <3>7
  <2>6. k < len \/ k = len
    OBVIOUS
  <2> QED BY <2>4, <2>5, <2>6
<1>6. Ascending(times) /\ \A i \in 1..Len(times) : lo <= times[i] /\ times[i] <= lo + (n - 1) * p + w
  BY <1>3, <1>4, <1>5 DEF Ascending
<1> QED BY <1>4, <1>6 DEF Run, RunsEnd, times

\* Sorting leaves alone what is in order.
LEMMA InOrderAlready ==
  ASSUME NEW times \in Seq(Nat), Ascending(times)
  PROVE  InOrder(times) = times
<1> DEFINE n == Len(times)
<1>1. n \in Nat /\ DOMAIN times = 1..n /\ \A i \in 1..n : times[i] \in Nat
  OBVIOUS
<1>2. ASSUME NEW i \in 1..n PROVE Place(times)[i] = i
  <2> DEFINE before == {j \in 1..n : times[j] < times[i] \/ (times[j] = times[i] /\ j <= i)}
  <2>1. ASSUME NEW j \in 1..n PROVE j \in before <=> j \in 1..i
    <3>1. j <= i => times[j] <= times[i]
      BY AscendingPairs
    <3>2. i <= j => times[i] <= times[j]
      BY AscendingPairs
    <3>3. times[i] \in Nat /\ times[j] \in Nat
      OBVIOUS
    <3> QED BY <3>1, <3>2, <3>3
  <2>2. before = 1..i
    <3>1. 1..i \subseteq 1..n
      BY <1>1
    <3>2. before \subseteq 1..n
      OBVIOUS
    <3> HIDE DEF before
    <3> QED BY <2>1, <3>1, <3>2
  <2>3. Cardinality(1..i) = i
    <3>1. i \in Nat /\ i >= 1
      OBVIOUS
    <3>2. Cardinality(1..i) = IF 1 > i THEN 0 ELSE i - 1 + 1
      BY <3>1, FS_Interval
    <3> QED BY <3>1, <3>2
  <2>4. Place(times)[i] = Cardinality(before)
    BY <1>1 DEF Place
  <2> QED BY <2>2, <2>3, <2>4
<1>3. ASSUME NEW k \in 1..n PROVE times[CHOOSE i \in DOMAIN times : Place(times)[i] = k] = times[k]
  <2>1. \A i \in DOMAIN times : Place(times)[i] = k <=> i = k
    BY <1>1, <1>2
  <2>2. (CHOOSE i \in DOMAIN times : Place(times)[i] = k) = k
    BY <1>1, <2>1
  <2> QED BY <2>2
<1>4. InOrder(times) = [k \in 1..n |-> times[k]]
  BY <1>1, <1>3 DEF InOrder
<1>5. times = [k \in 1..n |-> times[k]]
  OBVIOUS
<1> QED BY <1>4, <1>5

\* A trace as the constructor takes it.
IsTrace(trace) == trace \in Seq(Nat) /\ trace # <<>> /\ Ascending(trace)

Last(trace) == trace[Len(trace)]

LEMMA TraceFacts ==
  ASSUME NEW trace, IsTrace(trace)
  PROVE  /\ Len(trace) \in Nat \ {0} /\ trace[1] \in Nat /\ Last(trace) \in Nat
         /\ \A k \in 1..Len(trace) :
              trace[k] \in Nat /\ trace[1] <= trace[k] /\ trace[k] <= Last(trace)
         /\ trace[1] <= Last(trace)
         /\ SessionLength(trace) \in Nat /\ Last(trace) <= SessionLength(trace)
         /\ SessionLength(trace) = IF Last(trace) < 1200 THEN 1200 ELSE Last(trace)
<1>1. Len(trace) \in Nat \ {0} /\ 1 \in 1..Len(trace) /\ Len(trace) \in 1..Len(trace)
  BY DEF IsTrace
<1>2. ASSUME NEW k \in 1..Len(trace)
      PROVE  trace[k] \in Nat /\ trace[1] <= trace[k] /\ trace[k] <= Last(trace)
  <2>1. 1 <= k /\ k <= Len(trace)
    BY <1>1
  <2> QED BY <1>1, <2>1, AscendingPairs DEF IsTrace, Last
<1>3. trace[1] \in Nat /\ Last(trace) \in Nat /\ trace[1] <= Last(trace)
  BY <1>1, <1>2 DEF Last
<1>4. SessionLength(trace) = IF Last(trace) < 1200 THEN 1200 ELSE Last(trace)
  BY DEF SessionLength, Last
<1> HIDE DEF Last
<1>5. SessionLength(trace) \in Nat /\ Last(trace) <= SessionLength(trace)
  BY <1>3, <1>4
<1> QED BY <1>1, <1>2, <1>3, <1>4, <1>5

LEMMA SessionRun ==
  ASSUME NEW trace, IsTrace(trace), NEW start \in Nat
  PROVE  /\ Run(Session(trace, start), start + trace[1], start + Last(trace))
         /\ Len(Session(trace, start)) = Len(trace)
<1> DEFINE s == Session(trace, start)
<1>1. /\ Len(trace) \in Nat \ {0} /\ trace[1] \in Nat /\ Last(trace) \in Nat
      /\ \A k \in 1..Len(trace) :
           trace[k] \in Nat /\ trace[1] <= trace[k] /\ trace[k] <= Last(trace)
  BY TraceFacts
<1>2. s = [i \in 1..Len(trace) |-> start + trace[i]]
  BY DEF Session
<1> HIDE DEF s
<1>3. \A i \in 1..Len(trace) : s[i] = start + trace[i] /\ s[i] \in Nat
  BY <1>1, <1>2
<1>4. s \in Seq(Nat) /\ Len(s) = Len(trace) /\ s # <<>>
  <2>1. s \in [1..Len(trace) -> Nat]
    BY <1>2, <1>3
  <2>2. s \in Seq(Nat) /\ Len(s) = Len(trace)
    BY <1>1, <2>1
  <2>3. Len(s) # 0
    BY <1>1, <2>2
  <2> QED BY <2>2, <2>3
<1>5. ASSUME NEW i \in 1..Len(s)
      PROVE  start + trace[1] <= s[i] /\ s[i] <= start + Last(trace)
  BY <1>1, <1>3, <1>4
<1>6. ASSUME NEW i \in 1..Len(s) - 1 PROVE s[i] <= s[i + 1]
  <2>1. i \in 1..Len(trace) - 1 /\ i \in 1..Len(trace) /\ i + 1 \in 1..Len(trace)
    BY <1>1, <1>4
  <2>2. trace[i] <= trace[i + 1] /\ trace[i] \in Nat /\ trace[i + 1] \in Nat
    BY <1>1, <2>1 DEF IsTrace, Ascending
  <2>3. s[i] = start + trace[i] /\ s[i + 1] = start + trace[i + 1]
    BY <1>3, <2>1
  <2> QED BY <2>2, <2>3
<1> QED BY <1>4, <1>5, <1>6 DEF s, Run, Ascending

\* Sessions in a row do not overlap: the next begins when the one before is over.
LEMMA SessionsRun ==
  ASSUME NEW trace, IsTrace(trace), NEW n \in Nat \ {0}, NEW start \in Nat
  PROVE  /\ Run(Sessions(trace, n, start), start, start + n * SessionLength(trace))
         /\ Len(Sessions(trace, n, start)) = n * Len(trace)
<1> DEFINE len == Len(trace)
           long == SessionLength(trace)
           row == [d \in Nat |-> Session(trace, start + d * long)]
           s == Sessions(trace, n, start)
<1>1. len \in Nat \ {0} /\ long \in Nat /\ Last(trace) <= long /\ trace[1] \in Nat /\ Last(trace) \in Nat
  BY TraceFacts
<1>2. s = Rows(n, len, row)
  <2>1. s = [i \in 1..n * len |-> start + ((i - 1) \div len) * long + trace[1 + ((i - 1) % len)]]
    BY DEF Sessions
  <2>2. ASSUME NEW i \in 1..n * len
        PROVE  row[(i - 1) \div len][1 + ((i - 1) % len)]
                 = start + ((i - 1) \div len) * long + trace[1 + ((i - 1) % len)]
    <3> DEFINE q == (i - 1) \div len
               k == (i - 1) % len
    <3>1. i - 1 \in Nat
      OBVIOUS
    <3>2. q \in Nat /\ k \in 0..len - 1
      BY <1>1, <3>1, Division
    <3> HIDE DEF q, k, len, long
    <3>3. 1 + k \in 1..len
      BY <1>1, <3>2
    <3>4. row[q] = Session(trace, start + q * long)
      BY <3>2
    <3>5. Session(trace, start + q * long)[1 + k] = start + q * long + trace[1 + k]
      BY <3>3 DEF Session, len
    <3> QED BY <3>4, <3>5 DEF q, k
  <2> QED BY <2>1, <2>2 DEF Rows
<1>3. ASSUME NEW d \in 0..n - 1
      PROVE  Run(row[d], start + d * long, start + d * long + long) /\ Len(row[d]) = len
  <2>1. d \in Nat /\ start + d * long \in Nat
    BY <1>1
  <2>2. row[d] = Session(trace, start + d * long)
    BY <2>1
  <2> DEFINE b == start + d * long
  <2> HIDE DEF b, row, long
  <2>3. Run(row[d], b + trace[1], b + Last(trace)) /\ Len(row[d]) = len
    BY <2>1, <2>2, SessionRun DEF b
  <2>4. Run(row[d], b, b + long)
    <3>1. b \in Nat /\ b + trace[1] \in Nat /\ b + Last(trace) \in Nat /\ b + long \in Nat
          /\ b <= b + trace[1] /\ b + Last(trace) <= b + long
      BY <1>1, <2>1 DEF b
    <3> QED BY <2>3, <3>1, RunWider
  <2> QED BY <2>3, <2>4 DEF b
<1> HIDE DEF row, s, len, long
<1>4. Run(s, start, start + (n - 1) * long + long) /\ Len(s) = n * len
  <2>1. long <= long /\ long \in Nat /\ len \in Nat \ {0}
    BY <1>1
  <2>2. RunsEvery(row, n, len, start, long, long)
    BY <1>3 DEF RunsEvery
  <2>3. Run(s, start, RunsEnd(n, start, long, long)) /\ Len(s) = n * len
    BY <1>2, <2>1, <2>2, RunsRepeated
  <2> QED BY <2>3 DEF RunsEnd
<1>5. start + (n - 1) * long + long = start + n * long
  BY <1>1
<1> QED BY <1>4, <1>5 DEF s, len, long

LEMMA BriefRuns ==
  ASSUME NEW trace, IsTrace(trace), Last(trace) <= 3 * Hour, NEW start \in Nat
  PROVE  /\ Run(Session(trace, start), start, start + 10800)
         /\ \A n \in 1..3 : Run(Sessions(trace, n, start), start, start + n * 10800)
<1>1. /\ trace[1] \in Nat /\ Last(trace) \in Nat /\ SessionLength(trace) \in Nat
      /\ Last(trace) <= 10800 /\ SessionLength(trace) <= 10800
  <2>1. /\ trace[1] \in Nat /\ Last(trace) \in Nat
        /\ SessionLength(trace) = IF Last(trace) < 1200 THEN 1200 ELSE Last(trace)
    BY TraceFacts
  <2> HIDE DEF Last
  <2> QED BY <2>1, Units
<1>2. Run(Session(trace, start), start, start + 10800)
  <2>1. Run(Session(trace, start), start + trace[1], start + Last(trace))
    BY SessionRun
  <2> DEFINE a == start + trace[1]
             b == start + Last(trace)
  <2>2. a \in Nat /\ b \in Nat /\ start + 10800 \in Nat /\ start <= a /\ b <= start + 10800
    BY <1>1
  <2> HIDE DEF a, b
  <2>3. Run(Session(trace, start), a, b)
    BY <2>1 DEF a, b
  <2> QED BY <2>2, <2>3, RunWider
<1>3. ASSUME NEW n \in 1..3 PROVE Run(Sessions(trace, n, start), start, start + n * 10800)
  <2>1. n \in Nat \ {0}
    OBVIOUS
  <2> DEFINE b == start + n * SessionLength(trace)
             h == start + n * 10800
  <2>2. Run(Sessions(trace, n, start), start, b)
    BY <2>1, SessionsRun
  <2>3. b \in Nat /\ h \in Nat /\ b <= h
    <3>1. n = 1 \/ n = 2 \/ n = 3
      OBVIOUS
    <3> QED BY <1>1, <3>1
  <2>4. start \in Nat /\ start <= start
    OBVIOUS
  <2> HIDE DEF b, h
  <2>5. Run(Sessions(trace, n, start), start, h)
    BY <2>2, <2>3, <2>4, RunWider
  <2> QED BY <2>5 DEF h
<1> QED BY <1>2, <1>3

LEMMA DaysType == ASSUME NEW d \in 0..6 PROVE d * Day \in Nat /\ d * Day = d * 86400
BY Units

LEMMA InteractiveRun ==
  ASSUME NEW trace, IsTrace(trace), Last(trace) <= 3 * Hour, NEW d \in 0..4
  PROVE  /\ Run(InteractiveDay(trace, d), 109800 + d * Day, 109800 + d * Day + Day)
         /\ Len(InteractiveDay(trace, d)) = 4 * Len(trace)
<1> DEFINE m == 109800 + d * Day
           e == 151200 + d * Day
           a == Session(trace, m)
           b == Sessions(trace, 3, e)
<1>1. m \in Nat /\ e \in Nat /\ e = m + 41400 /\ Day = 86400
  BY DaysType, Units
<1> HIDE DEF m, e
<1>2. Len(trace) \in Nat \ {0}
  BY TraceFacts
<1>3. Run(a, m, m + 10800) /\ Len(a) = Len(trace)
  <2>1. Run(a, m, m + 10800)
    BY <1>1, BriefRuns
  <2>2. Len(a) = Len(trace)
    BY <1>1, SessionRun
  <2> QED BY <2>1, <2>2
<1>4. Run(b, e, e + 32400) /\ Len(b) = 3 * Len(trace)
  <2>1. 3 \in 1..3 /\ 3 \in Nat \ {0} /\ 3 * 10800 = 32400
    OBVIOUS
  <2>2. \A n \in 1..3 : Run(Sessions(trace, n, e), e, e + n * 10800)
    BY <1>1, BriefRuns
  <2>3. Run(b, e, e + 32400)
    BY <2>1, <2>2
  <2>4. Len(b) = 3 * Len(trace)
    BY <1>1, <2>1, SessionsRun
  <2> QED BY <2>3, <2>4
<1> HIDE DEF a, b
<1>5. Run(a \o b, m, e + 32400) /\ Len(a \o b) = Len(a) + Len(b)
  <2>1. m + 10800 \in Nat /\ e + 32400 \in Nat /\ m + 10800 <= e
    BY <1>1
  <2> QED BY <1>1, <1>3, <1>4, <2>1, RunsJoined
<1>6. Run(a \o b, m, m + Day)
  <2>1. e + 32400 \in Nat /\ m + Day \in Nat /\ e + 32400 <= m + Day /\ m <= m
    BY <1>1
  <2> QED BY <1>1, <1>5, <2>1, RunWider
<1>7. InteractiveDay(trace, d) = a \o b
  BY DEF InteractiveDay, a, b, m, e
<1>8. Len(a \o b) = 4 * Len(trace)
  BY <1>2, <1>3, <1>4, <1>5
<1> QED BY <1>6, <1>7, <1>8 DEF m

\* The days of a week.
LEMMA DaysRepeated ==
  ASSUME NEW n \in 2..7, NEW row, NEW len \in Nat \ {0}, NEW lo \in Nat,
         RunsEvery(row, n, len, lo, Day, Day)
  PROVE  Unrollable(Rows(n, len, row))
<1>1. n \in Nat \ {0} /\ Day \in Nat /\ Day <= Day
  BY Units
<1>2. Run(Rows(n, len, row), lo, RunsEnd(n, lo, Day, Day))
  BY <1>1, RunsRepeated
<1>3. RunsEnd(n, lo, Day, Day) \in Nat /\ RunsEnd(n, lo, Day, Day) <= lo + Week
  BY Units DEF RunsEnd
<1> QED BY <1>2, <1>3, RunUnrollable

LEMMA WeekdaysUnrollable ==
  ASSUME NEW trace, IsTrace(trace), Last(trace) <= 3 * Hour
  PROVE  Unrollable(Weekdays(trace))
<1> DEFINE row == [d \in Int |-> InteractiveDay(trace, d)]
           len == 4 * Len(trace)
           times == Weekdays(trace)
<1>1. len \in Nat \ {0}
  BY TraceFacts
<1>2. Len(InteractiveDay(trace, 0)) = len
  BY InteractiveRun
<1>3. times = [i \in 1..5 * len |->
                 InteractiveDay(trace, (i - 1) \div len)[1 + ((i - 1) % len)]]
  BY <1>2 DEF Weekdays, Repeat
<1>4. times = Rows(5, len, row)
  <2> HIDE DEF len, times
  <2>1. \A i \in 1..5 * len : (i - 1) \div len \in Int
    BY <1>1
  <2> QED BY <1>3, <2>1 DEF Rows
<1>5. ASSUME NEW d \in 0..4
      PROVE  /\ Run(row[d], 109800 + d * Day, 109800 + d * Day + Day) /\ Len(row[d]) = len
  BY InteractiveRun
<1> HIDE DEF row, len, times
<1>6. 5 \in 2..7 /\ 109800 \in Nat /\ 5 - 1 = 4
  OBVIOUS
<1>7. RunsEvery(row, 5, len, 109800, Day, Day)
  BY <1>5, <1>6 DEF RunsEvery
<1>8. Unrollable(times)
  BY <1>1, <1>4, <1>6, <1>7, DaysRepeated
<1> QED BY <1>8 DEF times

LEMMA WorkdaysUnrollable ==
  ASSUME NEW trace, IsTrace(trace), 27 * Last(trace) <= Day
  PROVE  Unrollable(Workdays(trace))
<1> DEFINE row == [d \in Int |-> Sessions(trace, 27, 115200 + d * Day)]
           len == 27 * Len(trace)
           times == Workdays(trace)
           long == SessionLength(trace)
<1>1. /\ len \in Nat \ {0} /\ Len(trace) \in Nat \ {0} /\ Last(trace) \in Nat
      /\ long = IF Last(trace) < 1200 THEN 1200 ELSE Last(trace)
  BY TraceFacts
<1>2. long \in Nat /\ 27 * long <= Day
  <2> HIDE DEF Last, long
  <2> QED BY <1>1, Units
<1>3. ASSUME NEW d \in 0..4
      PROVE  /\ Run(row[d], 115200 + d * Day, 115200 + d * Day + Day) /\ Len(row[d]) = len
  <2> DEFINE m == 115200 + d * Day
             b == m + 27 * long
             h == m + Day
  <2>1. m \in Nat /\ 27 \in Nat \ {0} /\ b \in Nat /\ h \in Nat /\ b <= h /\ m <= m
    <3> HIDE DEF long
    <3> QED BY <1>2, Units
  <2>2. row[d] = Sessions(trace, 27, m)
    OBVIOUS
  <2> HIDE DEF m, row
  <2>3. Run(row[d], m, b) /\ Len(row[d]) = len
    BY <2>1, <2>2, SessionsRun
  <2> HIDE DEF b, h, len
  <2>4. Run(row[d], m, h)
    BY <2>1, <2>3, RunWider
  <2> QED BY <2>3, <2>4 DEF m, h
<1>4. Len(Sessions(trace, 27, 115200 + 0 * Day)) = len
  BY <1>3
<1>5. times = [i \in 1..5 * len |->
                 Sessions(trace, 27, 115200 + ((i - 1) \div len) * Day)[1 + ((i - 1) % len)]]
  BY <1>4 DEF Workdays, Repeat
<1>6. times = Rows(5, len, row)
  <2> HIDE DEF len, times
  <2>1. \A i \in 1..5 * len : (i - 1) \div len \in Int
    BY <1>1
  <2> QED BY <1>5, <2>1 DEF Rows
<1> HIDE DEF row, len, times
<1>7. 5 \in 2..7 /\ 115200 \in Nat /\ 5 - 1 = 4
  OBVIOUS
<1>8. RunsEvery(row, 5, len, 115200, Day, Day)
  BY <1>3, <1>7 DEF RunsEvery
<1>9. Unrollable(times)
  BY <1>1, <1>6, <1>7, <1>8, DaysRepeated
<1> QED BY <1>9 DEF times

\* Sunday and the Saturday after it.
LEMMA WeekendUnrollable ==
  ASSUME NEW trace, IsTrace(trace), 18 * Last(trace) <= Day
  PROVE  Unrollable(Weekend(trace))
<1> DEFINE row == [d \in Int |-> Sessions(trace, 18, 6 * d * Day)]
           len == 18 * Len(trace)
           times == Weekend(trace)
           long == SessionLength(trace)
           p == 6 * Day
<1>1. /\ len \in Nat \ {0} /\ Len(trace) \in Nat \ {0} /\ Last(trace) \in Nat
      /\ long = IF Last(trace) < 1200 THEN 1200 ELSE Last(trace)
  BY TraceFacts
<1>2. long \in Nat /\ 18 * long <= Day
  <2> HIDE DEF Last, long
  <2> QED BY <1>1, Units
<1>3. ASSUME NEW d \in 0..1
      PROVE  /\ Run(row[d], 0 + d * p, 0 + d * p + Day) /\ Len(row[d]) = len
  <2> DEFINE m == 6 * d * Day
             b == m + 18 * long
             h == m + Day
  <2>1. m \in Nat /\ 18 \in Nat \ {0} /\ b \in Nat /\ h \in Nat /\ b <= h /\ m <= m
        /\ 0 + d * p = m
    <3> HIDE DEF long
    <3> QED BY <1>2, Units
  <2>2. row[d] = Sessions(trace, 18, m)
    OBVIOUS
  <2> HIDE DEF m, row
  <2>3. Run(row[d], m, b) /\ Len(row[d]) = len
    BY <2>1, <2>2, SessionsRun
  <2> HIDE DEF b, h, len, p
  <2>4. Run(row[d], m, h)
    BY <2>1, <2>3, RunWider
  <2> QED BY <2>1, <2>3, <2>4 DEF h
<1>4. Len(Sessions(trace, 18, 6 * 0 * Day)) = len
  BY <1>3
<1>5. times = [i \in 1..2 * len |->
                 Sessions(trace, 18, 6 * ((i - 1) \div len) * Day)[1 + ((i - 1) % len)]]
  BY <1>4 DEF Weekend, Repeat
<1>6. times = Rows(2, len, row)
  <2> HIDE DEF len, times
  <2>1. \A i \in 1..2 * len : (i - 1) \div len \in Int
    BY <1>1
  <2> QED BY <1>5, <2>1 DEF Rows
<1>7. /\ p \in Nat /\ Day \in Nat /\ Day <= p /\ 2 \in Nat \ {0} /\ 0 \in Nat
      /\ RunsEnd(2, 0, p, Day) \in Nat /\ RunsEnd(2, 0, p, Day) <= 0 + Week
  BY Units DEF RunsEnd
<1> HIDE DEF row, len, times, p
<1>8. RunsEvery(row, 2, len, 0, p, Day)
  BY <1>3 DEF RunsEvery
<1>9. Run(times, 0, RunsEnd(2, 0, p, Day))
  BY <1>1, <1>6, <1>7, <1>8, RunsRepeated
<1>10. Unrollable(times)
  BY <1>7, <1>9, RunUnrollable
<1> QED BY <1>10 DEF times

LEMMA HourlyUnrollable ==
  ASSUME NEW trace, IsTrace(trace), Last(trace) <= trace[1] + Hour
  PROVE  Unrollable(Hourly(trace))
<1> DEFINE row == [h \in Int |-> Session(trace, h * Hour)]
           len == Len(trace)
           times == Hourly(trace)
           lo == trace[1]
           w == Last(trace) - lo
<1>1. len \in Nat \ {0} /\ Last(trace) \in Nat /\ lo \in Nat /\ lo <= Last(trace)
  BY TraceFacts
<1>2. w \in Nat /\ w <= Hour /\ lo + w = Last(trace)
  <2> HIDE DEF lo, Last
  <2> QED BY <1>1, Units DEF lo
<1>3. ASSUME NEW h \in 0..167
      PROVE  Run(row[h], lo + h * Hour, lo + h * Hour + w) /\ Len(row[h]) = len
  <2>1. h * Hour \in Nat /\ row[h] = Session(trace, h * Hour)
    BY Units
  <2> DEFINE m == h * Hour
  <2> HIDE DEF m, row, w, lo
  <2>2. Run(row[h], m + lo, m + Last(trace)) /\ Len(row[h]) = len
    BY <2>1, SessionRun DEF m, lo
  <2>3. m + lo = lo + m /\ m + Last(trace) = lo + m + w
    BY <1>1, <1>2, <2>1 DEF m
  <2> QED BY <2>2, <2>3 DEF m
<1>4. Len(Session(trace, 0 * Hour)) = len
  <2>1. 0 * Hour \in Nat
    BY Units
  <2> QED BY <2>1, SessionRun
<1>5. times = [i \in 1..(7 * 24) * len |->
                 Session(trace, ((i - 1) \div len) * Hour)[1 + ((i - 1) % len)]]
  BY <1>4 DEF Hourly, Repeat
<1>6. times = Rows(168, len, row)
  <2> HIDE DEF len, times
  <2>1. \A i \in 1..168 * len : (i - 1) \div len \in Int
    BY <1>1
  <2>2. 7 * 24 = 168
    OBVIOUS
  <2> QED BY <1>5, <2>1, <2>2 DEF Rows
<1> HIDE DEF row, len, times, lo, w
<1>7. /\ 168 \in Nat \ {0} /\ Hour \in Nat
      /\ RunsEnd(168, lo, Hour, w) \in Nat /\ RunsEnd(168, lo, Hour, w) <= lo + Week
  BY <1>1, <1>2, Units DEF RunsEnd
<1>8. RunsEvery(row, 168, len, lo, Hour, w)
  <2>1. 0..168 - 1 = 0..167
    OBVIOUS
  <2>2. \A h \in 0..168 - 1 :
          Run(row[h], lo + h * Hour, lo + h * Hour + w) /\ Len(row[h]) = len
    BY <1>3, <2>1
  <2> QED BY <2>2 DEF RunsEvery
<1>9. Run(times, lo, RunsEnd(168, lo, Hour, w))
  BY <1>1, <1>2, <1>6, <1>7, <1>8, RunsRepeated
<1>10. Unrollable(times)
  BY <1>1, <1>7, <1>9, RunUnrollable
<1> QED BY <1>10 DEF times

BriefSessions == \A k \in Interactive : IsTrace(Trace[k]) /\ Last(Trace[k]) <= 3 * Hour

TypicalLength == Len(Trace["gmailgchat"]) + Len(Trace["gcalgdocs"])
                   + Len(Trace["facebook"]) + 2 * Len(Trace["websearch"])

\* Four kinds of sessions a day do not come in each other's way.
LEMMA TypicalRun ==
  ASSUME BriefSessions, NEW d \in 0..6
  PROVE  /\ Run(TypicalDay(d), 32400 + d * Day, 32400 + d * Day + Day)
         /\ Len(TypicalDay(d)) = TypicalLength
<1> DEFINE m1 == 32400 + d * Day
           m2 == 43200 + d * Day
           m3 == 54000 + d * Day
           m4 == 64800 + d * Day
           a == Session(Trace["gmailgchat"], m1)
           b == Session(Trace["gcalgdocs"], m2)
           c == Session(Trace["facebook"], m3)
           e == Sessions(Trace["websearch"], 2, m4)
<1>1. /\ m1 \in Nat /\ m2 \in Nat /\ m3 \in Nat /\ m4 \in Nat /\ Day = 86400
      /\ m2 = m1 + 10800 /\ m3 = m2 + 10800 /\ m4 = m3 + 10800
  BY DaysType, Units
<1>2. TypicalDay(d) = ((a \o b) \o c) \o e
  BY DEF TypicalDay
<1>3. \A k \in {"gmailgchat", "gcalgdocs", "facebook", "websearch"} :
        IsTrace(Trace[k]) /\ Last(Trace[k]) <= 3 * Hour
  BY DEF BriefSessions, Interactive
<1> HIDE DEF m1, m2, m3, m4
<1>4. Run(a, m1, m2) /\ Len(a) = Len(Trace["gmailgchat"])
  <2>1. Run(a, m1, m1 + 10800)
    BY <1>1, <1>3, BriefRuns
  <2> QED BY <1>1, <1>3, <2>1, SessionRun
<1>5. Run(b, m2, m3) /\ Len(b) = Len(Trace["gcalgdocs"])
  <2>1. Run(b, m2, m2 + 10800)
    BY <1>1, <1>3, BriefRuns
  <2> QED BY <1>1, <1>3, <2>1, SessionRun
<1>6. Run(c, m3, m4) /\ Len(c) = Len(Trace["facebook"])
  <2>1. Run(c, m3, m3 + 10800)
    BY <1>1, <1>3, BriefRuns
  <2> QED BY <1>1, <1>3, <2>1, SessionRun
<1>7. Run(e, m4, m4 + 21600) /\ Len(e) = 2 * Len(Trace["websearch"])
  <2>1. 2 \in 1..3 /\ 2 \in Nat \ {0} /\ 2 * 10800 = 21600
    OBVIOUS
  <2>2. \A n \in 1..3 :
          Run(Sessions(Trace["websearch"], n, m4), m4, m4 + n * 10800)
    BY <1>1, <1>3, BriefRuns
  <2>3. Run(e, m4, m4 + 21600)
    BY <2>1, <2>2
  <2>4. IsTrace(Trace["websearch"])
    BY <1>3
  <2>5. Len(e) = 2 * Len(Trace["websearch"])
    BY <1>1, <2>1, <2>4, SessionsRun
  <2> QED BY <2>3, <2>5
<1> HIDE DEF a, b, c, e
<1>m. /\ m1 \in Nat /\ m2 \in Nat /\ m3 \in Nat /\ m4 \in Nat /\ m4 + 21600 \in Nat
      /\ m2 <= m2 /\ m3 <= m3 /\ m4 <= m4
  BY <1>1
<1>8. Run(a \o b, m1, m3)
  BY <1>m, <1>4, <1>5, RunsJoined
<1>9. Run((a \o b) \o c, m1, m4)
  BY <1>m, <1>6, <1>8, RunsJoined
<1>10. Run(((a \o b) \o c) \o e, m1, m4 + 21600)
  BY <1>m, <1>7, <1>9, RunsJoined
<1>l. Len(((a \o b) \o c) \o e) = Len(a) + Len(b) + Len(c) + Len(e)
  <2>1. a \in Seq(Nat) /\ b \in Seq(Nat) /\ c \in Seq(Nat) /\ e \in Seq(Nat)
    BY <1>4, <1>5, <1>6, <1>7 DEF Run
  <2>2. a \o b \in Seq(Nat) /\ (a \o b) \o c \in Seq(Nat)
    BY <2>1
  <2>3. \A x, y \in Seq(Nat) : Len(x \o y) = Len(x) + Len(y)
    OBVIOUS
  <2>4. /\ Len(a \o b) = Len(a) + Len(b)
        /\ Len((a \o b) \o c) = Len(a \o b) + Len(c)
        /\ Len(((a \o b) \o c) \o e) = Len((a \o b) \o c) + Len(e)
    BY <2>1, <2>2, <2>3
  <2> QED BY <2>4
<1>11. Run(((a \o b) \o c) \o e, m1, m1 + Day)
  <2>1. m4 + 21600 \in Nat /\ m1 + Day \in Nat /\ m4 + 21600 <= m1 + Day /\ m1 <= m1
    BY <1>1
  <2> QED BY <1>1, <1>10, <2>1, RunWider
<1>12. Len(TypicalDay(d)) = TypicalLength
  BY <1>2, <1>4, <1>5, <1>6, <1>7, <1>l DEF TypicalLength
<1> QED BY <1>2, <1>11, <1>12 DEF m1

LEMMA TypicalUnrollable ==
  ASSUME BriefSessions
  PROVE  Unrollable(Typical)
<1> DEFINE row == [d \in Int |-> TypicalDay(d)]
           times == Repeat(7, TypicalDay)
<1>1. TypicalLength \in Nat \ {0}
  <2>1. \A k \in {"gmailgchat", "gcalgdocs", "facebook", "websearch"} : IsTrace(Trace[k])
    BY DEF BriefSessions, Interactive
  <2>2. \A k \in {"gmailgchat", "gcalgdocs", "facebook", "websearch"} :
          Len(Trace[k]) \in Nat \ {0}
    BY <2>1, TraceFacts
  <2>3. /\ Len(Trace["gmailgchat"]) \in Nat \ {0} /\ Len(Trace["gcalgdocs"]) \in Nat \ {0}
        /\ Len(Trace["facebook"]) \in Nat \ {0} /\ Len(Trace["websearch"]) \in Nat \ {0}
    BY <2>2
  <2>4. \A w, x, y, z \in Nat \ {0} : w + x + y + 2 * z \in Nat \ {0}
    OBVIOUS
  <2> QED BY <2>3, <2>4 DEF TypicalLength
<1>2. Len(TypicalDay(0)) = TypicalLength
  <2>1. 0 \in 0..6
    OBVIOUS
  <2> QED BY <2>1, TypicalRun
<1>3. times = [i \in 1..7 * TypicalLength |-> TypicalDay((i - 1) \div TypicalLength)[1 + ((i - 1) % TypicalLength)]]
  BY <1>2 DEF Repeat
<1>4. times = Rows(7, TypicalLength, row)
  <2> HIDE DEF times
  <2>1. \A i \in 1..7 * TypicalLength : (i - 1) \div TypicalLength \in Int
    BY <1>1
  <2> QED BY <1>3, <2>1 DEF Rows
<1>5. ASSUME NEW d \in 0..6
      PROVE  Run(row[d], 32400 + d * Day, 32400 + d * Day + Day) /\ Len(row[d]) = TypicalLength
  <2>1. row[d] = TypicalDay(d)
    OBVIOUS
  <2>2. Run(TypicalDay(d), 32400 + d * Day, 32400 + d * Day + Day) /\ Len(TypicalDay(d)) = TypicalLength
    BY TypicalRun
  <2> QED BY <2>1, <2>2
<1> HIDE DEF row, times
<1>6. 7 \in 2..7 /\ 32400 \in Nat /\ 7 - 1 = 6
  OBVIOUS
<1>7. RunsEvery(row, 7, TypicalLength, 32400, Day, Day)
  BY <1>5, <1>6 DEF RunsEvery
<1>8. Unrollable(times)
  BY <1>1, <1>4, <1>6, <1>7, DaysRepeated
<1>9. Typical = times
  BY <1>8, InOrderAlready DEF Typical, Unrollable, times
<1> QED BY <1>8, <1>9

\* When the sessions of each key are over before its next one begins, all weekly schedules
\* can be unrolled: that of facebook and its like, of irc, of bittorrent, the custom ones
\* and the one that mixes four kinds of sessions, which sorting finds in order already.
THEOREM SchedulesUnrollable ==
  ASSUME \A k \in DOMAIN Trace : Fits(k) PROVE \A k \in Key : Unrollable(ScheduleOf(k))
<1> SUFFICES ASSUME NEW k \in Key PROVE Unrollable(ScheduleOf(k))
  OBVIOUS
<1>1. \A t \in DOMAIN Trace : IsTrace(Trace[t])
  BY TraceAssumption DEF IsTrace
<1>2. \A t \in DOMAIN Trace : Fits(t)
  OBVIOUS
<1>3. CASE k = "typical"
  <2>1. Standard \subseteq DOMAIN Trace
    BY <1>3 DEF Key, Derived
  <2>2. \A t \in Interactive : IsTrace(Trace[t]) /\ Last(Trace[t]) <= 3 * Hour
    <3> SUFFICES ASSUME NEW t \in Interactive PROVE IsTrace(Trace[t]) /\ Last(Trace[t]) <= 3 * Hour
      OBVIOUS
    <3>1. t \in DOMAIN Trace
      BY <2>1 DEF Standard
    <3>2. IsTrace(Trace[t]) /\ Fits(t)
      BY <1>1, <1>2, <3>1
    <3>3. Last(Trace[t]) <= 3 * Hour
      BY <3>2 DEF Fits, Last, Interactive
    <3> QED BY <3>2, <3>3
  <2>3. ScheduleOf(k) = Typical
    BY <1>3 DEF ScheduleOf, Interactive
  <2> QED BY <2>2, <2>3, TypicalUnrollable DEF BriefSessions
<1>4. CASE k # "typical"
  <2>1. k \in DOMAIN Trace
    BY <1>4 DEF Key
  <2>2. IsTrace(Trace[k]) /\ Fits(k)
    BY <1>1, <1>2, <2>1
  <2>3. CASE k \in Interactive
    <3>1. Last(Trace[k]) <= 3 * Hour /\ ScheduleOf(k) = Weekdays(Trace[k])
      BY <2>2, <2>3 DEF Fits, ScheduleOf, Last, Interactive
    <3> QED BY <2>2, <3>1, WeekdaysUnrollable
  <2>4. CASE k = "irc"
    <3>1. 27 * Last(Trace[k]) <= Day /\ ScheduleOf(k) = Workdays(Trace[k])
      BY <2>2, <2>4 DEF Fits, ScheduleOf, Last, Interactive
    <3> QED BY <2>2, <3>1, WorkdaysUnrollable
  <2>5. CASE k = "bittorrent"
    <3>1. 18 * Last(Trace[k]) <= Day /\ ScheduleOf(k) = Weekend(Trace[k])
      BY <2>2, <2>5 DEF Fits, ScheduleOf, Last, Interactive
    <3> QED BY <2>2, <3>1, WeekendUnrollable
  <2>6. CASE k \notin Interactive /\ k # "irc" /\ k # "bittorrent"
    <3>1. Last(Trace[k]) <= Trace[k][1] + Hour /\ ScheduleOf(k) = Hourly(Trace[k])
      BY <1>4, <2>2, <2>6 DEF Fits, ScheduleOf, Last
    <3> QED BY <2>2, <3>1, HourlyUnrollable
  <2> QED BY <2>3, <2>4, <2>5, <2>6
<1> QED BY <1>3, <1>4
-----------------------------------------------------------------------------
\* Whatever the weekly schedules, if each is in order and the weeks follow one
\* another, the streams of a user are in order and within the simulated time:
\* "currenttime < offset and seconds < offset" skips exactly what lies before the start.
THEOREM UserStreamsInOrder ==
  ASSUME \A k \in Key : Unrollable(ScheduleOf(k)) PROVE Spec => []StreamsInOrder
<1>1. IInv => StreamsInOrder
  BY DEF IInv, LastStream, StreamsInOrder
<1> QED BY <1>1, InitIInv, StepIInv, PTL DEF Spec

\* Under the same hypothesis the constructor's variables have their types: the entry never
\* passes the end of the schedule by more than one, and no stream has a negative time.
THEOREM UserTypeOK ==
  ASSUME \A k \in Key : Unrollable(ScheduleOf(k)) PROVE Spec => []TypeOK
<1>1. IInv => TypeOK
  BY DEF IInv, Types, TypeOK
<1> QED BY <1>1, InitIInv, StepIInv, PTL DEF Spec

\* Under the same hypothesis no stream is lost or repeated: the streams are those of every
\* week that lie in the simulated time, where the first week is cut and where "break" ends
\* the last one.
THEOREM UserStreamsComplete ==
  ASSUME \A k \in Key : Unrollable(ScheduleOf(k)) PROVE Spec => []StreamsComplete
<1>1. Init => IInv /\ Complete
  BY InitIInv, InitComplete
<1>2. IInv /\ Complete /\ [Next]_vars => (IInv /\ Complete)'
  BY StepIInv, CompleteStep
<1> QED BY <1>1, <1>2, DoneComplete, PTL DEF Spec

\* In particular for all traces whose sessions are over when the next one of their key
\* begins, as those of 20 minutes are.
COROLLARY FittingStreams ==
  ASSUME \A k \in DOMAIN Trace : Fits(k) PROVE Spec => [](StreamsInOrder /\ StreamsComplete)
<1>1. \A k \in Key : Unrollable(ScheduleOf(k))
  BY SchedulesUnrollable
<1>2. Spec => []StreamsInOrder
  BY <1>1, UserStreamsInOrder
<1>3. Spec => []StreamsComplete
  BY <1>1, UserStreamsComplete
<1> QED BY <1>2, <1>3, PTL
=============================================================================
