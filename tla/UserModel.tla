------------------------------- MODULE UserModel -------------------------------
(***************************************************************************)
(* The streams of a user (models.py): a weekly schedule is made of traces  *)
(* and unrolled over the simulated time.  Destinations and ports are left  *)
(* out; what is kept of a stream is its time, in seconds.  The local time  *)
(* zone of datetime is taken to be UTC.                                    *)
(***************************************************************************)
EXTENDS Integers, Sequences, FiniteSets

CONSTANTS
  Trace,        \* key of a trace -> the seconds of its streams
  StartTimes,   \* starttime of the simulation, since the epoch
  Durations     \* endtime - starttime

Hour == 3600
Day  == 24 * Hour
Week == 7 * Day

Interactive == {"facebook", "gmailgchat", "gcalgdocs", "websearch"}
Standard    == Interactive \cup {"irc", "bittorrent"}

\* Schedules made of several traces: the best and worst case have the times of "typical".
Derived == {"typical", "best", "worst"}

\* The standard sessions are there together or not at all; other keys are custom.
Key == IF Standard \subseteq DOMAIN Trace THEN (DOMAIN Trace \ Derived) \cup {"typical"}
       ELSE DOMAIN Trace \ (Standard \cup Derived)

Ascending(times) == \A i \in 1..Len(times) - 1 : times[i] <= times[i + 1]

\* A session has at least a stream (else its key's loop never ends), in order.
ASSUME TraceAssumption ==
  \A key \in DOMAIN Trace :
    /\ Trace[key] \in Seq(Nat) /\ Trace[key] # <<>> /\ Ascending(Trace[key])
ASSUME TimeAssumption ==
  StartTimes \subseteq Nat /\ Durations \subseteq Nat /\ \A t \in StartTimes : t >= Week
-----------------------------------------------------------------------------
(* The weekly schedule, in seconds since its beginning.                    *)

\* What schedule_session() appends, and how long it says the session takes.
Session(trace, sessionstart) == [i \in 1..Len(trace) |-> sessionstart + trace[i]]
SessionLength(trace) ==
  LET last == trace[Len(trace)] IN IF last < 20 * 60 THEN 20 * 60 ELSE last

\* n sessions in a row.
Sessions(trace, n, sessionstart) ==
  [i \in 1..n * Len(trace) |->
     sessionstart + ((i - 1) \div Len(trace)) * SessionLength(trace)
                  + trace[1 + ((i - 1) % Len(trace))]]

\* Part(0), Part(1), ..., Part(n - 1), all of one length.
Repeat(n, Part(_)) ==
  [i \in 1..n * Len(Part(0)) |->
     Part((i - 1) \div Len(Part(0)))[1 + ((i - 1) % Len(Part(0)))]]

InteractiveDay(trace, day) ==
  Session(trace, 109800 + day * Day) \o Sessions(trace, 3, 151200 + day * Day)

TypicalDay(day) ==
  Session(Trace["gmailgchat"], 32400 + day * Day)
    \o Session(Trace["gcalgdocs"], 43200 + day * Day)
    \o Session(Trace["facebook"], 54000 + day * Day)
    \o Sessions(Trace["websearch"], 2, 64800 + day * Day)

\* Where sort() puts each entry: behind those that are less, and equal ones before it.
Place(times) ==
  [i \in DOMAIN times |->
     Cardinality({j \in DOMAIN times : times[j] < times[i] \/ (times[j] = times[i] /\ j <= i)})]

InOrder(times) ==
  LET place == Place(times) IN
  [k \in DOMAIN times |-> times[CHOOSE i \in DOMAIN times : place[i] = k]]

\* The seven days of "typical" are put in order, the only ones sorted.
Typical == InOrder(Repeat(7, TypicalDay))

Hourly(trace) == Repeat(7 * 24, LAMBDA hour : Session(trace, hour * Hour))

Weekdays(trace)  == Repeat(5, LAMBDA day : InteractiveDay(trace, day))
Workdays(trace)  == Repeat(5, LAMBDA day : Sessions(trace, 27, 115200 + day * Day))
Weekend(trace)   == Repeat(2, LAMBDA day : Sessions(trace, 18, 6 * day * Day))

ScheduleOf(key) ==
  CASE key \in Interactive  -> Weekdays(Trace[key])
    [] key = "irc"          -> Workdays(Trace[key])
    [] key = "bittorrent"   -> Weekend(Trace[key])
    [] key = "typical"      -> Typical
    [] OTHER                -> Hourly(Trace[key])

\* A session is over when the next of its key begins; nothing in the code sees to it.
Fits(key) ==
  LET trace == Trace[key]
      last  == trace[Len(trace)]
  IN  CASE key \in Interactive -> last <= 3 * Hour
        [] key = "irc"         -> 27 * last <= Day
        [] key = "bittorrent"  -> 18 * last <= Day
        [] OTHER               -> last <= trace[1] + Hour
-----------------------------------------------------------------------------
(* The schedule unrolled from starttime to endtime, for one key: the loops *)
(* for the others are the same.                                            *)

VARIABLES
  key, schedule,             \* the key and its schedule for a week
  starttime, endtime,        \* of the simulation
  pc,
  week,                      \* the weeks gone through
  entry,                     \* the next entry of the schedule
  currenttime,
  model                      \* the times of the streams

asked == <<key, schedule, starttime, endtime>>
vars  == <<asked, pc, week, entry, currenttime, model>>

\* datetime.weekday() is 0 on Mondays, and the epoch was a Thursday.
weekday(time) == (time \div Day + 3) % 7

offset == weekday(starttime) * Day + (starttime % Day)

\* Mutant of seconds: the week is forgotten.
secondsOfWeek == schedule[entry]

seconds == schedule[entry] + week * Week

Init ==
  /\ key \in Key /\ schedule = ScheduleOf(key)
  /\ starttime \in StartTimes
  /\ endtime \in {starttime + d : d \in Durations}
  /\ pc = "week" /\ week = 0 /\ entry = 1 /\ currenttime = 0 /\ model = <<>>

\* The while loop.
BeginWeek ==
  /\ pc = "week" /\ currenttime < endtime
  /\ pc' = "entry" /\ entry' = 1
  /\ UNCHANGED <<asked, week, currenttime, model>>

Finish ==
  /\ pc = "week" /\ currenttime >= endtime
  /\ pc' = "done"
  /\ UNCHANGED <<asked, week, entry, currenttime, model>>

\* Mutant of BeforeStart: a stream right at the start is skipped too.
BeforeStartOrAt == currenttime < offset /\ seconds <= offset

BeforeStart == currenttime < offset /\ seconds < offset

\* Mutant of SkipEntry: the index moves with a stream only.
SkipEntryStuck ==
  /\ pc = "entry" /\ entry <= Len(schedule) /\ BeforeStart
  /\ UNCHANGED vars

\* The for loop: an entry before the start is skipped, ...
SkipEntry ==
  /\ pc = "entry" /\ entry <= Len(schedule) /\ BeforeStart
  /\ entry' = entry + 1
  /\ UNCHANGED <<asked, pc, week, currenttime, model>>

\* ... a later one becomes a stream, ...
TakeEntry ==
  /\ pc = "entry" /\ entry <= Len(schedule) /\ ~BeforeStart
  /\ currenttime' = seconds - offset + starttime
  /\ currenttime' < endtime
  /\ model' = Append(model, currenttime')
  /\ entry' = entry + 1
  /\ UNCHANGED <<asked, pc, week>>

\* ... and the first one after the end ends the loop.
PassEnd ==
  /\ pc = "entry" /\ entry <= Len(schedule) /\ ~BeforeStart
  /\ currenttime' = seconds - offset + starttime
  /\ currenttime' >= endtime
  /\ pc' = "week" /\ week' = week + 1
  /\ UNCHANGED <<asked, entry, model>>

EndWeek ==
  /\ pc = "entry" /\ entry > Len(schedule)
  /\ pc' = "week" /\ week' = week + 1
  /\ UNCHANGED <<asked, entry, currenttime, model>>

Done == pc = "done" /\ UNCHANGED vars

Step == BeginWeek \/ Finish \/ SkipEntry \/ TakeEntry \/ PassEnd \/ EndWeek

Next == Step \/ Done

Spec == Init /\ [][Next]_vars

\* The constructor runs on.
FairSpec == Spec /\ WF_vars(Step)
-----------------------------------------------------------------------------
(* Properties.                                                             *)

TypeOK ==
  /\ pc \in {"week", "entry", "done"}
  /\ week \in Nat /\ entry \in 1..Len(schedule) + 1
  /\ currenttime \in Nat /\ model \in Seq(Nat)

\* The streams come in the order in which create_circuits() wants them and all within
\* the simulated time, whatever weekday and time it begins at.
StreamsInOrder ==
  /\ Ascending(model)
  /\ model # <<>> => model[1] >= starttime /\ model[Len(model)] < endtime

\* The weeks of which the simulated time may have a part.
Weeks == 0..(endtime - starttime) \div Week + 1

\* The streams are those of every week's schedule that lie in the simulated time: none
\* is lost or repeated where the first week is cut, where one week follows another or
\* where the last one breaks off.
StreamsComplete ==
  pc = "done" =>
    LET since(o) == schedule[o[2]] + o[1] * Week - offset
        occurrences == {o \in Weeks \X (1..Len(schedule)) :
                          0 <= since(o) /\ since(o) < endtime - starttime}
    IN  /\ Len(model) = Cardinality(occurrences)
        /\ {model[k] : k \in 1..Len(model)} = {since(o) + starttime : o \in occurrences}

\* The loop over the weeks ends: every week brings the time nearer to the end.
ModelBuilt == <>(pc = "done")
=============================================================================
