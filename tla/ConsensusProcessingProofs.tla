----------------------- MODULE ConsensusProcessingProofs -----------------------
(***************************************************************************)
(* One pass over a dictionary finds what its comments ask for, in whatever *)
(* order it goes, for every archive and every consensus.                   *)
(***************************************************************************)
EXTENDS ConsensusProcessing, TLAPS

\* What the pass has come to.
Seen == DOMAIN archive[router] \ left

\* The relays that are done with.
Done ==
  CASE pc = "closed"  -> {}
    [] pc = "routers" -> DOMAIN consensus.published \ routers
    [] OTHER          -> DOMAIN consensus.published \ (routers \cup {router})

BestSoFar ==
  \/ desc_time = 0 /\ \A t \in Seen : ~FitFor(router, t)
  \/ /\ desc_time \in Seen /\ FitFor(router, desc_time)
     /\ \A t \in Seen : FitFor(router, t) => t <= desc_time

FreshSoFar == descs_while_fresh = {t \in Seen : WhileFresh(t)}

\* The initial status comes from the oldest descriptor, when all are later than the
\* start; or from the latest up to the start, unless one is just at the start.
InitialSoFar ==
  \/ desc_time_fresh = None /\ Seen = {}
  \/ /\ desc_time_fresh \in Seen
     /\ desc_time_fresh > valid_after_ts => \A s \in Seen : desc_time_fresh <= s
     /\ desc_time_fresh <= valid_after_ts =>
          \/ valid_after_ts \in Seen
          \/ \A s \in Seen : s <= valid_after_ts => s <= desc_time_fresh

Routing ==
  /\ router \in DOMAIN consensus.published
  /\ router \notin routers

PassInv ==
  pc = "pass" =>
    /\ Routing
    /\ left \subseteq DOMAIN archive[router]
    /\ BestSoFar /\ FreshSoFar /\ InitialSoFar
    /\ descriptors_out[router] = None
    /\ \A i \in DOMAIN hibernating_statuses : hibernating_statuses[i].relay # router

\* The last status noted for the relay is the current one.
LastNoted ==
  \E i \in DOMAIN hibernating_statuses :
    /\ hibernating_statuses[i].relay = router
    /\ hibernating_statuses[i].hibernating = cur_hibernating
    /\ \A j \in DOMAIN hibernating_statuses :
         hibernating_statuses[j].relay = router =>
           i = j \/ hibernating_statuses[j].time < hibernating_statuses[i].time

ToldSoFar ==
  \A now \in valid_after_ts..fresh_until_ts :
    (\A s \in descs_while_fresh : now < s) => Noted(router, now, StatusAt(router, now))

ChangesInv ==
  pc = "changes" =>
    /\ Routing
    /\ LatestFor(router)
    /\ \A s \in descs_while_fresh : s \in DOMAIN archive[router] /\ WhileFresh(s)
    /\ \A s \in DOMAIN archive[router], t \in descs_while_fresh :
         WhileFresh(s) /\ s \notin descs_while_fresh => s < t
    /\ \A i \in DOMAIN hibernating_statuses, s \in descs_while_fresh :
         hibernating_statuses[i].relay = router => hibernating_statuses[i].time < s
    /\ LastNoted
    /\ ToldSoFar

DoneInv ==
  /\ pc # "closed" => routers \subseteq DOMAIN consensus.published
  /\ pc # "closed" => \A r \in routers : descriptors_out[r] = None
  /\ pc # "closed" => \A i \in DOMAIN hibernating_statuses :
                        hibernating_statuses[i].relay \notin routers
  /\ \A r \in Done : LatestFor(r)
  /\ \A r \in Done : descriptors_out[r] # None => TellsHistory(r)

Inv == TypeOK /\ PassInv /\ ChangesInv /\ DoneInv
-----------------------------------------------------------------------------
(* What an archive and a consensus hold.                                   *)

LEMMA ArchiveFacts ==
  ASSUME TypeOK, NEW r \in Relay
  PROVE  /\ DOMAIN archive[r] \subseteq Time
         /\ \A t \in DOMAIN archive[r] : archive[r][t] \in BOOLEAN
BY ArchiveAssumption DEF TypeOK, IsHistory

LEMMA ConsensusFacts ==
  ASSUME TypeOK, pc # "closed"
  PROVE  /\ valid_after_ts \in Time /\ fresh_until_ts \in Time
         /\ valid_after_ts < fresh_until_ts
         /\ DOMAIN consensus.published \subseteq Relay
         /\ \A r \in DOMAIN consensus.published : consensus.published[r] \in Time
<1>1. consensus \in Consensus
  BY DEF TypeOK
<1>2. IsDocument(consensus)
  BY <1>1, ConsensusAssumption
<1> QED BY <1>2 DEF IsDocument, valid_after_ts, fresh_until_ts

\* The status at an instant is that of the latest descriptor up to it,
LEMMA StatusOfLatest ==
  ASSUME TypeOK, NEW r \in Relay, NEW now \in Nat,
         NEW t \in DOMAIN archive[r], t <= now,
         \A s \in DOMAIN archive[r] : s <= now => s <= t
  PROVE  StatusAt(r, now) = archive[r][t]
<1> DEFINE past == {s \in DOMAIN archive[r] : s <= now}
<1>1. t \in past /\ \A s \in past : s <= t
  OBVIOUS
<1>2. \A u \in past : (\A s \in past : s <= u) => u = t
  BY <1>1, ArchiveFacts DEF Time
<1>3. (CHOOSE u \in past : \A s \in past : s <= u) = t
  BY <1>1, <1>2
<1> QED BY <1>1, <1>3 DEF StatusAt

\* or of the oldest when there is none.
LEMMA StatusOfOldest ==
  ASSUME TypeOK, NEW r \in Relay, NEW now \in Nat,
         NEW t \in DOMAIN archive[r],
         \A s \in DOMAIN archive[r] : t <= s /\ ~(s <= now)
  PROVE  StatusAt(r, now) = archive[r][t]
<1> DEFINE times == DOMAIN archive[r]
<1>1. {s \in times : s <= now} = {}
  OBVIOUS
<1>2. \A u \in times : (\A s \in times : u <= s) => u = t
  BY ArchiveFacts DEF Time
<1>3. (CHOOSE u \in times : \A s \in times : u <= s) = t
  BY <1>2
<1> QED BY <1>1, <1>3 DEF StatusAt
-----------------------------------------------------------------------------
(* One turn of the pass.                                                   *)

LEMMA LookAtKeepsPass ==
  ASSUME TypeOK, PassInv, NEW t \in left, LookAt(t)
  PROVE  PassInv'
<1>1. pc = "pass" /\ pc' = "pass" /\ UNCHANGED <<archive, consensus, router, routers>>
  BY DEF LookAt
<1>2. /\ Routing /\ left \subseteq DOMAIN archive[router]
      /\ BestSoFar /\ FreshSoFar /\ InitialSoFar
  BY <1>1 DEF PassInv
<1>3. router \in Relay /\ router \in DOMAIN consensus.published
  BY <1>1, <1>2, ConsensusFacts DEF Routing
<1>4. /\ DOMAIN archive[router] \subseteq Nat /\ t \in DOMAIN archive[router] /\ t # 0
      /\ t \in Nat
  BY <1>2, <1>3, ArchiveFacts DEF Time
<1>5. Seen' = Seen \cup {t} /\ Seen \subseteq Nat
  BY <1>1, <1>4 DEF LookAt, Seen
<1>6. valid_after_ts \in Nat /\ valid_after_ts' = valid_after_ts
      /\ fresh_until_ts' = fresh_until_ts
  BY <1>1, ConsensusFacts DEF Time, valid_after_ts, fresh_until_ts
<1>7. /\ \A s : FitFor(router, s)' = FitFor(router, s)
      /\ Fit(t) = FitFor(router, t)
  BY <1>1, <1>6 DEF FitFor, Fit, pub_time
<1>8. BestSoFar'
  <2>1. desc_time' = IF FitFor(router, t) /\ t > desc_time THEN t ELSE desc_time
    BY <1>7 DEF LookAt, Newer
  <2>2. desc_time \in Nat
    BY DEF TypeOK
  <2> QED BY <1>1, <1>2, <1>4, <1>5, <1>7, <2>1, <2>2 DEF BestSoFar
<1>9. FreshSoFar'
  <2>1. \A s : WhileFresh(s)' = WhileFresh(s)
    BY <1>6 DEF WhileFresh
  <2>2. descs_while_fresh' = IF WhileFresh(t) THEN descs_while_fresh \cup {t}
                             ELSE descs_while_fresh
    BY DEF LookAt
  <2> QED BY <1>2, <1>5, <2>1, <2>2 DEF FreshSoFar
<1>10. InitialSoFar'
  <2>1. desc_time_fresh' = Initial(t)
    BY DEF LookAt
  <2>2. CASE desc_time_fresh = None
    <3>1. Seen' = {t} /\ desc_time_fresh' = t
      BY <1>2, <1>4, <1>5, <2>1, <2>2, NoneAssumption DEF InitialSoFar, Initial
    <3> QED BY <3>1, <1>4 DEF InitialSoFar
  <2>3. CASE desc_time_fresh # None
    <3> DEFINE d == desc_time_fresh
               v == valid_after_ts
               Kept(e, S) == /\ e \in S
                             /\ e > v => \A s \in S : e <= s
                             /\ e <= v => v \in S \/ \A s \in S : s <= v => s <= e
    <3>1. d \in Seen /\ d \in Nat /\ Kept(d, Seen)
      BY <1>2, <1>5, <2>3 DEF InitialSoFar
    <3>2. desc_time_fresh' = IF (d < v /\ t > d /\ t <= v) \/ (d >= v /\ t < d)
                             THEN t ELSE d
      BY <2>1, <2>3 DEF Initial
    <3>3. Kept(desc_time_fresh', Seen \cup {t})
      <4>1. CASE d < v
        BY <1>4, <1>5, <1>6, <3>1, <3>2, <4>1
      <4>2. CASE d = v
        BY <1>4, <1>5, <1>6, <3>1, <3>2, <4>2
      <4>3. CASE d > v
        BY <1>4, <1>5, <1>6, <3>1, <3>2, <4>3
      <4> QED BY <1>6, <3>1, <4>1, <4>2, <4>3
    <3> QED BY <1>5, <1>6, <3>3 DEF InitialSoFar
  <2> QED BY <2>2, <2>3
<1> QED
  BY <1>1, <1>2, <1>8, <1>9, <1>10 DEF PassInv, LookAt, Routing, output
-----------------------------------------------------------------------------
(* Noting statuses.                                                        *)

LEMMA NoteAppends ==
  ASSUME TypeOK, router \in Relay, NEW t \in Nat, NEW h \in BOOLEAN, Note(t, h)
  PROVE  /\ cur_hibernating' = h
         /\ Len(hibernating_statuses') = Len(hibernating_statuses) + 1
         /\ DOMAIN hibernating_statuses' = 1..Len(hibernating_statuses) + 1
         /\ DOMAIN hibernating_statuses = 1..Len(hibernating_statuses)
         /\ Len(hibernating_statuses) \in Nat
         /\ \A i \in DOMAIN hibernating_statuses :
              hibernating_statuses'[i] = hibernating_statuses[i]
         /\ hibernating_statuses'[Len(hibernating_statuses) + 1] = Entry(t, router, h)
         /\ hibernating_statuses' \in
              Seq([time : Nat, relay : Relay, hibernating : BOOLEAN])
<1>1. hibernating_statuses \in Seq([time : Nat, relay : Relay, hibernating : BOOLEAN])
  BY DEF TypeOK
<1>2. Entry(t, router, h) \in [time : Nat, relay : Relay, hibernating : BOOLEAN]
  BY DEF Entry
<1> QED BY <1>1, <1>2 DEF Note

LEMMA ElementsOfSeq ==
  ASSUME NEW E, NEW s \in Seq(E)
  PROVE  \A i \in 1..Len(s) : s[i] \in E
OBVIOUS

LEMMA StatusTypes ==
  ASSUME TypeOK
  PROVE  /\ DOMAIN hibernating_statuses = 1..Len(hibernating_statuses)
         /\ Len(hibernating_statuses) \in Nat
         /\ \A i \in DOMAIN hibernating_statuses :
              /\ hibernating_statuses[i].time \in Nat
              /\ hibernating_statuses[i].relay \in Relay
<1>1. hibernating_statuses \in Seq([time : Nat, relay : Relay, hibernating : BOOLEAN])
  BY DEF TypeOK
<1>2. \A i \in 1..Len(hibernating_statuses) :
        hibernating_statuses[i] \in [time : Nat, relay : Relay, hibernating : BOOLEAN]
  BY <1>1, ElementsOfSeq
<1> QED BY <1>1, <1>2

\* What was noted for other relays, and up to earlier times, stays noted.
LEMMA NotedStays ==
  ASSUME TypeOK, router \in Relay, NEW t \in Nat, NEW h \in BOOLEAN, Note(t, h),
         NEW r \in Relay, NEW now \in Nat, r # router \/ now < t,
         NEW k, Noted(r, now, k)
  PROVE  Noted(r, now, k)'
<1>1. PICK i \in DOMAIN hibernating_statuses :
        /\ hibernating_statuses[i].relay = r
        /\ hibernating_statuses[i].time <= now
        /\ hibernating_statuses[i].hibernating = k
        /\ \A j \in DOMAIN hibernating_statuses :
             hibernating_statuses[j].relay = r /\ hibernating_statuses[j].time <= now
               => hibernating_statuses[j].time < hibernating_statuses[i].time \/ i = j
  BY DEF Noted
<1> DEFINE new == hibernating_statuses'
           n == Len(hibernating_statuses)
<1>0. /\ n \in Nat /\ DOMAIN new = 1..n + 1 /\ DOMAIN hibernating_statuses = 1..n
      /\ \A j \in 1..n : new[j] = hibernating_statuses[j]
      /\ new[n + 1] = Entry(t, router, h)
  BY NoteAppends
<1>2. /\ i \in DOMAIN new /\ new[i] = hibernating_statuses[i]
      /\ \A j \in DOMAIN new : \/ /\ j \in DOMAIN hibernating_statuses
                                /\ new[j] = hibernating_statuses[j]
                             \/ new[j] = Entry(t, router, h)
  BY <1>0
<1>3. \A j \in DOMAIN new :
        new[j].relay = r /\ new[j].time <= now => new[j].time < new[i].time \/ i = j
  BY <1>1, <1>2 DEF Entry
<1> QED BY <1>1, <1>2, <1>3 DEF Noted

\* The status just noted is the last one from its time on.
LEMMA NotedLast ==
  ASSUME TypeOK, router \in Relay, NEW t \in Nat, NEW h \in BOOLEAN, Note(t, h),
         router' = router,
         \A i \in DOMAIN hibernating_statuses :
           hibernating_statuses[i].relay = router => hibernating_statuses[i].time < t
  PROVE  /\ LastNoted'
         /\ \A now \in Nat : now >= t => Noted(router, now, h)'
<1> DEFINE new == hibernating_statuses'
           last == Len(hibernating_statuses) + 1
<1>1. /\ last \in DOMAIN new /\ new[last] = Entry(t, router, h)
      /\ cur_hibernating' = h
      /\ \A j \in DOMAIN new : \/ j = last
                             \/ /\ j \in DOMAIN hibernating_statuses
                                /\ new[j] = hibernating_statuses[j]
  BY NoteAppends, StatusTypes
<1>2. \A j \in DOMAIN new : new[j].relay = router => last = j \/ new[j].time < t
  BY <1>1
<1>3. new[last].relay = router /\ new[last].time = t /\ new[last].hibernating = h
  BY <1>1 DEF Entry
<1>4. LastNoted'
  BY <1>1, <1>2, <1>3 DEF LastNoted
<1>5. ASSUME NEW now \in Nat, now >= t PROVE Noted(router, now, h)'
  BY <1>1, <1>2, <1>3, <1>5 DEF Noted
<1> QED BY <1>4, <1>5

\* What was noted last is the last one at every later time.
LEMMA LastStands ==
  ASSUME TypeOK, LastNoted, NEW now \in Nat,
         \A i \in DOMAIN hibernating_statuses :
           hibernating_statuses[i].relay = router => hibernating_statuses[i].time <= now
  PROVE  Noted(router, now, cur_hibernating)
BY StatusTypes DEF LastNoted, Noted
-----------------------------------------------------------------------------
(* The end of the pass and the pass over the fresh period.                 *)

LEMMA RouterIsRelay ==
  ASSUME TypeOK, pc # "closed", Routing
  PROVE  router \in Relay
BY ConsensusFacts DEF Routing

LEMMA SameFit ==
  ASSUME UNCHANGED <<archive, consensus>>, NEW r, NEW d, descriptors_out'[r] = d
  PROVE  /\ LatestFor(r)' = LET fit == {t \in DOMAIN archive[r] : FitFor(r, t)} IN
                              \/ fit = {} /\ d = None
                              \/ d \in fit /\ \A t \in fit : t <= d
         /\ \A now : StatusAt(r, now)' = StatusAt(r, now)
BY DEF LatestFor, FitFor, StatusAt, valid_after_ts, fresh_until_ts

LEMMA FoundBeginsChanges ==
  ASSUME TypeOK, PassInv, FoundDescriptor
  PROVE  ChangesInv'
<1>1. /\ pc = "pass" /\ left = {} /\ desc_time # 0 /\ pc' = "changes"
      /\ UNCHANGED <<archive, consensus, router, routers, descs_while_fresh>>
      /\ descriptors_out' = [descriptors_out EXCEPT ![router] = desc_time]
      /\ Note(0, archive[router][desc_time_fresh])
  BY DEF FoundDescriptor
<1> DEFINE D == DOMAIN archive[router]
           d == desc_time_fresh
<1>2. Routing /\ BestSoFar /\ FreshSoFar /\ InitialSoFar /\ Seen = D
  BY <1>1 DEF PassInv, Seen
<1>3. router \in Relay /\ D \subseteq Nat /\ \A t \in D : t # 0 /\ archive[router][t] \in BOOLEAN
  BY <1>1, <1>2, RouterIsRelay, ArchiveFacts DEF Time
<1>4. desc_time \in D /\ FitFor(router, desc_time)
      /\ \A t \in D : FitFor(router, t) => t <= desc_time
  BY <1>1, <1>2 DEF BestSoFar
<1>5. d \in D /\ archive[router][d] \in BOOLEAN
  BY <1>2, <1>3, <1>4 DEF InitialSoFar
<1>h. PICK h \in BOOLEAN : h = archive[router][d]
  BY <1>5
<1>6. /\ valid_after_ts \in Nat /\ fresh_until_ts \in Nat
      /\ valid_after_ts' = valid_after_ts /\ fresh_until_ts' = fresh_until_ts
  BY <1>1, ConsensusFacts DEF Time, valid_after_ts, fresh_until_ts
<1>7. \A i \in DOMAIN hibernating_statuses : hibernating_statuses[i].relay # router
  BY <1>1 DEF PassInv
<1>8. Routing'
  BY <1>1, <1>2 DEF Routing
<1>9. LatestFor(router)'
  <2>1. PICK r \in Relay, best \in D : r = router /\ best = desc_time
    BY <1>3, <1>4
  <2>2. descriptors_out'[r] = best
    BY <1>1, <1>3, <2>1 DEF TypeOK
  <2>3. LatestFor(r)'
    BY <1>1, <1>4, <2>1, <2>2, SameFit
  <2> QED BY <1>1, <2>1, <2>3 DEF LatestFor, FitFor
<1>10. LastNoted' /\ \A now \in Nat : Noted(router, now, h)'
  BY <1>1, <1>3, <1>h, <1>7, NotedLast
<1>11. descs_while_fresh' = {t \in D : WhileFresh(t)} /\ \A t : WhileFresh(t)' = WhileFresh(t)
  BY <1>1, <1>2, <1>6 DEF FreshSoFar, WhileFresh
<1>12. ToldSoFar'
  <2> SUFFICES ASSUME NEW now \in valid_after_ts..fresh_until_ts,
                      \A s \in descs_while_fresh' : now < s
               PROVE  Noted(router, now, StatusAt(router, now))'
    BY <1>6 DEF ToldSoFar
  <2>1. now \in Nat
    BY <1>6
  <2>2. \A s \in D : s < valid_after_ts \/ now < s
    BY <1>3, <1>6, <1>11 DEF WhileFresh
  <2>3. StatusAt(router, now) = archive[router][d]
    <3>1. CASE d > valid_after_ts
      <4>1. \A s \in D : d <= s /\ ~(s <= now)
        <5>1. \A s \in D : d <= s
          BY <1>2, <1>3, <1>4, <3>1, NoneAssumption DEF InitialSoFar
        <5>2. now < d
          BY <1>3, <1>5, <1>6, <2>1, <2>2, <3>1
        <5> QED BY <1>3, <1>5, <2>1, <5>1, <5>2
      <4> QED BY <1>3, <1>5, <2>1, <4>1, StatusOfOldest
    <3>2. CASE d <= valid_after_ts
      <4>1. d <= now /\ \A s \in D : s <= now => s <= d
        <5>1. valid_after_ts \notin D
          BY <1>6, <2>2
        <5>2. \A s \in D : s <= valid_after_ts => s <= d
          BY <1>2, <1>3, <1>4, <3>2, <5>1, NoneAssumption DEF InitialSoFar
        <5> QED BY <1>3, <1>5, <1>6, <2>2, <3>2, <5>2
      <4> QED BY <1>3, <1>5, <2>1, <4>1, StatusOfLatest
    <3> QED BY <1>3, <1>5, <1>6, <3>1, <3>2
  <2>4. StatusAt(router, now)' = h
    BY <1>1, <1>h, <2>3 DEF StatusAt
  <2>5. Noted(router, now, h)'
    BY <1>10, <2>1
  <2> QED BY <2>4, <2>5 DEF Noted
<1>13. \A i \in DOMAIN hibernating_statuses', s \in descs_while_fresh' :
         hibernating_statuses'[i].relay = router => hibernating_statuses'[i].time < s
  <2> SUFFICES ASSUME NEW i \in DOMAIN hibernating_statuses', NEW s \in descs_while_fresh',
                      hibernating_statuses'[i].relay = router
               PROVE  hibernating_statuses'[i].time < s
    OBVIOUS
  <2>1. hibernating_statuses'[i] = Entry(0, router, h)
    BY <1>1, <1>3, <1>h, <1>7, NoteAppends
  <2>2. s \in Nat /\ s # 0
    BY <1>3, <1>11
  <2> QED BY <2>1, <2>2 DEF Entry
<1> QED
  BY <1>1, <1>8, <1>9, <1>10, <1>11, <1>12, <1>13 DEF ChangesInv

LEMMA NoteChangeKeepsChanges ==
  ASSUME TypeOK, ChangesInv, NoteChange
  PROVE  ChangesInv'
<1>1. /\ pc = "changes" /\ pc' = "changes"
      /\ UNCHANGED <<archive, consensus, router, routers, descriptors_out>>
  BY DEF NoteChange
<1> DEFINE D == DOMAIN archive[router]
           rest == descs_while_fresh
           statuses == hibernating_statuses
<1>2. /\ Routing /\ LatestFor(router) /\ LastNoted /\ ToldSoFar
      /\ \A s \in rest : s \in D /\ WhileFresh(s)
      /\ \A s \in D, u \in rest : WhileFresh(s) /\ s \notin rest => s < u
      /\ \A i \in DOMAIN statuses, s \in rest :
           statuses[i].relay = router => statuses[i].time < s
  BY <1>1 DEF ChangesInv
<1>3. router \in Relay /\ D \subseteq Nat /\ \A t \in D : archive[router][t] \in BOOLEAN
  BY <1>1, <1>2, RouterIsRelay, ArchiveFacts DEF Time
<1>4. /\ valid_after_ts \in Nat /\ fresh_until_ts \in Nat
      /\ valid_after_ts' = valid_after_ts /\ fresh_until_ts' = fresh_until_ts
  BY <1>1, ConsensusFacts DEF Time, valid_after_ts, fresh_until_ts
<1>5. PICK t \in rest : /\ \A s \in rest : t <= s
                        /\ rest' = rest \ {t}
                        /\ IF archive[router][t] # cur_hibernating
                           THEN Note(t, archive[router][t])
                           ELSE UNCHANGED <<cur_hibernating, statuses>>
  BY DEF NoteChange
<1>6. t \in D /\ t \in Nat /\ WhileFresh(t)
  BY <1>2, <1>3, <1>5
<1>7. PICK h \in BOOLEAN : h = archive[router][t]
  BY <1>3, <1>6
<1>8. \A s : WhileFresh(s)' = WhileFresh(s)
  BY <1>4 DEF WhileFresh
<1>9. Routing' /\ LatestFor(router)'
  BY <1>1, <1>2 DEF Routing, LatestFor, FitFor, valid_after_ts, fresh_until_ts
<1>10. /\ \A s \in rest' : s \in D' /\ WhileFresh(s)'
       /\ \A s \in rest' : s \in Nat /\ t < s
  BY <1>1, <1>2, <1>3, <1>5, <1>8
<1>11. \A s \in D, u \in rest' : WhileFresh(s) /\ s \notin rest' => s < u
  BY <1>2, <1>5, <1>10
<1>12. \A now \in Nat : now >= t /\ (\A s \in rest' : now < s) /\ now <= fresh_until_ts
         => StatusAt(router, now) = archive[router][t]
  <2> SUFFICES ASSUME NEW now \in Nat, now >= t, \A s \in rest' : now < s,
                      now <= fresh_until_ts
               PROVE  \A s \in D : s <= now => s <= t
    BY <1>3, <1>6, StatusOfLatest
  <2> SUFFICES ASSUME NEW s \in D, s <= now, ~(s <= t)
               PROVE  FALSE
    OBVIOUS
  <2>1. s \in Nat /\ WhileFresh(s)
    BY <1>3, <1>4, <1>6 DEF WhileFresh
  <2>2. s \notin rest
    BY <1>5, <1>6, <2>1
  <2> QED BY <1>2, <1>5, <1>6, <2>1, <2>2
<1>13. CASE archive[router][t] # cur_hibernating
  <2>1. Note(t, h)
    BY <1>5, <1>7, <1>13
  <2>2. \A i \in DOMAIN statuses : statuses[i].relay = router => statuses[i].time < t
    BY <1>2, <1>5
  <2>3. LastNoted' /\ \A now \in Nat : now >= t => Noted(router, now, h)'
    BY <1>1, <1>3, <1>6, <2>1, <2>2, NotedLast
  <2>4. \A i \in DOMAIN statuses', s \in rest' :
          statuses'[i].relay = router => statuses'[i].time < s
    <3> SUFFICES ASSUME NEW i \in DOMAIN statuses', NEW s \in rest',
                        statuses'[i].relay = router
                 PROVE  statuses'[i].time < s
      OBVIOUS
    <3>1. statuses'[i] = Entry(t, router, h) \/ (i \in DOMAIN statuses /\ statuses'[i] = statuses[i])
      BY <1>3, <1>6, <2>1, NoteAppends
    <3> QED BY <1>2, <1>5, <1>10, <3>1 DEF Entry
  <2>5. ToldSoFar'
    <3> SUFFICES ASSUME NEW now \in valid_after_ts..fresh_until_ts,
                        \A s \in rest' : now < s
                 PROVE  Noted(router, now, StatusAt(router, now))'
      BY <1>4 DEF ToldSoFar
    <3>0. now \in Nat /\ now <= fresh_until_ts
      BY <1>4
    <3>1. PICK k : k = StatusAt(router, now)
      OBVIOUS
    <3>2. StatusAt(router, now)' = k
      BY <1>1, <3>1 DEF StatusAt
    <3>3. CASE now >= t
      <4>1. k = h
        BY <1>7, <1>12, <3>0, <3>1, <3>3
      <4>2. Noted(router, now, k)'
        BY <2>3, <3>0, <3>3, <4>1
      <4> QED BY <3>2, <4>2 DEF Noted
    <3>4. CASE now < t
      <4>1. Noted(router, now, k)
        BY <1>2, <1>3, <1>5, <1>6, <3>0, <3>1, <3>4 DEF ToldSoFar
      <4>2. PICK r \in Relay : r = router
        BY <1>3
      <4>3. Noted(r, now, k)'
        BY <1>3, <1>6, <2>1, <3>0, <3>4, <4>1, <4>2, NotedStays
      <4> QED BY <1>1, <3>2, <4>2, <4>3 DEF Noted
    <3> QED BY <1>6, <3>0, <3>3, <3>4
  <2> QED BY <1>1, <1>9, <1>10, <1>11, <1>8, <2>3, <2>4, <2>5 DEF ChangesInv
<1>14. CASE archive[router][t] = cur_hibernating
  <2>1. UNCHANGED <<cur_hibernating, statuses>>
    BY <1>5, <1>14
  <2>2. LastNoted'
    BY <1>1, <1>2, <2>1 DEF LastNoted
  <2>3. ToldSoFar'
    <3> SUFFICES ASSUME NEW now \in valid_after_ts..fresh_until_ts,
                        \A s \in rest' : now < s
                 PROVE  Noted(router, now, StatusAt(router, now))
      <4>1. \A now : Noted(router, now, StatusAt(router, now))' =
                        Noted(router, now, StatusAt(router, now))
        BY <1>1, <2>1 DEF Noted, StatusAt
      <4> QED BY <1>4, <4>1 DEF ToldSoFar
    <3>0. now \in Nat /\ now <= fresh_until_ts
      BY <1>4
    <3>1. CASE now >= t
      <4>1. StatusAt(router, now) = cur_hibernating
        BY <1>12, <1>14, <3>0, <3>1
      <4>2. \A i \in DOMAIN statuses : statuses[i].relay = router => statuses[i].time <= now
        BY <1>2, <1>5, <1>6, <3>0, <3>1, StatusTypes
      <4> QED BY <1>2, <3>0, <4>1, <4>2, LastStands
    <3>2. CASE now < t
      BY <1>2, <1>3, <1>5, <1>6, <3>0, <3>2 DEF ToldSoFar
    <3> QED BY <1>6, <3>0, <3>1, <3>2
  <2> QED BY <1>1, <1>2, <1>5, <1>8, <1>9, <1>10, <1>11, <2>1, <2>2, <2>3 DEF ChangesInv
<1> QED BY <1>13, <1>14
-----------------------------------------------------------------------------
(* The relays done with.                                                   *)

\* A status noted for the relay in hand changes nothing for those done with.
LEMMA NotingKeepsDone ==
  ASSUME TypeOK, DoneInv, Routing, pc \in {"pass", "changes"}, pc' = "changes",
         UNCHANGED <<archive, consensus, router, routers>>,
         \A r \in Relay : r # router => descriptors_out'[r] = descriptors_out[r],
         NEW t \in Nat, NEW h \in BOOLEAN, Note(t, h)
  PROVE  DoneInv'
<1>1. router \in Relay
  BY RouterIsRelay
<1>2. Done' = Done /\ Done \subseteq Relay \ {router}
  BY ConsensusFacts DEF Done
<1>3. routers \subseteq Relay \ {router}
  BY ConsensusFacts DEF DoneInv, Routing
<1>4. ASSUME NEW i \in DOMAIN hibernating_statuses'
      PROVE  hibernating_statuses'[i].relay \notin routers
  <2>1. \/ hibernating_statuses'[i] = Entry(t, router, h)
        \/ /\ i \in DOMAIN hibernating_statuses
           /\ hibernating_statuses'[i] = hibernating_statuses[i]
    BY <1>1, NoteAppends
  <2> QED BY <1>3, <2>1 DEF DoneInv, Entry
<1>5. ASSUME NEW r \in Done PROVE LatestFor(r)'
  BY <1>2 DEF DoneInv, LatestFor, FitFor, valid_after_ts, fresh_until_ts
<1>6. ASSUME NEW r \in Done, descriptors_out'[r] # None PROVE TellsHistory(r)'
  <2> SUFFICES ASSUME NEW now \in valid_after_ts..fresh_until_ts
               PROVE  Noted(r, now, StatusAt(r, now))'
    BY DEF TellsHistory, valid_after_ts, fresh_until_ts
  <2>1. now \in Nat
    BY ConsensusFacts DEF Time
  <2>2. PICK k : k = StatusAt(r, now)
    OBVIOUS
  <2>3. StatusAt(r, now)' = k
    BY <2>2 DEF StatusAt
  <2>4. Noted(r, now, k)
    BY <1>2, <1>6, <2>2 DEF DoneInv, TellsHistory
  <2>5. Noted(r, now, k)'
    BY <1>1, <1>2, <2>1, <2>4, NotedStays
  <2> QED BY <2>3, <2>5 DEF Noted
<1> QED BY <1>2, <1>3, <1>4, <1>5, <1>6 DEF DoneInv

\* What is done with stays as it was while nothing is output.
LEMMA QuietKeepsDone ==
  ASSUME DoneInv, UNCHANGED <<archive, consensus, output>>,
         pc # "closed", pc' # "closed",
         routers' \subseteq routers,
         \A r \in Done' : \/ r \in Done
                         \/ /\ LatestFor(r)
                            /\ descriptors_out[r] # None => TellsHistory(r)
  PROVE  DoneInv'
<1>1. \A r : LatestFor(r)' = LatestFor(r) /\ TellsHistory(r)' = TellsHistory(r)
  BY DEF LatestFor, TellsHistory, Noted, StatusAt, FitFor, valid_after_ts,
         fresh_until_ts, output
<1> QED BY <1>1 DEF DoneInv, output

LEMMA DoneStep ==
  ASSUME Inv, NextProcessing
  PROVE  DoneInv'
<1>0. TypeOK /\ PassInv /\ ChangesInv /\ DoneInv
  BY DEF Inv
<1>1. ASSUME NEW c \in Consensus, OpenConsensus(c) PROVE DoneInv'
  <2>1. /\ pc' = "routers" /\ routers' = DOMAIN consensus'.published
        /\ descriptors_out' = [r \in Relay |-> None] /\ hibernating_statuses' = <<>>
    BY <1>1 DEF OpenConsensus
  <2>2. Done' = {}
    BY <2>1 DEF Done
  <2>3. routers' \subseteq Relay
    BY <1>1, <2>1, ConsensusAssumption DEF IsDocument, OpenConsensus
  <2>4. \A i \in DOMAIN hibernating_statuses' : FALSE
    BY <2>1
  <2> QED BY <2>1, <2>2, <2>3, <2>4 DEF DoneInv
<1>2. ASSUME NEW r \in routers, NextRouter(r) PROVE DoneInv'
  <2>1. Done' \subseteq Done
    BY <1>2 DEF NextRouter, Done
  <2> QED BY <1>0, <1>2, <2>1, QuietKeepsDone DEF NextRouter
<1>3. ASSUME NEW t \in left, LookAt(t) PROVE DoneInv'
  <2>1. Done' \subseteq Done
    BY <1>3 DEF LookAt, Done
  <2> QED BY <1>0, <1>3, <2>1, QuietKeepsDone DEF LookAt
<1>4. CASE NoDescriptor
  <2>1. Done' \subseteq Done \cup {router}
    BY <1>4 DEF NoDescriptor, Done, lookup
  <2>2. Seen = DOMAIN archive[router] /\ BestSoFar /\ descriptors_out[router] = None
    BY <1>0, <1>4 DEF NoDescriptor, PassInv, Seen
  <2>3. router \in Relay
    BY <1>0, <1>4, RouterIsRelay DEF NoDescriptor, PassInv
  <2>4. \A t \in DOMAIN archive[router] : ~FitFor(router, t)
    BY <1>0, <1>4, <2>2, <2>3, ArchiveFacts DEF NoDescriptor, BestSoFar, Time
  <2>5. LatestFor(router)
    BY <2>2, <2>4 DEF LatestFor
  <2> QED BY <1>0, <1>4, <2>1, <2>2, <2>5, QuietKeepsDone DEF NoDescriptor, lookup
<1>5. CASE FoundDescriptor
  <2>1. Routing /\ InitialSoFar /\ BestSoFar /\ pc = "pass" /\ Seen \subseteq DOMAIN archive[router]
    BY <1>0, <1>5 DEF FoundDescriptor, PassInv, Seen
  <2>2. router \in Relay
    BY <1>0, <2>1, RouterIsRelay
  <2>3. desc_time_fresh \in DOMAIN archive[router]
    BY <1>5, <2>1 DEF FoundDescriptor, BestSoFar, InitialSoFar
  <2>4. PICK h \in BOOLEAN : h = archive[router][desc_time_fresh]
    BY <1>0, <2>2, <2>3, ArchiveFacts
  <2>5. Note(0, h)
    BY <1>5, <2>4 DEF FoundDescriptor
  <2>6. \A r \in Relay : r # router => descriptors_out'[r] = descriptors_out[r]
    BY <1>0, <1>5 DEF FoundDescriptor, TypeOK
  <2> QED BY <1>0, <1>5, <2>1, <2>5, <2>6, NotingKeepsDone DEF FoundDescriptor
<1>6. CASE NoteChange
  <2>1. pc = "changes" /\ Routing
    BY <1>0, <1>6 DEF NoteChange, ChangesInv
  <2>2. router \in Relay
    BY <1>0, <2>1, RouterIsRelay
  <2>3. PICK t \in descs_while_fresh :
          IF archive[router][t] # cur_hibernating
          THEN Note(t, archive[router][t])
          ELSE UNCHANGED <<cur_hibernating, hibernating_statuses>>
    BY <1>6 DEF NoteChange
  <2>4. t \in DOMAIN archive[router] /\ t \in Nat
    BY <1>0, <2>1, <2>2, ArchiveFacts DEF ChangesInv, Time
  <2>5. PICK h \in BOOLEAN : h = archive[router][t]
    BY <1>0, <2>2, <2>4, ArchiveFacts
  <2>6. CASE archive[router][t] # cur_hibernating
    <3>1. Note(t, h)
      BY <2>3, <2>5, <2>6
    <3> QED BY <1>0, <1>6, <2>1, <2>4, <3>1, NotingKeepsDone DEF NoteChange
  <2>7. CASE archive[router][t] = cur_hibernating
    <3>1. Done' \subseteq Done /\ UNCHANGED output
      BY <1>6, <2>3, <2>7 DEF NoteChange, Done, output
    <3> QED BY <1>0, <1>6, <3>1, QuietKeepsDone DEF NoteChange
  <2> QED BY <2>6, <2>7
<1>7. CASE RouterDone
  <2>1. Done' \subseteq Done \cup {router}
    BY <1>7 DEF RouterDone, Done, lookup
  <2>2. LatestFor(router) /\ TellsHistory(router)
    BY <1>0, <1>7 DEF RouterDone, ChangesInv, ToldSoFar, TellsHistory
  <2> QED BY <1>0, <1>7, <2>1, <2>2, QuietKeepsDone DEF RouterDone, lookup
<1>8. CASE CloseConsensus
  BY <1>8 DEF CloseConsensus, DoneInv, Done
<1> QED
  BY <1>1, <1>2, <1>3, <1>4, <1>5, <1>6, <1>7, <1>8
  DEF NextProcessing, ProcessRouter
-----------------------------------------------------------------------------
(* The invariant.                                                          *)

LEMMA InvInit == InitProcessing => Inv
<1> SUFFICES ASSUME InitProcessing PROVE Inv
  OBVIOUS
<1>1. /\ hibernating_statuses \in
           Seq([time : Nat, relay : Relay, hibernating : BOOLEAN])
      /\ descriptors_out \in [Relay -> Time \cup {None}]
  BY DEF InitProcessing
<1>2. TypeOK
  BY <1>1 DEF InitProcessing, TypeOK
<1> QED BY <1>2 DEF InitProcessing, Inv, PassInv, ChangesInv, DoneInv, Done

LEMMA TypeStep ==
  ASSUME Inv, NextProcessing
  PROVE  TypeOK'
<1>0. TypeOK /\ PassInv /\ ChangesInv
  BY DEF Inv
<1>1. ASSUME NEW c \in Consensus, OpenConsensus(c) PROVE TypeOK'
  <2>1. DOMAIN c.published \subseteq Relay
    BY ConsensusAssumption DEF IsDocument
  <2> QED BY <1>0, <1>1, <2>1, NoneAssumption DEF OpenConsensus, TypeOK
<1>2. ASSUME NEW r \in routers, NextRouter(r) PROVE TypeOK'
  <2>1. r \in Relay /\ DOMAIN archive[r] \subseteq Time
    BY <1>0, ArchiveFacts DEF TypeOK
  <2> QED BY <1>0, <1>2, <2>1 DEF NextRouter, TypeOK, output
<1>3. ASSUME NEW t \in left, LookAt(t) PROVE TypeOK'
  <2>1. t \in Time /\ Newer(t) \in Nat /\ Initial(t) \in Time
    BY <1>0 DEF TypeOK, Newer, Initial, Time
  <2>2. Initial(t) # None
    BY <2>1, NoneAssumption DEF Time
  <2> QED BY <1>0, <1>3, <2>1, <2>2 DEF LookAt, TypeOK, output
<1>4. CASE NoDescriptor \/ RouterDone \/ CloseConsensus
  BY <1>0, <1>4 DEF NoDescriptor, RouterDone, CloseConsensus, Processed, TypeOK, lookup, output
<1>5. CASE FoundDescriptor
  <2>1. Routing /\ BestSoFar /\ InitialSoFar /\ pc = "pass" /\ Seen \subseteq DOMAIN archive[router]
    BY <1>0, <1>5 DEF FoundDescriptor, PassInv, Seen
  <2>2. router \in Relay
    BY <1>0, <2>1, RouterIsRelay
  <2>3. desc_time_fresh \in DOMAIN archive[router] /\ desc_time \in Time
    BY <1>0, <1>5, <2>1, <2>2, ArchiveFacts DEF FoundDescriptor, BestSoFar, InitialSoFar
  <2>4. PICK h \in BOOLEAN : h = archive[router][desc_time_fresh]
    BY <1>0, <2>2, <2>3, ArchiveFacts
  <2>5. Note(0, h)
    BY <1>5, <2>4 DEF FoundDescriptor
  <2>6. /\ cur_hibernating' \in BOOLEAN
        /\ hibernating_statuses' \in
             Seq([time : Nat, relay : Relay, hibernating : BOOLEAN])
    BY <1>0, <2>2, <2>5, NoteAppends
  <2> QED BY <1>0, <1>5, <2>2, <2>3, <2>6 DEF FoundDescriptor, TypeOK
<1>6. CASE NoteChange
  <2>1. pc = "changes" /\ Routing
    BY <1>0, <1>6 DEF NoteChange, ChangesInv
  <2>2. router \in Relay
    BY <1>0, <2>1, RouterIsRelay
  <2>3. PICK t \in descs_while_fresh :
          /\ descs_while_fresh' = descs_while_fresh \ {t}
          /\ IF archive[router][t] # cur_hibernating
             THEN Note(t, archive[router][t])
             ELSE UNCHANGED <<cur_hibernating, hibernating_statuses>>
    BY <1>6 DEF NoteChange
  <2>4. t \in DOMAIN archive[router] /\ t \in Nat
    BY <1>0, <2>1, <2>2, ArchiveFacts DEF ChangesInv, Time
  <2>5. PICK h \in BOOLEAN : h = archive[router][t]
    BY <1>0, <2>2, <2>4, ArchiveFacts
  <2>6. /\ cur_hibernating' \in BOOLEAN
        /\ hibernating_statuses' \in
             Seq([time : Nat, relay : Relay, hibernating : BOOLEAN])
    <3>1. CASE archive[router][t] # cur_hibernating
      <4>1. Note(t, h)
        BY <2>3, <2>5, <3>1
      <4> QED BY <1>0, <2>2, <2>4, <4>1, NoteAppends
    <3>2. CASE archive[router][t] = cur_hibernating
      BY <1>0, <2>3, <3>2 DEF TypeOK
    <3> QED BY <3>1, <3>2
  <2> QED BY <1>0, <1>6, <2>3, <2>6 DEF NoteChange, TypeOK
<1> QED
  BY <1>1, <1>2, <1>3, <1>4, <1>5, <1>6 DEF NextProcessing, ProcessRouter

LEMMA InvStep == Inv /\ [NextProcessing]_processing => Inv'
<1> SUFFICES ASSUME Inv, [NextProcessing]_processing PROVE Inv'
  OBVIOUS
<1>0. TypeOK /\ PassInv /\ ChangesInv /\ DoneInv
  BY DEF Inv
<1>1. CASE NextProcessing
  <2>1. TypeOK' /\ DoneInv'
    BY <1>1, TypeStep, DoneStep
  <2>2. PassInv' /\ ChangesInv'
    <3>1. ASSUME NEW r \in routers, NextRouter(r) PROVE PassInv' /\ ChangesInv'
      <4>1. /\ pc = "routers" /\ pc' = "pass" /\ router' = r /\ routers' = routers \ {r}
            /\ left' = DOMAIN archive[r] /\ desc_time' = 0 /\ descs_while_fresh' = {}
            /\ desc_time_fresh' = None
            /\ UNCHANGED <<archive, consensus, descriptors_out, hibernating_statuses>>
        BY <3>1 DEF NextRouter, output
      <4>2. Seen' = {}
        BY <4>1 DEF Seen
      <4>3. BestSoFar' /\ FreshSoFar' /\ InitialSoFar'
        BY <4>1, <4>2 DEF BestSoFar, FreshSoFar, InitialSoFar
      <4>4. /\ descriptors_out[r] = None /\ r \in DOMAIN consensus.published
            /\ \A i \in DOMAIN hibernating_statuses : hibernating_statuses[i].relay # r
        BY <1>0, <4>1 DEF DoneInv
      <4> QED BY <4>1, <4>3, <4>4 DEF PassInv, ChangesInv, Routing
    <3>2. ASSUME NEW t \in left, LookAt(t) PROVE PassInv' /\ ChangesInv'
      BY <1>0, <3>2, LookAtKeepsPass DEF LookAt, ChangesInv
    <3>3. CASE FoundDescriptor
      BY <1>0, <3>3, FoundBeginsChanges DEF FoundDescriptor, PassInv
    <3>4. CASE NoteChange
      BY <1>0, <3>4, NoteChangeKeepsChanges DEF NoteChange, PassInv
    <3>5. ASSUME pc' \in {"closed", "routers"} PROVE PassInv' /\ ChangesInv'
      BY <3>5 DEF PassInv, ChangesInv
    <3> QED
      BY <1>1, <3>1, <3>2, <3>3, <3>4, <3>5
      DEF NextProcessing, ProcessRouter, OpenConsensus, NoDescriptor, RouterDone,
          CloseConsensus
  <2> QED BY <2>1, <2>2 DEF Inv
<1>2. CASE UNCHANGED processing
  <2>1. UNCHANGED <<pc, archive, consensus, routers, router, left, desc_time,
                    descs_while_fresh, desc_time_fresh, cur_hibernating,
                    descriptors_out, hibernating_statuses>>
    BY <1>2 DEF processing, lookup, output
  <2>2. TypeOK' /\ Done' = Done /\ Seen' = Seen
    BY <1>0, <2>1 DEF TypeOK, Done, Seen
  <2>3. PassInv'
    <3>1. /\ Routing' = Routing /\ BestSoFar' = BestSoFar /\ FreshSoFar' = FreshSoFar
          /\ InitialSoFar' = InitialSoFar
      BY <2>1 DEF Seen, Routing, BestSoFar, FreshSoFar, InitialSoFar, FitFor, WhileFresh,
                  valid_after_ts, fresh_until_ts
    <3> QED BY <1>0, <2>1, <3>1 DEF PassInv
  <2>4. ChangesInv'
    <3>1. /\ Routing' = Routing /\ LatestFor(router)' = LatestFor(router)
          /\ LastNoted' = LastNoted
          /\ \A s : WhileFresh(s)' = WhileFresh(s)
      BY <2>1 DEF Routing, LatestFor, LastNoted, FitFor, WhileFresh,
                  valid_after_ts, fresh_until_ts
    <3>2. ToldSoFar' = ToldSoFar
      BY <2>1 DEF ToldSoFar, Noted, StatusAt, valid_after_ts, fresh_until_ts
    <3> QED BY <1>0, <2>1, <3>1, <3>2 DEF ChangesInv
  <2>5. DoneInv'
    <3>1. \A r : LatestFor(r)' = LatestFor(r)
      BY <2>1 DEF LatestFor, FitFor, valid_after_ts, fresh_until_ts
    <3>2. \A r : TellsHistory(r)' = TellsHistory(r)
      BY <2>1 DEF TellsHistory, Noted, StatusAt, valid_after_ts, fresh_until_ts
    <3> QED BY <1>0, <2>1, <2>2, <3>1, <3>2 DEF DoneInv
  <2> QED BY <2>2, <2>3, <2>4, <2>5 DEF Inv
<1> QED BY <1>1, <1>2

LEMMA InvHolds == SpecProcessing => []Inv
<1>1. InitProcessing => Inv
  BY InvInit
<1>2. Inv /\ [NextProcessing]_processing => Inv'
  BY InvStep
<1> QED BY <1>1, <1>2, PTL DEF SpecProcessing
-----------------------------------------------------------------------------
\* Types; in particular no relay with a fit descriptor lacks an initial status.
THEOREM ProcessingTypeCorrect == SpecProcessing => []TypeOK
<1>1. Inv => TypeOK
  BY DEF Inv
<1> QED BY <1>1, InvHolds, PTL

\* The descriptor written for a relay is its latest fit one, whatever the order in
\* which the pass meets the descriptors.
THEOREM LatestDescriptorAlwaysFound == SpecProcessing => []LatestDescriptorFound
<1>1. Inv => LatestDescriptorFound
  BY DEF Inv, DoneInv, Done, LatestDescriptorFound, LookedUp
<1> QED BY <1>1, InvHolds, PTL

\* The statuses written for a relay give at each instant of the fresh period what its
\* latest descriptor says, whatever the order.
THEOREM StatusesAlwaysTellHistory == SpecProcessing => []StatusesTellHistory
<1>1. Inv => StatusesTellHistory
  BY DEF Inv, DoneInv, Done, StatusesTellHistory, LookedUp
<1> QED BY <1>1, InvHolds, PTL
=============================================================================
