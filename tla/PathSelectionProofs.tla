-------------------------- MODULE PathSelectionProofs --------------------------
(***************************************************************************)
(* What PathSelection.tla guarantees for every network, every option value *)
(* and every length of the simulation, and that it keeps the promises of   *)
(* CircuitContract.                                                        *)
(***************************************************************************)
EXTENDS PathSelectionContract, FiniteSetTheorems, TLAPS

\* A relay the consensus gives a flag has a descriptor.
FlaggedAreKnown ==
  \A r \in Relay : cons_rel_stats[r] # {} => descriptors[r] # None

\* Requests are made within the period in force.
ClockInPeriod == valid_after <= time /\ time < fresh_until

\* While guards are being chosen the filter's verdict on them still stands.
UsableStillUsable ==
  pc = "fill" => /\ usable \subseteq Listed
                 /\ \A r \in usable : guard_filter_for_circ(r, guards[r])

\* The exit chosen for the attempt stays acceptable until the path is handed out.
ExitStands ==
  pc \in {"guards", "quota", "fill", "middle", "built"} =>
    exit \in Relay /\ CanBeExit(exit)

\* And so does the guard that answered.
EntryStands ==
  pc \in {"middle", "built"} =>
    /\ entry \in Relay
    /\ HasFlags(cons_rel_stats, entry, RequestFlags)
    /\ entry \notin hibernating
    /\ ~Conflict(exit, entry)
    /\ guards[entry] # None
    /\ guards[entry].made_contact
    /\ guards[entry].unreachable_since = None
    /\ guards[entry].bad_since = None

\* And the middle.
MiddleStands ==
  pc = "built" =>
    /\ middle \in Relay
    /\ CanBeMiddle(middle)
    /\ circuit_supports_ntor(middle)

\* The guards still to be added make up for what the list lacks.
QuotaCounted ==
  /\ pc = "quota" => Cardinality(Listed) + to_add >= NumGuards
  /\ QuotaFilled

ListInv == /\ TypeOK /\ FlaggedAreKnown /\ ClockInPeriod
           /\ GuardsTrackConsensus /\ GuardLifetimes /\ RetryRecord

PathInv == UsableStillUsable /\ ExitStands /\ EntryStands /\ MiddleStands
-----------------------------------------------------------------------------
(* What the operations do to a guard record.                               *)

\* A record that survives a change of consensus is the old one with bad_since
\* set to agree with the new consensus, and its limits lie beyond the period.
LEMMA PeriodUpdateOfGuard ==
  ASSUME TypeOK, NEW r \in Relay, NEW stats \in RelStats, NEW valid \in Nat,
         valid_after <= valid, PeriodLength \in Nat, GuardLifetimes
  PROVE  LET g == guards[r]
             h == GuardAfterPeriod(r, stats, valid)
         IN  /\ h \in GuardRecord \cup {None}
             /\ h # None =>
                  /\ g # None
                  /\ h.bad_since = None <=> IsUp(stats, r)
                  /\ h.expires = g.expires /\ g.expires > valid
                  /\ h.unreachable_since = g.unreachable_since
                  /\ h.last_attempted = g.last_attempted
                  /\ h.made_contact = g.made_contact
                  /\ h.bad_since # None =>
                       /\ h.bad_since <= valid
                       /\ valid + PeriodLength - h.bad_since < GuardDownTime
  <1> DEFINE g == guards[r]
             bad == IF IsUp(stats, r) THEN None
                    ELSE IF g.bad_since = None THEN valid ELSE g.bad_since
             h == GuardAfterPeriod(r, stats, valid)
  <1>1. CASE g = None
    BY <1>1 DEF GuardAfterPeriod
  <1>2. CASE g # None
    <2>1. g \in GuardRecord
      BY <1>2 DEF TypeOK
    <2>2. r \in Listed
      BY <1>2 DEF Listed
    <2>3. bad \in Nat \cup {None} /\ (bad # None => bad <= valid)
      BY <2>1, <2>2, NoneAssumption DEF GuardRecord, GuardLifetimes, TypeOK
    <2>4. bad = None <=> IsUp(stats, r)
      BY NoneAssumption DEF TypeOK
    <2>5. CASE (bad # None /\ valid + PeriodLength - bad >= GuardDownTime)
               \/ g.expires <= valid
      BY <1>2, <2>5, Zenon DEF GuardAfterPeriod
    <2>6. CASE ~((bad # None /\ valid + PeriodLength - bad >= GuardDownTime)
                 \/ g.expires <= valid)
      <3>1. h = [g EXCEPT !.bad_since = bad]
        BY <1>2, <2>6, Zenon DEF GuardAfterPeriod
      <3>2. /\ h \in GuardRecord /\ h.bad_since = bad
            /\ h.expires = g.expires
            /\ h.unreachable_since = g.unreachable_since
            /\ h.last_attempted = g.last_attempted
            /\ h.made_contact = g.made_contact
        BY <3>1, <2>1, <2>3 DEF GuardRecord
      <3>3. g.expires > valid
        BY <2>6, <2>1 DEF GuardRecord
      <3>4. bad # None => valid + PeriodLength - bad < GuardDownTime
        BY <2>6, <2>3, OptionAssumption
      <3> QED
        BY <1>2, <2>3, <2>4, <3>2, <3>3, <3>4
    <2> QED
      BY <2>5, <2>6
  <1> QED
    BY <1>1, <1>2
-----------------------------------------------------------------------------
(* The invariant of the guard list.                                        *)

\* What the list invariant says of one record h of guard r.
RecordOK(r, h) ==
  /\ h \in GuardRecord
  /\ h.bad_since = None <=> IsUp(cons_rel_stats, r)
  /\ descriptors[r] # None
  /\ h.expires > valid_after
  /\ h.expires <= time + ExpirationMax
  /\ h.bad_since # None => /\ h.bad_since <= valid_after
                           /\ fresh_until - h.bad_since < GuardDownTime
  /\ h.last_attempted <= time
  /\ h.unreachable_since # None => /\ h.made_contact
                                   /\ h.unreachable_since <= h.last_attempted

\* The part of ListInv that is about the records.
RecordsOK == \A r \in Relay : guards[r] # None => RecordOK(r, guards[r])

\* The list is good when each record is, the rest of the types given.
LEMMA ListInvByRecord ==
  ListInv <=> TypeOK /\ FlaggedAreKnown /\ ClockInPeriod /\ RecordsOK
  BY DEF ListInv, RecordsOK, RecordOK, GuardsTrackConsensus, GuardLifetimes,
         RetryRecord, Listed, TypeOK

\* Replacing one record by a good one, or removing it, keeps the list good.
LEMMA OneRecordChanged ==
  ASSUME ListInv, UNCHANGED <<network, clock>>,
         NEW r \in Relay, NEW h, h = None \/ RecordOK(r, h),
         guards' = [guards EXCEPT ![r] = h]
  PROVE  /\ guards' \in [Relay -> GuardRecord \cup {None}]
         /\ RecordsOK'
  <1>1. RecordsOK /\ TypeOK
    BY ListInvByRecord
  <1>2. guards' \in [Relay -> GuardRecord \cup {None}]
    BY <1>1 DEF TypeOK, RecordOK
  <1>3. ASSUME NEW s \in Relay, guards'[s] # None
        PROVE  RecordOK(s, guards[s])'
    <2>1. RecordOK(s, guards'[s])
      BY <1>1, <1>3 DEF RecordsOK, TypeOK
    <2> QED
      BY <2>1 DEF RecordOK, IsUp, HasFlags, network, clock, fresh_until
  <1> QED
    BY <1>2, <1>3 DEF RecordsOK

\* The record get_new_guard() makes agrees with the consensus in force.
LEMMA NewGuardOK ==
  ASSUME ListInv, NEW r \in Relay, CanBeNewGuard(r),
         NEW lifetime \in ExpirationMin..ExpirationMax
  PROVE  RecordOK(r, NewGuard(lifetime))
  <1>1. /\ time \in Nat /\ valid_after \in Nat /\ valid_after <= time
        /\ lifetime \in Nat /\ lifetime > 0 /\ lifetime <= ExpirationMax
    BY OptionAssumption, PeriodAssumption DEF ListInv, TypeOK, ClockInPeriod
  <1>2. NewGuard(lifetime) \in GuardRecord
    BY <1>1 DEF NewGuard, GuardRecord
  <1>3. IsUp(cons_rel_stats, r) /\ descriptors[r] # None
    BY DEF CanBeNewGuard, IsUp, HasFlags
  <1> QED
    BY <1>1, <1>2, <1>3, OptionAssumption DEF RecordOK, NewGuard

\* A guard added to fill the list gets a new record; no other record changes.
LEMMA AddGuardKeepsList ==
  ASSUME ListInv, UNCHANGED <<network, clock>>, NEW r \in Relay, AddGuard(r)
  PROVE  /\ guards' \in [Relay -> GuardRecord \cup {None}]
         /\ RecordsOK'
  <1>1. PICK lifetime \in ExpirationMin..ExpirationMax :
          guards' = [guards EXCEPT ![r] = NewGuard(lifetime)]
    BY DEF AddGuard
  <1>2. RecordOK(r, NewGuard(lifetime))
    BY NewGuardOK DEF AddGuard
  <1> QED
    BY <1>1, <1>2, OneRecordChanged

\* Initially the list is empty.
LEMMA ListInit == Init => ListInv
  <1> SUFFICES ASSUME Init PROVE ListInv
    OBVIOUS
  <1>1. PICK ns \in NetworkState : /\ cons_rel_stats = ns.rel_stats
                                   /\ descriptors = ns.descriptors
    BY DEF Init
  <1>2. cons_rel_stats \in RelStats /\ descriptors \in Descriptors
    BY <1>1, NetworkAssumption
  <1>3. FlaggedAreKnown
    BY <1>1, NetworkAssumption DEF FlaggedAreKnown
  <1>4. TypeOK
    BY <1>2, NetworkAssumption, OptionAssumption DEF Init, TypeOK, Phase
  <1>5. ClockInPeriod
    BY OptionAssumption DEF Init, ClockInPeriod, fresh_until
  <1>6. Listed = {}
    BY DEF Init, Listed
  <1> QED
    BY <1>3, <1>4, <1>5, <1>6
    DEF ListInv, GuardsTrackConsensus, GuardLifetimes, RetryRecord
\* A consensus, new or repeated, leaves only records that agree with it and
\* whose limits lie beyond the period it starts.
LEMMA AdvanceKeepsList ==
  ASSUME ListInv, AdvancePeriod,
         period_client_update(cons_rel_stats', fresh_until),
         cons_rel_stats' \in RelStats,
         \A r \in Relay : descriptors[r] # None => descriptors'[r] # None
  PROVE  /\ guards' \in [Relay -> GuardRecord \cup {None}]
         /\ RecordsOK'
  <1>1. /\ TypeOK /\ RecordsOK /\ GuardLifetimes
        /\ fresh_until \in Nat /\ valid_after <= fresh_until
        /\ PeriodLength \in Nat /\ time <= fresh_until /\ ExpirationMax \in Nat
    BY ListInvByRecord, OptionAssumption
    DEF ListInv, ClockInPeriod, TypeOK, fresh_until
  <1>2. time' = fresh_until /\ valid_after' = fresh_until
    BY DEF AdvancePeriod
  <1>3. ASSUME NEW r \in Relay
        PROVE  /\ guards'[r] \in GuardRecord \cup {None}
               /\ guards'[r] # None => RecordOK(r, guards[r])'
    <2> DEFINE g == guards[r]
               h == GuardAfterPeriod(r, cons_rel_stats', fresh_until)
    <2>1. guards'[r] = h
      BY DEF period_client_update
    <2>2. /\ h \in GuardRecord \cup {None}
          /\ h # None =>
               /\ g # None
               /\ h.bad_since = None <=> IsUp(cons_rel_stats', r)
               /\ h.expires = g.expires /\ g.expires > fresh_until
               /\ h.unreachable_since = g.unreachable_since
               /\ h.last_attempted = g.last_attempted
               /\ h.made_contact = g.made_contact
               /\ h.bad_since # None =>
                    /\ h.bad_since <= fresh_until
                    /\ fresh_until + PeriodLength - h.bad_since < GuardDownTime
      BY <1>1, PeriodUpdateOfGuard, Zenon
    <2> HIDE DEF g, h
    <2>3. CASE h = None
      BY <2>1, <2>3
    <2>4. CASE h # None
      <3>1. RecordOK(r, g) /\ h \in GuardRecord /\ g \in GuardRecord
        BY <1>1, <2>2, <2>4 DEF RecordsOK, TypeOK, g
      <3>2. h.expires <= time' + ExpirationMax
        BY <1>1, <1>2, <2>2, <2>4, <3>1 DEF RecordOK, GuardRecord, TypeOK
      <3>3. /\ h.last_attempted <= time'
            /\ h.unreachable_since # None => /\ h.made_contact
                                             /\ h.unreachable_since <= h.last_attempted
        BY <1>1, <1>2, <2>2, <2>4, <3>1 DEF RecordOK, GuardRecord, TypeOK
      <3>4. descriptors'[r] # None
        BY <3>1 DEF RecordOK
      <3>5. /\ h.expires > valid_after'
            /\ h.bad_since # None =>
                 /\ h.bad_since <= valid_after'
                 /\ valid_after' + PeriodLength - h.bad_since < GuardDownTime
        BY <1>2, <2>2, <2>4
      <3>6. h.bad_since = None <=> IsUp(cons_rel_stats, r)'
        BY <2>2, <2>4 DEF IsUp, HasFlags
      <3>7. RecordOK(r, guards[r])'
        <4>1. guards'[r] = h /\ valid_after' \in Nat /\ h.bad_since \in Nat \cup {None}
          BY <1>1, <1>2, <2>1, <3>1 DEF GuardRecord
        <4>2. guards'[r].bad_since # None =>
                /\ guards'[r].bad_since <= valid_after'
                /\ fresh_until' - guards'[r].bad_since < GuardDownTime
          BY <1>1, <3>5, <4>1 DEF fresh_until
        <4> QED
          BY <4>1, <4>2, <3>1, <3>2, <3>3, <3>4, <3>5, <3>6
          DEF RecordOK, IsUp, HasFlags
      <3> QED
        BY <2>1, <2>2, <3>7
    <2> QED
      BY <2>3, <2>4
  <1>4. guards' \in [Relay -> GuardRecord \cup {None}]
    BY <1>3 DEF period_client_update
  <1> QED
    BY <1>3, <1>4 DEF RecordsOK

\* When neither the records nor what they are compared with change, but for a
\* later time, the records stay good.
LEMMA RecordsUnchanged ==
  ASSUME TypeOK, RecordsOK, ExpirationMax \in Nat,
         UNCHANGED <<guards, cons_rel_stats, descriptors, valid_after>>,
         time' \in Nat, time <= time'
  PROVE  RecordsOK'
  <1> SUFFICES ASSUME NEW r \in Relay, guards[r] # None
               PROVE  RecordOK(r, guards[r])'
    BY DEF RecordsOK
  <1>1. RecordOK(r, guards[r]) /\ guards[r] \in GuardRecord
    BY DEF RecordsOK, TypeOK
  <1>2. /\ guards[r].expires <= time' + ExpirationMax
        /\ guards[r].last_attempted <= time'
    BY <1>1 DEF RecordOK, GuardRecord, TypeOK
  <1> QED
    BY <1>1, <1>2 DEF RecordOK, IsUp, HasFlags, fresh_until

\* num_guards less the usable guards, cut off at zero, is a number.
LEMMA ShortfallType == ASSUME TypeOK PROVE Shortfall \in Nat
  <1>1. Listed \subseteq Relay /\ LiveGuards \subseteq Listed
    BY DEF Listed, LiveGuards
  <1>2. IsFiniteSet(Listed) /\ IsFiniteSet(LiveGuards)
    BY <1>1, NetworkAssumption, FS_Subset
  <1>3. /\ Cardinality(Listed) \in Nat /\ Cardinality(LiveGuards) \in Nat
        /\ Cardinality(LiveGuards) <= Cardinality(Listed)
    BY <1>1, <1>2, FS_CardinalityType, FS_Subset
  <1> QED
    BY <1>3, OptionAssumption DEF Shortfall

\* Choosing a guard that does not answer, or one that does, leaves a good record.
LEMMA ChosenGuardKeepsList ==
  ASSUME ListInv, UNCHANGED <<network, clock>>, NEW r \in Relay, guards[r] # None,
         \/ guards' = [guards EXCEPT ![r] = None]
         \/ /\ guards[r].made_contact
            /\ guards' = [guards EXCEPT
                 ![r].unreachable_since = IF @ = None THEN time ELSE @,
                 ![r].last_attempted = time]
         \/ guards' = [guards EXCEPT ![r].unreachable_since = None,
                                     ![r].made_contact = TRUE]
  PROVE  /\ guards' \in [Relay -> GuardRecord \cup {None}]
         /\ RecordsOK'
  <1> DEFINE g == guards[r]
             down == [g EXCEPT !.unreachable_since = IF g.unreachable_since = None
                                                     THEN time
                                                     ELSE g.unreachable_since,
                               !.last_attempted = time]
             up == [g EXCEPT !.unreachable_since = None, !.made_contact = TRUE]
  <1>1. /\ RecordOK(r, g) /\ g \in GuardRecord /\ time \in Nat
        /\ guards \in [Relay -> GuardRecord \cup {None}]
    BY ListInvByRecord DEF RecordsOK, TypeOK
  <1>2. CASE guards' = [guards EXCEPT ![r] = None]
    BY <1>2, OneRecordChanged
  <1>3. CASE /\ g.made_contact
             /\ guards' = [guards EXCEPT
                  ![r].unreachable_since = IF @ = None THEN time ELSE @,
                  ![r].last_attempted = time]
    <2>1. guards' = [guards EXCEPT ![r] = down]
      BY <1>1, <1>3, Zenon
    <2>2. /\ down \in GuardRecord /\ down.made_contact
          /\ down.bad_since = g.bad_since /\ down.expires = g.expires
          /\ down.last_attempted = time
          /\ down.unreachable_since \in Nat /\ down.unreachable_since <= time
      <3> DEFINE since == IF g.unreachable_since = None THEN time
                          ELSE g.unreachable_since
      <3>1. since \in Nat /\ since <= time
        BY <1>1 DEF RecordOK, GuardRecord
      <3> HIDE DEF since
      <3> DEFINE d == [g EXCEPT !.unreachable_since = since,
                                !.last_attempted = time]
      <3>2. /\ d \in GuardRecord /\ d.made_contact = g.made_contact
            /\ d.bad_since = g.bad_since /\ d.expires = g.expires
            /\ d.last_attempted = time /\ d.unreachable_since = since
        BY <1>1, <3>1 DEF GuardRecord
      <3>3. down = d
        BY Zenon DEF since
      <3> QED
        BY <1>3, <3>1, <3>2, <3>3
    <2> HIDE DEF down
    <2>3. RecordOK(r, down)
      BY <1>1, <2>2 DEF RecordOK
    <2> QED
      BY <2>1, <2>3, OneRecordChanged
  <1>4. CASE guards' = [guards EXCEPT ![r].unreachable_since = None,
                                      ![r].made_contact = TRUE]
    <2>1. guards' = [guards EXCEPT ![r] = up]
      BY <1>1, <1>4 DEF GuardRecord
    <2>2. RecordOK(r, up)
      BY <1>1, <1>4 DEF RecordOK, GuardRecord
    <2> QED
      BY <2>1, <2>2, OneRecordChanged
  <1> QED
    BY <1>2, <1>3, <1>4

\* Every step keeps the list good.
LEMMA ListStep == ListInv /\ UsableStillUsable /\ [Next]_vars => ListInv'
  <1> SUFFICES ASSUME ListInv, UsableStillUsable, [Next]_vars
               PROVE  TypeOK' /\ FlaggedAreKnown' /\ ClockInPeriod' /\ RecordsOK'
    BY DEF ListInv, RecordsOK, RecordOK, GuardsTrackConsensus, GuardLifetimes,
           RetryRecord, Listed
  <1>1. TypeOK /\ FlaggedAreKnown /\ ClockInPeriod /\ RecordsOK
    BY ListInvByRecord
  <1>2. /\ ExpirationMax \in Nat /\ PeriodLength \in Nat /\ PeriodLength > 0
        /\ time \in Nat /\ valid_after \in Nat
    BY <1>1, OptionAssumption DEF TypeOK
  <1>3. CASE NextConsensus
    <2>1. PICK ns \in NetworkState :
            /\ cons_rel_stats' = ns.rel_stats
            /\ descriptors' = UpdatedDescriptors(ns.descriptors)
            /\ period_client_update(ns.rel_stats, fresh_until)
      BY <1>3 DEF NextConsensus
    <2>2. /\ ns.rel_stats \in RelStats /\ ns.descriptors \in Descriptors
          /\ \A r \in Relay : ns.descriptors[r] = None => ns.rel_stats[r] = {}
      BY NetworkAssumption
    <2>3. descriptors' \in Descriptors
      BY <1>1, <2>1, <2>2 DEF UpdatedDescriptors, Descriptors, TypeOK
    <2>4. \A r \in Relay : descriptors[r] # None => descriptors'[r] # None
      BY <2>1 DEF UpdatedDescriptors
    <2>5. FlaggedAreKnown'
      BY <2>1, <2>2 DEF UpdatedDescriptors, FlaggedAreKnown
    <2>6. guards' \in [Relay -> GuardRecord \cup {None}] /\ RecordsOK'
      BY <1>3, <2>1, <2>2, <2>4, AdvanceKeepsList DEF NextConsensus
    <2>7. time' \in Nat /\ valid_after' \in Nat /\ ClockInPeriod'
      BY <1>2, <1>3 DEF NextConsensus, AdvancePeriod, fresh_until, ClockInPeriod
    <2>8. hibernating' \in SUBSET Relay /\ gap' \in BOOLEAN /\ UNCHANGED <<pc, build>>
      BY <1>3, NetworkAssumption DEF NextConsensus, AdvancePeriod
    <2>9. TypeOK'
      BY <1>1, <2>1, <2>2, <2>3, <2>6, <2>7, <2>8 DEF TypeOK, build
    <2> QED
      BY <2>5, <2>6, <2>7, <2>9
  <1>4. CASE GapInConsensuses
    <2>1. guards' \in [Relay -> GuardRecord \cup {None}] /\ RecordsOK'
      BY <1>1, <1>4, AdvanceKeepsList DEF GapInConsensuses, network, TypeOK
    <2>2. time' \in Nat /\ valid_after' \in Nat /\ ClockInPeriod'
      BY <1>2, <1>4 DEF GapInConsensuses, AdvancePeriod, fresh_until, ClockInPeriod
    <2>3. gap' \in BOOLEAN /\ UNCHANGED <<network, pc, build>>
      BY <1>4 DEF GapInConsensuses, AdvancePeriod
    <2> QED
      BY <1>1, <2>1, <2>2, <2>3 DEF TypeOK, FlaggedAreKnown, network, build
  <1>5. CASE Tick
    <2>1. /\ time' \in Nat /\ time <= time'
          /\ UNCHANGED <<guards, cons_rel_stats, descriptors, valid_after>>
          /\ ClockInPeriod'
      BY <1>1, <1>2, <1>5 DEF Tick, ClockInPeriod, fresh_until
    <2>2. RecordsOK'
      BY <1>1, <1>2, <2>1, RecordsUnchanged
    <2>3. TypeOK'
      BY <1>1, <1>5, <2>1, NetworkAssumption DEF Tick, TypeOK, build
    <2> QED
      BY <1>1, <2>1, <2>2, <2>3 DEF FlaggedAreKnown
  <1>6. ASSUME UNCHANGED <<network, clock>>,
               guards' \in [Relay -> GuardRecord \cup {None}], RecordsOK',
               /\ pc' \in Phase /\ request' \in [fast : BOOLEAN, stable : BOOLEAN]
               /\ attempts' \in Nat /\ to_add' \in Nat /\ usable' \in SUBSET Relay
               /\ exit' \in Relay \cup {None} /\ entry' \in Relay \cup {None}
               /\ middle' \in Relay \cup {None}
        PROVE  TypeOK' /\ FlaggedAreKnown' /\ ClockInPeriod' /\ RecordsOK'
    BY <1>1, <1>6
    DEF TypeOK, FlaggedAreKnown, ClockInPeriod, network, clock, fresh_until
  <1>7. UNCHANGED <<network, clock, guards>> =>
          guards' \in [Relay -> GuardRecord \cup {None}] /\ RecordsOK'
    BY <1>1, <1>2, RecordsUnchanged DEF network, clock, TypeOK
  <1>8. CASE RequestCircuit
    BY <1>1, <1>6, <1>7, <1>8 DEF RequestCircuit, TypeOK, Phase
  <1>9. CASE CountGuards
    BY <1>1, <1>6, <1>7, <1>9, ShortfallType DEF CountGuards, TypeOK, Phase
  <1>10. CASE FilterGuards
    BY <1>1, <1>6, <1>7, <1>10 DEF FilterGuards, TypeOK, Phase, Listed
  <1>11. CASE ReturnCircuit
    BY <1>1, <1>6, <1>7, <1>11 DEF ReturnCircuit, TypeOK, Phase
  <1>12. ASSUME NEW r \in Relay, SelectExit(r)
         PROVE  TypeOK' /\ FlaggedAreKnown' /\ ClockInPeriod' /\ RecordsOK'
    BY <1>1, <1>6, <1>7, <1>12 DEF SelectExit, TypeOK, Phase
  <1>13. ASSUME NEW r \in Relay, AddQuotaGuard(r)
         PROVE  TypeOK' /\ FlaggedAreKnown' /\ ClockInPeriod' /\ RecordsOK'
    <2>1. guards' \in [Relay -> GuardRecord \cup {None}] /\ RecordsOK'
      BY <1>13, AddGuardKeepsList DEF AddQuotaGuard
    <2> QED
      BY <1>1, <1>6, <1>13, <2>1 DEF AddQuotaGuard, TypeOK
  <1>14. ASSUME NEW r \in Relay, AddCircuitGuard(r)
         PROVE  TypeOK' /\ FlaggedAreKnown' /\ ClockInPeriod' /\ RecordsOK'
    <2>1. guards' \in [Relay -> GuardRecord \cup {None}] /\ RecordsOK'
      BY <1>14, AddGuardKeepsList DEF AddCircuitGuard
    <2>2. usable' \in SUBSET Relay
      BY <1>1, <1>14 DEF AddCircuitGuard, TypeOK
    <2> QED
      BY <1>1, <1>6, <1>14, <2>1, <2>2 DEF AddCircuitGuard, TypeOK
  <1>15. ASSUME NEW r \in Relay, DropNewGuard(r) \/ GuardUnreachable(r)
         PROVE  TypeOK' /\ FlaggedAreKnown' /\ ClockInPeriod' /\ RecordsOK'
    <2>1. guards[r] # None
      BY <1>15 DEF DropNewGuard, GuardUnreachable, Choose, UsableStillUsable, Listed
    <2>2. guards' \in [Relay -> GuardRecord \cup {None}] /\ RecordsOK'
      BY <1>15, <2>1, ChosenGuardKeepsList DEF DropNewGuard, GuardUnreachable
    <2> QED
      BY <1>1, <1>6, <1>15, <2>2 DEF DropNewGuard, GuardUnreachable, TypeOK, Phase, build
  <1>16. ASSUME NEW r \in Relay, GuardAnswers(r)
         PROVE  TypeOK' /\ FlaggedAreKnown' /\ ClockInPeriod' /\ RecordsOK'
    <2>1. guards[r] # None
      BY <1>16 DEF GuardAnswers, Choose, UsableStillUsable, Listed
    <2>2. guards' \in [Relay -> GuardRecord \cup {None}] /\ RecordsOK'
      BY <1>16, <2>1, ChosenGuardKeepsList DEF GuardAnswers
    <2> QED
      BY <1>1, <1>6, <1>16, <2>2 DEF GuardAnswers, TypeOK, Phase
  <1>17. ASSUME NEW r \in Relay, FinishCircuit(r) \/ DiscardPath(r)
         PROVE  TypeOK' /\ FlaggedAreKnown' /\ ClockInPeriod' /\ RecordsOK'
    BY <1>1, <1>6, <1>7, <1>17 DEF FinishCircuit, DiscardPath, TypeOK, Phase
  <1>18. CASE EndOfSimulation
    BY <1>1, <1>6, <1>7, <1>18 DEF EndOfSimulation, TypeOK, Phase, build
  <1>19. CASE Stopped \/ UNCHANGED vars
    BY <1>1, <1>6, <1>7, <1>19 DEF Stopped, vars, TypeOK, build
  <1> QED
    BY <1>3, <1>4, <1>5, <1>8, <1>9, <1>10, <1>11, <1>12, <1>13, <1>14, <1>15,
       <1>16, <1>17, <1>18, <1>19 DEF Next, Build, RelayStep, GuardStep-----------------------------------------------------------------------------
(* The invariant of the path under construction.                           *)

\* The verdicts on guards and relays depend on the network, the time, the
\* request and the nodes already chosen, and on nothing else.
LEMMA VerdictsFrame ==
  ASSUME UNCHANGED <<network, clock, request>>
  PROVE  /\ RequestFlags' = RequestFlags
         /\ \A r, s : Conflict(r, s)' <=> Conflict(r, s)
         /\ \A r, fs : HasFlags(cons_rel_stats, r, fs)'
                         <=> HasFlags(cons_rel_stats, r, fs)
         /\ exit' = exit =>
              \A r, g : guard_filter_for_circ(r, g)'
                          <=> guard_filter_for_circ(r, g)
         /\ (exit' = exit /\ entry' = entry) =>
              \A r : /\ CanBeMiddle(r)' <=> CanBeMiddle(r)
                     /\ circuit_supports_ntor(r)' <=> circuit_supports_ntor(r)
  BY DEF network, clock, RequestFlags, Conflict, in_same_family,
         in_same_16_subnet, HasFlags, guard_filter_for_circ, Reachable,
         guard_is_time_to_retry, CanBeMiddle, circuit_supports_ntor

\* Initially no path is being built.
LEMMA PathInit == Init => PathInv
  BY DEF Init, PathInv, UsableStillUsable, ExitStands, EntryStands, MiddleStands

\* The guards found usable stay usable until one of them is chosen: only the
\* ones that did not answer are tried later, and they leave the set.
LEMMA UsableStep ==
  ListInv /\ UsableStillUsable /\ [Next]_vars => UsableStillUsable'
  <1> SUFFICES ASSUME ListInv, UsableStillUsable, [Next]_vars, pc' = "fill"
               PROVE  /\ usable' \subseteq Listed'
                      /\ \A r \in usable' : guard_filter_for_circ(r, guards[r])'
    BY DEF UsableStillUsable
  <1>1. CASE FilterGuards
    <2>1. /\ UNCHANGED <<network, clock, request, exit, guards>>
          /\ usable' = {r \in Listed : guard_filter_for_circ(r, guards[r])}
      BY <1>1 DEF FilterGuards
    <2> QED
      BY <2>1, VerdictsFrame DEF Listed
  <1>2. ASSUME NEW r \in Relay, AddCircuitGuard(r)
        PROVE  /\ usable' \subseteq Listed'
               /\ \A s \in usable' : guard_filter_for_circ(s, guards[s])'
    <2>1. PICK lifetime \in ExpirationMin..ExpirationMax :
            guards' = [guards EXCEPT ![r] = NewGuard(lifetime)]
      BY <1>2 DEF AddCircuitGuard, AddGuard
    <2>2. /\ UNCHANGED <<network, clock, request, exit>>
          /\ pc = "fill" /\ CanBeNewGuard(r)
          /\ usable' = IF guard_filter_for_circ(r, guards'[r])
                       THEN usable \cup {r} ELSE usable
      BY <1>2 DEF AddCircuitGuard, AddGuard
    <2>3. r \notin Listed
      BY <2>2 DEF CanBeNewGuard, Conflict
    <2>4. guards' \in [Relay -> GuardRecord \cup {None}] /\ guards'[r] # None
      <3>1. guards'[r] = NewGuard(lifetime) /\ NewGuard(lifetime) \in GuardRecord
        BY <2>1, <2>2, NewGuardOK DEF RecordOK, ListInv, TypeOK
      <3> QED
        BY <2>1, <3>1, NoneAssumption DEF ListInv, TypeOK
    <2>5. ASSUME NEW s \in usable'
          PROVE  s \in Listed' /\ guard_filter_for_circ(s, guards[s])'
      <3>1. CASE s = r
        <4>1. guard_filter_for_circ(r, guards'[r])
          BY <2>2, <2>3, <2>5, <3>1 DEF UsableStillUsable
        <4> QED
          BY <2>2, <2>4, <3>1, <4>1
          DEF Listed, network, clock, RequestFlags, Conflict, in_same_family,
              in_same_16_subnet, HasFlags, guard_filter_for_circ, Reachable,
              guard_is_time_to_retry
      <3>2. CASE s # r
        <4>1. s \in usable /\ s \in Relay /\ guards'[s] = guards[s]
              /\ guards[s] # None /\ guard_filter_for_circ(s, guards[s])
          BY <2>1, <2>2, <2>5, <3>2 DEF UsableStillUsable, Listed, ListInv, TypeOK
        <4> QED
          BY <2>2, <4>1
          DEF Listed, network, clock, RequestFlags, Conflict, in_same_family,
              in_same_16_subnet, HasFlags, guard_filter_for_circ, Reachable,
              guard_is_time_to_retry
      <3> QED
        BY <3>1, <3>2
    <2> QED
      BY <2>5
  <1>3. CASE UNCHANGED vars
    <2>1. UNCHANGED <<network, clock, request, exit, guards, usable, pc>>
      BY <1>3 DEF vars, build
    <2> QED
      BY <2>1, VerdictsFrame DEF UsableStillUsable, Listed
  <1> QED
    BY <1>1, <1>2, <1>3
    DEF Next, NextConsensus, GapInConsensuses, AdvancePeriod, Tick,
        RequestCircuit, Build, CountGuards, ReturnCircuit, RelayStep, GuardStep,
        SelectExit, AddQuotaGuard, DropNewGuard, GuardUnreachable, GuardAnswers,
        FinishCircuit, DiscardPath, EndOfSimulation, Stopped

\* The exit chosen stays suitable until the circuit is finished or discarded.
LEMMA ExitStep ==
  ASSUME ListInv, ExitStands, [Next]_vars PROVE ExitStands'
  <1> SUFFICES ASSUME pc' \in {"guards", "quota", "fill", "middle", "built"}
               PROVE  exit' \in Relay /\ CanBeExit(exit)'
    BY DEF ExitStands
  <1>1. ASSUME NEW r \in Relay, SelectExit(r)
        PROVE  exit' \in Relay /\ CanBeExit(exit)'
    BY <1>1 DEF SelectExit, CanBeExit, HasFlags, RequestFlags, network
  <1>2. ASSUME UNCHANGED <<network, exit, request>>,
               pc \in {"guards", "quota", "fill", "middle", "built"}
        PROVE  exit' \in Relay /\ CanBeExit(exit)'
    BY <1>2 DEF ExitStands, CanBeExit, HasFlags, RequestFlags, network
  <1> QED
    BY <1>1, <1>2
    DEF Next, NextConsensus, GapInConsensuses, AdvancePeriod, Tick,
        RequestCircuit, Build, CountGuards, FilterGuards, ReturnCircuit,
        RelayStep, GuardStep, AddQuotaGuard, AddCircuitGuard, DropNewGuard,
        GuardUnreachable, GuardAnswers, Choose, FinishCircuit, DiscardPath,
        EndOfSimulation, Stopped, vars, build

\* So does the guard: it was filtered against the exit when it was chosen.
LEMMA EntryStep ==
  ASSUME ListInv, PathInv, [Next]_vars PROVE EntryStands'
  <1>1. ASSUME NEW r \in Relay, GuardAnswers(r) PROVE EntryStands'
    <2>1. /\ UNCHANGED <<network, clock, request, exit>>
          /\ r \notin hibernating /\ r \in usable /\ pc = "fill" /\ entry' = r
          /\ guards' = [guards EXCEPT ![r].unreachable_since = None,
                                      ![r].made_contact = TRUE]
      BY <1>1 DEF GuardAnswers, Choose
    <2>2. r \in Listed /\ guard_filter_for_circ(r, guards[r])
      BY <2>1 DEF PathInv, UsableStillUsable
    <2>3. guards[r] \in GuardRecord /\ guards[r].bad_since = None
      BY <2>2 DEF Listed, ListInv, TypeOK, guard_filter_for_circ
    <2>4. /\ guards'[r] \in GuardRecord
          /\ guards'[r].made_contact /\ guards'[r].unreachable_since = None
          /\ guards'[r].bad_since = None
      BY <2>1, <2>3 DEF ListInv, TypeOK, GuardRecord
    <2>5. HasFlags(cons_rel_stats, r, RequestFlags) /\ ~Conflict(exit, r)
      BY <2>2, <2>3
      DEF ListInv, GuardsTrackConsensus, IsUp, HasFlags, guard_filter_for_circ
    <2>6. /\ HasFlags(cons_rel_stats, entry, RequestFlags)'
          /\ ~Conflict(exit, entry)'
      BY <2>1, <2>5
      DEF HasFlags, Conflict, in_same_family, in_same_16_subnet, network,
          RequestFlags
    <2> QED
      BY <2>1, <2>4, <2>6, NoneAssumption DEF EntryStands, network
  <1>2. ASSUME UNCHANGED <<network, exit, request, entry, guards>>,
               pc \in {"middle", "built"} \/ pc' \notin {"middle", "built"}
        PROVE  EntryStands'
    BY <1>2
    DEF PathInv, EntryStands, HasFlags, RequestFlags, Conflict, in_same_family,
        in_same_16_subnet, network
  <1>3. CASE pc' \notin {"middle", "built"}
    BY <1>3 DEF EntryStands
  <1> QED
    BY <1>1, <1>2, <1>3
    DEF Next, NextConsensus, GapInConsensuses, AdvancePeriod, Tick,
        RequestCircuit, Build, CountGuards, FilterGuards, ReturnCircuit,
        RelayStep, GuardStep, SelectExit, AddQuotaGuard, AddCircuitGuard,
        DropNewGuard, GuardUnreachable, FinishCircuit, DiscardPath,
        EndOfSimulation, Stopped, vars, build

\* And the middle, filtered against both.
LEMMA MiddleStep ==
  ASSUME ListInv, PathInv, [Next]_vars PROVE MiddleStands'
  <1>1. ASSUME NEW m \in Relay, FinishCircuit(m) PROVE MiddleStands'
    <2>1. /\ UNCHANGED <<network, clock, request, exit, entry>>
          /\ middle' = m /\ CanBeMiddle(m) /\ circuit_supports_ntor(m)
      BY <1>1 DEF FinishCircuit
    <2> QED
      BY <2>1
      DEF MiddleStands, CanBeMiddle, circuit_supports_ntor, HasFlags,
          RequestFlags, Conflict, in_same_family, in_same_16_subnet, network
  <1>2. CASE pc' = "built" /\ UNCHANGED vars
    BY <1>2
    DEF PathInv, MiddleStands, CanBeMiddle, circuit_supports_ntor, HasFlags,
        RequestFlags, Conflict, in_same_family, in_same_16_subnet, network, vars,
        build
  <1>3. CASE pc' # "built"
    BY <1>3 DEF MiddleStands
  <1> QED
    BY <1>1, <1>2, <1>3
    DEF Next, NextConsensus, GapInConsensuses, AdvancePeriod, Tick,
        RequestCircuit, Build, CountGuards, FilterGuards, ReturnCircuit,
        RelayStep, GuardStep, SelectExit, AddQuotaGuard, AddCircuitGuard,
        DropNewGuard, GuardUnreachable, GuardAnswers, Choose, DiscardPath,
        EndOfSimulation, Stopped

\* The tests refuse related relays whichever of the two they are given first,
\* though the subnet test itself is not symmetric.
LEMMA RelatedConflict ==
  \A r, s : Related(r, s) => Conflict(r, s) /\ Conflict(s, r)
  BY DEF Related, Conflict, in_same_family, in_same_16_subnet

\* The stages of a build together make the path sound.
LEMMA PathInvSound == ASSUME ListInv, PathInv PROVE PathSound
  BY RelatedConflict
  DEF PathInv, ExitStands, EntryStands, MiddleStands, CanBeMiddle, PathSound,
      circuit_supports_ntor, CanBeExit, HasFlags
-----------------------------------------------------------------------------
(* The theorems.                                                           *)

\* ListInv and PathInv together are inductive.
LEMMA Inductive == Spec => [](ListInv /\ PathInv)
  <1>1. Init => ListInv /\ PathInv
    BY ListInit, PathInit
  <1>2. ListInv /\ PathInv /\ [Next]_vars => ListInv' /\ PathInv'
    BY ListStep, UsableStep, ExitStep, EntryStep, MiddleStep DEF PathInv
  <1> QED
    BY <1>1, <1>2, PTL DEF Spec

\* Every variable keeps its type: in particular no guard record ever holds
\* anything else than period_client_update() and create_circuit() put there.
THEOREM TypeCorrect == Spec => []TypeOK
  <1>1. ListInv => TypeOK
    BY DEF ListInv
  <1> QED
    BY <1>1, Inductive, PTL

\* guard_filter_for_circ() never raises: a guard that is not marked bad is a
\* Running guard of the consensus in force, whatever consensuses are read.
THEOREM GuardsAlwaysTrackConsensus == Spec => []GuardsTrackConsensus
  <1>1. ListInv => GuardsTrackConsensus
    BY DEF ListInv
  <1> QED
    BY <1>1, Inductive, PTL

\* No guard is kept past its expiration or past guard_down_time of being bad.
THEOREM GuardsWithinLifetimes == Spec => []GuardLifetimes
  <1>1. ListInv => GuardLifetimes
    BY DEF ListInv
  <1> QED
    BY <1>1, Inductive, PTL

\* Unreachable marks and attempt times of a guard stay consistent.
THEOREM RetryRecordsConsistent == Spec => []RetryRecord
  <1>1. ListInv => RetryRecord
    BY DEF ListInv
  <1> QED
    BY <1>1, Inductive, PTL

\* Every path create_circuit() returns is sound, for every network.
THEOREM PathsAreSound == Spec => []PathSound
  <1>1. ListInv /\ PathInv => PathSound
    BY PathInvSound
  <1> QED
    BY <1>1, Inductive, PTL-----------------------------------------------------------------------------
(* The length of the list.                                                 *)

\* The list is finite, being among finitely many relays.
LEMMA ListedFinite ==
  /\ IsFiniteSet(Listed) /\ Cardinality(Listed) \in Nat
  /\ IsFiniteSet(LiveGuards) /\ Cardinality(LiveGuards) \in Nat
  /\ Cardinality(LiveGuards) <= Cardinality(Listed)
  <1>1. Listed \subseteq Relay /\ LiveGuards \subseteq Listed
    BY DEF Listed, LiveGuards
  <1> QED
    BY <1>1, NetworkAssumption, FS_Subset, FS_CardinalityType

\* A new guard is not on the list yet, so the list grows by one.
LEMMA AddGuardGrowsList ==
  ASSUME ListInv, NEW r \in Relay, AddGuard(r)
  PROVE  Cardinality(Listed') = Cardinality(Listed) + 1
  <1>1. PICK lifetime \in ExpirationMin..ExpirationMax :
          guards' = [guards EXCEPT ![r] = NewGuard(lifetime)]
    BY DEF AddGuard
  <1>2. r \notin Listed
    BY DEF AddGuard, CanBeNewGuard, Conflict
  <1>3. NewGuard(lifetime) \in GuardRecord
    BY NewGuardOK DEF AddGuard, RecordOK
  <1>4. Listed' = Listed \cup {r}
    BY <1>1, <1>3, NoneAssumption DEF Listed, ListInv, TypeOK
  <1> QED
    BY <1>2, <1>4, ListedFinite, FS_AddElement

\* The usable guards counted, and those added since, make up num_guards.
LEMMA QuotaStep ==
  ListInv /\ PathInv /\ QuotaCounted /\ [Next]_vars => QuotaCounted'
  <1> SUFFICES ASSUME ListInv, PathInv, QuotaCounted, [Next]_vars
               PROVE  QuotaCounted'
    OBVIOUS
  <1>1. /\ Cardinality(Listed) \in Nat /\ to_add \in Nat /\ NumGuards \in Nat
    BY ListedFinite, OptionAssumption DEF ListInv, TypeOK
  <1>2. UNCHANGED guards => Listed' = Listed
    BY DEF Listed
  <1>3. CASE CountGuards
    <2>1. Cardinality(Listed) + Shortfall >= NumGuards
      BY ListedFinite, OptionAssumption DEF Shortfall
    <2> QED
      BY <1>2, <1>3, <2>1 DEF CountGuards, QuotaCounted, QuotaFilled
  <1>4. ASSUME NEW r \in Relay, AddQuotaGuard(r) PROVE QuotaCounted'
    <2>1. Cardinality(Listed') = Cardinality(Listed) + 1
      BY <1>4, AddGuardGrowsList DEF AddQuotaGuard
    <2> QED
      BY <1>1, <1>4, <2>1 DEF AddQuotaGuard, QuotaCounted, QuotaFilled
  <1>5. ASSUME NEW r \in Relay, AddCircuitGuard(r) PROVE QuotaCounted'
    <2>1. Cardinality(Listed') = Cardinality(Listed) + 1
      BY <1>5, AddGuardGrowsList DEF AddCircuitGuard
    <2> QED
      BY <1>1, <1>5, <2>1 DEF AddCircuitGuard, QuotaCounted, QuotaFilled
  <1>6. CASE FilterGuards
    BY <1>1, <1>2, <1>6 DEF FilterGuards, QuotaCounted, QuotaFilled
  <1>7. ASSUME NEW r \in Relay, GuardAnswers(r) PROVE QuotaCounted'
    <2>1. r \in Listed
      BY <1>7 DEF GuardAnswers, Choose, PathInv, UsableStillUsable
    <2>2. guards[r] \in GuardRecord
      BY <2>1 DEF Listed, ListInv, TypeOK
    <2>3. guards'[r] \in GuardRecord
      BY <1>7, <2>2 DEF GuardAnswers, ListInv, TypeOK, GuardRecord
    <2>4. Listed' = Listed
      BY <1>7, <2>1, <2>3, NoneAssumption DEF GuardAnswers, Listed, ListInv, TypeOK
    <2> QED
      BY <1>7, <2>4 DEF GuardAnswers, Choose, QuotaCounted, QuotaFilled
  <1>8. ASSUME NEW r \in Relay, FinishCircuit(r) PROVE QuotaCounted'
    BY <1>2, <1>8 DEF FinishCircuit, QuotaCounted, QuotaFilled
  <1>9. CASE pc' \notin {"quota", "fill", "middle", "built"}
    BY <1>9 DEF QuotaCounted, QuotaFilled
  <1>10. CASE UNCHANGED vars
    BY <1>2, <1>10 DEF vars, build, QuotaCounted, QuotaFilled
  <1> QED
    BY <1>3, <1>4, <1>5, <1>6, <1>7, <1>8, <1>9, <1>10
    DEF Next, NextConsensus, GapInConsensuses, AdvancePeriod, Tick,
        RequestCircuit, Build, ReturnCircuit, RelayStep, GuardStep, SelectExit,
        DropNewGuard, GuardUnreachable, DiscardPath, EndOfSimulation, Stopped

\* Whatever is removed and however few guards are usable, the list holds
\* num_guards guards by the time one of them is chosen.
THEOREM QuotaAlwaysFilled == Spec => []QuotaFilled
  <1>1. Init => QuotaCounted
    BY DEF Init, QuotaCounted, QuotaFilled
  <1>2. QuotaCounted => QuotaFilled
    BY DEF QuotaCounted
  <1> QED
    BY <1>1, <1>2, QuotaStep, Inductive, PTL DEF Spec
-----------------------------------------------------------------------------
(* Action properties.                                                      *)

\* Hibernation and circuit failures never remove a guard that answered once.
THEOREM ContactedGuardsAreKept == Spec => ContactedGuardsKept
  <1>1. ASSUME ListInv, PathInv, [Next]_vars, NEW r \in Relay,
               guards[r] # None, guards[r].made_contact, guards'[r] = None
        PROVE  /\ valid_after' > valid_after
               /\ guards[r].expires <= valid_after' \/ ~IsUp(cons_rel_stats', r)
    <2>1. /\ guards \in [Relay -> GuardRecord \cup {None}]
          /\ valid_after \in Nat /\ guards[r] \in GuardRecord
      BY <1>1 DEF ListInv, TypeOK
    <2>2. /\ PeriodLength \in Nat /\ PeriodLength > 0
          /\ fresh_until > valid_after
      BY <2>1, OptionAssumption DEF fresh_until
    <2>3. ASSUME NEW stats, GuardAfterPeriod(r, stats, fresh_until) = None
          PROVE  guards[r].expires <= fresh_until \/ ~IsUp(stats, r)
      <3>1. CASE IsUp(stats, r)
        BY <1>1, <2>1, <2>3, <3>1, NoneAssumption
        DEF GuardAfterPeriod, GuardRecord
      <3> QED
        BY <3>1
    <2>4. CASE NextConsensus
      BY <1>1, <2>2, <2>3, <2>4
      DEF NextConsensus, AdvancePeriod, period_client_update
    <2>5. CASE GapInConsensuses
      BY <1>1, <2>2, <2>3, <2>5
      DEF GapInConsensuses, AdvancePeriod, period_client_update, network
    <2>6. ASSUME NEW s \in Relay, AddGuard(s) PROVE FALSE
      <3>1. PICK lifetime \in ExpirationMin..ExpirationMax :
              guards' = [guards EXCEPT ![s] = NewGuard(lifetime)]
        BY <2>6 DEF AddGuard
      <3>2. NewGuard(lifetime) \in GuardRecord
        BY <1>1, <2>6, NewGuardOK DEF AddGuard, RecordOK
      <3> QED
        BY <1>1, <2>1, <3>1, <3>2, NoneAssumption
    <2>7. ASSUME NEW s \in Relay,
                 DropNewGuard(s) \/ GuardUnreachable(s) \/ GuardAnswers(s)
          PROVE  FALSE
      <3>1. guards[s] \in GuardRecord
        BY <1>1, <2>1, <2>7
        DEF DropNewGuard, GuardUnreachable, GuardAnswers, Choose, PathInv,
            UsableStillUsable, Listed
      <3>2. CASE DropNewGuard(s)
        BY <1>1, <2>1, <3>2 DEF DropNewGuard
      <3>3. CASE GuardUnreachable(s) \/ GuardAnswers(s)
        <4>1. guards'[s] \in GuardRecord
          BY <1>1, <2>7, ListStep, <3>1, <3>3, <2>1, NoneAssumption
          DEF ListInv, TypeOK, PathInv, GuardUnreachable, GuardAnswers, GuardRecord
        <4> QED
          BY <1>1, <2>1, <3>3, <4>1, NoneAssumption
          DEF GuardUnreachable, GuardAnswers
      <3> QED
        BY <2>7, <3>2, <3>3
    <2>8. CASE UNCHANGED guards
      BY <1>1, <2>8
    <2> QED
      BY <1>1, <2>4, <2>5, <2>6, <2>7, <2>8
      DEF Next, Tick, RequestCircuit, Build, CountGuards, FilterGuards,
          ReturnCircuit, RelayStep, GuardStep, SelectExit, AddQuotaGuard,
          AddCircuitGuard, FinishCircuit, DiscardPath, EndOfSimulation, Stopped,
          vars
  <1>2. ListInv /\ PathInv /\ [Next]_vars => [KeepsContactedGuards]_vars
    BY <1>1 DEF KeepsContactedGuards
  <1> QED
    BY <1>2, Inductive, PTL DEF Spec, ContactedGuardsKept

\* An unreachable guard is not contacted again before its interval is over.
THEOREM RetriesAreAlwaysSpaced == Spec => RetriesAreSpaced
  <1>1. ASSUME ListInv, PathInv, [Next]_vars, NEW r \in Relay,
               guards[r] # None, guards'[r] # None,
               guards[r].unreachable_since # None,
               \/ guards'[r].unreachable_since # guards[r].unreachable_since
               \/ guards'[r].last_attempted # guards[r].last_attempted
        PROVE  time > guards[r].last_attempted
                        + RetryInterval(time - guards[r].unreachable_since)
    <2>1. /\ guards \in [Relay -> GuardRecord \cup {None}]
          /\ guards[r] \in GuardRecord /\ r \in Listed
          /\ guards[r].unreachable_since <= guards[r].last_attempted
          /\ guards[r].unreachable_since \in Nat
          /\ guards[r].last_attempted \in Nat
      BY <1>1 DEF ListInv, TypeOK, RetryRecord, Listed, GuardRecord
    <2>2. ASSUME NEW s \in Relay, Choose(s),
                 guards' = [guards EXCEPT ![s] = guards'[s]]
          PROVE  time > guards[r].last_attempted
                          + RetryInterval(time - guards[r].unreachable_since)
      <3>1. s = r
        BY <1>1, <2>1, <2>2
      <3>2. guard_filter_for_circ(r, guards[r])
        BY <1>1, <2>2, <3>1 DEF Choose, PathInv, UsableStillUsable
      <3>3. guard_is_time_to_retry(guards[r])
        BY <1>1, <3>2 DEF guard_filter_for_circ, Reachable
      <3> QED
        BY <2>1, <3>3 DEF guard_is_time_to_retry
    <2>3. ASSUME NEW s \in Relay, GuardUnreachable(s) \/ GuardAnswers(s)
          PROVE  Choose(s) /\ guards' = [guards EXCEPT ![s] = guards'[s]]
      BY <2>1, <2>3 DEF GuardUnreachable, GuardAnswers
    <2>4. ASSUME NEW s \in Relay, DropNewGuard(s) PROVE FALSE
      <3>1. s # r
        BY <1>1, <2>1, <2>4 DEF DropNewGuard
      <3> QED
        BY <1>1, <2>1, <2>4, <3>1 DEF DropNewGuard
    <2>5. ASSUME NEW s \in Relay, AddGuard(s) PROVE FALSE
      <3>1. r # s
        BY <2>1, <2>5 DEF AddGuard, CanBeNewGuard, Conflict
      <3> QED
        BY <1>1, <2>1, <2>5, <3>1 DEF AddGuard
    <2>6. ASSUME NEW stats \in RelStats, period_client_update(stats, fresh_until),
                 AdvancePeriod
          PROVE  FALSE
      <3>1. /\ guards'[r] = GuardAfterPeriod(r, stats, fresh_until)
            /\ fresh_until \in Nat /\ valid_after <= fresh_until
            /\ PeriodLength \in Nat
        BY <1>1, <2>6, OptionAssumption
        DEF period_client_update, ListInv, TypeOK, fresh_until
      <3> DEFINE h == GuardAfterPeriod(r, stats, fresh_until)
      <3>2. TypeOK /\ GuardLifetimes
        BY <1>1 DEF ListInv
      <3>3. h # None => /\ h.unreachable_since = guards[r].unreachable_since
                        /\ h.last_attempted = guards[r].last_attempted
        BY <2>6, <3>1, <3>2, PeriodUpdateOfGuard, Zenon
      <3> HIDE DEF h
      <3> QED
        BY <1>1, <3>1, <3>3 DEF h
    <2>7. ~UNCHANGED guards
      BY <1>1
    <2>8. ~NextConsensus /\ ~GapInConsensuses
      BY <1>1, <2>6, NetworkAssumption
      DEF NextConsensus, GapInConsensuses, ListInv, TypeOK
    <2> QED
      BY <1>1, <2>2, <2>3, <2>4, <2>5, <2>7, <2>8
      DEF Next, Tick, RequestCircuit, Build, CountGuards, FilterGuards,
          ReturnCircuit, RelayStep, GuardStep, SelectExit, AddQuotaGuard,
          AddCircuitGuard, FinishCircuit, DiscardPath, EndOfSimulation, Stopped,
          vars
  <1>2. ListInv /\ PathInv /\ [Next]_vars => [SpacesRetries]_vars
    BY <1>1 DEF SpacesRetries
  <1> QED
    BY <1>2, Inductive, PTL DEF Spec, RetriesAreSpaced

\* Adding a guard never makes two listed guards relatives.
THEOREM GuardsAlwaysUnrelatedWhenAdded == Spec => GuardsUnrelatedWhenAdded
  <1>1. ASSUME ListInv, PathInv, [Next]_vars, NEW r \in Listed', NEW s \in Listed',
               r # s, Related(r, s)
        PROVE  r \in Listed /\ s \in Listed
    <2>1. guards \in [Relay -> GuardRecord \cup {None}]
      BY <1>1 DEF ListInv, TypeOK
    <2>2. CASE Listed' \subseteq Listed
      BY <1>1, <2>2
    <2>3. ASSUME NEW t \in Relay, AddGuard(t)
          PROVE  r \in Listed /\ s \in Listed
      <3>1. Listed' \subseteq Listed \cup {t}
        BY <2>1, <2>3 DEF AddGuard, Listed
      <3>2. \A g \in Listed : ~Related(g, t) /\ ~Related(t, g)
        BY <2>3, RelatedConflict DEF AddGuard, CanBeNewGuard
      <3> QED
        BY <1>1, <3>1, <3>2
    <2>4. ASSUME NEW stats \in RelStats, period_client_update(stats, fresh_until)
          PROVE  Listed' \subseteq Listed
      BY <2>4 DEF period_client_update, GuardAfterPeriod, Listed
    <2>5. NextConsensus \/ GapInConsensuses => Listed' \subseteq Listed
      BY <1>1, <2>4, NetworkAssumption
      DEF NextConsensus, GapInConsensuses, ListInv, TypeOK
    <2>6. ASSUME NEW t \in Relay,
                 DropNewGuard(t) \/ GuardUnreachable(t) \/ GuardAnswers(t)
          PROVE  Listed' \subseteq Listed
      <3>1. t \in Listed
        BY <1>1, <2>6
        DEF DropNewGuard, GuardUnreachable, GuardAnswers, Choose, PathInv,
            UsableStillUsable
      <3>2. ASSUME NEW u \in Relay, u # t PROVE guards'[u] = guards[u]
        BY <2>1, <2>6, <3>2 DEF DropNewGuard, GuardUnreachable, GuardAnswers
      <3> QED
        BY <3>1, <3>2 DEF Listed
    <2>7. UNCHANGED guards => Listed' = Listed
      BY DEF Listed
    <2> QED
      BY <1>1, <2>2, <2>3, <2>5, <2>6, <2>7
      DEF Next, Tick, RequestCircuit, Build, CountGuards, FilterGuards,
          ReturnCircuit, RelayStep, GuardStep, SelectExit, AddQuotaGuard,
          AddCircuitGuard, FinishCircuit, DiscardPath, EndOfSimulation, Stopped,
          vars
  <1>2. ListInv /\ PathInv /\ [Next]_vars => [AddsUnrelatedGuards]_vars
    BY <1>1 DEF AddsUnrelatedGuards
  <1> QED
    BY <1>2, Inductive, PTL DEF Spec, GuardsUnrelatedWhenAdded
-----------------------------------------------------------------------------
(* The contract.                                                           *)

LEMMA ContractInit == Init => Contract!Init
<1> SUFFICES ASSUME Init PROVE Contract!Init
  OBVIOUS
<1>1. Trusted = {} /\ ContractState = "idle"
  BY DEF Init, Trusted, Listed, ContractState
<1> QED BY <1>1 DEF Init, Contract!Init, Contract!Request

\* What the contract sees does not change while neither the network, the phase,
\* nor the trust in a guard does.
LEMMA ContractStutters ==
  ASSUME UNCHANGED <<network, valid_after, request, ContractState, Trusted>>,
         pc # "built", pc' # "built"
  PROVE  UNCHANGED Contract!vars
BY DEF network, Contract!vars, Contract!network

\* The guards trusted after a change of the list at r only.
LEMMA TrustOfOne ==
  ASSUME TypeOK, NEW r \in Relay, NEW g \in GuardRecord \cup {None},
         guards' = [guards EXCEPT ![r] = g]
  PROVE  Trusted' = IF g # None /\ g.made_contact THEN Trusted \cup {r}
                    ELSE Trusted \ {r}
<1>1. \A s \in Relay : guards'[s] = IF s = r THEN g ELSE guards[s]
  BY DEF TypeOK
<1> QED BY <1>1 DEF Trusted, Listed

\* Every step is a step of the contract or changes nothing it speaks of.
LEMMA ContractStep ==
  ASSUME ListInv, PathInv, [Next]_vars
  PROVE  [Contract!Next]_(Contract!vars)
<1>0. TypeOK /\ ClockInPeriod
  BY DEF ListInv
<1>1. CASE NextConsensus \/ GapInConsensuses
  <2>1. \A r \in Relay : guards'[r] # None =>
          guards[r] # None /\ guards'[r].made_contact = guards[r].made_contact
    <3> SUFFICES ASSUME NEW r \in Relay, guards'[r] # None
                 PROVE  /\ guards[r] # None
                        /\ guards'[r].made_contact = guards[r].made_contact
      OBVIOUS
    <3>1. PICK stats : guards' = [s \in Relay |-> GuardAfterPeriod(s, stats, fresh_until)]
      BY <1>1 DEF NextConsensus, GapInConsensuses, period_client_update
    <3>2. guards'[r] = GuardAfterPeriod(r, stats, fresh_until)
      BY <3>1
    <3>3. guards[r] \in GuardRecord
      BY <1>0, <3>2 DEF GuardAfterPeriod, TypeOK
    <3> QED BY <3>2, <3>3 DEF GuardAfterPeriod, GuardRecord
  <2>2. Trusted' \subseteq Trusted
    BY <2>1 DEF Trusted, Listed
  <2>3. valid_after' > valid_after
    BY <1>0, <1>1, OptionAssumption
    DEF NextConsensus, GapInConsensuses, AdvancePeriod, fresh_until, TypeOK
  <2>4. pc = "idle" /\ UNCHANGED <<pc, request>>
    BY <1>1 DEF NextConsensus, GapInConsensuses, AdvancePeriod, build
  <2>5. Contract!BeginPeriod
    BY <2>2, <2>3, <2>4 DEF Contract!BeginPeriod, ContractState
  <2> QED BY <2>5 DEF Contract!Next
<1>2. CASE Tick
  <2>1. pc = "idle" /\ UNCHANGED <<pc, request, guards, valid_after, cons_rel_stats>>
    BY <1>2 DEF Tick, build
  <2>2. Contract!Hibernate
    BY <2>1 DEF Contract!Hibernate, ContractState, Trusted, Listed
  <2> QED BY <2>2 DEF Contract!Next
<1>3. CASE RequestCircuit
  <2>1. /\ pc = "idle" /\ pc' = "exit" /\ request' \in Contract!Request
        /\ UNCHANGED <<network, valid_after, guards>>
    BY <1>3 DEF RequestCircuit, Contract!Request, clock
  <2>2. Contract!Ask
    BY <2>1 DEF Contract!Ask, Contract!network, ContractState, Trusted, Listed,
      network
  <2> QED BY <2>2 DEF Contract!Next
<1>4. ASSUME UNCHANGED <<network, valid_after, request, guards>>,
             pc \in {"exit", "guards", "quota", "fill"},
             pc' \in {"exit", "guards", "quota", "fill"}
      PROVE  UNCHANGED Contract!vars
  BY <1>4, ContractStutters DEF ContractState, Trusted, Listed
<1>5. CASE \E r \in Relay : SelectExit(r)
  BY <1>4, <1>5 DEF SelectExit, clock
<1>6. CASE CountGuards \/ FilterGuards
  BY <1>4, <1>6 DEF CountGuards, FilterGuards, clock
<1>7. ASSUME NEW r \in Relay, NEW g \in GuardRecord \cup {None},
             guards' = [guards EXCEPT ![r] = g],
             (g # None /\ g.made_contact) <=> r \in Trusted,
             UNCHANGED <<network, valid_after, request>>,
             pc \in {"quota", "fill"}, pc' \in {"guards", "quota", "fill"}
      PROVE  UNCHANGED Contract!vars
  <2>1. Trusted' = IF g # None /\ g.made_contact THEN Trusted \cup {r}
                   ELSE Trusted \ {r}
    BY <1>0, <1>7, TrustOfOne
  <2>2. Trusted' = Trusted
    BY <1>7, <2>1
  <2> QED BY <1>7, <2>2, ContractStutters DEF ContractState
<1>8. CASE \E r \in Relay : AddQuotaGuard(r) \/ AddCircuitGuard(r)
  <2>1. PICK r \in Relay : AddQuotaGuard(r) \/ AddCircuitGuard(r)
    BY <1>8
  <2>2. AddGuard(r)
    BY <2>1 DEF AddQuotaGuard, AddCircuitGuard
  <2>3. PICK lifetime \in ExpirationMin..ExpirationMax :
          guards' = [guards EXCEPT ![r] = NewGuard(lifetime)]
    BY <2>2 DEF AddGuard
  <2>4. /\ NewGuard(lifetime) \in GuardRecord
        /\ ~NewGuard(lifetime).made_contact
    BY <1>0, OptionAssumption DEF NewGuard, GuardRecord, TypeOK
  <2>5. r \notin Trusted
    BY <2>2 DEF AddGuard, CanBeNewGuard, Conflict, Trusted
  <2>6. /\ UNCHANGED <<network, valid_after, request>>
        /\ pc \in {"quota", "fill"} /\ pc' = pc
    BY <2>1 DEF AddQuotaGuard, AddCircuitGuard, clock
  <2> QED BY <1>7, <2>3, <2>4, <2>5, <2>6
<1>9. CASE \E r \in Relay : DropNewGuard(r)
  <2>1. PICK r \in Relay : DropNewGuard(r)
    BY <1>9
  <2>2. /\ guards' = [guards EXCEPT ![r] = None] /\ r \notin Trusted
        /\ UNCHANGED <<network, valid_after, request>>
        /\ pc = "fill" /\ pc' = "guards"
    BY <2>1 DEF DropNewGuard, Choose, Trusted, build, clock
  <2> QED BY <1>7, <2>2
<1>10. ASSUME NEW r \in Relay, Choose(r)
       PROVE  guards[r] \in GuardRecord /\ r \in Listed /\ pc = "fill"
  BY <1>0, <1>10 DEF Choose, PathInv, UsableStillUsable, Listed, TypeOK
<1>11. CASE \E r \in Relay : GuardUnreachable(r)
  <2>1. PICK r \in Relay : GuardUnreachable(r)
    BY <1>11
  <2>2. Choose(r)
    BY <2>1 DEF GuardUnreachable
  <2> DEFINE g == [guards[r] EXCEPT !.unreachable_since = IF @ = None THEN time ELSE @,
                                    !.last_attempted = time]
  <2>3. g \in GuardRecord /\ g.made_contact = guards[r].made_contact
    BY <1>0, <1>10, <2>2 DEF GuardRecord, TypeOK
  <2>4. guards[r].made_contact /\ r \in Trusted
    BY <1>10, <2>1, <2>2 DEF GuardUnreachable, Trusted
  <2>5. /\ guards' = [guards EXCEPT ![r] = g]
        /\ UNCHANGED <<network, valid_after, request>>
        /\ pc = "fill" /\ pc' = "guards"
    BY <1>0, <1>10, <2>1, <2>2 DEF GuardUnreachable, TypeOK, build, clock
  <2> HIDE DEF g
  <2> QED BY <1>7, <2>3, <2>4, <2>5, NoneAssumption
<1>12. CASE \E r \in Relay : GuardAnswers(r)
  <2>1. PICK r \in Relay : GuardAnswers(r)
    BY <1>12
  <2>2. Choose(r)
    BY <2>1 DEF GuardAnswers
  <2> DEFINE g == [guards[r] EXCEPT !.unreachable_since = None, !.made_contact = TRUE]
  <2>3. g \in GuardRecord /\ g.made_contact
    BY <1>10, <2>2 DEF GuardRecord
  <2>4. /\ guards' = [guards EXCEPT ![r] = g]
        /\ UNCHANGED <<network, valid_after, request>>
        /\ pc = "fill" /\ pc' = "middle"
    BY <1>0, <1>10, <2>1, <2>2 DEF GuardAnswers, TypeOK, clock
  <2> HIDE DEF g
  <2>5. Trusted' = Trusted \cup {r}
    BY <1>0, <2>3, <2>4, NoneAssumption, TrustOfOne
  <2>6. r \in Contract!Awake
    <3>1. guard_filter_for_circ(r, guards[r]) /\ r \in Listed
      BY <1>10, <2>2 DEF Choose, PathInv, UsableStillUsable
    <3>2. IsUp(cons_rel_stats, r)
      BY <3>1 DEF guard_filter_for_circ, ListInv, GuardsTrackConsensus
    <3> QED BY <2>1, <3>2 DEF Contract!Awake, Contract!With, IsUp, HasFlags, GuardAnswers
  <2>7. Contract!Trust(r)
    BY <2>4, <2>5, <2>6 DEF Contract!Trust, Contract!network, ContractState, network
  <2> QED BY <2>7 DEF Contract!Next
<1>13. CASE \E r \in Relay : FinishCircuit(r)
  <2>1. PICK m \in Relay : FinishCircuit(m)
    BY <1>13
  <2>2. /\ pc = "middle" /\ pc' = "built" /\ middle' = m
        /\ UNCHANGED <<network, valid_after, request, guards, entry, exit>>
        /\ CanBeMiddle(m)
    BY <2>1 DEF FinishCircuit, clock
  <2>3. /\ entry \in Trusted /\ exit \in Relay
        /\ entry # m /\ entry # exit /\ m # exit
    BY <2>2 DEF PathInv, EntryStands, ExitStands, CanBeMiddle, Conflict, Trusted,
      Listed
  <2>4. \A r \in {entry, m, exit} :
          r \in Relay /\ HasFlags(cons_rel_stats, r, RequestFlags) /\ r \notin hibernating
    BY <2>2 DEF PathInv, EntryStands, ExitStands, CanBeMiddle, CanBeExit, HasFlags
  <2>5. \A r \in {entry, m, exit} :
          /\ r \in Contract!Awake
          /\ request.stable => r \in Contract!With("Stable")
          /\ request.fast => r \in Contract!With("Fast")
    BY <2>4 DEF HasFlags, RequestFlags, Contract!Awake, Contract!With
  <2>6. Contract!FitExit(exit)
    BY <2>2, <2>3 DEF PathInv, ExitStands, CanBeExit, HasFlags, Contract!FitExit,
      Contract!With
  <2>7. Contract!Make(entry, m, exit)
    BY <2>2, <2>3, <2>5, <2>6 DEF Contract!Make, Contract!network, ContractState,
      Contract!LivePath, Trusted, Listed, network
  <2> QED BY <2>3, <2>4, <2>7 DEF Contract!Next
<1>14. CASE ReturnCircuit
  <2>1. /\ pc = "built" /\ pc' = "idle" /\ request' \in Contract!Request
        /\ UNCHANGED <<network, valid_after, guards>>
    BY <1>14 DEF ReturnCircuit, Contract!Request, clock
  <2> QED BY <2>1 DEF Contract!Next, Contract!Return, Contract!network,
        ContractState, Trusted, Listed, network
<1>15. CASE \E r \in Relay : DiscardPath(r)
  <2>1. /\ pc = "middle" /\ pc' \in {"exit", "error"}
        /\ UNCHANGED <<network, valid_after, guards, request>>
    BY <1>15 DEF DiscardPath, clock
  <2>2. CASE pc' = "exit"
    BY <2>1, <2>2, ContractStutters DEF ContractState, Trusted, Listed
  <2>3. CASE pc' = "error"
    BY <2>1, <2>3 DEF Contract!Next, Contract!GiveUp, Contract!network,
      ContractState, Trusted, Listed, network
  <2> QED BY <2>1, <2>2, <2>3
<1>16. CASE EndOfSimulation
  <2>1. /\ pc = "idle" /\ pc' = "done"
        /\ UNCHANGED <<network, valid_after, guards, request>>
    BY <1>16 DEF EndOfSimulation, clock, build
  <2> QED BY <2>1, ContractStutters DEF ContractState, Trusted, Listed
<1>17. CASE Stopped \/ UNCHANGED vars
  BY <1>17 DEF Stopped, vars, network, clock, build, Contract!vars, Contract!network,
    ContractState, Trusted, Listed
<1> QED
  BY <1>1, <1>2, <1>3, <1>5, <1>6, <1>8, <1>9, <1>11, <1>12, <1>13, <1>14, <1>15,
     <1>16, <1>17
  DEF Next, Build, RelayStep, GuardStep

\* create_circuit() with its guard list does what CircuitContract promises: trust in
\* guards is lost only with a new period, and paths are live and start at one of them.
THEOREM PathSelectionKeepsContract == Spec => KeepsContract
<1>1. Init => Contract!Init
  BY ContractInit
<1>2. ListInv /\ PathInv /\ [Next]_vars => [Contract!Next]_(Contract!vars)
  BY ContractStep
<1> QED BY <1>1, <1>2, Inductive, PTL DEF Spec, KeepsContract, Contract!Spec
=============================================================================
