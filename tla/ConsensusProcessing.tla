-------------------------- MODULE ConsensusProcessing --------------------------
(***************************************************************************)
(* process_consensuses() of process_consensuses.py on one consensus: for   *)
(* each relay one pass over its published descriptors, in the order of a   *)
(* dictionary, picks the descriptor to simulate with and the statuses of   *)
(* hibernation that the simulation replays minute by minute.               *)
(***************************************************************************)
EXTENDS Integers, Sequences

CONSTANTS
  Relay,           \* fingerprints
  None,            \* no value
  Archive,         \* the archives to start from: what each relay published, when
  Consensus,       \* the consensuses that may be processed
  router_max_age   \* how old a descriptor may be

Time == Nat \ {0}

\* Publication times -> whether the descriptor says the relay is hibernating.
IsHistory(h) ==
  /\ h = [t \in DOMAIN h |-> h[t]]
  /\ DOMAIN h \subseteq Time
  /\ \A t \in DOMAIN h : h[t] \in BOOLEAN

\* valid_after, fresh_until, and relay -> the publication time it lists.
IsDocument(c) ==
  /\ c.valid_after \in Time /\ c.fresh_until \in Time
  /\ c.valid_after < c.fresh_until
  /\ DOMAIN c.published \subseteq Relay
  /\ \A r \in DOMAIN c.published : c.published[r] \in Time

ASSUME NoneAssumption == None \notin Nat /\ None \notin Relay /\ None \notin Consensus
ASSUME ArchiveAssumption ==
  \A a \in Archive : DOMAIN a = Relay /\ \A r \in Relay : IsHistory(a[r])
ASSUME ConsensusAssumption == \A c \in Consensus : IsDocument(c)
ASSUME AgeAssumption == router_max_age \in Nat

VARIABLES
  pc,                     \* between consensuses, between relays, in a pass, ...
  archive,                \* relay -> its history
  consensus,              \* the consensus being processed
  routers,                \* its relays that are still to be looked up
  router,                 \* the relay being looked up
  left,                   \* its descriptors the pass has not come to
  desc_time,              \* the best descriptor so far, 0 without one
  descs_while_fresh,      \* its descriptors published in the fresh period
  desc_time_fresh,        \* the descriptor that gives the initial status so far
  cur_hibernating,        \* the status last noted
  descriptors_out,        \* relay -> the descriptor found for it, or None
  hibernating_statuses    \* statuses noted, in the order they were

lookup == <<routers, router, left, desc_time, descs_while_fresh, desc_time_fresh,
            cur_hibernating>>
output == <<descriptors_out, hibernating_statuses>>
processing == <<pc, archive, consensus, lookup, output>>

Entry(t, r, hibernating) == [time |-> t, relay |-> r, hibernating |-> hibernating]

valid_after_ts == consensus.valid_after
fresh_until_ts == consensus.fresh_until
pub_time == consensus.published[router]

InitProcessing ==
  /\ pc = "closed"
  /\ archive \in Archive
  /\ consensus = None
  /\ routers = {} /\ router = None
  /\ left = {} /\ desc_time = 0
  /\ descs_while_fresh = {} /\ desc_time_fresh = None
  /\ cur_hibernating = FALSE
  /\ descriptors_out = [r \in Relay |-> None]
  /\ hibernating_statuses = <<>>
-----------------------------------------------------------------------------
OpenConsensus(c) ==
  /\ pc = "closed"
  /\ consensus' = c
  /\ routers' = DOMAIN c.published
  /\ descriptors_out' = [r \in Relay |-> None]
  /\ hibernating_statuses' = <<>>
  /\ pc' = "routers"
  /\ UNCHANGED <<archive, router, left, desc_time, descs_while_fresh,
                 desc_time_fresh, cur_hibernating>>

NextRouter(r) ==
  /\ pc = "routers"
  /\ r \in routers
  /\ router' = r
  /\ routers' = routers \ {r}
  /\ left' = DOMAIN archive[r]
  /\ desc_time' = 0
  /\ descs_while_fresh' = {}
  /\ desc_time_fresh' = None
  /\ pc' = "pass"
  /\ UNCHANGED <<archive, consensus, cur_hibernating, output>>

\* A descriptor fit to simulate with: not too old, and published before the relay's
\* entry in the consensus was, and within the fresh period at the latest.
Fit(t) ==
  /\ valid_after_ts - t < router_max_age
  /\ t <= pub_time
  /\ t <= fresh_until_ts

\* Mutant of Newer: the pass keeps the last it meets.
LastMet(t) == IF Fit(t) THEN t ELSE desc_time

Newer(t) == IF Fit(t) /\ t > desc_time THEN t ELSE desc_time

\* Mutant of WhileFresh: a descriptor of the period's first instant is left out.
AfterStart(t) == t > valid_after_ts /\ t <= fresh_until_ts

WhileFresh(t) == t >= valid_after_ts /\ t <= fresh_until_ts

\* The initial status comes from the latest descriptor before the period, or from
\* the oldest one; what is kept depends on what the pass met first.
Initial(t) ==
  IF \/ desc_time_fresh = None
     \/ /\ desc_time_fresh < valid_after_ts
        /\ t > desc_time_fresh /\ t <= valid_after_ts
     \/ /\ desc_time_fresh >= valid_after_ts
        /\ t < desc_time_fresh
  THEN t ELSE desc_time_fresh

\* One turn of the pass.
LookAt(t) ==
  /\ pc = "pass"
  /\ t \in left
  /\ left' = left \ {t}
  /\ desc_time' = Newer(t)
  /\ descs_while_fresh' = IF WhileFresh(t) THEN descs_while_fresh \cup {t}
                          ELSE descs_while_fresh
  /\ desc_time_fresh' = Initial(t)
  /\ UNCHANGED <<pc, archive, consensus, routers, router, cur_hibernating, output>>

NoDescriptor ==
  /\ pc = "pass"
  /\ left = {}
  /\ desc_time = 0
  /\ pc' = "routers"
  /\ UNCHANGED <<archive, consensus, lookup, output>>

Note(t, hibernating) ==
  /\ cur_hibernating' = hibernating
  /\ hibernating_statuses' = Append(hibernating_statuses, Entry(t, router, hibernating))

\* The descriptor found is output, and the initial status with time 0.
FoundDescriptor ==
  /\ pc = "pass"
  /\ left = {}
  /\ desc_time # 0
  /\ descriptors_out' = [descriptors_out EXCEPT ![router] = desc_time]
  /\ Note(0, archive[router][desc_time_fresh])
  /\ pc' = "changes"
  /\ UNCHANGED <<archive, consensus, routers, router, left, desc_time,
                 descs_while_fresh, desc_time_fresh>>

\* The descriptors of the fresh period in order of time: changes are noted.
NoteChange ==
  /\ pc = "changes"
  /\ \E t \in descs_while_fresh :
       /\ \A s \in descs_while_fresh : t <= s
       /\ descs_while_fresh' = descs_while_fresh \ {t}
       /\ IF archive[router][t] # cur_hibernating
          THEN Note(t, archive[router][t])
          ELSE UNCHANGED <<cur_hibernating, hibernating_statuses>>
  /\ UNCHANGED <<pc, archive, consensus, routers, router, left, desc_time,
                 desc_time_fresh, descriptors_out>>

RouterDone ==
  /\ pc = "changes"
  /\ descs_while_fresh = {}
  /\ pc' = "routers"
  /\ UNCHANGED <<archive, consensus, lookup, output>>

ProcessRouter ==
  \/ \E r \in routers : NextRouter(r)
  \/ \E t \in left : LookAt(t)
  \/ NoDescriptor \/ FoundDescriptor \/ NoteChange \/ RouterDone

\* All relays were looked up; the results are read by others, and the next
\* consensus is opened.
Processed == pc = "routers" /\ routers = {}

CloseConsensus ==
  /\ Processed
  /\ pc' = "closed"
  /\ UNCHANGED <<archive, consensus, lookup, output>>

NextProcessing ==
  \/ \E c \in Consensus : OpenConsensus(c)
  \/ ProcessRouter
  \/ CloseConsensus

SpecProcessing == InitProcessing /\ [][NextProcessing]_processing
-----------------------------------------------------------------------------
(* Properties.                                                             *)

LookedUp == IF pc = "routers" THEN DOMAIN consensus.published \ routers ELSE {}

\* Types.  In particular a relay for which a descriptor is found has one for its
\* initial status: "Did not find descriptor for initial hibernation status" is never
\* raised.
TypeOK ==
  /\ pc \in {"closed", "routers", "pass", "changes"}
  /\ archive \in Archive
  /\ consensus \in Consensus \cup {None}
  /\ pc # "closed" => consensus # None
  /\ routers \subseteq Relay /\ router \in Relay \cup {None}
  /\ left \subseteq Time /\ descs_while_fresh \subseteq Time
  /\ desc_time \in Nat /\ desc_time_fresh \in Time \cup {None}
  /\ desc_time # 0 => desc_time_fresh # None
  /\ cur_hibernating \in BOOLEAN
  /\ descriptors_out \in [Relay -> Time \cup {None}]
  /\ hibernating_statuses \in
       Seq([time : Nat, relay : Relay, hibernating : BOOLEAN])

FitFor(r, t) ==
  /\ valid_after_ts - t < router_max_age
  /\ t <= consensus.published[r] /\ t <= fresh_until_ts

\* The descriptor output for r is its latest fit one, or there is none.
LatestFor(r) ==
  LET fit == {t \in DOMAIN archive[r] : FitFor(r, t)} IN
  \/ fit = {} /\ descriptors_out[r] = None
  \/ descriptors_out[r] \in fit /\ \A t \in fit : t <= descriptors_out[r]

\* Whatever the order of the pass, the descriptor output for a relay is the latest
\* one that is fit, and none is output only when none is fit.
LatestDescriptorFound == \A r \in LookedUp : LatestFor(r)

\* "Prefer most-recent descriptor before fresh period but use oldest after
\* valid_after if necessary": the status of r at the time now, by its descriptors.
StatusAt(r, now) ==
  LET times == DOMAIN archive[r]
      past  == {t \in times : t <= now} IN
  archive[r][IF past # {} THEN CHOOSE t \in past : \A s \in past : s <= t
             ELSE CHOOSE t \in times : \A s \in times : t <= s]

\* The last status noted for r up to the time now.
Noted(r, now, hibernating) ==
  \E i \in DOMAIN hibernating_statuses :
    LET e == hibernating_statuses[i] IN
    /\ e.relay = r /\ e.time <= now /\ e.hibernating = hibernating
    /\ \A j \in DOMAIN hibernating_statuses :
         LET f == hibernating_statuses[j] IN
         f.relay = r /\ f.time <= now => f.time < e.time \/ i = j

TellsHistory(r) ==
  \A now \in valid_after_ts..fresh_until_ts : Noted(r, now, StatusAt(r, now))

\* The statuses tell the history: at every instant of the fresh period the last one
\* noted is that of the relay's latest descriptor.  The initial one need not be,
\* when a descriptor was published at the very start, but a change at that instant
\* is then noted as well.
StatusesTellHistory ==
  \A r \in LookedUp : descriptors_out[r] # None => TellsHistory(r)
=============================================================================
