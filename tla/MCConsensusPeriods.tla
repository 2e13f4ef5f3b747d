-------------------------- MODULE MCConsensusPeriods --------------------------
(***************************************************************************)
(* Two relays with a few descriptors each around two consensuses of four   *)
(* units, with a minute of two units, and an inserted relay.               *)
(***************************************************************************)
EXTENDS ConsensusPeriods, TLC

CONSTANTS r1, r2, a1

\* A descriptor before the period, at its start, within it, in its last minute and at
\* its end; r2 hibernates for a while, or has an old descriptor only.
MCHistory1 == UNION {[S -> BOOLEAN] : S \in SUBSET {3, 5, 7, 8, 9}}
MCHistory2 == {2 :> FALSE, (4 :> TRUE) @@ (6 :> FALSE)}

MCArchive ==
  {(r1 :> h1) @@ (r2 :> h2) : h1 \in MCHistory1, h2 \in MCHistory2}

Doc(t, length, published) ==
  [valid_after |-> t, fresh_until |-> t + length, published |-> published]

MCFirst == Doc(5, 4, (r1 :> 7) @@ (r2 :> 4))
\* The next hour; the one after next; an hour that overlaps; half an hour later.
MCSecond == {Doc(9, 4, (r1 :> 8)), Doc(13, 4, (r1 :> 12) @@ (r2 :> 6)),
             Doc(5, 4, (r1 :> 5)), Doc(7, 4, (r1 :> 7))}
MCLong == Doc(5, 8, (r1 :> 5))

MCFiles == {<<MCFirst, d>> : d \in MCSecond} \cup {<<MCLong, Doc(9, 4, (r2 :> 6))>>}
MCConsensus == {MCFirst, MCLong, Doc(9, 4, (r2 :> 6))} \cup MCSecond
=============================================================================
