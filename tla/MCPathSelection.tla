---------------------------- MODULE MCPathSelection ----------------------------
(***************************************************************************)
(* Small networks for PathSelection.                                       *)
(***************************************************************************)
EXTENDS PathSelectionContract

CONSTANTS g1, g2, g3, m1, e1   \* three guards, a middle and an exit

\* Guards marked BadExit leave e1 as the only exit.
UsualStats ==
  [r \in Relay |->
     CASE r = m1 -> {"Running", "Fast", "Stable"}
       [] r = e1 -> {"Running", "Valid", "Fast", "Stable"}
       [] OTHER  -> {"Running", "Valid", "Guard", "Fast", "Stable", "BadExit"}]

\* The /16 networks 10.1, 10.10, 2.5, 2.6 and 2.7.
NetG1 == <<"1", "0", ".", "1", ".">>
NetG3 == <<"1", "0", ".", "1", "0", ".">>
NetG2 == <<"2", ".", "5", ".">>
NetM1 == <<"2", ".", "6", ".">>
NetE1 == <<"2", ".", "7", ".">>
Alone == <<"3", ".", "8", ".">>
MCAddress == {NetG1, NetG2, NetG3, NetM1, NetE1, Alone}

\* The relays of the set kin list each other as family; g3 lies in net3.
Describe(kin, net3, ntor) ==
  [r \in Relay |->
     [family |-> IF r \in kin THEN kin ELSE {},
      address |-> CASE r = g1 -> NetG1 [] r = g2 -> NetG2 [] r = g3 -> net3
                    [] r = m1 -> NetM1 [] r = e1 -> NetE1,
      ntor    |-> ntor]]

Period(stats, desc) == [rel_stats |-> stats, descriptors |-> desc]

\* g1 is up, not running, or gone from the consensus; g3 is g2's relative, or lies in
\* the network of g1, is related to the exit and not stable, and g1 a second exit; no
\* relay has ntor.
Usual  == Describe({g2, g3}, NetG3, TRUE)
AllUp  == Period(UsualStats, Usual)
G1Down == Period([UsualStats EXCEPT ![g1] = @ \ {"Running"}], Usual)
G1Gone == Period([UsualStats EXCEPT ![g1] = {}], [Usual EXCEPT ![g1] = None])
G3Changed == Period([UsualStats EXCEPT ![g3] = @ \ {"Stable"},
                                       ![g1] = @ \ {"BadExit"}],
                    Describe({g3, e1}, NetG1, TRUE))
NoNtor    == Period(UsualStats, Describe({}, Alone, FALSE))
GuardStates == {AllUp, G1Down, G1Gone, G3Changed, NoNtor}

\* For termination: some guard is always awake and unrelated to the others.
Unrelated == Period(UsualStats, Describe({}, Alone, TRUE))
G1NotRunning == Period([UsualStats EXCEPT ![g1] = @ \ {"Running"}],
                       Describe({}, Alone, TRUE))
EndStates == {Unrelated, G1NotRunning, NoNtor}
AnyGuards == {{}, {g1}, {g1, g2}}
AwakeOrG1 == {{}, {g1}}

MCRetryAge  == <<2, 3, 4>>
MCRetryWait == <<0, 1, 2, 3>>
=============================================================================
